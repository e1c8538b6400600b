-------------------------- MODULE MCSingleInstance --------------------------
(***************************************************************************)
(* SingleInstance for the model checker: operator processes are            *)
(* interchangeable, and so are the names of instances.                     *)
(***************************************************************************)
EXTENDS SingleInstance, TLC

Symmetry == Permutations(Managers) \cup Permutations(Names)
=============================================================================
