------------------------- MODULE MCGroupReplication -------------------------
(* GroupReplication for TLC: lists of member sizes, which a configuration  *)
(* file has no notation for, and the symmetry of the operator processes.   *)
EXTENDS GroupReplication, TLC

\* With and without a first member, and with the first size missing.
MixedLists == {<<>>, <<3, NoSize>>, <<NoSize, 1>>}

\* The list of example/cluster/groupreplicationclusters.yaml, without the
\* arbitrator, for a primary of two.
ExampleLists == {<<2, 1>>}

Symmetry == Permutations(Managers)
=============================================================================
