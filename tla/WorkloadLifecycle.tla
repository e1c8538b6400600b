------------------------- MODULE WorkloadLifecycle -------------------------
(***************************************************************************)
(* What the SingleInstance controller promises of a name, whatever happens *)
(* to its process, its caches and its calls: a workload is started for an  *)
(* instance that is there and that the operator has put its finalizer on,  *)
(* and the finalizer comes off when the workload is gone.  A name can then *)
(* be used again without meeting the workload of an earlier instance.      *)
(***************************************************************************)
EXTENDS Integers

CONSTANTS
  Names,
  Incarnations   \* what tells one use of a name from the next, never 0

VARIABLES
  instance,   \* the incarnation that is there, 0 for none
  claimed,    \* the operator's finalizer is on it
  leaving,    \* its deletion has been asked for
  workload    \* the parts that run: each with the incarnation it is for

Parts == {"Deployment", "Service"}

Init ==
  /\ instance = [n \in Names |-> 0]
  /\ claimed = [n \in Names |-> FALSE]
  /\ leaving = [n \in Names |-> FALSE]
  /\ workload = [n \in Names |-> [p \in Parts |-> 0]]

Idle(n) == \A p \in Parts : workload[n][p] = 0

\* A user submits an instance, with the finalizer or without.
Submit(n) ==
  /\ instance[n] = 0
  /\ Idle(n)
  /\ \E i \in Incarnations : instance' = [instance EXCEPT ![n] = i]
  /\ \E own \in BOOLEAN : claimed' = [claimed EXCEPT ![n] = own]
  /\ UNCHANGED <<leaving, workload>>

Claim(n) ==
  /\ instance[n] # 0
  /\ ~leaving[n]
  /\ ~claimed[n]
  /\ claimed' = [claimed EXCEPT ![n] = TRUE]
  /\ UNCHANGED <<instance, leaving, workload>>

\* A part starts for the incarnation that is there.
Start(n, p) ==
  /\ instance[n] # 0
  /\ claimed[n]
  /\ workload[n][p] = 0
  /\ workload' = [workload EXCEPT ![n][p] = instance[n]]
  /\ UNCHANGED <<instance, claimed, leaving>>

\* A part goes: the operator removes it, or a user does.
Stop(n, p) ==
  /\ workload[n][p] # 0
  /\ workload' = [workload EXCEPT ![n][p] = 0]
  /\ UNCHANGED <<instance, claimed, leaving>>

\* A deletion is asked for; nobody's finalizer keeps the instance, or one does.
Leave(n) ==
  /\ instance[n] # 0
  /\ ~leaving[n]
  /\ \/ /\ leaving' = [leaving EXCEPT ![n] = TRUE]
        /\ UNCHANGED <<instance, claimed, workload>>
     \/ /\ ~claimed[n]
        /\ instance' = [instance EXCEPT ![n] = 0]
        /\ UNCHANGED <<claimed, leaving, workload>>

\* What is left of a deleted instance once the last finalizer is off.
Vanish(n) ==
  /\ leaving[n]
  /\ ~claimed[n]
  /\ instance' = [instance EXCEPT ![n] = 0]
  /\ leaving' = [leaving EXCEPT ![n] = FALSE]
  /\ UNCHANGED <<claimed, workload>>

LetGo(n) ==
  /\ leaving[n]
  /\ claimed[n]
  /\ Idle(n)
  /\ claimed' = [claimed EXCEPT ![n] = FALSE]
  /\ \/ UNCHANGED <<instance, leaving>>
     \/ /\ instance' = [instance EXCEPT ![n] = 0]
        /\ leaving' = [leaving EXCEPT ![n] = FALSE]
  /\ UNCHANGED workload

Next ==
  \E n \in Names :
    \/ Submit(n)
    \/ Claim(n)
    \/ \E p \in Parts : Start(n, p) \/ Stop(n, p)
    \/ Leave(n)
    \/ Vanish(n)
    \/ LetGo(n)

vars == <<instance, claimed, leaving, workload>>

Spec == Init /\ [][Next]_vars
=============================================================================
