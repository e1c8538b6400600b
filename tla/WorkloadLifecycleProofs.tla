----------------------- MODULE WorkloadLifecycleProofs -----------------------
(***************************************************************************)
(* What the abstract lifecycle is worth: whoever implements it never has a *)
(* workload without its instance, nor one of an earlier instance of the    *)
(* name.                                                                   *)
(***************************************************************************)
EXTENDS WorkloadLifecycle, TLAPS

Shape ==
  /\ instance \in [Names -> Incarnations \cup {0}]
  /\ claimed \in [Names -> BOOLEAN]
  /\ leaving \in [Names -> BOOLEAN]
  /\ workload \in [Names -> [Parts -> Incarnations \cup {0}]]

\* A part that runs is for the incarnation that is there, and that the
\* operator's finalizer holds.
Held ==
  \A n \in Names, p \in Parts :
    workload[n][p] # 0 => workload[n][p] = instance[n] /\ claimed[n]

LifecycleInv == Shape /\ Held

\* A function of functions with one value replaced.
LEMMA PartWrite ==
  ASSUME Shape, NEW n \in Names, NEW p \in Parts, NEW v \in Incarnations \cup {0},
         workload' = [workload EXCEPT ![n][p] = v]
  PROVE  /\ workload' \in [Names -> [Parts -> Incarnations \cup {0}]]
         /\ \A x \in Names, y \in Parts :
              workload'[x][y] = IF x = n /\ y = p THEN v ELSE workload[x][y]
<1>1. workload[n] \in [Parts -> Incarnations \cup {0}]
  BY DEF Shape
<1>2. [workload[n] EXCEPT ![p] = v] \in [Parts -> Incarnations \cup {0}]
  BY <1>1
<1> QED BY <1>1, <1>2 DEF Shape

\* The steps of one name keep the invariant.
LEMMA StepKeeps ==
  ASSUME LifecycleInv, NEW n \in Names,
         \/ Submit(n)
         \/ Claim(n)
         \/ \E p \in Parts : Start(n, p) \/ Stop(n, p)
         \/ Leave(n)
         \/ Vanish(n)
         \/ LetGo(n)
  PROVE  LifecycleInv'
<1>1. CASE Submit(n)
  BY <1>1 DEF Submit, Idle, LifecycleInv, Shape, Held
<1>2. CASE Claim(n)
  BY <1>2 DEF Claim, LifecycleInv, Shape, Held
<1>3. ASSUME NEW p \in Parts, Start(n, p) PROVE LifecycleInv'
  BY <1>3, PartWrite DEF Start, LifecycleInv, Shape, Held
<1>4. ASSUME NEW p \in Parts, Stop(n, p) PROVE LifecycleInv'
  BY <1>4, PartWrite DEF Stop, LifecycleInv, Shape, Held
<1>5. CASE Leave(n)
  <2>1. CASE leaving' = [leaving EXCEPT ![n] = TRUE] /\ UNCHANGED <<instance, claimed, workload>>
    BY <2>1 DEF LifecycleInv, Shape, Held
  <2>2. CASE /\ ~claimed[n]
             /\ instance' = [instance EXCEPT ![n] = 0]
             /\ UNCHANGED <<claimed, leaving, workload>>
    <3>1. Shape'
      BY <2>2 DEF LifecycleInv, Shape
    <3>2. Held'
      BY <2>2 DEF LifecycleInv, Shape, Held
    <3> QED BY <3>1, <3>2 DEF LifecycleInv
  <2> QED BY <1>5, <2>1, <2>2 DEF Leave
<1>6. CASE Vanish(n)
  BY <1>6 DEF Vanish, LifecycleInv, Shape, Held
<1>7. CASE LetGo(n)
  <2>1. claimed' \in [Names -> BOOLEAN] /\ UNCHANGED workload
    BY <1>7 DEF LetGo, LifecycleInv, Shape
  <2>2. instance' \in [Names -> Incarnations \cup {0}] /\ leaving' \in [Names -> BOOLEAN]
    BY <1>7 DEF LetGo, LifecycleInv, Shape
  <2>3. \A x \in Names : x # n => instance'[x] = instance[x] /\ claimed'[x] = claimed[x]
    BY <1>7 DEF LetGo, LifecycleInv, Shape
  <2>4. \A p \in Parts : workload'[n][p] = 0
    BY <1>7 DEF LetGo, Idle
  <2>5. Held'
    BY <2>1, <2>3, <2>4 DEF LifecycleInv, Held
  <2> QED BY <2>1, <2>2, <2>5 DEF LifecycleInv, Shape
<1> QED BY <1>1, <1>2, <1>3, <1>4, <1>5, <1>6, <1>7

\* The promise behind the refinement: a part runs only for the incarnation
\* that is there, with the operator's finalizer on it.  Submit meets no
\* workload, so that none is handed on to a later incarnation.
THEOREM WorkloadHeld == Spec => []Held
<1>1. Init => LifecycleInv
  BY DEF Init, LifecycleInv, Shape, Held
<1>2. LifecycleInv /\ [Next]_vars => LifecycleInv'
  <2> SUFFICES ASSUME LifecycleInv, [Next]_vars PROVE LifecycleInv'
    OBVIOUS
  <2>1. CASE UNCHANGED vars
    BY <2>1 DEF vars, LifecycleInv, Shape, Held
  <2> QED BY <2>1, StepKeeps DEF Next
<1>3. LifecycleInv => Held
  BY DEF LifecycleInv
<1> QED BY <1>1, <1>2, <1>3, PTL DEF Spec
=============================================================================
