----------------------- MODULE GroupReplicationProofs -----------------------
(***************************************************************************)
(* Proofs about the GroupReplicationCluster controller, for any number of  *)
(* operator processes, clusters, member lists, faults and crashes.         *)
(***************************************************************************)
EXTENDS GroupReplication, SequenceTheorems, TLAPS

Busy == Stages \ {"down", "idle"}

\* A worker in the middle of a request knows whose request it is.
KeyOK == \A m \in Managers : work[m].pc \in Busy => work[m].key \in Names

TypeInv == TypeOK /\ KeyOK

Budget == [faults: Nat, crashes: Nat, touches: Nat, drops: Nat]

-----------------------------------------------------------------------------
(* The types of what the actions are built from.                           *)

\* The stages of a request, by name.
LEMMA BusyStages ==
  /\ Busy = {"lookup"} \cup CallStages
  /\ Busy \subseteq Stages
  /\ PastSecret \subseteq Busy
  BY SMT DEF Busy, Stages, CallStages, PastSecret

\* The objects of the first ordinal are there, and told apart by their kind.
LEMMA KeysFacts ==
  /\ 1 \in Ordinals
  /\ {SecretKey, ServiceKey, StatefulSetKey, ConfigMapKey(1), ClaimKey(1)} \subseteq Keys
  /\ \A i \in Ordinals : ConfigMapKey(i) \in Keys /\ ClaimKey(i) \in Keys
  /\ Read \subseteq Keys
  /\ StatefulSetKey \in Read /\ ConfigMapKey(1) \in Read
  /\ \A k \in {SecretKey, ServiceKey, ConfigMapKey(1), ClaimKey(1)} : k # StatefulSetKey
<1>1. 1 \in Ordinals
  BY ConstantsAssumption, SMT DEF Ordinals
<1>2. \A k \in {SecretKey, ServiceKey, ConfigMapKey(1), ClaimKey(1)} : k # StatefulSetKey
  BY SMT DEF SecretKey, ServiceKey, ConfigMapKey, ClaimKey, StatefulSetKey
<1> QED BY <1>1, <1>2 DEF Keys, Read

\* The absent objects have the types of present ones.
LEMMA NoneType == NoCluster \in Cluster /\ NoChild \in Child
  BY SMT DEF NoCluster, Cluster, AllShapes, NoChild, Child

\* A manifest carries owner and version of the cluster.
LEMMA ManifestType ==
  ASSUME NEW o \in Cluster, NEW k
  PROVE  Manifest(o, k) \in Child /\ Manifest(o, k).live
  BY SMT DEF Manifest, Cluster, Child

\* The webhook keeps a list of sizes a list of sizes.
LEMMA AdmittedType ==
  ASSUME NEW members \in Seq(Int) PROVE Admitted(members) \in Seq(Int)
<1> DEFINE v == IF members[2] = NoSize THEN 3 ELSE Increment(members[2])
<1>1. CASE Len(members) > 1 /\ GetSize(members[1]) < 3
  <2>1. members[2] \in Int
    BY <1>1, SMT
  <2>2. v \in Int
    BY <2>1, SMT DEF Increment, MaxInt32
  <2>3. Default(members) = [members EXCEPT ![2] = v]
    BY <1>1 DEF Default
  <2> HIDE DEF v
  <2>4. [members EXCEPT ![2] = v] \in Seq(Int)
    BY <1>1, <2>2, ExceptSeq
  <2> QED BY <2>3, <2>4 DEF Admitted
<1> QED BY <1>1 DEF Admitted, Default

\* A worker at rest, in any stage.
LEMMA RestType ==
  \A s \in Stages : Rest(s) \in Work /\ Rest(s).pc = s /\ Rest(s).at = 1
  BY NoneType, KeysFacts, SMT DEF Rest, Work

\* Moving a worker touches no other worker.
LEMMA MoveType ==
  ASSUME TypeInv, NEW m \in Managers, NEW w \in Work,
         w.pc \in Busy => w.key \in Names, Move(m, w)
  PROVE  /\ work' \in [Managers -> Work]
         /\ work'[m] = w
         /\ \A o \in Managers : o # m => work'[o] = work[o]
         /\ KeyOK'
  BY SMT DEF Move, TypeInv, TypeOK, KeyOK

\* A worker that only changes its stage keeps what it holds.
LEMMA WorkExcept ==
  ASSUME NEW w \in Work, NEW s \in Stages
  PROVE  /\ [w EXCEPT !.pc = s] \in Work
         /\ [w EXCEPT !.pc = s].pc = s
         /\ [w EXCEPT !.pc = s].key = w.key
         /\ [w EXCEPT !.pc = s].at = w.at
  BY Zenon DEF Work

\* Going to another stage.
LEMMA GotoType ==
  ASSUME TypeInv, NEW m \in Managers, NEW s \in Stages, work[m].pc \in Busy,
         Goto(m, s)
  PROVE  /\ work' \in [Managers -> Work]
         /\ work'[m].pc = s
         /\ work'[m].key = work[m].key
         /\ work'[m].at = work[m].at
         /\ \A o \in Managers : o # m => work'[o] = work[o]
         /\ KeyOK'
<1> DEFINE w == [work[m] EXCEPT !.pc = s]
<1>0. work[m] \in Work /\ work[m].key \in Names
  BY DEF TypeInv, TypeOK, KeyOK
<1>1. w \in Work /\ w.key = work[m].key /\ w.at = work[m].at /\ w.pc = s
  BY <1>0, WorkExcept
<1>2. Move(m, w)
  BY DEF Goto
<1> HIDE DEF w
<1> QED BY <1>0, <1>1, <1>2, MoveType

\* Coming to rest.
LEMMA QuitType ==
  ASSUME TypeInv, NEW m \in Managers, NEW s \in {"idle", "down"},
         Move(m, Rest(s))
  PROVE  /\ work' \in [Managers -> Work]
         /\ work'[m].pc = s
         /\ work'[m].at = 1
         /\ \A o \in Managers : o # m => work'[o] = work[o]
         /\ KeyOK'
<1>1. Rest(s) \in Work /\ Rest(s).pc = s /\ Rest(s).at = 1 /\ s \notin Busy
  BY RestType, SMT DEF Stages, Busy
<1>2. QED BY <1>1, MoveType

\* How a stage ends: the worker goes on with its request, or is done with it.
Ends(m, stages) ==
  /\ work' \in [Managers -> Work]
  /\ queue' \in [Managers -> SUBSET Names]
  /\ KeyOK'
  /\ \A o \in Managers : o # m => work'[o] = work[o]
  /\ \/ work'[m].pc \in {"idle", "down"} /\ work'[m].at = 1
     \/ /\ work'[m].pc \in stages
        /\ work'[m].key = work[m].key
        /\ work'[m].at \in {1, work[m].at}

\* Returning an error queues the request again.
LEMMA ReturnErrEnds ==
  ASSUME TypeInv, NEW m \in Managers, NEW S, work[m].pc \in Busy, ReturnErr(m)
  PROVE  Ends(m, S)
<1>1. queue' \in [Managers -> SUBSET Names]
  BY SMT DEF ReturnErr, TypeInv, TypeOK, KeyOK
<1> QED BY <1>1, QuitType DEF ReturnErr, Ends

\* Returning without one does not.
LEMMA ReturnOkEnds ==
  ASSUME TypeInv, NEW m \in Managers, NEW S, ReturnOk(m)
  PROVE  Ends(m, S)
<1>1. queue' \in [Managers -> SUBSET Names]
  BY DEF ReturnOk, TypeInv, TypeOK
<1> QED BY <1>1, QuitType DEF ReturnOk, Ends

\* The end of a process.
LEMMA DieEnds ==
  ASSUME TypeInv, NEW m \in Managers, NEW S, Die(m)
  PROVE  Ends(m, S)
<1>1. queue' \in [Managers -> SUBSET Names]
  BY SMT DEF Die, TypeInv, TypeOK
<1> QED BY <1>1, QuitType DEF Die, Ends

\* The next stage of the request.
LEMMA GotoEnds ==
  ASSUME TypeInv, NEW m \in Managers, NEW s \in Stages, work[m].pc \in Busy,
         Goto(m, s), UNCHANGED queue
  PROVE  Ends(m, {s})
<1>1. queue' \in [Managers -> SUBSET Names]
  BY DEF TypeInv, TypeOK
<1> QED BY <1>1, GotoType DEF Ends

\* The loop runs for the first ordinal, or not at all.
LEMMA LoopEnds ==
  ASSUME TypeInv, NEW m \in Managers, NEW i \in Nat \ {0}, work[m].pc \in Busy, Loop(m, i)
  PROVE  Ends(m, IF i = 1 THEN {"getCm", "mkSvc"} ELSE {"mkSvc"})
<1> DEFINE size == GetSize(work[m].obj.members[1])
           v == [work[m] EXCEPT !.pc = "getCm", !.at = i]
<1>0. work[m] \in Work /\ work[m].key \in Names /\ {"getCm", "mkSvc"} \subseteq Stages
  BY DEF TypeInv, TypeOK, KeyOK, Stages
<1>1. queue' \in [Managers -> SUBSET Names]
  BY DEF Loop, TypeInv, TypeOK
<1>2. size \in {0, 1}
  BY DEF GetSize
<1> HIDE DEF size
<1>3. CASE i <= size
  <2>1. i = 1
    BY <1>2, <1>3, SMT
  <2>2. v \in Work /\ v.pc = "getCm" /\ v.key = work[m].key /\ v.at = i
    BY <1>0, <2>1, KeysFacts, Zenon DEF Work
  <2>3. Move(m, v)
    BY <1>3 DEF Loop, size
  <2> HIDE DEF v
  <2> QED BY <1>0, <1>1, <2>1, <2>2, <2>3, MoveType DEF Ends
<1>4. CASE ~(i <= size)
  <2>1. Goto(m, "mkSvc")
    BY <1>4 DEF Loop, Goto, size
  <2> QED BY <1>0, <2>1, GotoEnds DEF Loop, Ends
<1> QED BY <1>3, <1>4

\* A function with one value replaced.
LEMMA FunctionWrite ==
  ASSUME NEW S, NEW T, NEW f \in [S -> T], NEW x, NEW v, x \in S => v \in T
  PROVE  /\ [f EXCEPT ![x] = v] \in [S -> T]
         /\ \A y \in S : [f EXCEPT ![x] = v][y] = IF y = x THEN v ELSE f[y]
<1>1. \A y \in S : [f EXCEPT ![x] = v][y] = IF y = x THEN v ELSE f[y]
  OBVIOUS
<1>2. [f EXCEPT ![x] = v] = [y \in S |-> IF y = x THEN v ELSE f[y]]
  OBVIOUS
<1>3. [y \in S |-> IF y = x THEN v ELSE f[y]] \in [S -> T]
  OBVIOUS
<1> QED BY <1>1, <1>2, <1>3

\* A function of functions with one value replaced.
LEMMA NestedWrite ==
  ASSUME NEW S, NEW T, NEW U, NEW f \in [S -> [T -> U]], NEW x \in S, NEW k \in T,
         NEW v \in U
  PROVE  /\ [f EXCEPT ![x][k] = v] \in [S -> [T -> U]]
         /\ \A s \in S, t \in T :
              [f EXCEPT ![x][k] = v][s][t] = IF s = x /\ t = k THEN v ELSE f[s][t]
<1> DEFINE g == [f[x] EXCEPT ![k] = v]
<1>1. g \in [T -> U] /\ \A t \in T : g[t] = IF t = k THEN v ELSE f[x][t]
  BY FunctionWrite
<1>2. [f EXCEPT ![x][k] = v] = [f EXCEPT ![x] = g]
  OBVIOUS
<1> HIDE DEF g
<1>3. /\ [f EXCEPT ![x] = g] \in [S -> [T -> U]]
      /\ \A s \in S : [f EXCEPT ![x] = g][s] = IF s = x THEN g ELSE f[s]
  BY <1>1, FunctionWrite
<1> QED BY <1>1, <1>2, <1>3

\* Child k of n becomes c, and the others stay what they are.
Writes(n, k, c) ==
  \A x \in Names, y \in Keys : kids'[x][y] = IF x = n /\ y = k THEN c ELSE kids[x][y]

\* A write of one child leaves the others alone.
LEMMA ChildWrite ==
  ASSUME TypeInv, NEW n \in Names, NEW k \in Keys, NEW c \in Child,
         kids' = [kids EXCEPT ![n][k] = c]
  PROVE  kids' \in [Names -> [Keys -> Child]] /\ Writes(n, k, c)
<1>1. kids \in [Names -> [Keys -> Child]]
  BY DEF TypeInv, TypeOK
<1> QED BY <1>1, NestedWrite DEF Writes

\* What the creation of a child does to the store.
Creates(m, k) ==
  /\ ~kids[work[m].key][k].live
  /\ \A x \in Names, y \in Keys :
       kids'[x][y].live <=> (x = work[m].key /\ y = k) \/ kids[x][y].live

\* The creation of a child, accepted or refused.
LEMMA CreateChildType ==
  ASSUME TypeInv, NEW m \in Managers, NEW k \in Keys, NEW ACTION next,
         work[m].pc \in Busy, CreateChild(m, k, next)
  PROVE  /\ kids' \in [Names -> [Keys -> Child]]
         /\ UNCHANGED <<cr, born, crCache, kidCache, budget>>
         /\ \/ next /\ Creates(m, k)
            \/ ReturnErr(m) /\ UNCHANGED kids
<1> DEFINE n == work[m].key
           c == Manifest(work[m].obj, k)
<1>0. n \in Names /\ work[m].obj \in Cluster
  BY SMT DEF TypeInv, TypeOK, KeyOK, Work
<1>1. c \in Child /\ c.live
  BY <1>0, ManifestType
<1>2. UNCHANGED <<cr, born, crCache, kidCache, budget>>
  BY DEF CreateChild, caches
<1>3. CASE ReturnErr(m) /\ UNCHANGED kids
  BY <1>2, <1>3 DEF TypeInv, TypeOK
<1>4. CASE ~kids[n][k].live /\ kids' = [kids EXCEPT ![n][k] = c] /\ next
  <2> HIDE DEF c
  <2>1. kids' \in [Names -> [Keys -> Child]] /\ Writes(n, k, c)
    BY <1>0, <1>1, <1>4, ChildWrite
  <2>2. \A x \in Names, y \in Keys :
          kids'[x][y].live <=> (x = n /\ y = k) \/ kids[x][y].live
    <3> SUFFICES ASSUME NEW x \in Names, NEW y \in Keys
                 PROVE  kids'[x][y].live <=> (x = n /\ y = k) \/ kids[x][y].live
      OBVIOUS
    <3>1. CASE x = n /\ y = k
      BY <1>1, <2>1, <3>1 DEF Writes
    <3>2. CASE ~(x = n /\ y = k)
      <4>1. kids'[x][y] = kids[x][y]
        BY <2>1, <3>2 DEF Writes
      <4> QED BY <3>2, <4>1
    <3> QED BY <3>1, <3>2
  <2>3. Creates(m, k)
    BY <1>4, <2>2 DEF Creates
  <2> QED BY <1>2, <1>4, <2>1, <2>3
<1> QED BY <1>3, <1>4 DEF CreateChild

-----------------------------------------------------------------------------
(* What a stage does, with the data left out.                              *)

\* The worker m makes child k, and goes on in one of the stages given.
Makes(m, k, stages) == Creates(m, k) /\ Ends(m, stages)

\* The worker m goes on in one of the stages given, or gives up.
Passes(m, stages) == UNCHANGED kids /\ Ends(m, stages)

\* The stage a worker is in, the child it makes there, and what comes next.
Effect(m) ==
  \/ work[m].pc = "lookup" /\ Passes(m, {"mkSecret"})
  \/ work[m].pc = "mkSecret" /\ Makes(m, SecretKey, {"getCm", "mkSvc"})
  \/ /\ work[m].pc = "getCm"
     /\ Passes(m, IF kidCache[m][work[m].key][ConfigMapKey(work[m].at)].live
                  THEN {"mkClaim"} ELSE {"mkCm"})
  \/ work[m].pc = "mkCm" /\ Makes(m, ConfigMapKey(work[m].at), {"mkClaim"})
  \/ work[m].pc = "mkClaim" /\ Makes(m, ClaimKey(work[m].at), {"mkSts"})
  \/ work[m].pc = "mkSts" /\ Makes(m, StatefulSetKey, {"mkSvc"})
  \/ work[m].pc = "mkSvc" /\ Makes(m, ServiceKey, {})
  \/ work[m].pc \in Busy /\ Passes(m, {})

\* A stage, and a call that fails in it, leave clusters, caches and the users'
\* deletions alone.
StageFrame ==
  /\ UNCHANGED <<cr, born, crCache, kidCache>>
  /\ kids' \in [Names -> [Keys -> Child]]
  /\ budget' \in Budget
  /\ budget'.drops = budget.drops

\* A spent fault or crash.
LEMMA Spent ==
  ASSUME TypeInv
  PROVE  /\ budget \in Budget
         /\ budget.faults > 0 /\ budget' = [budget EXCEPT !.faults = @ - 1]
              => budget' \in Budget /\ budget'.drops = budget.drops
         /\ budget.crashes > 0 /\ budget' = [budget EXCEPT !.crashes = @ - 1]
              => budget' \in Budget /\ budget'.drops = budget.drops
         /\ budget.touches > 0 /\ budget' = [budget EXCEPT !.touches = @ - 1]
              => budget' \in Budget /\ budget'.drops = budget.drops
         /\ budget.drops > 0 /\ budget' = [budget EXCEPT !.drops = @ - 1]
              => budget' \in Budget /\ budget'.drops < budget.drops
<1>1. budget \in Budget
  BY DEF TypeInv, TypeOK, Budget
<1> QED BY <1>1, SMT DEF Budget

\* The lookup only decides whether the round goes on.
LEMMA LookupEffect ==
  ASSUME TypeInv, NEW m \in Managers, LookupStatefulSet(m)
  PROVE  StageFrame /\ Effect(m)
<1>1. work[m].pc = "lookup" /\ work[m].pc \in Busy /\ "mkSecret" \in Stages
  BY SMT DEF LookupStatefulSet, Busy, Stages
<1>2. UNCHANGED <<cr, born, crCache, kidCache, kids>>
  BY DEF LookupStatefulSet, store, caches
<1>3. budget' \in Budget /\ budget'.drops = budget.drops
  BY Spent DEF LookupStatefulSet
<1>4. ReturnOk(m) \/ (Goto(m, "mkSecret") /\ UNCHANGED queue)
  BY DEF LookupStatefulSet
<1>5. Ends(m, {"mkSecret"})
  BY <1>1, <1>4, ReturnOkEnds, GotoEnds
<1> QED BY <1>1, <1>2, <1>3, <1>5 DEF StageFrame, Effect, Passes, TypeInv, TypeOK

\* A stage that makes a child, and what it comes to when the call is refused.
LEMMA CreateStage ==
  ASSUME TypeInv, NEW m \in Managers, NEW k \in Keys, NEW S, NEW ACTION next,
         work[m].pc \in Busy, CreateChild(m, k, next),
         next => Ends(m, S)
  PROVE  StageFrame /\ (Makes(m, k, S) \/ Passes(m, {}))
<1>1. /\ kids' \in [Names -> [Keys -> Child]]
      /\ UNCHANGED <<cr, born, crCache, kidCache, budget>>
      /\ \/ next /\ Creates(m, k)
         \/ ReturnErr(m) /\ UNCHANGED kids
  BY CreateChildType
<1>2. StageFrame
  BY <1>1, Spent DEF StageFrame
<1>3. CASE next /\ Creates(m, k)
  BY <1>2, <1>3 DEF Makes
<1>4. CASE ReturnErr(m) /\ UNCHANGED kids
  BY <1>2, <1>4, ReturnErrEnds DEF Passes
<1> QED BY <1>1, <1>3, <1>4

\* A panic ends the process in the middle of the stage.
LEMMA PanicStage ==
  ASSUME TypeInv, NEW m \in Managers, work[m].pc \in Busy, Die(m),
         UNCHANGED <<store, caches, budget>>
  PROVE  StageFrame /\ Passes(m, {})
<1>1. UNCHANGED <<cr, born, crCache, kidCache, kids, budget>>
  BY DEF store, caches
<1>2. StageFrame
  BY <1>1, Spent DEF StageFrame, TypeInv, TypeOK
<1> QED BY <1>1, <1>2, DieEnds DEF Passes

\* Behind the Secret the loop begins, or the process panics.
LEMMA CreateSecretEffect ==
  ASSUME TypeInv, NEW m \in Managers, CreateSecret(m)
  PROVE  StageFrame /\ Effect(m)
<1> DEFINE next == IF work[m].obj.members = <<>> THEN Die(m) ELSE Loop(m, 1)
<1>1. work[m].pc = "mkSecret" /\ work[m].pc \in Busy
  BY SMT DEF CreateSecret, Busy, Stages
<1>2. CASE CreateChild(m, SecretKey, next)
  <2>1. next => Ends(m, {"getCm", "mkSvc"})
    BY <1>1, DieEnds, LoopEnds
  <2> HIDE DEF next
  <2>2. StageFrame /\ (Makes(m, SecretKey, {"getCm", "mkSvc"}) \/ Passes(m, {}))
    BY <1>1, <1>2, <2>1, KeysFacts, CreateStage
  <2> QED BY <1>1, <2>2 DEF Effect
<1>3. CASE Die(m) /\ UNCHANGED <<store, caches, budget>>
  BY <1>1, <1>3, PanicStage DEF Effect
<1> QED BY <1>2, <1>3 DEF CreateSecret

\* The cache decides whether a ConfigMap is made.
LEMMA GetConfigMapEffect ==
  ASSUME TypeInv, NEW m \in Managers, GetConfigMap(m)
  PROVE  StageFrame /\ Effect(m)
<1> DEFINE there == kidCache[m][work[m].key][ConfigMapKey(work[m].at)].live
           s == IF there THEN "mkClaim" ELSE "mkCm"
<1>1. work[m].pc = "getCm" /\ work[m].pc \in Busy /\ s \in Stages
  BY SMT DEF GetConfigMap, Busy, Stages
<1>2. UNCHANGED <<cr, born, crCache, kidCache, kids, budget>>
  BY DEF GetConfigMap, store, caches
<1>3. Ends(m, {s})
  <2>1. Goto(m, s) /\ UNCHANGED queue
    BY DEF GetConfigMap
  <2> HIDE DEF s
  <2> QED BY <1>1, <2>1, GotoEnds
<1>4. StageFrame
  BY <1>2, Spent DEF StageFrame, TypeInv, TypeOK
<1>5. {s} = IF there THEN {"mkClaim"} ELSE {"mkCm"}
  OBVIOUS
<1> QED BY <1>1, <1>2, <1>3, <1>4, <1>5 DEF Effect, Passes

\* The ConfigMap of the ordinal.
LEMMA CreateConfigMapEffect ==
  ASSUME TypeInv, NEW m \in Managers, CreateConfigMap(m)
  PROVE  StageFrame /\ Effect(m)
<1> DEFINE k == ConfigMapKey(work[m].at)
           next == Goto(m, "mkClaim") /\ UNCHANGED queue
<1>1. work[m].pc = "mkCm" /\ work[m].pc \in Busy /\ "mkClaim" \in Stages
  BY SMT DEF CreateConfigMap, Busy, Stages
<1>2. k \in Keys
  BY KeysFacts DEF TypeInv, TypeOK, Work
<1>3. next => Ends(m, {"mkClaim"})
  BY <1>1, GotoEnds
<1>4. CreateChild(m, k, next)
  BY DEF CreateConfigMap
<1> HIDE DEF next, k
<1>5. StageFrame /\ (Makes(m, k, {"mkClaim"}) \/ Passes(m, {}))
  BY <1>1, <1>2, <1>3, <1>4, CreateStage
<1> QED BY <1>1, <1>5 DEF Effect, k

\* The claim of the ordinal, or a panic.
LEMMA CreateClaimEffect ==
  ASSUME TypeInv, NEW m \in Managers, CreatePersistentVolumeClaim(m)
  PROVE  StageFrame /\ Effect(m)
<1> DEFINE k == ClaimKey(work[m].at)
           next == Goto(m, "mkSts") /\ UNCHANGED queue
<1>1. work[m].pc = "mkClaim" /\ work[m].pc \in Busy /\ "mkSts" \in Stages
  BY SMT DEF CreatePersistentVolumeClaim, Busy, Stages
<1>2. k \in Keys
  BY KeysFacts DEF TypeInv, TypeOK, Work
<1>3. next => Ends(m, {"mkSts"})
  BY <1>1, GotoEnds
<1>4. CASE CreateChild(m, k, next)
  <2> HIDE DEF next, k
  <2>1. StageFrame /\ (Makes(m, k, {"mkSts"}) \/ Passes(m, {}))
    BY <1>1, <1>2, <1>3, <1>4, CreateStage
  <2> QED BY <1>1, <2>1 DEF Effect, k
<1>5. CASE Die(m) /\ UNCHANGED <<store, caches, budget>>
  BY <1>1, <1>5, PanicStage DEF Effect
<1> QED BY <1>4, <1>5 DEF CreatePersistentVolumeClaim

\* The StatefulSet, or a panic.  There is no second ordinal.
LEMMA CreateStatefulSetEffect ==
  ASSUME TypeInv, NEW m \in Managers, CreateStatefulSet(m)
  PROVE  StageFrame /\ Effect(m)
<1> DEFINE next == Loop(m, work[m].at + 1)
<1>1. work[m].pc = "mkSts" /\ work[m].pc \in Busy
  BY SMT DEF CreateStatefulSet, Busy, Stages
<1>2. work[m].at + 1 \in Nat \ {0} /\ work[m].at + 1 # 1
  <2>1. work[m].at \in Ordinals
    BY DEF TypeInv, TypeOK, Work
  <2>2. MaxMembers \in Nat
    BY ConstantsAssumption
  <2> QED BY <2>1, <2>2, SMT DEF Ordinals
<1>3. next => Ends(m, {"mkSvc"})
  <2>1. \A i \in Nat \ {0} : i # 1 /\ Loop(m, i) => Ends(m, {"mkSvc"})
    BY <1>1, LoopEnds
  <2> DEFINE next1 == work[m].at + 1
  <2>2. next1 \in Nat \ {0} /\ next1 # 1
    BY <1>2
  <2> HIDE DEF next1
  <2> QED BY <2>1, <2>2 DEF next1
<1>4. CASE CreateChild(m, StatefulSetKey, next)
  <2> HIDE DEF next
  <2>1. StageFrame /\ (Makes(m, StatefulSetKey, {"mkSvc"}) \/ Passes(m, {}))
    BY <1>1, <1>3, <1>4, KeysFacts, CreateStage
  <2> QED BY <1>1, <2>1 DEF Effect
<1>5. CASE Die(m) /\ UNCHANGED <<store, caches, budget>>
  BY <1>1, <1>5, PanicStage DEF Effect
<1> QED BY <1>4, <1>5 DEF CreateStatefulSet

\* The Service, and the end of the round.
LEMMA CreateServiceEffect ==
  ASSUME TypeInv, NEW m \in Managers, CreateService(m)
  PROVE  StageFrame /\ Effect(m)
<1>1. work[m].pc = "mkSvc" /\ work[m].pc \in Busy
  BY SMT DEF CreateService, Busy, Stages
<1>2. ReturnOk(m) => Ends(m, {})
  BY ReturnOkEnds
<1>3. StageFrame /\ (Makes(m, ServiceKey, {}) \/ Passes(m, {}))
  BY <1>1, <1>2, KeysFacts, CreateStage DEF CreateService
<1> QED BY <1>1, <1>3 DEF Effect

\* A failed call gives the request up.
LEMMA CallFailsEffect ==
  ASSUME TypeInv, NEW m \in Managers, CallFails(m)
  PROVE  StageFrame /\ Effect(m)
<1>1. work[m].pc \in Busy
  BY BusyStages DEF CallFails
<1>2. UNCHANGED <<cr, born, crCache, kidCache, kids>>
  BY DEF CallFails, store, caches
<1>3. budget' \in Budget /\ budget'.drops = budget.drops
  BY Spent DEF CallFails
<1> QED BY <1>1, <1>2, <1>3, ReturnErrEnds
        DEF CallFails, StageFrame, Effect, Passes, TypeInv, TypeOK

\* Every stage of a round has one of the effects.
LEMMA StageEffect ==
  ASSUME TypeInv, NEW m \in Managers, Stage(m) \/ CallFails(m)
  PROVE  StageFrame /\ Effect(m)
  BY LookupEffect, CreateSecretEffect, GetConfigMapEffect, CreateConfigMapEffect,
     CreateClaimEffect, CreateStatefulSetEffect, CreateServiceEffect, CallFailsEffect
     DEF Stage

-----------------------------------------------------------------------------
(* The other actions.                                                      *)

\* What a worker does before its first stage and outside its rounds.
Aside(m) ==
  /\ UNCHANGED kids
  /\ \A o \in Managers : o # m => work'[o] = work[o]
  /\ work'[m].at \in {1, work[m].at}
  /\ work'[m] = work[m] \/ work'[m].pc \in {"idle", "down", "lookup"}
  /\ budget'.drops = budget.drops

\* The caches hold what they held, or what the API server holds.
CachesFollow ==
  \A m \in Managers, n \in Names, k \in Read :
    kidCache'[m][n][k] \in {kidCache[m][n][k], kids[n][k]}

\* A stage keeps the types.
LEMMA StageType ==
  ASSUME TypeInv, NEW m \in Managers, Stage(m) \/ CallFails(m)
  PROVE  TypeInv'
<1>1. StageFrame /\ Effect(m)
  BY StageEffect
<1>2. work' \in [Managers -> Work] /\ queue' \in [Managers -> SUBSET Names] /\ KeyOK'
  BY <1>1 DEF Effect, Makes, Passes, Ends
<1> QED BY <1>1, <1>2 DEF StageFrame, TypeInv, TypeOK, Budget

\* So does taking a request,
LEMMA BeginType ==
  ASSUME TypeInv, NEW m \in Managers, NEW n \in Names, Begin(m, n)
  PROVE  TypeInv' /\ Aside(m) /\ CachesFollow
<1> DEFINE o == crCache[m][n]
           w == [work[m] EXCEPT !.pc = "lookup", !.key = n, !.obj = o]
<1>1. work[m] \in Work /\ o \in Cluster /\ "lookup" \in Stages
  BY DEF TypeInv, TypeOK, Stages
<1>2. queue' \in [Managers -> SUBSET Names]
  BY SMT DEF Begin, TypeInv, TypeOK
<1>3. UNCHANGED <<cr, kids, born, crCache, kidCache, budget>>
  BY DEF Begin, store, caches
<1>4. CachesFollow
  BY <1>3 DEF CachesFollow
<1>5. CASE UNCHANGED work
  BY <1>2, <1>3, <1>4, <1>5 DEF TypeInv, TypeOK, KeyOK, Aside
<1>6. CASE Move(m, w)
  <2>1. \A c \in Cluster :
          LET v == [work[m] EXCEPT !.pc = "lookup", !.key = n, !.obj = c] IN
          v \in Work /\ v.pc = "lookup" /\ v.key = n /\ v.at = work[m].at
    BY <1>1, Zenon DEF Work
  <2>2. w \in Work /\ w.pc = "lookup" /\ w.key = n /\ w.at = work[m].at
    BY <1>1, <2>1
  <2> HIDE DEF w
  <2>3. /\ work' \in [Managers -> Work]
        /\ work'[m] = w
        /\ \A x \in Managers : x # m => work'[x] = work[x]
        /\ KeyOK'
    BY <1>6, <2>2, MoveType
  <2>4. Aside(m)
    BY <1>3, <2>2, <2>3 DEF Aside
  <2> QED BY <1>2, <1>3, <1>4, <2>3, <2>4 DEF TypeInv, TypeOK
<1> QED BY <1>5, <1>6 DEF Begin

\* a crash,
LEMMA CrashType ==
  ASSUME TypeInv, NEW m \in Managers, Crash(m)
  PROVE  TypeInv' /\ Aside(m) /\ CachesFollow
<1>1. budget' \in Budget /\ budget'.drops = budget.drops
  BY Spent DEF Crash
<1>2. UNCHANGED <<cr, kids, born, crCache, kidCache>>
  BY DEF Crash, store, caches
<1>3. Ends(m, {})
  BY DieEnds DEF Crash
<1>4. Aside(m) /\ CachesFollow
  BY <1>1, <1>2, <1>3 DEF Ends, Aside, CachesFollow
<1> QED BY <1>1, <1>2, <1>3, <1>4 DEF Ends, TypeInv, TypeOK, Budget

\* a restart,
LEMMA RestartType ==
  ASSUME TypeInv, NEW m \in Managers, Restart(m)
  PROVE  TypeInv' /\ Aside(m) /\ CachesFollow
<1> DEFINE listed == [n \in Names |-> [k \in Read |-> kids[n][k]]]
<1>1. /\ work' \in [Managers -> Work]
      /\ work'[m].pc = "idle"
      /\ work'[m].at = 1
      /\ \A o \in Managers : o # m => work'[o] = work[o]
      /\ KeyOK'
  BY QuitType DEF Restart
<1>2. queue' \in [Managers -> SUBSET Names]
  BY SMT DEF Restart, TypeInv, TypeOK
<1>3. crCache' \in [Managers -> [Names -> Cluster]]
  BY SMT DEF Restart, TypeInv, TypeOK
<1>4. listed \in [Names -> [Read -> Child]]
  BY KeysFacts, SMT DEF TypeInv, TypeOK
<1>5. \A n \in Names, k \in Read : listed[n][k] = kids[n][k]
  OBVIOUS
<1>6. kidCache' = [kidCache EXCEPT ![m] = listed]
  BY DEF Restart
<1> HIDE DEF listed
<1>7. /\ kidCache' \in [Managers -> [Names -> [Read -> Child]]]
      /\ \A x \in Managers : kidCache'[x] = IF x = m THEN listed ELSE kidCache[x]
  BY <1>4, <1>6, FunctionWrite DEF TypeInv, TypeOK
<1>8. CachesFollow
  BY <1>5, <1>7 DEF CachesFollow
<1>9. Aside(m)
  BY <1>1 DEF Restart, Aside, store
<1> QED BY <1>1, <1>2, <1>3, <1>7, <1>8, <1>9 DEF Restart, TypeInv, TypeOK, store

\* and a watch event.
LEMMA SyncType ==
  ASSUME TypeInv, NEW m \in Managers, NEW n \in Names, NEW k \in Read,
         SyncCluster(m, n) \/ SyncChild(m, n, k)
  PROVE  TypeInv' /\ Aside(m) /\ CachesFollow
<1>1. queue' \in [Managers -> SUBSET Names]
  <2>1. queue \in [Managers -> SUBSET Names]
    BY DEF TypeInv, TypeOK
  <2>2. PICK q \in SUBSET Names : queue' = [queue EXCEPT ![m] = q]
    <3>1. queue[m] \in SUBSET Names /\ queue[m] \cup {n} \in SUBSET Names
      BY <2>1
    <3> QED BY <3>1 DEF SyncCluster, SyncChild
  <2> QED BY <2>1, <2>2, FunctionWrite
<1>2. UNCHANGED <<cr, kids, born, work, budget>>
  BY DEF SyncCluster, SyncChild, store
<1>3. KeyOK' /\ Aside(m)
  BY <1>2 DEF TypeInv, KeyOK, Aside
<1>4. CASE SyncCluster(m, n)
  <2>1. crCache' \in [Managers -> [Names -> Cluster]]
    BY <1>4, SMT DEF SyncCluster, TypeInv, TypeOK
  <2>2. UNCHANGED kidCache
    BY <1>4 DEF SyncCluster
  <2> QED BY <1>1, <1>2, <1>3, <2>1, <2>2 DEF TypeInv, TypeOK, CachesFollow
<1>5. CASE SyncChild(m, n, k)
  <2> DEFINE g == [kidCache[m] EXCEPT ![n][k] = kids[n][k]]
  <2>1. kids[n][k] \in Child
    BY KeysFacts DEF TypeInv, TypeOK
  <2>2. /\ g \in [Names -> [Read -> Child]]
        /\ \A x \in Names, y \in Read :
             g[x][y] = IF x = n /\ y = k THEN kids[n][k] ELSE kidCache[m][x][y]
    BY <2>1, NestedWrite DEF TypeInv, TypeOK
  <2>3. kidCache' = [kidCache EXCEPT ![m] = g] /\ UNCHANGED crCache
    BY <1>5 DEF SyncChild
  <2> HIDE DEF g
  <2>4. /\ kidCache' \in [Managers -> [Names -> [Read -> Child]]]
        /\ \A x \in Managers : kidCache'[x] = IF x = m THEN g ELSE kidCache[x]
    BY <2>2, <2>3, FunctionWrite DEF TypeInv, TypeOK
  <2>5. CachesFollow
    BY <2>2, <2>4 DEF CachesFollow
  <2> QED BY <1>1, <1>2, <1>3, <2>3, <2>4, <2>5 DEF TypeInv, TypeOK
<1> QED BY <1>4, <1>5

\* The users write clusters,
LEMMA UserClusterType ==
  ASSUME TypeInv, NEW n \in Names,
         UserCreates(n) \/ UserEdits(n) \/ UserTouches(n) \/ UserDeletes(n)
  PROVE  /\ TypeInv'
         /\ UNCHANGED <<kids, kidCache, work>>
         /\ budget'.drops = budget.drops
<1>1. cr[n] \in Cluster /\ born[n] \in Nat
  BY DEF TypeInv, TypeOK
<1>2. /\ budget' \in Budget /\ budget'.drops = budget.drops
      /\ UNCHANGED <<kids, crCache, kidCache, queue, work>>
  BY Spent DEF UserCreates, UserEdits, UserTouches, UserDeletes, caches
<1>3. born' \in [Names -> Nat]
  <2>1. born' = born \/ born' = [born EXCEPT ![n] = born[n] + 1]
    BY DEF UserCreates, UserEdits, UserTouches, UserDeletes
  <2>2. born[n] + 1 \in Nat
    BY <1>1, SMT
  <2> QED BY <2>1, <2>2, FunctionWrite DEF TypeInv, TypeOK
<1>4. \A members \in MemberLists : Admitted(members) \in Seq(Int)
  BY ConstantsAssumption, AdmittedType
<1>5. PICK c \in Cluster : cr' = [cr EXCEPT ![n] = c]
  <2>1. CASE UserCreates(n)
    <3>1. PICK shape \in Shapes, members \in MemberLists :
            cr' = [cr EXCEPT ![n] = [uid |-> born[n] + 1, ver |-> 1, shape |-> shape,
                                     members |-> Admitted(members)]]
      BY <2>1 DEF UserCreates
    <3>2. /\ born[n] + 1 \in Nat /\ 1 \in Nat /\ shape \in AllShapes
          /\ Admitted(members) \in Seq(Int)
      BY <1>1, <1>4, ConstantsAssumption, SMT
    <3> QED BY <3>1, <3>2 DEF Cluster
  <2>2. CASE UserEdits(n)
    <3>1. PICK shape \in Shapes, members \in MemberLists :
            cr' = [cr EXCEPT ![n].ver = @ + 1, ![n].shape = shape,
                             ![n].members = Admitted(members)]
      BY <2>2 DEF UserEdits
    <3> DEFINE c == [cr[n] EXCEPT !.ver = @ + 1, !.shape = shape,
                                  !.members = Admitted(members)]
    <3>2. cr[n].ver + 1 \in Nat /\ shape \in AllShapes /\ Admitted(members) \in Seq(Int)
      BY <1>1, <1>4, ConstantsAssumption, SMT DEF Cluster
    <3>3. c \in Cluster
      BY <1>1, <3>2, Zenon DEF Cluster
    <3>4. cr' = [cr EXCEPT ![n] = c]
      BY <3>1, <1>1 DEF TypeInv, TypeOK
    <3> QED BY <3>3, <3>4
  <2>3. CASE UserTouches(n)
    <3> DEFINE c == [cr[n] EXCEPT !.members = Admitted(@)]
    <3>1. Admitted(cr[n].members) \in Seq(Int)
      BY <1>1, AdmittedType DEF Cluster
    <3>2. c \in Cluster
      BY <1>1, <3>1, Zenon DEF Cluster
    <3>3. cr' = [cr EXCEPT ![n] = c]
      BY <2>3 DEF UserTouches
    <3> QED BY <3>2, <3>3
  <2>4. CASE UserDeletes(n)
    BY <2>4, NoneType DEF UserDeletes
  <2> QED BY <2>1, <2>2, <2>3, <2>4
<1>6. cr' \in [Names -> Cluster]
  BY <1>5, FunctionWrite DEF TypeInv, TypeOK
<1> QED BY <1>2, <1>3, <1>6 DEF TypeInv, TypeOK, KeyOK, Budget

\* and remove children, as the garbage collector does.
LEMMA RemovalType ==
  ASSUME TypeInv, NEW n \in Names, NEW k \in Keys,
         UserDrops(n, k) \/ (CollectStatefulSet(n) /\ k = StatefulSetKey)
  PROVE  /\ TypeInv'
         /\ UNCHANGED <<kidCache, work>>
         /\ Writes(n, k, NoChild)
<1>1. kids' = [kids EXCEPT ![n][k] = NoChild]
  BY DEF UserDrops, CollectStatefulSet
<1>2. kids' \in [Names -> [Keys -> Child]] /\ Writes(n, k, NoChild)
  BY <1>1, NoneType, ChildWrite
<1>3. budget' \in Budget
  BY Spent DEF UserDrops, CollectStatefulSet
<1>4. UNCHANGED <<cr, born, crCache, kidCache, queue, work>>
  BY DEF UserDrops, CollectStatefulSet, caches
<1> QED BY <1>2, <1>3, <1>4 DEF TypeInv, TypeOK, KeyOK, Budget

\* The initial state has the types.
LEMMA InitType == Init => TypeInv
<1> SUFFICES ASSUME Init PROVE TypeInv
  OBVIOUS
<1>1. Rest("down") \in Work /\ Rest("down").pc \notin Busy
  BY RestType, SMT DEF Stages, Busy
<1>2. budget \in Budget
  BY ConstantsAssumption, SMT DEF Init, Budget
<1> QED BY <1>1, <1>2, NoneType DEF Init, TypeInv, TypeOK, KeyOK, Budget

\* The others take claims, and may end the process.
LEMMA ElsewhereType ==
  ASSUME TypeInv, Elsewhere
  PROVE  /\ TypeInv'
         /\ UNCHANGED <<kidCache, budget>>
         /\ \A n \in Names, k \in Keys :
              \/ kids'[n][k] = kids[n][k]
              \/ kids'[n][k] = NoChild /\ k \in {ClaimKey(i) : i \in Ordinals}
         /\ UNCHANGED work \/ \E m \in Managers : Ends(m, {})
<1>1. UNCHANGED <<cr, born, crCache, kidCache, budget>>
  BY DEF Elsewhere, caches
<1>2. PICK lost \in SUBSET (Names \X Ordinals) : ClaimsLost(lost)
  BY DEF Elsewhere
<1>3. \A n \in Names, k \in Keys :
        \/ kids'[n][k] = kids[n][k]
        \/ kids'[n][k] = NoChild /\ k \in {ClaimKey(i) : i \in Ordinals}
  BY <1>2 DEF ClaimsLost
<1>4. kids' \in [Names -> [Keys -> Child]]
  <2> DEFINE c(n, k) == IF \E i \in Ordinals : k = ClaimKey(i) /\ <<n, i>> \in lost
                        THEN NoChild ELSE kids[n][k]
  <2>1. \A n \in Names, k \in Keys : c(n, k) \in Child
    BY NoneType DEF TypeInv, TypeOK
  <2>2. kids' = [n \in Names |-> [k \in Keys |-> c(n, k)]]
    BY <1>2 DEF ClaimsLost
  <2> HIDE DEF c
  <2> QED BY <2>1, <2>2
<1>5. CASE UNCHANGED <<queue, work>>
  BY <1>1, <1>3, <1>4, <1>5 DEF TypeInv, TypeOK, KeyOK
<1>6. ASSUME NEW m \in Managers, Die(m)
      PROVE  TypeInv' /\ Ends(m, {})
  <2>1. Ends(m, {})
    BY <1>6, DieEnds
  <2> QED BY <1>1, <1>4, <2>1 DEF Ends, TypeInv, TypeOK
<1> QED BY <1>1, <1>3, <1>5, <1>6 DEF Elsewhere

\* Every step keeps them, also among others.
LEMMA NextType == TypeInv /\ [OpenNext]_vars => TypeInv'
<1> SUFFICES ASSUME TypeInv, [OpenNext]_vars PROVE TypeInv'
  OBVIOUS
<1>1. CASE UNCHANGED vars
  BY <1>1 DEF vars, TypeInv, TypeOK, KeyOK
<1>2. ASSUME NEW m \in Managers, Manager(m) PROVE TypeInv'
  BY <1>2, StageType, BeginType, CrashType, RestartType, SyncType, KeysFacts DEF Manager
<1>3. ASSUME NEW n \in Names, User(n) \/ CollectStatefulSet(n) PROVE TypeInv'
  BY <1>3, UserClusterType, RemovalType, KeysFacts DEF User
<1> QED BY <1>1, <1>2, <1>3, ElsewhereType DEF OpenNext, Next

\* The types hold among others,
LEMMA TypesAmongOthers == OpenSpec => []TypeInv
  BY InitType, NextType, PTL DEF OpenSpec

\* and so for the controller alone, which is one of the cases of that.
LEMMA SpecIsOpen == Spec => OpenSpec
<1>1. [Next]_vars => [OpenNext]_vars
  BY DEF OpenNext
<1> QED BY <1>1, PTL DEF Spec, OpenSpec

\* The variables of the model have their types in every reachable state: the
\* loop over the ordinals in particular never leaves the ordinals there are
\* objects for, however large the sizes the users ask for.
THEOREM TypeCorrect == Spec => []TypeOK
<1>1. TypeInv => TypeOK
  BY DEF TypeInv
<1> QED BY <1>1, SpecIsOpen, TypesAmongOthers, PTL

-----------------------------------------------------------------------------
(* One creator.                                                            *)

\* The loop never comes to a second ordinal.
FirstOnly == \A m \in Managers : work[m].at = 1

\* A deletion by the users is spent for good.
DropsLeft == budget.drops <= MaxDrops

\* A worker past the Secret has made it.
SecretHeld ==
  \A m \in Managers : work[m].pc \in PastSecret => kids[work[m].key][SecretKey].live

\* A ConfigMap in a cache is there.
CachesTrue ==
  \A m \in Managers, n \in Names :
    kidCache[m][n][ConfigMapKey(1)].live => kids[n][ConfigMapKey(1)].live

\* A worker past the ConfigMap has seen or made it.
ConfigMapHeld ==
  \A m \in Managers :
    work[m].pc \in {"mkClaim", "mkSts"} => kids[work[m].key][ConfigMapKey(1)].live

\* A StatefulSet has all of its configuration that nobody else may delete.
SetUpComplete ==
  budget.drops = MaxDrops =>
    \A n \in Names :
      kids[n][StatefulSetKey].live =>
        kids[n][SecretKey].live /\ kids[n][ConfigMapKey(1)].live

CreatorInv ==
  /\ FirstOnly
  /\ DropsLeft
  /\ budget.drops = MaxDrops => SecretHeld /\ CachesTrue /\ ConfigMapHeld
  /\ OneCreator
  /\ SetUpComplete

\* Nobody removes Secrets or ConfigMaps.
SetUpGrows ==
  \A n \in Names, k \in {SecretKey, ConfigMapKey(1)} : kids[n][k].live => kids'[n][k].live

\* The part of the invariant that a worker establishes for itself: behind the
\* Secret it was before, or there was none.
Enters(m) ==
  work'[m].pc \in PastSecret =>
    /\ kids'[work'[m].key][SecretKey].live
    /\ \/ work[m].pc \in PastSecret /\ work'[m].key = work[m].key
       \/ ~kids[work'[m].key][SecretKey].live

\* And what it has when it goes on to claim and StatefulSet.
Equipped(m) ==
  work'[m].pc \in {"mkClaim", "mkSts"} => kids'[work'[m].key][ConfigMapKey(1)].live

\* A StatefulSet that appears finds its configuration.
Configures ==
  \A n \in Names :
    kids'[n][StatefulSetKey].live =>
      \/ kids[n][StatefulSetKey].live
      \/ kids'[n][SecretKey].live /\ kids'[n][ConfigMapKey(1)].live

\* The others stand still.
Alone(m) ==
  /\ \A o \in Managers : o # m => work'[o] = work[o]
  /\ work'[m].at = 1
  /\ budget'.drops = budget.drops

\* A worker that keeps its part keeps the invariant.
LEMMA WorkerKeeps ==
  ASSUME TypeInv, TypeInv', CreatorInv, NEW m \in Managers, Alone(m),
         SetUpGrows, CachesFollow,
         budget.drops = MaxDrops => Enters(m) /\ Equipped(m) /\ Configures
  PROVE  CreatorInv'
<1>1. FirstOnly' /\ DropsLeft'
  BY DEF CreatorInv, FirstOnly, DropsLeft, Alone
<1> SUFFICES ASSUME budget.drops = MaxDrops
             PROVE  SecretHeld' /\ CachesTrue' /\ ConfigMapHeld'
                      /\ OneCreator' /\ SetUpComplete'
  BY <1>1 DEF CreatorInv, OneCreator, SetUpComplete, Alone
<1>2. \A o \in Managers : /\ work[o].pc \in PastSecret => work[o].key \in Names
                          /\ work'[o].pc \in PastSecret => work'[o].key \in Names
  BY BusyStages DEF TypeInv, KeyOK
<1>3. {"mkClaim", "mkSts"} \subseteq PastSecret
  BY DEF PastSecret
<1>4. \A n \in Names : /\ kids[n][SecretKey].live => kids'[n][SecretKey].live
                       /\ kids[n][ConfigMapKey(1)].live => kids'[n][ConfigMapKey(1)].live
  BY DEF SetUpGrows
<1>5. SecretHeld'
  <2> SUFFICES ASSUME NEW o \in Managers, work'[o].pc \in PastSecret
               PROVE  kids'[work'[o].key][SecretKey].live
    BY DEF SecretHeld
  <2>1. CASE o = m
    BY <2>1 DEF Enters
  <2>2. CASE o # m
    <3>1. work'[o] = work[o]
      BY <2>2 DEF Alone
    <3>2. kids[work[o].key][SecretKey].live
      BY <3>1 DEF CreatorInv, SecretHeld
    <3> QED BY <3>1, <3>2, <1>2, <1>4
  <2> QED BY <2>1, <2>2
<1>6. CachesTrue'
  BY <1>4, KeysFacts DEF CachesFollow, CreatorInv, CachesTrue
<1>7. ConfigMapHeld'
  <2> SUFFICES ASSUME NEW o \in Managers, work'[o].pc \in {"mkClaim", "mkSts"}
               PROVE  kids'[work'[o].key][ConfigMapKey(1)].live
    BY DEF ConfigMapHeld
  <2>1. CASE o = m
    BY <2>1 DEF Equipped
  <2>2. CASE o # m
    <3>1. work'[o] = work[o]
      BY <2>2 DEF Alone
    <3>2. kids[work[o].key][ConfigMapKey(1)].live
      BY <3>1 DEF CreatorInv, ConfigMapHeld
    <3>3. work[o].key \in Names
      BY <3>1, <1>2, <1>3
    <3> QED BY <3>1, <3>2, <3>3, <1>4
  <2> QED BY <2>1, <2>2
<1>8. OneCreator'
  <2>1. \A o \in Managers : /\ o # m /\ work[o].pc \in PastSecret
                            /\ work'[m].pc \in PastSecret
                            => work[o].key # work'[m].key
    BY DEF CreatorInv, OneCreator, SecretHeld, Enters
  <2> QED BY <2>1 DEF CreatorInv, OneCreator, Alone
<1>9. SetUpComplete'
  BY <1>4 DEF Configures, CreatorInv, SetUpComplete
<1> QED BY <1>5, <1>6, <1>7, <1>8, <1>9

\* A round leaves the other workers alone, and removes nothing.
LEMMA StageSteps ==
  ASSUME TypeInv, CreatorInv, NEW m \in Managers, StageFrame, Effect(m)
  PROVE  /\ work[m].pc \in Busy /\ work[m].key \in Names /\ work[m].at = 1
         /\ Alone(m)
         /\ work'[m].pc \in {"idle", "down"} \/ work'[m].key = work[m].key
         /\ \A n \in Names, k \in Keys : kids[n][k].live => kids'[n][k].live
<1> DEFINE PastLookup == {"mkSecret"} \cup PastSecret
<1>1. work[m].pc \in Busy /\ work[m].key \in Names /\ work[m].at = 1
  BY BusyStages DEF Effect, TypeInv, KeyOK, CreatorInv, FirstOnly, CallStages
<1>2. PICK S \in SUBSET PastLookup : Ends(m, S)
  BY DEF Effect, Makes, Passes, PastSecret
<1>3. Alone(m) /\ (work'[m].pc \in {"idle", "down"} \/ work'[m].key = work[m].key)
  BY <1>1, <1>2 DEF Ends, Alone, StageFrame
<1>4. \A n \in Names, k \in Keys : kids[n][k].live => kids'[n][k].live
  BY <1>1 DEF Effect, Makes, Passes, Creates
<1> QED BY <1>1, <1>3, <1>4

\* A round keeps the invariant.
LEMMA StageKeeps ==
  ASSUME TypeInv, TypeInv', CreatorInv, NEW m \in Managers, StageFrame, Effect(m)
  PROVE  CreatorInv'
<1> DEFINE n == work[m].key
<1>1. work[m].pc \in Busy /\ n \in Names /\ work[m].at = 1
  BY StageSteps
<1>2. /\ Alone(m)
      /\ work'[m].pc \in {"idle", "down"} \/ work'[m].key = n
  BY StageSteps
<1>3. SetUpGrows
  BY StageSteps, KeysFacts DEF SetUpGrows
<1>4. CachesFollow
  BY DEF StageFrame, CachesFollow
<1>5. ASSUME budget.drops = MaxDrops PROVE Enters(m) /\ Equipped(m) /\ Configures
  <2>1. /\ work[m].pc \in PastSecret => kids[n][SecretKey].live
        /\ work[m].pc \in {"mkClaim", "mkSts"} => kids[n][ConfigMapKey(1)].live
        /\ kidCache[m][n][ConfigMapKey(1)].live => kids[n][ConfigMapKey(1)].live
    BY <1>1, <1>5 DEF CreatorInv, SecretHeld, ConfigMapHeld, CachesTrue
  <2>2. \A k \in {SecretKey, ConfigMapKey(1)} : kids[n][k].live => kids'[n][k].live
    BY <1>1, <1>3 DEF SetUpGrows
  <2>3. CASE work[m].pc = "lookup" /\ Passes(m, {"mkSecret"})
    BY <2>3, <1>2 DEF Passes, Ends, Enters, Equipped, Configures, PastSecret
  <2>4. CASE work[m].pc = "mkSecret" /\ Makes(m, SecretKey, {"getCm", "mkSvc"})
    BY <2>4, <1>1, <1>2, KeysFacts
       DEF Makes, Creates, Ends, Enters, Equipped, Configures, PastSecret
  <2>5. CASE /\ work[m].pc = "getCm"
             /\ Passes(m, IF kidCache[m][n][ConfigMapKey(1)].live
                          THEN {"mkClaim"} ELSE {"mkCm"})
    BY <2>5, <2>1, <1>2 DEF Passes, Ends, Enters, Equipped, Configures, PastSecret
  <2>6. CASE work[m].pc = "mkCm" /\ Makes(m, ConfigMapKey(1), {"mkClaim"})
    BY <2>6, <2>1, <2>2, <1>1, <1>2, KeysFacts
       DEF Makes, Creates, Ends, Enters, Equipped, Configures, PastSecret
  <2>7. CASE work[m].pc = "mkClaim" /\ Makes(m, ClaimKey(1), {"mkSts"})
    BY <2>7, <2>1, <2>2, <1>1, <1>2, KeysFacts
       DEF Makes, Creates, Ends, Enters, Equipped, Configures, PastSecret
  <2>8. CASE work[m].pc = "mkSts" /\ Makes(m, StatefulSetKey, {"mkSvc"})
    BY <2>8, <2>1, <2>2, <1>1, <1>2, KeysFacts
       DEF Makes, Creates, Ends, Enters, Equipped, Configures, PastSecret
  <2>9. CASE work[m].pc = "mkSvc" /\ Makes(m, ServiceKey, {})
    BY <2>9, <2>1, <2>2, <1>1, <1>2, KeysFacts
       DEF Makes, Creates, Ends, Enters, Equipped, Configures, PastSecret
  <2>10. CASE Passes(m, {})
    BY <2>10, <1>2 DEF Passes, Ends, Enters, Equipped, Configures, PastSecret
  <2> QED BY <1>1, <2>3, <2>4, <2>5, <2>6, <2>7, <2>8, <2>9, <2>10 DEF Effect
<1> QED BY <1>2, <1>3, <1>4, <1>5, WorkerKeeps

\* What a worker does outside its rounds keeps it.
LEMMA AsideKeeps ==
  ASSUME TypeInv, TypeInv', CreatorInv, NEW m \in Managers, Aside(m), CachesFollow
  PROVE  CreatorInv'
<1>1. Alone(m)
  BY DEF Aside, CreatorInv, FirstOnly, Alone
<1>2. SetUpGrows /\ Configures
  BY DEF Aside, SetUpGrows, Configures
<1>3. ASSUME budget.drops = MaxDrops PROVE Enters(m) /\ Equipped(m)
  BY <1>3 DEF Aside, Enters, Equipped, CreatorInv, SecretHeld, ConfigMapHeld, PastSecret
<1> QED BY <1>1, <1>2, <1>3, WorkerKeeps

\* The claims the others take are no part of it, and a process they end is
\* past nothing.
LEMMA ElsewhereKeeps ==
  ASSUME TypeInv, TypeInv', CreatorInv, Elsewhere
  PROVE  CreatorInv'
<1>1. UNCHANGED <<kidCache, budget>>
  BY ElsewhereType
<1>2. \A n \in Names, k \in {SecretKey, ConfigMapKey(1), StatefulSetKey} :
        kids'[n][k] = kids[n][k]
  <2>1. \A i \in Ordinals :
          ClaimKey(i) \notin {SecretKey, ConfigMapKey(1), StatefulSetKey}
    BY SMT DEF ClaimKey, SecretKey, ConfigMapKey, StatefulSetKey
  <2> QED BY <2>1, ElsewhereType, KeysFacts
<1>3. SetUpGrows /\ CachesFollow /\ Configures
  BY <1>1, <1>2 DEF SetUpGrows, CachesFollow, Configures
<1>4. CASE UNCHANGED work
  <2>1. \A m \in Managers : work[m].pc \in PastSecret => work[m].key \in Names
    BY BusyStages DEF TypeInv, KeyOK
  <2>2. {"mkClaim", "mkSts"} \subseteq PastSecret
    BY DEF PastSecret
  <2>3. budget.drops = MaxDrops => SecretHeld' /\ CachesTrue' /\ ConfigMapHeld'
    BY <1>1, <1>2, <1>4, <2>1, <2>2 DEF CreatorInv, SecretHeld, CachesTrue, ConfigMapHeld
  <2>4. SetUpComplete'
    BY <1>1, <1>2 DEF CreatorInv, SetUpComplete
  <2> QED BY <1>1, <1>4, <2>3, <2>4 DEF CreatorInv, FirstOnly, DropsLeft, OneCreator
<1>5. ASSUME NEW m \in Managers, Ends(m, {}) PROVE CreatorInv'
  <2>1. Alone(m) /\ work'[m].pc \in {"idle", "down"}
    BY <1>1, <1>5 DEF Ends, Alone
  <2>2. Enters(m) /\ Equipped(m)
    BY <2>1 DEF Enters, Equipped, PastSecret
  <2> QED BY <1>3, <2>1, <2>2, WorkerKeeps
<1> QED BY <1>4, <1>5, ElsewhereType

\* So do the users and the garbage collector, as long as the users remove
\* nothing; after that there is nothing to keep.
LEMMA UsersKeep ==
  ASSUME TypeInv, CreatorInv, NEW n \in Names, User(n) \/ CollectStatefulSet(n)
  PROVE  CreatorInv'
<1>1. CASE UserCreates(n) \/ UserEdits(n) \/ UserTouches(n) \/ UserDeletes(n)
  <2>1. UNCHANGED <<kids, kidCache, work>> /\ budget'.drops = budget.drops
    BY <1>1, UserClusterType
  <2> QED BY <2>1 DEF CreatorInv, FirstOnly, DropsLeft, SecretHeld, CachesTrue,
                      ConfigMapHeld, OneCreator, SetUpComplete
<1>2. ASSUME NEW k \in Keys, UserDrops(n, k) PROVE CreatorInv'
  <2>1. UNCHANGED work
    BY <1>2 DEF UserDrops
  <2>2. budget' \in Budget /\ budget \in Budget /\ budget'.drops < budget.drops
    BY <1>2, Spent DEF UserDrops
  <2>3. budget'.drops <= MaxDrops /\ budget'.drops # MaxDrops
    BY <2>2, ConstantsAssumption, SMT DEF CreatorInv, DropsLeft, Budget
  <2> QED BY <2>1, <2>3 DEF CreatorInv, FirstOnly, DropsLeft, OneCreator, SetUpComplete
<1>3. CASE CollectStatefulSet(n)
  <2>1. UNCHANGED <<kidCache, work, budget>> /\ Writes(n, StatefulSetKey, NoChild)
    BY <1>3, KeysFacts, RemovalType DEF CollectStatefulSet
  <2>2. \A x \in Names, k \in {SecretKey, ConfigMapKey(1)} : kids'[x][k] = kids[x][k]
    BY <2>1, KeysFacts DEF Writes
  <2>3. \A x \in Names : kids'[x][StatefulSetKey].live => kids[x][StatefulSetKey].live
    BY <2>1, KeysFacts DEF Writes, NoChild
  <2>4. \A m \in Managers : work[m].pc \in PastSecret => work[m].key \in Names
    BY BusyStages DEF TypeInv, KeyOK
  <2>5. budget.drops = MaxDrops => SecretHeld' /\ CachesTrue' /\ ConfigMapHeld'
    BY <2>1, <2>2, <2>4 DEF CreatorInv, SecretHeld, CachesTrue, ConfigMapHeld, PastSecret
  <2>6. SetUpComplete'
    BY <2>1, <2>2, <2>3 DEF CreatorInv, SetUpComplete
  <2> QED BY <2>1, <2>5, <2>6 DEF CreatorInv, FirstOnly, DropsLeft, OneCreator
<1> QED BY <1>1, <1>2, <1>3 DEF User

\* Nothing is there in the initial state.
LEMMA InitCreator == Init => CreatorInv
<1> SUFFICES ASSUME Init PROVE CreatorInv
  OBVIOUS
<1>1. Rest("down").pc \notin PastSecret /\ Rest("down").at = 1
  BY SMT DEF Rest, PastSecret
<1>2. FirstOnly /\ SecretHeld /\ ConfigMapHeld /\ OneCreator
  BY <1>1 DEF Init, FirstOnly, SecretHeld, ConfigMapHeld, OneCreator, PastSecret
<1>3. CachesTrue /\ SetUpComplete
  BY KeysFacts DEF Init, CachesTrue, SetUpComplete, NoChild
<1>4. DropsLeft
  BY ConstantsAssumption, SMT DEF Init, DropsLeft
<1> QED BY <1>2, <1>3, <1>4 DEF CreatorInv

\* Every step keeps the invariant, also among others.
LEMMA NextCreator == TypeInv /\ CreatorInv /\ [OpenNext]_vars => CreatorInv'
<1> SUFFICES ASSUME TypeInv, CreatorInv, [OpenNext]_vars PROVE CreatorInv'
  OBVIOUS
<1>0. TypeInv'
  BY NextType
<1>1. CASE UNCHANGED vars
  BY <1>1 DEF vars, CreatorInv, FirstOnly, DropsLeft, SecretHeld, CachesTrue,
              ConfigMapHeld, OneCreator, SetUpComplete
<1>2. ASSUME NEW m \in Managers, Manager(m) PROVE CreatorInv'
  <2>1. CASE Stage(m) \/ CallFails(m)
    BY <2>1, <1>0, StageEffect, StageKeeps
  <2>2. CASE Crash(m) \/ Restart(m) \/ \E n \in Names : Begin(m, n)
    BY <2>2, <1>0, BeginType, CrashType, RestartType, AsideKeeps
  <2>3. CASE \E n \in Names : SyncCluster(m, n)
    BY <2>3, <1>0, KeysFacts, SyncType, AsideKeeps
  <2>4. CASE \E n \in Names, k \in Read : SyncChild(m, n, k)
    BY <2>4, <1>0, SyncType, AsideKeeps
  <2> QED BY <1>2, <2>1, <2>2, <2>3, <2>4 DEF Manager
<1>3. ASSUME NEW n \in Names, User(n) \/ CollectStatefulSet(n) PROVE CreatorInv'
  BY <1>3, UsersKeep
<1>4. CASE Elsewhere
  BY <1>0, <1>4, ElsewhereKeeps
<1> QED BY <1>1, <1>2, <1>3, <1>4 DEF OpenNext, Next

\* The invariant holds in every reachable state.
LEMMA CreatorCorrect == OpenSpec => []CreatorInv
  BY InitType, NextType, InitCreator, NextCreator, PTL DEF OpenSpec

\* The refusal to create a Secret twice is enough of a lock: with any number
\* of operator processes, stale caches, faults, crashes and restarts, at most
\* one worker is past the Secret of a cluster until the users remove a child.
THEOREM SecretIsALock == Spec => []OneCreator
<1>1. CreatorInv => OneCreator
  BY DEF CreatorInv
<1> QED BY <1>1, SpecIsOpen, CreatorCorrect, PTL

\* The lock holds also in a process it shares with the other controller, which
\* may end it at any time and take the claims of the members; and a
\* StatefulSet still comes after its Secret and its ConfigMap.
THEOREM HoldsAmongOthers == OpenSpec => []TypeOK /\ []OneCreator /\ []SetUpComplete
<1>1. TypeInv => TypeOK
  BY DEF TypeInv
<1>2. CreatorInv => OneCreator /\ SetUpComplete
  BY DEF CreatorInv
<1> QED BY <1>1, <1>2, TypesAmongOthers, CreatorCorrect, PTL

-----------------------------------------------------------------------------
(* A configured StatefulSet.                                               *)

\* A worker past the claim has made it.
ClaimHeld ==
  \A m \in Managers : work[m].pc = "mkSts" => kids[work[m].key][ClaimKey(1)].live

\* A StatefulSet has its claim.
ClaimComplete ==
  \A n \in Names : kids[n][StatefulSetKey].live => kids[n][ClaimKey(1)].live

ClaimInv == budget.drops = MaxDrops => ClaimHeld /\ ClaimComplete

\* A round makes the claim before the StatefulSet.
LEMMA StageClaims ==
  ASSUME TypeInv, TypeInv', CreatorInv, ClaimInv, NEW m \in Managers, StageFrame, Effect(m)
  PROVE  ClaimInv'
<1> DEFINE n == work[m].key
<1> SUFFICES ASSUME budget.drops = MaxDrops PROVE ClaimHeld' /\ ClaimComplete'
  BY DEF ClaimInv, StageFrame
<1>1. work[m].pc \in Busy /\ n \in Names /\ work[m].at = 1
  BY StageSteps
<1>2. /\ \A o \in Managers : o # m => work'[o] = work[o]
      /\ work'[m].pc \in {"idle", "down"} \/ work'[m].key = n
  BY StageSteps DEF Alone
<1>3. \A x \in Names : kids[x][ClaimKey(1)].live => kids'[x][ClaimKey(1)].live
  BY StageSteps, KeysFacts
<1>4. ClaimHeld /\ ClaimComplete
  BY DEF ClaimInv
<1>5. work'[m].pc = "mkSts" => kids'[n][ClaimKey(1)].live
  BY <1>1, KeysFacts DEF Effect, Makes, Creates, Passes, Ends
<1>6. \A x \in Names :
        kids'[x][StatefulSetKey].live =>
          kids[x][StatefulSetKey].live \/ (x = n /\ work[m].pc = "mkSts")
  BY <1>1, KeysFacts DEF Effect, Makes, Creates, Passes
<1>7. ClaimHeld'
  <2> SUFFICES ASSUME NEW o \in Managers, work'[o].pc = "mkSts"
               PROVE  kids'[work'[o].key][ClaimKey(1)].live
    BY DEF ClaimHeld
  <2>1. CASE o = m
    BY <2>1, <1>2, <1>5
  <2>2. CASE o # m
    <3>1. work'[o] = work[o] /\ kids[work[o].key][ClaimKey(1)].live
      BY <2>2, <1>2, <1>4 DEF ClaimHeld
    <3>2. work[o].key \in Names
      BY <3>1, BusyStages DEF TypeInv, KeyOK, PastSecret
    <3> QED BY <3>1, <3>2, <1>3
  <2> QED BY <2>1, <2>2
<1>8. ClaimComplete'
  BY <1>3, <1>4, <1>6 DEF ClaimHeld, ClaimComplete
<1> QED BY <1>7, <1>8

\* Outside its rounds a worker makes and removes nothing.
LEMMA AsideClaims ==
  ASSUME ClaimInv, NEW m \in Managers, Aside(m)
  PROVE  ClaimInv'
  BY DEF Aside, ClaimInv, ClaimHeld, ClaimComplete

\* The users remove a child once and for all; the garbage collector removes no
\* claim.
LEMMA UsersClaims ==
  ASSUME TypeInv, CreatorInv, ClaimInv, NEW n \in Names, User(n) \/ CollectStatefulSet(n)
  PROVE  ClaimInv'
<1>1. CASE UserCreates(n) \/ UserEdits(n) \/ UserTouches(n) \/ UserDeletes(n)
  <2>1. UNCHANGED <<kids, work>> /\ budget'.drops = budget.drops
    BY <1>1, UserClusterType
  <2> QED BY <2>1 DEF ClaimInv, ClaimHeld, ClaimComplete
<1>2. ASSUME NEW k \in Keys, UserDrops(n, k) PROVE ClaimInv'
  <2>1. budget' \in Budget /\ budget \in Budget /\ budget'.drops < budget.drops
    BY <1>2, Spent DEF UserDrops
  <2>2. budget'.drops # MaxDrops
    BY <2>1, ConstantsAssumption, SMT DEF CreatorInv, DropsLeft, Budget
  <2> QED BY <2>2 DEF ClaimInv
<1>3. CASE CollectStatefulSet(n)
  <2>1. UNCHANGED <<work, budget>> /\ Writes(n, StatefulSetKey, NoChild)
    BY <1>3, KeysFacts, RemovalType DEF CollectStatefulSet
  <2>2. \A x \in Names : /\ kids'[x][ClaimKey(1)] = kids[x][ClaimKey(1)]
                         /\ kids'[x][StatefulSetKey].live => kids[x][StatefulSetKey].live
    BY <2>1, KeysFacts DEF Writes, NoChild
  <2>3. \A m \in Managers : work[m].pc = "mkSts" => work[m].key \in Names
    BY BusyStages DEF TypeInv, KeyOK, PastSecret
  <2> QED BY <2>1, <2>2, <2>3 DEF ClaimInv, ClaimHeld, ClaimComplete
<1> QED BY <1>1, <1>2, <1>3 DEF User

\* Nothing is there in the initial state.
LEMMA InitClaims == Init => ClaimInv
<1>1. Rest("down").pc # "mkSts"
  BY SMT DEF Rest
<1> QED BY <1>1, KeysFacts DEF Init, ClaimInv, ClaimHeld, ClaimComplete, NoChild

\* Every step of the controller alone keeps the claims.
LEMMA NextClaims == TypeInv /\ CreatorInv /\ ClaimInv /\ [Next]_vars => ClaimInv'
<1> SUFFICES ASSUME TypeInv, CreatorInv, ClaimInv, [Next]_vars PROVE ClaimInv'
  OBVIOUS
<1>0. TypeInv'
  BY NextType DEF OpenNext
<1>1. CASE UNCHANGED vars
  BY <1>1 DEF vars, ClaimInv, ClaimHeld, ClaimComplete
<1>2. ASSUME NEW m \in Managers, Manager(m) PROVE ClaimInv'
  <2>1. CASE Stage(m) \/ CallFails(m)
    BY <2>1, <1>0, StageEffect, StageClaims
  <2>2. CASE Crash(m) \/ Restart(m) \/ \E n \in Names : Begin(m, n)
    BY <2>2, BeginType, CrashType, RestartType, AsideClaims
  <2>3. CASE \E n \in Names : SyncCluster(m, n)
    BY <2>3, KeysFacts, SyncType, AsideClaims
  <2>4. CASE \E n \in Names, k \in Read : SyncChild(m, n, k)
    BY <2>4, SyncType, AsideClaims
  <2> QED BY <1>2, <2>1, <2>2, <2>3, <2>4 DEF Manager
<1>3. ASSUME NEW n \in Names, User(n) \/ CollectStatefulSet(n) PROVE ClaimInv'
  BY <1>3, UsersClaims
<1> QED BY <1>1, <1>2, <1>3 DEF Next

\* A StatefulSet has its Secret, ConfigMap and claim, whatever fails and
\* however stale the caches are, until the users remove a child.  The claim is
\* not the controller's to promise where others delete by name.
THEOREM NoBareStatefulSet == Spec => []StatefulSetConfigured
<1>1. CreatorInv /\ ClaimInv => StatefulSetConfigured
  BY DEF CreatorInv, SetUpComplete, ClaimInv, ClaimComplete, StatefulSetConfigured
<1> QED BY <1>1, SpecIsOpen, TypesAmongOthers, CreatorCorrect, InitClaims, NextClaims,
           PTL DEF Spec

-----------------------------------------------------------------------------
(* Which children come and go.                                             *)

\* The children the handler makes, whatever sizes the members ask for.
FirstMember == {SecretKey, ConfigMapKey(1), ClaimKey(1), StatefulSetKey, ServiceKey}

\* The users and the garbage collector bring nothing.
LEMMA OutsideTakes ==
  ASSUME TypeInv, NEW n \in Names, User(n) \/ CollectStatefulSet(n)
  PROVE  \A x \in Names, k \in Keys :
           /\ kids'[x][k].live => kids[x][k].live
           /\ kids[x][k].live =>
                kids'[x][k].live \/ k = StatefulSetKey \/ budget'.drops < budget.drops
<1>1. CASE UserCreates(n) \/ UserEdits(n) \/ UserTouches(n) \/ UserDeletes(n)
  BY <1>1 DEF UserCreates, UserEdits, UserTouches, UserDeletes
<1>2. ASSUME NEW k \in Keys, UserDrops(n, k)
      PROVE  budget'.drops < budget.drops /\ Writes(n, k, NoChild)
  BY <1>2, Spent, RemovalType DEF UserDrops
<1>3. CollectStatefulSet(n) => Writes(n, StatefulSetKey, NoChild)
  BY RemovalType, KeysFacts
<1> QED BY <1>1, <1>2, <1>3 DEF User, Writes, NoChild

\* The handler makes these and removes none; the garbage collector takes the
\* StatefulSet, and the users what they like.
LEMMA ChildrenByOrdinal ==
  ASSUME TypeInv, CreatorInv, [Next]_vars
  PROVE  \A n \in Names, k \in Keys :
           /\ kids'[n][k].live => kids[n][k].live \/ k \in FirstMember
           /\ kids[n][k].live =>
                kids'[n][k].live \/ k = StatefulSetKey \/ budget'.drops < budget.drops
<1>1. CASE UNCHANGED kids
  BY <1>1
<1>2. ASSUME NEW m \in Managers, Stage(m) \/ CallFails(m)
      PROVE  \A n \in Names, k \in Keys :
               /\ kids'[n][k].live => kids[n][k].live \/ k \in FirstMember
               /\ kids[n][k].live => kids'[n][k].live
  <2>1. StageFrame /\ Effect(m)
    BY <1>2, StageEffect
  <2>2. /\ work[m].at = 1
        /\ \A n \in Names, k \in Keys : kids[n][k].live => kids'[n][k].live
    BY <2>1, StageSteps
  <2>3. UNCHANGED kids \/ \E k \in FirstMember : Creates(m, k)
    BY <2>1, <2>2 DEF Effect, Makes, Passes, FirstMember
  <2> QED BY <2>2, <2>3 DEF Creates
<1>3. ASSUME NEW m \in Managers, Manager(m), ~(Stage(m) \/ CallFails(m))
      PROVE  UNCHANGED kids
  BY <1>3 DEF Manager, Begin, Crash, Restart, SyncCluster, SyncChild, store
<1> QED BY <1>1, <1>2, <1>3, OutsideTakes DEF Next, vars

\* No member but the first has a ConfigMap or a claim.
OneMember ==
  \A n \in Names, i \in Ordinals :
    i # 1 => ~kids[n][ConfigMapKey(i)].live /\ ~kids[n][ClaimKey(i)].live

\* GetSize answers one for every size there is, so whatever the users ask for
\* and whatever the webhook adds, no cluster ever gets a second member.
THEOREM NoSecondMember == OpenSpec => []OneMember
<1>1. ASSUME NEW i \in Ordinals
      PROVE  /\ ConfigMapKey(i) \in Keys /\ ClaimKey(i) \in Keys
             /\ i # 1 => ConfigMapKey(i) \notin FirstMember /\ ClaimKey(i) \notin FirstMember
  <2>1. \A k \in FirstMember : k[2] \in {0, 1}
    BY DEF FirstMember, SecretKey, ConfigMapKey, ClaimKey, StatefulSetKey, ServiceKey
  <2>2. ConfigMapKey(i)[2] = i /\ ClaimKey(i)[2] = i
    BY DEF ConfigMapKey, ClaimKey
  <2>3. i # 0
    BY SMT DEF Ordinals
  <2> QED BY <2>1, <2>2, <2>3, KeysFacts
<1>2. Init => OneMember
  BY <1>1 DEF Init, OneMember, NoChild
<1>3. TypeInv /\ CreatorInv /\ OneMember /\ [OpenNext]_vars => OneMember'
  <2> SUFFICES ASSUME TypeInv, CreatorInv, OneMember, [OpenNext]_vars PROVE OneMember'
    OBVIOUS
  <2>1. CASE [Next]_vars
    BY <1>1, <2>1, ChildrenByOrdinal DEF OneMember
  <2>2. CASE Elsewhere
    <3>1. \A n \in Names, k \in Keys : kids'[n][k].live => kids[n][k].live
      BY <2>2, ElsewhereType DEF NoChild
    <3> QED BY <1>1, <3>1 DEF OneMember
  <2> QED BY <2>1, <2>2 DEF OpenNext
<1> QED BY <1>2, <1>3, TypesAmongOthers, CreatorCorrect, PTL DEF OpenSpec

-----------------------------------------------------------------------------
(* A round that has ended behind its Secret.                               *)

\* The Secret of n is there and its StatefulSet is not, and no worker is on its
\* way from the one to the other: the round that made the Secret has failed, or
\* the Secret is that of an earlier cluster.
Stranded(n) ==
  /\ kids[n][SecretKey].live
  /\ ~kids[n][StatefulSetKey].live
  /\ \A m \in Managers : work[m].key = n => work[m].pc \notin PastSecret

\* So it stays until the users drop a child.
StrandedForGood ==
  [][budget'.drops = budget.drops => \A n \in Names : Stranded(n) => Stranded(n)']_vars

\* A round does not get past a Secret that is there.
LEMMA StageStrands ==
  ASSUME TypeInv, CreatorInv, NEW m \in Managers, Stage(m) \/ CallFails(m),
         NEW n \in Names, Stranded(n)
  PROVE  Stranded(n)'
<1>1. StageFrame /\ Effect(m)
  BY StageEffect
<1>2. /\ work[m].pc \in Busy /\ work[m].key \in Names
      /\ \A o \in Managers : o # m => work'[o] = work[o]
      /\ work'[m].pc \in {"idle", "down"} \/ work'[m].key = work[m].key
      /\ \A k \in Keys : kids[n][k].live => kids'[n][k].live
  BY <1>1, StageSteps DEF Alone
<1>3. \A k \in {"idle", "down", "lookup", "mkSecret"} : k \notin PastSecret
  BY DEF PastSecret
<1>4. CASE work[m].key # n
  <2>1. ~kids'[n][StatefulSetKey].live
    BY <1>1, <1>2, <1>4, KeysFacts DEF Effect, Makes, Passes, Creates, Stranded
  <2>2. work'[m].key = n => work'[m].pc \notin PastSecret
    BY <1>2, <1>3, <1>4
  <2> QED BY <1>2, <2>1, <2>2, KeysFacts DEF Stranded
<1>5. CASE work[m].key = n
  <2>1. work[m].pc \notin PastSecret /\ ~Creates(m, SecretKey)
    BY <1>5 DEF Stranded, Creates
  <2>2. \/ work[m].pc = "lookup" /\ Passes(m, {"mkSecret"})
        \/ Passes(m, {})
    BY <1>1, <2>1 DEF Effect, Makes, PastSecret
  <2>3. UNCHANGED kids /\ work'[m].pc \in {"idle", "down", "mkSecret"}
    BY <2>2 DEF Passes, Ends
  <2> QED BY <1>2, <1>3, <2>3 DEF Stranded
<1> QED BY <1>4, <1>5

\* What a worker does outside its rounds leads it behind no Secret.
LEMMA AsideStrands ==
  ASSUME NEW m \in Managers, Aside(m), NEW n \in Names, Stranded(n)
  PROVE  Stranded(n)'
<1>1. \A k \in {"idle", "down", "lookup"} : k \notin PastSecret
  BY DEF PastSecret
<1> QED BY <1>1 DEF Aside, Stranded

\* A Secret without its StatefulSet ends every round there is, of any number of
\* managers and of every later cluster of the name: the creation is refused, and
\* the controller never looks whether what it finds would do.
THEOREM StrandedStays == OpenSpec => StrandedForGood
<1>1. ASSUME TypeInv, CreatorInv, [OpenNext]_vars, budget'.drops = budget.drops,
             NEW n \in Names, Stranded(n)
      PROVE  Stranded(n)'
  <2>1. CASE UNCHANGED vars
    BY <1>1, <2>1 DEF vars, Stranded
  <2>2. ASSUME NEW m \in Managers, Manager(m) PROVE Stranded(n)'
    <3>1. CASE Stage(m) \/ CallFails(m)
      BY <1>1, <3>1, StageStrands
    <3>2. CASE Crash(m) \/ Restart(m) \/ \E x \in Names : Begin(m, x)
      BY <1>1, <3>2, BeginType, CrashType, RestartType, AsideStrands
    <3>3. CASE \E x \in Names : SyncCluster(m, x)
      BY <1>1, <3>3, KeysFacts, SyncType, AsideStrands
    <3>4. CASE \E x \in Names, k \in Read : SyncChild(m, x, k)
      BY <1>1, <3>4, SyncType, AsideStrands
    <3> QED BY <2>2, <3>1, <3>2, <3>3, <3>4 DEF Manager
  <2>3. ASSUME NEW x \in Names, User(x) \/ CollectStatefulSet(x) PROVE Stranded(n)'
    <3>1. UNCHANGED work
      BY <2>3 DEF User, UserCreates, UserEdits, UserTouches, UserDeletes, UserDrops,
                  CollectStatefulSet
    <3>2. kids'[n][SecretKey].live /\ ~kids'[n][StatefulSetKey].live
      <4>1. SecretKey \in Keys /\ StatefulSetKey \in Keys /\ SecretKey # StatefulSetKey
        BY KeysFacts
      <4>2. budget \in Budget
        BY <1>1, Spent
      <4>3. ~(budget'.drops < budget.drops)
        BY <1>1, <4>2, SMT DEF Budget
      <4> QED BY <1>1, <2>3, <4>1, <4>3, OutsideTakes DEF Stranded
    <3> QED BY <1>1, <3>1, <3>2 DEF Stranded
  <2>4. CASE Elsewhere
    <3>1. kids'[n][SecretKey] = kids[n][SecretKey]
            /\ kids'[n][StatefulSetKey] = kids[n][StatefulSetKey]
      <4>1. \A i \in Ordinals : SecretKey # ClaimKey(i) /\ StatefulSetKey # ClaimKey(i)
        BY SMT DEF SecretKey, StatefulSetKey, ClaimKey
      <4> QED BY <1>1, <2>4, <4>1, ElsewhereType, KeysFacts
    <3>2. \/ UNCHANGED work
          \/ \E m \in Managers : /\ work'[m].pc \in {"idle", "down"}
                                 /\ \A o \in Managers : o # m => work'[o] = work[o]
      BY <1>1, <2>4, ElsewhereType DEF Ends
    <3>3. "idle" \notin PastSecret /\ "down" \notin PastSecret
      BY DEF PastSecret
    <3> QED BY <1>1, <3>1, <3>2, <3>3 DEF Stranded
  <2> QED BY <1>1, <2>1, <2>2, <2>3, <2>4 DEF OpenNext, Next
<1> DEFINE P == budget'.drops = budget.drops =>
                  \A n \in Names : Stranded(n) => Stranded(n)'
<1>2. TypeInv /\ CreatorInv /\ [OpenNext]_vars => P
  BY <1>1
<1>3. OpenSpec => [][P]_vars
  BY <1>2, TypesAmongOthers, CreatorCorrect, PTL DEF OpenSpec
<1> QED BY <1>3 DEF StrandedForGood
=============================================================================
