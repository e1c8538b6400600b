------------------------ MODULE SingleInstanceProofs ------------------------
(***************************************************************************)
(* Proofs about the SingleInstance controller, for any number of names,    *)
(* specs, faults and crashes.                                              *)
(*                                                                         *)
(* TypeInv and HandlerInv are inductive for any number of operator         *)
(* processes; OwnerInv needs that there is at most one.                    *)
(***************************************************************************)
EXTENDS SingleInstance, TLAPS

Busy == Stages \ {"down", "idle"}

\* A worker in the middle of a request knows whose request it is.
KeyOK == \A m \in Managers : work[m].pc \in Busy => work[m].key \in Names

TypeInv == TypeOK /\ KeyOK

-----------------------------------------------------------------------------
(* The types of what the actions are built from.                           *)

\* The absent objects have the types of present ones.
LEMMA NoneType == NoInstance \in Instance /\ NoChild \in Child
  BY SMT DEF NoInstance, Instance, AllShapes, NoChild, Child

\* A worker at rest, in any stage.
LEMMA RestType == \A s \in Stages : Rest(s) \in Work /\ Rest(s).pc = s
  BY NoneType, SMT DEF Rest, Work, Watched

\* Moving a worker touches no other worker.
LEMMA MoveType ==
  ASSUME TypeInv, NEW m \in Managers, NEW w \in Work,
         w.pc \in Busy => w.key \in Names, Move(m, w)
  PROVE  /\ work' \in [Managers -> Work]
         /\ work'[m] = w
         /\ \A o \in Managers : o # m => work'[o] = work[o]
         /\ KeyOK'
  BY SMT DEF Move, TypeInv, TypeOK, KeyOK

\* A worker that only changes its stage keeps what it holds.
LEMMA WorkExcept ==
  ASSUME NEW w \in Work, NEW s \in Stages
  PROVE  /\ [w EXCEPT !.pc = s] \in Work
         /\ [w EXCEPT !.pc = s].pc = s
         /\ [w EXCEPT !.pc = s].key = w.key
         /\ [w EXCEPT !.pc = s].obj = w.obj
  BY Zenon DEF Work

\* A worker that takes over the API server's answer.
LEMMA HoldingType ==
  ASSUME NEW w \in Work, NEW s \in Stages, NEW o \in Instance
  PROVE  /\ Holding(w, s, o) \in Work
         /\ Holding(w, s, o).pc = s
         /\ Holding(w, s, o).key = w.key
         /\ Holding(w, s, o).obj = o
  BY Zenon DEF Work, Holding

\* Going to another stage.
LEMMA GotoType ==
  ASSUME TypeInv, NEW m \in Managers, NEW s \in Stages, work[m].pc \in Busy,
         Goto(m, s)
  PROVE  /\ work' \in [Managers -> Work]
         /\ work'[m].pc = s
         /\ work'[m].key = work[m].key
         /\ work'[m].obj = work[m].obj
         /\ \A o \in Managers : o # m => work'[o] = work[o]
         /\ KeyOK'
<1> DEFINE w == [work[m] EXCEPT !.pc = s]
<1>0. work[m] \in Work /\ work[m].key \in Names
  BY DEF TypeInv, TypeOK, KeyOK
<1>1. w \in Work /\ w.key = work[m].key /\ w.obj = work[m].obj /\ w.pc = s
  BY <1>0, NoneType, WorkExcept
<1>2. Move(m, w)
  BY DEF Goto
<1> HIDE DEF w
<1> QED BY <1>0, <1>1, <1>2, MoveType

\* Coming to rest.
LEMMA QuitType ==
  ASSUME TypeInv, NEW m \in Managers, NEW s \in {"idle", "down"},
         Move(m, Rest(s))
  PROVE  /\ work' \in [Managers -> Work]
         /\ work'[m] = Rest(s)
         /\ work'[m].pc = s
         /\ \A o \in Managers : o # m => work'[o] = work[o]
         /\ KeyOK'
<1>1. Rest(s) \in Work /\ Rest(s).pc = s /\ s \notin Busy
  BY RestType, SMT DEF Stages, Busy
<1>2. QED BY <1>1, MoveType

\* Returning an error, which queues the request again.
LEMMA ReturnErrType ==
  ASSUME TypeInv, NEW m \in Managers, work[m].pc \in Busy, ReturnErr(m)
  PROVE  /\ work' \in [Managers -> Work]
         /\ queue' \in [Managers -> SUBSET Names]
         /\ work'[m].pc = "idle"
         /\ \A o \in Managers : o # m => work'[o] = work[o]
         /\ KeyOK'
<1>1. queue' \in [Managers -> SUBSET Names]
  BY SMT DEF ReturnErr, TypeInv, TypeOK, KeyOK
<1> QED BY <1>1, QuitType DEF ReturnErr

\* The end of a process.
LEMMA DieType ==
  ASSUME TypeInv, NEW m \in Managers, Die(m)
  PROVE  /\ work' \in [Managers -> Work]
         /\ queue' \in [Managers -> SUBSET Names]
         /\ work'[m].pc = "down"
         /\ \A o \in Managers : o # m => work'[o] = work[o]
         /\ KeyOK'
<1>1. queue' \in [Managers -> SUBSET Names]
  BY SMT DEF Die, TypeInv, TypeOK
<1> QED BY <1>1, QuitType DEF Die

\* An update of the instance, accepted or refused.
LEMMA UpdateInstanceType ==
  ASSUME TypeInv, NEW m \in Managers, NEW new \in Instance, NEW next \in Busy,
         work[m].pc \in Busy, UpdateInstance(m, new, next)
  PROVE  /\ cr' \in [Names -> Instance]
         /\ queue' \in [Managers -> SUBSET Names]
         /\ work' \in [Managers -> Work]
         /\ KeyOK'
<1> DEFINE n == work[m].key
           c == Stored(cr[n], new)
           w == Holding(work[m], next, c)
<1>0. n \in Names /\ cr[n] \in Instance
  BY SMT DEF TypeInv, TypeOK, KeyOK
<1>1. c \in Instance
  BY <1>0, SMT DEF Stored, Instance
<1>2. Settled(c) \in Instance
  BY <1>1, NoneType DEF Settled
<1>3. CASE ReturnErr(m) /\ UNCHANGED cr
  BY <1>3, ReturnErrType DEF TypeInv, TypeOK
<1>4. CASE cr' = [cr EXCEPT ![n] = Settled(c)] /\ Move(m, w) /\ UNCHANGED queue
  <2>1. w \in Work /\ w.key \in Names
    <3>1. work[m] \in Work /\ next \in Stages
      BY DEF TypeInv, TypeOK, Busy
    <3>2. w \in Work /\ w.key = work[m].key
      <4> HIDE DEF c
      <4> QED BY <1>1, <3>1, HoldingType
    <3> QED BY <1>0, <3>2
  <2>2. cr' \in [Names -> Instance]
    <3> HIDE DEF c
    <3> QED BY <1>4, <1>0, <1>2, SMT DEF TypeInv, TypeOK
  <2>3. queue' \in [Managers -> SUBSET Names]
    BY <1>4 DEF TypeInv, TypeOK
  <2> HIDE DEF w
  <2> QED BY <1>4, <2>1, <2>2, <2>3, MoveType
<1> QED BY <1>3, <1>4 DEF UpdateInstance

\* A child as the API server stores it.
LEMMA WrittenType == \A rv, uid, ver \in Nat : Written(rv, uid, ver) \in Child
  BY SMT DEF Written, Child

\* The manifests carry owner and version of the instance.
LEMMA DesiredType ==
  ASSUME NEW o \in Instance, NEW k PROVE Desired(o, k).uid \in Nat /\ Desired(o, k).ver \in Nat
  BY SMT DEF Desired, NewDeployment, NewService, NewConfigMap, MySQLConfigString,
             NewPersistentVolumeClaim, Instance

\* The creation of a child, accepted or refused.
LEMMA CreateChildType ==
  ASSUME TypeInv, NEW m \in Managers, NEW k \in Keys, NEW next \in Busy,
         work[m].pc \in Busy, CreateChild(m, k, next)
  PROVE  /\ kids' \in [Names -> [Keys -> Child]]
         /\ queue' \in [Managers -> SUBSET Names]
         /\ work' \in [Managers -> Work]
         /\ KeyOK'
<1> DEFINE n == work[m].key
           d == Desired(work[m].obj, k)
           c == Written(kids[n][k].rv + 1, d.uid, d.ver)
<1>0. n \in Names /\ kids[n][k] \in Child /\ work[m].obj \in Instance
  BY SMT DEF TypeInv, TypeOK, KeyOK, Work
<1>1. c \in Child
  <2>1. d.uid \in Nat /\ d.ver \in Nat BY <1>0, DesiredType
  <2>2. kids[n][k].rv + 1 \in Nat BY <1>0, SMT DEF Child
  <2> HIDE DEF d
  <2> QED BY <2>1, <2>2, WrittenType
<1>2. CASE ReturnErr(m) /\ UNCHANGED kids
  BY <1>2, ReturnErrType DEF TypeInv, TypeOK
<1>3. CASE kids' = [kids EXCEPT ![n][k] = c] /\ Goto(m, next) /\ UNCHANGED queue
  <2> HIDE DEF c
  <2>1. kids' \in [Names -> [Keys -> Child]]
    BY <1>3, <1>0, <1>1, SMT DEF TypeInv, TypeOK
  <2>2. queue' \in [Managers -> SUBSET Names]
    BY <1>3 DEF TypeInv, TypeOK
  <2>3. next \in Stages BY DEF Busy
  <2> QED BY <1>3, <2>1, <2>2, <2>3, GotoType
<1> QED BY <1>2, <1>3 DEF CreateChild

\* A function with one value replaced.
LEMMA FunctionWrite ==
  ASSUME NEW S, NEW T, NEW f \in [S -> T], NEW x, NEW v, x \in S => v \in T
  PROVE  /\ [f EXCEPT ![x] = v] \in [S -> T]
         /\ \A y \in S : [f EXCEPT ![x] = v][y] = IF y = x THEN v ELSE f[y]
<1>1. \A y \in S : [f EXCEPT ![x] = v][y] = IF y = x THEN v ELSE f[y]
  OBVIOUS
<1>2. [f EXCEPT ![x] = v] = [y \in S |-> IF y = x THEN v ELSE f[y]]
  OBVIOUS
<1>3. \A y \in S : (IF y = x THEN v ELSE f[y]) \in T
  OBVIOUS
<1>4. [y \in S |-> IF y = x THEN v ELSE f[y]] \in [S -> T]
  BY <1>3
<1> QED BY <1>1, <1>2, <1>4

\* A write of one child leaves the others alone.
LEMMA ChildWrite ==
  ASSUME TypeInv, NEW n, NEW k, NEW c, k \in Keys => c \in Child,
         kids' = [kids EXCEPT ![n][k] = c]
  PROVE  /\ kids' \in [Names -> [Keys -> Child]]
         /\ \A x \in Names, y \in Keys :
              kids'[x][y] = IF x = n /\ y = k THEN c ELSE kids[x][y]
<1>1. kids \in [Names -> [Keys -> Child]]
  BY DEF TypeInv, TypeOK
<1> DEFINE f == [kids[n] EXCEPT ![k] = c]
<1>2. kids' = [kids EXCEPT ![n] = f]
  OBVIOUS
<1>3. n \in Names => f \in [Keys -> Child]
  BY <1>1, FunctionWrite
<1>4. n \in Names => \A y \in Keys : f[y] = IF y = k THEN c ELSE kids[n][y]
  BY <1>1, FunctionWrite
<1> HIDE DEF f
<1>5. [kids EXCEPT ![n] = f] \in [Names -> [Keys -> Child]]
  BY <1>1, <1>3, FunctionWrite
<1>6. \A x \in Names : [kids EXCEPT ![n] = f][x] = IF x = n THEN f ELSE kids[x]
  BY <1>1, <1>3, FunctionWrite
<1> QED BY <1>2, <1>4, <1>5, <1>6

\* The update of a child, accepted or refused.
LEMMA UpdateChildType ==
  ASSUME TypeInv, NEW m \in Managers, NEW k \in Keys, NEW rv, NEW d, NEW ACTION next,
         d.uid \in Nat, d.ver \in Nat,
         work[m].pc \in Busy, UpdateChild(m, k, rv, d, next)
  PROVE  /\ kids' \in [Names -> [Keys -> Child]]
         /\ next \/ ReturnErr(m)
<1> DEFINE n == work[m].key
           w == Written(kids[n][k].rv + 1, d.uid, d.ver)
           c == IF kids[n][k] = Written(kids[n][k].rv, d.uid, d.ver)
                THEN kids[n][k] ELSE w
<1>0. n \in Names /\ kids[n][k] \in Child
  BY SMT DEF TypeInv, TypeOK, KeyOK
<1>1. c \in Child
  <2>1. kids[n][k].rv + 1 \in Nat
    BY <1>0, SMT DEF Child
  <2>2. w \in Child
    BY <2>1, WrittenType
  <2> QED BY <1>0, <2>2
<1>2. CASE ReturnErr(m) /\ UNCHANGED kids
  BY <1>2 DEF TypeInv, TypeOK
<1>3. CASE kids' = [kids EXCEPT ![n][k] = c] /\ next
  BY <1>1, <1>3, ChildWrite
<1> QED BY <1>2, <1>3 DEF UpdateChild

\* A child that is gone keeps its version counter.
LEMMA RemovedType ==
  ASSUME NEW c \in Child PROVE Removed(c) \in Child
  BY SMT DEF Removed, Child

\* The deletion of a child, done or refused.
LEMMA DeleteChildType ==
  ASSUME TypeInv, NEW m \in Managers, NEW k, NEW s \in Busy, NEW ACTION next,
         DeleteChild(m, k, s, next)
  PROVE  /\ kids' \in [Names -> [Keys -> Child]]
         /\ (next /\ UNCHANGED queue) \/ ReturnErr(m)
         /\ UNCHANGED <<cr, born, crCache, kidCache, budget>>
         /\ work[m].pc = s
<1> DEFINE n == work[m].key
<1>1. CASE kids' = kids
  BY <1>1 DEF TypeInv, TypeOK, DeleteChild, caches
<1>2. CASE kids' = [kids EXCEPT ![n][k] = Removed(kids[n][k])]
  <2>1. n \in Names
    BY DEF DeleteChild, TypeInv, KeyOK
  <2>2. k \in Keys => Removed(kids[n][k]) \in Child
    BY <2>1, RemovedType DEF TypeInv, TypeOK
  <2>3. kids' \in [Names -> [Keys -> Child]]
    BY <1>2, <2>2, ChildWrite
  <2> QED BY <2>3 DEF DeleteChild, caches
<1> QED BY <1>1, <1>2 DEF DeleteChild

-----------------------------------------------------------------------------
(* Type correctness.                                                       *)

\* A stage changes nothing but these.
LEMMA StageFrame ==
  ASSUME TypeInv, NEW m \in Managers, KeyOK',
         UNCHANGED <<born, crCache, kidCache, budget>>,
         cr' \in [Names -> Instance],
         kids' \in [Names -> [Keys -> Child]],
         queue' \in [Managers -> SUBSET Names],
         work' \in [Managers -> Work]
  PROVE  TypeInv'
  BY DEF TypeInv, TypeOK

\* Every child the handler names is a key of the store.
LEMMA KeysFacts ==
  /\ {DeploymentKey, ServiceKey, ConfigMapKey} \subseteq Watched
  /\ Watched \subseteq Keys
  /\ ClaimKey \in Keys
  BY DEF Watched, Keys

\* The stages of a request, by name.
LEMMA BusyStages ==
  /\ Busy = {"delClaims", "delDep", "delSvc", "delCm", "unfin", "resave",
             "validate", "addFin", "lookup", "mkCm", "mkClaim", "mkDep",
             "mkSvc", "status", "annotate", "read", "make", "put", "reput"}
  /\ Busy \subseteq Stages
  /\ CallStages \subseteq Busy
  BY SMT DEF Busy, Stages, CallStages

\* The finalizer's stages that delete one object.
LEMMA DeleteStageType ==
  ASSUME TypeInv, NEW m \in Managers, NEW k, NEW s \in Busy, NEW t \in Busy,
         DeleteChild(m, k, s, Goto(m, t))
  PROVE  TypeInv'
<1>1. /\ kids' \in [Names -> [Keys -> Child]]
      /\ (Goto(m, t) /\ UNCHANGED queue) \/ ReturnErr(m)
      /\ UNCHANGED <<cr, born, crCache, kidCache, budget>>
      /\ work[m].pc = s
  BY DeleteChildType
<1>2. CASE ReturnErr(m)
  BY <1>1, <1>2, ReturnErrType, StageFrame DEF TypeInv, TypeOK
<1>3. CASE Goto(m, t) /\ UNCHANGED queue
  BY <1>1, <1>3, GotoType, BusyStages, StageFrame DEF TypeInv, TypeOK
<1> QED BY <1>1, <1>2, <1>3

\* The finalizer's loop over the claims.
LEMMA FinalizeClaimsType ==
  ASSUME TypeInv, NEW m \in Managers, FinalizePersistentVolumeClaims(m)
  PROVE  TypeInv'
<1> DEFINE i == work[m].at
           w == [work[m] EXCEPT
                  !.at = IF i + 1 < SizeOf(work[m].obj) THEN i + 1 ELSE 0,
                  !.pc = IF i + 1 < SizeOf(work[m].obj) THEN @ ELSE "delDep"]
<1>1. /\ kids' \in [Names -> [Keys -> Child]]
      /\ (Move(m, w) /\ UNCHANGED queue) \/ ReturnErr(m)
      /\ UNCHANGED <<cr, born, crCache, kidCache, budget>>
      /\ work[m].pc = "delClaims"
  <2>1. DeleteChild(m, FinalizedClaim(i), "delClaims", Move(m, w))
    BY DEF FinalizePersistentVolumeClaims
  <2> HIDE DEF w
  <2> QED BY <2>1, DeleteChildType, BusyStages
<1>2. CASE ReturnErr(m)
  BY <1>1, <1>2, ReturnErrType, BusyStages, StageFrame DEF TypeInv, TypeOK
<1>3. CASE Move(m, w) /\ UNCHANGED queue
  <2>1. work[m] \in Work /\ work[m].key \in Names
    BY <1>1, BusyStages DEF TypeInv, TypeOK, KeyOK
  <2>2. i \in Nat
    BY <2>1 DEF Work
  <2>3. (IF i + 1 < SizeOf(work[m].obj) THEN i + 1 ELSE 0) \in Nat
    BY <2>2, SMT
  <2>4. (IF i + 1 < SizeOf(work[m].obj) THEN work[m].pc ELSE "delDep") \in Stages
    BY <1>1, BusyStages
  <2>5. \A a \in Nat, p \in Stages :
          LET v == [work[m] EXCEPT !.at = a, !.pc = p] IN
          v \in Work /\ v.key = work[m].key
    BY <2>1, Zenon DEF Work
  <2>6. w \in Work /\ w.key \in Names
    BY <2>1, <2>3, <2>4, <2>5
  <2> HIDE DEF w
  <2> QED BY <1>1, <1>3, <2>6, MoveType, StageFrame DEF TypeInv, TypeOK
<1> QED BY <1>1, <1>2, <1>3

\* What the handler changes in its copy of the instance.
LEMMA NewInstanceType ==
  ASSUME NEW o \in Instance
  PROVE  /\ \A own \in BOOLEAN : [o EXCEPT !.own = own] \in Instance
         /\ [o EXCEPT !.rep = o.ver] \in Instance
         /\ [o EXCEPT !.ann = o.ver] \in Instance
  BY SMT DEF Instance

\* The stages that update the instance.
LEMMA InstanceStageType ==
  ASSUME TypeInv, NEW m \in Managers, NEW new \in Instance, NEW t \in Busy,
         work[m].pc \in Busy, UpdateInstance(m, new, t),
         UNCHANGED <<kids, born, caches, budget>>
  PROVE  TypeInv'
<1>1. kids' \in [Names -> [Keys -> Child]]
  BY DEF TypeInv, TypeOK
<1> QED BY <1>1, UpdateInstanceType, StageFrame DEF caches

\* The stages that create a child.
LEMMA CreateStageType ==
  ASSUME TypeInv, NEW m \in Managers, NEW k \in Keys, NEW t \in Busy,
         work[m].pc \in Busy, CreateChild(m, k, t),
         UNCHANGED <<cr, born, caches, budget>>
  PROVE  TypeInv'
<1>1. cr' \in [Names -> Instance]
  BY DEF TypeInv, TypeOK
<1> QED BY <1>1, CreateChildType, StageFrame DEF caches

\* A stage that only moves the worker on, or ends the request.
LEMMA QuietStageType ==
  ASSUME TypeInv, NEW m \in Managers, work[m].pc \in Busy,
         \/ ReturnErr(m)
         \/ Die(m)
         \/ (\E s \in Stages : Goto(m, s)) /\ UNCHANGED queue,
         UNCHANGED <<store, caches>>,
         budget' \in [faults: Nat, crashes: Nat, drifts: Nat, drops: Nat]
  PROVE  TypeInv'
<1>1. CASE ReturnErr(m)
  BY <1>1, ReturnErrType DEF TypeInv, TypeOK, store, caches
<1>2. CASE Die(m)
  BY <1>2, DieType DEF TypeInv, TypeOK, store, caches
<1>3. CASE (\E s \in Stages : Goto(m, s)) /\ UNCHANGED queue
  BY <1>3, GotoType DEF TypeInv, TypeOK, store, caches
<1> QED BY <1>1, <1>2, <1>3

\* The read of updateResource.
LEMMA ReadResourceType ==
  ASSUME TypeInv, NEW m \in Managers, ReadResource(m)
  PROVE  TypeInv'
<1> DEFINE w == work[m]
           seen == kidCache[m][w.key][w.tgt]
           t == IF seen.live THEN "put" ELSE "make"
           v == [w EXCEPT !.seen = seen, !.pc = t]
<1>1. work[m].pc \in Busy
  BY BusyStages DEF ReadResource
<1>2. w \in Work /\ w.key \in Names
  BY <1>1 DEF TypeInv, TypeOK, KeyOK
<1>3. CASE Die(m) /\ UNCHANGED <<store, caches, budget>>
  BY <1>1, <1>3, QuietStageType DEF TypeInv, TypeOK
<1>4. CASE Move(m, v) /\ UNCHANGED queue /\ UNCHANGED <<store, caches, budget>>
  <2>1. w.tgt \in Watched
    BY <1>2 DEF Work
  <2>2. seen \in Child
    BY <1>2, <2>1 DEF TypeInv, TypeOK
  <2>3. t \in Stages
    BY BusyStages
  <2>4. \A c \in Child, s \in Stages :
          LET x == [w EXCEPT !.seen = c, !.pc = s] IN x \in Work /\ x.key = w.key
    BY <1>2, Zenon DEF Work
  <2> HIDE DEF seen, t
  <2>5. v \in Work /\ v.key \in Names
    BY <1>2, <2>2, <2>3, <2>4
  <2> HIDE DEF v
  <2> QED BY <1>4, <2>5, MoveType DEF TypeInv, TypeOK, store, caches
<1> QED BY <1>3, <1>4 DEF ReadResource

\* From one child of watchResource to the next.
LEMMA NextChildType ==
  ASSUME TypeInv, NEW m \in Managers, NEW k, work[m].pc \in Busy,
         NextChild(m, k)
  PROVE  /\ work' \in [Managers -> Work]
         /\ queue' \in [Managers -> SUBSET Names]
         /\ KeyOK'
<1> DEFINE w == work[m]
           t == IF k = DeploymentKey THEN ServiceKey ELSE ConfigMapKey
           v == [w EXCEPT !.pc = "read", !.seen = NoChild, !.tgt = t]
<1>1. w \in Work /\ w.key \in Names
  BY DEF TypeInv, TypeOK, KeyOK
<1>2. CASE ReturnOk(m)
  BY <1>2, QuitType DEF ReturnOk, TypeInv, TypeOK
<1>3. CASE Move(m, v) /\ UNCHANGED queue
  <2>1. t \in Watched
    BY KeysFacts
  <2>2. \A c \in Child, s \in Stages, x \in Watched :
          LET y == [w EXCEPT !.pc = s, !.seen = c, !.tgt = x] IN
          y \in Work /\ y.key = w.key
    BY <1>1, Zenon DEF Work
  <2>3. "read" \in Stages
    BY DEF Stages
  <2>4. NoChild \in Child
    BY NoneType
  <2> HIDE DEF t, w
  <2>5. v \in Work /\ v.key = w.key
    BY <2>1, <2>2, <2>3, <2>4
  <2>6. v.key \in Names
    BY <1>1, <2>5
  <2> HIDE DEF v
  <2> QED BY <1>3, <2>5, <2>6, MoveType DEF TypeInv, TypeOK
<1> QED BY <1>2, <1>3 DEF NextChild

\* The two updates of updateResource.
LEMMA UpdateStageType ==
  ASSUME TypeInv, NEW m \in Managers, UpdateExisting(m) \/ RewriteExisting(m)
  PROVE  TypeInv'
<1> DEFINE w == work[m]
<1>1. w.pc \in Busy
  BY BusyStages DEF UpdateExisting, RewriteExisting
<1>2. w \in Work
  BY DEF TypeInv, TypeOK
<1>3. w.tgt \in Keys /\ w.obj \in Instance /\ w.seen \in Child
  BY <1>2, KeysFacts DEF Work
<1>4. Desired(w.obj, w.tgt).uid \in Nat /\ Desired(w.obj, w.tgt).ver \in Nat
  BY <1>3, DesiredType
<1>5. w.seen.ver \in Nat
  BY <1>3 DEF Child
<1>6. cr' \in [Names -> Instance] /\ UNCHANGED <<born, crCache, kidCache, budget>>
  BY DEF UpdateExisting, RewriteExisting, TypeInv, TypeOK, caches
<1>7. CASE UpdateExisting(m)
  <2>1. /\ kids' \in [Names -> [Keys -> Child]]
        /\ (Goto(m, "reput") /\ UNCHANGED queue) \/ ReturnErr(m)
    BY <1>1, <1>3, <1>4, <1>7, UpdateChildType DEF UpdateExisting
  <2>2. CASE ReturnErr(m)
    BY <1>1, <1>6, <2>1, <2>2, ReturnErrType, StageFrame
  <2>3. CASE Goto(m, "reput") /\ UNCHANGED queue
    BY <1>1, <1>6, <2>1, <2>3, GotoType, BusyStages, StageFrame DEF TypeInv, TypeOK
  <2> QED BY <2>1, <2>2, <2>3
<1>8. CASE RewriteExisting(m)
  <2> DEFINE old == [uid |-> Desired(w.obj, w.tgt).uid, ver |-> w.seen.ver]
  <2>1. old.uid \in Nat /\ old.ver \in Nat
    BY <1>4, <1>5
  <2>2. \/ UpdateChild(m, w.tgt, w.seen.rv, old, NextChild(m, w.tgt))
        \/ UpdateChild(m, w.tgt, 0, Desired(w.obj, w.tgt), NextChild(m, w.tgt))
    BY <1>8 DEF RewriteExisting
  <2> HIDE DEF old
  <2>3. /\ kids' \in [Names -> [Keys -> Child]]
        /\ NextChild(m, w.tgt) \/ ReturnErr(m)
    BY <1>1, <1>3, <1>4, <2>1, <2>2, UpdateChildType
  <2>4. CASE ReturnErr(m)
    BY <1>1, <1>6, <2>3, <2>4, ReturnErrType, StageFrame
  <2>5. CASE NextChild(m, w.tgt)
    BY <1>1, <1>6, <2>3, <2>5, NextChildType, StageFrame
  <2> QED BY <2>3, <2>4, <2>5
<1> QED BY <1>7, <1>8

\* Every stage of a request keeps the types.
LEMMA StageType ==
  ASSUME TypeInv, NEW m \in Managers, Stage(m)
  PROVE  TypeInv'
<1> DEFINE o == work[m].obj
<1>1. work[m] \in Work
  BY DEF TypeInv, TypeOK
<1>2. o \in Instance
  BY <1>1 DEF Work
<1>3. budget \in [faults: Nat, crashes: Nat, drifts: Nat, drops: Nat]
  BY DEF TypeInv, TypeOK
<1>4. CASE FinalizePersistentVolumeClaims(m)
  BY <1>4, FinalizeClaimsType
<1>5. CASE FinalizeDeployment(m)
  BY <1>5, DeleteStageType, BusyStages DEF FinalizeDeployment
<1>6. CASE FinalizeService(m)
  BY <1>6, DeleteStageType, BusyStages DEF FinalizeService
<1>7. CASE FinalizeConfigMap(m)
  BY <1>7, DeleteStageType, BusyStages DEF FinalizeConfigMap
<1>8. CASE RemoveOwnFinalizer(m)
  BY <1>2, <1>8, NewInstanceType, InstanceStageType, BusyStages DEF RemoveOwnFinalizer
<1>9. CASE SaveDeleted(m)
  BY <1>2, <1>9, InstanceStageType, BusyStages DEF SaveDeleted
<1>10. CASE Validate(m)
  BY <1>3, <1>10, QuietStageType, BusyStages DEF Validate
<1>11. CASE AddFinalizer(m)
  BY <1>2, <1>11, NewInstanceType, InstanceStageType, BusyStages DEF AddFinalizer
<1>12. CASE LookupDeployment(m)
  <2>1. budget' \in [faults: Nat, crashes: Nat, drifts: Nat, drops: Nat]
    BY <1>3, <1>12, SMT DEF LookupDeployment
  <2> QED BY <1>12, <2>1, QuietStageType, BusyStages DEF LookupDeployment, store, caches
<1>13. CASE CreateConfigMap(m)
  BY <1>13, CreateStageType, KeysFacts, BusyStages DEF CreateConfigMap
<1>14. CASE CreatePersistentVolumeClaim(m)
  BY <1>14, CreateStageType, KeysFacts, BusyStages DEF CreatePersistentVolumeClaim
<1>15. CASE CreateDeployment(m)
  <2>1. CASE CreateChild(m, DeploymentKey, "mkSvc")
    BY <1>15, <2>1, CreateStageType, KeysFacts, BusyStages DEF CreateDeployment
  <2>2. CASE Die(m) /\ UNCHANGED kids
    BY <1>3, <1>15, <2>2, QuietStageType, BusyStages DEF CreateDeployment, store, caches
  <2> QED BY <1>15, <2>1, <2>2 DEF CreateDeployment
<1>16. CASE CreateService(m)
  BY <1>16, CreateStageType, KeysFacts, BusyStages DEF CreateService
<1>17. CASE UpdateStatus(m)
  BY <1>2, <1>17, NewInstanceType, InstanceStageType, BusyStages DEF UpdateStatus, StatusOf
<1>18. CASE UpdateSpecAnnotation(m)
  BY <1>2, <1>18, NewInstanceType, InstanceStageType, BusyStages DEF UpdateSpecAnnotation
<1>19. CASE ReadResource(m)
  BY <1>19, ReadResourceType
<1>20. CASE CreateMissing(m)
  <2>1. work[m].tgt \in Keys
    BY <1>1, KeysFacts DEF Work
  <2> QED BY <1>20, <2>1, CreateStageType, BusyStages DEF CreateMissing
<1>21. CASE UpdateExisting(m) \/ RewriteExisting(m)
  BY <1>21, UpdateStageType
<1> QED
  BY <1>4, <1>5, <1>6, <1>7, <1>8, <1>9, <1>10, <1>11, <1>12, <1>13, <1>14,
     <1>15, <1>16, <1>17, <1>18, <1>19, <1>20, <1>21 DEF Stage

\* So does taking a request,
LEMMA BeginType ==
  ASSUME TypeInv, NEW m \in Managers, NEW n \in Names, Begin(m, n)
  PROVE  /\ TypeInv'
         /\ work'[m].key = n
         /\ work'[m].obj = crCache[m][n]
         /\ work'[m].pc = IF ~crCache[m][n].del THEN "validate"
                          ELSE IF crCache[m][n].own THEN "delClaims" ELSE "resave"
         /\ \A x \in Managers : x # m => work'[x] = work[x]
<1> DEFINE o == crCache[m][n]
           t == IF ~o.del THEN "validate" ELSE IF o.own THEN "delClaims" ELSE "resave"
           w == [work[m] EXCEPT !.key = n, !.obj = o, !.pc = t]
<1>1. work[m] \in Work /\ o \in Instance /\ t \in Stages
  BY BusyStages DEF TypeInv, TypeOK
<1>2. \A c \in Instance, s \in Stages :
        LET y == [work[m] EXCEPT !.key = n, !.obj = c, !.pc = s] IN
        y \in Work /\ y.key = n /\ y.obj = c /\ y.pc = s
  BY <1>1, Zenon DEF Work
<1>3. Move(m, w)
  BY DEF Begin
<1>4. queue' \in [Managers -> SUBSET Names]
  BY SMT DEF Begin, TypeInv, TypeOK
<1> HIDE DEF o, t
<1>5. w \in Work /\ w.key = n /\ w.obj = o /\ w.pc = t
  BY <1>1, <1>2
<1> HIDE DEF w
<1>6. /\ work' \in [Managers -> Work]
      /\ work'[m] = w
      /\ \A x \in Managers : x # m => work'[x] = work[x]
      /\ KeyOK'
  BY <1>3, <1>5, MoveType
<1>7. TypeInv'
  BY <1>4, <1>6 DEF Begin, TypeInv, TypeOK, store, caches
<1> QED
  BY <1>5, <1>6, <1>7 DEF o, t

\* a failing call or a crash,
LEMMA FailureType ==
  ASSUME TypeInv, NEW m \in Managers, CallFails(m) \/ Crash(m)
  PROVE  TypeInv'
<1>1. budget' \in [faults: Nat, crashes: Nat, drifts: Nat, drops: Nat]
  <2>1. budget \in [faults: Nat, crashes: Nat, drifts: Nat, drops: Nat]
    BY DEF TypeInv, TypeOK
  <2>2. CASE CallFails(m)
    BY <2>1, <2>2, SMT DEF CallFails
  <2>3. CASE Crash(m)
    BY <2>1, <2>3, SMT DEF Crash
  <2> QED BY <2>2, <2>3
<1>2. CASE CallFails(m)
  BY <1>1, <1>2, QuietStageType, BusyStages DEF CallFails
<1>3. CASE Crash(m)
  BY <1>1, <1>3, DieType DEF Crash, TypeInv, TypeOK, store, caches
<1> QED BY <1>2, <1>3

\* a restart,
LEMMA RestartType ==
  ASSUME TypeInv, NEW m \in Managers, Restart(m)
  PROVE  TypeInv'
<1>1. work' \in [Managers -> Work] /\ KeyOK'
  BY QuitType DEF Restart
<1>2. queue' \in [Managers -> SUBSET Names]
  BY SMT DEF Restart, TypeInv, TypeOK
<1>3. crCache' \in [Managers -> [Names -> Instance]]
  BY SMT DEF Restart, TypeInv, TypeOK
<1>4. [n \in Names |-> [k \in Watched |-> kids[n][k]]] \in [Names -> [Watched -> Child]]
  BY KeysFacts, SMT DEF TypeInv, TypeOK
<1>5. kidCache' \in [Managers -> [Names -> [Watched -> Child]]]
  BY <1>4, SMT DEF Restart, TypeInv, TypeOK
<1> QED BY <1>1, <1>2, <1>3, <1>5 DEF Restart, TypeInv, TypeOK, store

\* and a watch event.
LEMMA SyncType ==
  ASSUME TypeInv, NEW m \in Managers, NEW n \in Names, NEW k \in Watched,
         SyncInstance(m, n) \/ SyncChild(m, n, k)
  PROVE  TypeInv'
<1>1. queue' \in [Managers -> SUBSET Names]
  <2>1. queue \in [Managers -> SUBSET Names]
    BY DEF TypeInv, TypeOK
  <2>2. PICK q \in SUBSET Names : queue' = [queue EXCEPT ![m] = q]
    <3>1. queue[m] \in SUBSET Names /\ queue[m] \cup {n} \in SUBSET Names
      BY <2>1
    <3> QED BY <3>1 DEF SyncInstance, SyncChild
  <2> QED BY <2>1, <2>2, FunctionWrite
<1>2. CASE SyncInstance(m, n)
  <2>1. crCache' \in [Managers -> [Names -> Instance]]
    BY <1>2, SMT DEF SyncInstance, TypeInv, TypeOK
  <2> QED BY <1>1, <1>2, <2>1 DEF SyncInstance, TypeInv, TypeOK, KeyOK, store
<1>3. CASE SyncChild(m, n, k)
  <2> DEFINE f == [kidCache[m][n] EXCEPT ![k] = kids[n][k]]
             g == [kidCache[m] EXCEPT ![n] = f]
  <2>1. kids[n][k] \in Child
    BY KeysFacts DEF TypeInv, TypeOK
  <2>2. f \in [Watched -> Child]
    BY <2>1, FunctionWrite DEF TypeInv, TypeOK
  <2>3. kidCache' = [kidCache EXCEPT ![m] = g]
    BY <1>3 DEF SyncChild
  <2> HIDE DEF f
  <2>4. g \in [Names -> [Watched -> Child]]
    BY <2>2, FunctionWrite DEF TypeInv, TypeOK
  <2> HIDE DEF g
  <2>5. kidCache' \in [Managers -> [Names -> [Watched -> Child]]]
    BY <2>3, <2>4, FunctionWrite DEF TypeInv, TypeOK
  <2> QED BY <1>1, <1>3, <2>5 DEF SyncChild, TypeInv, TypeOK, KeyOK, store
<1> QED BY <1>2, <1>3

\* What users and other controllers do to a SingleInstance.
LEMMA SubmittedType ==
  ASSUME NEW uid \in Nat, NEW shape \in AllShapes, NEW own \in BOOLEAN
  PROVE  LET c == Submitted(uid, shape, own) IN
         /\ c \in Instance
         /\ c.uid = uid
         /\ c.own = own
         /\ ~c.del
<1>1. 1 \in Nat /\ ~NoInstance.del
  BY SMT DEF NoInstance
<1> QED BY <1>1, NoneType, Zenon DEF Submitted, Instance

\* An instance after a user's edit,
LEMMA EditedType ==
  ASSUME NEW o \in Instance, NEW shape \in AllShapes
  PROVE  LET c == Edited(o, shape) IN
         /\ c \in Instance
         /\ c.uid = o.uid /\ c.own = o.own /\ c.del = o.del
         /\ c.rv = o.rv + 1 /\ c.ver = o.ver + 1
<1>1. o.rv + 1 \in Nat /\ o.ver + 1 \in Nat
  BY SMT DEF Instance
<1> QED BY <1>1, Zenon DEF Edited, Instance

\* after the mark of a deletion,
LEMMA MarkedType ==
  ASSUME NEW o \in Instance, NEW foreign \in BOOLEAN
  PROVE  LET c == Marked(o, foreign) IN
         /\ c \in Instance
         /\ c.uid = o.uid /\ c.own = o.own /\ c.del
         /\ c.rv = o.rv + 1 /\ c.ver = o.ver
<1>1. o.rv + 1 \in Nat
  BY SMT DEF Instance
<1> QED BY <1>1, Zenon DEF Marked, Instance

\* and after another finalizer is gone.
LEMMA ReleasedType ==
  ASSUME NEW o \in Instance
  PROVE  LET c == Released(o) IN
         /\ c \in Instance
         /\ c.uid = o.uid /\ c.own = o.own /\ c.del = o.del
         /\ c.rv = o.rv + 1 /\ c.ver = o.ver
<1>1. o.rv + 1 \in Nat
  BY SMT DEF Instance
<1> QED BY <1>1, Zenon DEF Released, Instance

\* The three things that happen to the instance of a name: it is written to,
\* it goes, or it is submitted.
Touched(n) ==
  /\ cr'[n].uid = cr[n].uid
  /\ cr'[n].rv = cr[n].rv + 1
  /\ cr'[n].ver >= cr[n].ver
  /\ cr[n].del => cr'[n].del
  /\ born'[n] = born[n]

Gone(n) == cr'[n] = NoInstance /\ born'[n] = born[n]

Appears(n) ==
  /\ cr[n].uid = 0
  /\ cr'[n].uid = born[n] + 1
  /\ born'[n] = born[n] + 1
  /\ ~cr'[n].del

OthersKept(n) == \A x \in Names \ {n} : cr'[x] = cr[x] /\ born'[x] = born[x]

\* A write of one instance leaves the others alone.
LEMMA InstanceWrite ==
  ASSUME TypeInv, NEW n \in Names, NEW c \in Instance, cr' = [cr EXCEPT ![n] = c],
         UNCHANGED born
  PROVE  cr' \in [Names -> Instance] /\ cr'[n] = c /\ OthersKept(n)
  BY SMT DEF TypeInv, TypeOK, OthersKept

\* What users and other finalizers do to an instance: touch it, let it go, or submit a new one.
LEMMA UserInstance ==
  ASSUME TypeInv, NEW n \in Names,
         UserCreates(n) \/ UserEdits(n) \/ UserDeletes(n) \/ ReleaseForeign(n)
  PROVE  /\ cr' \in [Names -> Instance]
         /\ born' \in [Names -> Nat]
         /\ UNCHANGED <<kids, crCache, kidCache, queue, work, budget>>
         /\ OthersKept(n)
         /\ \/ Touched(n) /\ cr'[n].own = cr[n].own /\ (cr[n].uid # 0 \/ cr[n].foreign)
            \/ Gone(n) /\ ~cr[n].own
            \/ Appears(n)
<1>1. cr[n] \in Instance /\ born[n] \in Nat /\ born \in [Names -> Nat]
  BY DEF TypeInv, TypeOK
<1>2. CASE UserCreates(n)
  <2>1. PICK shape \in Shapes, own \in BornWithOwn :
          cr' = [cr EXCEPT ![n] = Submitted(born[n] + 1, shape, own)]
    BY <1>2 DEF UserCreates
  <2> DEFINE c == Submitted(born[n] + 1, shape, own)
  <2>2. shape \in AllShapes /\ own \in BOOLEAN /\ born[n] + 1 \in Nat
    BY <1>1, ConstantsAssumption
  <2>3. c \in Instance /\ c.uid = born[n] + 1 /\ ~c.del
    BY <2>2, SubmittedType
  <2>4. /\ born' \in [Names -> Nat] /\ born'[n] = born[n] + 1
        /\ \A x \in Names \ {n} : born'[x] = born[x]
    BY <1>1, <1>2, <2>2, SMT DEF UserCreates
  <2> HIDE DEF c
  <2>5. /\ cr' \in [Names -> Instance] /\ cr'[n] = c
        /\ \A x \in Names \ {n} : cr'[x] = cr[x]
    BY <2>1, <2>3, SMT DEF TypeInv, TypeOK, c
  <2> QED BY <1>2, <2>3, <2>4, <2>5 DEF UserCreates, caches, OthersKept, Appears
<1>3. CASE UserEdits(n)
  <2>1. PICK shape \in Shapes : cr' = [cr EXCEPT ![n] = Edited(cr[n], shape)]
    BY <1>3 DEF UserEdits
  <2> DEFINE c == Edited(cr[n], shape)
  <2>2. shape \in AllShapes
    BY ConstantsAssumption
  <2>3. /\ c \in Instance /\ c.uid = cr[n].uid /\ c.own = cr[n].own
        /\ c.del = cr[n].del /\ c.rv = cr[n].rv + 1 /\ c.ver = cr[n].ver + 1
    BY <1>1, <2>2, EditedType
  <2>4. cr[n].ver \in Nat
    BY <1>1 DEF Instance
  <2>5. UNCHANGED born /\ cr[n].uid # 0
    BY <1>3 DEF UserEdits
  <2>6. cr' = [cr EXCEPT ![n] = c]
    BY <2>1
  <2> HIDE DEF c
  <2>7. cr' \in [Names -> Instance] /\ cr'[n] = c /\ OthersKept(n)
    BY <2>3, <2>5, <2>6, InstanceWrite
  <2>8. cr'[n].ver >= cr[n].ver
    BY <2>3, <2>4, <2>7, SMT
  <2>9. Touched(n)
    BY <2>3, <2>5, <2>7, <2>8 DEF Touched
  <2> QED BY <1>1, <1>3, <2>3, <2>5, <2>7, <2>9 DEF UserEdits, caches
<1>4. ASSUME NEW c \in Instance, c.uid = cr[n].uid, c.own = cr[n].own,
             cr[n].del => c.del, c.rv = cr[n].rv + 1, c.ver = cr[n].ver,
             cr' = [cr EXCEPT ![n] = Settled(c)], UNCHANGED born,
             cr[n].uid # 0 \/ cr[n].foreign
      PROVE  /\ cr' \in [Names -> Instance]
             /\ OthersKept(n)
             /\ \/ Touched(n) /\ cr'[n].own = cr[n].own /\ (cr[n].uid # 0 \/ cr[n].foreign)
                \/ Gone(n) /\ ~cr[n].own
  <2>1. Settled(c) \in Instance
    BY NoneType DEF Settled
  <2>2. cr' \in [Names -> Instance] /\ cr'[n] = Settled(c) /\ OthersKept(n)
    BY <1>4, <2>1, InstanceWrite
  <2>3. cr[n].ver \in Nat
    BY <1>1 DEF Instance
  <2>4. CASE Settled(c) = c
    BY <1>4, <2>2, <2>3, <2>4, SMT DEF Touched
  <2>5. CASE Settled(c) # c
    BY <1>4, <2>2, <2>5 DEF Gone, Settled
  <2> QED BY <2>2, <2>4, <2>5
<1>5. CASE UserDeletes(n)
  <2>1. PICK foreign \in ForeignHold :
          cr' = [cr EXCEPT ![n] = Settled(Marked(cr[n], foreign))]
    BY <1>5 DEF UserDeletes
  <2> DEFINE c == Marked(cr[n], foreign)
  <2>2. foreign \in BOOLEAN
    BY ConstantsAssumption
  <2>3. /\ c \in Instance /\ c.uid = cr[n].uid /\ c.own = cr[n].own
        /\ c.del /\ c.rv = cr[n].rv + 1 /\ c.ver = cr[n].ver
    BY <1>1, <2>2, MarkedType
  <2>4. cr' = [cr EXCEPT ![n] = Settled(c)]
    BY <2>1
  <2> HIDE DEF c
  <2> QED BY <1>1, <1>4, <1>5, <2>3, <2>4 DEF UserDeletes, caches
<1>6. CASE ReleaseForeign(n)
  <2> DEFINE c == Released(cr[n])
  <2>1. /\ c \in Instance /\ c.uid = cr[n].uid /\ c.own = cr[n].own
        /\ c.del = cr[n].del /\ c.rv = cr[n].rv + 1 /\ c.ver = cr[n].ver
    BY <1>1, ReleasedType
  <2>2. cr' = [cr EXCEPT ![n] = Settled(c)]
    BY <1>6 DEF ReleaseForeign
  <2> HIDE DEF c
  <2> QED BY <1>1, <1>4, <1>6, <2>1, <2>2 DEF ReleaseForeign, caches
<1> QED BY <1>2, <1>3, <1>5, <1>6

\* What users and other controllers do to the children.
LEMMA OtherChildren ==
  ASSUME TypeInv, NEW n \in Names, NEW k \in {DeploymentKey, ServiceKey},
         UserDropsDeployment(n) \/ Drift(n, k) \/ CollectDeployment(n)
  PROVE  /\ kids' \in [Names -> [Keys -> Child]]
         /\ budget' \in [faults: Nat, crashes: Nat, drifts: Nat, drops: Nat]
         /\ UNCHANGED <<cr, born, crCache, kidCache, queue, work>>
         /\ \A x \in Names, y \in Keys :
              kids'[x][y].live => kids[x][y].live /\ kids'[x][y].uid = kids[x][y].uid
<1>1. /\ kids \in [Names -> [Keys -> Child]]
      /\ budget \in [faults: Nat, crashes: Nat, drifts: Nat, drops: Nat]
  BY DEF TypeInv, TypeOK
<1>2. DeploymentKey \in Keys /\ k \in Keys
  BY KeysFacts
<1>3. ASSUME NEW y \in Keys, NEW c \in Child, kids' = [kids EXCEPT ![n][y] = c],
             c.live => kids[n][y].live /\ c.uid = kids[n][y].uid
      PROVE  /\ kids' \in [Names -> [Keys -> Child]]
             /\ \A x \in Names, z \in Keys :
                  kids'[x][z].live => kids[x][z].live /\ kids'[x][z].uid = kids[x][z].uid
  BY <1>3, ChildWrite
<1>4. CASE UserDropsDeployment(n) \/ CollectDeployment(n)
  <2> DEFINE c == Removed(kids[n][DeploymentKey])
  <2>1. c \in Child
    BY <1>1, <1>2, RemovedType
  <2>2. ~c.live
    BY DEF Removed
  <2>3. kids' = [kids EXCEPT ![n][DeploymentKey] = c]
    BY <1>4 DEF UserDropsDeployment, CollectDeployment
  <2> HIDE DEF c
  <2>4. budget' \in [faults: Nat, crashes: Nat, drifts: Nat, drops: Nat]
    <3>1. CASE UserDropsDeployment(n)
      BY <1>1, <3>1, SMT DEF UserDropsDeployment
    <3>2. CASE CollectDeployment(n)
      BY <1>1, <3>2 DEF CollectDeployment
    <3> QED BY <1>4, <3>1, <3>2
  <2> QED BY <1>2, <1>3, <1>4, <2>1, <2>2, <2>3, <2>4
          DEF UserDropsDeployment, CollectDeployment, caches
<1>5. CASE Drift(n, k)
  <2> DEFINE old == kids[n][k]
             c == Drifted(old)
  <2>1. old \in Child
    BY <1>1, <1>2
  <2>2. old.rv + 1 \in Nat
    BY <2>1, SMT DEF Child
  <2>3. c \in Child /\ c.live = old.live /\ c.uid = old.uid
    BY <2>1, <2>2, Zenon DEF Child, Drifted
  <2>4. kids' = [kids EXCEPT ![n][k] = c]
    BY <1>5 DEF Drift
  <2> HIDE DEF c
  <2>5. budget' \in [faults: Nat, crashes: Nat, drifts: Nat, drops: Nat]
    BY <1>1, <1>5, SMT DEF Drift
  <2> QED BY <1>2, <1>3, <1>5, <2>3, <2>4, <2>5 DEF Drift, caches
<1> QED BY <1>4, <1>5

\* The claims that others make and delete are not among the objects this
\* controller makes.
LEMMA ClaimsApart ==
  \A i \in 0 .. Replicas : FinalizedClaim(i) \notin Watched \cup {ClaimKey, FinalizedConfigMap}
  BY SMT DEF FinalizedClaim, Watched, ClaimKey, FinalizedConfigMap, DeploymentKey,
             ServiceKey, ConfigMapKey

\* What others do to this controller.
LEMMA ElsewhereFacts ==
  ASSUME TypeInv, Elsewhere
  PROVE  /\ TypeInv'
         /\ UNCHANGED <<cr, born, crCache, kidCache, budget>>
         /\ \A n \in Names, k \in Watched \cup {ClaimKey, FinalizedConfigMap} :
              kids'[n][k] = kids[n][k]
         /\ \A m \in Managers :
              work'[m] = work[m] \/ (work'[m].pc = "down" /\ queue'[m] = {})
<1>1. UNCHANGED <<cr, born, crCache, kidCache, budget>>
  BY DEF Elsewhere, caches
<1>2. PICK changed \in SUBSET (Names \X (0 .. Replicas)) : ClaimsChanged(changed)
  BY DEF Elsewhere
<1>3. ASSUME NEW n \in Names, NEW k \in Keys
      PROVE  /\ kids'[n][k] \in Child
             /\ k \in Watched \cup {ClaimKey, FinalizedConfigMap} => kids'[n][k] = kids[n][k]
  <2>1. kids[n][k] \in Child /\ kids[n][k].rv + 1 \in Nat
    BY SMT DEF TypeInv, TypeOK, Child
  <2>2. Removed(kids[n][k]) \in Child /\ Written(kids[n][k].rv + 1, 0, 0) \in Child
    BY <2>1, RemovedType, WrittenType, SMT
  <2>3. CASE \E i \in 0 .. Replicas : k = FinalizedClaim(i) /\ <<n, i>> \in changed
    <3>1. kids'[n][k] = IF kids[n][k].live THEN Removed(kids[n][k])
                        ELSE Written(kids[n][k].rv + 1, 0, 0)
      BY <1>2, <2>3 DEF ClaimsChanged
    <3> QED BY <2>2, <2>3, <3>1, ClaimsApart
  <2>4. CASE ~\E i \in 0 .. Replicas : k = FinalizedClaim(i) /\ <<n, i>> \in changed
    BY <1>2, <2>1, <2>4 DEF ClaimsChanged
  <2> QED BY <2>3, <2>4
<1>4. kids' \in [Names -> [Keys -> Child]]
  <2> DEFINE there(n, k) == IF \E i \in 0 .. Replicas : k = FinalizedClaim(i) /\ <<n, i>> \in changed
                            THEN IF kids[n][k].live THEN Removed(kids[n][k])
                                 ELSE Written(kids[n][k].rv + 1, 0, 0)
                            ELSE kids[n][k]
  <2>1. kids' = [n \in Names |-> [k \in Keys |-> there(n, k)]]
    BY <1>2 DEF ClaimsChanged
  <2> HIDE DEF there
  <2>2. \A n \in Names, k \in Keys : there(n, k) \in Child
    BY <1>3, <2>1
  <2> QED BY <2>1, <2>2
<1>5. \A n \in Names, k \in Watched \cup {ClaimKey, FinalizedConfigMap} :
        kids'[n][k] = kids[n][k]
  BY <1>3 DEF Keys
<1>6. CASE UNCHANGED <<queue, work>>
  BY <1>1, <1>4, <1>5, <1>6 DEF TypeInv, TypeOK, KeyOK
<1>7. ASSUME NEW m \in Managers, Die(m)
      PROVE  /\ TypeInv'
             /\ \A x \in Managers :
                  work'[x] = work[x] \/ (work'[x].pc = "down" /\ queue'[x] = {})
  <2>1. queue'[m] = {}
    BY <1>7 DEF Die, TypeInv, TypeOK
  <2> QED BY <1>1, <1>4, <1>7, <2>1, DieType DEF TypeInv, TypeOK
<1> QED BY <1>1, <1>5, <1>6, <1>7 DEF Elsewhere

\* Every step keeps the types.
LEMMA TypeStep == TypeInv /\ [OpenNext]_vars => TypeInv'
<1> SUFFICES ASSUME TypeInv, [OpenNext]_vars PROVE TypeInv'
  OBVIOUS
<1>1. CASE UNCHANGED vars
  BY <1>1 DEF TypeInv, TypeOK, KeyOK, vars
<1>2. ASSUME NEW m \in Managers, Manager(m) PROVE TypeInv'
  BY <1>2, BeginType, StageType, FailureType, RestartType, SyncType, KeysFacts DEF Manager
<1>3. ASSUME NEW n \in Names, User(n) \/ Cluster(n) PROVE TypeInv'
  <2>1. CASE UserCreates(n) \/ UserEdits(n) \/ UserDeletes(n) \/ ReleaseForeign(n)
    BY <2>1, UserInstance DEF TypeInv, TypeOK, KeyOK
  <2>2. ASSUME NEW k \in {DeploymentKey, ServiceKey},
               UserDropsDeployment(n) \/ Drift(n, k) \/ CollectDeployment(n)
        PROVE  TypeInv'
    BY <2>2, OtherChildren DEF TypeInv, TypeOK, KeyOK
  <2> QED BY <1>3, <2>1, <2>2 DEF User, Cluster
<1> QED BY <1>1, <1>2, <1>3, ElsewhereFacts DEF OpenNext, Next

\* And the first state has them.
LEMMA TypeInit == Init => TypeInv
<1> SUFFICES ASSUME Init PROVE TypeInv
  OBVIOUS
<1>1. \A m \in Managers : work[m] = Rest("down")
  BY DEF Init
<1>2. Rest("down") \in Work /\ Rest("down").pc = "down"
  BY RestType DEF Stages
<1>3. KeyOK
  BY <1>1, <1>2, BusyStages DEF KeyOK
<1>4. budget \in [faults: Nat, crashes: Nat, drifts: Nat, drops: Nat]
  BY ConstantsAssumption, SMT DEF Init
<1>5. TypeOK
  BY <1>2, <1>4, NoneType, SMT DEF Init, TypeOK
<1> QED BY <1>3, <1>5 DEF TypeInv

\* The controller alone does what it may do among others.
LEMMA SpecIsOpen == Spec => OpenSpec
<1>1. [Next]_vars => [OpenNext]_vars
  BY DEF OpenNext
<1> QED BY <1>1, PTL DEF Spec, OpenSpec

\* Every variable of the system keeps its type, also among others,
LEMMA TypesAmongOthers == OpenSpec => []TypeOK
<1>1. OpenSpec => []TypeInv
  BY TypeInit, TypeStep, PTL DEF OpenSpec
<1>2. TypeInv => TypeOK
  BY DEF TypeInv
<1> QED BY <1>1, <1>2, PTL

\* and alone, in every environment.
THEOREM TypeCorrect == Spec => []TypeOK
  BY TypesAmongOthers, SpecIsOpen, PTL

-----------------------------------------------------------------------------
(* Where a stage leads, and with what in the worker's hands.               *)

Ended(m) == work'[m].pc \in {"idle", "down"}

Kept(m, s) ==
  work'[m].pc = s /\ work'[m].key = work[m].key /\ work'[m].obj = work[m].obj

OthersWait(m) == \A x \in Managers \ {m} : work'[x] = work[x]

\* However a request ends, the other workers wait.
LEMMA EndFacts ==
  ASSUME TypeInv, NEW m \in Managers,
         (work[m].pc \in Busy /\ ReturnErr(m)) \/ Die(m) \/ ReturnOk(m)
  PROVE  Ended(m) /\ OthersWait(m)
  BY ReturnErrType, DieType, QuitType DEF Ended, OthersWait, ReturnOk

\* Another stage, the same copy.
LEMMA GotoFacts ==
  ASSUME TypeInv, NEW m \in Managers, NEW s \in Busy, work[m].pc \in Busy, Goto(m, s)
  PROVE  Kept(m, s) /\ OthersWait(m)
  BY GotoType, BusyStages DEF Kept, OthersWait

\* The loop over the claims leads on to the Deployment.
LEMMA FinalizeClaimsFacts ==
  ASSUME TypeInv, NEW m \in Managers, FinalizePersistentVolumeClaims(m)
  PROVE  /\ Ended(m) \/ Kept(m, "delClaims") \/ Kept(m, "delDep")
         /\ OthersWait(m)
         /\ work[m].pc = "delClaims"
         /\ UNCHANGED <<cr, born, crCache>>
<1> DEFINE i == work[m].at
           a == IF i + 1 < SizeOf(work[m].obj) THEN i + 1 ELSE 0
           p == IF i + 1 < SizeOf(work[m].obj) THEN work[m].pc ELSE "delDep"
           w == [work[m] EXCEPT !.at = a, !.pc = p]
<1>1. DeleteChild(m, FinalizedClaim(i), "delClaims", Move(m, w))
  BY DEF FinalizePersistentVolumeClaims
<1>2. work[m].pc = "delClaims" /\ UNCHANGED <<cr, born, crCache>>
  BY <1>1 DEF DeleteChild, caches
<1>3. work[m] \in Work /\ work[m].key \in Names /\ work[m].pc \in Busy
  BY <1>2, BusyStages DEF TypeInv, TypeOK, KeyOK
<1>4. i \in Nat
  BY <1>3 DEF Work
<1>5. a \in Nat
  BY <1>4, SMT
<1>6. p \in {"delClaims", "delDep"} /\ p \in Stages
  BY <1>2, BusyStages
<1>7. \A b \in Nat, q \in Stages :
        LET v == [work[m] EXCEPT !.at = b, !.pc = q] IN
        v \in Work /\ v.key = work[m].key /\ v.obj = work[m].obj /\ v.pc = q
  BY <1>3, Zenon DEF Work
<1> HIDE DEF a, p
<1>8. w \in Work /\ w.key = work[m].key /\ w.obj = work[m].obj /\ w.pc = p
  BY <1>5, <1>6, <1>7
<1> HIDE DEF w
<1>9. CASE Move(m, w)
  <2>1. work'[m] = w /\ \A x \in Managers : x # m => work'[x] = work[x]
    BY <1>3, <1>8, <1>9, MoveType
  <2> QED BY <1>2, <1>6, <1>8, <2>1 DEF Kept, OthersWait
<1>10. CASE ReturnErr(m)
  BY <1>2, <1>3, <1>10, EndFacts
<1> QED BY <1>1, <1>9, <1>10 DEF DeleteChild

\* A deletion leads on, or ends the request.
LEMMA DeleteStageFacts ==
  ASSUME TypeInv, NEW m \in Managers, NEW k, NEW s \in Busy, NEW t \in Busy,
         DeleteChild(m, k, s, Goto(m, t))
  PROVE  /\ Ended(m) \/ Kept(m, t)
         /\ OthersWait(m)
         /\ work[m].pc = s
         /\ UNCHANGED <<cr, born, crCache>>
<1>1. /\ Goto(m, t) \/ ReturnErr(m)
      /\ UNCHANGED <<cr, born, crCache, kidCache, budget>>
      /\ work[m].pc = s
  BY DeleteChildType
<1> QED BY <1>1, GotoFacts, EndFacts

\* So does a creation,
LEMMA CreateStageFacts ==
  ASSUME TypeInv, NEW m \in Managers, NEW k, NEW t \in Busy,
         work[m].pc \in Busy, CreateChild(m, k, t)
  PROVE  /\ Ended(m) \/ Kept(m, t)
         /\ OthersWait(m)
  BY GotoFacts, EndFacts DEF CreateChild

\* the read of a child,
LEMMA ReadResourceFacts ==
  ASSUME TypeInv, NEW m \in Managers, ReadResource(m)
  PROVE  /\ Ended(m) \/ Kept(m, "put") \/ Kept(m, "make")
         /\ OthersWait(m)
         /\ work[m].pc = "read"
         /\ UNCHANGED <<cr, kids, born, crCache>>
<1> DEFINE w == work[m]
           seen == kidCache[m][w.key][w.tgt]
           t == IF seen.live THEN "put" ELSE "make"
           v == [w EXCEPT !.seen = seen, !.pc = t]
<1>1. work[m].pc = "read" /\ UNCHANGED <<cr, kids, born, crCache>>
  BY DEF ReadResource, store, caches
<1>2. w \in Work /\ w.key \in Names
  BY <1>1, BusyStages DEF TypeInv, TypeOK, KeyOK
<1>3. w.tgt \in Watched
  BY <1>2 DEF Work
<1>4. seen \in Child /\ t \in {"put", "make"}
  BY <1>2, <1>3 DEF TypeInv, TypeOK
<1>5. t \in Stages
  BY <1>4, BusyStages
<1>6. \A c \in Child, s \in Stages :
        LET x == [w EXCEPT !.seen = c, !.pc = s] IN
        x \in Work /\ x.key = w.key /\ x.obj = w.obj /\ x.pc = s
  BY <1>2, Zenon DEF Work
<1>7. Die(m) \/ Move(m, v)
  BY DEF ReadResource
<1> HIDE DEF seen, t
<1>8. v \in Work /\ v.key = w.key /\ v.obj = w.obj /\ v.pc = t
  BY <1>4, <1>5, <1>6
<1> HIDE DEF v
<1>9. CASE Move(m, v)
  <2>1. work'[m] = v /\ \A x \in Managers : x # m => work'[x] = work[x]
    BY <1>2, <1>8, <1>9, MoveType
  <2> QED BY <1>1, <1>4, <1>8, <2>1 DEF Kept, OthersWait
<1> QED BY <1>1, <1>7, <1>9, EndFacts

\* the end of a child's turn,
LEMMA NextChildFacts ==
  ASSUME TypeInv, NEW m \in Managers, NEW k, work[m].pc \in Busy, NextChild(m, k)
  PROVE  (Ended(m) \/ Kept(m, "read")) /\ OthersWait(m)
<1> DEFINE w == work[m]
           t == IF k = DeploymentKey THEN ServiceKey ELSE ConfigMapKey
           v == [w EXCEPT !.pc = "read", !.seen = NoChild, !.tgt = t]
<1>1. w \in Work /\ w.key \in Names
  BY DEF TypeInv, TypeOK, KeyOK
<1>2. t \in Watched
  BY KeysFacts
<1>3. \A c \in Child, s \in Stages, x \in Watched :
        LET y == [w EXCEPT !.pc = s, !.seen = c, !.tgt = x] IN
        y \in Work /\ y.key = w.key /\ y.obj = w.obj /\ y.pc = s
  BY <1>1, Zenon DEF Work
<1>4. ReturnOk(m) \/ Move(m, v)
  BY DEF NextChild
<1> HIDE DEF t
<1>5. v \in Work /\ v.key = w.key /\ v.obj = w.obj /\ v.pc = "read"
  <2>1. "read" \in Stages /\ NoChild \in Child
    BY NoneType, BusyStages
  <2> QED BY <1>2, <1>3, <2>1, Zenon
<1> HIDE DEF v
<1>6. CASE Move(m, v)
  <2>1. work'[m] = v /\ \A x \in Managers : x # m => work'[x] = work[x]
    BY <1>1, <1>5, <1>6, MoveType
  <2> QED BY <1>5, <2>1 DEF Kept, OthersWait
<1> QED BY <1>4, <1>6, EndFacts

\* and an update.
LEMMA UpdateStageFacts ==
  ASSUME TypeInv, NEW m \in Managers, UpdateExisting(m) \/ RewriteExisting(m)
  PROVE  /\ Ended(m) \/ Kept(m, "reput") \/ Kept(m, "read")
         /\ OthersWait(m)
         /\ work[m].pc \in {"put", "reput"}
         /\ UNCHANGED <<cr, born, crCache>>
<1> DEFINE w == work[m]
<1>1. w.pc \in {"put", "reput"} /\ w.pc \in Busy /\ UNCHANGED <<cr, born, crCache>>
  BY BusyStages DEF UpdateExisting, RewriteExisting, caches
<1>2. ReturnErr(m) \/ Goto(m, "reput") \/ NextChild(m, w.tgt)
  BY DEF UpdateExisting, RewriteExisting, UpdateChild
<1> QED BY <1>1, <1>2, EndFacts, GotoFacts, NextChildFacts, BusyStages

-----------------------------------------------------------------------------
(* The copies of a SingleInstance that caches and handlers hold: never of  *)
(* the future, and equal to the stored object where the version is its.    *)

StoreOK ==
  \A n \in Names :
    /\ cr[n].uid \in {0, born[n]}
    /\ cr[n].uid = 0 => cr[n] = NoInstance

CopyOK(c, n) ==
  /\ c.uid <= born[n]
  /\ c.uid = 0 => ~c.own /\ ~c.del
  /\ c.uid # 0 /\ c.uid = cr[n].uid =>
       /\ c.rv <= cr[n].rv
       /\ c.rv = cr[n].rv => c = cr[n]
       /\ c.del => cr[n].del

CachesOK == \A m \in Managers, n \in Names : CopyOK(crCache[m][n], n)

DeletionStages == {"delClaims", "delDep", "delSvc", "delCm", "unfin"}

\* What the handler's stage says about the copy it holds.
StageOK(w) ==
  /\ w.pc \in DeletionStages => w.obj.own /\ w.obj.del
  /\ w.pc \in {"resave", "addFin"} => ~w.obj.own
  /\ w.pc = "validate" /\ w.obj.own => ~w.obj.del
  /\ w.pc \in ChildStages => w.obj.own /\ ~w.obj.del

WorkersOK ==
  \A m \in Managers :
    work[m].pc \in Busy => CopyOK(work[m].obj, work[m].key) /\ StageOK(work[m])

\* Inductive, whatever the number of operator processes.
HandlerInv == TypeInv /\ StoreOK /\ CachesOK /\ WorkersOK

\* CopyOK after the step, for what was c before it.
CopyNext(c, n) ==
  /\ c.uid <= born'[n]
  /\ c.uid = 0 => ~c.own /\ ~c.del
  /\ c.uid # 0 /\ c.uid = cr'[n].uid =>
       /\ c.rv <= cr'[n].rv
       /\ c.rv = cr'[n].rv => c = cr'[n]
       /\ c.del => cr'[n].del

\* What a step may do to the instance of a name.
Advances(n) ==
  \/ cr'[n] = cr[n] /\ born'[n] = born[n]
  \/ Touched(n)
  \/ Gone(n)
  \/ Appears(n)

\* A copy that was never ahead of the store does not get ahead of it.
LEMMA CopyKept ==
  ASSUME HandlerInv, TypeInv', NEW n \in Names, NEW c \in Instance,
         CopyOK(c, n), Advances(n)
  PROVE  CopyNext(c, n)
<1>1. /\ cr[n] \in Instance /\ cr'[n] \in Instance
      /\ born[n] \in Nat /\ born'[n] \in Nat
  BY DEF HandlerInv, TypeInv, TypeOK
<1>2. /\ cr[n].uid \in Nat /\ cr'[n].uid \in Nat /\ c.uid \in Nat
      /\ cr[n].rv \in Nat /\ cr'[n].rv \in Nat /\ c.rv \in Nat
  BY <1>1 DEF Instance
<1>3. CASE cr'[n] = cr[n] /\ born'[n] = born[n]
  BY <1>3 DEF CopyOK, CopyNext
<1>4. CASE Touched(n)
  BY <1>2, <1>4, SMT DEF CopyOK, CopyNext, Touched
<1>5. CASE Gone(n)
  BY <1>2, <1>5, SMT DEF CopyOK, CopyNext, Gone, NoInstance
<1>6. CASE Appears(n)
  BY <1>1, <1>2, <1>6, SMT DEF CopyOK, CopyNext, Appears
<1> QED BY <1>3, <1>4, <1>5, <1>6 DEF Advances

\* A copy of what is in the store now.
LEMMA FreshCopy ==
  ASSUME HandlerInv, NEW n \in Names
  PROVE  CopyOK(cr[n], n)
<1>1. cr[n] \in Instance /\ born[n] \in Nat
  BY DEF HandlerInv, TypeInv, TypeOK
<1>2. cr[n].uid \in Nat /\ cr[n].rv \in Nat
  BY <1>1 DEF Instance
<1>3. cr[n].uid \in {0, born[n]} /\ (cr[n].uid = 0 => cr[n] = NoInstance)
  BY DEF HandlerInv, StoreOK
<1>4. ~NoInstance.own /\ ~NoInstance.del
  BY DEF NoInstance
<1>5. cr[n].uid <= born[n] /\ cr[n].rv <= cr[n].rv
  BY <1>1, <1>2, <1>3, SMT
<1> QED BY <1>3, <1>4, <1>5 DEF CopyOK

\* What a step has to show to keep HandlerInv.
LEMMA StepKeeps ==
  ASSUME HandlerInv, TypeInv', StoreOK',
         \A n \in Names : Advances(n),
         \A x \in Managers, n \in Names : crCache'[x][n] \in {crCache[x][n], cr[n]},
         \A x \in Managers :
           \/ work'[x] = work[x]
           \/ work'[x].pc \notin Busy
           \/ CopyNext(work'[x].obj, work'[x].key) /\ StageOK(work[x])'
  PROVE  HandlerInv'
<1>1. CachesOK'
  <2> SUFFICES ASSUME NEW x \in Managers, NEW n \in Names
               PROVE  CopyNext(crCache'[x][n], n)
    BY DEF CachesOK, CopyOK, CopyNext
  <2>1. CopyOK(crCache[x][n], n) /\ crCache[x][n] \in Instance
    BY DEF HandlerInv, CachesOK, TypeInv, TypeOK
  <2>2. CopyOK(cr[n], n) /\ cr[n] \in Instance
    BY FreshCopy DEF HandlerInv, TypeInv, TypeOK
  <2>3. CopyNext(crCache[x][n], n) /\ CopyNext(cr[n], n)
    BY <2>1, <2>2, CopyKept
  <2> QED BY <2>3
<1>2. WorkersOK'
  <2> SUFFICES ASSUME NEW x \in Managers, work'[x].pc \in Busy
               PROVE  CopyNext(work'[x].obj, work'[x].key) /\ StageOK(work[x])'
    BY DEF WorkersOK, CopyOK, CopyNext
  <2>1. CASE work'[x] = work[x]
    <3>1. /\ CopyOK(work[x].obj, work[x].key) /\ StageOK(work[x])
          /\ work[x].key \in Names /\ work[x] \in Work
      BY <2>1 DEF HandlerInv, WorkersOK, TypeInv, TypeOK, KeyOK
    <3>2. work[x].obj \in Instance
      BY <3>1 DEF Work
    <3>3. CopyNext(work[x].obj, work[x].key)
      BY <3>1, <3>2, CopyKept
    <3>4. StageOK(work[x])'
      BY <2>1, <3>1 DEF StageOK
    <3> QED BY <2>1, <3>3, <3>4
  <2> QED BY <2>1
<1> QED BY <1>1, <1>2 DEF HandlerInv

\* A stage that leaves the instance alone.
LEMMA QuietKeeps ==
  ASSUME HandlerInv, TypeInv', NEW m \in Managers, UNCHANGED <<cr, born, crCache>>,
         OthersWait(m),
         Ended(m) \/ \E s \in Busy : Kept(m, s) /\ StageOK([work[m] EXCEPT !.pc = s]),
         work[m].pc \in Busy
  PROVE  HandlerInv'
<1>1. work[m] \in Work /\ work[m].key \in Names
  BY DEF HandlerInv, TypeInv, TypeOK, KeyOK
<1>2. work[m].obj \in Instance /\ CopyOK(work[m].obj, work[m].key)
  BY <1>1 DEF Work, HandlerInv, WorkersOK
<1>3. \A n \in Names : Advances(n)
  BY DEF Advances
<1>4. StoreOK'
  BY DEF HandlerInv, StoreOK
<1>5. CopyNext(work[m].obj, work[m].key)
  BY <1>1, <1>2, <1>3, CopyKept
<1>6. \/ work'[m].pc \notin Busy
      \/ CopyNext(work'[m].obj, work'[m].key) /\ StageOK(work[m])'
  <2>1. CASE Ended(m)
    BY <2>1, BusyStages DEF Ended
  <2>2. ASSUME NEW s \in Busy, Kept(m, s), StageOK([work[m] EXCEPT !.pc = s])
        PROVE  CopyNext(work'[m].obj, work'[m].key) /\ StageOK(work[m])'
    <3>1. /\ [work[m] EXCEPT !.pc = s].pc = s
          /\ [work[m] EXCEPT !.pc = s].obj = work[m].obj
      BY <1>1, WorkExcept, BusyStages
    <3>2. StageOK(work[m])'
      BY <2>2, <3>1 DEF StageOK, Kept
    <3> QED BY <1>5, <2>2, <3>2 DEF Kept
  <2> QED BY <2>1, <2>2
<1> QED
  BY <1>3, <1>4, <1>6, StepKeeps DEF OthersWait

\* An update of the instance fails, or is made from the stored object itself.
UpdateAccepted(m, new, next) ==
  LET n == work[m].key
      c == work'[m].obj IN
  /\ Accepts(n, new)
  /\ work[m].obj = cr[n]
  /\ work'[m].pc = next
  /\ work'[m].key = n
  /\ c \in Instance
  /\ c.uid = cr[n].uid
  /\ c.ver = cr[n].ver
  /\ c.own = new.own
  /\ c.del = cr[n].del
  /\ \/ cr'[n] = c /\ (cr'[n] = cr[n] \/ Touched(n))
     \/ Gone(n) /\ ~new.own /\ cr[n].del

\* An update of the instance is refused and ends the request, or it was made
\* from the stored version.
LEMMA InstanceFacts ==
  ASSUME HandlerInv, NEW m \in Managers, NEW new \in Instance, NEW next \in Busy,
         work[m].pc \in Busy, UpdateInstance(m, new, next), UNCHANGED born,
         new.uid = work[m].obj.uid, new.rv = work[m].obj.rv,
         new.ver = work[m].obj.ver, new.del = work[m].obj.del
  PROVE  /\ OthersWait(m)
         /\ OthersKept(work[m].key)
         /\ \/ Ended(m) /\ cr' = cr
            \/ UpdateAccepted(m, new, next)
<1> DEFINE n == work[m].key
           o == work[m].obj
           c == Stored(cr[n], new)
<1>1. TypeInv /\ work[m] \in Work /\ n \in Names
  BY DEF HandlerInv, TypeInv, TypeOK, KeyOK
<1>2. o \in Instance /\ cr[n] \in Instance /\ born[n] \in Nat
  BY <1>1 DEF Work, TypeInv, TypeOK
<1>3. CopyOK(o, n)
  BY DEF HandlerInv, WorkersOK
<1>4. CASE ReturnErr(m) /\ UNCHANGED cr
  BY <1>1, <1>4, EndFacts DEF OthersKept
<1>5. CASE /\ Accepts(n, new)
           /\ cr' = [cr EXCEPT ![n] = Settled(c)]
           /\ Move(m, Holding(work[m], next, c))
  <2>1. o = cr[n]
    BY <1>3, <1>5 DEF Accepts, CopyOK
  <2>2. cr[n].rv \in Nat /\ cr[n].ver \in Nat
    BY <1>2 DEF Instance
  <2>3. CASE new = cr[n]
    <3>1. c = cr[n]
      BY <2>3 DEF Stored
    <3>2. c \in Instance
      BY <1>2, <3>1
    <3> QED
      <4>1. Settled(c) \in Instance
        BY <3>2, NoneType DEF Settled
      <4>2. cr'[n] = Settled(c) /\ OthersKept(n)
        BY <1>1, <1>5, <4>1, InstanceWrite
      <4>3. next \in Stages
        BY BusyStages
      <4> HIDE DEF c
      <4>4. /\ Holding(work[m], next, c) \in Work
            /\ Holding(work[m], next, c).pc = next
            /\ Holding(work[m], next, c).key = n
            /\ Holding(work[m], next, c).obj = c
        BY <1>1, <3>2, <4>3, HoldingType
      <4>5. work'[m] = Holding(work[m], next, c) /\ OthersWait(m)
        BY <1>1, <1>5, <4>4, MoveType DEF OthersWait
      <4>6. cr'[n] = c \/ (cr'[n] = NoInstance /\ ~c.own /\ c.del)
        BY <4>2 DEF Settled
      <4> QED
        BY <1>5, <2>1, <2>3, <3>1, <3>2, <4>2, <4>4, <4>5, <4>6
        DEF UpdateAccepted, Gone
  <2>4. CASE new # cr[n]
    <3>1. c = [new EXCEPT !.rv = cr[n].rv + 1]
      BY <2>4 DEF Stored
    <3>2. cr[n].rv + 1 \in Nat
      BY <2>2, SMT
    <3>3. /\ c \in Instance /\ c.uid = new.uid /\ c.own = new.own
          /\ c.del = new.del /\ c.ver = new.ver /\ c.rv = cr[n].rv + 1
      BY <3>1, <3>2, Zenon DEF Instance
    <3> HIDE DEF c
    <3>4. Settled(c) \in Instance
      BY <3>3, NoneType DEF Settled
    <3>5. cr'[n] = Settled(c) /\ OthersKept(n)
      BY <1>1, <1>5, <3>4, InstanceWrite
    <3>6. next \in Stages
      BY BusyStages
    <3>7. /\ Holding(work[m], next, c) \in Work
          /\ Holding(work[m], next, c).pc = next
          /\ Holding(work[m], next, c).key = n
          /\ Holding(work[m], next, c).obj = c
      BY <1>1, <3>3, <3>6, HoldingType
    <3>8. work'[m] = Holding(work[m], next, c) /\ OthersWait(m)
      BY <1>1, <1>5, <3>7, MoveType DEF OthersWait
    <3>9. cr'[n] = c \/ (cr'[n] = NoInstance /\ ~c.own /\ c.del)
      BY <3>5 DEF Settled
    <3>10. cr'[n] = c => Touched(n)
      <4>1. c.ver >= cr[n].ver
        BY <2>1, <2>2, <3>3, SMT
      <4> QED BY <2>1, <3>3, <4>1 DEF Touched
    <3> QED
      BY <1>5, <2>1, <3>3, <3>5, <3>7, <3>8, <3>9, <3>10 DEF UpdateAccepted, Gone
  <2> QED BY <2>3, <2>4
<1> QED BY <1>4, <1>5 DEF UpdateInstance

\* Either way the handler's copy stays in step with the store.
LEMMA InstanceKeeps ==
  ASSUME HandlerInv, TypeInv', NEW m \in Managers, NEW new \in Instance,
         NEW next \in Busy, work[m].pc \in Busy,
         UNCHANGED <<born, crCache>>, OthersWait(m), OthersKept(work[m].key),
         (Ended(m) /\ cr' = cr) \/ UpdateAccepted(m, new, next),
         UpdateAccepted(m, new, next) => StageOK(work[m])'
  PROVE  HandlerInv' /\ \A x \in Names : Advances(x)
<1> DEFINE n == work[m].key
<1>1. n \in Names /\ cr[n] \in Instance /\ born[n] \in Nat
  BY DEF HandlerInv, TypeInv, TypeOK, KeyOK
<1>2. \A x \in Names : Advances(x)
  BY DEF Advances, UpdateAccepted, OthersKept
<1>3. StoreOK'
  <2>1. StoreOK
    BY DEF HandlerInv
  <2>2. \A x \in Names : x # n => cr'[x] = cr[x]
    BY DEF OthersKept
  <2>3. cr'[n] = cr[n] \/ cr'[n] = NoInstance \/ (cr[n].uid # 0 /\ cr'[n].uid = cr[n].uid)
    BY DEF UpdateAccepted, Touched, Gone, Accepts
  <2>4. NoInstance.uid = 0
    BY DEF NoInstance
  <2> QED BY <2>1, <2>2, <2>3, <2>4 DEF StoreOK
<1>4. CASE Ended(m)
  <2>1. work'[m].pc \notin Busy
    BY <1>4, BusyStages DEF Ended
  <2> QED BY <1>2, <1>3, <2>1, StepKeeps DEF OthersWait
<1>5. CASE UpdateAccepted(m, new, next)
  <2> DEFINE c == work'[m].obj
  <2>1. c \in Instance /\ c.uid = cr[n].uid /\ cr[n].uid # 0 /\ work'[m].key = n
    BY <1>5 DEF UpdateAccepted, Accepts
  <2>2. c.uid <= born'[n]
    <3>1. cr[n].uid = born[n]
      BY <1>1, <2>1 DEF HandlerInv, StoreOK
    <3> QED BY <1>1, <2>1, <3>1, SMT
  <2>3. CASE cr'[n] = c
    <3>1. c.rv <= cr'[n].rv
      <4>1. c.rv \in Nat
        BY <2>1 DEF Instance
      <4> QED BY <2>3, <4>1, SMT
    <3>2. CopyNext(c, n)
      BY <2>1, <2>2, <2>3, <3>1 DEF CopyNext
    <3> QED BY <1>2, <1>3, <1>5, <2>1, <3>2, StepKeeps DEF OthersWait
  <2>4. CASE Gone(n)
    <3>1. cr'[n].uid = 0
      BY <2>4 DEF Gone, NoInstance
    <3>2. CopyNext(c, n)
      BY <2>1, <2>2, <3>1 DEF CopyNext
    <3> QED BY <1>2, <1>3, <1>5, <2>1, <3>2, StepKeeps DEF OthersWait
  <2> QED BY <1>5, <2>3, <2>4 DEF UpdateAccepted
<1> QED BY <1>2, <1>4, <1>5
\* Within the finalizer, and within the work on the children, a stage asks of
\* the copy what the one before it did.
LEMMA SameKind ==
  ASSUME HandlerInv, NEW m \in Managers, work[m].pc \in Busy, NEW s \in Busy,
         \/ s \in DeletionStages /\ work[m].pc \in DeletionStages
         \/ s \in ChildStages /\ work[m].pc \in ChildStages
  PROVE  StageOK([work[m] EXCEPT !.pc = s])
<1> DEFINE w == [work[m] EXCEPT !.pc = s]
<1>1. work[m] \in Work
  BY DEF HandlerInv, TypeInv, TypeOK
<1>2. w.pc = s /\ w.obj = work[m].obj
  BY <1>1, WorkExcept, BusyStages
<1>3. StageOK(work[m])
  BY DEF HandlerInv, WorkersOK
<1> HIDE DEF w
<1>4. CASE s \in DeletionStages /\ work[m].pc \in DeletionStages
  BY <1>2, <1>3, <1>4 DEF StageOK, DeletionStages, ChildStages, w
<1>5. CASE s \in ChildStages /\ work[m].pc \in ChildStages
  BY <1>2, <1>3, <1>5 DEF StageOK, DeletionStages, ChildStages, w
<1> QED BY <1>4, <1>5

\* The stages of the finalizer but the last.
LEMMA FinalizerKeeps ==
  ASSUME HandlerInv, TypeInv', NEW m \in Managers,
         \/ FinalizePersistentVolumeClaims(m)
         \/ FinalizeDeployment(m)
         \/ FinalizeService(m)
         \/ FinalizeConfigMap(m)
  PROVE  HandlerInv'
<1>1. TypeInv
  BY DEF HandlerInv
<1>2. \A s \in DeletionStages : work[m].pc \in DeletionStages =>
         s \in Busy /\ work[m].pc \in Busy /\ StageOK([work[m] EXCEPT !.pc = s])
  BY SameKind, BusyStages DEF DeletionStages
<1>3. CASE FinalizePersistentVolumeClaims(m)
  BY <1>1, <1>2, <1>3, FinalizeClaimsFacts, QuietKeeps DEF DeletionStages
<1>4. ASSUME NEW s \in DeletionStages, NEW t \in DeletionStages, NEW k,
             DeleteChild(m, k, s, Goto(m, t))
      PROVE  HandlerInv'
  <2>1. s \in Busy /\ t \in Busy
    BY BusyStages DEF DeletionStages
  <2>2. /\ Ended(m) \/ Kept(m, t)
        /\ OthersWait(m)
        /\ work[m].pc = s
        /\ UNCHANGED <<cr, born, crCache>>
    BY <1>1, <1>4, <2>1, DeleteStageFacts
  <2>3. StageOK([work[m] EXCEPT !.pc = t])
    BY <1>2, <2>2
  <2>4. Ended(m) \/ \E x \in Busy : Kept(m, x) /\ StageOK([work[m] EXCEPT !.pc = x])
    BY <2>1, <2>2, <2>3, Zenon
  <2>5. work[m].pc \in Busy
    BY <2>1, <2>2
  <2> QED BY <2>2, <2>4, <2>5, QuietKeeps
<1>5. {"delDep", "delSvc", "delCm", "unfin"} \subseteq DeletionStages
  BY DEF DeletionStages
<1>6. CASE FinalizeDeployment(m)
  BY <1>4, <1>5, <1>6 DEF FinalizeDeployment
<1>7. CASE FinalizeService(m)
  BY <1>4, <1>5, <1>7 DEF FinalizeService
<1>8. CASE FinalizeConfigMap(m)
  BY <1>4, <1>5, <1>8 DEF FinalizeConfigMap
<1> QED BY <1>3, <1>6, <1>7, <1>8

\* The stages that work on the children.
LEMMA ChildrenKeep ==
  ASSUME HandlerInv, TypeInv', NEW m \in Managers,
         \/ LookupDeployment(m)
         \/ CreateConfigMap(m)
         \/ CreatePersistentVolumeClaim(m)
         \/ CreateDeployment(m)
         \/ CreateService(m)
         \/ ReadResource(m)
         \/ CreateMissing(m)
         \/ UpdateExisting(m)
         \/ RewriteExisting(m)
  PROVE  HandlerInv'
<1>1. TypeInv
  BY DEF HandlerInv
<1>2. \A s \in ChildStages : work[m].pc \in ChildStages =>
         s \in Busy /\ work[m].pc \in Busy /\ StageOK([work[m] EXCEPT !.pc = s])
  BY SameKind, BusyStages DEF ChildStages
<1>3. CASE LookupDeployment(m)
  <2>1. Goto(m, "mkCm") \/ Goto(m, "annotate")
    BY <1>3 DEF LookupDeployment
  <2>2. work[m].pc = "lookup" /\ UNCHANGED <<cr, born, crCache>>
    BY <1>3 DEF LookupDeployment, store, caches
  <2>3. (Kept(m, "mkCm") \/ Kept(m, "annotate")) /\ OthersWait(m)
    BY <1>1, <2>1, <2>2, GotoFacts, BusyStages
  <2> QED BY <1>2, <2>2, <2>3, QuietKeeps DEF ChildStages
<1>4. ASSUME NEW k, NEW t \in ChildStages, work[m].pc \in ChildStages,
             CreateChild(m, k, t), UNCHANGED <<cr, born, caches, budget>>
      PROVE  HandlerInv'
  BY <1>1, <1>2, <1>4, CreateStageFacts, QuietKeeps DEF caches
<1>5. CASE CreateConfigMap(m) \/ CreatePersistentVolumeClaim(m) \/ CreateService(m)
             \/ CreateMissing(m)
  BY <1>4, <1>5 DEF ChildStages, CreateConfigMap, CreatePersistentVolumeClaim,
                    CreateService, CreateMissing
<1>6. CASE CreateDeployment(m)
  <2>1. work[m].pc = "mkDep" /\ UNCHANGED <<cr, born, caches, budget>>
    BY <1>6 DEF CreateDeployment
  <2>2. CASE CreateChild(m, DeploymentKey, "mkSvc")
    BY <1>4, <2>1, <2>2 DEF ChildStages
  <2>3. CASE Die(m)
    BY <1>1, <1>2, <2>1, <2>3, EndFacts, QuietKeeps, BusyStages DEF caches
  <2> QED BY <1>6, <2>2, <2>3 DEF CreateDeployment
<1>7. CASE ReadResource(m)
  BY <1>1, <1>2, <1>7, ReadResourceFacts, QuietKeeps DEF ChildStages
<1>8. CASE UpdateExisting(m) \/ RewriteExisting(m)
  BY <1>1, <1>2, <1>8, UpdateStageFacts, QuietKeeps DEF ChildStages
<1> QED BY <1>3, <1>5, <1>6, <1>7, <1>8

\* The stages that write the instance.
LEMMA InstanceStagesKeep ==
  ASSUME HandlerInv, TypeInv', NEW m \in Managers,
         \/ RemoveOwnFinalizer(m)
         \/ SaveDeleted(m)
         \/ AddFinalizer(m)
         \/ UpdateStatus(m)
         \/ UpdateSpecAnnotation(m)
  PROVE  HandlerInv' /\ \A x \in Names : Advances(x)
<1> DEFINE o == work[m].obj
<1>1. work[m] \in Work
  BY DEF HandlerInv, TypeInv, TypeOK
<1>2. o \in Instance
  BY <1>1 DEF Work
<1>3. work[m].pc \in Busy => StageOK(work[m])
  BY DEF HandlerInv, WorkersOK
<1>4. ASSUME NEW new \in Instance, NEW next \in Busy, work[m].pc \in Busy,
             UpdateInstance(m, new, next), UNCHANGED <<kids, born, caches, budget>>,
             new.uid = o.uid, new.rv = o.rv, new.ver = o.ver, new.del = o.del,
             UpdateAccepted(m, new, next) => StageOK(work[m])'
      PROVE  HandlerInv' /\ \A x \in Names : Advances(x)
  <2>1. UNCHANGED born /\ UNCHANGED <<born, crCache>>
    BY <1>4 DEF caches
  <2>2. /\ OthersWait(m)
        /\ OthersKept(work[m].key)
        /\ (Ended(m) /\ cr' = cr) \/ UpdateAccepted(m, new, next)
    BY <1>4, <2>1, InstanceFacts
  <2> QED BY <1>4, <2>1, <2>2, InstanceKeeps
<1>5. \A b \in BOOLEAN :
        LET c == [o EXCEPT !.own = b] IN
        /\ c \in Instance
        /\ c.uid = o.uid /\ c.rv = o.rv /\ c.ver = o.ver /\ c.del = o.del /\ c.own = b
  BY <1>2, Zenon DEF Instance
<1>6. CASE RemoveOwnFinalizer(m)
  <2> DEFINE c == [o EXCEPT !.own = FALSE]
  <2>1. /\ c \in Instance
        /\ c.uid = o.uid /\ c.rv = o.rv /\ c.ver = o.ver /\ c.del = o.del /\ ~c.own
    BY <1>5
  <2>2. UpdateInstance(m, c, "resave") /\ work[m].pc = "unfin"
    BY <1>6 DEF RemoveOwnFinalizer
  <2>3. UNCHANGED <<kids, born, caches, budget>>
    BY <1>6 DEF RemoveOwnFinalizer
  <2> HIDE DEF c
  <2>4. UpdateAccepted(m, c, "resave") => StageOK(work[m])'
    BY <2>1 DEF UpdateAccepted, StageOK, DeletionStages, ChildStages
  <2> QED BY <1>4, <2>1, <2>2, <2>3, <2>4, BusyStages
<1>7. CASE SaveDeleted(m)
  <2>1. UpdateInstance(m, o, "validate") /\ work[m].pc = "resave" /\ ~o.own
    BY <1>3, <1>7, BusyStages DEF SaveDeleted, StageOK
  <2>2. UNCHANGED <<kids, born, caches, budget>>
    BY <1>7 DEF SaveDeleted
  <2>3. UpdateAccepted(m, o, "validate") => StageOK(work[m])'
    BY <2>1 DEF UpdateAccepted, StageOK, DeletionStages, ChildStages
  <2> QED BY <1>2, <1>4, <2>1, <2>2, <2>3, BusyStages
<1>8. CASE AddFinalizer(m)
  <2> DEFINE c == [o EXCEPT !.own = TRUE]
  <2>1. /\ c \in Instance
        /\ c.uid = o.uid /\ c.rv = o.rv /\ c.ver = o.ver /\ c.del = o.del /\ c.own
    BY <1>5
  <2>2. UpdateInstance(m, c, "lookup") /\ work[m].pc = "addFin" /\ ~o.own
    BY <1>3, <1>8, BusyStages DEF AddFinalizer, StageOK
  <2>3. UNCHANGED <<kids, born, caches, budget>>
    BY <1>8 DEF AddFinalizer
  <2> HIDE DEF c
  <2>4. UpdateAccepted(m, c, "lookup") => StageOK(work[m])'
    BY <2>1, <2>2 DEF UpdateAccepted, Accepts, StageOK, DeletionStages, ChildStages
  <2> QED BY <1>4, <2>1, <2>2, <2>3, <2>4, BusyStages
<1>9. ASSUME NEW c \in Instance, NEW t \in ChildStages, work[m].pc \in ChildStages,
             c.uid = o.uid, c.rv = o.rv, c.ver = o.ver, c.del = o.del, c.own = o.own,
             UpdateInstance(m, c, t), UNCHANGED <<kids, born, caches, budget>>
      PROVE  HandlerInv' /\ \A x \in Names : Advances(x)
  <2>1. work[m].pc \in Busy /\ t \in Busy
    BY <1>9, BusyStages DEF ChildStages
  <2>2. o.own /\ ~o.del
    BY <1>3, <1>9, <2>1 DEF StageOK
  <2>3. UpdateAccepted(m, c, t) => StageOK(work[m])'
    BY <1>9, <2>2 DEF UpdateAccepted, StageOK, DeletionStages, ChildStages
  <2> QED BY <1>4, <1>9, <2>1, <2>3
<1>10. o.ver \in Nat
  BY <1>2 DEF Instance
<1>11. CASE UpdateStatus(m)
  <2> DEFINE c == [o EXCEPT !.rep = o.ver]
  <2>1. /\ c \in Instance /\ c.own = o.own
        /\ c.uid = o.uid /\ c.rv = o.rv /\ c.ver = o.ver /\ c.del = o.del
    BY <1>2, <1>10, Zenon DEF Instance
  <2>2. UpdateInstance(m, c, "annotate") /\ work[m].pc = "status"
    BY <1>11 DEF UpdateStatus, StatusOf
  <2>3. UNCHANGED <<kids, born, caches, budget>>
    BY <1>11 DEF UpdateStatus, StatusOf
  <2> HIDE DEF c
  <2> QED BY <1>9, <2>1, <2>2, <2>3 DEF ChildStages
<1>12. CASE UpdateSpecAnnotation(m)
  <2> DEFINE c == [o EXCEPT !.ann = o.ver]
  <2>1. /\ c \in Instance /\ c.own = o.own
        /\ c.uid = o.uid /\ c.rv = o.rv /\ c.ver = o.ver /\ c.del = o.del
    BY <1>2, <1>10, Zenon DEF Instance
  <2>2. UpdateInstance(m, c, "read") /\ work[m].pc = "annotate"
    BY <1>12 DEF UpdateSpecAnnotation
  <2>3. UNCHANGED <<kids, born, caches, budget>>
    BY <1>12 DEF UpdateSpecAnnotation
  <2> HIDE DEF c
  <2> QED BY <1>9, <2>1, <2>2, <2>3 DEF ChildStages
<1> QED BY <1>6, <1>7, <1>8, <1>11, <1>12

\* Only a copy without the deletion mark gets past validation to a child.
LEMMA ValidateKeeps ==
  ASSUME HandlerInv, TypeInv', NEW m \in Managers, Validate(m)
  PROVE  HandlerInv'
<1> DEFINE w == work[m]
           t == IF w.obj.own THEN "lookup" ELSE "addFin"
<1>1. TypeInv /\ w \in Work /\ w.pc = "validate" /\ w.pc \in Busy
  BY BusyStages DEF HandlerInv, TypeInv, TypeOK, Validate
<1>2. UNCHANGED <<cr, born, crCache>>
  BY DEF Validate, store, caches
<1>3. CASE ReturnErr(m) \/ Die(m)
  BY <1>1, <1>2, <1>3, EndFacts, QuietKeeps
<1>4. CASE Goto(m, t)
  <2>1. t \in Busy /\ t \in {"lookup", "addFin"}
    BY BusyStages
  <2>2. Kept(m, t) /\ OthersWait(m)
    <3> HIDE DEF t
    <3> QED BY <1>1, <1>4, <2>1, GotoFacts
  <2>3. StageOK(w)
    BY <1>1 DEF HandlerInv, WorkersOK
  <2>4. [w EXCEPT !.pc = t].pc = t /\ [w EXCEPT !.pc = t].obj = w.obj
    <3> HIDE DEF t
    <3> QED BY <1>1, <2>1, WorkExcept, BusyStages
  <2>5. StageOK([w EXCEPT !.pc = t])
    <3>1. w.obj.own => ~w.obj.del
      BY <1>1, <2>3 DEF StageOK
    <3>2. (t = "lookup" /\ w.obj.own) \/ (t = "addFin" /\ ~w.obj.own)
      OBVIOUS
    <3> HIDE DEF t
    <3> QED BY <2>4, <3>1, <3>2 DEF StageOK, DeletionStages, ChildStages
  <2> HIDE DEF t
  <2> QED BY <1>1, <1>2, <2>1, <2>2, <2>5, QuietKeeps
<1> QED BY <1>3, <1>4 DEF Validate

\* A request that begins, and everything that ends one.
LEMMA RequestKeeps ==
  ASSUME HandlerInv, TypeInv', NEW m \in Managers,
         \/ \E n \in Names : Begin(m, n)
         \/ CallFails(m)
         \/ Crash(m)
         \/ Restart(m)
         \/ \E n \in Names : SyncInstance(m, n)
         \/ \E n \in Names, k \in Watched : SyncChild(m, n, k)
  PROVE  HandlerInv'
<1>1. TypeInv /\ UNCHANGED <<cr, born>>
  BY DEF HandlerInv, Begin, CallFails, Crash, Restart, SyncInstance, SyncChild, store
<1>2. \A n \in Names : Advances(n)
  BY <1>1 DEF Advances
<1>3. StoreOK'
  BY <1>1 DEF HandlerInv, StoreOK
<1>4. ASSUME NEW n \in Names, Begin(m, n) PROVE HandlerInv'
  <2> DEFINE o == crCache[m][n]
  <2>1. /\ work'[m].key = n /\ work'[m].obj = o
        /\ work'[m].pc = IF ~o.del THEN "validate"
                         ELSE IF o.own THEN "delClaims" ELSE "resave"
        /\ \A x \in Managers : x # m => work'[x] = work[x]
    BY <1>1, <1>4, BeginType
  <2>2. o \in Instance /\ CopyOK(o, n)
    BY DEF HandlerInv, CachesOK, TypeInv, TypeOK
  <2>3. CopyNext(work'[m].obj, work'[m].key)
    BY <1>2, <2>1, <2>2, CopyKept
  <2>4. StageOK(work[m])'
    BY <2>1 DEF StageOK, DeletionStages, ChildStages
  <2>5. UNCHANGED crCache
    BY <1>4 DEF Begin, caches
  <2> QED BY <1>2, <1>3, <2>1, <2>3, <2>4, <2>5, StepKeeps
<1>5. CASE CallFails(m) \/ Crash(m)
  <2>1. Ended(m) /\ OthersWait(m) /\ UNCHANGED crCache
    BY <1>1, <1>5, EndFacts, BusyStages DEF CallFails, Crash, caches
  <2>2. work'[m].pc \notin Busy
    BY <2>1, BusyStages DEF Ended
  <2> QED BY <1>2, <1>3, <2>1, <2>2, StepKeeps DEF OthersWait
<1>6. CASE Restart(m)
  <2>1. /\ work'[m].pc = "idle" /\ \A x \in Managers : x # m => work'[x] = work[x]
    BY <1>1, <1>6, QuitType DEF Restart
  <2>2. work'[m].pc \notin Busy
    BY <2>1, BusyStages
  <2>3. \A x \in Managers, n \in Names : crCache'[x][n] \in {crCache[x][n], cr[n]}
    BY <1>1, <1>6 DEF Restart, TypeInv, TypeOK
  <2> QED BY <1>2, <1>3, <2>1, <2>2, <2>3, StepKeeps
<1>7. ASSUME NEW n \in Names, SyncInstance(m, n) PROVE HandlerInv'
  <2>1. \A x \in Managers, y \in Names : crCache'[x][y] \in {crCache[x][y], cr[y]}
    BY <1>1, <1>7, SMT DEF SyncInstance, TypeInv, TypeOK
  <2>2. UNCHANGED work
    BY <1>7 DEF SyncInstance
  <2> QED BY <1>2, <1>3, <2>1, <2>2, StepKeeps
<1>8. ASSUME NEW n \in Names, NEW k \in Watched, SyncChild(m, n, k) PROVE HandlerInv'
  <2>1. UNCHANGED <<work, crCache>>
    BY <1>8 DEF SyncChild
  <2> QED BY <1>2, <1>3, <2>1, StepKeeps
<1> QED BY <1>4, <1>5, <1>6, <1>7, <1>8

\* The steps of users and of the rest of the cluster.
LEMMA OutsideKeeps ==
  ASSUME HandlerInv, TypeInv', NEW n \in Names, User(n) \/ Cluster(n)
  PROVE  HandlerInv' /\ \A x \in Names : Advances(x)
<1>1. TypeInv /\ StoreOK
  BY DEF HandlerInv
<1>2. cr[n] \in Instance /\ born[n] \in Nat /\ cr'[n] \in Instance /\ born'[n] \in Nat
  BY <1>1 DEF TypeInv, TypeOK
<1>3. CASE UserCreates(n) \/ UserEdits(n) \/ UserDeletes(n) \/ ReleaseForeign(n)
  <2>1. /\ UNCHANGED <<kids, crCache, kidCache, queue, work, budget>>
        /\ OthersKept(n)
        /\ (Touched(n) /\ (cr[n].uid # 0 \/ cr[n].foreign)) \/ Gone(n) \/ Appears(n)
    BY <1>1, <1>3, UserInstance
  <2>2. \A x \in Names : Advances(x)
    BY <2>1 DEF OthersKept, Advances
  <2>3. cr[n].foreign => cr[n].uid # 0
    BY <1>1 DEF StoreOK, NoInstance
  <2>4. cr'[n].uid \in {0, born'[n]} /\ (cr'[n].uid = 0 => cr'[n] = NoInstance)
    <3>1. CASE Touched(n) /\ cr[n].uid # 0
      BY <1>1, <3>1 DEF StoreOK, Touched
    <3>2. CASE Gone(n)
      BY <3>2 DEF Gone, NoInstance
    <3>3. CASE Appears(n)
      BY <1>2, <3>3, SMT DEF Appears
    <3> QED BY <2>1, <2>3, <3>1, <3>2, <3>3
  <2>5. StoreOK'
    BY <1>1, <2>1, <2>4 DEF StoreOK, OthersKept
  <2> QED BY <2>1, <2>2, <2>5, StepKeeps
<1>4. ASSUME NEW k \in {DeploymentKey, ServiceKey},
             UserDropsDeployment(n) \/ Drift(n, k) \/ CollectDeployment(n)
      PROVE  HandlerInv' /\ \A x \in Names : Advances(x)
  <2>1. UNCHANGED <<cr, born, crCache, kidCache, queue, work>>
    BY <1>1, <1>4, OtherChildren
  <2>2. (\A x \in Names : Advances(x)) /\ StoreOK'
    BY <1>1, <2>1 DEF Advances, StoreOK
  <2> QED BY <2>1, <2>2, StepKeeps
<1> QED BY <1>3, <1>4 DEF User, Cluster

\* Every step keeps HandlerInv.
LEMMA HandlerStep == HandlerInv /\ [OpenNext]_vars => HandlerInv'
<1> SUFFICES ASSUME HandlerInv, [OpenNext]_vars PROVE HandlerInv'
  OBVIOUS
<1>1. TypeInv'
  BY TypeStep DEF HandlerInv
<1>2. CASE UNCHANGED vars
  <2>1. UNCHANGED <<cr, born, crCache, work>>
    BY <1>2 DEF vars
  <2>2. (\A n \in Names : Advances(n)) /\ StoreOK'
    BY <2>1 DEF Advances, HandlerInv, StoreOK
  <2> QED BY <1>1, <2>1, <2>2, StepKeeps
<1>3. ASSUME NEW m \in Managers, Manager(m) PROVE HandlerInv'
  <2>1. CASE Stage(m)
    BY <1>1, <2>1, FinalizerKeeps, InstanceStagesKeep, ValidateKeeps, ChildrenKeep
    DEF Stage
  <2> QED BY <1>1, <1>3, <2>1, RequestKeeps DEF Manager
<1>4. ASSUME NEW n \in Names, User(n) \/ Cluster(n) PROVE HandlerInv'
  BY <1>1, <1>4, OutsideKeeps
<1>5. CASE Elsewhere
  <2>1. /\ UNCHANGED <<cr, born, crCache>>
        /\ \A x \in Managers : work'[x] = work[x] \/ work'[x].pc = "down"
    BY <1>5, ElsewhereFacts DEF HandlerInv
  <2>2. (\A n \in Names : Advances(n)) /\ StoreOK'
    BY <2>1 DEF Advances, HandlerInv, StoreOK
  <2> QED BY <1>1, <2>1, <2>2, StepKeeps, BusyStages
<1> QED BY <1>2, <1>3, <1>4, <1>5 DEF OpenNext, Next

\* And the first state satisfies it.
LEMMA HandlerInit == Init => HandlerInv
<1> SUFFICES ASSUME Init PROVE HandlerInv
  OBVIOUS
<1>1. TypeInv
  BY TypeInit
<1>2. \A n \in Names : cr[n] = NoInstance /\ born[n] = 0
  BY DEF Init
<1>3. \A m \in Managers, n \in Names : crCache[m][n] = NoInstance
  BY DEF Init
<1>4. NoInstance.uid = 0 /\ ~NoInstance.own /\ ~NoInstance.del
  BY DEF NoInstance
<1>5. StoreOK
  BY <1>2, <1>4 DEF StoreOK
<1>6. CachesOK
  <2>1. 0 <= 0
    BY SMT
  <2> QED BY <1>2, <1>3, <1>4, <2>1 DEF CachesOK, CopyOK
<1>7. WorkersOK
  BY BusyStages DEF WorkersOK, Init, Rest
<1> QED BY <1>1, <1>5, <1>6, <1>7 DEF HandlerInv

\* However stale the reads and however many operator processes run: a handler
\* that has seen the deletion mark never reaches a stage that creates or
\* updates a child, although handleFinalizer lets the reconcile go on.
LEMMA TerminatingAmongOthers == OpenSpec => []NoCreateForTerminating
<1>1. OpenSpec => []HandlerInv
  BY HandlerInit, HandlerStep, PTL DEF OpenSpec
<1>2. HandlerInv => NoCreateForTerminating
  <2>1. ChildStages \subseteq Busy
    BY BusyStages DEF ChildStages
  <2> QED BY <2>1 DEF HandlerInv, WorkersOK, StageOK, NoCreateForTerminating
<1> QED BY <1>1, <1>2, PTL

\* The same of the controller alone.
THEOREM TerminatingGetsNoChildren == Spec => []NoCreateForTerminating
  BY TerminatingAmongOthers, SpecIsOpen, PTL

\* Nobody, the users included, does anything else to an instance.
LEMMA InstanceAdvances ==
  ASSUME HandlerInv, [OpenNext]_vars, NEW n \in Names
  PROVE  Advances(n)
<1>1. TypeInv'
  BY TypeStep DEF HandlerInv
<1>2. CASE UNCHANGED <<cr, born>>
  BY <1>2 DEF Advances
<1>3. ASSUME NEW m \in Managers, Manager(m) PROVE Advances(n)
  <2>1. CASE RemoveOwnFinalizer(m) \/ SaveDeleted(m) \/ AddFinalizer(m)
               \/ UpdateStatus(m) \/ UpdateSpecAnnotation(m)
    BY <1>1, <2>1, InstanceStagesKeep
  <2>2. CASE FinalizePersistentVolumeClaims(m) \/ FinalizeDeployment(m)
               \/ FinalizeService(m) \/ FinalizeConfigMap(m)
    BY <1>2, <2>2 DEF FinalizePersistentVolumeClaims, FinalizeDeployment,
                      FinalizeService, FinalizeConfigMap, DeleteChild
  <2>3. CASE Validate(m) \/ LookupDeployment(m) \/ ReadResource(m)
    BY <1>2, <2>3 DEF Validate, LookupDeployment, ReadResource, store
  <2>4. CASE CreateConfigMap(m) \/ CreatePersistentVolumeClaim(m) \/ CreateDeployment(m)
               \/ CreateService(m) \/ CreateMissing(m)
    BY <1>2, <2>4 DEF CreateConfigMap, CreatePersistentVolumeClaim, CreateDeployment,
                      CreateService, CreateMissing
  <2>5. CASE UpdateExisting(m) \/ RewriteExisting(m)
    BY <1>2, <2>5 DEF UpdateExisting, RewriteExisting
  <2>6. CASE ~Stage(m)
    BY <1>2, <1>3, <2>6 DEF Manager, Begin, CallFails, Crash, Restart, SyncInstance,
                            SyncChild, store
  <2> QED BY <2>1, <2>2, <2>3, <2>4, <2>5, <2>6 DEF Stage
<1>4. ASSUME NEW x \in Names, User(x) \/ Cluster(x) PROVE Advances(n)
  BY <1>1, <1>4, OutsideKeeps
<1> QED BY <1>2, <1>3, <1>4 DEF OpenNext, Next, Elsewhere, vars

\* No step, of any number of operator processes, takes the spec of a
\* SingleInstance back to an older version: every update of the handler is
\* made from the stored object or refused.
LEMMA SpecKeptAmongOthers == OpenSpec => SpecNeverReverted
<1> DEFINE P == \A n \in Names : cr'[n].uid = cr[n].uid => cr'[n].ver >= cr[n].ver
<1>1. ASSUME HandlerInv, [OpenNext]_vars PROVE P
  <2> SUFFICES ASSUME NEW n \in Names, cr'[n].uid = cr[n].uid
               PROVE  cr'[n].ver >= cr[n].ver
    OBVIOUS
  <2>1. Advances(n)
    BY <1>1, InstanceAdvances
  <2>2. cr[n] \in Instance /\ born[n] \in Nat
    BY <1>1 DEF HandlerInv, TypeInv, TypeOK
  <2>3. cr[n].ver \in Nat
    BY <2>2 DEF Instance
  <2>4. CASE cr'[n] = cr[n]
    BY <2>3, <2>4, SMT
  <2>5. CASE Touched(n)
    BY <2>5 DEF Touched
  <2>6. CASE Gone(n)
    <3>1. cr[n] = NoInstance
      BY <1>1, <2>6 DEF HandlerInv, StoreOK, Gone, NoInstance
    <3> QED BY <2>4, <2>6, <3>1 DEF Gone
  <2>7. CASE Appears(n)
    BY <2>2, <2>7, SMT DEF Appears
  <2> QED BY <2>1, <2>4, <2>5, <2>6, <2>7 DEF Advances
<1>2. OpenSpec => []HandlerInv
  BY HandlerInit, HandlerStep, PTL DEF OpenSpec
<1>3. HandlerInv /\ [OpenNext]_vars => [P]_vars
  BY <1>1
<1>4. OpenSpec => [][P]_vars
  BY <1>2, <1>3, PTL DEF OpenSpec
<1> QED BY <1>4 DEF SpecNeverReverted

\* The same of the controller alone.
THEOREM UserSpecKept == Spec => SpecNeverReverted
  BY SpecKeptAmongOthers, SpecIsOpen, PTL

-----------------------------------------------------------------------------
(* What the clean-up reaches.                                              *)

\* How a child comes or goes: the handler creates it, the clean-up, the user
\* or the garbage collector removes it, or the finalizer of the instance is
\* at its ordinal.
ComesOrGoes(n, k) ==
  \/ kids'[n][k].live = kids[n][k].live
  \/ kids'[n][k].live /\ k \in Watched \cup {ClaimKey}
  \/ ~kids'[n][k].live /\ k \in {DeploymentKey, ServiceKey, FinalizedConfigMap}
  \/ /\ ~kids'[n][k].live
     /\ \E m \in Managers : /\ work[m].pc = "delClaims"
                            /\ work[m].key = n
                            /\ k = FinalizedClaim(work[m].at)

\* A creation brings one child,
LEMMA CreateBrings ==
  ASSUME TypeInv, NEW m \in Managers, NEW k \in Keys, NEW t,
         work[m].pc \in Busy, CreateChild(m, k, t)
  PROVE  \A x \in Names, y \in Keys :
           kids'[x][y].live = kids[x][y].live \/ (kids'[x][y].live /\ y = k)
<1> DEFINE n == work[m].key
           d == Desired(work[m].obj, k)
           c == Written(kids[n][k].rv + 1, d.uid, d.ver)
<1>1. CASE UNCHANGED kids
  BY <1>1
<1>2. CASE kids' = [kids EXCEPT ![n][k] = c]
  <2>1. n \in Names /\ kids[n][k] \in Child /\ work[m].obj \in Instance
    BY DEF TypeInv, TypeOK, KeyOK, Work
  <2>2. kids[n][k].rv + 1 \in Nat /\ d.uid \in Nat /\ d.ver \in Nat
    BY <2>1, DesiredType, SMT DEF Child
  <2>3. c \in Child /\ c.live
    <3> HIDE DEF d
    <3>1. c \in Child
      BY <2>2, WrittenType
    <3> QED BY <3>1 DEF Written
  <2> HIDE DEF c
  <2> QED BY <1>2, <2>3, ChildWrite
<1> QED BY <1>1, <1>2 DEF CreateChild

\* an update none,
LEMMA UpdateBringsNone ==
  ASSUME TypeInv, NEW m \in Managers, NEW k \in Keys, NEW rv, NEW d, NEW ACTION next,
         d.uid \in Nat, d.ver \in Nat, work[m].pc \in Busy, UpdateChild(m, k, rv, d, next)
  PROVE  \A x \in Names, y \in Keys : kids'[x][y].live = kids[x][y].live
<1> DEFINE n == work[m].key
           old == kids[n][k]
           w == Written(old.rv + 1, d.uid, d.ver)
           c == IF old = Written(old.rv, d.uid, d.ver) THEN old ELSE w
<1>0. n \in Names /\ old \in Child
  BY DEF TypeInv, TypeOK, KeyOK
<1>1. CASE UNCHANGED kids
  BY <1>1
<1>2. CASE kids' = [kids EXCEPT ![n][k] = c] /\ old.live
  <2>1. old.rv + 1 \in Nat
    BY <1>0, SMT DEF Child
  <2>2. w \in Child /\ w.live = TRUE
    <3>1. w \in Child
      BY <2>1, WrittenType
    <3> QED BY <3>1 DEF Written
  <2>3. old.live = TRUE
    BY <1>0, <1>2 DEF Child
  <2>4. c \in Child /\ c.live = kids[n][k].live
    BY <1>0, <2>2, <2>3
  <2> HIDE DEF c, w
  <2>5. \A x \in Names, y \in Keys :
          kids'[x][y] = IF x = n /\ y = k THEN c ELSE kids[x][y]
    BY <1>2, <2>4, ChildWrite
  <2> QED BY <2>4, <2>5
<1> QED BY <1>1, <1>2 DEF UpdateChild

\* and a deletion takes the one it asks for.
LEMMA DeleteTakes ==
  ASSUME TypeInv, NEW m \in Managers, NEW k, NEW s \in Busy, NEW ACTION next,
         DeleteChild(m, k, s, next)
  PROVE  \A x \in Names, y \in Keys :
           \/ kids'[x][y].live = kids[x][y].live
           \/ ~kids'[x][y].live /\ x = work[m].key /\ y = k
<1> DEFINE n == work[m].key
           c == Removed(kids[n][k])
<1>0. n \in Names
  BY DEF DeleteChild, TypeInv, KeyOK
<1>1. CASE UNCHANGED kids
  BY <1>1
<1>2. CASE kids' = [kids EXCEPT ![n][k] = c]
  <2>1. k \in Keys => c \in Child
    BY <1>0, RemovedType DEF TypeInv, TypeOK
  <2>2. ~c.live
    BY DEF Removed
  <2> HIDE DEF c
  <2> QED BY <1>2, <2>1, <2>2, ChildWrite
<1> QED BY <1>1, <1>2 DEF DeleteChild

\* The users and the garbage collector take a Deployment, and bring nothing.
LEMMA OutsideReaches ==
  ASSUME TypeInv, NEW n \in Names, User(n) \/ Cluster(n)
  PROVE  \A x \in Names, k \in Keys :
           \/ kids'[x][k].live = kids[x][k].live
           \/ ~kids'[x][k].live /\ k \in {DeploymentKey, ServiceKey}
<1>1. CASE UserCreates(n) \/ UserEdits(n) \/ UserDeletes(n) \/ ReleaseForeign(n)
  BY <1>1 DEF UserCreates, UserEdits, UserDeletes, ReleaseForeign
<1>2. ASSUME NEW y \in {DeploymentKey, ServiceKey}, NEW c \in Child,
             kids' = [kids EXCEPT ![n][y] = c], ~c.live \/ c.live = kids[n][y].live
      PROVE  \A x \in Names, k \in Keys :
               \/ kids'[x][k].live = kids[x][k].live
               \/ ~kids'[x][k].live /\ k \in {DeploymentKey, ServiceKey}
  <2>1. y \in Keys
    BY KeysFacts
  <2>2. \A x \in Names, k \in Keys :
          kids'[x][k] = IF x = n /\ k = y THEN c ELSE kids[x][k]
    BY <1>2, <2>1, ChildWrite
  <2> QED BY <1>2, <2>2
<1>3. CASE UserDropsDeployment(n) \/ CollectDeployment(n)
  <2> DEFINE c == Removed(kids[n][DeploymentKey])
  <2>1. c \in Child
    BY KeysFacts, RemovedType DEF TypeInv, TypeOK
  <2>2. ~c.live /\ kids' = [kids EXCEPT ![n][DeploymentKey] = c]
    BY <1>3 DEF UserDropsDeployment, CollectDeployment, Removed
  <2> HIDE DEF c
  <2> QED BY <1>2, <2>1, <2>2
<1>4. ASSUME NEW k \in {DeploymentKey, ServiceKey}, Drift(n, k)
      PROVE  \A x \in Names, y \in Keys :
               \/ kids'[x][y].live = kids[x][y].live
               \/ ~kids'[x][y].live /\ y \in {DeploymentKey, ServiceKey}
  <2> DEFINE d == kids[n][k]
             c == Drifted(d)
  <2>1. d \in Child
    BY KeysFacts DEF TypeInv, TypeOK
  <2>2. d.rv + 1 \in Nat
    BY <2>1, SMT DEF Child
  <2>3. c \in Child /\ c.live = d.live
    BY <2>1, <2>2, Zenon DEF Child, Drifted
  <2>4. kids' = [kids EXCEPT ![n][k] = c]
    BY <1>4 DEF Drift
  <2> HIDE DEF c
  <2> QED BY <1>2, <2>3, <2>4
<1> QED BY <1>1, <1>3, <1>4 DEF User, Cluster

\* Every step of the controller and of those around it keeps to these ways.
LEMMA ChildrenByName ==
  ASSUME TypeInv, [Next]_vars
  PROVE  \A n \in Names, k \in Keys : ComesOrGoes(n, k)
<1>1. CASE UNCHANGED kids
  BY <1>1 DEF ComesOrGoes
<1>2. ASSUME NEW m \in Managers, Manager(m)
      PROVE  \A n \in Names, k \in Keys : ComesOrGoes(n, k)
  <2> DEFINE w == work[m]
             o == w.obj
  <2>1. /\ w \in Work /\ o \in Instance /\ w.seen \in Child
        /\ w.tgt \in Keys /\ w.tgt \in Watched
    BY KeysFacts DEF TypeInv, TypeOK, Work
  <2>2. CASE \/ FinalizeDeployment(m) \/ FinalizeService(m) \/ FinalizeConfigMap(m)
    BY <2>2, DeleteTakes, BusyStages
    DEF FinalizeDeployment, FinalizeService, FinalizeConfigMap, ComesOrGoes
  <2>3. CASE FinalizePersistentVolumeClaims(m)
    <3>1. w.pc = "delClaims"
      BY <2>3 DEF FinalizePersistentVolumeClaims, DeleteChild
    <3>2. \A x \in Names, y \in Keys :
            \/ kids'[x][y].live = kids[x][y].live
            \/ ~kids'[x][y].live /\ x = w.key /\ y = FinalizedClaim(w.at)
      BY <2>3, DeleteTakes, BusyStages DEF FinalizePersistentVolumeClaims
    <3> QED BY <3>1, <3>2 DEF ComesOrGoes
  <2>4. CASE CreateConfigMap(m) \/ CreatePersistentVolumeClaim(m) \/ CreateDeployment(m)
               \/ CreateService(m) \/ CreateMissing(m)
    <3>1. w.pc \in Busy
      BY <2>4, BusyStages DEF CreateConfigMap, CreatePersistentVolumeClaim,
         CreateDeployment, CreateService, CreateMissing
    <3>2. ASSUME NEW k \in Keys, k \in Watched \cup {ClaimKey}, NEW t, CreateChild(m, k, t)
          PROVE  \A n \in Names, y \in Keys : ComesOrGoes(n, y)
      BY <3>1, <3>2, CreateBrings DEF ComesOrGoes
    <3> QED
      BY <1>1, <2>1, <2>4, <3>2, KeysFacts
      DEF CreateConfigMap, CreatePersistentVolumeClaim, CreateDeployment,
          CreateService, CreateMissing
  <2>5. CASE UpdateExisting(m) \/ RewriteExisting(m)
    <3> DEFINE d == Desired(o, w.tgt)
               old == [uid |-> d.uid, ver |-> w.seen.ver]
    <3>1. w.pc \in Busy
      BY <2>5, BusyStages DEF UpdateExisting, RewriteExisting
    <3>2. d.uid \in Nat /\ d.ver \in Nat /\ old.uid \in Nat /\ old.ver \in Nat
      BY <2>1, DesiredType DEF Child
    <3>3. \/ UpdateChild(m, w.tgt, w.seen.rv, d, Goto(m, "reput") /\ UNCHANGED queue)
          \/ UpdateChild(m, w.tgt, w.seen.rv, old, NextChild(m, w.tgt))
          \/ UpdateChild(m, w.tgt, 0, d, NextChild(m, w.tgt))
      BY <2>5 DEF UpdateExisting, RewriteExisting
    <3> HIDE DEF old, d
    <3>4. \A x \in Names, y \in Keys : kids'[x][y].live = kids[x][y].live
      BY <2>1, <3>1, <3>2, <3>3, UpdateBringsNone
    <3> QED BY <3>4 DEF ComesOrGoes
  <2>6. CASE RemoveOwnFinalizer(m) \/ SaveDeleted(m) \/ AddFinalizer(m)
               \/ UpdateStatus(m) \/ UpdateSpecAnnotation(m)
    BY <1>1, <2>6 DEF RemoveOwnFinalizer, SaveDeleted, AddFinalizer, UpdateStatus,
                      UpdateSpecAnnotation
  <2>7. CASE Validate(m) \/ LookupDeployment(m) \/ ReadResource(m)
    BY <1>1, <2>7 DEF Validate, LookupDeployment, ReadResource, store
  <2>8. CASE ~Stage(m)
    BY <1>1, <1>2, <2>8 DEF Manager, Begin, CallFails, Crash, Restart, SyncInstance,
                            SyncChild, store
  <2> QED BY <2>2, <2>3, <2>4, <2>5, <2>6, <2>7, <2>8 DEF Stage
<1>3. ASSUME NEW n \in Names, User(n) \/ Cluster(n)
      PROVE  \A x \in Names, k \in Keys : ComesOrGoes(x, k)
  BY <1>3, OutsideReaches DEF ComesOrGoes
<1> QED BY <1>1, <1>2, <1>3 DEF Next, vars

\* The ConfigMap and the claim, once made, outlive every instance of the name,
\* among others, too: handleFinalizer asks for other names, and neither has an
\* owner the garbage collector would follow.
LeftBehind ==
  [][\A n \in Names, k \in {ConfigMapKey, ClaimKey} :
       kids[n][k].live => kids'[n][k].live]_vars

\* No step takes either.
LEMMA NeitherIsTaken ==
  ASSUME TypeInv, [OpenNext]_vars, NEW n \in Names, NEW k \in {ConfigMapKey, ClaimKey},
         kids[n][k].live
  PROVE  kids'[n][k].live
<1>1. /\ k \in Keys /\ k \in Watched \cup {ClaimKey}
      /\ k \notin {DeploymentKey, ServiceKey, FinalizedConfigMap}
      /\ \A i : k # FinalizedClaim(i)
  <2>1. k \in Keys /\ k \in Watched \cup {ClaimKey}
    BY KeysFacts
  <2>2. k[1] \in {"ConfigMap", "PersistentVolumeClaim"} /\ k[2] \in {"-config", "db"}
    BY DEF ConfigMapKey, ClaimKey
  <2>3. DeploymentKey[2] = "" /\ ServiceKey[2] = "" /\ FinalizedConfigMap[2] = "config"
    BY DEF DeploymentKey, ServiceKey, FinalizedConfigMap
  <2>4. \A i : FinalizedClaim(i)[2] = "-db-"
    BY DEF FinalizedClaim
  <2> QED BY <2>1, <2>2, <2>3, <2>4
<1>2. CASE [Next]_vars
  BY <1>1, <1>2, ChildrenByName DEF ComesOrGoes
<1>3. CASE Elsewhere
  BY <1>1, <1>3, ElsewhereFacts
<1> QED BY <1>2, <1>3 DEF OpenNext

\* So no second instance of a name starts from nothing: what the first has
\* created of the two stays, whoever deletes the instance and whatever fails.
THEOREM CleanUpLeavesThem == OpenSpec => LeftBehind
<1> DEFINE P == \A n \in Names, k \in {ConfigMapKey, ClaimKey} :
                  kids[n][k].live => kids'[n][k].live
<1>1. TypeInv /\ [OpenNext]_vars => P
  BY NeitherIsTaken
<1>2. OpenSpec => []TypeInv
  BY TypeInit, TypeStep, PTL DEF OpenSpec
<1>3. OpenSpec => [][P]_vars
  BY <1>1, <1>2, PTL DEF OpenSpec
<1> QED BY <1>3 DEF LeftBehind

-----------------------------------------------------------------------------
(* Among others.                                                           *)

\* All this holds of the controller also where the other one runs in its
\* process, may take it down, and handles claims of the names it finalizes.
THEOREM HoldsAmongOthers ==
  OpenSpec => []TypeOK /\ []NoCreateForTerminating /\ SpecNeverReverted
  BY TypesAmongOthers, TerminatingAmongOthers, SpecKeptAmongOthers, PTL
=============================================================================
