-------------------------- MODULE LifecycleProofs --------------------------
(***************************************************************************)
(* With a single operator process the SingleInstance controller implements *)
(* WorkloadLifecycle, its finalizer never takes the Deployment of a live   *)
(* instance, and a Deployment never goes back to an older spec.            *)
(*                                                                         *)
(* The argument.  Two lemmas, ChildSteps and InstanceSteps, say all that a *)
(* step may do to the store: it changes one child, which is written,       *)
(* annotated or removed, or one instance, which its user or a handler      *)
(* changes.  The refinement follows from them and from OwnerInv.  The      *)
(* other two need to know how old the copies are.  What is deployed never  *)
(* comes from a newer copy than the cache has shown (CacheLeads), the copy *)
(* in the handler's hands came from that cache (FromCache), and within a   *)
(* round the cache of the children may be stale, but an old child is then  *)
(* refused by its resourceVersion (SeenOK).  So in any round a live child  *)
(* belongs to the instance in hand, and is not ahead of its spec           *)
(* (OwnRound).                                                             *)
(*                                                                         *)
(* The last section needs none of this, and any number of processes: a     *)
(* round that has ended behind its ConfigMap is never made good.           *)
(***************************************************************************)
EXTENDS OwnershipProofs

-----------------------------------------------------------------------------
(* What a step may do to the children.                                     *)

Inert(n, k) == kids'[n][k] = kids[n][k]

\* The stages behind the first creation, that of the ConfigMap.
Rollout == ChildStages \ {"lookup", "mkCm"}

\* Their names.
LEMMA RolloutStages ==
  /\ Rollout = {"mkClaim", "mkDep", "mkSvc", "status", "annotate", "read", "make",
                "put", "reput"}
  /\ Rollout \cup {"mkCm"} \subseteq ChildStages
  BY SMT DEF Rollout, ChildStages

\* A handler writes the child, for the instance it holds.  The version is that
\* of its copy, or that of a child it has read before.
WrittenOver(m, n, k) ==
  LET w == work[m] IN
  /\ n = w.key
  /\ w.pc \in Rollout \/ (w.pc = "mkCm" /\ k = ConfigMapKey)
  /\ kids'[n][k].live
  /\ kids'[n][k].rv = kids[n][k].rv + 1
  /\ k \in Parts => kids'[n][k].uid = w.obj.uid
  /\ \/ k \in Parts => kids'[n][k].ver = w.obj.ver
     \/ /\ w.pc = "reput"
        /\ k = w.tgt
        /\ kids[n][k].live
        /\ w.seen.live
        /\ w.seen.rv \in {0, kids[n][k].rv}
        /\ kids'[n][k].ver = w.seen.ver

\* Somebody annotates the child.
Annotated(n, k) ==
  /\ kids[n][k].live
  /\ kids'[n][k].live
  /\ kids'[n][k].rv = kids[n][k].rv + 1
  /\ kids'[n][k].uid = kids[n][k].uid
  /\ kids'[n][k].ver = kids[n][k].ver

\* The child goes: a finalizer deletes it, a user drops it, or the garbage
\* collector takes it.
RemovedFrom(n, k) ==
  /\ ~kids'[n][k].live
  /\ kids'[n][k].rv = kids[n][k].rv
  /\ \/ \E m \in Managers : work[m].key = n /\ work[m].pc \in DeletionStages
     \/ budget'.drops < budget.drops
     \/ kids[n][k].uid # cr[n].uid

ChildStep(n, k) ==
  \/ \E m \in Managers : WrittenOver(m, n, k)
  \/ Annotated(n, k)
  \/ RemovedFrom(n, k)

\* At most one of the children that are watched changes.
OneChild ==
  \/ \A x \in Names, y \in Watched : Inert(x, y)
  \/ \E n \in Names, k \in Watched :
       /\ ChildStep(n, k)
       /\ \A x \in Names, y \in Watched : Inert(x, y) \/ (x = n /\ y = k)

\* A step that changes one object of a name is such a step,
LEMMA OneObject ==
  ASSUME NEW n \in Names, NEW k, ChildStep(n, k),
         \A x \in Names, y \in Keys : Inert(x, y) \/ (x = n /\ y = k)
  PROVE  OneChild
<1>1. CASE k \in Watched
  BY <1>1, KeysFacts DEF OneChild
<1>2. CASE k \notin Watched
  BY <1>2, KeysFacts DEF OneChild
<1> QED BY <1>1, <1>2

\* and so is one that changes none.
LEMMA NoObject ==
  ASSUME \A x \in Names, y \in Keys : Inert(x, y)
  PROVE  OneChild
  BY KeysFacts DEF OneChild

\* A child is created as the handler has it,
LEMMA CreateChanges ==
  ASSUME TypeInv, NEW m \in Managers, NEW k \in Keys, NEW t,
         work[m].pc \in Rollout \/ (work[m].pc = "mkCm" /\ k = ConfigMapKey),
         work[m].pc \in Busy, CreateChild(m, k, t)
  PROVE  OneChild
<1> DEFINE n == work[m].key
           d == Desired(work[m].obj, k)
           c == Written(kids[n][k].rv + 1, d.uid, d.ver)
<1>1. CASE UNCHANGED kids
  BY <1>1 DEF OneChild, Inert
<1>2. CASE kids' = [kids EXCEPT ![n][k] = c]
  <2>1. n \in Names /\ kids[n][k] \in Child /\ work[m].obj \in Instance
    BY DEF TypeInv, TypeOK, KeyOK, Work
  <2>2. kids[n][k].rv + 1 \in Nat /\ d.uid \in Nat /\ d.ver \in Nat
    BY <2>1, DesiredType, SMT DEF Child
  <2>3. /\ c \in Child /\ c.live /\ c.rv = kids[n][k].rv + 1
        /\ c.uid = d.uid /\ c.ver = d.ver
    <3> HIDE DEF d
    <3>1. c \in Child
      BY <2>2, WrittenType
    <3> QED BY <3>1 DEF Written
  <2>4. k \in Parts => d.uid = work[m].obj.uid /\ d.ver = work[m].obj.ver
    BY DEF Parts, Desired, NewDeployment, NewService
  <2> HIDE DEF c, d
  <2>5. \A x \in Names, y \in Keys :
          kids'[x][y] = IF x = n /\ y = k THEN c ELSE kids[x][y]
    BY <1>2, <2>3, ChildWrite
  <2>6. WrittenOver(m, n, k)
    BY <2>1, <2>3, <2>4, <2>5 DEF WrittenOver
  <2>7. \A x \in Names, y \in Keys : Inert(x, y) \/ (x = n /\ y = k)
    BY <2>5 DEF Inert
  <2> QED BY <2>1, <2>6, <2>7, OneObject DEF ChildStep
<1> QED BY <1>1, <1>2 DEF CreateChild

\* and updated over the version it was read at, or over any.
LEMMA UpdateChanges ==
  ASSUME TypeInv, NEW m \in Managers, NEW k \in Keys, NEW rv, NEW d, NEW ACTION next,
         work[m].pc \in Rollout, work[m].pc \in Busy,
         d.uid \in Nat, d.ver \in Nat,
         k \in Parts => d.uid = work[m].obj.uid,
         \/ k \in Parts => d.ver = work[m].obj.ver
         \/ /\ work[m].pc = "reput" /\ k = work[m].tgt /\ work[m].seen.live
            /\ rv = work[m].seen.rv /\ d.ver = work[m].seen.ver,
         UpdateChild(m, k, rv, d, next)
  PROVE  OneChild
<1> DEFINE n == work[m].key
           old == kids[n][k]
           w == Written(old.rv + 1, d.uid, d.ver)
<1>0. n \in Names /\ old \in Child
  BY DEF TypeInv, TypeOK, KeyOK
<1>1. CASE UNCHANGED kids
  BY <1>1 DEF OneChild, Inert
<1>2. CASE /\ kids' = [kids EXCEPT ![n][k] = IF old = Written(old.rv, d.uid, d.ver) THEN old ELSE w]
           /\ old.live /\ rv \in {0, old.rv}
  <2>1. old.rv + 1 \in Nat
    BY <1>0, SMT DEF Child
  <2>2. w \in Child /\ w.live /\ w.rv = old.rv + 1 /\ w.uid = d.uid /\ w.ver = d.ver
    <3>1. w \in Child
      BY <2>1, WrittenType
    <3> QED BY <3>1 DEF Written
  <2> HIDE DEF w
  <2>3. ASSUME NEW c \in {old, w}, kids' = [kids EXCEPT ![n][k] = c]
        PROVE  OneChild
    <3>1. c \in Child
      BY <1>0, <2>2, <2>3
    <3>2. \A x \in Names, y \in Keys :
            kids'[x][y] = IF x = n /\ y = k THEN c ELSE kids[x][y]
      BY <2>3, <3>1, ChildWrite
    <3>3. CASE c = old
      BY <3>2, <3>3, NoObject DEF Inert
    <3>4. CASE c = w
      <4>1. kids'[n][k] = w
        BY <1>0, <3>2, <3>4
      <4>2. WrittenOver(m, n, k)
        BY <1>2, <2>2, <4>1 DEF WrittenOver
      <4>3. \A x \in Names, y \in Keys : Inert(x, y) \/ (x = n /\ y = k)
        BY <3>2 DEF Inert
      <4> QED BY <1>0, <4>2, <4>3, OneObject DEF ChildStep
    <3> QED BY <2>3, <3>3, <3>4
  <2> QED BY <1>2, <2>3
<1> QED BY <1>1, <1>2 DEF UpdateChild

\* Deletions take one child.
LEMMA DeleteChanges ==
  ASSUME TypeInv, NEW m \in Managers, NEW k, NEW s \in DeletionStages, NEW ACTION next,
         DeleteChild(m, k, s, next)
  PROVE  OneChild
<1> DEFINE n == work[m].key
           c == Removed(kids[n][k])
<1>0. work[m].pc = s /\ n \in Names
  BY BusyStages DEF DeleteChild, TypeInv, KeyOK, DeletionStages
<1>1. CASE UNCHANGED kids
  BY <1>1 DEF OneChild, Inert
<1>2. CASE kids' = [kids EXCEPT ![n][k] = c]
  <2>1. k \in Keys => c \in Child
    BY <1>0, RemovedType DEF TypeInv, TypeOK
  <2>2. ~c.live /\ c.rv = kids[n][k].rv
    BY DEF Removed
  <2> HIDE DEF c
  <2>3. \A x \in Names, y \in Keys :
          kids'[x][y] = IF x = n /\ y = k THEN c ELSE kids[x][y]
    BY <1>2, <2>1, ChildWrite
  <2>4. CASE k \notin Keys
    BY <2>3, <2>4, NoObject DEF Inert
  <2>5. CASE k \in Keys
    <3>1. kids'[n][k] = c
      BY <1>0, <2>3, <2>5
    <3>2. RemovedFrom(n, k)
      BY <1>0, <2>2, <3>1 DEF RemovedFrom
    <3>3. \A x \in Names, y \in Keys : Inert(x, y) \/ (x = n /\ y = k)
      BY <2>3 DEF Inert
    <3> QED BY <1>0, <3>2, <3>3, OneObject DEF ChildStep
  <2> QED BY <2>4, <2>5
<1> QED BY <1>1, <1>2 DEF DeleteChild

\* Users drop, others annotate, and the garbage collector takes one child.
LEMMA OutsideChanges ==
  ASSUME TypeInv, NEW n \in Names, NEW k \in {DeploymentKey, ServiceKey},
         UserDropsDeployment(n) \/ Drift(n, k) \/ CollectDeployment(n)
  PROVE  OneChild
<1>1. DeploymentKey \in Keys /\ k \in Keys
  BY KeysFacts
<1>2. ASSUME NEW y \in Keys, NEW c \in Child, kids' = [kids EXCEPT ![n][y] = c],
             kids'[n][y] = c => ChildStep(n, y)
      PROVE  OneChild
  <2>1. \A x \in Names, z \in Keys :
          kids'[x][z] = IF x = n /\ z = y THEN c ELSE kids[x][z]
    BY <1>2, ChildWrite
  <2> QED BY <1>2, <2>1 DEF OneChild, Inert
<1>3. CASE UserDropsDeployment(n) \/ CollectDeployment(n)
  <2> DEFINE d == kids[n][DeploymentKey]
             c == Removed(d)
  <2>1. d \in Child
    BY <1>1 DEF TypeInv, TypeOK
  <2>2. c \in Child /\ ~c.live /\ c.rv = d.rv
    BY <2>1, RemovedType DEF Removed
  <2>3. kids' = [kids EXCEPT ![n][DeploymentKey] = c]
    BY <1>3 DEF UserDropsDeployment, CollectDeployment
  <2>4. budget'.drops < budget.drops \/ d.uid # cr[n].uid
    <3>1. CASE UserDropsDeployment(n)
      <4>1. budget \in [faults: Nat, crashes: Nat, drifts: Nat, drops: Nat]
        BY DEF TypeInv, TypeOK
      <4> QED BY <3>1, <4>1, SMT DEF UserDropsDeployment
    <3> QED BY <1>3, <3>1 DEF CollectDeployment
  <2> HIDE DEF c
  <2> QED BY <1>1, <1>2, <2>2, <2>3, <2>4 DEF ChildStep, RemovedFrom
<1>4. CASE Drift(n, k)
  <2> DEFINE d == kids[n][k]
             c == Drifted(d)
  <2>1. d \in Child
    BY <1>1 DEF TypeInv, TypeOK
  <2>2. d.rv + 1 \in Nat
    BY <2>1, SMT DEF Child
  <2>3. /\ c \in Child /\ c.live = d.live /\ c.rv = d.rv + 1
        /\ c.uid = d.uid /\ c.ver = d.ver
    BY <2>1, <2>2, Zenon DEF Child, Drifted
  <2>4. kids' = [kids EXCEPT ![n][k] = c] /\ d.live
    BY <1>4 DEF Drift
  <2> HIDE DEF c
  <2> QED BY <1>1, <1>2, <2>3, <2>4 DEF ChildStep, Annotated
<1> QED BY <1>3, <1>4

\* A step changes at most one of these children, and in one of these ways.
LEMMA ChildSteps ==
  ASSUME TypeInv, [OpenNext]_vars
  PROVE  OneChild
<1>1. CASE UNCHANGED kids
  BY <1>1 DEF OneChild, Inert
<1>2. ASSUME NEW m \in Managers, Manager(m) PROVE OneChild
  <2> DEFINE w == work[m]
             o == w.obj
  <2>1. w \in Work /\ o \in Instance /\ w.seen \in Child /\ w.tgt \in Keys
    BY KeysFacts DEF TypeInv, TypeOK, Work
  <2>2. CASE \/ FinalizePersistentVolumeClaims(m) \/ FinalizeDeployment(m)
             \/ FinalizeService(m) \/ FinalizeConfigMap(m)
    BY <2>2, DeleteChanges
    DEF FinalizePersistentVolumeClaims, FinalizeDeployment, FinalizeService,
        FinalizeConfigMap, DeletionStages
  <2>3. CASE CreateConfigMap(m) \/ CreatePersistentVolumeClaim(m) \/ CreateDeployment(m)
               \/ CreateService(m) \/ CreateMissing(m)
    <3>1. w.pc \in {"mkCm", "mkClaim", "mkDep", "mkSvc", "make"}
      BY <2>3 DEF CreateConfigMap, CreatePersistentVolumeClaim, CreateDeployment,
                  CreateService, CreateMissing
    <3>2. w.pc \in Busy /\ (w.pc \in Rollout \/ w.pc = "mkCm")
      BY <3>1, BusyStages, RolloutStages
    <3>3. ASSUME NEW k \in Keys, NEW t, CreateChild(m, k, t),
                 w.pc = "mkCm" => k = ConfigMapKey
          PROVE  OneChild
      BY <3>2, <3>3, CreateChanges
    <3> QED
      BY <1>1, <2>1, <2>3, <3>3, KeysFacts
      DEF CreateConfigMap, CreatePersistentVolumeClaim, CreateDeployment,
          CreateService, CreateMissing
  <2>4. CASE UpdateExisting(m) \/ RewriteExisting(m)
    <3> DEFINE d == Desired(o, w.tgt)
               old == [uid |-> d.uid, ver |-> w.seen.ver]
    <3>1. w.pc \in Rollout /\ w.pc \in Busy
      BY <2>4, BusyStages, RolloutStages DEF UpdateExisting, RewriteExisting
    <3>2. /\ d.uid \in Nat /\ d.ver \in Nat
          /\ w.tgt \in Parts => d.uid = o.uid /\ d.ver = o.ver
      BY <2>1, DesiredType DEF Parts, Desired, NewDeployment, NewService
    <3>3. old.ver \in Nat /\ old.uid = d.uid /\ old.ver = w.seen.ver
      BY <2>1 DEF Child
    <3>4. \/ UpdateChild(m, w.tgt, w.seen.rv, d, Goto(m, "reput") /\ UNCHANGED queue)
          \/ /\ UpdateChild(m, w.tgt, w.seen.rv, old, NextChild(m, w.tgt))
             /\ w.pc = "reput" /\ w.seen.live
          \/ UpdateChild(m, w.tgt, 0, d, NextChild(m, w.tgt))
      BY <2>4 DEF UpdateExisting, RewriteExisting
    <3> HIDE DEF old, d
    <3>5. CASE UpdateChild(m, w.tgt, w.seen.rv, d, Goto(m, "reput") /\ UNCHANGED queue)
      BY <2>1, <3>1, <3>2, <3>5, UpdateChanges
    <3>6. CASE /\ UpdateChild(m, w.tgt, w.seen.rv, old, NextChild(m, w.tgt))
               /\ w.pc = "reput" /\ w.seen.live
      BY <2>1, <3>1, <3>2, <3>3, <3>6, UpdateChanges
    <3>7. CASE UpdateChild(m, w.tgt, 0, d, NextChild(m, w.tgt))
      BY <2>1, <3>1, <3>2, <3>7, UpdateChanges
    <3> QED BY <3>4, <3>5, <3>6, <3>7
  <2>5. CASE RemoveOwnFinalizer(m) \/ SaveDeleted(m) \/ AddFinalizer(m)
               \/ UpdateStatus(m) \/ UpdateSpecAnnotation(m)
    BY <1>1, <2>5 DEF RemoveOwnFinalizer, SaveDeleted, AddFinalizer, UpdateStatus,
                      UpdateSpecAnnotation
  <2>6. CASE Validate(m) \/ LookupDeployment(m) \/ ReadResource(m)
    BY <1>1, <2>6 DEF Validate, LookupDeployment, ReadResource, store
  <2>7. CASE ~Stage(m)
    BY <1>1, <1>2, <2>7 DEF Manager, Begin, CallFails, Crash, Restart, SyncInstance,
                            SyncChild, store
  <2> QED BY <2>2, <2>3, <2>4, <2>5, <2>6, <2>7 DEF Stage
<1>3. ASSUME NEW n \in Names, User(n) \/ Cluster(n) PROVE OneChild
  <2>1. CASE UserCreates(n) \/ UserEdits(n) \/ UserDeletes(n) \/ ReleaseForeign(n)
    BY <1>1, <2>1 DEF UserCreates, UserEdits, UserDeletes, ReleaseForeign
  <2>2. ASSUME NEW k \in {DeploymentKey, ServiceKey},
               UserDropsDeployment(n) \/ Drift(n, k) \/ CollectDeployment(n)
        PROVE  OneChild
    BY <2>2, OutsideChanges
  <2> QED BY <1>3, <2>1, <2>2 DEF User, Cluster
<1>4. CASE Elsewhere
  BY <1>4, ElsewhereFacts DEF OneChild, Inert
<1> QED BY <1>1, <1>2, <1>3, <1>4 DEF OpenNext, Next, vars

-----------------------------------------------------------------------------
(* What a step may do to an instance, as the lifecycle sees it.            *)

LifeKept(n) ==
  cr'[n].uid = cr[n].uid /\ cr'[n].own = cr[n].own /\ cr'[n].del = cr[n].del

Submits(n) ==
  /\ cr[n] = NoInstance
  /\ cr'[n].uid \in 1 .. MaxBorn
  /\ ~cr'[n].del

Claims(n) ==
  /\ cr[n].uid # 0 /\ ~cr[n].del /\ ~cr[n].own
  /\ cr'[n].own
  /\ cr'[n].uid = cr[n].uid /\ ~cr'[n].del

Leaves(n) ==
  /\ cr[n].uid # 0 /\ ~cr[n].del
  /\ \/ cr'[n].del /\ cr'[n].uid = cr[n].uid /\ cr'[n].own = cr[n].own
     \/ ~cr[n].own /\ cr'[n] = NoInstance

Vanishes(n) == cr[n].del /\ ~cr[n].own /\ cr'[n] = NoInstance

LetsGo(n) ==
  /\ cr[n].del /\ cr[n].own
  /\ \A k \in Parts : ~kids[n][k].live
  /\ ~cr'[n].own
  /\ \/ cr'[n].del /\ cr'[n].uid = cr[n].uid
     \/ cr'[n] = NoInstance

LifeStep(n) == Submits(n) \/ Claims(n) \/ Leaves(n) \/ Vanishes(n) \/ LetsGo(n)

OneInstance ==
  \/ \A x \in Names : LifeKept(x)
  \/ /\ UNCHANGED kids
     /\ \E n \in Names : OthersKept(n) /\ (LifeKept(n) \/ LifeStep(n))

\* An instance that is not there has no finalizer and no mark.
LEMMA AbsentFacts ==
  ASSUME HandlerInv, NEW n \in Names
  PROVE  /\ cr[n] \in Instance
         /\ cr[n].uid = 0 => cr[n] = NoInstance
         /\ cr[n] = NoInstance => cr[n].uid = 0 /\ ~cr[n].own /\ ~cr[n].del /\ ~cr[n].foreign
  BY DEF HandlerInv, TypeInv, TypeOK, StoreOK, NoInstance

\* Users submit, mark and let go.
LEMMA UserLife ==
  ASSUME HandlerInv, NEW n \in Names,
         UserCreates(n) \/ UserEdits(n) \/ UserDeletes(n) \/ ReleaseForeign(n)
  PROVE  OneInstance
<1>1. /\ cr' \in [Names -> Instance]
      /\ UNCHANGED kids
      /\ OthersKept(n)
      /\ \/ Touched(n) /\ cr'[n].own = cr[n].own /\ (cr[n].uid # 0 \/ cr[n].foreign)
         \/ Gone(n) /\ ~cr[n].own
         \/ Appears(n)
  BY UserInstance DEF HandlerInv
<1>2. /\ cr[n] \in Instance /\ cr'[n] \in Instance
      /\ cr[n].del \in BOOLEAN /\ cr'[n].del \in BOOLEAN
  BY <1>1 DEF HandlerInv, TypeInv, TypeOK, Instance
<1>3. CASE Touched(n) /\ cr'[n].own = cr[n].own /\ (cr[n].uid # 0 \/ cr[n].foreign)
  <2>1. cr[n].uid # 0
    BY <1>3, AbsentFacts
  <2> QED BY <1>1, <1>2, <1>3, <2>1 DEF Touched, OneInstance, LifeStep, LifeKept, Leaves
<1>4. CASE Gone(n) /\ ~cr[n].own
  <2>1. CASE cr[n].uid = 0
    BY <1>1, <1>4, <2>1, AbsentFacts DEF Gone, OneInstance, LifeKept
  <2>2. CASE cr[n].uid # 0
    BY <1>1, <1>4, <2>2 DEF Gone, OneInstance, LifeStep, Leaves, Vanishes
  <2> QED BY <2>1, <2>2
<1>5. CASE Appears(n)
  <2>1. born[n] \in Nat /\ cr[n].uid = 0 /\ cr'[n].uid = born[n] + 1 /\ ~cr'[n].del
    BY <1>5 DEF Appears, HandlerInv, TypeInv, TypeOK
  <2>2. born[n] < MaxBorn
    <3>1. CASE UserCreates(n)
      BY <3>1 DEF UserCreates
    <3>2. CASE UserEdits(n) \/ UserDeletes(n)
      BY <2>1, <3>2 DEF UserEdits, UserDeletes
    <3>3. CASE ReleaseForeign(n)
      BY <2>1, <3>3, AbsentFacts DEF ReleaseForeign
    <3> QED BY <3>1, <3>2, <3>3
  <2>3. MaxBorn \in Nat
    BY ConstantsAssumption
  <2>4. born[n] + 1 \in 1 .. MaxBorn
    BY <2>1, <2>2, <2>3, SMT
  <2>5. Submits(n)
    BY <2>1, <2>4, AbsentFacts DEF Submits
  <2> QED BY <1>1, <2>5 DEF OneInstance, LifeStep
<1> QED BY <1>1, <1>3, <1>4, <1>5

\* The handler claims the instance, and lets it go when both children are gone.
LEMMA HandlerLife ==
  ASSUME OwnerInv, NEW m \in Managers,
         \/ RemoveOwnFinalizer(m)
         \/ SaveDeleted(m)
         \/ AddFinalizer(m)
         \/ UpdateStatus(m)
         \/ UpdateSpecAnnotation(m)
  PROVE  OneInstance
<1> DEFINE o == work[m].obj
           n == work[m].key
<1>1. HandlerInv /\ TypeInv /\ work[m] \in Work
  BY DEF OwnerInv, HandlerInv, TypeInv, TypeOK
<1>2. o \in Instance /\ o.ver \in Nat
  BY <1>1 DEF Work, Instance
<1>3. /\ work[m].pc \in Busy
      /\ UNCHANGED <<kids, born>>
  BY BusyStages DEF RemoveOwnFinalizer, SaveDeleted, AddFinalizer, UpdateStatus,
                    UpdateSpecAnnotation
<1>4. /\ n \in Names /\ StageOK(work[m]) /\ Cleared(m)
      /\ cr[n] \in Instance /\ cr[n].own \in BOOLEAN /\ cr[n].del \in BOOLEAN
  BY <1>1, <1>3 DEF TypeInv, TypeOK, KeyOK, OwnerInv, HandlerInv, WorkersOK, WorkerOwns,
                    Instance
<1>5. /\ \A b \in BOOLEAN :
           LET c == [o EXCEPT !.own = b] IN
           /\ c \in Instance /\ c.own = b
           /\ c.uid = o.uid /\ c.rv = o.rv /\ c.ver = o.ver /\ c.del = o.del
      /\ \A v \in Nat :
           LET c == [o EXCEPT !.rep = v] IN
           /\ c \in Instance /\ c.own = o.own
           /\ c.uid = o.uid /\ c.rv = o.rv /\ c.ver = o.ver /\ c.del = o.del
      /\ \A v \in Nat :
           LET c == [o EXCEPT !.ann = v] IN
           /\ c \in Instance /\ c.own = o.own
           /\ c.uid = o.uid /\ c.rv = o.rv /\ c.ver = o.ver /\ c.del = o.del
  BY <1>2, Zenon DEF Instance
<1>6. ASSUME NEW new \in Instance, NEW next \in Busy, UpdateInstance(m, new, next),
             new.uid = o.uid, new.rv = o.rv, new.ver = o.ver, new.del = o.del
      PROVE  /\ OthersKept(n)
             /\ cr' = cr \/ UpdateAccepted(m, new, next)
  BY <1>1, <1>3, <1>6, InstanceFacts
<1>7. CASE cr' = cr
  BY <1>7 DEF OneInstance, LifeKept
<1>8. ASSUME NEW new \in Instance, NEW next \in Busy, OthersKept(n),
             UpdateAccepted(m, new, next), new.own = o.own
      PROVE  OneInstance
  <2>1. /\ o = cr[n]
        /\ \/ LifeKept(n)
           \/ cr'[n] = NoInstance /\ ~cr[n].own /\ cr[n].del
    BY <1>8 DEF UpdateAccepted, LifeKept, Gone
  <2> QED BY <1>3, <1>4, <1>8, <2>1 DEF OneInstance, LifeStep, Vanishes
<1>9. {"resave", "validate", "lookup", "annotate", "read"} \subseteq Busy
  BY BusyStages
<1>10. CASE SaveDeleted(m)
  <2>1. UpdateInstance(m, o, "validate")
    BY <1>10 DEF SaveDeleted
  <2> QED BY <1>2, <1>6, <1>7, <1>8, <1>9, <2>1
<1>11. CASE UpdateStatus(m)
  <2> DEFINE c == [o EXCEPT !.rep = o.ver]
  <2>1. UpdateInstance(m, c, "annotate")
    BY <1>11 DEF UpdateStatus, StatusOf
  <2>2. /\ c \in Instance /\ c.own = o.own
        /\ c.uid = o.uid /\ c.rv = o.rv /\ c.ver = o.ver /\ c.del = o.del
    BY <1>2, <1>5
  <2> HIDE DEF c
  <2> QED BY <1>6, <1>7, <1>8, <1>9, <2>1, <2>2
<1>12. CASE UpdateSpecAnnotation(m)
  <2> DEFINE c == [o EXCEPT !.ann = o.ver]
  <2>1. UpdateInstance(m, c, "read")
    BY <1>12 DEF UpdateSpecAnnotation
  <2>2. /\ c \in Instance /\ c.own = o.own
        /\ c.uid = o.uid /\ c.rv = o.rv /\ c.ver = o.ver /\ c.del = o.del
    BY <1>2, <1>5
  <2> HIDE DEF c
  <2> QED BY <1>6, <1>7, <1>8, <1>9, <2>1, <2>2
<1>13. CASE AddFinalizer(m)
  <2> DEFINE c == [o EXCEPT !.own = TRUE]
  <2>1. UpdateInstance(m, c, "lookup") /\ work[m].pc = "addFin"
    BY <1>13 DEF AddFinalizer
  <2>2. /\ c \in Instance /\ c.own
        /\ c.uid = o.uid /\ c.rv = o.rv /\ c.ver = o.ver /\ c.del = o.del
    BY <1>5
  <2> HIDE DEF c
  <2>3. CASE UpdateAccepted(m, c, "lookup") /\ OthersKept(n)
    <3>1. o = cr[n] /\ ~cr[n].own /\ ~cr[n].del /\ cr[n].uid # 0
      BY <1>4, <2>1, <2>2, <2>3 DEF UpdateAccepted, Accepts, StageOK
    <3>2. cr'[n].own /\ cr'[n].uid = cr[n].uid /\ ~cr'[n].del
      BY <2>2, <2>3, <3>1 DEF UpdateAccepted
    <3> QED BY <1>3, <1>4, <2>3, <3>1, <3>2 DEF OneInstance, LifeStep, Claims
  <2> QED BY <1>6, <1>7, <1>9, <2>1, <2>2, <2>3
<1>14. CASE RemoveOwnFinalizer(m)
  <2> DEFINE c == [o EXCEPT !.own = FALSE]
  <2>1. UpdateInstance(m, c, "resave") /\ work[m].pc = "unfin"
    BY <1>14 DEF RemoveOwnFinalizer
  <2>2. /\ c \in Instance /\ ~c.own
        /\ c.uid = o.uid /\ c.rv = o.rv /\ c.ver = o.ver /\ c.del = o.del
    BY <1>5
  <2> HIDE DEF c
  <2>3. CASE UpdateAccepted(m, c, "resave") /\ OthersKept(n)
    <3>1. o = cr[n] /\ cr[n].own /\ cr[n].del
      BY <1>4, <2>1, <2>3 DEF UpdateAccepted, StageOK, DeletionStages
    <3>2. \A k \in Parts : ~kids[n][k].live
      BY <1>4, <2>1 DEF Cleared, Parts
    <3>3. /\ ~cr'[n].own
          /\ cr'[n] = NoInstance \/ (cr'[n].del /\ cr'[n].uid = cr[n].uid)
      <4>1. CASE cr'[n] = work'[m].obj
        BY <2>2, <2>3, <3>1, <4>1 DEF UpdateAccepted
      <4>2. CASE Gone(n)
        BY <4>2 DEF Gone, NoInstance
      <4> QED BY <2>3, <4>1, <4>2 DEF UpdateAccepted
    <3> QED BY <1>3, <1>4, <2>3, <3>1, <3>2, <3>3 DEF OneInstance, LifeStep, LetsGo
  <2> QED BY <1>6, <1>7, <1>9, <2>1, <2>2, <2>3
<1> QED BY <1>10, <1>11, <1>12, <1>13, <1>14

\* A step changes at most one instance, and in one of these ways.
LEMMA InstanceSteps ==
  ASSUME OwnerInv, [OpenNext]_vars
  PROVE  OneInstance
<1>1. CASE UNCHANGED cr
  BY <1>1 DEF OneInstance, LifeKept
<1>2. ASSUME NEW m \in Managers, Manager(m) PROVE OneInstance
  <2>1. CASE RemoveOwnFinalizer(m) \/ SaveDeleted(m) \/ AddFinalizer(m)
               \/ UpdateStatus(m) \/ UpdateSpecAnnotation(m)
    BY <2>1, HandlerLife
  <2>2. CASE \/ FinalizePersistentVolumeClaims(m) \/ FinalizeDeployment(m)
             \/ FinalizeService(m) \/ FinalizeConfigMap(m)
    BY <1>1, <2>2 DEF FinalizePersistentVolumeClaims, FinalizeDeployment,
                      FinalizeService, FinalizeConfigMap, DeleteChild
  <2>3. CASE Validate(m) \/ LookupDeployment(m) \/ ReadResource(m)
    BY <1>1, <2>3 DEF Validate, LookupDeployment, ReadResource, store
  <2>4. CASE CreateConfigMap(m) \/ CreatePersistentVolumeClaim(m) \/ CreateDeployment(m)
               \/ CreateService(m) \/ CreateMissing(m)
    BY <1>1, <2>4 DEF CreateConfigMap, CreatePersistentVolumeClaim, CreateDeployment,
                      CreateService, CreateMissing
  <2>5. CASE UpdateExisting(m) \/ RewriteExisting(m)
    BY <1>1, <2>5 DEF UpdateExisting, RewriteExisting
  <2>6. CASE ~Stage(m)
    BY <1>1, <1>2, <2>6 DEF Manager, Begin, CallFails, Crash, Restart, SyncInstance,
                            SyncChild, store
  <2> QED BY <2>1, <2>2, <2>3, <2>4, <2>5, <2>6 DEF Stage
<1>3. ASSUME NEW n \in Names, User(n) \/ Cluster(n) PROVE OneInstance
  <2>1. CASE UserCreates(n) \/ UserEdits(n) \/ UserDeletes(n) \/ ReleaseForeign(n)
    BY <2>1, UserLife DEF OwnerInv
  <2>2. CASE \/ UserDropsDeployment(n)
             \/ \E k \in {DeploymentKey, ServiceKey} : Drift(n, k)
             \/ CollectDeployment(n)
    BY <1>1, <2>2 DEF UserDropsDeployment, Drift, CollectDeployment
  <2> QED BY <1>3, <2>1, <2>2 DEF User, Cluster
<1> QED BY <1>1, <1>2, <1>3 DEF OpenNext, Next, Elsewhere, vars

-----------------------------------------------------------------------------
(* The refinement.                                                         *)

\* What an instance shows of itself in the lifecycle, name by name,
LEMMA AbstractInstance ==
  ASSUME NEW n \in Names, OthersKept(n)
  PROVE  /\ [x \in Names |-> cr'[x].uid] =
              [[x \in Names |-> cr[x].uid] EXCEPT ![n] = cr'[n].uid]
         /\ [x \in Names |-> cr'[x].own] =
              [[x \in Names |-> cr[x].own] EXCEPT ![n] = cr'[n].own]
         /\ [x \in Names |-> cr'[x].del] =
              [[x \in Names |-> cr[x].del] EXCEPT ![n] = cr'[n].del]
  BY DEF OthersKept

Kinds == {"Deployment", "Service"}

\* the part of a name that runs, as the lifecycle sees it,
PartOf(n, p) == IF kids[n][PartKey(p)].live THEN kids[n][PartKey(p)].uid ELSE 0

Running == [n \in Names |-> [p \in Kinds |-> PartOf(n, p)]]

\* and a change of one part.
LEMMA AbstractPart ==
  ASSUME NEW n \in Names, NEW q \in Kinds,
         \A x \in Names, p \in Kinds :
           PartOf(x, p)' = PartOf(x, p) \/ (x = n /\ p = q)
  PROVE  Running' = [Running EXCEPT ![n][q] = PartOf(n, q)']
  BY DEF Running

\* The parts are the children that NoOrphanedWorkload is about.
LEMMA PartKeys ==
  /\ \A p \in Kinds : PartKey(p) \in Parts /\ PartKey(p) \in Watched /\ PartKey(p) \in Keys
  /\ \A p, q \in Kinds : PartKey(p) = PartKey(q) => p = q
  /\ \A k \in Parts : \E p \in Kinds : PartKey(p) = k
  BY PartsFacts DEF Kinds, PartKey, Parts

\* The parts of a name without children are idle.
LEMMA IdleFacts ==
  ASSUME NEW n \in Names, \A k \in Parts : ~kids[n][k].live
  PROVE  Lifecycle!Idle(n)
<1>1. \A p \in Kinds : PartOf(n, p) = 0
  BY PartKeys DEF PartOf
<1> QED BY <1>1 DEF Lifecycle!Idle, Lifecycle!Parts, PartOf, Kinds

\* The instance of one name goes through a step of its lifecycle.
LEMMA InstanceRefines ==
  ASSUME OwnerInv, TypeOK', NEW n \in Names, OthersKept(n), UNCHANGED kids, LifeStep(n)
  PROVE  Lifecycle!Next
<1> DEFINE inst == [x \in Names |-> cr[x].uid]
           own  == [x \in Names |-> cr[x].own]
           del  == [x \in Names |-> cr[x].del]
<1>1. HandlerInv /\ cr[n] \in Instance /\ cr'[n] \in Instance
  BY DEF OwnerInv, HandlerInv, TypeInv, TypeOK
<1>2. /\ cr[n].own \in BOOLEAN /\ cr[n].del \in BOOLEAN
      /\ cr'[n].own \in BOOLEAN /\ cr'[n].del \in BOOLEAN
  BY <1>1 DEF Instance
<1>3. /\ inst' = [inst EXCEPT ![n] = cr'[n].uid]
      /\ own' = [own EXCEPT ![n] = cr'[n].own]
      /\ del' = [del EXCEPT ![n] = cr'[n].del]
  BY AbstractInstance
<1>4. UNCHANGED Running
  BY DEF Running, PartOf
<1>5. inst[n] = cr[n].uid /\ own[n] = cr[n].own /\ del[n] = cr[n].del
  OBVIOUS
<1>6. /\ cr[n].own = own[n] => [own EXCEPT ![n] = cr[n].own] = own
      /\ cr[n].del = del[n] => [del EXCEPT ![n] = cr[n].del] = del
      /\ cr[n].uid = inst[n] => [inst EXCEPT ![n] = cr[n].uid] = inst
  OBVIOUS
<1>7. NoInstance.uid = 0 /\ NoInstance.own = FALSE /\ NoInstance.del = FALSE
  BY DEF NoInstance
<1>8. CASE Submits(n)
  <2>1. \A k \in Parts : ~kids[n][k].live
    BY <1>1, <1>8, AbsentFacts DEF Submits, OwnerInv, NoOrphanedWorkload, Parts
  <2>2. inst[n] = 0 /\ del' = del /\ cr'[n].uid \in 1 .. MaxBorn
    BY <1>2, <1>3, <1>5, <1>6, <1>7, <1>8 DEF Submits
  <2>3. Lifecycle!Submit(n)
    BY <1>2, <1>3, <1>4, <2>1, <2>2, IdleFacts
    DEF Lifecycle!Submit, Running, PartOf, Kinds
  <2> QED BY <2>3 DEF Lifecycle!Next
<1>9. CASE Claims(n)
  <2>1. /\ inst[n] # 0 /\ ~del[n] /\ ~own[n]
        /\ inst' = inst /\ del' = del /\ own' = [own EXCEPT ![n] = TRUE]
    BY <1>2, <1>3, <1>5, <1>6, <1>9 DEF Claims
  <2>2. Lifecycle!Claim(n)
    BY <1>4, <2>1 DEF Lifecycle!Claim, Running, PartOf, Kinds
  <2> QED BY <2>2 DEF Lifecycle!Next
<1>10. CASE Leaves(n)
  <2>1. inst[n] # 0 /\ ~del[n]
    BY <1>5, <1>10 DEF Leaves
  <2>2. CASE cr'[n].del /\ cr'[n].uid = cr[n].uid /\ cr'[n].own = cr[n].own
    <3>1. inst' = inst /\ own' = own /\ del' = [del EXCEPT ![n] = TRUE]
      BY <1>2, <1>3, <1>5, <1>6, <2>2
    <3> QED BY <1>4, <2>1, <3>1 DEF Lifecycle!Next, Lifecycle!Leave, Running, PartOf, Kinds
  <2>3. CASE ~cr[n].own /\ cr'[n] = NoInstance
    <3>1. /\ cr'[n].uid = 0 /\ cr'[n].own = cr[n].own /\ cr'[n].del = cr[n].del
      BY <1>2, <1>7, <1>10, <2>3 DEF Leaves
    <3>2. ~own[n] /\ inst' = [inst EXCEPT ![n] = 0] /\ own' = own /\ del' = del
      BY <1>3, <1>5, <1>6, <2>3, <3>1
    <3> QED BY <1>4, <2>1, <3>2 DEF Lifecycle!Next, Lifecycle!Leave, Running, PartOf, Kinds
  <2> QED BY <1>10, <2>2, <2>3 DEF Leaves
<1>11. CASE Vanishes(n)
  <2>0. cr'[n].uid = 0 /\ cr'[n].own = cr[n].own /\ cr'[n].del = FALSE
    BY <1>2, <1>7, <1>11 DEF Vanishes
  <2>1. /\ del[n] /\ ~own[n] /\ inst' = [inst EXCEPT ![n] = 0]
        /\ own' = own /\ del' = [del EXCEPT ![n] = FALSE]
    BY <1>3, <1>5, <1>6, <1>11, <2>0 DEF Vanishes
  <2>2. Lifecycle!Vanish(n)
    BY <1>4, <2>1 DEF Lifecycle!Vanish, Running, PartOf, Kinds
  <2> QED BY <2>2 DEF Lifecycle!Next
<1>12. CASE LetsGo(n)
  <2>1. /\ del[n] /\ own[n] /\ own' = [own EXCEPT ![n] = FALSE]
        /\ \/ inst' = inst /\ del' = del
           \/ inst' = [inst EXCEPT ![n] = 0] /\ del' = [del EXCEPT ![n] = FALSE]
    BY <1>2, <1>3, <1>5, <1>6, <1>7, <1>12 DEF LetsGo
  <2>2. Lifecycle!Idle(n)
    BY <1>12, IdleFacts DEF LetsGo
  <2>3. Lifecycle!LetGo(n)
    BY <1>4, <2>1, <2>2 DEF Lifecycle!LetGo, Running, PartOf, Kinds
  <2> QED BY <2>3 DEF Lifecycle!Next
<1> QED BY <1>8, <1>9, <1>10, <1>11, <1>12 DEF LifeStep

\* Or else the instances stay, and at most one part starts or stops.
LEMMA ChildRefines ==
  ASSUME OwnerInv, OwnerInv', OneChild, \A x \in Names : LifeKept(x)
  PROVE  [Lifecycle!Next]_(Lifecycle!vars)
<1> DEFINE inst == [x \in Names |-> cr[x].uid]
           own  == [x \in Names |-> cr[x].own]
           del  == [x \in Names |-> cr[x].del]
<1>1. UNCHANGED <<inst, own, del>>
  BY DEF LifeKept
<1>2. CASE UNCHANGED Running
  BY <1>1, <1>2 DEF Lifecycle!vars, Running, PartOf, Kinds
<1>3. ASSUME NEW n \in Names, NEW p \in Kinds,
             \A x \in Names, q \in Kinds : PartOf(x, q)' = PartOf(x, q) \/ (x = n /\ q = p),
             PartOf(n, p)' # PartOf(n, p)
      PROVE  Lifecycle!Next
  <2> DEFINE k == PartKey(p)
  <2>1. k \in Parts
    BY PartKeys
  <2>2. /\ kids[n][k].live => cr[n].uid = kids[n][k].uid /\ cr[n].own
        /\ kids'[n][k].live => cr'[n].uid = kids'[n][k].uid /\ cr'[n].own
    BY <2>1 DEF OwnerInv, NoOrphanedWorkload, Parts
  <2>3. cr'[n].uid = cr[n].uid /\ cr'[n].own = cr[n].own
    BY DEF LifeKept
  <2>4. cr[n].own => cr[n].uid # 0
    BY AbsentFacts DEF OwnerInv
  <2>5. Running' = [Running EXCEPT ![n][p] = PartOf(n, p)']
    BY <1>3, AbstractPart
  <2>6. Running[n][p] = PartOf(n, p) /\ inst[n] = cr[n].uid /\ own[n] = cr[n].own
    BY DEF Running
  <2>7. CASE kids[n][k].live
    <3>1. PartOf(n, p) # 0 /\ PartOf(n, p)' = 0
      BY <1>3, <2>2, <2>3, <2>4, <2>7 DEF PartOf
    <3>2. Lifecycle!Stop(n, p)
      BY <1>1, <2>5, <2>6, <3>1 DEF Lifecycle!Stop, Running, PartOf, Kinds
    <3> QED BY <3>2 DEF Lifecycle!Next, Lifecycle!Parts, Kinds
  <2>8. CASE ~kids[n][k].live
    <3>1. PartOf(n, p) = 0 /\ PartOf(n, p)' = cr[n].uid /\ cr[n].uid # 0 /\ cr[n].own
      BY <1>3, <2>2, <2>3, <2>4, <2>8 DEF PartOf
    <3>2. Lifecycle!Start(n, p)
      BY <1>1, <2>5, <2>6, <3>1 DEF Lifecycle!Start, Running, PartOf, Kinds
    <3> QED BY <3>2 DEF Lifecycle!Next, Lifecycle!Parts, Kinds
  <2> QED BY <2>7, <2>8
<1>4. CASE \A x \in Names, p \in Kinds : PartOf(x, p)' = PartOf(x, p)
  BY <1>2, <1>4 DEF Running
<1>5. CASE \E n \in Names, p \in Kinds :
             \A x \in Names, q \in Kinds : PartOf(x, q)' = PartOf(x, q) \/ (x = n /\ q = p)
  BY <1>3, <1>4, <1>5
<1>6. CASE \A x \in Names, y \in Watched : Inert(x, y)
  <2>1. \A x \in Names, p \in Kinds : PartOf(x, p)' = PartOf(x, p)
    BY <1>6, PartKeys DEF Inert, PartOf
  <2> QED BY <1>4, <2>1
<1>7. ASSUME NEW n \in Names, NEW k \in Watched,
             \A x \in Names, y \in Watched : Inert(x, y) \/ (x = n /\ y = k)
      PROVE  [Lifecycle!Next]_(Lifecycle!vars)
  <2>1. \A x \in Names, q \in Kinds :
          PartOf(x, q)' = PartOf(x, q) \/ (x = n /\ PartKey(q) = k)
    BY <1>7, PartKeys DEF Inert, PartOf
  <2> QED BY <1>4, <1>5, <2>1, PartKeys
<1> QED BY <1>6, <1>7 DEF OneChild

\* The first state is the first state of the lifecycle.
LEMMA LifecycleInit == Init => Lifecycle!Init
<1> SUFFICES ASSUME Init PROVE Lifecycle!Init
  OBVIOUS
<1>1. \A n \in Names : cr[n] = NoInstance /\ \A k \in Keys : ~kids[n][k].live
  BY DEF Init, NoChild
<1>2. \A n \in Names, p \in Kinds : PartOf(n, p) = 0
  BY <1>1, PartKeys DEF PartOf
<1>3. Running = [n \in Names |-> [p \in Kinds |-> 0]]
  BY <1>2 DEF Running
<1>4. NoInstance.uid = 0 /\ NoInstance.own = FALSE /\ NoInstance.del = FALSE
  BY DEF NoInstance
<1>5. /\ [n \in Names |-> cr[n].uid] = [n \in Names |-> 0]
      /\ [n \in Names |-> cr[n].own] = [n \in Names |-> FALSE]
      /\ [n \in Names |-> cr[n].del] = [n \in Names |-> FALSE]
  BY <1>1, <1>4
<1> QED BY <1>3, <1>5 DEF Lifecycle!Init, Lifecycle!Parts, Running, PartOf, Kinds

\* With one operator process the controller does what the lifecycle allows,
\* step by step: an instance is claimed before anything runs for it, nothing
\* runs for another one, and the claim comes off last.
LEMMA LifecycleAmongOthers ==
  ASSUME SoleManager
  PROVE  OpenSpec => ImplementsLifecycle
<1>1. OpenSpec => []OwnerInv
  BY OwnerInit, OwnerStep, PTL DEF OpenSpec
<1>2. OwnerInv /\ OwnerInv' /\ [OpenNext]_vars => [Lifecycle!Next]_(Lifecycle!vars)
  <2> SUFFICES ASSUME OwnerInv, OwnerInv', [OpenNext]_vars
               PROVE  [Lifecycle!Next]_(Lifecycle!vars)
    OBVIOUS
  <2>1. OneChild /\ TypeOK'
    BY ChildSteps DEF OwnerInv, HandlerInv, TypeInv
  <2>2. OneInstance
    BY InstanceSteps
  <2>3. CASE \A x \in Names : LifeKept(x)
    BY <2>1, <2>3, ChildRefines
  <2>4. ASSUME UNCHANGED kids, NEW n \in Names, OthersKept(n), LifeKept(n) \/ LifeStep(n)
        PROVE  [Lifecycle!Next]_(Lifecycle!vars)
    <3>1. CASE LifeStep(n)
      BY <2>1, <2>4, <3>1, InstanceRefines
    <3>2. CASE LifeKept(n)
      BY <2>3, <2>4, <3>2 DEF OthersKept, LifeKept
    <3> QED BY <2>4, <3>1, <3>2
  <2> QED BY <2>2, <2>3, <2>4 DEF OneInstance
<1> QED BY <1>1, <1>2, LifecycleInit, PTL DEF OpenSpec, ImplementsLifecycle, Lifecycle!Spec

\* The same of the controller alone.
THEOREM LifecycleImplemented ==
  ASSUME SoleManager
  PROVE  Spec => ImplementsLifecycle
  BY LifecycleAmongOthers, SpecIsOpen, PTL

-----------------------------------------------------------------------------
(* How old the copies are.                                                 *)

StoredOnce == \A n \in Names, k \in Watched : kids[n][k].live => kids[n][k].rv # 0

\* The cache is not ahead of the spec that is stored,
CacheBehind ==
  \A m \in Managers, n \in Names :
    LET c == crCache[m][n] IN
    c.uid # 0 /\ c.uid = cr[n].uid => c.ver <= cr[n].ver

\* nor behind what is deployed.
CacheLeads ==
  \A m \in Managers, n \in Names, k \in Parts :
    kids[n][k].live => /\ crCache[m][n].uid = kids[n][k].uid
                       /\ kids[n][k].ver <= crCache[m][n].ver

\* The cache has not lost sight of the instance in hand,
FromCache(m) ==
  LET o == work[m].obj
      c == crCache[m][work[m].key] IN
  work[m].pc \in Busy /\ o.uid # 0 /\ o.uid = cr[work[m].key].uid =>
    c.uid = o.uid /\ o.ver <= c.ver

\* and what is deployed belongs to it, and is not ahead of it.
OwnRound(m) ==
  LET o == work[m].obj
      n == work[m].key IN
  work[m].pc \in Busy =>
    \A k \in Parts : kids[n][k].live => /\ kids[n][k].uid = o.uid
                                        /\ kids[n][k].ver <= o.ver

\* A copy of a child with the stored version has the stored spec.
ChildCopyOK(c, n, k) ==
  c.live => /\ c.rv # 0
            /\ c.rv <= kids[n][k].rv
            /\ c.rv = kids[n][k].rv /\ kids[n][k].live => c.ver = kids[n][k].ver

ChildCopies ==
  \A m \in Managers, n \in Names, k \in Watched : ChildCopyOK(kidCache[m][n][k], n, k)

\* Where the worker holds the copy of a child.
Reading == {"make", "put", "reput"}

SeenOK(m) ==
  work[m].pc \in Reading => ChildCopyOK(work[m].seen, work[m].key, work[m].tgt)

RoundInv ==
  /\ OwnerInv
  /\ StoredOnce
  /\ CacheBehind
  /\ CacheLeads
  /\ ChildCopies
  /\ \A m \in Managers : FromCache(m) /\ OwnRound(m) /\ SeenOK(m)

-----------------------------------------------------------------------------
(* What a step may do to caches and workers.                               *)

CacheStep(m) ==
  \A n \in Names :
    /\ crCache'[m][n] \in {crCache[m][n], cr[n]}
    /\ \A k \in Watched : kidCache'[m][n][k] \in {kidCache[m][n][k], kids[n][k]}

\* A cache keeps its entry, or takes what is stored.
LEMMA CacheSteps ==
  ASSUME TypeInv, [OpenNext]_vars, NEW m \in Managers
  PROVE  CacheStep(m)
<1>1. CASE UNCHANGED <<crCache, kidCache>>
  BY <1>1 DEF CacheStep
<1>2. ASSUME NEW x \in Managers, Manager(x) PROVE CacheStep(m)
  <2>1. CASE Restart(x)
    BY <2>1, SMT DEF Restart, TypeInv, TypeOK, CacheStep
  <2>2. ASSUME NEW n \in Names, SyncInstance(x, n) PROVE CacheStep(m)
    BY <2>2, SMT DEF SyncInstance, TypeInv, TypeOK, CacheStep
  <2>3. ASSUME NEW n \in Names, NEW k \in Watched, SyncChild(x, n, k) PROVE CacheStep(m)
    BY <2>3, SMT DEF SyncChild, TypeInv, TypeOK, CacheStep
  <2>4. CASE (\E n \in Names : Begin(x, n)) \/ CallFails(x) \/ Crash(x)
    BY <1>1, <2>4 DEF Begin, CallFails, Crash, caches
  <2>5. CASE Stage(x)
    BY <1>1, <2>5
    DEF Stage, FinalizePersistentVolumeClaims, FinalizeDeployment, FinalizeService,
        FinalizeConfigMap, DeleteChild, RemoveOwnFinalizer, SaveDeleted, Validate,
        AddFinalizer, LookupDeployment, CreateConfigMap, CreatePersistentVolumeClaim,
        CreateDeployment, CreateService, UpdateStatus, UpdateSpecAnnotation,
        ReadResource, CreateMissing, UpdateExisting, RewriteExisting, caches
  <2> QED BY <1>2, <2>1, <2>2, <2>3, <2>4, <2>5 DEF Manager
<1>3. ASSUME NEW n \in Names, User(n) \/ Cluster(n) PROVE CacheStep(m)
  BY <1>1, <1>3
  DEF User, Cluster, UserCreates, UserEdits, UserDeletes, UserDropsDeployment,
      ReleaseForeign, Drift, CollectDeployment, caches
<1> QED BY <1>1, <1>2, <1>3 DEF OpenNext, Next, Elsewhere, caches, vars

\* A round starts from the cache, with the clean-up or the validation,
Began(m) ==
  /\ work'[m].pc \notin Reading \cup Rollout
  /\ work'[m].key \in Names
  /\ work'[m].obj = crCache[m][work'[m].key]
  /\ UNCHANGED <<cr, kids, born, crCache, kidCache>>

\* What takes a worker past the creation of the ConfigMap: its cache shows the
\* Deployment, or there is no ConfigMap.
Entitled(m) ==
  LET w == work[m] IN
  \/ w.pc \in Rollout
  \/ kidCache[m][w.key][DeploymentKey].live
  \/ ~kids[w.key][ConfigMapKey].live

\* and goes on with the same instance in the same version; a child is read from
\* the cache, and kept until it has been written twice.
Continued(m) ==
  /\ work[m].pc \in Busy
  /\ work'[m].key = work[m].key
  /\ work'[m].obj.uid = work[m].obj.uid
  /\ work'[m].obj.ver = work[m].obj.ver
  /\ work'[m].pc \in Rollout => Entitled(m)
  /\ work'[m].pc \in Reading =>
       /\ work'[m].tgt = work[m].tgt
       /\ \/ work[m].pc \in Reading /\ work'[m].seen = work[m].seen
          \/ work'[m].seen = kidCache[m][work[m].key][work[m].tgt]

WorkerStep(m) == work'[m] = work[m] \/ Ended(m) \/ Began(m) \/ Continued(m)

\* Going on keeps everything in the worker's hands.
LEMMA GotoKeeps ==
  ASSUME TypeInv, NEW m \in Managers, NEW s \in Stages, Goto(m, s)
  PROVE  /\ work'[m].pc = s
         /\ work'[m].key = work[m].key
         /\ work'[m].obj = work[m].obj
         /\ work'[m].seen = work[m].seen
         /\ work'[m].tgt = work[m].tgt
<1> DEFINE w == [work[m] EXCEPT !.pc = s]
<1>1. work[m] \in Work
  BY DEF TypeInv, TypeOK
<1>2. /\ w.pc = s /\ w.key = work[m].key /\ w.obj = work[m].obj
      /\ w.seen = work[m].seen /\ w.tgt = work[m].tgt
  BY <1>1, Zenon DEF Work
<1>3. work' = [work EXCEPT ![m] = w]
  BY DEF Goto, Move
<1> HIDE DEF w
<1>4. work'[m] = w
  BY <1>3 DEF TypeInv, TypeOK
<1> QED BY <1>2, <1>4

\* The read of a child takes the copy from the cache.
LEMMA ReadKeeps ==
  ASSUME TypeInv, NEW m \in Managers, ReadResource(m)
  PROVE  Ended(m) \/ Continued(m)
<1> DEFINE w == work[m]
           seen == kidCache[m][w.key][w.tgt]
           t == IF seen.live THEN "put" ELSE "make"
           v == [w EXCEPT !.seen = seen, !.pc = t]
<1>1. w.pc = "read" /\ w.pc \in Busy /\ w \in Work /\ Entitled(m)
  BY BusyStages, RolloutStages DEF ReadResource, TypeInv, TypeOK, Entitled
<1>2. v.seen = seen /\ v.tgt = w.tgt /\ v.key = w.key /\ v.obj = w.obj
  BY <1>1, Zenon DEF Work
<1>3. Die(m) \/ work' = [work EXCEPT ![m] = v]
  BY DEF ReadResource, Move
<1> HIDE DEF v
<1>4. CASE work' = [work EXCEPT ![m] = v]
  <2>1. work'[m] = v
    BY <1>4 DEF TypeInv, TypeOK
  <2> QED BY <1>1, <1>2, <2>1 DEF Continued
<1> QED BY <1>3, <1>4, EndFacts

\* Whatever happens, a worker rests, starts or goes on.
LEMMA WorkerSteps ==
  ASSUME HandlerInv, [OpenNext]_vars, NEW m \in Managers
  PROVE  WorkerStep(m)
<1> USE DEF WorkerStep
<1>0. TypeInv
  BY DEF HandlerInv
<1>1. CASE UNCHANGED work
  BY <1>1
<1>2. ASSUME NEW x \in Managers, Manager(x) PROVE WorkerStep(m)
  <2> DEFINE w == work[x]
             o == w.obj
  <2>1. w \in Work /\ o \in Instance /\ o.ver \in Nat
    BY <1>0 DEF TypeInv, TypeOK, Work, Instance
  <2>2. ASSUME OthersWait(x), Ended(x) \/ Continued(x) \/ Began(x) PROVE WorkerStep(m)
    BY <2>2 DEF OthersWait
  <2>3. ASSUME OthersWait(x), NEW s \in Busy \ Reading, Ended(x) \/ Kept(x, s), w.pc \in Busy,
               s \in Rollout => Entitled(x)
        PROVE  WorkerStep(m)
    BY <2>2, <2>3 DEF Kept, Continued
  <2>4. CASE FinalizePersistentVolumeClaims(x)
    <3>1. {"delClaims", "delDep"} \subseteq (Busy \ Reading) \ Rollout
      BY BusyStages, RolloutStages DEF Reading
    <3> QED BY <1>0, <2>3, <2>4, <3>1, FinalizeClaimsFacts
  <2>5. CASE FinalizeDeployment(x) \/ FinalizeService(x) \/ FinalizeConfigMap(x)
    <3>1. {"delDep", "delSvc", "delCm", "unfin"} \subseteq (Busy \ Reading) \ Rollout
      BY BusyStages, RolloutStages DEF Reading
    <3> QED BY <1>0, <2>3, <2>5, <3>1, DeleteStageFacts
            DEF FinalizeDeployment, FinalizeService, FinalizeConfigMap
  <2>6. CASE RemoveOwnFinalizer(x) \/ SaveDeleted(x) \/ AddFinalizer(x)
               \/ UpdateStatus(x) \/ UpdateSpecAnnotation(x)
    <3>1. w.pc \in Busy /\ UNCHANGED born
      BY <2>6, BusyStages DEF RemoveOwnFinalizer, SaveDeleted, AddFinalizer, UpdateStatus,
                              UpdateSpecAnnotation
    <3>2. /\ {"resave", "validate", "lookup", "annotate", "read"} \subseteq Busy \ Reading
          /\ \A s \in {"resave", "validate", "lookup"} : s \notin Rollout
          /\ w.pc \in {"status", "annotate"} => w.pc \in Rollout
      BY BusyStages, RolloutStages DEF Reading
    <3>3. ASSUME NEW new \in Instance, NEW next \in Busy \ Reading,
                 UpdateInstance(x, new, next),
                 new.uid = o.uid, new.rv = o.rv, new.ver = o.ver, new.del = o.del,
                 next \in Rollout => w.pc \in Rollout
          PROVE  WorkerStep(m)
      <4>1. OthersWait(x) /\ (Ended(x) \/ UpdateAccepted(x, new, next))
        BY <3>1, <3>3, InstanceFacts
      <4>2. UpdateAccepted(x, new, next) => Continued(x)
        BY <3>1, <3>3 DEF UpdateAccepted, Continued, Entitled
      <4> QED BY <2>2, <4>1, <4>2
    <3>4. /\ \A b \in BOOLEAN :
               LET c == [o EXCEPT !.own = b] IN
               c \in Instance /\ c.uid = o.uid /\ c.rv = o.rv /\ c.ver = o.ver /\ c.del = o.del
          /\ \A v \in Nat :
               LET c == [o EXCEPT !.rep = v] IN
               c \in Instance /\ c.uid = o.uid /\ c.rv = o.rv /\ c.ver = o.ver /\ c.del = o.del
          /\ \A v \in Nat :
               LET c == [o EXCEPT !.ann = v] IN
               c \in Instance /\ c.uid = o.uid /\ c.rv = o.rv /\ c.ver = o.ver /\ c.del = o.del
      BY <2>1, Zenon DEF Instance
    <3>5. CASE SaveDeleted(x)
      BY <2>1, <3>2, <3>3, <3>5 DEF SaveDeleted
    <3>6. ASSUME NEW b \in BOOLEAN, NEW next \in Busy \ Reading, next \notin Rollout,
                 UpdateInstance(x, [o EXCEPT !.own = b], next)
          PROVE  WorkerStep(m)
      BY <3>3, <3>4, <3>6
    <3>7. CASE RemoveOwnFinalizer(x) \/ AddFinalizer(x)
      BY <3>2, <3>6, <3>7 DEF RemoveOwnFinalizer, AddFinalizer
    <3>8. CASE UpdateStatus(x)
      <4>1. w.pc = "status" /\ UpdateInstance(x, [o EXCEPT !.rep = o.ver], "annotate")
        BY <3>8 DEF UpdateStatus, StatusOf
      <4> QED BY <2>1, <3>2, <3>3, <3>4, <4>1
    <3>9. CASE UpdateSpecAnnotation(x)
      <4>1. w.pc = "annotate" /\ UpdateInstance(x, [o EXCEPT !.ann = o.ver], "read")
        BY <3>9 DEF UpdateSpecAnnotation
      <4> QED BY <2>1, <3>2, <3>3, <3>4, <4>1
    <3> QED BY <2>6, <3>5, <3>7, <3>8, <3>9
  <2>7. CASE Validate(x) \/ LookupDeployment(x)
    <3>1. {"lookup", "addFin", "annotate", "mkCm"} \subseteq Busy \ Reading
      BY BusyStages DEF Reading
    <3>2. w.pc \in Busy
      BY <2>7, BusyStages DEF Validate, LookupDeployment
    <3>3. \/ ReturnErr(x) \/ Die(x)
          \/ \E s \in {"lookup", "addFin", "annotate", "mkCm"} :
               Goto(x, s) /\ (s \in Rollout => Entitled(x))
      BY <2>7, RolloutStages DEF Validate, LookupDeployment, Entitled
    <3> QED BY <1>0, <2>2, <2>3, <3>1, <3>2, <3>3, EndFacts, GotoFacts
  <2>8. CASE CreateConfigMap(x) \/ CreatePersistentVolumeClaim(x) \/ CreateDeployment(x)
               \/ CreateService(x)
    <3>1. {"mkClaim", "mkDep", "mkSvc", "status"} \subseteq Busy \ Reading
      BY BusyStages DEF Reading
    <3>2. w.pc \in Busy
      BY <2>8, BusyStages DEF CreateConfigMap, CreatePersistentVolumeClaim,
                              CreateDeployment, CreateService
    <3>3. \/ ReturnErr(x) \/ Die(x)
          \/ \E s \in {"mkClaim", "mkDep", "mkSvc", "status"} : Goto(x, s) /\ Entitled(x)
      BY <2>8, RolloutStages
      DEF CreateConfigMap, CreatePersistentVolumeClaim, CreateDeployment,
          CreateService, CreateChild, Entitled
    <3> QED BY <1>0, <2>2, <2>3, <3>1, <3>2, <3>3, EndFacts, GotoFacts
  <2>9. CASE ReadResource(x)
    BY <1>0, <2>2, <2>9, ReadKeeps, ReadResourceFacts
  <2>10. CASE CreateMissing(x) \/ UpdateExisting(x)
    <3>1. w.pc \in Busy /\ w.pc \in Reading /\ Entitled(x)
      BY <2>10, BusyStages, RolloutStages DEF CreateMissing, UpdateExisting, Reading, Entitled
    <3>2. ReturnErr(x) \/ Goto(x, "reput")
      BY <2>10 DEF CreateMissing, UpdateExisting, CreateChild, UpdateChild
    <3>3. CASE ReturnErr(x)
      BY <1>0, <2>2, <3>1, <3>3, EndFacts
    <3>4. CASE Goto(x, "reput")
      <4>1. "reput" \in Busy /\ "reput" \in Stages
        BY BusyStages
      <4>2. OthersWait(x)
        BY <1>0, <3>1, <3>4, <4>1, GotoFacts
      <4>3. Continued(x)
        BY <1>0, <3>1, <3>4, <4>1, GotoKeeps DEF Continued
      <4> QED BY <2>2, <4>2, <4>3
    <3> QED BY <3>2, <3>3, <3>4
  <2>11. CASE RewriteExisting(x)
    <3>1. w.pc \in Busy /\ "read" \in Busy \ Reading /\ Entitled(x)
      BY <2>11, BusyStages, RolloutStages DEF RewriteExisting, Reading, Entitled
    <3>2. ReturnErr(x) \/ NextChild(x, w.tgt)
      BY <2>11 DEF RewriteExisting, UpdateChild
    <3> QED BY <1>0, <2>3, <3>1, <3>2, EndFacts, NextChildFacts
  <2>12. CASE CallFails(x) \/ Crash(x)
    BY <1>0, <2>2, <2>12, EndFacts, BusyStages DEF CallFails, Crash
  <2>13. CASE Restart(x)
    BY <1>0, <2>2, <2>13, QuitType DEF Restart, Ended, OthersWait
  <2>14. ASSUME NEW n \in Names, Begin(x, n) PROVE WorkerStep(m)
    <3>1. /\ work'[x].key = n /\ work'[x].obj = crCache[x][n]
          /\ work'[x].pc \in {"validate", "delClaims", "resave"}
          /\ OthersWait(x)
      BY <1>0, <2>14, BeginType DEF OthersWait
    <3>2. Began(x)
      BY <2>14, <3>1, RolloutStages DEF Began, Begin, Reading, store, caches
    <3> QED BY <2>2, <3>1, <3>2
  <2>15. CASE \/ \E n \in Names : SyncInstance(x, n)
              \/ \E n \in Names, k \in Watched : SyncChild(x, n, k)
    BY <1>1, <2>15 DEF SyncInstance, SyncChild
  <2> QED
    BY <1>2, <2>4, <2>5, <2>6, <2>7, <2>8, <2>9, <2>10, <2>11, <2>12, <2>13, <2>14, <2>15
    DEF Manager, Stage
<1>3. ASSUME NEW n \in Names, User(n) \/ Cluster(n) PROVE WorkerStep(m)
  BY <1>1, <1>3
  DEF User, Cluster, UserCreates, UserEdits, UserDeletes, UserDropsDeployment,
      ReleaseForeign, Drift, CollectDeployment
<1>4. CASE Elsewhere
  BY <1>0, <1>4, ElsewhereFacts DEF Ended
<1> QED BY <1>1, <1>2, <1>3, <1>4 DEF OpenNext, Next, vars

-----------------------------------------------------------------------------
(* RoundInv is inductive.                                                  *)

\* The types of all that is compared.
LEMMA NumberTypes ==
  ASSUME TypeOK
  PROVE  /\ \A n \in Names : /\ cr[n] \in Instance /\ cr[n].uid \in Nat
                             /\ cr[n].ver \in Nat /\ born[n] \in Nat
         /\ \A n \in Names, k \in Keys : /\ kids[n][k] \in Child
                                         /\ kids[n][k].rv \in Nat
                                         /\ kids[n][k].ver \in Nat
         /\ \A m \in Managers, n \in Names : /\ crCache[m][n] \in Instance
                                             /\ crCache[m][n].uid \in Nat
                                             /\ crCache[m][n].ver \in Nat
         /\ \A m \in Managers, n \in Names, k \in Watched :
              kidCache[m][n][k] \in Child /\ kidCache[m][n][k].rv \in Nat
         /\ \A m \in Managers : /\ work[m].obj \in Instance /\ work[m].seen \in Child
                                /\ work[m].obj.uid \in Nat /\ work[m].obj.ver \in Nat
                                /\ work[m].seen.rv \in Nat /\ work[m].tgt \in Watched
<1>1. \A c \in Instance : c.uid \in Nat /\ c.ver \in Nat
  BY DEF Instance
<1>2. \A c \in Child : c.rv \in Nat /\ c.ver \in Nat
  BY DEF Child
<1>3. \A w \in Work : w.obj \in Instance /\ w.seen \in Child /\ w.tgt \in Watched
  BY DEF Work
<1> QED BY <1>1, <1>2, <1>3 DEF TypeOK

\* Who writes a child holds the instance that is there, and its claim.
LEMMA WriterFacts ==
  ASSUME RoundInv, NEW m \in Managers, work[m].pc \in ChildStages
  PROVE  LET o == work[m].obj
             n == work[m].key IN
         /\ n \in Names
         /\ cr[n].uid = o.uid /\ o.uid # 0
         /\ crCache[m][n].uid = o.uid /\ o.ver <= crCache[m][n].ver
<1> DEFINE o == work[m].obj
           n == work[m].key
<1>1. work[m].pc \in Busy
  BY BusyStages DEF ChildStages
<1>2. n \in Names /\ o.own /\ ~o.del /\ CopyOK(o, n)
  BY <1>1 DEF RoundInv, OwnerInv, HandlerInv, TypeInv, KeyOK, WorkersOK, StageOK
<1>3. o.uid # 0
  BY <1>2 DEF CopyOK
<1>4. cr[n].uid = o.uid
  BY <1>1, <1>2 DEF RoundInv, OwnerInv, WorkerOwns, ClaimedBy
<1>5. crCache[m][n].uid = o.uid /\ o.ver <= crCache[m][n].ver
  BY <1>1, <1>3, <1>4 DEF RoundInv, FromCache
<1> QED BY <1>2, <1>3, <1>4, <1>5

\* A written child has the version of the copy in hand, or the one it had.
LEMMA WrittenVersion ==
  ASSUME RoundInv, NEW m \in Managers, NEW n \in Names, NEW k \in Parts,
         WrittenOver(m, n, k)
  PROVE  /\ kids'[n][k].uid = work[m].obj.uid
         /\ \/ kids'[n][k].ver = work[m].obj.ver
            \/ kids[n][k].live /\ kids'[n][k].ver = kids[n][k].ver
<1> DEFINE w == work[m]
<1>1. CASE /\ w.pc = "reput" /\ k = w.tgt /\ kids[n][k].live /\ w.seen.live
           /\ w.seen.rv \in {0, kids[n][k].rv} /\ kids'[n][k].ver = w.seen.ver
  <2>1. ChildCopyOK(w.seen, n, k)
    BY <1>1 DEF RoundInv, SeenOK, Reading, WrittenOver
  <2> QED BY <1>1, <2>1 DEF ChildCopyOK, WrittenOver
<1> QED BY <1>1 DEF WrittenOver

\* Every stored child has a version,
LEMMA StoredOnceKept == RoundInv /\ OneChild => StoredOnce'
<1> SUFFICES ASSUME RoundInv, OneChild, NEW n \in Names, NEW k \in Watched, kids'[n][k].live
             PROVE  kids'[n][k].rv # 0
  BY DEF StoredOnce
<1>1. kids[n][k].rv \in Nat
  BY KeysFacts, NumberTypes DEF RoundInv, OwnerInv, HandlerInv, TypeInv
<1>2. CASE Inert(n, k)
  BY <1>2 DEF Inert, RoundInv, StoredOnce
<1>3. CASE kids'[n][k].rv = kids[n][k].rv + 1
  BY <1>1, <1>3, SMT
<1> QED BY <1>2, <1>3 DEF OneChild, ChildStep, WrittenOver, Annotated, RemovedFrom

\* and a copy of it stays one.
LEMMA ChildCopyKept ==
  ASSUME RoundInv, OneChild, NEW n \in Names, NEW k \in Watched, NEW c \in Child,
         ChildCopyOK(c, n, k)
  PROVE  c.live => /\ c.rv # 0
                   /\ c.rv <= kids'[n][k].rv
                   /\ c.rv = kids'[n][k].rv /\ kids'[n][k].live => c.ver = kids'[n][k].ver
<1>1. kids[n][k].rv \in Nat /\ c.rv \in Nat
  BY KeysFacts, NumberTypes DEF RoundInv, OwnerInv, HandlerInv, TypeInv, Child
<1>2. CASE Inert(n, k)
  BY <1>2 DEF Inert, ChildCopyOK
<1>3. CASE kids'[n][k].rv = kids[n][k].rv + 1
  BY <1>1, <1>3, SMT DEF ChildCopyOK
<1>4. CASE RemovedFrom(n, k)
  BY <1>4 DEF RemovedFrom, ChildCopyOK
<1> QED BY <1>2, <1>3, <1>4 DEF OneChild, ChildStep, WrittenOver, Annotated

\* Hence all the copies the caches hold stay copies.
LEMMA ChildCopiesKept ==
  ASSUME RoundInv, OneChild, \A m \in Managers : CacheStep(m)
  PROVE  ChildCopies'
<1> SUFFICES ASSUME NEW m \in Managers, NEW n \in Names, NEW k \in Watched
             PROVE  ChildCopyOK(kidCache[m][n][k], n, k)'
  BY DEF ChildCopies
<1>1. /\ k \in Keys /\ kids[n][k] \in Child /\ kidCache[m][n][k] \in Child
      /\ kids[n][k].rv \in Nat
  BY KeysFacts, NumberTypes DEF RoundInv, OwnerInv, HandlerInv, TypeInv
<1>2. ChildCopyOK(kids[n][k], n, k)
  BY <1>1, SMT DEF ChildCopyOK, RoundInv, StoredOnce
<1>3. ChildCopyOK(kidCache[m][n][k], n, k)
  BY DEF RoundInv, ChildCopies
<1>4. kidCache'[m][n][k] \in {kidCache[m][n][k], kids[n][k]}
  BY DEF CacheStep
<1> QED BY <1>1, <1>2, <1>3, <1>4, ChildCopyKept DEF ChildCopyOK

\* The cache of instances stays behind the store,
LEMMA CacheBehindKept ==
  ASSUME RoundInv, \A n \in Names : Advances(n), \A m \in Managers : CacheStep(m), TypeOK'
  PROVE  CacheBehind'
<1> SUFFICES ASSUME NEW m \in Managers, NEW n \in Names,
                    crCache'[m][n].uid # 0, crCache'[m][n].uid = cr'[n].uid
             PROVE  crCache'[m][n].ver <= cr'[n].ver
  BY DEF CacheBehind
<1>1. /\ cr[n].ver \in Nat /\ cr[n].uid \in Nat /\ born[n] \in Nat
      /\ crCache[m][n].uid \in Nat /\ crCache[m][n].ver \in Nat
  BY NumberTypes DEF RoundInv, OwnerInv, HandlerInv, TypeInv
<1>2. cr'[n].ver \in Nat
  BY DEF TypeOK, Instance
<1>3. crCache'[m][n] \in {crCache[m][n], cr[n]}
  BY DEF CacheStep
<1>4. crCache[m][n].uid <= born[n] /\ cr[n].uid <= born[n]
  BY FreshCopy DEF RoundInv, OwnerInv, HandlerInv, CachesOK, CopyOK
<1>5. cr'[n].uid = cr[n].uid /\ cr'[n].ver >= cr[n].ver
  <2>1. ~Gone(n)
    BY DEF Gone, NoInstance
  <2>2. ~Appears(n)
    BY <1>1, <1>3, <1>4, SMT DEF Appears
  <2>3. Advances(n)
    OBVIOUS
  <2> QED BY <1>1, <2>1, <2>2, <2>3, SMT DEF Advances, Touched
<1>6. CASE crCache'[m][n] = crCache[m][n]
  <2>1. crCache[m][n].ver <= cr[n].ver
    BY <1>5, <1>6 DEF RoundInv, CacheBehind
  <2> QED BY <1>1, <1>2, <1>5, <1>6, <2>1, SMT
<1>7. CASE crCache'[m][n] = cr[n]
  BY <1>1, <1>2, <1>5, <1>7, SMT
<1> QED BY <1>3, <1>6, <1>7

\* and ahead of the deployed spec: a handler writes what it has from it.
LEMMA CacheLeadsKept ==
  ASSUME SoleManager, RoundInv, OneChild, \A m \in Managers : CacheStep(m)
  PROVE  CacheLeads'
<1> SUFFICES ASSUME NEW m \in Managers, NEW n \in Names, NEW k \in Parts, kids'[n][k].live
             PROVE  /\ crCache'[m][n].uid = kids'[n][k].uid
                    /\ kids'[n][k].ver <= crCache'[m][n].ver
  BY DEF CacheLeads
<1> DEFINE c == crCache[m][n]
<1>1. k \in Watched /\ k \in Keys
  BY PartsFacts
<1>2. /\ cr[n].ver \in Nat /\ kids[n][k].ver \in Nat /\ c.ver \in Nat
      /\ \A x \in Managers : work[x].obj.ver \in Nat
  BY <1>1, NumberTypes DEF RoundInv, OwnerInv, HandlerInv, TypeInv
<1>3. c.uid # 0 /\ c.uid = cr[n].uid => c.ver <= cr[n].ver
  BY DEF RoundInv, CacheBehind
<1>4. ASSUME c.uid = kids'[n][k].uid, kids'[n][k].ver \in Nat, kids'[n][k].ver <= c.ver,
             cr[n].uid = c.uid, c.uid # 0
      PROVE  /\ crCache'[m][n].uid = kids'[n][k].uid
             /\ kids'[n][k].ver <= crCache'[m][n].ver
  <2>1. crCache'[m][n] \in {c, cr[n]}
    BY DEF CacheStep
  <2>2. kids'[n][k].ver <= cr[n].ver
    BY <1>2, <1>3, <1>4, SMT
  <2> QED BY <1>4, <2>1, <2>2
<1>5. CASE kids[n][k].live
  <2>1. /\ c.uid = kids[n][k].uid /\ kids[n][k].ver <= c.ver
        /\ cr[n].uid = kids[n][k].uid /\ cr[n].own
    BY <1>5 DEF RoundInv, CacheLeads, OwnerInv, NoOrphanedWorkload, Parts
  <2>2. c.uid # 0
    BY <2>1, AbsentFacts DEF RoundInv, OwnerInv
  <2>3. CASE kids'[n][k].uid = kids[n][k].uid /\ kids'[n][k].ver = kids[n][k].ver
    BY <1>2, <1>4, <2>1, <2>2, <2>3
  <2>4. ASSUME NEW x \in Managers, WrittenOver(x, n, k)
        PROVE  /\ crCache'[m][n].uid = kids'[n][k].uid
               /\ kids'[n][k].ver <= crCache'[m][n].ver
    <3>1. x = m
      BY DEF SoleManager
    <3>2. /\ n = work[m].key /\ c.uid = work[m].obj.uid /\ work[m].obj.ver <= c.ver
      BY <2>4, <3>1, WriterFacts, RolloutStages DEF WrittenOver
    <3>3. /\ kids'[n][k].uid = work[m].obj.uid
          /\ kids'[n][k].ver \in {work[m].obj.ver, kids[n][k].ver}
      BY <2>4, <3>1, WrittenVersion
    <3> QED BY <1>2, <1>4, <2>1, <2>2, <3>2, <3>3
  <2> QED BY <1>1, <2>3, <2>4 DEF OneChild, ChildStep, Inert, Annotated, RemovedFrom
<1>6. CASE ~kids[n][k].live
  <2>1. PICK x \in Managers : WrittenOver(x, n, k)
    BY <1>1, <1>6 DEF OneChild, ChildStep, Inert, Annotated, RemovedFrom
  <2>2. x = m
    BY DEF SoleManager
  <2>3. /\ n = work[m].key /\ cr[n].uid = work[m].obj.uid /\ work[m].obj.uid # 0
        /\ c.uid = work[m].obj.uid /\ work[m].obj.ver <= c.ver
    BY <2>1, <2>2, WriterFacts, RolloutStages DEF WrittenOver
  <2>4. kids'[n][k].uid = work[m].obj.uid /\ kids'[n][k].ver = work[m].obj.ver
    BY <1>6, <2>1, <2>2, WrittenVersion
  <2> QED BY <1>2, <1>4, <2>3, <2>4
<1> QED BY <1>5, <1>6

\* The round: the cache keeps sight of its instance,
LEMMA FromCacheKept ==
  ASSUME RoundInv, \A n \in Names : Advances(n), NEW m \in Managers, CacheStep(m),
         WorkerStep(m), TypeInv'
  PROVE  FromCache(m)'
<1> DEFINE o == work[m].obj
           n == work[m].key
           c == crCache[m][n]
<1>1. CASE Ended(m)
  BY <1>1, BusyStages DEF Ended, FromCache
<1>2. CASE Began(m)
  <2>1. work'[m].obj.ver \in Nat
    BY DEF TypeInv, TypeOK, Work, Instance
  <2> QED BY <1>2, <2>1, SMT DEF Began, FromCache
<1>3. CASE \/ work'[m] = work[m] /\ work[m].pc \in Busy
           \/ Continued(m)
  <2> SUFFICES ASSUME o.uid # 0, o.uid = cr'[n].uid
               PROVE  crCache'[m][n].uid = o.uid /\ o.ver <= crCache'[m][n].ver
    BY <1>3 DEF FromCache, Continued
  <2>1. n \in Names /\ work[m].pc \in Busy
    BY <1>3 DEF Continued, RoundInv, OwnerInv, HandlerInv, TypeInv, KeyOK
  <2>2. /\ o.uid \in Nat /\ o.ver \in Nat /\ born[n] \in Nat /\ cr[n].ver \in Nat
        /\ c.ver \in Nat
    BY <2>1, NumberTypes DEF RoundInv, OwnerInv, HandlerInv, TypeInv
  <2>3. o.uid <= born[n]
    BY <2>1 DEF RoundInv, OwnerInv, HandlerInv, WorkersOK, CopyOK
  <2>4. cr[n].uid = o.uid
    <3>1. Advances(n)
      BY <2>1
    <3>2. ~Gone(n)
      BY DEF Gone, NoInstance
    <3>3. ~Appears(n)
      BY <2>2, <2>3, SMT DEF Appears
    <3> QED BY <3>1, <3>2, <3>3 DEF Advances, Touched
  <2>5. c.uid = o.uid /\ o.ver <= c.ver
    BY <2>1, <2>4 DEF RoundInv, FromCache
  <2>6. c.ver <= cr[n].ver
    BY <2>1, <2>4, <2>5 DEF RoundInv, CacheBehind
  <2>7. o.ver <= cr[n].ver
    BY <2>2, <2>5, <2>6, SMT
  <2> QED BY <2>1, <2>4, <2>5, <2>7 DEF CacheStep
<1>4. CASE work'[m] = work[m] /\ work[m].pc \notin Busy
  BY <1>4 DEF FromCache
<1> QED BY <1>1, <1>2, <1>3, <1>4 DEF WorkerStep

\* what is deployed stays its own,
LEMMA OwnRoundKept ==
  ASSUME SoleManager, RoundInv, OneChild, NEW m \in Managers, WorkerStep(m), TypeInv'
  PROVE  OwnRound(m)'
<1> DEFINE o == work[m].obj
<1>1. CASE Ended(m)
  BY <1>1, BusyStages DEF Ended, OwnRound
<1>2. CASE Began(m)
  BY <1>2 DEF Began, OwnRound, RoundInv, CacheLeads
<1>3. CASE \/ work'[m] = work[m] /\ work[m].pc \in Busy
           \/ Continued(m)
  <2> DEFINE n == work[m].key
  <2> SUFFICES ASSUME NEW k \in Parts, kids'[n][k].live
               PROVE  kids'[n][k].uid = o.uid /\ kids'[n][k].ver <= o.ver
    BY <1>3 DEF OwnRound, Continued
  <2>1. n \in Names /\ k \in Watched /\ k \in Keys /\ work[m].pc \in Busy /\ o.ver \in Nat
    BY <1>3, PartsFacts, NumberTypes
    DEF Continued, RoundInv, OwnerInv, HandlerInv, TypeInv, KeyOK
  <2>2. kids[n][k].live => kids[n][k].uid = o.uid /\ kids[n][k].ver <= o.ver
    BY <2>1 DEF RoundInv, OwnRound
  <2>3. ASSUME NEW x \in Managers, WrittenOver(x, n, k)
        PROVE  kids'[n][k].uid = o.uid /\ kids'[n][k].ver <= o.ver
    <3>1. x = m
      BY DEF SoleManager
    <3>2. /\ kids'[n][k].uid = o.uid
          /\ \/ kids'[n][k].ver = o.ver
             \/ kids[n][k].live /\ kids'[n][k].ver = kids[n][k].ver
      BY <2>1, <2>3, <3>1, WrittenVersion
    <3>3. o.ver <= o.ver
      BY <2>1, SMT
    <3> QED BY <2>2, <3>2, <3>3
  <2> QED BY <2>1, <2>2, <2>3 DEF OneChild, ChildStep, Inert, Annotated, RemovedFrom
<1>4. CASE work'[m] = work[m] /\ work[m].pc \notin Busy
  BY <1>4 DEF OwnRound
<1> QED BY <1>1, <1>2, <1>3, <1>4 DEF WorkerStep

\* and the copy of a child it holds stays a copy.
LEMMA SeenKept ==
  ASSUME RoundInv, OneChild, NEW m \in Managers, WorkerStep(m)
  PROVE  SeenOK(m)'
<1> DEFINE n == work[m].key
           k == work[m].tgt
<1> SUFFICES ASSUME work'[m].pc \in Reading
             PROVE  ChildCopyOK(work[m].seen, work[m].key, work[m].tgt)'
  BY DEF SeenOK
<1>1. ~Ended(m) /\ ~Began(m)
  BY DEF Ended, Began, Reading
<1>2. /\ work[m].pc \in Busy /\ work'[m].key = n /\ work'[m].tgt = k
      /\ \/ work[m].pc \in Reading /\ work'[m].seen = work[m].seen
         \/ work'[m].seen = kidCache[m][n][k]
  BY <1>1, BusyStages DEF WorkerStep, Continued, Reading
<1>3. n \in Names /\ k \in Watched /\ k \in Keys /\ work[m].seen \in Child
  BY <1>2, KeysFacts, NumberTypes DEF RoundInv, OwnerInv, HandlerInv, TypeInv, KeyOK
<1>4. kidCache[m][n][k] \in Child
  BY <1>3, NumberTypes DEF RoundInv, OwnerInv, HandlerInv, TypeInv
<1>5. ChildCopyOK(work'[m].seen, n, k) /\ work'[m].seen \in Child
  BY <1>2, <1>3, <1>4 DEF RoundInv, SeenOK, ChildCopies
<1> DEFINE c == work'[m].seen
<1>6. c.live => /\ c.rv # 0
                /\ c.rv <= kids'[n][k].rv
                /\ c.rv = kids'[n][k].rv /\ kids'[n][k].live => c.ver = kids'[n][k].ver
  <2>1. c \in Child /\ ChildCopyOK(c, n, k)
    BY <1>5
  <2> HIDE DEF c
  <2> QED BY <1>3, <2>1, ChildCopyKept
<1> QED BY <1>2, <1>6 DEF ChildCopyOK

\* Every step keeps RoundInv,
LEMMA RoundStep ==
  ASSUME SoleManager
  PROVE  RoundInv /\ [OpenNext]_vars => RoundInv'
<1> SUFFICES ASSUME RoundInv, [OpenNext]_vars PROVE RoundInv'
  OBVIOUS
<1>1. OwnerInv /\ HandlerInv /\ TypeInv
  BY DEF RoundInv, OwnerInv, HandlerInv
<1>2. OwnerInv' /\ TypeInv' /\ TypeOK'
  BY <1>1, OwnerStep, TypeStep DEF TypeInv
<1>3. OneChild /\ \A n \in Names : Advances(n)
  BY <1>1, ChildSteps, InstanceAdvances
<1>4. \A m \in Managers : CacheStep(m) /\ WorkerStep(m)
  BY <1>1, CacheSteps, WorkerSteps
<1>5. StoredOnce' /\ ChildCopies' /\ CacheBehind' /\ CacheLeads'
  BY <1>2, <1>3, <1>4, StoredOnceKept, ChildCopiesKept, CacheBehindKept, CacheLeadsKept
<1>6. \A m \in Managers : FromCache(m)' /\ OwnRound(m)' /\ SeenOK(m)'
  BY <1>2, <1>3, <1>4, FromCacheKept, OwnRoundKept, SeenKept
<1> QED BY <1>2, <1>5, <1>6 DEF RoundInv

\* and the first state satisfies it.
LEMMA RoundInit == Init => RoundInv
<1> SUFFICES ASSUME Init PROVE RoundInv
  OBVIOUS
<1>1. /\ \A n \in Names, k \in Keys : ~kids[n][k].live
      /\ \A m \in Managers, n \in Names : crCache[m][n].uid = 0
      /\ \A m \in Managers, n \in Names, k \in Watched : ~kidCache[m][n][k].live
      /\ \A m \in Managers : work[m].pc = "down"
  BY DEF Init, NoChild, NoInstance, Rest
<1>2. \A m \in Managers : FromCache(m) /\ OwnRound(m) /\ SeenOK(m)
  BY <1>1, BusyStages DEF FromCache, OwnRound, SeenOK, Reading
<1>3. StoredOnce /\ CacheBehind /\ ChildCopies
  BY <1>1, KeysFacts DEF StoredOnce, CacheBehind, ChildCopies, ChildCopyOK
<1>4. CacheLeads
  BY <1>1, PartsFacts DEF CacheLeads
<1> QED BY <1>2, <1>3, <1>4, OwnerInit DEF RoundInv

-----------------------------------------------------------------------------
(* The theorems.                                                           *)

\* With one operator process the finalizer, which deletes by name and without
\* a version, never takes the Deployment of a later incarnation of the name,
\* nor that of an instance that is not being deleted.
LEMMA LiveWorkloadAmongOthers ==
  ASSUME SoleManager
  PROVE  OpenSpec => LiveWorkloadKept
<1> DEFINE P == \A n \in Names :
                  LET d == kids[n][DeploymentKey] IN
                  d.live /\ ~kids'[n][DeploymentKey].live =>
                    \/ budget'.drops < budget.drops
                    \/ cr[n].uid # d.uid
                    \/ cr[n].del
<1>1. ASSUME RoundInv, [OpenNext]_vars PROVE P
  <2> SUFFICES ASSUME NEW n \in Names, kids[n][DeploymentKey].live,
                      ~kids'[n][DeploymentKey].live,
                      cr[n].uid = kids[n][DeploymentKey].uid
               PROVE  budget'.drops < budget.drops \/ cr[n].del
    OBVIOUS
  <2>1. OneChild /\ HandlerInv
    BY <1>1, ChildSteps DEF RoundInv, OwnerInv, HandlerInv
  <2>2. DeploymentKey \in Watched /\ DeploymentKey \in Keys /\ DeploymentKey \in Parts
    BY PartsFacts DEF Parts
  <2>3. RemovedFrom(n, DeploymentKey)
    BY <2>1, <2>2 DEF OneChild, ChildStep, Inert, WrittenOver, Annotated
  <2>4. ASSUME NEW m \in Managers, work[m].key = n, work[m].pc \in DeletionStages
        PROVE  cr[n].del
    <3>1. work[m].pc \in Busy
      BY <2>4, BusyStages DEF DeletionStages
    <3>2. work[m].obj.uid = cr[n].uid
      BY <1>1, <2>2, <2>4, <3>1 DEF RoundInv, OwnRound
    <3>3. work[m].obj.own /\ work[m].obj.del /\ CopyOK(work[m].obj, n)
      BY <2>1, <2>4, <3>1 DEF HandlerInv, WorkersOK, StageOK
    <3> QED BY <3>2, <3>3 DEF CopyOK
  <2> QED BY <2>3, <2>4 DEF RemovedFrom
<1>2. OpenSpec => []RoundInv
  BY RoundInit, RoundStep, PTL DEF OpenSpec
<1>3. RoundInv /\ [OpenNext]_vars => [P]_vars
  BY <1>1
<1>4. OpenSpec => [][P]_vars
  BY <1>2, <1>3, PTL DEF OpenSpec
<1> QED BY <1>4 DEF LiveWorkloadKept

\* The same of the controller alone.
THEOREM LiveWorkloadIsKept ==
  ASSUME SoleManager
  PROVE  Spec => LiveWorkloadKept
  BY LiveWorkloadAmongOthers, SpecIsOpen, PTL

\* With one operator process a Deployment never goes back to an older spec of
\* its instance: of the two updates of updateResource, the second is refused
\* unless the first has changed nothing.
LEMMA RolloutAmongOthers ==
  ASSUME SoleManager
  PROVE  OpenSpec => MonotoneRollout
<1> DEFINE P == \A n \in Names :
                  LET old == kids[n][DeploymentKey]
                      new == kids'[n][DeploymentKey] IN
                  old.live /\ new.live /\ old.uid = new.uid => new.ver >= old.ver
<1>1. ASSUME RoundInv, [OpenNext]_vars PROVE P
  <2> DEFINE k == DeploymentKey
  <2> SUFFICES ASSUME NEW n \in Names, kids[n][k].live, kids'[n][k].live
               PROVE  kids'[n][k].ver >= kids[n][k].ver
    OBVIOUS
  <2>1. OneChild /\ TypeOK
    BY <1>1, ChildSteps DEF RoundInv, OwnerInv, HandlerInv, TypeInv
  <2>2. k \in Watched /\ k \in Keys /\ k \in Parts
    BY PartsFacts DEF Parts
  <2>3. kids[n][k].ver \in Nat
    BY <2>1, <2>2, NumberTypes
  <2>4. CASE kids'[n][k].ver = kids[n][k].ver
    BY <2>3, <2>4, SMT
  <2>5. ASSUME NEW m \in Managers, WrittenOver(m, n, k), kids'[n][k].ver = work[m].obj.ver
        PROVE  kids'[n][k].ver >= kids[n][k].ver
    <3>1. work[m].pc \in Busy /\ n = work[m].key /\ work[m].obj.ver \in Nat
      BY <2>1, <2>5, BusyStages, NumberTypes, RolloutStages DEF WrittenOver
    <3>2. kids[n][k].ver <= work[m].obj.ver
      BY <1>1, <2>2, <3>1 DEF RoundInv, OwnRound
    <3> QED BY <2>3, <2>5, <3>1, <3>2, SMT
  <2>6. ASSUME NEW m \in Managers, WrittenOver(m, n, k)
        PROVE  kids'[n][k].ver >= kids[n][k].ver
    BY <1>1, <2>2, <2>4, <2>5, <2>6, WrittenVersion
  <2> QED
    BY <2>1, <2>2, <2>4, <2>6 DEF OneChild, ChildStep, Inert, Annotated, RemovedFrom
<1>2. OpenSpec => []RoundInv
  BY RoundInit, RoundStep, PTL DEF OpenSpec
<1>3. RoundInv /\ [OpenNext]_vars => [P]_vars
  BY <1>1
<1>4. OpenSpec => [][P]_vars
  BY <1>2, <1>3, PTL DEF OpenSpec
<1> QED BY <1>4 DEF MonotoneRollout

\* The same of the controller alone.
THEOREM RolloutIsMonotone ==
  ASSUME SoleManager
  PROVE  Spec => MonotoneRollout
  BY RolloutAmongOthers, SpecIsOpen, PTL

\* With one operator process all this holds of the controller also where the
\* other one runs in its process, may take it down, and handles claims of the
\* names it finalizes.
THEOREM OwnsAmongOthers ==
  ASSUME SoleManager
  PROVE  OpenSpec => /\ []NoOrphanedWorkload
                     /\ ImplementsLifecycle
                     /\ LiveWorkloadKept
                     /\ MonotoneRollout
  BY OwnersAmongOthers, LifecycleAmongOthers, LiveWorkloadAmongOthers,
     RolloutAmongOthers, PTL

-----------------------------------------------------------------------------
(* A round that has ended behind its ConfigMap.                            *)

\* The ConfigMap of n is there and its Deployment is not, nor does any cache
\* show one, and no worker is past the creation of the ConfigMap: the round that
\* made it has failed, or it is that of an earlier instance.
Stranded(n) ==
  /\ kids[n][ConfigMapKey].live
  /\ ~kids[n][DeploymentKey].live
  /\ \A m \in Managers :
       /\ ~kidCache[m][n][DeploymentKey].live
       /\ work[m].key = n => work[m].pc \notin Rollout

\* So it stays.
StrandedForGood == [][\A n \in Names : Stranded(n) => Stranded(n)']_vars

\* Whatever users, handlers and others do, of any number of managers, an
\* instance that has come to this never gets its Deployment, nor does any later
\* instance of the name: the ConfigMap's creation is refused in every round, and
\* nothing removes it.
THEOREM StrandedStays == OpenSpec => StrandedForGood
<1>1. ASSUME HandlerInv, [OpenNext]_vars, NEW n \in Names, Stranded(n)
      PROVE  Stranded(n)'
  <2>1. /\ TypeInv /\ OneChild
        /\ \A m \in Managers : CacheStep(m) /\ WorkerStep(m)
    BY <1>1, ChildSteps, CacheSteps, WorkerSteps DEF HandlerInv
  <2>2. kids'[n][ConfigMapKey].live
    BY <1>1, <2>1, NeitherIsTaken DEF Stranded
  <2>3. DeploymentKey \in Watched /\ DeploymentKey # ConfigMapKey
    BY KeysFacts DEF DeploymentKey, ConfigMapKey
  <2>4. ~kids'[n][DeploymentKey].live
    BY <1>1, <2>1, <2>3
    DEF Stranded, OneChild, ChildStep, Inert, WrittenOver, Annotated, RemovedFrom
  <2>5. ASSUME NEW m \in Managers
        PROVE  /\ ~kidCache'[m][n][DeploymentKey].live
               /\ work'[m].key = n => work'[m].pc \notin Rollout
    <3>1. ~kidCache'[m][n][DeploymentKey].live
      BY <1>1, <2>1, <2>3 DEF CacheStep, Stranded
    <3>2. work'[m].key = n => work'[m].pc \notin Rollout
      BY <1>1, <2>1, RolloutStages
      DEF Stranded, WorkerStep, Ended, Began, Continued, Entitled
    <3> QED BY <3>1, <3>2
  <2> QED BY <2>2, <2>4, <2>5 DEF Stranded
<1> DEFINE P == \A n \in Names : Stranded(n) => Stranded(n)'
<1>2. HandlerInv /\ [OpenNext]_vars => P
  BY <1>1
<1>3. OpenSpec => [][P]_vars
  BY <1>2, HandlerInit, HandlerStep, PTL DEF OpenSpec
<1> QED BY <1>3 DEF StrandedForGood
=============================================================================
