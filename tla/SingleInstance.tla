--------------------------- MODULE SingleInstance ---------------------------
(***************************************************************************)
(* The SingleInstance controller of the operator, with the Kubernetes API  *)
(* server, the watch caches, the work queue and the users it lives among.  *)
(*                                                                         *)
(* One reconcile call is a sequence of stages; every stage holds at most   *)
(* one API call, so that anything may happen between two calls.  What the  *)
(* handler carries from call to call (the SingleInstance it read, the      *)
(* child object it is about to overwrite) is kept in work[m].              *)
(*                                                                         *)
(* An object's content is reduced to what decides the handler's course:    *)
(* its identity (uid), its resourceVersion (rv), the version of the spec   *)
(* it carries (ver), finalizers and the deletion mark.                     *)
(*                                                                         *)
(* An operator whose name says so, and whose comment begins with "Variant",*)
(* is the definition that follows it with a bug: what the properties must  *)
(* tell from the code.                                                     *)
(***************************************************************************)
EXTENDS Integers

CONSTANTS
  Managers,        \* operator processes (two when leader election is off)
  Names,           \* names of SingleInstance resources in one namespace
  NoName,          \* the key of an idle worker
  Shapes,          \* the shapes of spec the users submit
  BornWithOwn,     \* whether a submitted manifest carries the finalizer
  ForeignHold,     \* whether a delete leaves a finalizer of someone else
  Replicas,        \* spec.size
  Forbidden,       \* kinds the operator's role may not write
  Rejected,        \* kinds whose manifest the API server finds invalid
  MaxBorn,         \* bound: incarnations of one name
  MaxVer,          \* bound: spec versions of one incarnation
  MaxFaults,       \* bound: API calls that fail
  MaxCrashes,      \* bound: crashes of operator processes
  MaxDrifts,       \* bound: writes of other controllers to the children
  MaxDrops         \* bound: Deployments deleted by users

\* "ok" passes validation; "nosize" has no size; "noclass" a claim template
\* without storageClassName; "notemplate" no claim template at all;
\* "nocontainer" an empty list of containers.
AllShapes == {"ok", "nosize", "noclass", "notemplate", "nocontainer"}

ASSUME ConstantsAssumption ==
  /\ NoName \notin Names
  /\ Shapes \subseteq AllShapes
  /\ BornWithOwn \subseteq BOOLEAN
  /\ ForeignHold \subseteq BOOLEAN
  /\ Replicas \in Nat \ {0}
  /\ {MaxBorn, MaxVer, MaxFaults, MaxCrashes, MaxDrifts, MaxDrops} \subseteq Nat

-----------------------------------------------------------------------------
(* The objects of one name: kind, what the name of the object adds to the  *)
(* name of the SingleInstance, and an ordinal.                             *)

ConfigMapKey  == <<"ConfigMap", "-config", 0>>
ClaimKey      == <<"PersistentVolumeClaim", "db", 0>>
DeploymentKey == <<"Deployment", "", 0>>
ServiceKey    == <<"Service", "", 0>>

\* The names the finalizer asks the API server to delete.
FinalizedClaim(i)  == <<"PersistentVolumeClaim", "-db-", i>>
FinalizedConfigMap == <<"ConfigMap", "config", 0>>

Watched == {DeploymentKey, ServiceKey, ConfigMapKey}
Keys    == Watched \cup {ClaimKey, FinalizedConfigMap}
             \cup {FinalizedClaim(i) : i \in 0 .. Replicas}

\* A SingleInstance: own and foreign are the operator's finalizer and any
\* other, ann the spec version in annotation "spec", rep the one in status.
Instance == [uid: Nat, rv: Nat, ver: Nat, shape: AllShapes, own: BOOLEAN,
             foreign: BOOLEAN, del: BOOLEAN, ann: Nat, rep: Nat]

\* No object; also the zero struct a handler works on after a NotFound.
NoInstance == [uid |-> 0, rv |-> 0, ver |-> 0, shape |-> "nosize",
               own |-> FALSE, foreign |-> FALSE, del |-> FALSE,
               ann |-> 0, rep |-> 0]

\* A child object: uid is the owner reference (0: none), drift says that
\* another controller has annotated it since the operator wrote it.
Child == [live: BOOLEAN, rv: Nat, uid: Nat, ver: Nat, drift: BOOLEAN]

NoChild == [live |-> FALSE, rv |-> 0, uid |-> 0, ver |-> 0, drift |-> FALSE]

Stages == {"down", "idle", "delClaims", "delDep", "delSvc", "delCm", "unfin",
           "resave", "validate", "addFin", "lookup", "mkCm", "mkClaim",
           "mkDep", "mkSvc", "status", "annotate", "read", "make", "put",
           "reput"}

\* The stages in which an API call may fail, and the handler gives up.
CallStages == Stages \ {"down", "idle", "validate", "lookup"}

\* Where createResources may create something, or the update half may.
ChildStages == {"lookup", "mkCm", "mkClaim", "mkDep", "mkSvc", "status",
                "annotate", "read", "make", "put", "reput"}

Work == [pc: Stages, key: Names \cup {NoName}, obj: Instance, seen: Child,
         tgt: Watched, at: Nat]

Rest(stage) == [pc |-> stage, key |-> NoName, obj |-> NoInstance,
                seen |-> NoChild, tgt |-> DeploymentKey, at |-> 0]

VARIABLES
  cr,        \* API server: the SingleInstance of each name
  kids,      \* API server: the children of each name
  born,      \* how many incarnations each name has had
  crCache,   \* each manager's watch cache of SingleInstances
  kidCache,  \* each manager's watch caches of Deployments, Services, ...
  queue,     \* each manager's work queue
  work,      \* each manager's single worker
  budget     \* what is left of the bounded disturbances

vars  == <<cr, kids, born, crCache, kidCache, queue, work, budget>>
store == <<cr, kids, born>>
caches == <<crCache, kidCache>>

TypeOK ==
  /\ cr \in [Names -> Instance]
  /\ kids \in [Names -> [Keys -> Child]]
  /\ born \in [Names -> Nat]
  /\ crCache \in [Managers -> [Names -> Instance]]
  /\ kidCache \in [Managers -> [Names -> [Watched -> Child]]]
  /\ queue \in [Managers -> SUBSET Names]
  /\ work \in [Managers -> Work]
  /\ budget \in [faults: Nat, crashes: Nat, drifts: Nat, drops: Nat]

Init ==
  /\ cr = [n \in Names |-> NoInstance]
  /\ kids = [n \in Names |-> [k \in Keys |-> NoChild]]
  /\ born = [n \in Names |-> 0]
  /\ crCache = [m \in Managers |-> [n \in Names |-> NoInstance]]
  /\ kidCache = [m \in Managers |-> [n \in Names |-> [k \in Watched |-> NoChild]]]
  /\ queue = [m \in Managers |-> {}]
  /\ work = [m \in Managers |-> Rest("down")]
  /\ budget = [faults |-> MaxFaults, crashes |-> MaxCrashes,
               drifts |-> MaxDrifts, drops |-> MaxDrops]

-----------------------------------------------------------------------------
(* What the API server does with a write.                                  *)

\* An update is accepted when it was computed from the stored object and
\* adds no finalizer to an object that is being deleted.
Accepts(n, new) ==
  /\ cr[n].uid # 0
  /\ new.uid = cr[n].uid
  /\ new.rv = cr[n].rv
  /\ ~(cr[n].del /\ new.own /\ ~cr[n].own)

\* A write that changes nothing leaves the resourceVersion alone.
Stored(old, new) == IF new = old THEN old ELSE [new EXCEPT !.rv = old.rv + 1]

\* An object marked for deletion goes with its last finalizer.
Settled(c) == IF c.del /\ ~c.own /\ ~c.foreign THEN NoInstance ELSE c

Removed(c) ==
  [live |-> FALSE, rv |-> c.rv, uid |-> 0, ver |-> 0, drift |-> FALSE]

\* The manifests the handler builds from the instance it holds.  Deployment
\* and Service refer to their owner; the text of the ConfigMap is rendered
\* from constants; a Deployment takes the first container of the spec.
NewContainersPanics(o) == o.shape = "nocontainer"

NewDeployment(o) == [uid |-> o.uid, ver |-> o.ver]

NewService(o) == [uid |-> o.uid, ver |-> o.ver]

MySQLConfigString == 0

NewConfigMap == [uid |-> 0, ver |-> MySQLConfigString]

NewPersistentVolumeClaim(o) == [uid |-> 0, ver |-> o.ver]

Desired(o, k) ==
  IF k = DeploymentKey THEN NewDeployment(o)
  ELSE IF k = ServiceKey THEN NewService(o)
  ELSE IF k = ConfigMapKey THEN NewConfigMap
  ELSE NewPersistentVolumeClaim(o)

Written(rv, uid, ver) ==
  [live |-> TRUE, rv |-> rv, uid |-> uid, ver |-> ver, drift |-> FALSE]

-----------------------------------------------------------------------------
(* How a stage ends.                                                       *)

Move(m, w) == work' = [work EXCEPT ![m] = w]

\* The worker in another stage, holding another copy of the instance.
Holding(w, stage, o) == [w EXCEPT !.pc = stage, !.obj = o]

Goto(m, stage) == Move(m, [work[m] EXCEPT !.pc = stage])

\* Variant: the error is swallowed, and nothing tries again.
ReturnErrSwallowed(m) ==
  /\ Move(m, Rest("idle"))
  /\ UNCHANGED queue

\* The handler returns; an error puts its request back into the queue.
ReturnErr(m) ==
  /\ Move(m, Rest("idle"))
  /\ queue' = [queue EXCEPT ![m] = @ \cup {work[m].key}]

\* Variant: a successful handler asks for another round.
ReturnOkRequeued(m) ==
  /\ Move(m, Rest("idle"))
  /\ queue' = [queue EXCEPT ![m] = @ \cup {work[m].key}]

ReturnOk(m) ==
  /\ Move(m, Rest("idle"))
  /\ UNCHANGED queue

\* The process dies, with its queue and everything its worker held.
Die(m) ==
  /\ Move(m, Rest("down"))
  /\ queue' = [queue EXCEPT ![m] = {}]

\* Variant: the resourceVersion is cleared first, so that the write wins.
UpdateInstanceForced(m, new, next) ==
  LET n == work[m].key
      c == Stored(cr[n], new) IN
  \/ /\ new.uid = cr[n].uid /\ cr[n].uid # 0
     /\ cr' = [cr EXCEPT ![n] = Settled(c)]
     /\ Move(m, Holding(work[m], next, c))
     /\ UNCHANGED queue
  \/ /\ new.uid # cr[n].uid \/ cr[n].uid = 0
     /\ ReturnErr(m)
     /\ UNCHANGED cr

\* Client.Update of the SingleInstance; the answer replaces the handler's
\* copy.
UpdateInstance(m, new, next) ==
  LET n == work[m].key
      c == Stored(cr[n], new) IN
  \/ /\ Accepts(n, new)
     /\ cr' = [cr EXCEPT ![n] = Settled(c)]
     /\ Move(m, Holding(work[m], next, c))
     /\ UNCHANGED queue
  \/ /\ ~Accepts(n, new)
     /\ ReturnErr(m)
     /\ UNCHANGED cr

\* Client.Create of a child: AlreadyExists is an error like any other.
CreateChild(m, k, next) ==
  LET n == work[m].key
      d == Desired(work[m].obj, k) IN
  \/ /\ ~kids[n][k].live
     /\ k[1] \notin Forbidden \cup Rejected
     /\ kids' = [kids EXCEPT ![n][k] = Written(@.rv + 1, d.uid, d.ver)]
     /\ Goto(m, next)
     /\ UNCHANGED queue
  \/ /\ kids[n][k].live \/ k[1] \in Forbidden \cup Rejected
     /\ ReturnErr(m)
     /\ UNCHANGED kids

\* Client.Delete of a child: NotFound counts as done.
DeleteChild(m, k, stage, next) ==
  LET n == work[m].key IN
  /\ work[m].pc = stage
  /\ \/ /\ k[1] \notin Forbidden
        /\ kids' = [kids EXCEPT ![n][k] = Removed(@)]
        /\ next
        /\ UNCHANGED queue
     \/ /\ k[1] \in Forbidden
        /\ ReturnErr(m)
        /\ UNCHANGED kids
  /\ UNCHANGED <<cr, born, caches, budget>>

-----------------------------------------------------------------------------
(* Reconcile.                                                              *)

\* Variant: the finalizer runs whatever the deletion mark says.
BeginAlwaysFinalizing(m, n) ==
  LET o == crCache[m][n] IN
  /\ work[m].pc = "idle"
  /\ n \in queue[m]
  /\ queue' = [queue EXCEPT ![m] = @ \ {n}]
  /\ Move(m, [work[m] EXCEPT !.key = n, !.obj = o,
                !.pc = IF o.own THEN "delClaims" ELSE "validate"])
  /\ UNCHANGED <<store, caches, budget>>

\* A worker takes a request and reads the instance from its cache.  Nothing
\* in the cache leaves the handler with a zero struct, and going on.
Begin(m, n) ==
  LET o == crCache[m][n] IN
  /\ work[m].pc = "idle"
  /\ n \in queue[m]
  /\ queue' = [queue EXCEPT ![m] = @ \ {n}]
  /\ Move(m, [work[m] EXCEPT !.key = n, !.obj = o,
                !.pc = IF ~o.del THEN "validate"
                       ELSE IF o.own THEN "delClaims" ELSE "resave"])
  /\ UNCHANGED <<store, caches, budget>>

\* GetSize: a missing size counts as one.
SizeOf(o) == IF o.shape = "nosize" THEN 1 ELSE Replicas

FinalizePersistentVolumeClaims(m) ==
  LET i == work[m].at IN
  DeleteChild(m, FinalizedClaim(i), "delClaims",
    Move(m, [work[m] EXCEPT
               !.at = IF i + 1 < SizeOf(work[m].obj) THEN i + 1 ELSE 0,
               !.pc = IF i + 1 < SizeOf(work[m].obj) THEN @ ELSE "delDep"]))

FinalizeDeployment(m) ==
  DeleteChild(m, DeploymentKey, "delDep", Goto(m, "delSvc"))

\* Variant: the Service is left to the garbage collector.
FinalizeServiceSkipped(m) ==
  /\ work[m].pc = "delSvc"
  /\ Goto(m, "delCm")
  /\ UNCHANGED <<store, caches, queue, budget>>

FinalizeService(m) ==
  DeleteChild(m, ServiceKey, "delSvc", Goto(m, "delCm"))

FinalizeConfigMap(m) ==
  DeleteChild(m, FinalizedConfigMap, "delCm", Goto(m, "unfin"))

\* Variant: the finalizer is dropped from a copy, and stays where it was.
RemoveOwnFinalizerOnCopy(m) ==
  /\ work[m].pc = "unfin"
  /\ UpdateInstance(m, work[m].obj, "resave")
  /\ UNCHANGED <<kids, born, caches, budget>>

\* The update that drops the operator's finalizer.
RemoveOwnFinalizer(m) ==
  /\ work[m].pc = "unfin"
  /\ UpdateInstance(m, [work[m].obj EXCEPT !.own = FALSE], "resave")
  /\ UNCHANGED <<kids, born, caches, budget>>

\* handleFinalizer updates the instance once more, and then lets the
\* reconcile of a terminating instance go on.
SaveDeleted(m) ==
  /\ work[m].pc = "resave"
  /\ UpdateInstance(m, work[m].obj, "validate")
  /\ UNCHANGED <<kids, born, caches, budget>>

\* A missing size comes first; then the claim template is dereferenced.
ValidateSpec(o) ==
  CASE o.shape = "nosize"     -> "error"
    [] o.shape = "notemplate" -> "panic"
    [] o.shape = "noclass"    -> "error"
    [] OTHER                  -> "valid"

\* validateAndAddFinalizer, up to the update that adds the finalizer.
Validate(m) ==
  LET o == work[m].obj IN
  /\ work[m].pc = "validate"
  /\ \/ /\ ValidateSpec(o) = "error"
        /\ ReturnErr(m)
     \/ /\ ValidateSpec(o) = "panic"
        /\ Die(m)
     \/ /\ ValidateSpec(o) = "valid"
        /\ Goto(m, IF o.own THEN "lookup" ELSE "addFin")
        /\ UNCHANGED queue
  /\ UNCHANGED <<store, caches, budget>>

AddFinalizer(m) ==
  /\ work[m].pc = "addFin"
  /\ UpdateInstance(m, [work[m].obj EXCEPT !.own = TRUE], "lookup")
  /\ UNCHANGED <<kids, born, caches, budget>>

-----------------------------------------------------------------------------
(* createResources: everything, if the Deployment is not there.            *)

\* Any error of the lookup counts as an absent Deployment.
LookupDeployment(m) ==
  LET n == work[m].key IN
  /\ work[m].pc = "lookup"
  /\ \/ /\ kidCache[m][n][DeploymentKey].live
        /\ Goto(m, "annotate")
        /\ UNCHANGED budget
     \/ /\ ~kidCache[m][n][DeploymentKey].live
        /\ Goto(m, "mkCm")
        /\ UNCHANGED budget
     \/ /\ budget.faults > 0
        /\ budget' = [budget EXCEPT !.faults = @ - 1]
        /\ Goto(m, "mkCm")
  /\ UNCHANGED <<store, caches, queue>>

CreateConfigMap(m) ==
  /\ work[m].pc = "mkCm"
  /\ CreateChild(m, ConfigMapKey, "mkClaim")
  /\ UNCHANGED <<cr, born, caches, budget>>

\* Variant: the claim is taken for granted.
CreatePersistentVolumeClaimSkipped(m) ==
  /\ work[m].pc = "mkClaim"
  /\ Goto(m, "mkDep")
  /\ UNCHANGED <<store, caches, queue, budget>>

CreatePersistentVolumeClaim(m) ==
  /\ work[m].pc = "mkClaim"
  /\ CreateChild(m, ClaimKey, "mkDep")
  /\ UNCHANGED <<cr, born, caches, budget>>

\* The manifest takes the first container: without one the process panics.
CreateDeployment(m) ==
  /\ work[m].pc = "mkDep"
  /\ \/ /\ ~NewContainersPanics(work[m].obj)
        /\ CreateChild(m, DeploymentKey, "mkSvc")
     \/ /\ NewContainersPanics(work[m].obj)
        /\ Die(m)
        /\ UNCHANGED kids
  /\ UNCHANGED <<cr, born, caches, budget>>

CreateService(m) ==
  /\ work[m].pc = "mkSvc"
  /\ CreateChild(m, ServiceKey, "status")
  /\ UNCHANGED <<cr, born, caches, budget>>

\* The status says what the spec and the Service said when it was created.
StatusOf(o) == o.ver

\* Only here is the status ever written.
UpdateStatus(m) ==
  /\ work[m].pc = "status"
  /\ UpdateInstance(m, [work[m].obj EXCEPT !.rep = StatusOf(work[m].obj)], "annotate")
  /\ UNCHANGED <<kids, born, caches, budget>>

-----------------------------------------------------------------------------
(* watchResource: the annotation, then Deployment, Service and ConfigMap.  *)

\* Variant: the annotation is written over whatever version is stored.
UpdateSpecAnnotationForced(m) ==
  /\ work[m].pc = "annotate"
  /\ UpdateInstanceForced(m, [work[m].obj EXCEPT !.ann = work[m].obj.ver], "read")
  /\ UNCHANGED <<kids, born, caches, budget>>

UpdateSpecAnnotation(m) ==
  /\ work[m].pc = "annotate"
  /\ UpdateInstance(m, [work[m].obj EXCEPT !.ann = work[m].obj.ver], "read")
  /\ UNCHANGED <<kids, born, caches, budget>>

\* updateResource reads the child from the cache, and keeps what it read.
ReadResource(m) ==
  LET w == work[m]
      k == w.tgt
      seen == kidCache[m][w.key][k] IN
  /\ w.pc = "read"
  /\ \/ /\ k = DeploymentKey
        /\ NewContainersPanics(w.obj)
        /\ Die(m)
     \/ /\ ~(k = DeploymentKey /\ NewContainersPanics(w.obj))
        /\ Move(m, [w EXCEPT !.seen = seen,
                      !.pc = IF seen.live THEN "put" ELSE "make"])
        /\ UNCHANGED queue
  /\ UNCHANGED <<store, caches, budget>>

CreateMissing(m) ==
  /\ work[m].pc = "make"
  /\ CreateChild(m, work[m].tgt, "reput")
  /\ UNCHANGED <<cr, born, caches, budget>>

\* Client.Update of a child over version seen.rv (0: over any version).
UpdateChild(m, k, rv, d, next) ==
  LET n == work[m].key
      old == kids[n][k]
      same == old = Written(old.rv, d.uid, d.ver)
      ok == old.live /\ rv \in {0, old.rv} /\ k[1] \notin Forbidden \cup Rejected IN
  \/ /\ ok
     /\ kids' = [kids EXCEPT ![n][k] =
                   IF same THEN @ ELSE Written(@.rv + 1, d.uid, d.ver)]
     /\ next
  \/ /\ ~ok
     /\ ReturnErr(m)
     /\ UNCHANGED kids

UpdateExisting(m) ==
  LET w == work[m] IN
  /\ w.pc = "put"
  /\ UpdateChild(m, w.tgt, w.seen.rv, Desired(w.obj, w.tgt),
                 Goto(m, "reput") /\ UNCHANGED queue)
  /\ UNCHANGED <<cr, born, caches, budget>>

\* Variant: the round goes on past the last child.
NextChildEndless(m, k) ==
  /\ Move(m, [work[m] EXCEPT !.pc = "read", !.seen = NoChild,
                !.tgt = IF k = DeploymentKey THEN ServiceKey
                        ELSE IF k = ServiceKey THEN ConfigMapKey
                        ELSE ClaimKey])
  /\ UNCHANGED queue

\* The child after this one; after the ConfigMap the handler is done.
NextChild(m, k) ==
  \/ /\ k # ConfigMapKey
     /\ Move(m, [work[m] EXCEPT !.pc = "read", !.seen = NoChild,
                   !.tgt = IF k = DeploymentKey THEN ServiceKey
                           ELSE ConfigMapKey])
     /\ UNCHANGED queue
  \/ /\ k = ConfigMapKey
     /\ ReturnOk(m)

\* Variant: the second update first takes over the new resourceVersion.
RewriteExistingFresh(m) ==
  LET w == work[m]
      old == [uid |-> Desired(w.obj, w.tgt).uid, ver |-> w.seen.ver] IN
  /\ w.pc = "reput"
  /\ IF w.seen.live
     THEN UpdateChild(m, w.tgt, 0, old, NextChild(m, w.tgt))
     ELSE UpdateChild(m, w.tgt, 0, Desired(w.obj, w.tgt), NextChild(m, w.tgt))
  /\ UNCHANGED <<cr, born, caches, budget>>

\* updateResource ends with one more update, of the copy it read before the
\* first one: with the old spec and the old resourceVersion.  For a child it
\* has just created, that copy is the manifest, with no version at all.
RewriteExisting(m) ==
  LET w == work[m]
      old == [uid |-> Desired(w.obj, w.tgt).uid, ver |-> w.seen.ver] IN
  /\ w.pc = "reput"
  /\ IF w.seen.live
     THEN UpdateChild(m, w.tgt, w.seen.rv, old, NextChild(m, w.tgt))
     ELSE UpdateChild(m, w.tgt, 0, Desired(w.obj, w.tgt), NextChild(m, w.tgt))
  /\ UNCHANGED <<cr, born, caches, budget>>

-----------------------------------------------------------------------------
(* Failures of calls and processes.                                        *)

\* A call fails and nothing of it reaches the store.  A call whose effect
\* is kept and whose answer is lost is the same as a failure of the next
\* call: the handler gives up and forgets what it held.
CallFails(m) ==
  /\ work[m].pc \in CallStages
  /\ budget.faults > 0
  /\ budget' = [budget EXCEPT !.faults = @ - 1]
  /\ ReturnErr(m)
  /\ UNCHANGED <<store, caches>>

Crash(m) ==
  /\ work[m].pc # "down"
  /\ budget.crashes > 0
  /\ budget' = [budget EXCEPT !.crashes = @ - 1]
  /\ Die(m)
  /\ UNCHANGED <<store, caches>>

\* A new process lists everything it watches, and every object it lists puts
\* a request into its queue: an instance its own, a Deployment its owner's.
Restart(m) ==
  /\ work[m].pc = "down"
  /\ Move(m, Rest("idle"))
  /\ crCache' = [crCache EXCEPT ![m] = cr]
  /\ kidCache' = [kidCache EXCEPT ![m] = [n \in Names |-> [k \in Watched |-> kids[n][k]]]]
  /\ queue' = [queue EXCEPT ![m] =
                  {n \in Names : cr[n].uid # 0 \/ kids[n][DeploymentKey].live}]
  /\ UNCHANGED <<store, budget>>

-----------------------------------------------------------------------------
(* Watch events.  Events in between may be compressed away, and a handler  *)
(* that sees each of them does what one does that sees the last.           *)

\* Variant: a predicate lets only new instances and deletions through.
SyncInstanceFiltered(m, n) ==
  /\ work[m].pc # "down"
  /\ crCache[m][n] # cr[n]
  /\ crCache' = [crCache EXCEPT ![m][n] = cr[n]]
  /\ queue' = [queue EXCEPT ![m] =
                  IF crCache[m][n].uid = cr[n].uid /\ ~cr[n].del
                  THEN @ ELSE @ \cup {n}]
  /\ UNCHANGED <<store, kidCache, work, budget>>

SyncInstance(m, n) ==
  /\ work[m].pc # "down"
  /\ crCache[m][n] # cr[n]
  /\ crCache' = [crCache EXCEPT ![m][n] = cr[n]]
  /\ queue' = [queue EXCEPT ![m] = @ \cup {n}]
  /\ UNCHANGED <<store, kidCache, work, budget>>

\* Only Deployments are watched on behalf of their owner.
SyncChild(m, n, k) ==
  /\ work[m].pc # "down"
  /\ kidCache[m][n][k] # kids[n][k]
  /\ kidCache' = [kidCache EXCEPT ![m][n][k] = kids[n][k]]
  /\ queue' = [queue EXCEPT ![m] = IF k = DeploymentKey THEN @ \cup {n} ELSE @]
  /\ UNCHANGED <<store, crCache, work, budget>>

-----------------------------------------------------------------------------
(* Users, and the other controllers of the cluster.                        *)

\* The instance as submitted, edited, marked for deletion, and let go of.
Submitted(uid, shape, own) ==
  [NoInstance EXCEPT !.uid = uid, !.rv = 1, !.ver = 1, !.shape = shape, !.own = own]

Edited(c, shape) == [c EXCEPT !.shape = shape, !.ver = @ + 1, !.rv = @ + 1]

Marked(c, foreign) == [c EXCEPT !.del = TRUE, !.foreign = foreign, !.rv = @ + 1]

Released(c) == [c EXCEPT !.foreign = FALSE, !.rv = @ + 1]

UserCreates(n) ==
  /\ cr[n].uid = 0
  /\ born[n] < MaxBorn
  /\ born' = [born EXCEPT ![n] = @ + 1]
  /\ \E shape \in Shapes, own \in BornWithOwn :
       cr' = [cr EXCEPT ![n] = Submitted(born[n] + 1, shape, own)]
  /\ UNCHANGED <<kids, caches, queue, work, budget>>

UserEdits(n) ==
  /\ cr[n].uid # 0
  /\ cr[n].ver < MaxVer
  /\ \E shape \in Shapes :
       cr' = [cr EXCEPT ![n] = Edited(@, shape)]
  /\ UNCHANGED <<kids, born, caches, queue, work, budget>>

UserDeletes(n) ==
  /\ cr[n].uid # 0
  /\ ~cr[n].del
  /\ \E foreign \in ForeignHold :
       cr' = [cr EXCEPT ![n] = Settled(Marked(@, foreign))]
  /\ UNCHANGED <<kids, born, caches, queue, work, budget>>

\* Whoever holds the other finalizer lets go of it.
ReleaseForeign(n) ==
  /\ cr[n].foreign
  /\ cr' = [cr EXCEPT ![n] = Settled(Released(@))]
  /\ UNCHANGED <<kids, born, caches, queue, work, budget>>

UserDropsDeployment(n) ==
  /\ kids[n][DeploymentKey].live
  /\ budget.drops > 0
  /\ budget' = [budget EXCEPT !.drops = @ - 1]
  /\ kids' = [kids EXCEPT ![n][DeploymentKey] = Removed(@)]
  /\ UNCHANGED <<cr, born, caches, queue, work>>

\* A write of another controller: it annotates the object.
Drifted(c) == [c EXCEPT !.rv = @ + 1, !.drift = TRUE]

\* The Deployment controller annotates its object, the load balancer the
\* Service.
Drift(n, k) ==
  /\ kids[n][k].live
  /\ budget.drifts > 0
  /\ budget' = [budget EXCEPT !.drifts = @ - 1]
  /\ kids' = [kids EXCEPT ![n][k] = Drifted(@)]
  /\ UNCHANGED <<cr, born, caches, queue, work>>

\* The garbage collector takes a Deployment whose owner is gone.  It cannot
\* resolve the API group in the owner reference of a Service.
CollectDeployment(n) ==
  /\ kids[n][DeploymentKey].live
  /\ kids[n][DeploymentKey].uid # cr[n].uid
  /\ kids' = [kids EXCEPT ![n][DeploymentKey] = Removed(@)]
  /\ UNCHANGED <<cr, born, caches, queue, work, budget>>

-----------------------------------------------------------------------------
(* The system.                                                             *)

\* A step of the worker that is neither a new request nor a failure.
Stage(m) ==
  \/ FinalizePersistentVolumeClaims(m)
  \/ FinalizeDeployment(m)
  \/ FinalizeService(m)
  \/ FinalizeConfigMap(m)
  \/ RemoveOwnFinalizer(m)
  \/ SaveDeleted(m)
  \/ Validate(m)
  \/ AddFinalizer(m)
  \/ LookupDeployment(m)
  \/ CreateConfigMap(m)
  \/ CreatePersistentVolumeClaim(m)
  \/ CreateDeployment(m)
  \/ CreateService(m)
  \/ UpdateStatus(m)
  \/ UpdateSpecAnnotation(m)
  \/ ReadResource(m)
  \/ CreateMissing(m)
  \/ UpdateExisting(m)
  \/ RewriteExisting(m)

Manager(m) ==
  \/ \E n \in Names : Begin(m, n)
  \/ Stage(m)
  \/ CallFails(m)
  \/ Crash(m)
  \/ Restart(m)
  \/ \E n \in Names : SyncInstance(m, n)
  \/ \E n \in Names, k \in Watched : SyncChild(m, n, k)

User(n) ==
  \/ UserCreates(n)
  \/ UserEdits(n)
  \/ UserDeletes(n)
  \/ UserDropsDeployment(n)

Cluster(n) ==
  \/ ReleaseForeign(n)
  \/ \E k \in {DeploymentKey, ServiceKey} : Drift(n, k)
  \/ CollectDeployment(n)

Next ==
  \/ \E m \in Managers : Manager(m)
  \/ \E n \in Names : User(n) \/ Cluster(n)

Spec == Init /\ [][Next]_vars

\* A worker goes on with what it has started and an idle one takes a request;
\* a dead process is restarted by its Deployment and a watch delivers.  Weak
\* fairness of Begin promises a request nothing behind those of other names:
\* what the order of the queue adds is lost when the process dies.  Nobody
\* else owes anything.
Fairness ==
  \A m \in Managers :
    /\ WF_vars(Stage(m))
    /\ WF_vars(Restart(m))
    /\ \A n \in Names :
         /\ WF_vars(Begin(m, n))
         /\ WF_vars(SyncInstance(m, n))
         /\ \A k \in Watched : WF_vars(SyncChild(m, n, k))

FairSpec == Spec /\ Fairness

-----------------------------------------------------------------------------
(* The controller among others.                                            *)

\* Somebody creates or deletes claims of the names the finalizer asks for.
ClaimsChanged(changed) ==
  kids' = [n \in Names |-> [k \in Keys |->
             IF \E i \in 0 .. Replicas : k = FinalizedClaim(i) /\ <<n, i>> \in changed
             THEN IF kids[n][k].live THEN Removed(kids[n][k])
                  ELSE Written(kids[n][k].rv + 1, 0, 0)
             ELSE kids[n][k]]]

\* What the rest of the process and of the namespace may do to this
\* controller: change those claims, and take the process down.
Elsewhere ==
  /\ \E changed \in SUBSET (Names \X (0 .. Replicas)) : ClaimsChanged(changed)
  /\ \/ UNCHANGED <<queue, work>>
     \/ \E m \in Managers : Die(m)
  /\ UNCHANGED <<cr, born, caches, budget>>

OpenNext == Next \/ Elsewhere

OpenSpec == Init /\ [][OpenNext]_vars

-----------------------------------------------------------------------------
(* Safety.                                                                 *)

\* A workload outlives neither its instance nor the operator's claim on it:
\* while the Deployment or the Service of a name is there, so is the instance
\* that created it, with the operator's finalizer.  Stale reads, a crash in
\* any stage and a second incarnation of the name must not break it.
NoOrphanedWorkload ==
  \A n \in Names : \A k \in {DeploymentKey, ServiceKey} :
    kids[n][k].live => /\ cr[n].uid = kids[n][k].uid
                       /\ cr[n].own

\* The handler goes on after handling a deletion, but it never gets to create
\* or update a child for an instance it has seen being deleted.
NoCreateForTerminating ==
  \A m \in Managers : work[m].pc \in ChildStages => ~work[m].obj.del

\* No write of the operator takes a user's spec back to an older one.
SpecNeverReverted ==
  [][\A n \in Names : cr'[n].uid = cr[n].uid => cr'[n].ver >= cr[n].ver]_vars

\* updateResource writes a child twice, the second time from the copy it read
\* before the first: that copy never gets through with its older spec.
MonotoneRollout ==
  [][\A n \in Names :
       LET old == kids[n][DeploymentKey]
           new == kids'[n][DeploymentKey] IN
       old.live /\ new.live /\ old.uid = new.uid => new.ver >= old.ver]_vars

\* The finalizer deletes by name.  It never hits the Deployment of a later
\* incarnation of the name, or of one that is not being deleted.
LiveWorkloadKept ==
  [][\A n \in Names :
       LET d == kids[n][DeploymentKey] IN
       d.live /\ ~kids'[n][DeploymentKey].live =>
         \/ budget'.drops < budget.drops
         \/ cr[n].uid # d.uid
         \/ cr[n].del]_vars

\* The controller implements the lifecycle it promises.
PartKey(p) == IF p = "Deployment" THEN DeploymentKey ELSE ServiceKey

Lifecycle == INSTANCE WorkloadLifecycle WITH
  Incarnations <- 1 .. MaxBorn,
  instance <- [n \in Names |-> cr[n].uid],
  claimed  <- [n \in Names |-> cr[n].own],
  leaving  <- [n \in Names |-> cr[n].del],
  workload <- [n \in Names |-> [p \in {"Deployment", "Service"} |->
                IF kids[n][PartKey(p)].live THEN kids[n][PartKey(p)].uid ELSE 0]]

ImplementsLifecycle == Lifecycle!Spec

-----------------------------------------------------------------------------
(* Liveness.                                                               *)

\* The operator lets go of every instance that is being deleted.
DeletionCompletes ==
  \A n \in Names : \A u \in 1 .. MaxBorn :
    cr[n].uid = u /\ cr[n].del ~> cr[n].uid # u \/ ~cr[n].own

\* A spec the operator accepts reaches the Deployment, if there is one, unless
\* the user changes or deletes either first.
SpecReachesDeployment ==
  \A n \in Names : \A u \in 1 .. MaxBorn, v \in 1 .. MaxVer :
    LET asked == /\ cr[n].uid = u
                 /\ cr[n].ver = v
                 /\ cr[n].shape = "ok"
                 /\ ~cr[n].del
                 /\ kids[n][DeploymentKey].live IN
    asked ~> ~asked \/ kids[n][DeploymentKey].ver = v

\* An accepted instance gets all its children, unless a call fails, from any
\* state in which nothing is left of an earlier incarnation or of a spec that
\* panics behind its first creations: in the store, in the cache or in a
\* handler's hands.  A spec that panics before them may well have come first.
FirstProvisioning ==
  \A n \in Names :
    LET asked == /\ cr[n].uid = 1
                 /\ ~cr[n].del
                 /\ cr[n].shape = "ok"
                 /\ budget.faults = MaxFaults
        fresh == /\ \A k \in Keys : ~kids[n][k].live
                 /\ \A m \in Managers : /\ ~NewContainersPanics(crCache[m][n])
                                        /\ ~NewContainersPanics(work[m].obj) IN
    asked /\ fresh ~> ~asked \/ \A k \in Watched \cup {ClaimKey} : kids[n][k].live

\* The operator's own writes do not keep waking it up.
ReconcileSettles ==
  \A m \in Managers, n \in Names :
    <>[](cr[n].uid # 0 /\ ~cr[n].del /\ cr[n].shape = "ok"
           /\ kids[n][DeploymentKey].live)
    => <>[](work[m].pc = "idle" /\ n \notin queue[m])

-----------------------------------------------------------------------------
(* What the repository says of the controller, and the code does not do.   *)

\* singleinstance_controller.go:101, "resource not found. Ignoring since
\* object must be deleted".
GoneIsForgotten ==
  \A m \in Managers, n \in Names :
    cr[n].uid = 0 /\ born[n] = MaxBorn ~> work[m].pc = "idle" /\ queue[m] = {}

\* singleinstance_controller.go:65, "perform operations to make the cluster
\* state reflect the state specified by the user".
ClusterReflectsSpec ==
  \A n \in Names :
    LET asked == cr[n].uid # 0 /\ ~cr[n].del /\ cr[n].shape = "ok" IN
    asked ~> ~asked \/ kids[n][DeploymentKey].live
=============================================================================
