-------------------------- MODULE GroupReplication --------------------------
(***************************************************************************)
(* The GroupReplicationCluster controller and its defaulting webhook, with *)
(* the API server, the watch caches, the work queue and the users around   *)
(* them.                                                                   *)
(*                                                                         *)
(* The controller writes nothing but new objects: a round looks for the    *)
(* StatefulSet and, without one, creates a Secret, then ConfigMap, claim   *)
(* and StatefulSet of every member, then the headless Service.  Every      *)
(* stage of a round holds one API call.  It never looks at the deletion    *)
(* mark, so a cluster that is being deleted is here one that is still      *)
(* there.                                                                  *)
(*                                                                         *)
(* As in SingleInstance, a "Variant" is the definition that follows it     *)
(* with a bug.                                                             *)
(***************************************************************************)
EXTENDS Integers, Sequences

CONSTANTS
  Managers,     \* operator processes (two when leader election is off)
  Names,        \* names of GroupReplicationClusters in one namespace
  NoName,       \* the key of an idle worker
  Shapes,       \* the shapes of clusterSpec the users submit
  MemberLists,  \* the lists of member sizes the users submit
  Webhooks,     \* whether the defaulting webhook is installed
  MaxMembers,   \* bound: ordinals there are objects for
  Forbidden,    \* kinds the operator's role may not write
  Rejected,     \* kinds whose manifest the API server finds invalid
  MaxBorn,      \* bound: incarnations of one name
  MaxVer,       \* bound: spec versions of one incarnation
  MaxFaults,    \* bound: API calls that fail
  MaxCrashes,   \* bound: crashes of operator processes
  MaxTouches,   \* bound: updates of the users that leave the spec alone
  MaxDrops      \* bound: children the users delete

\* "ok" has everything; "nocluster" no clusterSpec, podSpec or container;
\* "notemplate" no claim template; "nostrategy" no update strategy.
AllShapes == {"ok", "nocluster", "notemplate", "nostrategy"}

\* A missing size of a member, and the largest int32.
NoSize   == -1
MaxInt32 == 2147483647

ASSUME ConstantsAssumption ==
  /\ NoName \notin Names
  /\ Shapes \subseteq AllShapes
  /\ MemberLists \subseteq Seq(Int)
  /\ Webhooks \in BOOLEAN
  /\ MaxMembers \in Nat \ {0}
  /\ {MaxBorn, MaxVer, MaxFaults, MaxCrashes, MaxTouches, MaxDrops} \subseteq Nat

-----------------------------------------------------------------------------
(* The objects of one name: kind and ordinal.                              *)

SecretKey      == <<"Secret", 0>>
ConfigMapKey(i) == <<"ConfigMap", i>>
ClaimKey(i)     == <<"PersistentVolumeClaim", i>>
StatefulSetKey == <<"StatefulSet", 0>>
ServiceKey     == <<"Service", 0>>

Ordinals == 1 .. MaxMembers
Read     == {StatefulSetKey} \cup {ConfigMapKey(i) : i \in Ordinals}
Keys     == Read \cup {SecretKey, ServiceKey} \cup {ClaimKey(i) : i \in Ordinals}

\* A cluster: the version of its spec, and the sizes of its members.
Cluster == [uid: Nat, ver: Nat, shape: AllShapes, members: Seq(Int)]

NoCluster == [uid |-> 0, ver |-> 0, shape |-> "nocluster", members |-> <<>>]

\* A child: uid is the cluster its owner reference names (0: none), ver the
\* version of the spec it was made from.
Child   == [live: BOOLEAN, uid: Nat, ver: Nat]
NoChild == [live |-> FALSE, uid |-> 0, ver |-> 0]

Stages == {"down", "idle", "lookup", "mkSecret", "getCm", "mkCm", "mkClaim",
           "mkSts", "mkSvc"}

\* The stages in which an API call may fail, and the handler gives up.
CallStages == {"mkSecret", "getCm", "mkCm", "mkClaim", "mkSts", "mkSvc"}

\* The stages behind the creation of the Secret.
PastSecret == {"getCm", "mkCm", "mkClaim", "mkSts", "mkSvc"}

Work == [pc: Stages, key: Names \cup {NoName}, obj: Cluster, at: Ordinals]

Rest(stage) == [pc |-> stage, key |-> NoName, obj |-> NoCluster, at |-> 1]

VARIABLES
  cr,        \* API server: the GroupReplicationCluster of each name
  kids,      \* API server: the children of each name
  born,      \* how many incarnations each name has had
  crCache,   \* each manager's watch cache of GroupReplicationClusters
  kidCache,  \* each manager's watch caches of StatefulSets and ConfigMaps
  queue,     \* each manager's work queue
  work,      \* each manager's single worker
  budget     \* what is left of the bounded disturbances

vars   == <<cr, kids, born, crCache, kidCache, queue, work, budget>>
store  == <<cr, kids, born>>
caches == <<crCache, kidCache>>

TypeOK ==
  /\ cr \in [Names -> Cluster]
  /\ kids \in [Names -> [Keys -> Child]]
  /\ born \in [Names -> Nat]
  /\ crCache \in [Managers -> [Names -> Cluster]]
  /\ kidCache \in [Managers -> [Names -> [Read -> Child]]]
  /\ queue \in [Managers -> SUBSET Names]
  /\ work \in [Managers -> Work]
  /\ budget \in [faults: Nat, crashes: Nat, touches: Nat, drops: Nat]

Init ==
  /\ cr = [n \in Names |-> NoCluster]
  /\ kids = [n \in Names |-> [k \in Keys |-> NoChild]]
  /\ born = [n \in Names |-> 0]
  /\ crCache = [m \in Managers |-> [n \in Names |-> NoCluster]]
  /\ kidCache = [m \in Managers |-> [n \in Names |-> [k \in Read |-> NoChild]]]
  /\ queue = [m \in Managers |-> {}]
  /\ work = [m \in Managers |-> Rest("down")]
  /\ budget = [faults |-> MaxFaults, crashes |-> MaxCrashes,
               touches |-> MaxTouches, drops |-> MaxDrops]

-----------------------------------------------------------------------------
(* Member sizes.                                                           *)

\* Variant: GetSize answers what was asked for.
GetSizeAsAsked(size) == IF size = NoSize THEN 0 ELSE size

\* GetSize counts whether there is a size, not what it is.
GetSize(size) == IF size = NoSize THEN 0 ELSE 1

Increment(size) == IF size = MaxInt32 THEN -MaxInt32 - 1 ELSE size + 1

\* The webhook adds one to the second member, or makes it three.
Default(members) ==
  IF Len(members) > 1 /\ GetSize(members[1]) < 3
  THEN [members EXCEPT ![2] = IF @ = NoSize THEN 3 ELSE Increment(@)]
  ELSE members

Admitted(members) == IF Webhooks THEN Default(members) ELSE members

-----------------------------------------------------------------------------
(* How a stage ends.                                                       *)

Move(m, w) == work' = [work EXCEPT ![m] = w]

Goto(m, stage) == Move(m, [work[m] EXCEPT !.pc = stage])

\* An error puts the request back into the queue.
ReturnErr(m) ==
  /\ Move(m, Rest("idle"))
  /\ queue' = [queue EXCEPT ![m] = @ \cup {work[m].key}]

ReturnOk(m) ==
  /\ Move(m, Rest("idle"))
  /\ UNCHANGED queue

\* The process dies, with its queue and everything its worker held.
Die(m) ==
  /\ Move(m, Rest("down"))
  /\ queue' = [queue EXCEPT ![m] = {}]

\* Where the loop over the ordinals goes from ordinal i.
Loop(m, i) ==
  /\ Move(m, IF i <= GetSize(work[m].obj.members[1])
             THEN [work[m] EXCEPT !.pc = "getCm", !.at = i]
             ELSE [work[m] EXCEPT !.pc = "mkSvc"])
  /\ UNCHANGED queue

\* Owner references are on StatefulSet and Service.
Manifest(o, k) ==
  [live |-> TRUE,
   uid  |-> IF k \in {StatefulSetKey, ServiceKey} THEN o.uid ELSE 0,
   ver  |-> o.ver]

\* Client.Create; AlreadyExists is an error like any other.
CreateChild(m, k, next) ==
  LET n == work[m].key
      ok == ~kids[n][k].live /\ k[1] \notin Forbidden \cup Rejected IN
  /\ \/ /\ ok
        /\ kids' = [kids EXCEPT ![n][k] = Manifest(work[m].obj, k)]
        /\ next
     \/ /\ ~ok
        /\ ReturnErr(m)
        /\ UNCHANGED kids
  /\ UNCHANGED <<cr, born, caches, budget>>

-----------------------------------------------------------------------------
(* Reconcile.                                                              *)

\* Variant: a cluster that is gone counts as an error.
BeginRetryingGone(m, n) ==
  LET o == crCache[m][n] IN
  /\ work[m].pc = "idle"
  /\ n \in queue[m]
  /\ \/ /\ o.uid = 0
        /\ UNCHANGED <<queue, work>>
     \/ /\ o.uid # 0
        /\ queue' = [queue EXCEPT ![m] = @ \ {n}]
        /\ Move(m, [work[m] EXCEPT !.pc = "lookup", !.key = n, !.obj = o])
  /\ UNCHANGED <<store, caches, budget>>

\* A worker takes a request and reads the cluster from its cache.
Begin(m, n) ==
  LET o == crCache[m][n] IN
  /\ work[m].pc = "idle"
  /\ n \in queue[m]
  /\ queue' = [queue EXCEPT ![m] = @ \ {n}]
  /\ \/ /\ o.uid = 0
        /\ UNCHANGED work
     \/ /\ o.uid # 0
        /\ Move(m, [work[m] EXCEPT !.pc = "lookup", !.key = n, !.obj = o])
  /\ UNCHANGED <<store, caches, budget>>

\* With a StatefulSet the round is over.  Any error of the lookup counts as
\* an absent StatefulSet.
LookupStatefulSet(m) ==
  LET there == kidCache[m][work[m].key][StatefulSetKey].live IN
  /\ work[m].pc = "lookup"
  /\ \/ /\ there
        /\ ReturnOk(m)
        /\ UNCHANGED budget
     \/ /\ ~there
        /\ Goto(m, "mkSecret")
        /\ UNCHANGED <<queue, budget>>
     \/ /\ budget.faults > 0
        /\ budget' = [budget EXCEPT !.faults = @ - 1]
        /\ Goto(m, "mkSecret")
        /\ UNCHANGED queue
  /\ UNCHANGED <<store, caches>>

\* Variant: an existing Secret is as good as a new one.
CreateSecretOnce(m) ==
  LET n == work[m].key
      o == work[m].obj IN
  /\ work[m].pc = "mkSecret"
  /\ IF o.shape = "nocluster" THEN Die(m) /\ UNCHANGED kids
     ELSE /\ kids' = [kids EXCEPT ![n][SecretKey] =
                        IF @.live THEN @ ELSE Manifest(o, SecretKey)]
          /\ IF o.members = <<>> THEN Die(m) ELSE Loop(m, 1)
  /\ UNCHANGED <<cr, born, caches, budget>>

\* The environment of the first container becomes a Secret; then the first
\* member says how often to loop.  A missing part of the spec is a panic,
\* before the Secret is made or after.
CreateSecret(m) ==
  LET o == work[m].obj IN
  /\ work[m].pc = "mkSecret"
  /\ \/ /\ o.shape # "nocluster"
        /\ CreateChild(m, SecretKey,
             IF o.members = <<>> THEN Die(m) ELSE Loop(m, 1))
     \/ /\ o.shape = "nocluster"
        /\ Die(m)
        /\ UNCHANGED <<store, caches, budget>>

\* createConfigMap looks into the cache first.
GetConfigMap(m) ==
  LET k == ConfigMapKey(work[m].at) IN
  /\ work[m].pc = "getCm"
  /\ Goto(m, IF kidCache[m][work[m].key][k].live THEN "mkClaim" ELSE "mkCm")
  /\ UNCHANGED <<store, caches, queue, budget>>

\* Variant: an error of the creation is only logged.
CreateConfigMapLogged(m) ==
  LET n == work[m].key
      k == ConfigMapKey(work[m].at) IN
  /\ work[m].pc = "mkCm"
  /\ \/ kids' = [kids EXCEPT ![n][k] = IF @.live THEN @ ELSE Manifest(work[m].obj, k)]
     \/ budget.faults > 0 /\ UNCHANGED kids
  /\ Goto(m, "mkClaim")
  /\ UNCHANGED <<cr, born, caches, queue, budget>>

CreateConfigMap(m) ==
  /\ work[m].pc = "mkCm"
  /\ CreateChild(m, ConfigMapKey(work[m].at), Goto(m, "mkClaim") /\ UNCHANGED queue)

\* NewPersistentVolumeClaim dereferences the claim template.
CreatePersistentVolumeClaim(m) ==
  /\ work[m].pc = "mkClaim"
  /\ \/ /\ work[m].obj.shape # "notemplate"
        /\ CreateChild(m, ClaimKey(work[m].at), Goto(m, "mkSts") /\ UNCHANGED queue)
     \/ /\ work[m].obj.shape = "notemplate"
        /\ Die(m)
        /\ UNCHANGED <<store, caches, budget>>

\* Every ordinal's StatefulSet has the name of the cluster.  NewStatefulSet
\* dereferences the update strategy.
CreateStatefulSet(m) ==
  /\ work[m].pc = "mkSts"
  /\ \/ /\ work[m].obj.shape # "nostrategy"
        /\ CreateChild(m, StatefulSetKey, Loop(m, work[m].at + 1))
     \/ /\ work[m].obj.shape = "nostrategy"
        /\ Die(m)
        /\ UNCHANGED <<store, caches, budget>>

\* Variant: the Service waits for another round, which never comes.
CreateServiceLater(m) ==
  /\ work[m].pc = "mkSvc"
  /\ ReturnOk(m)
  /\ UNCHANGED <<store, caches, budget>>

CreateService(m) ==
  /\ work[m].pc = "mkSvc"
  /\ CreateChild(m, ServiceKey, ReturnOk(m))

-----------------------------------------------------------------------------
(* Failures, watch events.                                                 *)

\* A call fails and nothing of it reaches the store.  A call whose answer is
\* lost is the same as a failure of the next one, or of a finished round.
CallFails(m) ==
  /\ work[m].pc \in CallStages
  /\ budget.faults > 0
  /\ budget' = [budget EXCEPT !.faults = @ - 1]
  /\ ReturnErr(m)
  /\ UNCHANGED <<store, caches>>

Crash(m) ==
  /\ work[m].pc # "down"
  /\ budget.crashes > 0
  /\ budget' = [budget EXCEPT !.crashes = @ - 1]
  /\ Die(m)
  /\ UNCHANGED <<store, caches>>

\* A new process lists what it watches; every cluster it lists, and the owner
\* of every StatefulSet, gets a request.
Restart(m) ==
  /\ work[m].pc = "down"
  /\ Move(m, Rest("idle"))
  /\ crCache' = [crCache EXCEPT ![m] = cr]
  /\ kidCache' = [kidCache EXCEPT ![m] = [n \in Names |-> [k \in Read |-> kids[n][k]]]]
  /\ queue' = [queue EXCEPT ![m] =
                  {n \in Names : cr[n].uid # 0 \/ kids[n][StatefulSetKey].live}]
  /\ UNCHANGED <<store, budget>>

SyncCluster(m, n) ==
  /\ work[m].pc # "down"
  /\ crCache[m][n] # cr[n]
  /\ crCache' = [crCache EXCEPT ![m][n] = cr[n]]
  /\ queue' = [queue EXCEPT ![m] = @ \cup {n}]
  /\ UNCHANGED <<store, kidCache, work, budget>>

\* Only StatefulSets are watched on behalf of their owner.
SyncChild(m, n, k) ==
  /\ work[m].pc # "down"
  /\ kidCache[m][n][k] # kids[n][k]
  /\ kidCache' = [kidCache EXCEPT ![m][n][k] = kids[n][k]]
  /\ queue' = [queue EXCEPT ![m] = IF k = StatefulSetKey THEN @ \cup {n} ELSE @]
  /\ UNCHANGED <<store, crCache, work, budget>>

-----------------------------------------------------------------------------
(* Users and the garbage collector.                                        *)

UserCreates(n) ==
  /\ cr[n].uid = 0
  /\ born[n] < MaxBorn
  /\ born' = [born EXCEPT ![n] = @ + 1]
  /\ \E shape \in Shapes, members \in MemberLists :
       cr' = [cr EXCEPT ![n] = [uid |-> born[n] + 1, ver |-> 1, shape |-> shape,
                                members |-> Admitted(members)]]
  /\ UNCHANGED <<kids, caches, queue, work, budget>>

UserEdits(n) ==
  /\ cr[n].uid # 0
  /\ cr[n].ver < MaxVer
  /\ \E shape \in Shapes, members \in MemberLists :
       cr' = [cr EXCEPT ![n].ver = @ + 1, ![n].shape = shape,
                        ![n].members = Admitted(members)]
  /\ UNCHANGED <<kids, born, caches, queue, work, budget>>

\* An update that leaves the spec alone, of a label say, is admitted too.
UserTouches(n) ==
  /\ cr[n].uid # 0
  /\ budget.touches > 0
  /\ budget' = [budget EXCEPT !.touches = @ - 1]
  /\ cr' = [cr EXCEPT ![n].members = Admitted(@)]
  /\ UNCHANGED <<kids, born, caches, queue, work>>

UserDeletes(n) ==
  /\ cr[n].uid # 0
  /\ cr' = [cr EXCEPT ![n] = NoCluster]
  /\ UNCHANGED <<kids, born, caches, queue, work, budget>>

UserDrops(n, k) ==
  /\ kids[n][k].live
  /\ budget.drops > 0
  /\ budget' = [budget EXCEPT !.drops = @ - 1]
  /\ kids' = [kids EXCEPT ![n][k] = NoChild]
  /\ UNCHANGED <<cr, born, caches, queue, work>>

\* Only the StatefulSet has an owner reference that can be resolved.
CollectStatefulSet(n) ==
  /\ kids[n][StatefulSetKey].live
  /\ kids[n][StatefulSetKey].uid # cr[n].uid
  /\ kids' = [kids EXCEPT ![n][StatefulSetKey] = NoChild]
  /\ UNCHANGED <<cr, born, caches, queue, work, budget>>

-----------------------------------------------------------------------------
(* The system.                                                             *)

Stage(m) ==
  \/ LookupStatefulSet(m)
  \/ CreateSecret(m)
  \/ GetConfigMap(m)
  \/ CreateConfigMap(m)
  \/ CreatePersistentVolumeClaim(m)
  \/ CreateStatefulSet(m)
  \/ CreateService(m)

Manager(m) ==
  \/ \E n \in Names : Begin(m, n)
  \/ Stage(m)
  \/ CallFails(m)
  \/ Crash(m)
  \/ Restart(m)
  \/ \E n \in Names : SyncCluster(m, n)
  \/ \E n \in Names, k \in Read : SyncChild(m, n, k)

User(n) ==
  \/ UserCreates(n)
  \/ UserEdits(n)
  \/ UserTouches(n)
  \/ UserDeletes(n)
  \/ \E k \in Keys : UserDrops(n, k)

Next ==
  \/ \E m \in Managers : Manager(m)
  \/ \E n \in Names : User(n) \/ CollectStatefulSet(n)

Spec == Init /\ [][Next]_vars

\* As for SingleInstance: the worker goes on, the process is restarted, the
\* watch delivers.  The garbage collector and the users owe nothing.
Fairness ==
  \A m \in Managers :
    /\ WF_vars(Stage(m))
    /\ WF_vars(Restart(m))
    /\ \A n \in Names :
         /\ WF_vars(Begin(m, n))
         /\ WF_vars(SyncCluster(m, n))
         /\ \A k \in Read : WF_vars(SyncChild(m, n, k))

FairSpec == Spec /\ Fairness

-----------------------------------------------------------------------------
(* The controller among others.                                            *)

\* Somebody deletes claims of the members.
ClaimsLost(lost) ==
  kids' = [n \in Names |-> [k \in Keys |->
             IF \E i \in Ordinals : k = ClaimKey(i) /\ <<n, i>> \in lost
             THEN NoChild ELSE kids[n][k]]]

\* What the rest of the process and of the namespace may do to this
\* controller.
Elsewhere ==
  /\ \E lost \in SUBSET (Names \X Ordinals) : ClaimsLost(lost)
  /\ \/ UNCHANGED <<queue, work>>
     \/ \E m \in Managers : Die(m)
  /\ UNCHANGED <<cr, born, caches, budget>>

OpenNext == Next \/ Elsewhere

OpenSpec == Init /\ [][OpenNext]_vars

-----------------------------------------------------------------------------
(* Safety.                                                                 *)

\* Nothing but the refusal to create a Secret twice keeps two rounds from
\* creating the children of one cluster side by side.  It does: as long as
\* nobody removes the Secret, one worker at most is past it, whatever the
\* caches say and however many processes run.
OneCreator ==
  budget.drops = MaxDrops =>
    \A m1, m2 \in Managers :
      /\ work[m1].pc \in PastSecret
      /\ work[m2].pc \in PastSecret
      /\ work[m1].key = work[m2].key
      => m1 = m2

\* A StatefulSet never runs on configuration that is not there: it comes
\* after Secret, ConfigMap and claim, through failures, crashes and stale
\* caches, as long as the users leave those alone.
StatefulSetConfigured ==
  budget.drops = MaxDrops =>
    \A n \in Names :
      kids[n][StatefulSetKey].live =>
        \A k \in {SecretKey, ConfigMapKey(1), ClaimKey(1)} : kids[n][k].live

-----------------------------------------------------------------------------
(* Liveness.                                                               *)

\* A request for a cluster that is gone is dropped.
GoneIsForgotten ==
  \A m \in Managers, n \in Names :
    cr[n].uid = 0 /\ born[n] = MaxBorn ~>
      \/ work[m].pc = "idle" /\ n \notin queue[m]
      \/ work[m].pc = "down"

\* A spec with a missing part makes the process panic, but not in a circle:
\* behind a restart the Secret of the first attempt stops the handler before
\* it gets to the part that is missing.
PanicsEnd ==
  "nocluster" \notin Shapes => <>[](\A m \in Managers : work[m].pc # "down")

\* Where nothing is left over from an earlier cluster or an earlier spec, a
\* cluster with a sized first member gets all that createResources makes,
\* unless a call fails or the process ends in the middle.
FirstProvisioning ==
  \A n \in Names :
    LET asked == /\ cr[n].uid = 1
                 /\ cr[n].ver = 1
                 /\ cr[n].shape = "ok"
                 /\ cr[n].members # <<>>
                 /\ cr[n].members[1] # NoSize
                 /\ budget.faults = MaxFaults
                 /\ budget.crashes = MaxCrashes
                 /\ budget.drops = MaxDrops IN
    asked ~> ~asked \/ \A k \in {StatefulSetKey, ServiceKey} : kids[n][k].live

-----------------------------------------------------------------------------
(* What the repository says of the controller, and the code does not do.   *)

\* groupreplicationcluster_controller.go:124, "createConfigMap creates a
\* ConfigMap for each member of the GroupReplicationCluster": once the round
\* has come to its end, which the Service marks, they are all there.
EveryMemberConfigured ==
  \A n \in Names :
    kids[n][ServiceKey].live /\ cr[n].uid = kids[n][ServiceKey].uid
        /\ cr[n].ver = kids[n][ServiceKey].ver =>
      \A i \in 1 .. cr[n].members[1] : kids[n][ConfigMapKey(i)].live
=============================================================================
