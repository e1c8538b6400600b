--------------------------- MODULE OperatorProofs ---------------------------
(***************************************************************************)
(* Each controller lives in the operator as among others: proofs that the  *)
(* composition implements the open specification of both, for any number   *)
(* of processes, names and faults, and whatever the arguments; and what    *)
(* follows for the operator.                                               *)
(*                                                                         *)
(* The argument.  What is proved of a controller is proved of its open     *)
(* specification, so it holds here (ProofsApply).  Beyond that the         *)
(* operator has three things of its own: what it spends on failures, which *)
(* is what both controllers spend (SpentType); the claims both name, of    *)
(* which there is one store (OneStore); and its processes, whose start and *)
(* end both workers share (WorkersFollow).                                 *)
(***************************************************************************)
EXTENDS Operator, TLAPS

-----------------------------------------------------------------------------
(* What one controller does to the other is what that one allows for.      *)

\* The names both use are names the finalizer asks for.
LEMMA SharedNames ==
  /\ Shared = GR!Ordinals
  /\ Names \X Shared \subseteq Names \X (0 .. Replicas)
<1>1. Shared \subseteq 0 .. Replicas
  BY OperatorAssumption, SMT DEF Shared
<1> QED BY <1>1 DEF Shared, GR!Ordinals

\* The clusters lose claims, and nothing else.
LEMMA LossAllowed ==
  ASSUME GroupLosesClaims
  PROVE  \E lost \in SUBSET (Names \X GR!Ordinals) : GR!ClaimsLost(lost)
<1> DEFINE lost == {x \in Names \X Shared :
                      ~sKids'[x[1]][SI!FinalizedClaim(x[2])].live}
<1>1. lost \in SUBSET (Names \X GR!Ordinals)
  BY SharedNames
<1>2. GR!ClaimsLost(lost)
  BY DEF GroupLosesClaims
<1> HIDE DEF lost
<1> QED BY <1>1, <1>2

\* The instances see claims come and go, and nothing else.
LEMMA ChangeAllowed ==
  ASSUME InstanceSeesClaims
  PROVE  \E changed \in SUBSET (Names \X (0 .. Replicas)) : SI!ClaimsChanged(changed)
<1> DEFINE changed == {x \in Names \X Shared :
                         gKids'[x[1]][GR!ClaimKey(x[2])].live
                           # sKids[x[1]][SI!FinalizedClaim(x[2])].live}
<1>1. changed \in SUBSET (Names \X (0 .. Replicas))
  BY SharedNames
<1>2. SI!ClaimsChanged(changed)
  BY DEF InstanceSeesClaims
<1> HIDE DEF changed
<1> QED BY <1>1, <1>2

\* The cluster controller goes on without its claims, or ends.
LEMMA GroupIsAmongOthers ==
  ASSUME NEW m \in Managers, GroupFollows(m)
  PROVE  GR!Elsewhere
<1>1. \E lost \in SUBSET (Names \X GR!Ordinals) : GR!ClaimsLost(lost)
  BY LossAllowed DEF GroupFollows
<1>2. UNCHANGED <<gQueue, gWork>> \/ \E o \in Managers : GR!Die(o)
  BY DEF GroupFollows
<1>3. UNCHANGED <<gCr, gBorn, gCrCache, gKidCache, gBudget>>
  BY DEF GroupFollows
<1> QED BY <1>1, <1>2, <1>3 DEF GR!Elsewhere, GR!caches

\* So does the instance controller.
LEMMA InstanceIsAmongOthers ==
  ASSUME NEW m \in Managers, InstanceFollows(m)
  PROVE  SI!Elsewhere
<1>1. \E changed \in SUBSET (Names \X (0 .. Replicas)) : SI!ClaimsChanged(changed)
  BY ChangeAllowed DEF InstanceFollows
<1>2. UNCHANGED <<sQueue, sWork>> \/ \E o \in Managers : SI!Die(o)
  BY DEF InstanceFollows
<1>3. UNCHANGED <<sCr, sBorn, sCrCache, sKidCache, sBudget>>
  BY DEF InstanceFollows
<1> QED BY <1>1, <1>2, <1>3 DEF SI!Elsewhere, SI!caches

-----------------------------------------------------------------------------
(* Every step of the operator, seen by each controller.                    *)

\* Until it serves, a process does nothing to either.
LEMMA StartUpSteps ==
  ASSUME NEW m \in Managers,
         Execute(m) \/ Setup(m) \/ StartFails(m) \/ Relaunch(m)
  PROVE  UNCHANGED SI!vars /\ UNCHANGED GR!vars
  BY DEF Execute, Setup, StartFails, Relaunch, instanceVars, groupVars,
         SI!vars, GR!vars

\* When it serves, both controllers have been restarted.
LEMMA ServeSteps ==
  ASSUME NEW m \in Managers, Serve(m)
  PROVE  SI!Next /\ GR!Next
  BY DEF Serve, SI!Next, SI!Manager, GR!Next, GR!Manager

\* What the instance controller does is a step of it, and the other follows.
LEMMA InstanceSteps ==
  ASSUME NEW m \in Managers,
         \/ InstanceStage(m)
         \/ InstanceFails(m)
         \/ Crash(m)
         \/ \E n \in Names : InstanceBegin(m, n) \/ InstanceSync(m, n)
         \/ \E n \in Names, k \in SI!Watched : InstanceSyncChild(m, n, k)
  PROVE  SI!Next /\ GR!Elsewhere
<1>1. SI!Manager(m)
  BY DEF InstanceStage, InstanceFails, Crash, InstanceBegin, InstanceSync,
         InstanceSyncChild, SI!Manager
<1>2. GroupFollows(m)
  BY DEF InstanceStage, InstanceFails, Crash, InstanceBegin, InstanceSync,
         InstanceSyncChild
<1> QED BY <1>1, <1>2, GroupIsAmongOthers DEF SI!Next

\* The same for the cluster controller.
LEMMA GroupSteps ==
  ASSUME NEW m \in Managers,
         \/ GroupStage(m)
         \/ GroupFails(m)
         \/ \E n \in Names : GroupBegin(m, n) \/ GroupSync(m, n)
         \/ \E n \in Names, k \in GR!Read : GroupSyncChild(m, n, k)
  PROVE  GR!Next /\ SI!Elsewhere
<1>1. GR!Manager(m)
  BY DEF GroupStage, GroupFails, GroupBegin, GroupSync, GroupSyncChild, GR!Manager
<1>2. InstanceFollows(m)
  BY DEF GroupStage, GroupFails, GroupBegin, GroupSync, GroupSyncChild
<1> QED BY <1>1, <1>2, InstanceIsAmongOthers DEF GR!Next

\* Users and Kubernetes touch the resources of one controller; a claim of a
\* cluster that a user deletes is gone for the finalizer, too.
LEMMA OutsideSteps ==
  ASSUME NEW n \in Names, InstanceOutside(n) \/ GroupOutside(n)
  PROVE  \/ SI!Next /\ UNCHANGED GR!vars
         \/ GR!Next /\ SI!Elsewhere
<1>1. CASE InstanceOutside(n)
  BY <1>1 DEF InstanceOutside, groupVars, SI!Next, GR!vars
<1>2. CASE GroupOutside(n)
  <2>1. GR!Next
    BY <1>2 DEF GroupOutside, GR!Next
  <2>2. \E changed \in SUBSET (Names \X (0 .. Replicas)) : SI!ClaimsChanged(changed)
    BY <1>2, ChangeAllowed DEF GroupOutside
  <2>3. UNCHANGED <<sCr, sBorn, sCrCache, sKidCache, sQueue, sWork, sBudget>>
    BY <1>2 DEF GroupOutside
  <2> QED BY <2>1, <2>2, <2>3 DEF SI!Elsewhere, SI!caches
<1> QED BY <1>1, <1>2

\* A step of the operator is one of the first controller, one of the second or
\* one of its own; where it is not a step of a controller it is one that this
\* controller allows the others.
LEMMA OperatorSteps ==
  ASSUME [Next]_vars
  PROVE  [SI!OpenNext]_(SI!vars) /\ [GR!OpenNext]_(GR!vars)
<1>1. CASE UNCHANGED vars
  BY <1>1 DEF vars, instanceVars, groupVars, SI!vars, GR!vars
<1>2. ASSUME NEW m \in Managers,
             Launch(m) \/ InstanceWorker(m) \/ GroupWorker(m) \/ Deliver(m) \/ Fails(m)
      PROVE  [SI!OpenNext]_(SI!vars) /\ [GR!OpenNext]_(GR!vars)
  <2>1. CASE Execute(m) \/ Setup(m) \/ StartFails(m) \/ Relaunch(m)
    BY <2>1, StartUpSteps
  <2>2. CASE Serve(m)
    BY <2>2, ServeSteps DEF SI!OpenNext, GR!OpenNext
  <2>3. CASE \/ InstanceStage(m)
             \/ InstanceFails(m)
             \/ Crash(m)
             \/ \E n \in Names : InstanceBegin(m, n) \/ InstanceSync(m, n)
             \/ \E n \in Names, k \in SI!Watched : InstanceSyncChild(m, n, k)
    BY <2>3, InstanceSteps DEF SI!OpenNext, GR!OpenNext
  <2>4. CASE \/ GroupStage(m)
             \/ GroupFails(m)
             \/ \E n \in Names : GroupBegin(m, n) \/ GroupSync(m, n)
             \/ \E n \in Names, k \in GR!Read : GroupSyncChild(m, n, k)
    BY <2>4, GroupSteps DEF SI!OpenNext, GR!OpenNext
  <2> QED BY <1>2, <2>1, <2>2, <2>3, <2>4
          DEF Launch, InstanceWorker, GroupWorker, Deliver, Fails
<1>3. ASSUME NEW n \in Names, InstanceOutside(n) \/ GroupOutside(n)
      PROVE  [SI!OpenNext]_(SI!vars) /\ [GR!OpenNext]_(GR!vars)
  BY <1>3, OutsideSteps DEF SI!OpenNext, GR!OpenNext
<1> QED BY <1>1, <1>2, <1>3 DEF Next

-----------------------------------------------------------------------------
(* The composition.                                                        *)

\* The instance controller in the operator does what its open specification
\* says: a panic over a cluster costs it its queue and its round, and of its
\* objects nothing changes but the claims whose names the clusters use.  So
\* what is proved of that specification holds in the operator.
THEOREM InstancesAmongClusters == Spec => InstancePart
<1>1. Init => SI!Init
  BY DEF Init
<1>2. [Next]_vars => [SI!OpenNext]_(SI!vars)
  BY OperatorSteps
<1> QED BY <1>1, <1>2, PTL DEF Spec, InstancePart, SI!OpenSpec

\* The same for the cluster controller: the finalizer of an instance takes
\* claims from it, and a panic over an instance ends its round, but no more.
THEOREM ClustersAmongInstances == Spec => ClusterPart
<1>1. Init => GR!Init
  BY DEF Init
<1>2. [Next]_vars => [GR!OpenNext]_(GR!vars)
  BY OperatorSteps
<1> QED BY <1>1, <1>2, PTL DEF Spec, ClusterPart, GR!OpenSpec
-----------------------------------------------------------------------------
(* What is proved of the controllers.  The proofs are those of modules     *)
(* about each controller alone; instances of them, with the same           *)
(* substitutions as in Operator, bring them here.                          *)

SP == INSTANCE LifecycleProofs WITH
  Shapes <- InstanceShapes, MaxFaults <- MaxFailures,
  MaxCrashes <- MaxFailures, MaxDrops <- MaxInstanceDrops,
  cr <- sCr, kids <- sKids, born <- sBorn, crCache <- sCrCache,
  kidCache <- sKidCache, queue <- sQueue, work <- sWork, budget <- sBudget

GP == INSTANCE GroupReplicationProofs WITH
  Shapes <- ClusterShapes, MaxFaults <- MaxFailures,
  MaxCrashes <- 0, MaxDrops <- MaxClusterDrops,
  cr <- gCr, kids <- gKids, born <- gBorn, crCache <- gCrCache,
  kidCache <- gKidCache, queue <- gQueue, work <- gWork, budget <- gBudget

\* The constants of the operator are those the proofs are about.
LEMMA ConstantsFit == SP!ConstantsAssumption /\ GP!ConstantsAssumption
<1>1. SP!ConstantsAssumption
  BY OperatorAssumption DEF SI!ConstantsAssumption, SP!ConstantsAssumption,
                            SI!AllShapes, SP!AllShapes
<1>2. GP!ConstantsAssumption
  BY OperatorAssumption DEF GR!ConstantsAssumption, GP!ConstantsAssumption,
                            GR!AllShapes, GP!AllShapes
<1> QED BY <1>1, <1>2

\* Both instances of SingleInstance name the same objects.
LEMMA SameObjects ==
  /\ SP!ConfigMapKey = SI!ConfigMapKey
  /\ SP!DeploymentKey = SI!DeploymentKey
  /\ SP!ServiceKey = SI!ServiceKey
  /\ SP!Watched = SI!Watched
  /\ SP!Keys = SI!Keys
  BY DEF SI!ConfigMapKey, SP!ConfigMapKey, SI!ClaimKey, SP!ClaimKey,
         SI!DeploymentKey, SP!DeploymentKey, SI!ServiceKey, SP!ServiceKey,
         SI!FinalizedClaim, SP!FinalizedClaim, SI!FinalizedConfigMap,
         SP!FinalizedConfigMap, SI!Watched, SP!Watched, SI!Keys, SP!Keys

\* They have the same types and start the same.
LEMMA SameInstanceStates ==
  /\ SP!TypeOK <=> SI!TypeOK
  /\ SP!Init <=> SI!Init
  /\ SP!vars = SI!vars
<1>1. SP!TypeOK <=> SI!TypeOK
  BY SameObjects
  DEF SI!AllShapes, SP!AllShapes, SI!Instance, SP!Instance, SI!Child, SP!Child,
      SI!Stages, SP!Stages, SI!Work, SP!Work, SI!TypeOK, SP!TypeOK
<1>2. SP!Init <=> SI!Init
  BY SameObjects
  DEF SI!NoInstance, SP!NoInstance, SI!NoChild, SP!NoChild, SI!Rest, SP!Rest,
      SI!Init, SP!Init
<1>3. SP!vars = SI!vars
  BY DEF SI!vars, SP!vars
<1> QED BY <1>1, <1>2, <1>3

\* They take the same steps.
LEMMA SameInstanceSteps ==
  /\ SP!OpenNext <=> SI!OpenNext
  /\ SP!Next <=> SI!Next
  /\ SP!Elsewhere <=> SI!Elsewhere
  /\ \A n \in Names : SP!User(n) \/ SP!Cluster(n) <=> SI!User(n) \/ SI!Cluster(n)
<1> USE SameObjects
<1> USE DEF SI!ClaimKey, SP!ClaimKey, SI!FinalizedClaim, SP!FinalizedClaim,
            SI!FinalizedConfigMap, SP!FinalizedConfigMap, SI!NoInstance,
            SP!NoInstance, SI!NoChild, SP!NoChild, SI!Rest, SP!Rest, SI!store,
            SP!store, SI!caches, SP!caches, SI!Move, SP!Move, SI!Holding,
            SP!Holding, SI!Goto, SP!Goto, SI!ReturnErr, SP!ReturnErr,
            SI!ReturnOk, SP!ReturnOk, SI!Die, SP!Die, SI!Accepts, SP!Accepts,
            SI!Stored, SP!Stored, SI!Settled, SP!Settled, SI!Removed, SP!Removed
<1>1. ASSUME NEW m \in Managers PROVE SP!Stage(m) <=> SI!Stage(m)
  <2>1. /\ SP!FinalizePersistentVolumeClaims(m) <=> SI!FinalizePersistentVolumeClaims(m)
        /\ SP!FinalizeDeployment(m) <=> SI!FinalizeDeployment(m)
        /\ SP!FinalizeService(m) <=> SI!FinalizeService(m)
        /\ SP!FinalizeConfigMap(m) <=> SI!FinalizeConfigMap(m)
    BY DEF SI!DeleteChild, SP!DeleteChild, SI!SizeOf, SP!SizeOf,
           SI!FinalizePersistentVolumeClaims, SP!FinalizePersistentVolumeClaims,
           SI!FinalizeDeployment, SP!FinalizeDeployment, SI!FinalizeService,
           SP!FinalizeService, SI!FinalizeConfigMap, SP!FinalizeConfigMap
  <2>2. /\ SP!RemoveOwnFinalizer(m) <=> SI!RemoveOwnFinalizer(m)
        /\ SP!SaveDeleted(m) <=> SI!SaveDeleted(m)
        /\ SP!AddFinalizer(m) <=> SI!AddFinalizer(m)
        /\ SP!UpdateStatus(m) <=> SI!UpdateStatus(m)
        /\ SP!UpdateSpecAnnotation(m) <=> SI!UpdateSpecAnnotation(m)
    BY DEF SI!UpdateInstance, SP!UpdateInstance, SI!StatusOf, SP!StatusOf,
           SI!RemoveOwnFinalizer, SP!RemoveOwnFinalizer, SI!SaveDeleted,
           SP!SaveDeleted, SI!AddFinalizer, SP!AddFinalizer, SI!UpdateStatus,
           SP!UpdateStatus, SI!UpdateSpecAnnotation, SP!UpdateSpecAnnotation
  <2>3. /\ SP!Validate(m) <=> SI!Validate(m)
        /\ SP!LookupDeployment(m) <=> SI!LookupDeployment(m)
    BY DEF SI!ValidateSpec, SP!ValidateSpec, SI!Validate, SP!Validate,
           SI!LookupDeployment, SP!LookupDeployment
  <2>4. /\ SP!CreateConfigMap(m) <=> SI!CreateConfigMap(m)
        /\ SP!CreatePersistentVolumeClaim(m) <=> SI!CreatePersistentVolumeClaim(m)
        /\ SP!CreateDeployment(m) <=> SI!CreateDeployment(m)
        /\ SP!CreateService(m) <=> SI!CreateService(m)
    BY DEF SI!NewContainersPanics, SP!NewContainersPanics, SI!NewDeployment,
           SP!NewDeployment, SI!NewService, SP!NewService, SI!MySQLConfigString,
           SP!MySQLConfigString, SI!NewConfigMap, SP!NewConfigMap,
           SI!NewPersistentVolumeClaim, SP!NewPersistentVolumeClaim, SI!Desired,
           SP!Desired, SI!Written, SP!Written, SI!CreateChild, SP!CreateChild,
           SI!CreateConfigMap, SP!CreateConfigMap,
           SI!CreatePersistentVolumeClaim, SP!CreatePersistentVolumeClaim,
           SI!CreateDeployment, SP!CreateDeployment, SI!CreateService,
           SP!CreateService
  <2>5. /\ SP!ReadResource(m) <=> SI!ReadResource(m)
        /\ SP!CreateMissing(m) <=> SI!CreateMissing(m)
    BY DEF SI!NewContainersPanics, SP!NewContainersPanics, SI!NewDeployment,
           SP!NewDeployment, SI!NewService, SP!NewService, SI!MySQLConfigString,
           SP!MySQLConfigString, SI!NewConfigMap, SP!NewConfigMap,
           SI!NewPersistentVolumeClaim, SP!NewPersistentVolumeClaim, SI!Desired,
           SP!Desired, SI!Written, SP!Written, SI!CreateChild, SP!CreateChild,
           SI!ReadResource, SP!ReadResource, SI!CreateMissing, SP!CreateMissing
  <2>6. /\ SP!UpdateExisting(m) <=> SI!UpdateExisting(m)
        /\ SP!RewriteExisting(m) <=> SI!RewriteExisting(m)
    BY DEF SI!NewContainersPanics, SP!NewContainersPanics, SI!NewDeployment,
           SP!NewDeployment, SI!NewService, SP!NewService, SI!MySQLConfigString,
           SP!MySQLConfigString, SI!NewConfigMap, SP!NewConfigMap,
           SI!NewPersistentVolumeClaim, SP!NewPersistentVolumeClaim, SI!Desired,
           SP!Desired, SI!Written, SP!Written, SI!UpdateChild, SP!UpdateChild,
           SI!NextChild, SP!NextChild, SI!UpdateExisting, SP!UpdateExisting,
           SI!RewriteExisting, SP!RewriteExisting
  <2> QED BY <2>1, <2>2, <2>3, <2>4, <2>5, <2>6 DEF SI!Stage, SP!Stage
<1>2. ASSUME NEW m \in Managers PROVE SP!Manager(m) <=> SI!Manager(m)
  <2>1. \A n \in Names : SP!Begin(m, n) <=> SI!Begin(m, n)
    BY DEF SI!Begin, SP!Begin
  <2>2. SP!CallFails(m) <=> SI!CallFails(m)
    BY DEF SI!CallStages, SP!CallStages, SI!Stages, SP!Stages, SI!CallFails,
           SP!CallFails
  <2>3. /\ SP!Crash(m) <=> SI!Crash(m)
        /\ SP!Restart(m) <=> SI!Restart(m)
    BY DEF SI!Crash, SP!Crash, SI!Restart, SP!Restart
  <2>4. \A n \in Names : SP!SyncInstance(m, n) <=> SI!SyncInstance(m, n)
    BY DEF SI!SyncInstance, SP!SyncInstance
  <2>5. SP!Watched = SI!Watched
          /\ \A n \in Names, k \in SI!Watched : SP!SyncChild(m, n, k) <=> SI!SyncChild(m, n, k)
    BY DEF SI!SyncChild, SP!SyncChild
  <2> QED BY <1>1, <2>1, <2>2, <2>3, <2>4, <2>5 DEF SI!Manager, SP!Manager
<1>3. ASSUME NEW n \in Names PROVE SP!User(n) <=> SI!User(n)
  BY DEF SI!Submitted, SP!Submitted, SI!Edited, SP!Edited, SI!Marked, SP!Marked,
         SI!UserCreates, SP!UserCreates, SI!UserEdits, SP!UserEdits,
         SI!UserDeletes, SP!UserDeletes, SI!UserDropsDeployment,
         SP!UserDropsDeployment, SI!User, SP!User
<1>4. ASSUME NEW n \in Names PROVE SP!Cluster(n) <=> SI!Cluster(n)
  BY DEF SI!Released, SP!Released, SI!ReleaseForeign, SP!ReleaseForeign,
         SI!Drifted, SP!Drifted, SI!Drift, SP!Drift, SI!CollectDeployment,
         SP!CollectDeployment, SI!Cluster, SP!Cluster
<1>5. SP!Elsewhere <=> SI!Elsewhere
  BY DEF SI!Written, SP!Written, SI!ClaimsChanged, SP!ClaimsChanged,
         SI!Elsewhere, SP!Elsewhere
<1>6. SP!Next <=> SI!Next
  BY <1>2, <1>3, <1>4 DEF SI!Next, SP!Next
<1>7. SP!OpenNext <=> SI!OpenNext
  BY <1>5, <1>6 DEF SI!OpenNext, SP!OpenNext
<1> QED BY <1>3, <1>4, <1>5, <1>6, <1>7

\* The same of both instances of GroupReplication.
LEMMA SameClusterObjects ==
  /\ GP!SecretKey = GR!SecretKey
  /\ GP!StatefulSetKey = GR!StatefulSetKey
  /\ GP!ServiceKey = GR!ServiceKey
  /\ GP!Ordinals = GR!Ordinals
  /\ GP!Read = GR!Read
  /\ GP!Keys = GR!Keys
  BY DEF GR!SecretKey, GP!SecretKey, GR!ConfigMapKey, GP!ConfigMapKey,
         GR!ClaimKey, GP!ClaimKey, GR!StatefulSetKey, GP!StatefulSetKey,
         GR!ServiceKey, GP!ServiceKey, GR!Ordinals, GP!Ordinals, GR!Read,
         GP!Read, GR!Keys, GP!Keys

\* Their types and initial states.
LEMMA SameClusterStates ==
  /\ GP!TypeOK <=> GR!TypeOK
  /\ GP!Init <=> GR!Init
  /\ GP!vars = GR!vars
<1>1. GP!TypeOK <=> GR!TypeOK
  BY SameClusterObjects
  DEF GR!AllShapes, GP!AllShapes, GR!Cluster, GP!Cluster, GR!Child, GP!Child,
      GR!Stages, GP!Stages, GR!Work, GP!Work, GR!TypeOK, GP!TypeOK
<1>2. GP!Init <=> GR!Init
  BY SameClusterObjects
  DEF GR!NoCluster, GP!NoCluster, GR!NoChild, GP!NoChild, GR!Rest, GP!Rest,
      GR!Init, GP!Init
<1>3. GP!vars = GR!vars
  BY DEF GR!vars, GP!vars
<1> QED BY <1>1, <1>2, <1>3

\* Their steps.
LEMMA SameClusterSteps ==
  /\ GP!OpenNext <=> GR!OpenNext
  /\ GP!Next <=> GR!Next
  /\ GP!Elsewhere <=> GR!Elsewhere
  /\ \A n \in Names : GP!User(n) \/ GP!CollectStatefulSet(n)
                       <=> GR!User(n) \/ GR!CollectStatefulSet(n)
<1> USE SameClusterObjects
<1> USE DEF GR!ConfigMapKey, GP!ConfigMapKey, GR!ClaimKey, GP!ClaimKey,
            GR!NoCluster, GP!NoCluster, GR!NoChild, GP!NoChild, GR!Rest,
            GP!Rest, GR!store, GP!store, GR!caches, GP!caches, GR!Move, GP!Move,
            GR!Goto, GP!Goto, GR!ReturnErr, GP!ReturnErr, GR!ReturnOk,
            GP!ReturnOk, GR!Die, GP!Die, GR!GetSize, GP!GetSize, GR!NoSize,
            GP!NoSize
<1>1. ASSUME NEW m \in Managers PROVE GP!Stage(m) <=> GR!Stage(m)
  <2>1. /\ GP!LookupStatefulSet(m) <=> GR!LookupStatefulSet(m)
        /\ GP!GetConfigMap(m) <=> GR!GetConfigMap(m)
    BY DEF GR!LookupStatefulSet, GP!LookupStatefulSet, GR!GetConfigMap, GP!GetConfigMap
  <2>2. /\ GP!CreateSecret(m) <=> GR!CreateSecret(m)
        /\ GP!CreateStatefulSet(m) <=> GR!CreateStatefulSet(m)
    BY DEF GR!Loop, GP!Loop, GR!Manifest, GP!Manifest, GR!CreateChild,
           GP!CreateChild, GR!CreateSecret, GP!CreateSecret,
           GR!CreateStatefulSet, GP!CreateStatefulSet
  <2>3. /\ GP!CreateConfigMap(m) <=> GR!CreateConfigMap(m)
        /\ GP!CreatePersistentVolumeClaim(m) <=> GR!CreatePersistentVolumeClaim(m)
        /\ GP!CreateService(m) <=> GR!CreateService(m)
    BY DEF GR!Manifest, GP!Manifest, GR!CreateChild, GP!CreateChild,
           GR!CreateConfigMap, GP!CreateConfigMap, GR!CreatePersistentVolumeClaim,
           GP!CreatePersistentVolumeClaim, GR!CreateService, GP!CreateService
  <2> QED BY <2>1, <2>2, <2>3 DEF GR!Stage, GP!Stage
<1>2. ASSUME NEW m \in Managers PROVE GP!Manager(m) <=> GR!Manager(m)
  <2>1. \A n \in Names : GP!Begin(m, n) <=> GR!Begin(m, n)
    BY DEF GR!Begin, GP!Begin
  <2>2. GP!CallFails(m) <=> GR!CallFails(m)
    BY DEF GR!CallStages, GP!CallStages, GR!CallFails, GP!CallFails
  <2>3. /\ GP!Crash(m) <=> GR!Crash(m)
        /\ GP!Restart(m) <=> GR!Restart(m)
    BY DEF GR!Crash, GP!Crash, GR!Restart, GP!Restart
  <2>4. \A n \in Names : GP!SyncCluster(m, n) <=> GR!SyncCluster(m, n)
    BY DEF GR!SyncCluster, GP!SyncCluster
  <2>5. GP!Read = GR!Read
          /\ \A n \in Names, k \in GR!Read : GP!SyncChild(m, n, k) <=> GR!SyncChild(m, n, k)
    BY DEF GR!SyncChild, GP!SyncChild
  <2> QED BY <1>1, <2>1, <2>2, <2>3, <2>4, <2>5 DEF GR!Manager, GP!Manager
<1>3. ASSUME NEW n \in Names PROVE GP!User(n) <=> GR!User(n)
  BY DEF GR!MaxInt32, GP!MaxInt32, GR!Increment, GP!Increment, GR!Default,
         GP!Default, GR!Admitted, GP!Admitted, GR!UserCreates, GP!UserCreates,
         GR!UserEdits, GP!UserEdits, GR!UserTouches, GP!UserTouches,
         GR!UserDeletes, GP!UserDeletes, GR!UserDrops, GP!UserDrops, GR!User,
         GP!User
<1>4. ASSUME NEW n \in Names PROVE GP!CollectStatefulSet(n) <=> GR!CollectStatefulSet(n)
  BY DEF GR!CollectStatefulSet, GP!CollectStatefulSet
<1>5. GP!Elsewhere <=> GR!Elsewhere
  BY DEF GR!ClaimsLost, GP!ClaimsLost, GR!Elsewhere, GP!Elsewhere
<1>6. GP!Next <=> GR!Next
  BY <1>2, <1>3, <1>4 DEF GR!Next, GP!Next
<1>7. GP!OpenNext <=> GR!OpenNext
  BY <1>5, <1>6 DEF GR!OpenNext, GP!OpenNext
<1> QED BY <1>3, <1>4, <1>5, <1>6, <1>7

\* Each controller runs in the operator as the proofs about it take for granted.
LEMMA ProofsApply == Spec => SP!OpenSpec /\ GP!OpenSpec
<1>1. Init => SP!Init /\ GP!Init
  BY SameInstanceStates, SameClusterStates DEF Init
<1>2. [Next]_vars => [SP!OpenNext]_(SP!vars) /\ [GP!OpenNext]_(GP!vars)
  BY OperatorSteps, SameInstanceSteps, SameClusterSteps
  DEF SP!vars, SI!vars, GP!vars, GR!vars
<1> QED BY <1>1, <1>2, PTL DEF Spec, SP!OpenSpec, GP!OpenSpec

-----------------------------------------------------------------------------
(* The types.                                                              *)

\* The types of both controllers, which their own proofs give.
ControllerTypes == SI!TypeOK /\ GR!TypeOK

\* They hold here, too.
LEMMA ControllersTyped == Spec => []ControllerTypes
<1>1. SP!OpenSpec => []SP!TypeOK
  BY ConstantsFit, SP!TypesAmongOthers
<1>2. GP!OpenSpec => []GP!TypeOK
  BY ConstantsFit, GP!HoldsAmongOthers, PTL
<1>3. SP!TypeOK /\ GP!TypeOK => ControllerTypes
  BY SameInstanceStates, SameClusterStates DEF ControllerTypes
<1> QED BY <1>1, <1>2, <1>3, ProofsApply, PTL

\* The types of what the process adds to them.
ProcessTypes == boot \in [Managers -> Boots] /\ failures \in Nat

\* What fails is paid for.
LEMMA SpentType ==
  /\ failures \in Nat /\ SI!TypeOK /\ SI!TypeOK' /\ Spend(sBudget, sBudget') => failures' \in Nat
  /\ failures \in Nat /\ GR!TypeOK /\ GR!TypeOK' /\ Spend(gBudget, gBudget') => failures' \in Nat
<1>1. ASSUME failures \in Nat, NEW a \in Nat, NEW b \in Nat, NEW c \in Nat, NEW d \in Nat,
             failures' = failures - (a - b) - (c - d), failures' >= 0
      PROVE  failures' \in Nat
  BY <1>1, SMT
<1>2. SI!TypeOK => sBudget.faults \in Nat /\ sBudget.crashes \in Nat
  BY DEF SI!TypeOK
<1>3. SI!TypeOK' => sBudget'.faults \in Nat /\ sBudget'.crashes \in Nat
  BY DEF SI!TypeOK
<1>4. GR!TypeOK => gBudget.faults \in Nat /\ gBudget.crashes \in Nat
  BY DEF GR!TypeOK
<1>5. GR!TypeOK' => gBudget'.faults \in Nat /\ gBudget'.crashes \in Nat
  BY DEF GR!TypeOK
<1> QED BY <1>1, <1>2, <1>3, <1>4, <1>5 DEF Spend

\* Start, panics and failures keep the types of the process.
LEMMA ProcessTypeStep ==
  ControllerTypes /\ ControllerTypes' /\ ProcessTypes /\ [Next]_vars => ProcessTypes'
<1> SUFFICES ASSUME ControllerTypes, ControllerTypes', ProcessTypes, [Next]_vars
             PROVE  ProcessTypes'
  OBVIOUS
<1>0. \A m \in Managers, b \in Boots :
        [boot EXCEPT ![m] = b] \in [Managers -> Boots]
  BY DEF ProcessTypes
<1>1. CASE UNCHANGED vars
  BY <1>1 DEF vars, ProcessTypes
<1>2. ASSUME NEW m \in Managers, Launch(m) PROVE ProcessTypes'
  <2>1. {"execute", "setup", "start", "serving", "exited", CommandOf(Args)} \subseteq Boots
    BY DEF Boots, CommandOf
  <2> QED BY <1>0, <1>2, <2>1
          DEF Launch, Execute, Setup, Serve, Relaunch, ProcessTypes
<1>3. ASSUME NEW m \in Managers, StartFails(m) PROVE ProcessTypes'
  <2>1. failures - 1 \in Nat
    BY <1>3, SMT DEF ProcessTypes, StartFails
  <2> QED BY <1>0, <1>3, <2>1 DEF StartFails, ProcessTypes, Boots
<1>4. ASSUME NEW m \in Managers, GroupFollows(m) \/ InstanceFollows(m)
      PROVE  ProcessTypes'
  <2>1. failures' \in Nat
    BY <1>4, SpentType DEF GroupFollows, InstanceFollows, ControllerTypes, ProcessTypes
  <2>2. boot' \in [Managers -> Boots]
    BY <1>0, <1>4 DEF GroupFollows, InstanceFollows, ProcessTypes, Boots
  <2> QED BY <2>1, <2>2 DEF ProcessTypes
<1>5. ASSUME NEW n \in Names, InstanceOutside(n) \/ GroupOutside(n) PROVE ProcessTypes'
  BY <1>5 DEF InstanceOutside, GroupOutside, ProcessTypes
<1> QED BY <1>1, <1>2, <1>3, <1>4, <1>5
        DEF Next, InstanceWorker, GroupWorker, Deliver, Fails, InstanceBegin,
            InstanceStage, InstanceSync, InstanceSyncChild, InstanceFails, Crash,
            GroupBegin, GroupStage, GroupSync, GroupSyncChild, GroupFails

\* So start, failures and the rest of the process keep their types.
LEMMA ProcessTyped == Spec => []ProcessTypes
<1>1. Init => ProcessTypes
  BY OperatorAssumption DEF SI!ConstantsAssumption, Init, ProcessTypes, Boots
<1> QED BY <1>1, ControllersTyped, ProcessTypeStep, PTL DEF Spec

\* Every variable of the operator keeps its type, in both controllers and in
\* the process around them; in particular no failure is ever paid for twice.
THEOREM TypeCorrect == Spec => []TypeOK
<1>1. ControllerTypes /\ ProcessTypes => TypeOK
  BY DEF ControllerTypes, ProcessTypes, TypeOK
<1> QED BY <1>1, ProcessTyped, ControllersTyped, PTL

-----------------------------------------------------------------------------
(* What the controllers promise, kept in the operator.                     *)

\* Whatever the clusters do to the process, and to the claims, a handler that
\* has seen an instance being deleted creates nothing for it, no write of the
\* operator takes a user's spec back, and what the clean-up leaves behind stays.
THEOREM InstancePromises ==
  Spec => []SI!NoCreateForTerminating /\ SI!SpecNeverReverted /\ SP!LeftBehind
<1>1. SP!OpenSpec => /\ []SP!NoCreateForTerminating
                     /\ SP!SpecNeverReverted
                     /\ SP!LeftBehind
  BY ConstantsFit, SP!HoldsAmongOthers, SP!CleanUpLeavesThem, PTL
<1>2. SP!NoCreateForTerminating <=> SI!NoCreateForTerminating
  BY DEF SP!NoCreateForTerminating, SI!NoCreateForTerminating,
         SP!ChildStages, SI!ChildStages
<1>3. SP!SpecNeverReverted <=> SI!SpecNeverReverted
  BY PTL DEF SP!SpecNeverReverted, SI!SpecNeverReverted, SP!vars, SI!vars
<1> QED BY <1>1, <1>2, <1>3, ProofsApply, PTL

\* With one process, what the instances promise their owners holds beside the
\* clusters, the refinement of the abstract lifecycle included.
THEOREM SoleProcessPromises ==
  ASSUME \A m1, m2 \in Managers : m1 = m2
  PROVE  Spec => /\ []SI!NoOrphanedWorkload
                 /\ SI!LiveWorkloadKept
                 /\ SI!MonotoneRollout
                 /\ SI!ImplementsLifecycle
<1>1. SP!OpenSpec => /\ []SP!NoOrphanedWorkload
                     /\ SP!LiveWorkloadKept
                     /\ SP!MonotoneRollout
                     /\ SP!ImplementsLifecycle
  BY ConstantsFit, SP!OwnsAmongOthers, PTL DEF SP!SoleManager
<1>2. SP!NoOrphanedWorkload <=> SI!NoOrphanedWorkload
  BY SameObjects DEF SP!NoOrphanedWorkload, SI!NoOrphanedWorkload
<1>3. SP!LiveWorkloadKept <=> SI!LiveWorkloadKept
  BY PTL DEF SP!LiveWorkloadKept, SI!LiveWorkloadKept, SP!DeploymentKey,
             SI!DeploymentKey, SP!vars, SI!vars
<1>4. SP!MonotoneRollout <=> SI!MonotoneRollout
  BY PTL DEF SP!MonotoneRollout, SI!MonotoneRollout, SP!DeploymentKey,
             SI!DeploymentKey, SP!vars, SI!vars
<1>5. SP!ImplementsLifecycle <=> SI!ImplementsLifecycle
  BY PTL DEF SP!ImplementsLifecycle, SI!ImplementsLifecycle, SP!PartKey,
             SI!PartKey, SP!DeploymentKey, SI!DeploymentKey, SP!ServiceKey,
             SI!ServiceKey, SP!Lifecycle!Spec, SI!Lifecycle!Spec,
             SP!Lifecycle!Init, SI!Lifecycle!Init, SP!Lifecycle!Next,
             SI!Lifecycle!Next, SP!Lifecycle!vars, SI!Lifecycle!vars,
             SP!Lifecycle!Parts, SI!Lifecycle!Parts, SP!Lifecycle!Idle,
             SI!Lifecycle!Idle, SP!Lifecycle!Submit, SI!Lifecycle!Submit,
             SP!Lifecycle!Claim, SI!Lifecycle!Claim, SP!Lifecycle!Start,
             SI!Lifecycle!Start, SP!Lifecycle!Stop, SI!Lifecycle!Stop,
             SP!Lifecycle!Leave, SI!Lifecycle!Leave, SP!Lifecycle!Vanish,
             SI!Lifecycle!Vanish, SP!Lifecycle!LetGo, SI!Lifecycle!LetGo
<1> QED BY <1>1, <1>2, <1>3, <1>4, <1>5, ProofsApply, PTL

\* Whatever the instances do to the process, and take of its claims, the
\* Secret of a cluster lets one handler through, a StatefulSet has the Secret
\* and the ConfigMap it needs, and there is no second member.
THEOREM ClusterPromises ==
  Spec => []GR!OneCreator /\ []GP!SetUpComplete /\ []GP!OneMember
<1>1. GP!OpenSpec => []GP!OneCreator /\ []GP!SetUpComplete /\ []GP!OneMember
  BY ConstantsFit, GP!HoldsAmongOthers, GP!NoSecondMember, PTL
<1>2. GP!OneCreator <=> GR!OneCreator
  BY DEF GP!OneCreator, GR!OneCreator, GP!PastSecret, GR!PastSecret
<1> QED BY <1>1, <1>2, ProofsApply, PTL

\* Nor is there a way out once a round has ended between its first child and
\* its workload, by a panic of either controller say: the instance never gets its
\* Deployment, and the cluster no StatefulSet until a user drops a child.
THEOREM StrandedAlsoHere == Spec => SP!StrandedForGood /\ GP!StrandedForGood
  BY ConstantsFit, ProofsApply, SP!StrandedStays, GP!StrandedStays, PTL

-----------------------------------------------------------------------------
(* The claims both controllers name.                                       *)

\* There is one claim of each such name, and both see it.
OneStore ==
  \A n \in Names, i \in Shared :
    gKids[n][GR!ClaimKey(i)].live <=> sKids[n][SI!FinalizedClaim(i)].live

\* What the controllers' own proofs give to start from.
ControllersOK ==
  /\ SP!HandlerInv
  /\ GP!TypeInv
  /\ GP!CreatorInv

\* Their invariants hold here, too.
LEMMA ControllersHold == Spec => []ControllersOK
<1>1. SP!OpenSpec => []SP!HandlerInv
  BY ConstantsFit, SP!HandlerInit, SP!HandlerStep, PTL DEF SP!OpenSpec
<1>2. GP!OpenSpec => []GP!TypeInv /\ []GP!CreatorInv
  BY ConstantsFit, GP!TypesAmongOthers, GP!CreatorCorrect, PTL
<1> QED BY <1>1, <1>2, ProofsApply, PTL DEF ControllersOK

\* The names themselves.
LEMMA ClaimNames ==
  ASSUME NEW i \in Shared
  PROVE  /\ i \in GR!Ordinals
         /\ i \in 0 .. Replicas
         /\ GR!ClaimKey(i) \in GR!Keys
         /\ GR!ClaimKey(i) # GP!StatefulSetKey
         /\ SI!FinalizedClaim(i) \in SI!Keys
         /\ SI!FinalizedClaim(i) \notin SP!Watched \cup {SP!ClaimKey, SP!FinalizedConfigMap}
         /\ SI!FinalizedClaim(i) \notin {SP!DeploymentKey, SP!ServiceKey}
         /\ \A j : GR!ClaimKey(i) = GR!ClaimKey(j) => i = j
         /\ \A j : SI!FinalizedClaim(i) = SI!FinalizedClaim(j) => i = j
<1>1. i \in GR!Ordinals /\ i \in 0 .. Replicas
  BY SharedNames, OperatorAssumption, SMT DEF Shared
<1>2. GR!ClaimKey(i) \in GR!Keys /\ SI!FinalizedClaim(i) \in SI!Keys
  BY <1>1 DEF GR!Keys, SI!Keys
<1>3. GR!ClaimKey(i) # GP!StatefulSetKey
  BY SMT DEF GR!ClaimKey, GP!StatefulSetKey
<1>4. SI!FinalizedClaim(i) \notin SP!Watched \cup {SP!ClaimKey, SP!FinalizedConfigMap}
  BY SMT DEF SI!FinalizedClaim, SP!Watched, SP!ClaimKey, SP!FinalizedConfigMap,
             SP!DeploymentKey, SP!ServiceKey, SP!ConfigMapKey
<1>5. {SP!DeploymentKey, SP!ServiceKey} \subseteq SP!Watched
  BY DEF SP!Watched
<1>6. \A j : GR!ClaimKey(i) = GR!ClaimKey(j) => i = j
  BY SMT DEF GR!ClaimKey
<1>7. \A j : SI!FinalizedClaim(i) = SI!FinalizedClaim(j) => i = j
  BY SMT DEF SI!FinalizedClaim
<1> QED BY <1>1, <1>2, <1>3, <1>4, <1>5, <1>6, <1>7

\* The clusters lose just what is gone for the instances.
LEMMA LossKnown ==
  ASSUME GroupLosesClaims, NEW n \in Names, NEW i \in Shared
  PROVE  gKids'[n][GR!ClaimKey(i)].live <=>
           gKids[n][GR!ClaimKey(i)].live /\ sKids'[n][SI!FinalizedClaim(i)].live
<1> DEFINE lost == {x \in Names \X Shared :
                      ~sKids'[x[1]][SI!FinalizedClaim(x[2])].live}
<1>1. <<n, i>> \in lost <=> ~sKids'[n][SI!FinalizedClaim(i)].live
  OBVIOUS
<1>2. GR!ClaimsLost(lost)
  BY DEF GroupLosesClaims
<1> HIDE DEF lost
<1>3. gKids'[n][GR!ClaimKey(i)] =
        IF <<n, i>> \in lost THEN GR!NoChild ELSE gKids[n][GR!ClaimKey(i)]
  BY <1>2, ClaimNames DEF GR!ClaimsLost
<1>4. GR!NoChild.live = FALSE
  BY DEF GR!NoChild
<1> QED BY <1>1, <1>3, <1>4

\* The instances see just what there is of the clusters.
LEMMA ChangeKnown ==
  ASSUME InstanceSeesClaims, ControllerTypes, ControllerTypes',
         NEW n \in Names, NEW i \in Shared
  PROVE  sKids'[n][SI!FinalizedClaim(i)].live <=> gKids'[n][GR!ClaimKey(i)].live
<1> DEFINE changed == {x \in Names \X Shared :
                         gKids'[x[1]][GR!ClaimKey(x[2])].live
                           # sKids[x[1]][SI!FinalizedClaim(x[2])].live}
           old == sKids[n][SI!FinalizedClaim(i)]
           seen == gKids'[n][GR!ClaimKey(i)].live
<1>1. old.live \in BOOLEAN /\ seen \in BOOLEAN
  BY ClaimNames DEF ControllerTypes, SI!TypeOK, SI!Child, GR!TypeOK, GR!Child
<1>2. <<n, i>> \in changed <=> seen # old.live
  OBVIOUS
<1>3. SI!ClaimsChanged(changed)
  BY DEF InstanceSeesClaims
<1> HIDE DEF changed
<1>4. sKids'[n][SI!FinalizedClaim(i)] =
        IF <<n, i>> \in changed
        THEN IF old.live THEN SI!Removed(old) ELSE SI!Written(old.rv + 1, 0, 0)
        ELSE old
  BY <1>3, ClaimNames DEF SI!ClaimsChanged
<1>5. SI!Removed(old).live = FALSE /\ SI!Written(old.rv + 1, 0, 0).live = TRUE
  BY DEF SI!Removed, SI!Written
<1> HIDE DEF old, seen
<1>6. CASE <<n, i>> \in changed
  <2>1. CASE old.live
    BY <1>1, <1>2, <1>4, <1>5, <1>6, <2>1 DEF seen
  <2>2. CASE ~old.live
    BY <1>1, <1>2, <1>4, <1>5, <1>6, <2>2 DEF seen
  <2> QED BY <2>1, <2>2
<1>7. CASE <<n, i>> \notin changed
  BY <1>1, <1>2, <1>4, <1>7 DEF old, seen
<1> QED BY <1>6, <1>7

\* What a step does to one such claim: nothing, or a cluster makes it, or a
\* user drops it, or the finalizer of the instance of that name asks for it.
ClaimStep(n, i) ==
  /\ gKids'[n][GR!ClaimKey(i)].live <=> sKids'[n][SI!FinalizedClaim(i)].live
  /\ gKids[n][GR!ClaimKey(i)].live /\ ~gKids'[n][GR!ClaimKey(i)].live =>
       \/ gBudget'.drops < gBudget.drops
       \/ \E m \in Managers :
            LET w == sWork[m] IN
            w.pc = "delClaims" /\ w.key = n /\ w.at = i /\ w.obj.del

\* A step of the instances changes a shared claim in both views, and takes it
\* only where the finalizer has come to it.
LEMMA InstanceClaimStep ==
  ASSUME ControllersOK, OneStore, GroupLosesClaims, [SI!Next]_(SI!vars)
  PROVE  \A n \in Names, i \in Shared : ClaimStep(n, i)
<1> SUFFICES ASSUME NEW n \in Names, NEW i \in Shared
             PROVE  ClaimStep(n, i)
  OBVIOUS
<1> DEFINE k == SI!FinalizedClaim(i)
<1>1. \A x \in Names, y \in SP!Keys : SP!ComesOrGoes(x, y)
  <2>1. SP!TypeInv
    BY DEF ControllersOK, SP!HandlerInv
  <2>2. [SP!Next]_(SP!vars)
    BY SameInstanceSteps DEF SP!vars, SI!vars
  <2> QED BY <2>1, <2>2, ConstantsFit, SP!ChildrenByName
<1>2. SP!ComesOrGoes(n, k)
  BY <1>1, ClaimNames, SameObjects
<1>3. \/ sKids'[n][k].live = sKids[n][k].live
      \/ /\ ~sKids'[n][k].live
         /\ \E m \in Managers : /\ sWork[m].pc = "delClaims"
                                /\ sWork[m].key = n
                                /\ k = SP!FinalizedClaim(sWork[m].at)
  BY <1>2, ClaimNames DEF SP!ComesOrGoes
<1>4. \A m \in Managers : sWork[m].pc = "delClaims" => sWork[m].obj.del
  <2>1. "delClaims" \in SP!Busy /\ "delClaims" \in SP!DeletionStages
    BY DEF SP!Busy, SP!Stages, SP!DeletionStages
  <2> QED BY <2>1 DEF ControllersOK, SP!HandlerInv, SP!WorkersOK, SP!StageOK
<1>5. \A j : k = SP!FinalizedClaim(j) => i = j
  BY ClaimNames DEF SP!FinalizedClaim, SI!FinalizedClaim
<1> HIDE DEF k
<1>6. gKids[n][GR!ClaimKey(i)].live <=> sKids[n][k].live
  BY DEF OneStore, k
<1>7. gKids'[n][GR!ClaimKey(i)].live <=>
        gKids[n][GR!ClaimKey(i)].live /\ sKids'[n][k].live
  BY LossKnown DEF k
<1>8. gKids'[n][GR!ClaimKey(i)].live <=> sKids'[n][k].live
  BY <1>3, <1>6, <1>7
<1>9. ASSUME gKids[n][GR!ClaimKey(i)].live, ~gKids'[n][GR!ClaimKey(i)].live
      PROVE  \E m \in Managers : /\ sWork[m].pc = "delClaims"
                                 /\ sWork[m].key = n
                                 /\ sWork[m].at = i
                                 /\ sWork[m].obj.del
  BY <1>3, <1>4, <1>5, <1>6, <1>8, <1>9
<1> QED BY <1>8, <1>9 DEF ClaimStep, k

\* A step of the clusters changes it in both views, and takes it only for a
\* user.
LEMMA GroupClaimStep ==
  ASSUME ControllersOK, ControllerTypes, ControllerTypes', InstanceSeesClaims,
         [GR!Next]_(GR!vars)
  PROVE  \A n \in Names, i \in Shared : ClaimStep(n, i)
<1> SUFFICES ASSUME NEW n \in Names, NEW i \in Shared
             PROVE  ClaimStep(n, i)
  OBVIOUS
<1> DEFINE k == GR!ClaimKey(i)
<1>1. k \in GP!Keys /\ k # GP!StatefulSetKey
  BY ClaimNames, SameClusterObjects
<1>2. [GP!Next]_(GP!vars)
  BY SameClusterSteps DEF GP!vars, GR!vars
<1>3. GP!TypeInv /\ GP!CreatorInv
  BY DEF ControllersOK
<1> HIDE DEF k
<1>4. gKids[n][k].live => gKids'[n][k].live \/ gBudget'.drops < gBudget.drops
  BY <1>1, <1>2, <1>3, ConstantsFit, GP!ChildrenByOrdinal
<1> QED BY <1>4, ChangeKnown DEF ClaimStep, k

\* Every step of the operator.
LEMMA ClaimSteps ==
  ASSUME ControllersOK, ControllerTypes, ControllerTypes', OneStore, [Next]_vars
  PROVE  \A n \in Names, i \in Shared : ClaimStep(n, i)
<1>1. ASSUME UNCHANGED <<sKids, gKids>>
      PROVE  \A n \in Names, i \in Shared : ClaimStep(n, i)
  BY <1>1 DEF OneStore, ClaimStep
<1>2. CASE UNCHANGED vars
  BY <1>1, <1>2 DEF vars, instanceVars, groupVars
<1>3. ASSUME NEW m \in Managers,
             Execute(m) \/ Setup(m) \/ StartFails(m) \/ Relaunch(m) \/ Serve(m)
      PROVE  \A n \in Names, i \in Shared : ClaimStep(n, i)
  <2>1. UNCHANGED <<sKids, gKids>>
    BY <1>3 DEF Execute, Setup, StartFails, Relaunch, Serve, instanceVars, groupVars,
                SI!Restart, SI!store, GR!Restart, GR!store
  <2> QED BY <1>1, <2>1
<1>4. ASSUME NEW m \in Managers,
             \/ InstanceStage(m)
             \/ InstanceFails(m)
             \/ Crash(m)
             \/ \E n \in Names : InstanceBegin(m, n) \/ InstanceSync(m, n)
             \/ \E n \in Names, k \in SI!Watched : InstanceSyncChild(m, n, k)
      PROVE  \A n \in Names, i \in Shared : ClaimStep(n, i)
  <2>1. SI!Next
    BY <1>4, InstanceSteps
  <2>2. GroupLosesClaims
    BY <1>4 DEF InstanceStage, InstanceFails, Crash, InstanceBegin, InstanceSync,
                InstanceSyncChild, GroupFollows
  <2> QED BY <2>1, <2>2, InstanceClaimStep
<1>5. ASSUME NEW m \in Managers,
             \/ GroupStage(m)
             \/ GroupFails(m)
             \/ \E n \in Names : GroupBegin(m, n) \/ GroupSync(m, n)
             \/ \E n \in Names, k \in GR!Read : GroupSyncChild(m, n, k)
      PROVE  \A n \in Names, i \in Shared : ClaimStep(n, i)
  <2>1. GR!Next
    BY <1>5, GroupSteps
  <2>2. InstanceSeesClaims
    BY <1>5 DEF GroupStage, GroupFails, GroupBegin, GroupSync, GroupSyncChild,
                InstanceFollows
  <2> QED BY <2>1, <2>2, GroupClaimStep
<1>6. ASSUME NEW x \in Names, InstanceOutside(x)
      PROVE  \A n \in Names, i \in Shared : ClaimStep(n, i)
  <2>1. SP!TypeInv
    BY DEF ControllersOK, SP!HandlerInv
  <2>2. SP!User(x) \/ SP!Cluster(x)
    BY <1>6, SameInstanceSteps DEF InstanceOutside
  <2>3. \A n \in Names, k \in SP!Keys :
          \/ sKids'[n][k].live = sKids[n][k].live
          \/ ~sKids'[n][k].live /\ k \in {SP!DeploymentKey, SP!ServiceKey}
    BY <2>1, <2>2, ConstantsFit, SP!OutsideReaches
  <2>4. \A n \in Names, i \in Shared :
          sKids'[n][SI!FinalizedClaim(i)].live = sKids[n][SI!FinalizedClaim(i)].live
    BY <2>3, ClaimNames, SameObjects
  <2>5. gKids' = gKids
    BY <1>6 DEF InstanceOutside, groupVars
  <2> QED BY <2>4, <2>5 DEF OneStore, ClaimStep
<1>7. ASSUME NEW x \in Names, GroupOutside(x)
      PROVE  \A n \in Names, i \in Shared : ClaimStep(n, i)
  <2>1. GR!Next /\ InstanceSeesClaims
    BY <1>7 DEF GroupOutside, GR!Next
  <2> QED BY <2>1, GroupClaimStep
<1> QED BY <1>2, <1>3, <1>4, <1>5, <1>6, <1>7
        DEF Next, Launch, InstanceWorker, GroupWorker, Deliver, Fails

\* In every reachable state both see the same claims.
LEMMA OneStoreHolds == Spec => []OneStore
<1>1. Init => OneStore
  <2>1. \A n \in Names, i \in Shared : GR!ClaimKey(i) \in GR!Keys /\ SI!FinalizedClaim(i) \in SI!Keys
    BY ClaimNames
  <2> QED BY <2>1 DEF Init, SI!Init, GR!Init, SI!NoChild, GR!NoChild, OneStore
<1>2. /\ ControllersOK
      /\ ControllerTypes
      /\ ControllerTypes'
      /\ OneStore
      /\ [Next]_vars
      => OneStore'
  BY ClaimSteps DEF ClaimStep, OneStore
<1> QED BY <1>1, <1>2, ControllersHold, ControllersTyped, PTL DEF Spec

\* A cluster's claim goes only when a user drops it, or when the finalizer of an
\* instance of the same name, which is being deleted, is at just that ordinal.
THEOREM ClaimsLostOnlySo == Spec => ClaimLostToNamesake
<1> DEFINE P == \A n \in Names, i \in Shared :
                  gKids[n][GR!ClaimKey(i)].live /\ ~gKids'[n][GR!ClaimKey(i)].live =>
                    \/ gBudget'.drops < gBudget.drops
                    \/ \E m \in Managers :
                         LET w == sWork[m] IN
                         w.pc = "delClaims" /\ w.key = n /\ w.at = i /\ w.obj.del
<1>1. /\ ControllersOK
      /\ ControllerTypes
      /\ ControllerTypes'
      /\ OneStore
      /\ [Next]_vars
      => P
  BY ClaimSteps DEF ClaimStep
<1>2. Spec => [][P]_vars
  BY <1>1, OneStoreHolds, ControllersHold, ControllersTyped, PTL DEF Spec
<1> QED BY <1>2 DEF ClaimLostToNamesake

-----------------------------------------------------------------------------
(* A process and its workers.                                              *)

\* A step of the instance controller is that of a worker that is up, and leaves
\* the workers of other processes alone.
LEMMA InstanceWorkers ==
  ASSUME SI!TypeOK, NEW m \in Managers,
         \/ SI!Stage(m)
         \/ SI!CallFails(m)
         \/ SI!Crash(m)
         \/ \E n \in Names : SI!Begin(m, n) \/ SI!SyncInstance(m, n)
         \/ \E n \in Names, k \in SI!Watched : SI!SyncChild(m, n, k)
  PROVE  /\ sWork[m].pc # "down"
         /\ \A x \in Managers \ {m} : sWork'[x] = sWork[x]
<1> DEFINE Alone == \A x \in Managers \ {m} : sWork'[x] = sWork[x]
<1> SUFFICES sWork[m].pc # "down" /\ Alone
  OBVIOUS
<1>1. ASSUME NEW w, SI!Move(m, w) PROVE Alone
  BY <1>1 DEF SI!Move, SI!TypeOK
<1>2. UNCHANGED sWork => Alone
  OBVIOUS
<1> HIDE DEF Alone
<1>3. ASSUME NEW k, NEW s, s # "down", NEW ACTION next, SI!DeleteChild(m, k, s, next),
             next => Alone
      PROVE  sWork[m].pc # "down" /\ Alone
  BY <1>1, <1>3 DEF SI!DeleteChild, SI!ReturnErr
<1>4. ASSUME NEW new, NEW s, SI!UpdateInstance(m, new, s) PROVE Alone
  BY <1>1, <1>4 DEF SI!UpdateInstance, SI!ReturnErr
<1>5. ASSUME NEW k, NEW s, SI!CreateChild(m, k, s) PROVE Alone
  BY <1>1, <1>5 DEF SI!CreateChild, SI!Goto, SI!ReturnErr
<1>6. CASE \/ SI!FinalizePersistentVolumeClaims(m) \/ SI!FinalizeDeployment(m)
           \/ SI!FinalizeService(m) \/ SI!FinalizeConfigMap(m)
  BY <1>1, <1>3, <1>6
  DEF SI!FinalizePersistentVolumeClaims, SI!FinalizeDeployment, SI!FinalizeService,
      SI!FinalizeConfigMap, SI!Goto
<1>7. CASE \/ SI!RemoveOwnFinalizer(m) \/ SI!SaveDeleted(m) \/ SI!AddFinalizer(m)
           \/ SI!UpdateStatus(m) \/ SI!UpdateSpecAnnotation(m)
  BY <1>4, <1>7
  DEF SI!RemoveOwnFinalizer, SI!SaveDeleted, SI!AddFinalizer, SI!UpdateStatus,
      SI!UpdateSpecAnnotation
<1>8. CASE \/ SI!CreateConfigMap(m) \/ SI!CreatePersistentVolumeClaim(m)
           \/ SI!CreateDeployment(m) \/ SI!CreateService(m) \/ SI!CreateMissing(m)
  BY <1>1, <1>5, <1>8
  DEF SI!CreateConfigMap, SI!CreatePersistentVolumeClaim, SI!CreateDeployment,
      SI!CreateService, SI!CreateMissing, SI!Die
<1>9. CASE SI!UpdateExisting(m) \/ SI!RewriteExisting(m)
  BY <1>1, <1>9
  DEF SI!UpdateExisting, SI!RewriteExisting, SI!UpdateChild, SI!NextChild, SI!Goto,
      SI!ReturnErr, SI!ReturnOk
<1>10. CASE SI!Validate(m) \/ SI!LookupDeployment(m) \/ SI!ReadResource(m)
  BY <1>1, <1>10
  DEF SI!Validate, SI!LookupDeployment, SI!ReadResource, SI!Goto, SI!ReturnErr, SI!Die
<1>11. CASE \/ SI!CallFails(m)
            \/ SI!Crash(m)
            \/ \E n \in Names : SI!Begin(m, n) \/ SI!SyncInstance(m, n)
            \/ \E n \in Names, k \in SI!Watched : SI!SyncChild(m, n, k)
  BY <1>1, <1>2, <1>11
  DEF SI!CallFails, SI!CallStages, SI!Crash, SI!Begin, SI!SyncInstance, SI!SyncChild,
      SI!ReturnErr, SI!Die
<1> QED BY <1>6, <1>7, <1>8, <1>9, <1>10, <1>11 DEF SI!Stage

\* The same of the cluster controller.
LEMMA GroupWorkers ==
  ASSUME GR!TypeOK, NEW m \in Managers,
         \/ GR!Stage(m)
         \/ GR!CallFails(m)
         \/ \E n \in Names : GR!Begin(m, n) \/ GR!SyncCluster(m, n)
         \/ \E n \in Names, k \in GR!Read : GR!SyncChild(m, n, k)
  PROVE  /\ gWork[m].pc # "down"
         /\ \A x \in Managers \ {m} : gWork'[x] = gWork[x]
<1> DEFINE Alone == \A x \in Managers \ {m} : gWork'[x] = gWork[x]
<1> SUFFICES gWork[m].pc # "down" /\ Alone
  OBVIOUS
<1>1. ASSUME NEW w, GR!Move(m, w) PROVE Alone
  BY <1>1 DEF GR!Move, GR!TypeOK
<1>2. UNCHANGED gWork => Alone
  OBVIOUS
<1> HIDE DEF Alone
<1>3. ASSUME NEW k, NEW ACTION next, GR!CreateChild(m, k, next), next => Alone
      PROVE  Alone
  BY <1>1, <1>3 DEF GR!CreateChild, GR!ReturnErr
<1>4. \A i : GR!Loop(m, i) => Alone
  BY <1>1 DEF GR!Loop
<1>5. GR!Die(m) \/ GR!ReturnOk(m) => Alone
  BY <1>1 DEF GR!Die, GR!ReturnOk
<1>6. \A s : GR!Goto(m, s) => Alone
  BY <1>1 DEF GR!Goto
<1>7. CASE GR!LookupStatefulSet(m) \/ GR!GetConfigMap(m)
  BY <1>5, <1>6, <1>7 DEF GR!LookupStatefulSet, GR!GetConfigMap
<1>8. CASE GR!CreateSecret(m)
  BY <1>3, <1>4, <1>5, <1>8 DEF GR!CreateSecret
<1>9. CASE GR!CreateConfigMap(m) \/ GR!CreatePersistentVolumeClaim(m)
  BY <1>3, <1>5, <1>6, <1>9 DEF GR!CreateConfigMap, GR!CreatePersistentVolumeClaim
<1>10. CASE GR!CreateStatefulSet(m) \/ GR!CreateService(m)
  BY <1>3, <1>4, <1>5, <1>10 DEF GR!CreateStatefulSet, GR!CreateService
<1>11. CASE \/ GR!CallFails(m)
            \/ \E n \in Names : GR!Begin(m, n) \/ GR!SyncCluster(m, n)
            \/ \E n \in Names, k \in GR!Read : GR!SyncChild(m, n, k)
  BY <1>1, <1>2, <1>11
  DEF GR!CallFails, GR!CallStages, GR!Begin, GR!SyncCluster, GR!SyncChild, GR!ReturnErr
<1> QED BY <1>7, <1>8, <1>9, <1>10, <1>11 DEF GR!Stage

\* Users and Kubernetes leave the workers alone.
LEMMA OutsideWorkers ==
  ASSUME NEW n \in Names, InstanceOutside(n) \/ GroupOutside(n)
  PROVE  UNCHANGED <<boot, sWork, gWork>>
<1>1. SI!User(n) \/ SI!Cluster(n) => UNCHANGED sWork
  BY DEF SI!User, SI!UserCreates, SI!UserEdits, SI!UserDeletes, SI!UserDropsDeployment,
         SI!Cluster, SI!ReleaseForeign, SI!Drift, SI!CollectDeployment
<1>2. GR!User(n) \/ GR!CollectStatefulSet(n) => UNCHANGED gWork
  BY DEF GR!User, GR!UserCreates, GR!UserEdits, GR!UserTouches, GR!UserDeletes,
         GR!UserDrops, GR!CollectStatefulSet
<1> QED BY <1>1, <1>2 DEF InstanceOutside, GroupOutside, groupVars

\* A process serves as long as both its workers are up: a panic of the one
\* ends the other, and nothing works in a process that has not started.
WorkersFollow ==
  \A m \in Managers :
    /\ boot[m] = "serving" <=> sWork[m].pc # "down"
    /\ boot[m] = "serving" <=> gWork[m].pc # "down"

\* Whatever starts or ends a process starts or ends both workers.
LEMMA FollowStep ==
  ControllerTypes /\ ProcessTypes /\ WorkersFollow /\ [Next]_vars => WorkersFollow'
<1> SUFFICES ASSUME ControllerTypes, ProcessTypes, WorkersFollow, [Next]_vars
             PROVE  WorkersFollow'
  OBVIOUS
<1>0. /\ DOMAIN boot = Managers
      /\ DOMAIN sWork = Managers
      /\ DOMAIN gWork = Managers
  BY DEF ControllerTypes, ProcessTypes, SI!TypeOK, GR!TypeOK
<1>1. ASSUME UNCHANGED <<boot, sWork, gWork>> PROVE WorkersFollow'
  BY <1>1 DEF WorkersFollow
<1>2. ASSUME NEW m \in Managers, UNCHANGED <<sWork, gWork>>, NEW b,
             boot' = [boot EXCEPT ![m] = b], b # "serving", boot[m] # "serving"
      PROVE  WorkersFollow'
  BY <1>0, <1>2 DEF WorkersFollow
<1>3. ASSUME NEW m \in Managers, Execute(m) \/ Setup(m) \/ StartFails(m) \/ Relaunch(m)
      PROVE  WorkersFollow'
  <2>1. CommandOf(Args) # "serving"
    BY DEF CommandOf
  <2> QED BY <1>2, <1>3, <2>1
          DEF Execute, Setup, StartFails, Relaunch, instanceVars, groupVars
<1>4. ASSUME NEW m \in Managers, Serve(m) PROVE WorkersFollow'
  <2>1. /\ boot' = [boot EXCEPT ![m] = "serving"]
        /\ sWork' = [sWork EXCEPT ![m] = SI!Rest("idle")]
        /\ gWork' = [gWork EXCEPT ![m] = GR!Rest("idle")]
    BY <1>4 DEF Serve, SI!Restart, SI!Move, GR!Restart, GR!Move
  <2>2. SI!Rest("idle").pc = "idle" /\ GR!Rest("idle").pc = "idle"
    BY DEF SI!Rest, GR!Rest
  <2>3. \A x \in Managers :
          /\ boot'[x] = IF x = m THEN "serving" ELSE boot[x]
          /\ sWork'[x] = IF x = m THEN SI!Rest("idle") ELSE sWork[x]
          /\ gWork'[x] = IF x = m THEN GR!Rest("idle") ELSE gWork[x]
    BY <1>0, <2>1
  <2> QED BY <2>2, <2>3 DEF WorkersFollow
<1>5. ASSUME NEW m \in Managers, GroupFollows(m), sWork[m].pc # "down",
             \A x \in Managers \ {m} : sWork'[x] = sWork[x]
      PROVE  WorkersFollow'
  <2>1. CASE UNCHANGED <<gWork, boot>> /\ sWork'[m].pc # "down"
    BY <1>5, <2>1 DEF WorkersFollow
  <2>2. CASE /\ sWork'[m].pc = "down"
             /\ gWork' = [gWork EXCEPT ![m] = GR!Rest("down")]
             /\ boot' = [boot EXCEPT ![m] = "exited"]
    <3>1. GR!Rest("down").pc = "down"
      BY DEF GR!Rest
    <3>2. \A x \in Managers :
            /\ boot'[x] = IF x = m THEN "exited" ELSE boot[x]
            /\ gWork'[x] = IF x = m THEN GR!Rest("down") ELSE gWork[x]
      BY <1>0, <2>2
    <3> QED BY <1>5, <2>2, <3>1, <3>2 DEF WorkersFollow
  <2> QED BY <1>5, <2>1, <2>2 DEF GroupFollows, GR!Die, GR!Move
<1>6. ASSUME NEW m \in Managers, InstanceFollows(m), gWork[m].pc # "down",
             \A x \in Managers \ {m} : gWork'[x] = gWork[x]
      PROVE  WorkersFollow'
  <2>1. CASE UNCHANGED <<sWork, boot>> /\ gWork'[m].pc # "down"
    BY <1>6, <2>1 DEF WorkersFollow
  <2>2. CASE /\ gWork'[m].pc = "down"
             /\ sWork' = [sWork EXCEPT ![m] = SI!Rest("down")]
             /\ boot' = [boot EXCEPT ![m] = "exited"]
    <3>1. SI!Rest("down").pc = "down"
      BY DEF SI!Rest
    <3>2. \A x \in Managers :
            /\ boot'[x] = IF x = m THEN "exited" ELSE boot[x]
            /\ sWork'[x] = IF x = m THEN SI!Rest("down") ELSE sWork[x]
      BY <1>0, <2>2
    <3> QED BY <1>6, <2>2, <3>1, <3>2 DEF WorkersFollow
  <2> QED BY <1>6, <2>1, <2>2 DEF InstanceFollows, SI!Die, SI!Move
<1>7. ASSUME NEW m \in Managers,
             \/ InstanceStage(m)
             \/ InstanceFails(m)
             \/ Crash(m)
             \/ \E n \in Names : InstanceBegin(m, n) \/ InstanceSync(m, n)
             \/ \E n \in Names, k \in SI!Watched : InstanceSyncChild(m, n, k)
      PROVE  WorkersFollow'
  BY <1>5, <1>7, InstanceWorkers
  DEF InstanceStage, InstanceFails, Crash, InstanceBegin, InstanceSync,
      InstanceSyncChild, ControllerTypes
<1>8. ASSUME NEW m \in Managers,
             \/ GroupStage(m)
             \/ GroupFails(m)
             \/ \E n \in Names : GroupBegin(m, n) \/ GroupSync(m, n)
             \/ \E n \in Names, k \in GR!Read : GroupSyncChild(m, n, k)
      PROVE  WorkersFollow'
  BY <1>6, <1>8, GroupWorkers
  DEF GroupStage, GroupFails, GroupBegin, GroupSync, GroupSyncChild, ControllerTypes
<1>9. ASSUME NEW n \in Names, InstanceOutside(n) \/ GroupOutside(n)
      PROVE  WorkersFollow'
  BY <1>1, <1>9, OutsideWorkers
<1>10. CASE UNCHANGED vars
  BY <1>1, <1>10 DEF vars, instanceVars, groupVars
<1> QED BY <1>3, <1>4, <1>7, <1>8, <1>9, <1>10
        DEF Next, Launch, InstanceWorker, GroupWorker, Deliver, Fails

\* So neither controller works on in a process that the other has ended.
THEOREM WorkersShareTheProcess == Spec => []WorkersFollow
<1>1. Init => WorkersFollow
  <2>1. SI!Rest("down").pc = "down" /\ GR!Rest("down").pc = "down"
    BY DEF SI!Rest, GR!Rest
  <2>2. /\ Init => boot = [m \in Managers |-> "execute"]
        /\ SI!Init => sWork = [m \in Managers |-> SI!Rest("down")]
        /\ GR!Init => gWork = [m \in Managers |-> GR!Rest("down")]
    BY DEF Init, SI!Init, GR!Init
  <2>3. Init => SI!Init /\ GR!Init
    BY DEF Init
  <2> QED BY <2>1, <2>2, <2>3 DEF WorkersFollow
<1>2. Spec => []ControllerTypes /\ []ProcessTypes
  BY ProcessTyped, ControllersTyped, PTL
<1> QED BY <1>1, <1>2, FollowStep, PTL DEF Spec

-----------------------------------------------------------------------------
(* The operator with arguments, as config/manager/manager.yaml starts it.  *)

NothingServes == \A m \in Managers : boot[m] \in {"execute", "exited"}

NothingMade ==
  \A n \in Names :
    /\ \A k \in SI!Keys : ~sKids[n][k].live
    /\ \A k \in GR!Keys : ~gKids[n][k].live

\* Without workers there are only the users and the garbage collector,
LEMMA OutsideMakesNothing ==
  ASSUME ControllersOK, ControllerTypes, ControllerTypes', NothingMade,
         NEW n \in Names, InstanceOutside(n) \/ GroupOutside(n)
  PROVE  NothingMade'
<1>1. CASE InstanceOutside(n)
  <2>1. SP!TypeInv
    BY DEF ControllersOK, SP!HandlerInv
  <2>2. SP!User(n) \/ SP!Cluster(n)
    BY <1>1, SameInstanceSteps DEF InstanceOutside
  <2>3. \A x \in Names, k \in SI!Keys :
          \/ sKids'[x][k].live = sKids[x][k].live
          \/ ~sKids'[x][k].live /\ k \in {SP!DeploymentKey, SP!ServiceKey}
    BY <2>1, <2>2, ConstantsFit, SP!OutsideReaches, SameObjects
  <2>4. gKids' = gKids
    BY <1>1 DEF InstanceOutside, groupVars
  <2> QED BY <2>3, <2>4 DEF NothingMade
<1>2. CASE GroupOutside(n)
  <2>1. GP!TypeInv
    BY DEF ControllersOK
  <2>2. GP!User(n) \/ GP!CollectStatefulSet(n)
    BY <1>2, SameClusterSteps DEF GroupOutside
  <2>3. \A x \in Names, k \in GR!Keys : gKids'[x][k].live => gKids[x][k].live
    BY <2>1, <2>2, ConstantsFit, GP!OutsideTakes, SameClusterObjects
  <2> DEFINE changed == {x \in Names \X Shared :
                           gKids'[x[1]][GR!ClaimKey(x[2])].live
                             # sKids[x[1]][SI!FinalizedClaim(x[2])].live}
  <2>4. ASSUME NEW x \in Names, NEW i \in Shared PROVE <<x, i>> \notin changed
    <3>1. /\ gKids'[x][GR!ClaimKey(i)].live \in BOOLEAN
          /\ sKids[x][SI!FinalizedClaim(i)].live \in BOOLEAN
      BY ClaimNames DEF ControllerTypes, SI!TypeOK, SI!Child, GR!TypeOK, GR!Child
    <3>2. /\ ~gKids'[x][GR!ClaimKey(i)].live
          /\ ~sKids[x][SI!FinalizedClaim(i)].live
      BY <2>3, ClaimNames DEF NothingMade
    <3> QED BY <3>1, <3>2
  <2>5. SI!ClaimsChanged(changed) /\ changed \subseteq Names \X Shared
    BY <1>2 DEF GroupOutside, InstanceSeesClaims
  <2> HIDE DEF changed
  <2>6. changed = {}
    BY <2>4, <2>5
  <2>7. \A x \in Names, k \in SI!Keys : sKids'[x][k] = sKids[x][k]
    BY <2>5, <2>6 DEF SI!ClaimsChanged
  <2> QED BY <2>3, <2>7 DEF NothingMade
<1> QED BY <1>1, <1>2

\* and there are no workers where nothing serves.
LEMMA NothingStep ==
  ASSUME Args # <<>>, ControllersOK, ControllerTypes, ControllerTypes', ProcessTypes,
         WorkersFollow, NothingServes, NothingMade, [Next]_vars
  PROVE  NothingServes' /\ NothingMade'
<1>1. \A m \in Managers : sWork[m].pc = "down" /\ gWork[m].pc = "down"
  BY DEF WorkersFollow, NothingServes
<1>2. CASE UNCHANGED vars
  BY <1>2 DEF vars, instanceVars, groupVars, NothingServes, NothingMade
<1>3. ASSUME NEW m \in Managers, Launch(m) \/ StartFails(m)
      PROVE  NothingServes' /\ NothingMade'
  <2>1. Execute(m) \/ Relaunch(m)
    BY <1>3 DEF Launch, Setup, Serve, StartFails, NothingServes
  <2>2. CommandOf(Args) = "exited"
    BY DEF CommandOf
  <2>3. \E b \in {"execute", "exited"} : boot' = [boot EXCEPT ![m] = b]
    BY <2>1, <2>2 DEF Execute, Relaunch
  <2>4. UNCHANGED <<sKids, gKids>>
    BY <2>1 DEF Execute, Relaunch, instanceVars, groupVars
  <2> QED BY <2>3, <2>4 DEF NothingServes, NothingMade, ProcessTypes
<1>4. ASSUME NEW m \in Managers,
             \/ InstanceWorker(m) \/ GroupWorker(m) \/ Deliver(m)
             \/ InstanceFails(m) \/ GroupFails(m) \/ Crash(m)
      PROVE  FALSE
  <2>1. CASE \/ InstanceStage(m)
             \/ InstanceFails(m)
             \/ Crash(m)
             \/ \E n \in Names : InstanceBegin(m, n) \/ InstanceSync(m, n)
             \/ \E n \in Names, k \in SI!Watched : InstanceSyncChild(m, n, k)
    BY <1>1, <2>1, InstanceWorkers
    DEF InstanceStage, InstanceFails, Crash, InstanceBegin, InstanceSync,
        InstanceSyncChild, ControllerTypes
  <2>2. CASE \/ GroupStage(m)
             \/ GroupFails(m)
             \/ \E n \in Names : GroupBegin(m, n) \/ GroupSync(m, n)
             \/ \E n \in Names, k \in GR!Read : GroupSyncChild(m, n, k)
    BY <1>1, <2>2, GroupWorkers
    DEF GroupStage, GroupFails, GroupBegin, GroupSync, GroupSyncChild, ControllerTypes
  <2> QED BY <1>4, <2>1, <2>2 DEF InstanceWorker, GroupWorker, Deliver
<1>5. ASSUME NEW n \in Names, InstanceOutside(n) \/ GroupOutside(n)
      PROVE  NothingServes' /\ NothingMade'
  <2>1. UNCHANGED boot
    BY <1>5, OutsideWorkers
  <2> QED BY <1>5, <2>1, OutsideMakesNothing DEF NothingServes
<1> QED BY <1>2, <1>3, <1>4, <1>5 DEF Next, Fails

\* Given any argument, a flag or a word, the operator never serves, however
\* often the kubelet starts it again: no instance and no cluster that a user
\* submits ever gets a child.
THEOREM NothingRunsWithArguments ==
  ASSUME Args # <<>>
  PROVE  Spec => []NothingServes /\ []NothingMade
<1>1. Init => NothingServes
  BY DEF Init, NothingServes
<1>2. Init => NothingMade
  BY DEF Init, SI!Init, GR!Init, SI!NoChild, GR!NoChild, NothingMade
<1>3. /\ ControllersOK
      /\ ControllerTypes
      /\ ControllerTypes'
      /\ ProcessTypes
      /\ WorkersFollow
      /\ NothingServes
      /\ NothingMade
      /\ [Next]_vars
      => NothingServes' /\ NothingMade'
  BY NothingStep
<1> QED BY <1>1, <1>2, <1>3, ControllersHold, ControllersTyped, ProcessTyped,
           WorkersShareTheProcess, PTL DEF Spec
=============================================================================
