------------------------------ MODULE Operator ------------------------------
(***************************************************************************)
(* The operator as one process runs it: its command line, the set-up of    *)
(* the manager, and then both controllers, over the objects of one         *)
(* namespace.                                                              *)
(*                                                                         *)
(* SingleInstance and GroupReplication are composed step by step.  They    *)
(* meet in two places.  A panic in one handler ends the process, and with  *)
(* it the other controller's queue and the round it was in.  And the names *)
(* "<name>-db-<i>" belong to both: they are what the finalizer of a        *)
(* SingleInstance deletes and what a cluster calls its claims.             *)
(*                                                                         *)
(* As in those modules, a "Variant" is the definition that follows it with *)
(* a bug.                                                                  *)
(***************************************************************************)
EXTENDS Integers, Sequences

CONSTANTS
  Managers,        \* operator processes
  Names,           \* names of resources, of either kind, in one namespace
  NoName,          \* the key of an idle worker
  Args,            \* the arguments the Deployment gives the operator
  MaxFailures,     \* bound: failed start-ups, failed calls and crashes
  InstanceShapes,  \* the shapes of SingleInstance spec the users submit
  ClusterShapes,   \* the shapes of clusterSpec the users submit
  BornWithOwn, ForeignHold, Replicas, MemberLists, Webhooks, MaxMembers,
  Forbidden, Rejected,
  MaxBorn, MaxVer, MaxDrifts, MaxInstanceDrops, MaxTouches, MaxClusterDrops

VARIABLES
  boot,      \* how far each process has come in main
  failures,  \* what is left of failed start-ups, failed calls and crashes
  sCr, sKids, sBorn, sCrCache, sKidCache, sQueue, sWork, sBudget,
  gCr, gKids, gBorn, gCrCache, gKidCache, gQueue, gWork, gBudget

SI == INSTANCE SingleInstance WITH
  Shapes <- InstanceShapes, MaxFaults <- MaxFailures,
  MaxCrashes <- MaxFailures, MaxDrops <- MaxInstanceDrops,
  cr <- sCr, kids <- sKids, born <- sBorn, crCache <- sCrCache,
  kidCache <- sKidCache, queue <- sQueue, work <- sWork, budget <- sBudget

GR == INSTANCE GroupReplication WITH
  Shapes <- ClusterShapes, MaxFaults <- MaxFailures,
  MaxCrashes <- 0, MaxDrops <- MaxClusterDrops,
  cr <- gCr, kids <- gKids, born <- gBorn, crCache <- gCrCache,
  kidCache <- gKidCache, queue <- gQueue, work <- gWork, budget <- gBudget

instanceVars == <<sCr, sKids, sBorn, sCrCache, sKidCache, sQueue, sWork, sBudget>>
groupVars    == <<gCr, gKids, gBorn, gCrCache, gKidCache, gQueue, gWork, gBudget>>
vars         == <<boot, failures, instanceVars, groupVars>>

\* What each controller takes for granted; and the claims of a cluster carry
\* names the finalizer of an instance asks for.
ASSUME OperatorAssumption ==
  /\ SI!ConstantsAssumption
  /\ GR!ConstantsAssumption
  /\ MaxMembers \in 1 .. Replicas
  /\ Args \in Seq(STRING)

Shared == 1 .. MaxMembers

Boots == {"execute", "setup", "start", "serving", "exited"}

TypeOK ==
  /\ boot \in [Managers -> Boots]
  /\ failures \in Nat
  /\ SI!TypeOK
  /\ GR!TypeOK

Init ==
  /\ boot = [m \in Managers |-> "execute"]
  /\ failures = MaxFailures
  /\ SI!Init
  /\ GR!Init

-----------------------------------------------------------------------------
(* main.                                                                   *)

\* The root command takes no arguments, and cobra knows no flags: they are
\* defined in run, when the command line has already been parsed.  So any
\* flag, and any word, ends the process; "version" ends it with success.
CommandOf(args) == IF args = <<>> THEN "setup" ELSE "exited"

Execute(m) ==
  /\ boot[m] = "execute"
  /\ boot' = [boot EXCEPT ![m] = CommandOf(Args)]
  /\ UNCHANGED <<failures, instanceVars, groupVars>>

\* Manager, both controllers, webhook and health checks.
Setup(m) ==
  /\ boot[m] = "setup"
  /\ boot' = [boot EXCEPT ![m] = "start"]
  /\ UNCHANGED <<failures, instanceVars, groupVars>>

\* Variant: the manager serves the clusters; the other controller was never
\* set up, and lists nothing.
ServeWithoutInstances(m) ==
  /\ boot[m] = "start"
  /\ boot' = [boot EXCEPT ![m] = "serving"]
  /\ sWork' = [sWork EXCEPT ![m] = SI!Rest("idle")]
  /\ GR!Restart(m)
  /\ UNCHANGED <<failures, sCr, sKids, sBorn, sCrCache, sKidCache, sQueue, sBudget>>

\* mgr.Start fills the caches and the queues of both controllers.
Serve(m) ==
  /\ boot[m] = "start"
  /\ boot' = [boot EXCEPT ![m] = "serving"]
  /\ SI!Restart(m)
  /\ GR!Restart(m)
  /\ UNCHANGED failures

\* Any error between the command line and the first round ends the process.
StartFails(m) ==
  /\ boot[m] \in {"setup", "start"}
  /\ failures > 0
  /\ failures' = failures - 1
  /\ boot' = [boot EXCEPT ![m] = "exited"]
  /\ UNCHANGED <<instanceVars, groupVars>>

\* The kubelet starts the container again.
Relaunch(m) ==
  /\ boot[m] = "exited"
  /\ boot' = [boot EXCEPT ![m] = "execute"]
  /\ UNCHANGED <<failures, instanceVars, groupVars>>

-----------------------------------------------------------------------------
(* What a step of one controller does to the other.                        *)

\* Variant: a deletion by name takes the ConfigMaps of the members as well.
GroupLosesConfigMaps ==
  gKids' = [n \in Names |-> [k \in GR!Keys |->
              IF \E i \in Shared : /\ k \in {GR!ClaimKey(i), GR!ConfigMapKey(i)}
                                   /\ ~sKids'[n][SI!FinalizedClaim(i)].live
              THEN GR!NoChild ELSE gKids[n][k]]]

\* The claims a deletion by name takes from the clusters.
GroupLosesClaims ==
  GR!ClaimsLost({x \in Names \X Shared : ~sKids'[x[1]][SI!FinalizedClaim(x[2])].live})

\* Variant: a cluster calls its first claim like an instance.
InstanceSeesOwnClaim ==
  sKids' = [n \in Names |->
              IF gKids'[n][GR!ClaimKey(1)].live # gKids[n][GR!ClaimKey(1)].live
              THEN [sKids[n] EXCEPT ![SI!ClaimKey].live = gKids'[n][GR!ClaimKey(1)].live]
              ELSE sKids[n]]

\* The claims the clusters create or lose, as the finalizer would find them.
InstanceSeesClaims ==
  SI!ClaimsChanged({x \in Names \X Shared :
    gKids'[x[1]][GR!ClaimKey(x[2])].live # sKids[x[1]][SI!FinalizedClaim(x[2])].live})

\* One bound for everything that fails.
Spend(old, new) ==
  /\ failures' = failures - (old.faults - new.faults) - (old.crashes - new.crashes)
  /\ failures' >= 0

\* The process goes on, or has ended with the step.
GroupFollows(m) ==
  /\ GroupLosesClaims
  /\ \/ /\ sWork'[m].pc = "down"
        /\ GR!Die(m)
        /\ boot' = [boot EXCEPT ![m] = "exited"]
     \/ /\ sWork'[m].pc # "down"
        /\ UNCHANGED <<gWork, gQueue, boot>>
  /\ Spend(sBudget, sBudget')
  /\ UNCHANGED <<gCr, gBorn, gCrCache, gKidCache, gBudget>>

InstanceFollows(m) ==
  /\ InstanceSeesClaims
  /\ \/ /\ gWork'[m].pc = "down"
        /\ SI!Die(m)
        /\ boot' = [boot EXCEPT ![m] = "exited"]
     \/ /\ gWork'[m].pc # "down"
        /\ UNCHANGED <<sWork, sQueue, boot>>
  /\ Spend(gBudget, gBudget')
  /\ UNCHANGED <<sCr, sBorn, sCrCache, sKidCache, sBudget>>

InstanceBegin(m, n) == SI!Begin(m, n) /\ GroupFollows(m)

InstanceStage(m) == SI!Stage(m) /\ GroupFollows(m)

InstanceSync(m, n) == SI!SyncInstance(m, n) /\ GroupFollows(m)

InstanceSyncChild(m, n, k) == SI!SyncChild(m, n, k) /\ GroupFollows(m)

InstanceFails(m) == SI!CallFails(m) /\ GroupFollows(m)

Crash(m) == SI!Crash(m) /\ GroupFollows(m)

GroupBegin(m, n) == GR!Begin(m, n) /\ InstanceFollows(m)

GroupStage(m) == GR!Stage(m) /\ InstanceFollows(m)

GroupSync(m, n) == GR!SyncCluster(m, n) /\ InstanceFollows(m)

GroupSyncChild(m, n, k) == GR!SyncChild(m, n, k) /\ InstanceFollows(m)

GroupFails(m) == GR!CallFails(m) /\ InstanceFollows(m)

\* Users and the other controllers of the Kubernetes cluster.
InstanceOutside(n) ==
  /\ SI!User(n) \/ SI!Cluster(n)
  /\ UNCHANGED <<boot, failures, groupVars>>

GroupOutside(n) ==
  /\ GR!User(n) \/ GR!CollectStatefulSet(n)
  /\ InstanceSeesClaims
  /\ UNCHANGED <<boot, failures, sCr, sBorn, sCrCache, sKidCache, sQueue, sWork, sBudget>>

-----------------------------------------------------------------------------
(* The system.                                                             *)

Launch(m) == Execute(m) \/ Setup(m) \/ Serve(m) \/ Relaunch(m)

\* The two workers.
InstanceWorker(m) == InstanceStage(m) \/ \E n \in Names : InstanceBegin(m, n)

GroupWorker(m) == GroupStage(m) \/ \E n \in Names : GroupBegin(m, n)

\* A watch brings one of the caches up to date.
Deliver(m) ==
  \/ \E n \in Names : InstanceSync(m, n) \/ GroupSync(m, n)
  \/ \E n \in Names, k \in SI!Watched : InstanceSyncChild(m, n, k)
  \/ \E n \in Names, k \in GR!Read : GroupSyncChild(m, n, k)

Fails(m) == StartFails(m) \/ InstanceFails(m) \/ GroupFails(m) \/ Crash(m)

Next ==
  \/ \E m \in Managers :
       Launch(m) \/ InstanceWorker(m) \/ GroupWorker(m) \/ Deliver(m) \/ Fails(m)
  \/ \E n \in Names : InstanceOutside(n) \/ GroupOutside(n)

Spec == Init /\ [][Next]_vars

\* The process goes through its start and the kubelet starts it again; each
\* worker is a goroutine of its own; the watches together deliver.  Which of
\* several requests or events comes first is left open.
Fairness ==
  \A m \in Managers :
    /\ WF_vars(Launch(m))
    /\ WF_vars(InstanceWorker(m))
    /\ WF_vars(GroupWorker(m))
    /\ WF_vars(Deliver(m))

FairSpec == Spec /\ Fairness

-----------------------------------------------------------------------------
(* Composition.                                                            *)

\* To each controller the rest of the operator does no more than what its
\* OpenSpec allows: what holds of that, holds in the operator.  Neither the
\* panics of the one nor the claims they share reach further into the other.
InstancePart == SI!OpenSpec

ClusterPart == GR!OpenSpec

\* What an instance may cost a cluster: a claim goes only when a user drops
\* it, or when the finalizer of an instance of the same name, which is being
\* deleted, asks for just that ordinal.
ClaimLostToNamesake ==
  [][\A n \in Names, i \in Shared :
       gKids[n][GR!ClaimKey(i)].live /\ ~gKids'[n][GR!ClaimKey(i)].live =>
         \/ gBudget'.drops < gBudget.drops
         \/ \E m \in Managers :
              LET w == sWork[m] IN
              w.pc = "delClaims" /\ w.key = n /\ w.at = i /\ w.obj.del]_vars

-----------------------------------------------------------------------------
(* Liveness.                                                               *)

\* The process comes to stay up, whatever the users submit, as long as it
\* gets as far as the first creation: a part of the spec that is missing
\* behind it ends the process once, and after the restart what the first
\* attempt has left stops the handler before it gets there again.  Neither
\* controller may be ended for good by the other's panics.
OperatorStaysUp ==
  "notemplate" \notin InstanceShapes /\ "nocluster" \notin ClusterShapes =>
    <>[](\A m \in Managers : boot[m] = "serving")

\* An instance that is being deleted is let go, also when a cluster takes the
\* process down in the middle of the clean-up: the next one starts over.
DeletionCompletes == SI!DeletionCompletes

-----------------------------------------------------------------------------
(* What the repository says of the operator, and the code does not do.     *)

\* test/e2e/e2e_test.go:86, "validating that the controller-manager pod is
\* running as expected".
PodRunning == \A m \in Managers : <>(boot[m] = "serving")

\* groupreplicationcluster_controller.go:165, "creates a PersistentVolumeClaim
\* for each member": no step of an instance's finalizer takes it away again.
ClusterClaimKept ==
  [][\A n \in Names, i \in Shared :
       gKids[n][GR!ClaimKey(i)].live /\ sWork' # sWork =>
         gKids'[n][GR!ClaimKey(i)].live]_vars

\* singleinstance_controller.go:65, "perform operations to make the cluster
\* state reflect the state specified by the user".
InstanceReflectsSpec == SI!ClusterReflectsSpec
=============================================================================
