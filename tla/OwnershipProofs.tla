-------------------------- MODULE OwnershipProofs --------------------------
(***************************************************************************)
(* With a single operator process, a Deployment or Service never outlives  *)
(* the SingleInstance that created it, nor the operator's finalizer on it. *)
(*                                                                         *)
(* The argument.  A handler creates children only for a copy that carries  *)
(* the finalizer and no deletion mark.  Such a copy, in the cache or in    *)
(* the handler's hands, vouches that the stored object still carries the   *)
(* finalizer (CacheClaimed, ClaimedBy): the only step that takes it away   *)
(* is made by the one handler there is, from a copy with the deletion      *)
(* mark, and by then its own cache has the mark as well (SawDeletion).     *)
(* And when that step is made both children are gone (Cleared).            *)
(***************************************************************************)
EXTENDS SingleInstanceProofs

SoleManager == \A m1, m2 \in Managers : m1 = m2

\* The children that NoOrphanedWorkload is about.
Parts == {DeploymentKey, ServiceKey}

CacheClaimed ==
  \A m \in Managers, n \in Names :
    LET c == crCache[m][n] IN
    c.own /\ ~c.del => cr[n].uid = c.uid /\ cr[n].own

ClaimedBy(m) ==
  LET o == work[m].obj
      n == work[m].key IN
  work[m].pc \in Busy /\ o.own /\ ~o.del => cr[n].uid = o.uid /\ cr[n].own

SawDeletion(m) ==
  LET c == crCache[m][work[m].key] IN
  work[m].pc \in DeletionStages /\ c.uid = work[m].obj.uid => c.del

Cleared(m) ==
  LET n == work[m].key IN
  /\ work[m].pc \in {"delSvc", "delCm", "unfin"} => ~kids[n][DeploymentKey].live
  /\ work[m].pc \in {"delCm", "unfin"} => ~kids[n][ServiceKey].live

WorkerOwns(m) == ClaimedBy(m) /\ SawDeletion(m) /\ Cleared(m)

OwnerInv ==
  /\ HandlerInv
  /\ NoOrphanedWorkload
  /\ CacheClaimed
  /\ \A m \in Managers : WorkerOwns(m)

-----------------------------------------------------------------------------
(* What a step may do to the children and to the claim on an instance.     *)

\* The child was there before, with the same owner.
Remains(n, k) == kids[n][k].live /\ kids'[n][k].uid = kids[n][k].uid

\* The child is written by a handler that holds its owner.
WrittenBy(m, n, k) ==
  /\ n = work[m].key
  /\ work[m].pc \in ChildStages
  /\ kids'[n][k].uid = work[m].obj.uid

KidsFollow ==
  \A n \in Names, k \in Parts : kids'[n][k].live =>
    Remains(n, k) \/ \E m \in Managers : WrittenBy(m, n, k)

ClaimKept(n) == cr[n].own => cr'[n].uid = cr[n].uid /\ cr'[n].own

\* Deployment and Service are made out to the instance in hand.
LEMMA PartsFacts ==
  /\ Parts \subseteq Watched
  /\ Parts \subseteq Keys
  /\ DeploymentKey # ServiceKey
  /\ \A o, k : k \in Parts => Desired(o, k).uid = o.uid
<1>1. Parts \subseteq Watched /\ Parts \subseteq Keys
  BY DEF Parts, Keys, Watched
<1>2. DeploymentKey # ServiceKey
  <2>1. DeploymentKey[1] = "Deployment" /\ ServiceKey[1] = "Service"
    BY DEF DeploymentKey, ServiceKey
  <2> QED BY <2>1
<1>3. \A o, k : k \in Parts => Desired(o, k).uid = o.uid
  BY DEF Parts, Desired, NewDeployment, NewService
<1> QED BY <1>1, <1>2, <1>3

\* A created child belongs to the instance in the handler's hands,
LEMMA CreateFollows ==
  ASSUME TypeInv, NEW m \in Managers, NEW k \in Keys, NEW t,
         work[m].pc \in ChildStages, work[m].pc \in Busy, CreateChild(m, k, t)
  PROVE  KidsFollow
<1> DEFINE n == work[m].key
           d == Desired(work[m].obj, k)
           c == Written(kids[n][k].rv + 1, d.uid, d.ver)
<1>1. CASE UNCHANGED kids
  BY <1>1 DEF KidsFollow, Remains
<1>2. CASE kids' = [kids EXCEPT ![n][k] = c]
  <2>1. n \in Names /\ kids[n][k] \in Child /\ work[m].obj \in Instance
    BY DEF TypeInv, TypeOK, KeyOK, Work
  <2>2. kids[n][k].rv + 1 \in Nat /\ d.uid \in Nat /\ d.ver \in Nat
    BY <2>1, DesiredType, SMT DEF Child
  <2>3. c \in Child /\ c.uid = d.uid
    <3> HIDE DEF d
    <3>1. c \in Child
      BY <2>2, WrittenType
    <3> QED BY <3>1 DEF Written
  <2>4. k \in Parts => c.uid = work[m].obj.uid
    BY <2>3, PartsFacts
  <2> HIDE DEF c
  <2>5. \A x \in Names, y \in Keys :
          kids'[x][y] = IF x = n /\ y = k THEN c ELSE kids[x][y]
    BY <1>2, <2>3, ChildWrite
  <2> QED BY <2>4, <2>5, PartsFacts DEF KidsFollow, Remains, WrittenBy
<1> QED BY <1>1, <1>2 DEF CreateChild

\* and so does an updated one.
LEMMA UpdateFollows ==
  ASSUME TypeInv, NEW m \in Managers, NEW k \in Keys, NEW rv, NEW d, NEW ACTION next,
         d.uid = Desired(work[m].obj, k).uid, d.ver \in Nat,
         work[m].pc \in ChildStages, work[m].pc \in Busy,
         UpdateChild(m, k, rv, d, next)
  PROVE  KidsFollow
<1> DEFINE n == work[m].key
           old == kids[n][k]
           w == Written(old.rv + 1, d.uid, d.ver)
           c == IF old = Written(old.rv, d.uid, d.ver) THEN old ELSE w
<1>0. n \in Names /\ old \in Child /\ work[m].obj \in Instance
  BY DEF TypeInv, TypeOK, KeyOK, Work
<1>1. CASE UNCHANGED kids
  BY <1>1 DEF KidsFollow, Remains
<1>2. CASE kids' = [kids EXCEPT ![n][k] = c] /\ old.live
  <2>1. old.rv + 1 \in Nat /\ d.uid \in Nat
    BY <1>0, DesiredType, SMT DEF Child
  <2>2. w \in Child /\ w.uid = d.uid
    <3>1. w \in Child
      BY <2>1, WrittenType
    <3> QED BY <3>1 DEF Written
  <2>3. c \in Child /\ (c = old \/ c.uid = d.uid)
    BY <1>0, <2>2
  <2> HIDE DEF c, w
  <2>4. \A x \in Names, y \in Keys :
          kids'[x][y] = IF x = n /\ y = k THEN c ELSE kids[x][y]
    BY <1>2, <2>3, ChildWrite
  <2> QED BY <1>2, <2>3, <2>4, PartsFacts DEF KidsFollow, Remains, WrittenBy
<1> QED BY <1>1, <1>2 DEF UpdateChild

\* A deletion leaves no child behind, or ends the request.
LEMMA DeleteFollows ==
  ASSUME TypeInv, NEW m \in Managers, NEW k, NEW s \in Busy, NEW ACTION next,
         DeleteChild(m, k, s, next)
  PROVE  /\ \A x \in Names, y \in Parts : kids'[x][y].live => Remains(x, y)
         /\ k \in Keys => ~kids'[work[m].key][k].live \/ ReturnErr(m)
<1> DEFINE n == work[m].key
           c == Removed(kids[n][k])
<1>1. CASE UNCHANGED kids /\ ReturnErr(m)
  BY <1>1 DEF Remains
<1>2. CASE kids' = [kids EXCEPT ![n][k] = c]
  <2>1. n \in Names
    BY DEF DeleteChild, TypeInv, KeyOK
  <2>2. ~c.live /\ (k \in Keys => c \in Child)
    BY <2>1, RemovedType DEF TypeInv, TypeOK, Removed
  <2> HIDE DEF c
  <2>3. \A x \in Names, y \in Keys :
          kids'[x][y] = IF x = n /\ y = k THEN c ELSE kids[x][y]
    BY <1>2, <2>2, ChildWrite
  <2> QED BY <2>1, <2>2, <2>3, PartsFacts DEF Remains
<1> QED BY <1>1, <1>2 DEF DeleteChild

-----------------------------------------------------------------------------
(* The invariant.                                                          *)

\* A step that takes no claim away, and moves workers only to where their part
\* of the invariant holds.
LEMMA OwnerKeeps ==
  ASSUME SoleManager, OwnerInv, HandlerInv', KidsFollow,
         \A n \in Names : ClaimKept(n),
         \A x \in Managers, n \in Names : crCache'[x][n] \in {crCache[x][n], cr[n]},
         \A x \in Managers :
           \/ work'[x] = work[x]
           \/ work'[x].pc \notin Busy
           \/ WorkerOwns(x)'
  PROVE  OwnerInv'
<1>1. TypeInv /\ HandlerInv
  BY DEF OwnerInv, HandlerInv
<1>2. NoOrphanedWorkload'
  <2> SUFFICES ASSUME NEW n \in Names, NEW k \in Parts, kids'[n][k].live
               PROVE  cr'[n].uid = kids'[n][k].uid /\ cr'[n].own
    BY DEF NoOrphanedWorkload, Parts
  <2>1. CASE Remains(n, k)
    BY <2>1 DEF Remains, OwnerInv, NoOrphanedWorkload, Parts, ClaimKept
  <2>2. ASSUME NEW m \in Managers, WrittenBy(m, n, k)
        PROVE  cr'[n].uid = kids'[n][k].uid /\ cr'[n].own
    <3>1. work[m].pc \in Busy /\ work[m].pc \in ChildStages
      BY <2>2, BusyStages DEF WrittenBy, ChildStages
    <3>2. work[m].obj.own /\ ~work[m].obj.del
      BY <1>1, <3>1 DEF HandlerInv, WorkersOK, StageOK
    <3>3. cr[n].uid = work[m].obj.uid /\ cr[n].own
      BY <2>2, <3>1, <3>2 DEF OwnerInv, WorkerOwns, ClaimedBy, WrittenBy
    <3> QED BY <2>2, <3>3 DEF WrittenBy, ClaimKept
  <2> QED BY <2>1, <2>2 DEF KidsFollow
<1>3. CacheClaimed'
  BY DEF CacheClaimed, OwnerInv, ClaimKept
<1>4. ASSUME NEW m \in Managers PROVE WorkerOwns(m)'
  <2>1. CASE work'[m].pc \notin Busy
    <3>1. work'[m].pc \notin DeletionStages /\ work'[m].pc \notin {"delSvc", "delCm", "unfin"}
      BY <2>1, BusyStages DEF DeletionStages
    <3> QED BY <2>1, <3>1 DEF WorkerOwns, ClaimedBy, SawDeletion, Cleared
  <2>2. CASE work'[m] = work[m] /\ work[m].pc \in Busy
    <3> DEFINE n == work[m].key
               o == work[m].obj
    <3>1. n \in Names /\ work[m] \in Work
      BY <1>1, <2>2 DEF TypeInv, TypeOK, KeyOK
    <3>2. WorkerOwns(m) /\ CopyOK(o, n) /\ StageOK(work[m])
      BY <2>2 DEF OwnerInv, HandlerInv, WorkersOK
    <3>3. ClaimedBy(m)'
      BY <2>2, <3>1, <3>2 DEF WorkerOwns, ClaimedBy, ClaimKept
    <3>4. SawDeletion(m)'
      <4> SUFFICES ASSUME work[m].pc \in DeletionStages, crCache'[m][n].uid = o.uid
                   PROVE  crCache'[m][n].del
        BY <2>2 DEF SawDeletion
      <4>1. CASE crCache'[m][n] = crCache[m][n]
        BY <3>2, <4>1 DEF WorkerOwns, SawDeletion
      <4>2. CASE crCache'[m][n] = cr[n]
        BY <3>2, <4>2 DEF StageOK, CopyOK
      <4> QED BY <3>1, <4>1, <4>2
    <3>5. work[m].pc \in DeletionStages =>
            \A k \in Parts : kids'[n][k].live => kids[n][k].live
      <4>1. \A x \in Managers : work[x].pc \in ChildStages => work[m].pc \in ChildStages
        BY DEF SoleManager
      <4>2. work[m].pc \in DeletionStages => work[m].pc \notin ChildStages
        BY DEF DeletionStages, ChildStages
      <4> QED BY <3>1, <4>1, <4>2 DEF KidsFollow, Remains, WrittenBy
    <3>6. Cleared(m)'
      BY <2>2, <3>2, <3>5 DEF WorkerOwns, Cleared, DeletionStages, Parts
    <3> QED BY <3>3, <3>4, <3>6 DEF WorkerOwns
  <2> QED BY <2>1, <2>2
<1> QED BY <1>2, <1>3, <1>4 DEF OwnerInv

\* Where the worker goes with the copy it holds.
LEMMA OnwardOwns ==
  ASSUME OwnerInv, NEW m \in Managers, NEW s \in Busy, work[m].pc \in Busy,
         Kept(m, s), \A n \in Names : ClaimKept(n), UNCHANGED crCache,
         s \in DeletionStages => work[m].pc \in DeletionStages,
         Cleared(m)'
  PROVE  WorkerOwns(m)'
<1>1. work[m].key \in Names
  BY DEF OwnerInv, HandlerInv, TypeInv, KeyOK
<1>2. ClaimedBy(m)'
  BY <1>1 DEF OwnerInv, WorkerOwns, ClaimedBy, Kept, ClaimKept
<1>3. SawDeletion(m)'
  BY DEF OwnerInv, WorkerOwns, SawDeletion, Kept
<1> QED BY <1>2, <1>3 DEF WorkerOwns

\* The finalizer clears the children one by one.
LEMMA FinalizerOwns ==
  ASSUME SoleManager, OwnerInv, HandlerInv', NEW m \in Managers,
         \/ FinalizePersistentVolumeClaims(m)
         \/ FinalizeDeployment(m)
         \/ FinalizeService(m)
         \/ FinalizeConfigMap(m)
  PROVE  OwnerInv'
<1> DEFINE n == work[m].key
<1>1. TypeInv
  BY DEF OwnerInv, HandlerInv
<1>2. Cleared(m)
  BY DEF OwnerInv, WorkerOwns
<1>3. ASSUME NEW k, NEW s \in DeletionStages, NEW ACTION next, DeleteChild(m, k, s, next),
             OthersWait(m),
             \/ Ended(m)
             \/ \E t \in DeletionStages : Kept(m, t) /\ Cleared(m)'
      PROVE  OwnerInv'
  <2>1. s \in Busy /\ work[m].pc = s /\ UNCHANGED <<cr, born, crCache>>
    BY <1>3, BusyStages DEF DeletionStages, DeleteChild, caches
  <2>2. KidsFollow
    BY <1>1, <1>3, <2>1, DeleteFollows DEF KidsFollow
  <2>3. \A x \in Names : ClaimKept(x)
    BY <2>1 DEF ClaimKept
  <2>4. work'[m].pc \notin Busy \/ WorkerOwns(m)'
    <3>1. CASE Ended(m)
      BY <3>1, BusyStages DEF Ended
    <3>2. ASSUME NEW t \in DeletionStages, Kept(m, t), Cleared(m)' PROVE WorkerOwns(m)'
      <4>1. t \in Busy
        BY BusyStages DEF DeletionStages
      <4> QED BY <1>3, <2>1, <2>3, <3>2, <4>1, OnwardOwns
    <3> QED BY <1>3, <3>1, <3>2
  <2> QED BY <1>3, <2>1, <2>2, <2>3, <2>4, OwnerKeeps DEF OthersWait
<1>4. CASE FinalizePersistentVolumeClaims(m)
  <2>1. /\ Ended(m) \/ Kept(m, "delClaims") \/ Kept(m, "delDep")
        /\ OthersWait(m)
    BY <1>1, <1>4, FinalizeClaimsFacts
  <2>2. \A t \in {"delClaims", "delDep"} : Kept(m, t) => Cleared(m)'
    BY DEF Kept, Cleared
  <2>3. "delClaims" \in DeletionStages /\ "delDep" \in DeletionStages
    BY DEF DeletionStages
  <2> QED BY <1>3, <1>4, <2>1, <2>2, <2>3 DEF FinalizePersistentVolumeClaims
<1>5. ASSUME NEW k \in Keys \cup {FinalizedConfigMap}, NEW s \in DeletionStages,
             NEW t \in DeletionStages,
             DeleteChild(m, k, s, Goto(m, t)),
             /\ work[m].pc = s
             /\ \A y \in Parts : kids'[n][y].live => kids[n][y].live
             /\ k \in Keys => ~kids'[n][k].live
             /\ work'[m].pc = t
             /\ work'[m].key = n
             => Cleared(m)'
      PROVE  OwnerInv'
  <2>1. s \in Busy /\ t \in Busy
    BY BusyStages DEF DeletionStages
  <2>2. (Ended(m) \/ Kept(m, t)) /\ OthersWait(m) /\ work[m].pc = s
    BY <1>1, <1>5, <2>1, DeleteStageFacts
  <2>3. /\ \A x \in Names, y \in Parts : kids'[x][y].live => Remains(x, y)
        /\ k \in Keys => ~kids'[n][k].live \/ ReturnErr(m)
    BY <1>1, <1>5, <2>1, DeleteFollows
  <2>4. n \in Names
    BY <1>1, <2>1, <2>2 DEF TypeInv, KeyOK
  <2>5. ReturnErr(m) => Ended(m)
    BY <1>1, <2>1, <2>2, EndFacts
  <2>6. Ended(m) \/ (Kept(m, t) /\ Cleared(m)')
    BY <1>5, <2>2, <2>3, <2>4, <2>5 DEF Kept, Remains
  <2> QED BY <1>3, <1>5, <2>2, <2>6
<1>6. CASE FinalizeDeployment(m)
  <2>1. DeleteChild(m, DeploymentKey, "delDep", Goto(m, "delSvc"))
    BY <1>6 DEF FinalizeDeployment
  <2> QED BY <1>5, <2>1, KeysFacts DEF Cleared, DeletionStages
<1>7. CASE FinalizeService(m)
  <2>1. DeleteChild(m, ServiceKey, "delSvc", Goto(m, "delCm"))
    BY <1>7 DEF FinalizeService
  <2> QED BY <1>2, <1>5, <2>1, KeysFacts DEF Cleared, DeletionStages, Parts
<1>8. CASE FinalizeConfigMap(m)
  <2>1. DeleteChild(m, FinalizedConfigMap, "delCm", Goto(m, "unfin"))
    BY <1>8 DEF FinalizeConfigMap
  <2> QED BY <1>2, <1>5, <2>1 DEF Cleared, DeletionStages, Parts
<1> QED BY <1>4, <1>6, <1>7, <1>8

\* Children are written only under the operator's claim.
LEMMA ChildrenOwn ==
  ASSUME SoleManager, OwnerInv, HandlerInv', NEW m \in Managers,
         \/ LookupDeployment(m)
         \/ CreateConfigMap(m)
         \/ CreatePersistentVolumeClaim(m)
         \/ CreateDeployment(m)
         \/ CreateService(m)
         \/ ReadResource(m)
         \/ CreateMissing(m)
         \/ UpdateExisting(m)
         \/ RewriteExisting(m)
  PROVE  OwnerInv'
<1> DEFINE w == work[m]
<1>1. TypeInv /\ w \in Work
  BY DEF OwnerInv, HandlerInv, TypeInv, TypeOK
<1>2. w.obj \in Instance /\ w.tgt \in Keys /\ w.seen \in Child
  BY <1>1, KeysFacts DEF Work
<1>3. ASSUME UNCHANGED <<cr, born, crCache>>, KidsFollow, OthersWait(m),
             w.pc \in ChildStages,
             Ended(m) \/ \E t \in ChildStages : Kept(m, t)
      PROVE  OwnerInv'
  <2>1. w.pc \in Busy
    BY <1>3, BusyStages DEF ChildStages
  <2>2. \A x \in Names : ClaimKept(x)
    BY <1>3 DEF ClaimKept
  <2>3. work'[m].pc \notin Busy \/ WorkerOwns(m)'
    <3>1. CASE Ended(m)
      BY <3>1, BusyStages DEF Ended
    <3>2. ASSUME NEW t \in ChildStages, Kept(m, t) PROVE WorkerOwns(m)'
      <4>1. t \in Busy /\ t \notin DeletionStages /\ t \notin {"delSvc", "delCm", "unfin"}
        BY BusyStages DEF ChildStages, DeletionStages
      <4>2. Cleared(m)'
        BY <3>2, <4>1 DEF Cleared, Kept
      <4> QED BY <1>3, <2>1, <2>2, <3>2, <4>1, <4>2, OnwardOwns
    <3> QED BY <1>3, <3>1, <3>2
  <2> QED BY <1>3, <2>2, <2>3, OwnerKeeps DEF OthersWait
<1>4. UNCHANGED kids => KidsFollow
  BY DEF KidsFollow, Remains
<1>5. CASE LookupDeployment(m)
  <2>1. (Goto(m, "mkCm") \/ Goto(m, "annotate")) /\ w.pc = "lookup"
    BY <1>5 DEF LookupDeployment
  <2>2. UNCHANGED <<cr, kids, born, crCache>>
    BY <1>5 DEF LookupDeployment, store, caches
  <2>3. (Kept(m, "mkCm") \/ Kept(m, "annotate")) /\ OthersWait(m)
    BY <1>1, <2>1, GotoFacts, BusyStages
  <2> QED BY <1>3, <1>4, <2>1, <2>2, <2>3 DEF ChildStages
<1>6. ASSUME NEW k \in Keys, NEW t \in ChildStages, w.pc \in ChildStages,
             CreateChild(m, k, t), UNCHANGED <<cr, born, caches, budget>>
      PROVE  OwnerInv'
  <2>1. w.pc \in Busy /\ t \in Busy
    BY <1>6, BusyStages DEF ChildStages
  <2>2. (Ended(m) \/ Kept(m, t)) /\ OthersWait(m)
    BY <1>1, <1>6, <2>1, CreateStageFacts
  <2>3. KidsFollow
    BY <1>1, <1>6, <2>1, CreateFollows
  <2> QED BY <1>3, <1>6, <2>2, <2>3 DEF caches
<1>7. CASE CreateConfigMap(m) \/ CreatePersistentVolumeClaim(m) \/ CreateService(m)
             \/ CreateMissing(m)
  BY <1>2, <1>6, <1>7, KeysFacts
  DEF ChildStages, CreateConfigMap, CreatePersistentVolumeClaim, CreateService,
      CreateMissing
<1>8. CASE CreateDeployment(m)
  <2>1. w.pc = "mkDep" /\ UNCHANGED <<cr, born, caches, budget>>
    BY <1>8 DEF CreateDeployment
  <2>2. CASE CreateChild(m, DeploymentKey, "mkSvc")
    BY <1>6, <2>1, <2>2, KeysFacts DEF ChildStages
  <2>3. CASE Die(m) /\ UNCHANGED kids
    BY <1>1, <1>3, <1>4, <2>1, <2>3, EndFacts DEF caches, ChildStages
  <2> QED BY <1>8, <2>2, <2>3 DEF CreateDeployment
<1>9. CASE ReadResource(m)
  BY <1>1, <1>3, <1>4, <1>9, ReadResourceFacts DEF ChildStages
<1>10. CASE UpdateExisting(m) \/ RewriteExisting(m)
  <2>1. /\ Ended(m) \/ Kept(m, "reput") \/ Kept(m, "read")
        /\ OthersWait(m)
        /\ w.pc \in {"put", "reput"}
        /\ UNCHANGED <<cr, born, crCache>>
    BY <1>1, <1>10, UpdateStageFacts
  <2>2. w.pc \in ChildStages /\ w.pc \in Busy
    BY <2>1, BusyStages DEF ChildStages
  <2> DEFINE d == Desired(w.obj, w.tgt)
             old == [uid |-> d.uid, ver |-> w.seen.ver]
  <2>3. d.ver \in Nat /\ old.ver \in Nat /\ old.uid = d.uid
    BY <1>2, DesiredType DEF Child
  <2>4. \/ UpdateChild(m, w.tgt, w.seen.rv, d, Goto(m, "reput") /\ UNCHANGED queue)
        \/ UpdateChild(m, w.tgt, w.seen.rv, old, NextChild(m, w.tgt))
        \/ UpdateChild(m, w.tgt, 0, d, NextChild(m, w.tgt))
    BY <1>10 DEF UpdateExisting, RewriteExisting
  <2> HIDE DEF old
  <2>5. KidsFollow
    BY <1>1, <1>2, <2>2, <2>3, <2>4, UpdateFollows
  <2> QED BY <1>3, <2>1, <2>2, <2>5 DEF ChildStages
<1> QED BY <1>5, <1>7, <1>8, <1>9, <1>10

\* The writes of the instance: only the one that drops the finalizer takes a
\* claim away, and it does so when both children are gone.
LEMMA InstanceStagesOwn ==
  ASSUME SoleManager, OwnerInv, HandlerInv', NEW m \in Managers,
         \/ RemoveOwnFinalizer(m)
         \/ SaveDeleted(m)
         \/ AddFinalizer(m)
         \/ UpdateStatus(m)
         \/ UpdateSpecAnnotation(m)
  PROVE  OwnerInv'
<1> DEFINE o == work[m].obj
           n == work[m].key
<1>1. HandlerInv /\ TypeInv /\ work[m] \in Work
  BY DEF OwnerInv, HandlerInv, TypeInv, TypeOK
<1>2. o \in Instance /\ o.ver \in Nat
  BY <1>1 DEF Work, Instance
<1>3. /\ work[m].pc \in {"unfin", "resave", "addFin", "status", "annotate"}
      /\ work[m].pc \in Busy
      /\ UNCHANGED <<kids, born, crCache>>
  BY BusyStages DEF RemoveOwnFinalizer, SaveDeleted, AddFinalizer, UpdateStatus,
                    UpdateSpecAnnotation, caches
<1>4. n \in Names /\ StageOK(work[m]) /\ WorkerOwns(m)
  BY <1>1, <1>3 DEF TypeInv, KeyOK, OwnerInv, HandlerInv, WorkersOK
<1>5. KidsFollow
  BY <1>3 DEF KidsFollow, Remains
<1>6. /\ \A b \in BOOLEAN :
           LET c == [o EXCEPT !.own = b] IN
           /\ c \in Instance /\ c.own = b
           /\ c.uid = o.uid /\ c.rv = o.rv /\ c.ver = o.ver /\ c.del = o.del
      /\ \A v \in Nat :
           LET c == [o EXCEPT !.rep = v] IN
           /\ c \in Instance /\ c.own = o.own
           /\ c.uid = o.uid /\ c.rv = o.rv /\ c.ver = o.ver /\ c.del = o.del
      /\ \A v \in Nat :
           LET c == [o EXCEPT !.ann = v] IN
           /\ c \in Instance /\ c.own = o.own
           /\ c.uid = o.uid /\ c.rv = o.rv /\ c.ver = o.ver /\ c.del = o.del
  BY <1>2, Zenon DEF Instance
<1>7. ASSUME NEW new \in Instance, NEW next \in Busy, UpdateInstance(m, new, next),
             new.uid = o.uid, new.rv = o.rv, new.ver = o.ver, new.del = o.del
      PROVE  /\ OthersWait(m)
             /\ OthersKept(n)
             /\ (Ended(m) /\ cr' = cr) \/ UpdateAccepted(m, new, next)
  BY <1>1, <1>3, <1>7, InstanceFacts
<1>8. CASE Ended(m) /\ cr' = cr /\ OthersWait(m)
  <2>1. \A x \in Names : ClaimKept(x)
    BY <1>8 DEF ClaimKept
  <2>2. work'[m].pc \notin Busy
    BY <1>8, BusyStages DEF Ended
  <2> QED BY <1>3, <1>5, <1>8, <2>1, <2>2, OwnerKeeps DEF OthersWait
<1>9. ASSUME NEW new \in Instance, NEW next \in Busy \ DeletionStages,
             OthersWait(m), OthersKept(n), UpdateAccepted(m, new, next),
             o.own => new.own
      PROVE  OwnerInv'
  <2>1. ClaimKept(n)
    BY <1>9 DEF UpdateAccepted, ClaimKept
  <2>2. \A x \in Names : ClaimKept(x)
    BY <1>9, <2>1 DEF OthersKept, ClaimKept
  <2>3. ClaimedBy(m)'
    BY <1>9 DEF UpdateAccepted, ClaimedBy
  <2>4. SawDeletion(m)' /\ Cleared(m)'
    BY <1>9 DEF UpdateAccepted, SawDeletion, Cleared, DeletionStages
  <2> QED BY <1>3, <1>5, <1>9, <2>2, <2>3, <2>4, OwnerKeeps DEF OthersWait, WorkerOwns
<1>10. {"resave", "validate", "lookup", "annotate", "read"} \subseteq Busy \ DeletionStages
  BY BusyStages DEF DeletionStages
<1>11. CASE SaveDeleted(m)
  <2>1. UpdateInstance(m, o, "validate")
    BY <1>11 DEF SaveDeleted
  <2> QED BY <1>2, <1>7, <1>8, <1>9, <1>10, <2>1
<1>12. CASE AddFinalizer(m)
  <2> DEFINE c == [o EXCEPT !.own = TRUE]
  <2>1. UpdateInstance(m, c, "lookup")
    BY <1>12 DEF AddFinalizer
  <2>2. /\ c \in Instance /\ c.own
        /\ c.uid = o.uid /\ c.rv = o.rv /\ c.ver = o.ver /\ c.del = o.del
    BY <1>6
  <2> HIDE DEF c
  <2> QED BY <1>7, <1>8, <1>9, <1>10, <2>1, <2>2
<1>13. CASE UpdateStatus(m)
  <2> DEFINE c == [o EXCEPT !.rep = o.ver]
  <2>1. UpdateInstance(m, c, "annotate")
    BY <1>13 DEF UpdateStatus, StatusOf
  <2>2. /\ c \in Instance /\ c.own = o.own
        /\ c.uid = o.uid /\ c.rv = o.rv /\ c.ver = o.ver /\ c.del = o.del
    BY <1>2, <1>6
  <2> HIDE DEF c
  <2> QED BY <1>7, <1>8, <1>9, <1>10, <2>1, <2>2
<1>14. CASE UpdateSpecAnnotation(m)
  <2> DEFINE c == [o EXCEPT !.ann = o.ver]
  <2>1. UpdateInstance(m, c, "read")
    BY <1>14 DEF UpdateSpecAnnotation
  <2>2. /\ c \in Instance /\ c.own = o.own
        /\ c.uid = o.uid /\ c.rv = o.rv /\ c.ver = o.ver /\ c.del = o.del
    BY <1>2, <1>6
  <2> HIDE DEF c
  <2> QED BY <1>7, <1>8, <1>9, <1>10, <2>1, <2>2
<1>15. CASE RemoveOwnFinalizer(m)
  <2> DEFINE c == [o EXCEPT !.own = FALSE]
  <2>1. UpdateInstance(m, c, "resave") /\ work[m].pc = "unfin"
    BY <1>15 DEF RemoveOwnFinalizer
  <2>2. /\ c \in Instance /\ ~c.own
        /\ c.uid = o.uid /\ c.rv = o.rv /\ c.ver = o.ver /\ c.del = o.del
    BY <1>6
  <2> HIDE DEF c
  <2>3. /\ OthersWait(m) /\ OthersKept(n)
        /\ (Ended(m) /\ cr' = cr) \/ UpdateAccepted(m, c, "resave")
    BY <1>7, <1>10, <2>1, <2>2
  <2>4. CASE UpdateAccepted(m, c, "resave")
    <3>1. o = cr[n] /\ work'[m].pc = "resave" /\ work'[m].key = n
          /\ ~work'[m].obj.own
      BY <2>2, <2>4 DEF UpdateAccepted
    <3>2. ~kids[n][DeploymentKey].live /\ ~kids[n][ServiceKey].live
      BY <1>4, <2>1 DEF WorkerOwns, Cleared
    <3>3. NoOrphanedWorkload'
      BY <1>3, <2>3, <3>2 DEF OwnerInv, NoOrphanedWorkload, OthersKept
    <3>4. CacheClaimed'
      <4> SUFFICES ASSUME NEW x \in Managers, NEW y \in Names,
                          crCache[x][y].own, ~crCache[x][y].del
                   PROVE  cr'[y].uid = crCache[x][y].uid /\ cr'[y].own
        BY <1>3 DEF CacheClaimed
      <4>1. cr[y].uid = crCache[x][y].uid /\ cr[y].own
        BY DEF OwnerInv, CacheClaimed
      <4>2. x = m
        BY DEF SoleManager
      <4>3. y # n
        BY <1>4, <2>1, <3>1, <4>1, <4>2 DEF WorkerOwns, SawDeletion, DeletionStages
      <4> QED BY <2>3, <4>1, <4>3 DEF OthersKept
    <3>5. ASSUME NEW x \in Managers PROVE WorkerOwns(x)'
      <4>1. x = m
        BY DEF SoleManager
      <4>2. ClaimedBy(m)' /\ SawDeletion(m)' /\ Cleared(m)'
        BY <3>1 DEF ClaimedBy, SawDeletion, Cleared, DeletionStages
      <4> QED BY <4>1, <4>2 DEF WorkerOwns
    <3> QED BY <3>3, <3>4, <3>5 DEF OwnerInv
  <2> QED BY <1>8, <2>3, <2>4
<1> QED BY <1>11, <1>12, <1>13, <1>14, <1>15

\* Validation changes nothing in the store.
LEMMA ValidateOwns ==
  ASSUME SoleManager, OwnerInv, HandlerInv', NEW m \in Managers, Validate(m)
  PROVE  OwnerInv'
<1> DEFINE t == IF work[m].obj.own THEN "lookup" ELSE "addFin"
<1>1. TypeInv /\ work[m].pc = "validate" /\ work[m].pc \in Busy
  BY BusyStages DEF OwnerInv, HandlerInv, Validate
<1>2. UNCHANGED <<cr, kids, born, crCache>>
  BY DEF Validate, store, caches
<1>3. KidsFollow /\ \A x \in Names : ClaimKept(x)
  BY <1>2 DEF KidsFollow, Remains, ClaimKept
<1>4. CASE ReturnErr(m) \/ Die(m)
  <2>1. Ended(m) /\ OthersWait(m)
    BY <1>1, <1>4, EndFacts
  <2>2. work'[m].pc \notin Busy
    BY <2>1, BusyStages DEF Ended
  <2> QED BY <1>2, <1>3, <2>1, <2>2, OwnerKeeps DEF OthersWait
<1>5. CASE Goto(m, t)
  <2>1. t \in Busy /\ t \in {"lookup", "addFin"}
    BY BusyStages
  <2> HIDE DEF t
  <2>2. Kept(m, t) /\ OthersWait(m)
    BY <1>1, <1>5, <2>1, GotoFacts
  <2>3. t \notin DeletionStages /\ t \notin {"delSvc", "delCm", "unfin"}
    BY <2>1 DEF DeletionStages
  <2>4. Cleared(m)'
    BY <2>2, <2>3 DEF Cleared, Kept
  <2>5. WorkerOwns(m)'
    BY <1>1, <1>2, <1>3, <2>1, <2>2, <2>3, <2>4, OnwardOwns
  <2> QED BY <1>2, <1>3, <2>2, <2>5, OwnerKeeps DEF OthersWait
<1> QED BY <1>4, <1>5 DEF Validate

\* A new request, a failure, a restart or a watch event changes the handler
\* and its caches, not the store.
LEMMA RequestOwns ==
  ASSUME SoleManager, OwnerInv, HandlerInv', NEW m \in Managers,
         \/ \E n \in Names : Begin(m, n)
         \/ CallFails(m)
         \/ Crash(m)
         \/ Restart(m)
         \/ \E n \in Names : SyncInstance(m, n)
         \/ \E n \in Names, k \in Watched : SyncChild(m, n, k)
  PROVE  OwnerInv'
<1>1. TypeInv /\ UNCHANGED <<cr, kids, born>>
  BY DEF OwnerInv, HandlerInv, Begin, CallFails, Crash, Restart, SyncInstance,
         SyncChild, store
<1>2. KidsFollow /\ \A x \in Names : ClaimKept(x)
  BY <1>1 DEF KidsFollow, Remains, ClaimKept
<1>3. ASSUME NEW n \in Names, Begin(m, n) PROVE OwnerInv'
  <2> DEFINE o == crCache[m][n]
  <2>1. /\ work'[m].key = n /\ work'[m].obj = o
        /\ work'[m].pc = IF ~o.del THEN "validate"
                         ELSE IF o.own THEN "delClaims" ELSE "resave"
        /\ \A x \in Managers : x # m => work'[x] = work[x]
    BY <1>1, <1>3, BeginType
  <2>2. UNCHANGED crCache
    BY <1>3 DEF Begin, caches
  <2>3. ClaimedBy(m)'
    BY <1>1, <2>1 DEF OwnerInv, CacheClaimed, ClaimedBy
  <2>4. SawDeletion(m)' /\ Cleared(m)'
    BY <2>1, <2>2 DEF SawDeletion, Cleared, DeletionStages
  <2> QED BY <1>2, <2>1, <2>2, <2>3, <2>4, OwnerKeeps DEF WorkerOwns
<1>4. CASE CallFails(m) \/ Crash(m)
  <2>1. Ended(m) /\ OthersWait(m) /\ UNCHANGED crCache
    BY <1>1, <1>4, EndFacts, BusyStages DEF CallFails, Crash, caches
  <2>2. work'[m].pc \notin Busy
    BY <2>1, BusyStages DEF Ended
  <2> QED BY <1>2, <2>1, <2>2, OwnerKeeps DEF OthersWait
<1>5. CASE Restart(m)
  <2>1. /\ work'[m].pc = "idle" /\ \A x \in Managers : x # m => work'[x] = work[x]
    BY <1>1, <1>5, QuitType DEF Restart
  <2>2. work'[m].pc \notin Busy
    BY <2>1, BusyStages
  <2>3. \A x \in Managers, n \in Names : crCache'[x][n] \in {crCache[x][n], cr[n]}
    BY <1>1, <1>5 DEF Restart, TypeInv, TypeOK
  <2> QED BY <1>2, <2>1, <2>2, <2>3, OwnerKeeps
<1>6. ASSUME NEW n \in Names, SyncInstance(m, n) PROVE OwnerInv'
  <2>1. \A x \in Managers, y \in Names : crCache'[x][y] \in {crCache[x][y], cr[y]}
    BY <1>1, <1>6, SMT DEF SyncInstance, TypeInv, TypeOK
  <2>2. UNCHANGED work
    BY <1>6 DEF SyncInstance
  <2> QED BY <1>2, <2>1, <2>2, OwnerKeeps
<1>7. ASSUME NEW n \in Names, NEW k \in Watched, SyncChild(m, n, k) PROVE OwnerInv'
  <2>1. UNCHANGED <<work, crCache>>
    BY <1>7 DEF SyncChild
  <2> QED BY <1>2, <2>1, OwnerKeeps
<1> QED BY <1>3, <1>4, <1>5, <1>6, <1>7

\* Users and other controllers cannot take the operator's finalizer away.
LEMMA OutsideOwns ==
  ASSUME SoleManager, OwnerInv, HandlerInv', NEW n \in Names, User(n) \/ Cluster(n)
  PROVE  OwnerInv'
<1>1. TypeInv /\ StoreOK
  BY DEF OwnerInv, HandlerInv
<1>2. CASE UserCreates(n) \/ UserEdits(n) \/ UserDeletes(n) \/ ReleaseForeign(n)
  <2>1. /\ UNCHANGED <<kids, crCache, kidCache, queue, work, budget>>
        /\ OthersKept(n)
        /\ \/ Touched(n) /\ cr'[n].own = cr[n].own
           \/ Gone(n) /\ ~cr[n].own
           \/ Appears(n)
    BY <1>1, <1>2, UserInstance
  <2>2. Appears(n) => ~cr[n].own
    BY <1>1 DEF StoreOK, Appears, NoInstance
  <2>3. ClaimKept(n)
    BY <2>1, <2>2 DEF ClaimKept, Touched
  <2>4. \A x \in Names : ClaimKept(x)
    BY <2>1, <2>3 DEF OthersKept, ClaimKept
  <2>5. KidsFollow
    BY <2>1 DEF KidsFollow, Remains
  <2> QED BY <2>1, <2>4, <2>5, OwnerKeeps
<1>3. ASSUME NEW k \in {DeploymentKey, ServiceKey},
             UserDropsDeployment(n) \/ Drift(n, k) \/ CollectDeployment(n)
      PROVE  OwnerInv'
  <2>1. /\ UNCHANGED <<cr, born, crCache, kidCache, queue, work>>
        /\ \A x \in Names, y \in Keys :
             kids'[x][y].live => kids[x][y].live /\ kids'[x][y].uid = kids[x][y].uid
    BY <1>1, <1>3, OtherChildren
  <2>2. KidsFollow /\ \A x \in Names : ClaimKept(x)
    BY <2>1, PartsFacts DEF KidsFollow, Remains, ClaimKept
  <2> QED BY <2>1, <2>2, OwnerKeeps
<1> QED BY <1>2, <1>3 DEF User, Cluster

\* Every step keeps OwnerInv.
LEMMA OwnerStep ==
  ASSUME SoleManager
  PROVE  OwnerInv /\ [OpenNext]_vars => OwnerInv'
<1> SUFFICES ASSUME OwnerInv, [OpenNext]_vars PROVE OwnerInv'
  OBVIOUS
<1>1. HandlerInv'
  BY HandlerStep DEF OwnerInv
<1>2. CASE UNCHANGED vars
  <2>1. UNCHANGED <<cr, kids, crCache, work>>
    BY <1>2 DEF vars
  <2>2. KidsFollow /\ \A n \in Names : ClaimKept(n)
    BY <2>1 DEF KidsFollow, Remains, ClaimKept
  <2> QED BY <1>1, <2>1, <2>2, OwnerKeeps
<1>3. ASSUME NEW m \in Managers, Manager(m) PROVE OwnerInv'
  <2>1. CASE Stage(m)
    BY <1>1, <2>1, FinalizerOwns, InstanceStagesOwn, ValidateOwns, ChildrenOwn DEF Stage
  <2> QED BY <1>1, <1>3, <2>1, RequestOwns DEF Manager
<1>4. ASSUME NEW n \in Names, User(n) \/ Cluster(n) PROVE OwnerInv'
  BY <1>1, <1>4, OutsideOwns
<1>5. CASE Elsewhere
  <2>1. /\ UNCHANGED <<cr, crCache>>
        /\ \A n \in Names, k \in Parts : kids'[n][k] = kids[n][k]
        /\ \A x \in Managers : work'[x] = work[x] \/ work'[x].pc \notin Busy
    BY <1>5, ElsewhereFacts, BusyStages DEF OwnerInv, HandlerInv, Parts, Watched
  <2>2. KidsFollow /\ \A n \in Names : ClaimKept(n)
    BY <2>1 DEF KidsFollow, Remains, ClaimKept
  <2> QED BY <1>1, <2>1, <2>2, OwnerKeeps
<1> QED BY <1>2, <1>3, <1>4, <1>5 DEF OpenNext, Next

\* And the first state satisfies it.
LEMMA OwnerInit == Init => OwnerInv
<1> SUFFICES ASSUME Init PROVE OwnerInv
  OBVIOUS
<1>1. \A n \in Names, k \in Keys : ~kids[n][k].live
  BY DEF Init, NoChild
<1>2. NoOrphanedWorkload
  BY <1>1, PartsFacts DEF NoOrphanedWorkload, Parts
<1>3. CacheClaimed
  BY DEF Init, CacheClaimed, NoInstance
<1>4. ASSUME NEW m \in Managers PROVE WorkerOwns(m)
  BY BusyStages DEF Init, Rest, WorkerOwns, ClaimedBy, SawDeletion, Cleared, DeletionStages
<1> QED BY <1>2, <1>3, <1>4, HandlerInit DEF OwnerInv

\* With one operator process, whatever crashes, fails and is read stale, and
\* however often a name is used again: a Deployment or Service is there only
\* while the instance that created it is, with the operator's finalizer.
LEMMA OwnersAmongOthers ==
  ASSUME SoleManager
  PROVE  OpenSpec => []NoOrphanedWorkload
<1>1. OpenSpec => []OwnerInv
  BY OwnerInit, OwnerStep, PTL DEF OpenSpec
<1>2. OwnerInv => NoOrphanedWorkload
  BY DEF OwnerInv
<1> QED BY <1>1, <1>2, PTL

\* The same of the controller alone.
THEOREM WorkloadNeverOrphaned ==
  ASSUME SoleManager
  PROVE  Spec => []NoOrphanedWorkload
  BY OwnersAmongOthers, SpecIsOpen, PTL
=============================================================================
