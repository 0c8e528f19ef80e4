------------------------- MODULE NodeMounts_proofs -------------------------
(***************************************************************************)
(* Machine-checked proofs about NodeMounts, for every number of volumes,   *)
(* pods and concurrent handlers, every mTLS mode and every bound on the    *)
(* mounts of a path.                                                       *)
(***************************************************************************)
EXTENDS NodeMounts, SequenceTheorems, TLAPS

Handlers == Paths \X Slots

LEMMA HandlerParts ==
  ASSUME NEW h \in Handlers
  PROVE  h[1] \in Paths /\ h[2] \in Slots /\ h = <<h[1], h[2]>>
BY DEF Handlers

LEMMA HandlerType ==
  /\ Idle \in Handler
  /\ Idle.pc = "idle" /\ Idle.rpc = "none" /\ Idle.heard = FALSE
BY DEF Idle, Handler

-----------------------------------------------------------------------------
(* Stacks of mounts.                                                        *)

LEMMA EmptyStack == <<>> \in Seq(Content) /\ Len(<<>>) = 0
BY EmptySeq

LEMMA NonEmptyStack ==
  ASSUME NEW s \in Seq(Content)
  PROVE  /\ Len(s) \in Nat
         /\ s # <<>> => Len(s) > 0 /\ Head(s) \in Content
         /\ s = <<>> => Len(s) = 0
BY EmptySeq, LenProperties, HeadTailProperties

LEMMA Push ==
  ASSUME NEW s \in Seq(Content), NEW c \in Content
  PROVE  LET t == <<c>> \o s
         IN  t \in Seq(Content) /\ t # <<>> /\ Head(t) = c /\ Len(t) = Len(s) + 1
<1>1. <<c>> \in Seq(Content) /\ Len(<<c>>) = 1
  OBVIOUS
<1>2. /\ <<c>> \o s \in Seq(Content)
      /\ Len(<<c>> \o s) = Len(s) + 1
      /\ (<<c>> \o s)[1] = c
  BY <1>1, ConcatProperties, LenProperties
<1>3. <<c>> \o s # <<>>
  BY <1>2, LenProperties, EmptySeq
<1> QED BY <1>2, <1>3

LEMMA Pop ==
  ASSUME NEW s \in Seq(Content), s # <<>>
  PROVE  Tail(s) \in Seq(Content) /\ Len(Tail(s)) = Len(s) - 1
BY HeadTailProperties

-----------------------------------------------------------------------------
(* Handlers, locks and what the kubelet wants.                              *)

Control == TypeOK /\ LockMatchesHandlers /\ HandlerMatchesKubelet /\ PodsNeedVolume

LEMMA InitControl == Init => Control
BY VolumeOfAssumption, HandlerType, EmptyStack
DEF Init, Control, TypeOK, LockMatchesHandlers, HandlerMatchesKubelet, HandlerFits,
    PodsNeedVolume, NoLocks, Handlers

\* The program points a handler of an RPC goes on to.
GoesOn(rpc, pc) ==
  \/ rpc = "stage" /\ pc \in {"mount", "fallback"}
  \/ rpc = "publish" /\ pc \in {"mount", "undo", "undorecheck"}
  \/ rpc \in {"unstage", "unpublish"} /\ pc = "recheck"

\* A step of a handler continues it or ends it.
LEMMA StepShape ==
  ASSUME Control, NEW h \in Handlers, Step(h)
  PROVE  /\ run[h].pc # "idle"
         /\ \/ \E pc : GoesOn(run[h].rpc, pc) /\ Continue(h, pc)
            \/ ReturnError(h)
            \/ ReturnOK(h)
<1> USE DEF At
<1>1. CASE Ensure(h)
  BY <1>1 DEF Ensure, GoesOn
<1>2. CASE StageMount(h)
  BY <1>2 DEF StageMount
<1>3. CASE StageMountFails(h)
  BY <1>3 DEF StageMountFails, GoesOn
<1>4. CASE StageFallback(h)
  BY <1>4 DEF StageFallback
<1>5. CASE PublishBind(h)
  BY <1>5 DEF PublishBind
<1>6. CASE PublishBindFails(h)
  BY <1>6 DEF PublishBindFails, GoesOn
<1>7. CASE PublishUndo(h)
  BY <1>7 DEF PublishUndo, GoesOn
<1>8. CASE PublishUndoRecheck(h)
  BY <1>8 DEF PublishUndoRecheck
<1>9. CASE Cleanup(h)
  BY <1>9 DEF Cleanup, GoesOn
<1>10. CASE Recheck(h)
  BY <1>10 DEF Recheck
<1>11. CASE HandlerFails(h)
  BY <1>11 DEF HandlerFails
<1> QED BY <1>1, <1>2, <1>3, <1>4, <1>5, <1>6, <1>7, <1>8, <1>9, <1>10, <1>11 DEF Step

\* What the end of a handler tells the kubelet.
LEMMA ReturnOKEffect ==
  ASSUME Control, NEW h \in Handlers, run[h].pc # "idle", ReturnOK(h)
  PROVE  /\ Return(h)
         /\ stage' \in [Volumes -> {"unstaged", "staging", "staged", "unstaging"}]
         /\ pod' \in [Pods -> {"unpublished", "publishing", "published", "unpublishing"}]
         /\ \A v \in Volumes : stage'[v] # stage[v] =>
              /\ v = h[1] /\ run[h].heard
              /\ \/ run[h].rpc = "stage" /\ stage[v] = "staging" /\ stage'[v] = "staged"
                 \/ run[h].rpc = "unstage" /\ stage[v] = "unstaging" /\ stage'[v] = "unstaged"
         /\ \A p \in Pods : pod'[p] # pod[p] =>
              /\ p = h[1] /\ run[h].heard
              /\ \/ run[h].rpc = "publish" /\ pod[p] = "publishing" /\ pod'[p] = "published"
                 \/ run[h].rpc = "unpublish" /\ pod[p] = "unpublishing" /\ pod'[p] = "unpublished"
<1>1. HandlerFits(h)
  BY DEF Control, HandlerMatchesKubelet, Handlers
<1> QED BY <1>1, HandlerType, PathsAssumption
    DEF ReturnOK, Control, TypeOK, HandlerFits

LEMMA EnterKeeps ==
  ASSUME Control, NEW k \in Paths, NEW rpc, NEW pc, Enter(k, rpc, pc),
         \/ k \in Volumes /\ rpc = "stage" /\ pc = "ensure" /\ stage[k] = "staging"
         \/ k \in Volumes /\ rpc = "unstage" /\ pc = "cleanup" /\ stage[k] = "unstaging"
         \/ k \in Pods /\ rpc = "publish" /\ pc = "ensure" /\ pod[k] = "publishing"
         \/ k \in Pods /\ rpc = "unpublish" /\ pc = "cleanup" /\ pod[k] = "unpublishing"
  PROVE  Control'
<1>1. PICK s \in Slots :
        /\ run[<<k, s>>].pc = "idle"
        /\ run' = [run EXCEPT ![<<k, s>>] = [rpc |-> rpc, pc |-> pc, heard |-> TRUE]]
  BY DEF Enter
<1> DEFINE h == <<k, s>>
<1>2. /\ h \in Handlers /\ h[1] = k
      /\ run'[h] = [rpc |-> rpc, pc |-> pc, heard |-> TRUE]
      /\ \A g \in Handlers : g # h => run'[g] = run[g]
      /\ k \notin locks /\ locks' = locks \union {k}
      /\ UNCHANGED <<dirs, mounts, stage, pod, undone>>
  BY <1>1 DEF Enter, CanAcquire, Acquire, Control, TypeOK, Handlers
<1>3. [rpc |-> rpc, pc |-> pc, heard |-> TRUE] \in Handler
  BY DEF Handler
<1>4. TypeOK'
  BY <1>1, <1>2, <1>3 DEF Control, TypeOK, Handlers
<1>5. \A g \in Handlers : g[1] = k => run[g].pc = "idle"
  BY <1>2, HandlerParts DEF Control, LockMatchesHandlers, Handlers
<1>6. LockMatchesHandlers'
  <2>1. \A j \in Paths : j \in locks' <=> \E t \in Slots : run'[<<j, t>>].pc # "idle"
    <3> SUFFICES ASSUME NEW j \in Paths
                 PROVE  j \in locks' <=> \E t \in Slots : run'[<<j, t>>].pc # "idle"
      OBVIOUS
    <3>1. CASE j = k
      BY <1>2, <3>1
    <3>2. CASE j # k
      <4>1. \A t \in Slots : run'[<<j, t>>] = run[<<j, t>>]
        BY <1>2, <3>2 DEF Handlers
      <4> QED BY <1>2, <3>2, <4>1 DEF Control, LockMatchesHandlers
    <3> QED BY <3>1, <3>2
  <2>2. \A f, g \in Handlers :
          f[1] = g[1] /\ run'[f].pc # "idle" /\ run'[g].pc # "idle" => f = g
    BY <1>2, <1>5 DEF Control, LockMatchesHandlers, Handlers
  <2> QED BY <2>1, <2>2 DEF LockMatchesHandlers, Handlers
<1>7. HandlerMatchesKubelet'
  <2> SUFFICES ASSUME NEW g \in Handlers PROVE HandlerFits(g)'
    BY DEF HandlerMatchesKubelet, Handlers
  <2>1. CASE g = h
    BY <1>2, <2>1 DEF HandlerFits
  <2>2. CASE g # h
    BY <1>2, <2>2 DEF Control, HandlerMatchesKubelet, HandlerFits, Handlers
  <2> QED BY <2>1, <2>2
<1>8. PodsNeedVolume'
  BY <1>2 DEF Control, PodsNeedVolume
<1> QED BY <1>4, <1>6, <1>7, <1>8 DEF Control

LEMMA ContinueKeeps ==
  ASSUME Control, NEW h \in Handlers, NEW pc, GoesOn(run[h].rpc, pc), Continue(h, pc),
         run[h].pc # "idle"
  PROVE  /\ run' \in [Handlers -> Handler]
         /\ LockMatchesHandlers' /\ HandlerMatchesKubelet' /\ PodsNeedVolume'
<1> DEFINE new == [rpc |-> run[h].rpc, pc |-> pc, heard |-> run[h].heard]
<1>1. new \in Handler /\ pc # "idle"
  BY DEF GoesOn, Handler, Control, TypeOK, Handlers
<1>2. /\ run'[h] = new
      /\ \A g \in Handlers : g # h => run'[g] = run[g]
      /\ UNCHANGED <<locks, stage, pod>>
      /\ run' \in [Handlers -> Handler]
  BY <1>1 DEF Continue, Control, TypeOK, Handlers
<1>3. \A g \in Handlers : run'[g].pc = "idle" <=> run[g].pc = "idle"
  BY <1>1, <1>2
<1>4. LockMatchesHandlers'
  <2>1. \A j \in Paths, t \in Slots : run'[<<j, t>>].pc = "idle" <=> run[<<j, t>>].pc = "idle"
    BY <1>3 DEF Handlers
  <2> QED BY <1>2, <1>3, <2>1 DEF Control, LockMatchesHandlers, Handlers
<1>5. HandlerMatchesKubelet'
  <2> SUFFICES ASSUME NEW g \in Handlers PROVE HandlerFits(g)'
    BY DEF HandlerMatchesKubelet, Handlers
  <2>0. HandlerFits(g)
    BY DEF Control, HandlerMatchesKubelet, Handlers
  <2>1. CASE g = h
    BY <1>2, <2>0, <2>1, HandlerType DEF HandlerFits, GoesOn
  <2>2. CASE g # h
    BY <1>2, <2>0, <2>2 DEF HandlerFits
  <2> QED BY <2>1, <2>2
<1>6. PodsNeedVolume'
  BY <1>2 DEF Control, PodsNeedVolume
<1> QED BY <1>2, <1>4, <1>5, <1>6

\* A handler that ends leaves its key free and the other handlers alone.
LEMMA ReturnFrees ==
  ASSUME Control, NEW h \in Handlers, run[h].pc # "idle", Return(h)
  PROVE  /\ run' \in [Handlers -> Handler] /\ locks' \subseteq Paths
         /\ run'[h] = Idle
         /\ \A g \in Handlers : g # h => run'[g] = run[g]
         /\ \A g \in Handlers : g[1] = h[1] => run'[g].pc = "idle"
         /\ LockMatchesHandlers'
<1>1. /\ run' \in [Handlers -> Handler] /\ locks' \subseteq Paths
      /\ run'[h] = Idle
      /\ \A g \in Handlers : g # h => run'[g] = run[g]
      /\ locks' = locks \ {h[1]}
  BY HandlerType DEF Return, Release, Control, TypeOK, Handlers
<1>2. \A g \in Handlers : g[1] = h[1] => run'[g].pc = "idle"
  BY <1>1, HandlerType DEF Control, LockMatchesHandlers, Handlers
<1>3. \A j \in Paths : j \in locks' <=> \E t \in Slots : run'[<<j, t>>].pc # "idle"
  <2> SUFFICES ASSUME NEW j \in Paths
               PROVE  j \in locks' <=> \E t \in Slots : run'[<<j, t>>].pc # "idle"
    OBVIOUS
  <2>1. CASE j = h[1]
    BY <1>1, <1>2, <2>1 DEF Handlers
  <2>2. CASE j # h[1]
    <3>1. \A t \in Slots : run'[<<j, t>>] = run[<<j, t>>]
      BY <1>1, <2>2 DEF Handlers
    <3> QED BY <1>1, <2>2, <3>1 DEF Control, LockMatchesHandlers
  <2> QED BY <2>1, <2>2
<1>4. \A f, g \in Handlers :
        f[1] = g[1] /\ run'[f].pc # "idle" /\ run'[g].pc # "idle" => f = g
  BY <1>1, HandlerType DEF Control, LockMatchesHandlers, Handlers
<1>5. LockMatchesHandlers'
  BY <1>3, <1>4 DEF LockMatchesHandlers, Handlers
<1> QED BY <1>1, <1>2, <1>5

LEMMA ReturnErrorKeeps ==
  ASSUME Control, NEW h \in Handlers, run[h].pc # "idle", ReturnError(h)
  PROVE  HandlerMatchesKubelet' /\ PodsNeedVolume'
<1>1. \A g \in Handlers : run'[g] = Idle \/ run'[g] = run[g]
  BY ReturnFrees DEF ReturnError
<1> QED BY <1>1 DEF ReturnError, Control, HandlerMatchesKubelet, HandlerFits, PodsNeedVolume,
                    Handlers

LEMMA ReturnOKKeeps ==
  ASSUME Control, NEW h \in Handlers, run[h].pc # "idle", ReturnOK(h)
  PROVE  HandlerMatchesKubelet' /\ PodsNeedVolume'
<1>1. /\ run'[h] = Idle
      /\ \A g \in Handlers : g # h => run'[g] = run[g]
      /\ \A g \in Handlers : g[1] = h[1] /\ g # h => run[g].pc = "idle"
  BY ReturnFrees, ReturnOKEffect DEF Control, LockMatchesHandlers, Handlers
<1>2. HandlerMatchesKubelet'
  <2> SUFFICES ASSUME NEW g \in Handlers PROVE HandlerFits(g)'
    BY DEF HandlerMatchesKubelet, Handlers
  <2>1. CASE g[1] = h[1]
    <3>1. g # h => run[g] = Idle
      BY <1>1, <2>1 DEF Control, HandlerMatchesKubelet, HandlerFits, Handlers
    <3> QED BY <1>1, <3>1 DEF HandlerFits
  <2>2. CASE g[1] # h[1]
    <3>1. /\ run'[g] = run[g]
          /\ g[1] \in Volumes => stage'[g[1]] = stage[g[1]]
          /\ g[1] \in Pods => pod'[g[1]] = pod[g[1]]
      BY <1>1, <2>2, ReturnOKEffect
    <3> QED BY <3>1 DEF Control, HandlerMatchesKubelet, HandlerFits, Handlers
  <2> QED BY <2>1, <2>2
<1>3. PodsNeedVolume'
  <2> SUFFICES ASSUME NEW p \in Pods, pod'[p] # "unpublished"
               PROVE  stage'[VolumeOf[p]] = "staged"
    BY DEF PodsNeedVolume
  <2>1. pod[p] # "unpublished"
    BY ReturnOKEffect
  <2>2. stage[VolumeOf[p]] = "staged" /\ VolumeOf[p] \in Volumes
    BY <2>1, VolumeOfAssumption DEF Control, PodsNeedVolume
  <2> QED BY <2>2, ReturnOKEffect
<1> QED BY <1>2, <1>3

\* A publish handler runs on a target path.
LEMMA HandlerKey ==
  ASSUME Control, NEW h \in Handlers
  PROVE  /\ run[h].rpc \in {"stage", "unstage"} => h[1] \in Volumes \ Pods
         /\ run[h].rpc \in {"publish", "unpublish"} =>
              h[1] \in Pods \ Volumes /\ VolumeOf[h[1]] \in Volumes
BY HandlerType, PathsAssumption, VolumeOfAssumption
DEF Control, HandlerMatchesKubelet, HandlerFits, Handlers

LEMMA PushType ==
  ASSUME TypeOK, NEW k \in Paths, NEW c \in Content, MountOn(k, c)
  PROVE  /\ mounts' \in [Paths -> Seq(Content)]
         /\ mounts'[k] # <<>> /\ Head(mounts'[k]) = c /\ Len(mounts'[k]) = Len(mounts[k]) + 1
         /\ \A j \in Paths : j # k => mounts'[j] = mounts[j]
<1>1. mounts[k] \in Seq(Content)
  BY DEF TypeOK
<1> QED BY <1>1, Push DEF MountOn, TypeOK

LEMMA PopType ==
  ASSUME TypeOK, NEW k \in Paths, Mounted(k), Unmount(k)
  PROVE  /\ mounts' \in [Paths -> Seq(Content)]
         /\ Len(mounts'[k]) = Len(mounts[k]) - 1
         /\ \A j \in Paths : j # k => mounts'[j] = mounts[j]
<1>1. mounts[k] \in Seq(Content)
  BY DEF TypeOK
<1> QED BY <1>1, Pop DEF Unmount, Mounted, TypeOK

\* Whatever is mounted, what a bind mount of it shows.
LEMMA HeadType ==
  ASSUME TypeOK, NEW k \in Paths
  PROVE  (IF Mounted(k) THEN Head(mounts[k]) ELSE "local") \in Content
BY NonEmptyStack DEF TypeOK, Mounted, Content

LEMMA StepTypes ==
  ASSUME Control, NEW h \in Handlers, Step(h)
  PROVE  /\ dirs' \subseteq Paths /\ undone' \subseteq Volumes
         /\ mounts' \in [Paths -> Seq(Content)]
<1>0. TypeOK /\ h[1] \in Paths
  BY HandlerParts DEF Control
<1>1. CASE Ensure(h)
  BY <1>0, <1>1 DEF Ensure, TypeOK
<1>2. CASE StageMount(h)
  BY <1>0, <1>2, PushType DEF StageMount, TypeOK, Content
<1>3. CASE StageMountFails(h) \/ PublishBindFails(h) \/ HandlerFails(h)
  BY <1>0, <1>3 DEF StageMountFails, PublishBindFails, HandlerFails, TypeOK
<1>4. CASE StageFallback(h)
  BY <1>0, <1>4, PushType DEF StageFallback, TypeOK, Content
<1>5. CASE PublishBind(h)
  <2>1. VolumeOf[h[1]] \in Paths
    BY <1>5, HandlerKey DEF PublishBind, At, Paths
  <2> QED BY <1>0, <1>5, <2>1, HeadType, PushType DEF PublishBind, TypeOK
<1>6. CASE PublishUndo(h)
  <2>1. VolumeOf[h[1]] \in Volumes /\ VolumeOf[h[1]] \in Paths
    BY <1>6, HandlerKey DEF PublishUndo, At, Paths
  <2> QED BY <1>0, <1>6, <2>1, PopType DEF PublishUndo, LikelyMounted, RemoveDir, TypeOK
<1>7. CASE PublishUndoRecheck(h)
  BY <1>0, <1>7 DEF PublishUndoRecheck, RemoveDir, TypeOK
<1>8. CASE Cleanup(h)
  BY <1>0, <1>8, PopType DEF Cleanup, RemoveDir, TypeOK
<1>9. CASE Recheck(h)
  BY <1>0, <1>9 DEF Recheck, RemoveDir, TypeOK
<1> QED BY <1>1, <1>2, <1>3, <1>4, <1>5, <1>6, <1>7, <1>8, <1>9 DEF Step

LEMMA StepKeepsControl ==
  ASSUME Control, NEW h \in Handlers, Step(h)
  PROVE  Control'
<1>1. run[h].pc # "idle"
  BY StepShape
<1>2. CASE \E pc : GoesOn(run[h].rpc, pc) /\ Continue(h, pc)
  BY <1>1, <1>2, StepTypes, ContinueKeeps DEF Continue, Control, TypeOK, Handlers
<1>3. CASE ReturnError(h)
  BY <1>1, <1>3, StepTypes, ReturnFrees, ReturnErrorKeeps DEF ReturnError, Control, TypeOK, Handlers
<1>4. CASE ReturnOK(h)
  BY <1>1, <1>4, StepTypes, ReturnFrees, ReturnOKEffect, ReturnOKKeeps DEF Control, TypeOK, Handlers
<1> QED BY <1>2, <1>3, <1>4, StepShape

LEMMA WaitingHandler ==
  ASSUME NEW k \in Paths, ~Waiting(k), NEW h \in Handlers, h[1] = k
  PROVE  ~run[h].heard
BY HandlerParts DEF Waiting

LEMMA VolumeWishKeeps ==
  ASSUME Control, NEW v \in Volumes, WantStage(v) \/ WantUnstage(v)
  PROVE  Control'
<1>1. /\ UNCHANGED <<dirs, mounts, locks, run, pod>>
      /\ stage' \in [Volumes -> {"unstaged", "staging", "staged", "unstaging"}]
      /\ undone' \subseteq Volumes
      /\ \A w \in Volumes : w # v => stage'[w] = stage[w]
      /\ stage'[v] = IF stage[v] = "unstaged" THEN "staging" ELSE "unstaging"
      /\ stage[v] \in {"unstaged", "staging", "staged"}
      /\ stage[v] = "staging" => ~Waiting(v)
      /\ \A p \in Pods : VolumeOf[p] = v => pod[p] = "unpublished"
  BY DEF WantStage, WantUnstage, Control, TypeOK, PodsNeedVolume
<1>2. HandlerMatchesKubelet'
  <2> SUFFICES ASSUME NEW h \in Handlers PROVE HandlerFits(h)'
    BY DEF HandlerMatchesKubelet, Handlers
  <2>0. HandlerFits(h)
    BY DEF Control, HandlerMatchesKubelet, Handlers
  <2>1. CASE h[1] = v
    <3>1. stage[v] = "staging" => ~run[h].heard
      BY <1>1, <2>1, WaitingHandler DEF Paths
    <3> QED BY <1>1, <2>0, <2>1, <3>1, PathsAssumption DEF HandlerFits
  <2>2. CASE h[1] # v
    BY <1>1, <2>0, <2>2 DEF HandlerFits
  <2> QED BY <2>1, <2>2
<1>3. LockMatchesHandlers' /\ PodsNeedVolume' /\ TypeOK'
  <2>1. LockMatchesHandlers' /\ TypeOK'
    BY <1>1 DEF Control, LockMatchesHandlers, TypeOK
  <2>2. PodsNeedVolume'
    BY <1>1, VolumeOfAssumption DEF Control, PodsNeedVolume
  <2> QED BY <2>1, <2>2
<1> QED BY <1>2, <1>3 DEF Control

LEMMA PodWishKeeps ==
  ASSUME Control, NEW p \in Pods, WantPublish(p) \/ WantUnpublish(p)
  PROVE  Control'
<1>1. /\ UNCHANGED <<dirs, mounts, locks, run, stage, undone>>
      /\ pod' \in [Pods -> {"unpublished", "publishing", "published", "unpublishing"}]
      /\ \A q \in Pods : q # p => pod'[q] = pod[q]
      /\ pod'[p] = IF pod[p] = "unpublished" THEN "publishing" ELSE "unpublishing"
      /\ pod[p] \in {"unpublished", "publishing", "published"}
      /\ pod[p] = "publishing" => ~Waiting(p)
      /\ stage[VolumeOf[p]] = "staged"
  BY DEF WantPublish, WantUnpublish, Control, TypeOK, PodsNeedVolume
<1>2. HandlerMatchesKubelet'
  <2> SUFFICES ASSUME NEW h \in Handlers PROVE HandlerFits(h)'
    BY DEF HandlerMatchesKubelet, Handlers
  <2>0. HandlerFits(h)
    BY DEF Control, HandlerMatchesKubelet, Handlers
  <2>1. CASE h[1] = p
    <3>1. pod[p] = "publishing" => ~run[h].heard
      BY <1>1, <2>1, WaitingHandler DEF Paths
    <3> QED BY <1>1, <2>0, <2>1, <3>1, PathsAssumption DEF HandlerFits
  <2>2. CASE h[1] # p
    BY <1>1, <2>0, <2>2 DEF HandlerFits
  <2> QED BY <2>1, <2>2
<1>3. LockMatchesHandlers' /\ TypeOK'
  BY <1>1 DEF Control, LockMatchesHandlers, TypeOK
<1>4. PodsNeedVolume'
  BY <1>1 DEF Control, PodsNeedVolume
<1> QED BY <1>2, <1>3, <1>4 DEF Control

LEMMA CallKeeps ==
  ASSUME Control, NEW k \in Paths,
         (k \in Volumes /\ (StageCall(k) \/ UnstageCall(k)))
           \/ (k \in Pods /\ (PublishCall(k) \/ UnpublishCall(k)))
  PROVE  Control'
BY EnterKeeps DEF StageCall, UnstageCall, PublishCall, UnpublishCall

LEMMA GiveUpKeeps ==
  ASSUME Control, NEW h \in Handlers, GiveUp(h)
  PROVE  Control'
<1>1. /\ UNCHANGED <<dirs, mounts, locks, stage, pod, undone>>
      /\ run' \in [Handlers -> Handler]
      /\ run'[h].rpc = run[h].rpc /\ run'[h].pc = run[h].pc /\ ~run'[h].heard
      /\ \A g \in Handlers : g # h => run'[g] = run[g]
      /\ run[h] # Idle
  BY HandlerType DEF GiveUp, Control, TypeOK, Handler, Handlers
<1>2. \A g \in Handlers : run'[g].pc = run[g].pc
  BY <1>1
<1>3. LockMatchesHandlers' /\ TypeOK'
  <2>1. \A j \in Paths, t \in Slots : run'[<<j, t>>].pc = run[<<j, t>>].pc
    BY <1>2 DEF Handlers
  <2>2. LockMatchesHandlers'
    BY <1>1, <1>2, <2>1 DEF Control, LockMatchesHandlers, Handlers
  <2>3. TypeOK'
    BY <1>1 DEF Control, TypeOK, Handlers
  <2> QED BY <2>2, <2>3
<1>4. HandlerMatchesKubelet'
  <2> SUFFICES ASSUME NEW g \in Handlers PROVE HandlerFits(g)'
    BY DEF HandlerMatchesKubelet, Handlers
  <2>0. HandlerFits(g)
    BY DEF Control, HandlerMatchesKubelet, Handlers
  <2>1. CASE g = h
    BY <1>1, <2>0, <2>1 DEF HandlerFits
  <2>2. CASE g # h
    BY <1>1, <2>0, <2>2 DEF HandlerFits
  <2> QED BY <2>1, <2>2
<1>5. PodsNeedVolume'
  BY <1>1 DEF Control, PodsNeedVolume
<1> QED BY <1>3, <1>4, <1>5 DEF Control

LEMMA RestartKeeps ==
  ASSUME Control, Restart
  PROVE  Control'
<1>1. /\ UNCHANGED <<dirs, mounts, stage, pod, undone>> /\ locks' = {}
      /\ run' \in [Handlers -> Handler] /\ \A h \in Handlers : run'[h] = Idle
  BY HandlerType DEF Restart, NoLocks, Handlers
<1>2. LockMatchesHandlers' /\ HandlerMatchesKubelet'
  BY <1>1, HandlerType DEF LockMatchesHandlers, HandlerMatchesKubelet, HandlerFits, Handlers
<1> QED BY <1>1, <1>2 DEF Control, TypeOK, PodsNeedVolume, Handlers

LEMMA ControlStep == Control /\ [Next]_vars => Control'
<1> SUFFICES ASSUME Control, [Next]_vars PROVE Control'
  OBVIOUS
<1>1. ASSUME NEW v \in Volumes,
             WantStage(v) \/ WantUnstage(v) \/ StageCall(v) \/ UnstageCall(v)
      PROVE  Control'
  BY <1>1, VolumeWishKeeps, CallKeeps DEF Paths
<1>2. ASSUME NEW p \in Pods,
             WantPublish(p) \/ WantUnpublish(p) \/ PublishCall(p) \/ UnpublishCall(p)
      PROVE  Control'
  BY <1>2, PodWishKeeps, CallKeeps DEF Paths
<1>3. ASSUME NEW h \in Handlers, Step(h) \/ GiveUp(h) PROVE Control'
  BY <1>3, StepKeepsControl, GiveUpKeeps
<1>4. CASE Restart
  BY <1>4, RestartKeeps
<1>5. CASE UNCHANGED vars
  BY <1>5 DEF vars, Control, TypeOK, LockMatchesHandlers, HandlerMatchesKubelet, HandlerFits,
              PodsNeedVolume
<1> QED BY <1>1, <1>2, <1>3, <1>4, <1>5 DEF Next, Handlers

\* Every variable keeps its type in every behaviour of the node service: no
\* handler runs on a path of the other kind, and nothing is unmounted from an
\* empty mount table.
THEOREM MountTypes == Spec => []TypeOK
<1>1. Control => TypeOK
  BY DEF Control
<1> QED BY <1>1, InitControl, ControlStep, PTL DEF Spec

\* One handler at a time runs on a path, and it holds the path's lock, across
\* calls the kubelet gave up on and restarts.
THEOREM OneHandlerPerPath == Spec => []LockMatchesHandlers
<1>1. Control => LockMatchesHandlers
  BY DEF Control
<1> QED BY <1>1, InitControl, ControlStep, PTL DEF Spec

-----------------------------------------------------------------------------
(* The mount table.                                                         *)

\* What a step may tell the kubelet, given what the path then carries.
AnswersTruthfully(h) ==
  /\ \A v \in Volumes : stage'[v] # stage[v] =>
       /\ v = h[1]
       /\ \/ stage'[v] = "staged" /\ Mounted(v)'
          \/ stage'[v] = "unstaged" /\ ~Mounted(v)'
  /\ \A p \in Pods : pod'[p] # pod[p] =>
       /\ p = h[1]
       /\ \/ /\ pod'[p] = "published" /\ Mounted(p)'
             /\ VolumeOf[p] \notin undone' => Head(mounts'[p]) # "local"
          \/ pod'[p] = "unpublished" /\ ~Mounted(p)'

\* A handler changes the mounts of its own path only, or takes away a staging
\* path, which is recorded.
TouchesOwnPath(h) ==
  \A k \in Paths :
    mounts'[k] # mounts[k] => k = h[1] \/ (k \in Volumes \intersect undone' /\ stage[k] = "staged")

LEMMA ErrorAnswersNothing ==
  ASSUME NEW h, UNCHANGED <<stage, pod>>
  PROVE  AnswersTruthfully(h)
BY DEF AnswersTruthfully

LEMMA OKAnswersTruthfully ==
  ASSUME Control, NEW h \in Handlers, run[h].pc # "idle", ReturnOK(h),
         run[h].rpc \in {"stage", "publish"} => Mounted(h[1])',
         run[h].rpc = "publish" /\ VolumeOf[h[1]] \notin undone' => Head(mounts'[h[1]]) # "local",
         run[h].rpc \in {"unstage", "unpublish"} => ~Mounted(h[1])'
  PROVE  AnswersTruthfully(h)
BY ReturnOKEffect DEF AnswersTruthfully

\* The volume of a running publish is staged.
LEMMA PublishingVolume ==
  ASSUME Control, NEW h \in Handlers, run[h].rpc \in {"publish", "unpublish"}
  PROVE  stage[VolumeOf[h[1]]] = "staged"
BY HandlerType DEF Control, HandlerMatchesKubelet, HandlerFits, PodsNeedVolume, Handlers

LEMMA StepFrame ==
  ASSUME Control, NEW h \in Handlers, Step(h)
  PROVE  \A g \in Handlers : g # h => run'[g] = run[g]
<1>1. CASE \E pc : Continue(h, pc)
  BY <1>1 DEF Continue, Control, TypeOK, Handlers
<1>2. CASE Return(h)
  BY <1>2 DEF Return, Control, TypeOK, Handlers
<1> QED BY <1>1, <1>2, StepShape, ReturnOKEffect DEF ReturnError

LEMMA PromisesKept ==
  ASSUME IInv, NEW h \in Handlers, run[h].pc # "idle", undone \subseteq undone',
         AnswersTruthfully(h), TouchesOwnPath(h)
  PROVE  /\ UnpublishedIsClean' /\ UnstagedIsClean'
         /\ PublishedServesVolume' /\ StagedUntilUndone'
<1>1. /\ h[1] \in Volumes => stage[h[1]] \notin {"staged", "unstaged"}
      /\ h[1] \in Pods => pod[h[1]] \notin {"published", "unpublished"}
  BY HandlerType, PathsAssumption DEF IInv, HandlerMatchesKubelet, HandlerFits, Handlers
<1>2. UnpublishedIsClean'
  <2> SUFFICES ASSUME NEW p \in Pods, pod'[p] = "unpublished" PROVE ~Mounted(p)'
    BY DEF UnpublishedIsClean
  <2>1. CASE pod'[p] # pod[p]
    BY <2>1 DEF AnswersTruthfully
  <2>2. CASE pod'[p] = pod[p]
    <3>1. mounts'[p] = mounts[p]
      BY <1>1, <2>2, PathsAssumption DEF TouchesOwnPath, Paths
    <3> QED BY <2>2, <3>1 DEF IInv, UnpublishedIsClean, Mounted
  <2> QED BY <2>1, <2>2
<1>3. UnstagedIsClean'
  <2> SUFFICES ASSUME NEW v \in Volumes, stage'[v] = "unstaged" PROVE ~Mounted(v)'
    BY DEF UnstagedIsClean
  <2>1. CASE stage'[v] # stage[v]
    BY <2>1 DEF AnswersTruthfully
  <2>2. CASE stage'[v] = stage[v]
    <3>1. mounts'[v] = mounts[v]
      BY <1>1, <2>2 DEF TouchesOwnPath, Paths
    <3> QED BY <2>2, <3>1 DEF IInv, UnstagedIsClean, Mounted
  <2> QED BY <2>1, <2>2
<1>4. PublishedServesVolume'
  <2> SUFFICES ASSUME NEW p \in Pods, pod'[p] = "published"
               PROVE  /\ Mounted(p)'
                      /\ VolumeOf[p] \notin undone' => Head(mounts'[p]) # "local"
    BY DEF PublishedServesVolume
  <2>1. CASE pod'[p] # pod[p]
    BY <2>1 DEF AnswersTruthfully
  <2>2. CASE pod'[p] = pod[p]
    <3>1. mounts'[p] = mounts[p]
      BY <1>1, <2>2, PathsAssumption DEF TouchesOwnPath, Paths
    <3> QED BY <2>2, <3>1 DEF IInv, PublishedServesVolume, Mounted
  <2> QED BY <2>1, <2>2
<1>5. StagedUntilUndone'
  <2> SUFFICES ASSUME NEW v \in Volumes, v \notin undone', stage'[v] = "staged"
               PROVE  Mounted(v)'
    BY DEF StagedUntilUndone
  <2>1. CASE stage'[v] # stage[v]
    BY <2>1 DEF AnswersTruthfully
  <2>2. CASE stage'[v] = stage[v]
    <3>1. mounts'[v] = mounts[v] /\ v \notin undone
      BY <1>1, <2>2 DEF TouchesOwnPath, Paths
    <3> QED BY <2>2, <3>1 DEF IInv, StagedUntilUndone, Mounted
  <2> QED BY <2>1, <2>2
<1> QED BY <1>2, <1>3, <1>4, <1>5

LEMMA HandlerStepKeeps ==
  ASSUME IInv, NEW h \in Handlers, Step(h), undone \subseteq undone',
         AnswersTruthfully(h), TouchesOwnPath(h),
         run'[h].pc \in {"mount", "fallback"} => ~LikelyMounted(h[1])',
         MountedIsDir', QuickCheckTruthful'
  PROVE  IInv'
<1>1. Control /\ Control' /\ run[h].pc # "idle"
  BY StepShape, StepKeepsControl DEF IInv, Control
<1>2. MountsOnFreePath'
  <2> SUFFICES ASSUME NEW g \in Handlers, run'[g].pc \in {"mount", "fallback"}
               PROVE  ~LikelyMounted(g[1])'
    BY DEF MountsOnFreePath, Handlers
  <2>1. CASE g # h
    <3>1. run'[g] = run[g] /\ run[g].pc # "idle"
      BY <1>1, <2>1, StepFrame
    <3>2. g[1] # h[1]
      BY <1>1, <2>1, <3>1 DEF Control, LockMatchesHandlers, Handlers
    <3>3. g[1] \in Volumes => stage[g[1]] # "staged"
      BY <1>1, <3>1, HandlerType, PathsAssumption DEF Control, HandlerMatchesKubelet,
        HandlerFits, Handlers
    <3>4. mounts'[g[1]] = mounts[g[1]]
      BY <3>2, <3>3, HandlerParts DEF TouchesOwnPath
    <3> QED BY <3>1, <3>4 DEF IInv, MountsOnFreePath, LikelyMounted, Mounted, Handlers
  <2> QED BY <2>1
<1>3. /\ UnpublishedIsClean' /\ UnstagedIsClean'
      /\ PublishedServesVolume' /\ StagedUntilUndone'
  BY <1>1, PromisesKept
<1> QED BY <1>1, <1>2, <1>3 DEF IInv, Control

-----------------------------------------------------------------------------
(* One step per action of a handler.                                        *)

\* A step that mounts and unmounts nothing.
LEMMA NoMountKeeps ==
  ASSUME IInv, NEW h \in Handlers, Step(h), UNCHANGED mounts, undone \subseteq undone',
         AnswersTruthfully(h), \A k \in Paths : Mounted(k) /\ k \in dirs => k \in dirs',
         run'[h].pc \in {"mount", "fallback"} => ~LikelyMounted(h[1])
  PROVE  IInv'
<1>1. TouchesOwnPath(h)
  BY DEF TouchesOwnPath
<1>2. MountedIsDir' /\ QuickCheckTruthful'
  BY DEF IInv, MountedIsDir, QuickCheckTruthful, Mounted, LikelyMounted
<1>3. LikelyMounted(h[1])' = LikelyMounted(h[1])
  BY DEF LikelyMounted, Mounted
<1> QED BY <1>1, <1>2, <1>3, HandlerStepKeeps

LEMMA ErrorKeeps ==
  ASSUME IInv, NEW h \in Handlers, Step(h), ReturnError(h), UNCHANGED mounts,
         undone \subseteq undone',
         \A k \in Paths : Mounted(k) /\ k \in dirs => k \in dirs'
  PROVE  IInv'
<1>1. run'[h].pc = "idle"
  BY StepShape, ReturnFrees, HandlerType DEF ReturnError, IInv, Control
<1>2. AnswersTruthfully(h)
  BY ErrorAnswersNothing DEF ReturnError
<1> QED BY <1>1, <1>2, NoMountKeeps

\* A handler mounts on a path that carries nothing, if the quick check tells
\* the truth about it.
LEMMA MountKeeps ==
  ASSUME IInv, NEW h \in Handlers, Step(h), run[h].pc \in {"mount", "fallback"},
         run[h].rpc \in {"stage", "publish"},
         NEW c \in Content, MountOn(h[1], c), h[1] \in dirs, ReturnOK(h), UNCHANGED <<dirs,
         undone>>,
         c = "local" => h[1] \in Pods \ Volumes /\ VolumeOf[h[1]] \in undone
  PROVE  IInv'
<1> DEFINE k == h[1]
<1>1. Control /\ TypeOK /\ k \in Paths /\ run[h].pc # "idle"
  BY HandlerParts DEF IInv, Control
<1>2. /\ mounts' \in [Paths -> Seq(Content)]
      /\ mounts'[k] # <<>> /\ Head(mounts'[k]) = c /\ Len(mounts'[k]) = Len(mounts[k]) + 1
      /\ \A j \in Paths : j # k => mounts'[j] = mounts[j]
  BY <1>1, PushType
<1>3. ~LikelyMounted(k)
  BY DEF IInv, MountsOnFreePath, Handlers
<1>4. TouchesOwnPath(h)
  BY <1>2 DEF TouchesOwnPath
<1>5. AnswersTruthfully(h)
  <2>1. run[h].rpc = "publish" /\ VolumeOf[k] \notin undone' => c # "local"
    OBVIOUS
  <2> QED BY <1>1, <1>2, <2>1, OKAnswersTruthfully DEF Mounted
<1>6. run'[h].pc = "idle"
  BY <1>1, ReturnFrees, HandlerType DEF ReturnOK
<1>7. MountedIsDir'
  BY <1>2 DEF IInv, MountedIsDir, Mounted
<1>8. QuickCheckTruthful'
  <2> SUFFICES ASSUME NEW j \in Paths, j \in Volumes \/ VolumeOf[j] \notin undone
               PROVE  Len(mounts'[j]) <= 1 /\ (Mounted(j)' => LikelyMounted(j)')
    BY DEF QuickCheckTruthful
  <2>1. CASE j = k
    <3>1. ~Mounted(k)
      BY <1>3, <2>1 DEF IInv, QuickCheckTruthful
    <3>2. Len(mounts'[k]) = 1
      BY <1>2, <3>1, EmptyStack DEF Mounted
    <3>3. c # "local"
      BY <2>1
    <3>4. mounts'[j] # <<>> /\ Head(mounts'[j]) = c /\ Len(mounts'[j]) = 1
      BY <1>2, <2>1, <3>2
    <3>5. LikelyMounted(j)'
      BY <3>3, <3>4 DEF LikelyMounted, Mounted
    <3> QED BY <3>4, <3>5
  <2>2. CASE j # k
    BY <1>2, <2>2 DEF IInv, QuickCheckTruthful, LikelyMounted, Mounted
  <2> QED BY <2>1, <2>2
<1> QED BY <1>4, <1>5, <1>6, <1>7, <1>8, HandlerStepKeeps

\* A handler unmounts the top of its own path, or of its volume's staging path.
LEMMA UnmountKeeps ==
  ASSUME IInv, NEW h \in Handlers, Step(h), NEW k \in Paths, Mounted(k), Unmount(k),
         k = h[1] \/ (k \in Volumes \intersect undone' /\ stage[k] = "staged"),
         NEW pc, Continue(h, pc), pc \notin {"mount", "fallback"},
         UNCHANGED dirs, undone \subseteq undone'
  PROVE  IInv'
<1>1. Control /\ TypeOK
  BY DEF IInv, Control
<1>2. /\ mounts' \in [Paths -> Seq(Content)]
      /\ Len(mounts'[k]) = Len(mounts[k]) - 1
      /\ \A j \in Paths : j # k => mounts'[j] = mounts[j]
  BY <1>1, PopType
<1>3. TouchesOwnPath(h) /\ AnswersTruthfully(h)
  BY <1>2, ErrorAnswersNothing DEF TouchesOwnPath, Continue
<1>4. run'[h].pc = pc
  BY <1>1 DEF Continue, TypeOK, Handlers
<1>5. MountedIsDir'
  BY <1>2 DEF IInv, MountedIsDir, Mounted
<1>6. QuickCheckTruthful'
  <2> SUFFICES ASSUME NEW j \in Paths, j \in Volumes \/ VolumeOf[j] \notin undone
               PROVE  Len(mounts'[j]) <= 1 /\ (Mounted(j)' => LikelyMounted(j)')
    BY DEF QuickCheckTruthful
  <2>1. CASE j = k
    <3>1. Len(mounts[k]) \in Nat /\ Len(mounts[k]) <= 1 /\ mounts'[k] \in Seq(Content)
      BY <1>1, <1>2, <2>1, NonEmptyStack DEF IInv, QuickCheckTruthful, TypeOK
    <3>2. Len(mounts'[k]) <= 0
      BY <1>2, <3>1
    <3>3. mounts'[k] = <<>>
      BY <3>1, <3>2, NonEmptyStack
    <3> QED BY <2>1, <3>2, <3>3 DEF Mounted
  <2>2. CASE j # k
    BY <1>2, <2>2 DEF IInv, QuickCheckTruthful, LikelyMounted, Mounted
  <2> QED BY <2>1, <2>2
<1> QED BY <1>3, <1>4, <1>5, <1>6, HandlerStepKeeps

LEMMA EnsureKeeps ==
  ASSUME IInv, NEW h \in Handlers, Ensure(h)
  PROVE  IInv'
<1>1. Control /\ Step(h) /\ run[h].pc # "idle" /\ run[h].rpc \in {"stage", "publish"}
  BY DEF Ensure, At, Step, IInv, Control
<1>2. CASE LikelyMounted(h[1]) /\ ReturnOK(h) /\ UNCHANGED dirs
  <2>1. AnswersTruthfully(h)
    BY <1>1, <1>2, OKAnswersTruthfully DEF Ensure, LikelyMounted, Mounted
  <2>2. run'[h].pc = "idle"
    BY <1>1, <1>2, ReturnFrees, HandlerType DEF ReturnOK
  <2> QED BY <1>1, <1>2, <2>1, <2>2, NoMountKeeps DEF Ensure
<1>3. CASE ~LikelyMounted(h[1]) /\ dirs' = dirs \union {h[1]} /\ Continue(h, "mount")
  <2>1. AnswersTruthfully(h)
    BY <1>3, ErrorAnswersNothing DEF Continue
  <2> QED BY <1>1, <1>3, <2>1, NoMountKeeps DEF Ensure
<1> QED BY <1>2, <1>3 DEF Ensure

LEMMA StageMountKeeps ==
  ASSUME IInv, NEW h \in Handlers,
         StageMount(h) \/ StageMountFails(h) \/ StageFallback(h)
  PROVE  IInv'
<1>1. Control /\ Step(h) /\ run[h].rpc = "stage" /\ run[h].pc \in {"mount", "fallback"}
  BY DEF StageMount, StageMountFails, StageFallback, At, Step, IInv, Control
<1>2. CASE StageMount(h)
  BY <1>1, <1>2, MountKeeps DEF StageMount, Content
<1>3. CASE StageMountFails(h)
  <2>1. CASE ReturnError(h)
    BY <1>1, <1>3, <2>1, ErrorKeeps DEF StageMountFails
  <2>2. CASE Continue(h, "fallback")
    <3>1. AnswersTruthfully(h)
      BY <2>2, ErrorAnswersNothing DEF Continue
    <3>2. ~LikelyMounted(h[1])
      BY <1>1 DEF IInv, MountsOnFreePath, Handlers
    <3> QED BY <1>1, <1>3, <3>1, <3>2, NoMountKeeps DEF StageMountFails
  <2> QED BY <1>3, <2>1, <2>2 DEF StageMountFails
<1>4. CASE StageFallback(h)
  <2>1. CASE ReturnError(h) /\ UNCHANGED mounts
    BY <1>1, <1>4, <2>1, ErrorKeeps DEF StageFallback
  <2>2. CASE h[1] \in dirs /\ MountOn(h[1], "plain") /\ ReturnOK(h)
    BY <1>1, <1>4, <2>2, MountKeeps DEF StageFallback, Content
  <2> QED BY <1>4, <2>1, <2>2 DEF StageFallback
<1> QED BY <1>2, <1>3, <1>4

\* A bind mount shows the NFS mount, unless the staging path was taken away.
LEMMA PublishBindKeeps ==
  ASSUME IInv, NEW h \in Handlers, PublishBind(h)
  PROVE  IInv'
<1> DEFINE v == VolumeOf[h[1]]
           c == IF Mounted(v) THEN Head(mounts[v]) ELSE "local"
<1>1. /\ Control /\ TypeOK /\ Step(h)
      /\ run[h].rpc = "publish" /\ run[h].pc = "mount"
      /\ h[1] \in dirs /\ MountOn(h[1], c) /\ ReturnOK(h) /\ UNCHANGED <<dirs, undone>>
  BY DEF PublishBind, At, Step, IInv, Control
<1>2. h[1] \in Pods \ Volumes /\ v \in Volumes /\ v \in Paths /\ stage[v] = "staged"
  BY <1>1, HandlerKey, PublishingVolume DEF Paths
<1>3. c \in Content
  BY <1>1, <1>2, HeadType
<1>4. c = "local" => v \in undone
  <2>1. v \notin undone => Mounted(v)
    BY <1>2 DEF IInv, StagedUntilUndone
  <2>2. Mounted(v) => LikelyMounted(v)
    BY <1>2 DEF IInv, QuickCheckTruthful
  <2> QED BY <2>1, <2>2 DEF LikelyMounted
<1> QED BY <1>1, <1>2, <1>3, <1>4, MountKeeps

LEMMA PublishBindFailsKeeps ==
  ASSUME IInv, NEW h \in Handlers, PublishBindFails(h)
  PROVE  IInv'
<1>1. Control /\ TypeOK /\ Step(h) /\ Continue(h, "undo") /\ UNCHANGED <<dirs, mounts, undone>>
  BY DEF PublishBindFails, Step, IInv, Control
<1>2. AnswersTruthfully(h) /\ run'[h].pc = "undo"
  BY <1>1, ErrorAnswersNothing DEF Continue, TypeOK, Handlers
<1> QED BY <1>1, <1>2, NoMountKeeps

\* The cleanup of the staging path is recorded before anyone can notice it.
LEMMA PublishUndoKeeps ==
  ASSUME IInv, NEW h \in Handlers, PublishUndo(h) \/ PublishUndoRecheck(h)
  PROVE  IInv'
<1> DEFINE v == VolumeOf[h[1]]
<1>1. Control /\ Step(h) /\ run[h].rpc = "publish" /\ undone \subseteq undone'
  BY DEF PublishUndo, PublishUndoRecheck, At, Step, IInv, Control
<1>2. v \in Volumes /\ v \in Paths /\ stage[v] = "staged"
  BY <1>1, HandlerKey, PublishingVolume DEF Paths
<1>3. CASE ReturnError(h) /\ UNCHANGED mounts /\ (RemoveDir(v) \/ UNCHANGED dirs)
  BY <1>1, <1>3, ErrorKeeps DEF RemoveDir
<1>4. CASE LikelyMounted(v) /\ Unmount(v) /\ Continue(h, "undorecheck") /\ UNCHANGED dirs
           /\ v \in undone'
  BY <1>1, <1>2, <1>4, UnmountKeeps DEF LikelyMounted
<1> QED BY <1>3, <1>4 DEF PublishUndo, PublishUndoRecheck

\* Teardown answers only for a path that carries nothing.
LEMMA TeardownKeeps ==
  ASSUME IInv, NEW h \in Handlers, Cleanup(h) \/ Recheck(h)
  PROVE  IInv'
<1> DEFINE k == h[1]
<1>1. /\ Control /\ Step(h) /\ UNCHANGED undone /\ k \in Paths
      /\ run[h].rpc \in {"unstage", "unpublish"} /\ run[h].pc # "idle"
  BY HandlerParts DEF Cleanup, Recheck, At, Step, IInv, Control
<1>2. CASE ReturnOK(h) /\ UNCHANGED mounts /\ ((k \notin dirs /\ UNCHANGED dirs) \/ RemoveDir(k))
  <2>1. ~Mounted(k)
    BY <1>1, <1>2 DEF RemoveDir, IInv, MountedIsDir
  <2>2. AnswersTruthfully(h)
    BY <1>1, <1>2, <2>1, OKAnswersTruthfully DEF Mounted
  <2>3. run'[h].pc = "idle"
    BY <1>1, <1>2, ReturnFrees, HandlerType DEF ReturnOK
  <2> QED BY <1>1, <1>2, <2>1, <2>2, <2>3, NoMountKeeps DEF RemoveDir
<1>3. CASE Mounted(k) /\ Unmount(k) /\ Continue(h, "recheck") /\ UNCHANGED dirs
  BY <1>1, <1>3, UnmountKeeps
<1>4. CASE ReturnError(h) /\ UNCHANGED <<dirs, mounts>>
  BY <1>1, <1>4, ErrorKeeps
<1> QED BY <1>2, <1>3, <1>4 DEF Cleanup, Recheck

-----------------------------------------------------------------------------
(* The kubelet, and the driver's process.                                   *)

\* A new stage of a volume forgets that its path was once taken away: by then
\* nothing is mounted for it, and none of its pods is there.
LEMMA WantStageKeeps ==
  ASSUME IInv, Control', NEW v \in Volumes, WantStage(v)
  PROVE  IInv'
<1>1. /\ UNCHANGED <<dirs, mounts, run, pod>> /\ undone' = undone \ {v}
      /\ stage[v] = "unstaged" /\ stage'[v] = "staging"
      /\ \A w \in Volumes : w # v => stage'[w] = stage[w]
  BY DEF WantStage, IInv, TypeOK
<1>2. \A p \in Pods : VolumeOf[p] = v => pod[p] = "unpublished" /\ ~Mounted(p)
  BY <1>1 DEF IInv, PodsNeedVolume, UnpublishedIsClean
<1>3. QuickCheckTruthful'
  <2> SUFFICES ASSUME NEW k \in Paths, k \in Volumes \/ VolumeOf[k] \notin undone'
               PROVE  Len(mounts[k]) <= 1 /\ (Mounted(k) => LikelyMounted(k))
    BY <1>1 DEF QuickCheckTruthful, Mounted, LikelyMounted
  <2>1. CASE k \in Volumes \/ VolumeOf[k] \notin undone
    BY <2>1 DEF IInv, QuickCheckTruthful
  <2>2. CASE k \in Pods /\ VolumeOf[k] = v
    BY <1>2, <2>2, EmptyStack DEF Mounted
  <2> QED BY <1>1, <2>1, <2>2 DEF Paths
<1>4. MountedIsDir' /\ MountsOnFreePath' /\ UnpublishedIsClean' /\ UnstagedIsClean'
  BY <1>1 DEF IInv, MountedIsDir, MountsOnFreePath, UnpublishedIsClean, UnstagedIsClean, Mounted,
              LikelyMounted
<1>5. PublishedServesVolume'
  BY <1>1, <1>2 DEF IInv, PublishedServesVolume, Mounted
<1>6. StagedUntilUndone'
  BY <1>1 DEF IInv, StagedUntilUndone, Mounted
<1> QED BY <1>3, <1>4, <1>5, <1>6 DEF IInv, Control

LEMMA WishKeeps ==
  ASSUME IInv, Control', UNCHANGED <<dirs, mounts, run, undone>>,
         \A v \in Volumes : stage'[v] \in {"staged", "unstaged"} => stage'[v] = stage[v],
         \A p \in Pods : pod'[p] \in {"published", "unpublished"} => pod'[p] = pod[p]
  PROVE  IInv'
<1>1. MountedIsDir' /\ MountsOnFreePath' /\ QuickCheckTruthful'
  BY DEF IInv, MountedIsDir, MountsOnFreePath, QuickCheckTruthful, Mounted, LikelyMounted
<1>2. UnpublishedIsClean' /\ UnstagedIsClean' /\ StagedUntilUndone'
  BY DEF IInv, UnpublishedIsClean, UnstagedIsClean, StagedUntilUndone, Mounted
<1>3. PublishedServesVolume'
  BY DEF IInv, PublishedServesVolume, Mounted
<1> QED BY <1>1, <1>2, <1>3 DEF IInv, Control

\* A call that arrives, one that is given up, and a restart of the driver.
LEMMA ProcessKeeps ==
  ASSUME IInv, Control', UNCHANGED <<dirs, mounts, stage, pod, undone>>,
         \A h \in Handlers :
           run'[h].pc \in {"mount", "fallback"} => run'[h].pc = run[h].pc
  PROVE  IInv'
<1>1. MountedIsDir' /\ QuickCheckTruthful'
  BY DEF IInv, MountedIsDir, QuickCheckTruthful, Mounted, LikelyMounted
<1>2. MountsOnFreePath'
  BY DEF IInv, MountsOnFreePath, Mounted, LikelyMounted, Handlers
<1>3. UnpublishedIsClean' /\ UnstagedIsClean' /\ StagedUntilUndone' /\ PublishedServesVolume'
  BY DEF IInv, UnpublishedIsClean, UnstagedIsClean, StagedUntilUndone, PublishedServesVolume,
    Mounted
<1> QED BY <1>1, <1>2, <1>3 DEF IInv, Control

LEMMA CallFrame ==
  ASSUME TypeOK, NEW k \in Paths, NEW rpc, NEW pc \in {"ensure", "cleanup"}, Enter(k, rpc, pc)
  PROVE  \A h \in Handlers : run'[h].pc \in {"mount", "fallback"} => run'[h].pc = run[h].pc
<1>1. PICK s \in Slots :
        run' = [run EXCEPT ![<<k, s>>] = [rpc |-> rpc, pc |-> pc, heard |-> TRUE]]
  BY DEF Enter
<1> QED BY <1>1 DEF TypeOK, Handlers

LEMMA IInvStep == IInv /\ [Next]_vars => IInv'
<1> SUFFICES ASSUME IInv, [Next]_vars PROVE IInv'
  OBVIOUS
<1>0. Control /\ Control' /\ TypeOK
  BY ControlStep DEF IInv, Control
<1>1. ASSUME NEW v \in Volumes, WantStage(v) PROVE IInv'
  BY <1>0, <1>1, WantStageKeeps
<1>2. ASSUME NEW v \in Volumes, WantUnstage(v) PROVE IInv'
  BY <1>0, <1>2, WishKeeps DEF WantUnstage, TypeOK
<1>3. ASSUME NEW p \in Pods, WantPublish(p) \/ WantUnpublish(p) PROVE IInv'
  BY <1>0, <1>3, WishKeeps DEF WantPublish, WantUnpublish, TypeOK
<1>4. ASSUME NEW k \in Paths, NEW rpc, NEW pc \in {"ensure", "cleanup"}, Enter(k, rpc, pc)
      PROVE  IInv'
  BY <1>0, <1>4, CallFrame, ProcessKeeps DEF Enter
<1>5. ASSUME NEW v \in Volumes, StageCall(v) \/ UnstageCall(v) PROVE IInv'
  BY <1>4, <1>5 DEF StageCall, UnstageCall, Paths
<1>6. ASSUME NEW p \in Pods, PublishCall(p) \/ UnpublishCall(p) PROVE IInv'
  BY <1>4, <1>6 DEF PublishCall, UnpublishCall, Paths
<1>7. ASSUME NEW h \in Handlers, Step(h) PROVE IInv'
  <2>1. CASE HandlerFails(h)
    BY <1>7, <2>1, ErrorKeeps DEF HandlerFails
  <2> QED BY <1>7, <2>1, EnsureKeeps, StageMountKeeps, PublishBindKeeps, PublishBindFailsKeeps,
             PublishUndoKeeps, TeardownKeeps DEF Step
<1>8. ASSUME NEW h \in Handlers, GiveUp(h) PROVE IInv'
  <2>1. \A g \in Handlers : run'[g].pc = run[g].pc
    BY <1>0, <1>8 DEF GiveUp, TypeOK, Handlers
  <2> QED BY <1>0, <1>8, <2>1, ProcessKeeps DEF GiveUp
<1>9. CASE Restart
  <2>1. \A h \in Handlers : run'[h].pc = "idle"
    BY <1>9, HandlerType DEF Restart, Handlers
  <2> QED BY <1>0, <1>9, <2>1, ProcessKeeps DEF Restart
<1>10. CASE UNCHANGED vars
  BY <1>0, <1>10, ProcessKeeps DEF vars
<1> QED BY <1>1, <1>2, <1>3, <1>5, <1>6, <1>7, <1>8, <1>9, <1>10 DEF Next, Handlers

LEMMA InitIInv == Init => IInv
<1> SUFFICES ASSUME Init PROVE IInv
  OBVIOUS
<1>1. Control
  BY InitControl
<1>2. \A k \in Paths : mounts[k] = <<>>
  BY DEF Init
<1>3. MountedIsDir /\ QuickCheckTruthful
  BY <1>2, EmptyStack DEF MountedIsDir, QuickCheckTruthful, Mounted
<1>4. MountsOnFreePath
  BY <1>2 DEF MountsOnFreePath, LikelyMounted, Mounted, Handlers
<1>5. UnpublishedIsClean /\ UnstagedIsClean
  BY <1>2 DEF UnpublishedIsClean, UnstagedIsClean, Mounted, Paths
<1>6. StagedUntilUndone /\ PublishedServesVolume
  BY DEF Init, StagedUntilUndone, PublishedServesVolume
<1> QED BY <1>1, <1>3, <1>4, <1>5, <1>6 DEF IInv, Control

\* The inductive invariant of the node service.
THEOREM MountInvariant == Spec => []IInv
BY InitIInv, IInvStep, PTL DEF Spec

\* After a successful unpublish nothing is left on the target path, whatever
\* calls were given up on, failed, or were cut off by a restart.
THEOREM UnpublishedClean == Spec => []UnpublishedIsClean
<1>1. IInv => UnpublishedIsClean
  BY DEF IInv
<1> QED BY <1>1, MountInvariant, PTL

\* After a successful unstage nothing is left on the staging path.
THEOREM UnstagedClean == Spec => []UnstagedIsClean
<1>1. IInv => UnstagedIsClean
  BY DEF IInv
<1> QED BY <1>1, MountInvariant, PTL

\* A published pod keeps a mount, of the volume unless a failed publish of a
\* neighbour had cleaned up the staging path.
THEOREM PublishedServes == Spec => []PublishedServesVolume
<1>1. IInv => PublishedServesVolume
  BY DEF IInv
<1> QED BY <1>1, MountInvariant, PTL

\* Only that cleanup takes the NFS mount of a staged volume away.
THEOREM StagedStays == Spec => []StagedUntilUndone
<1>1. IInv => StagedUntilUndone
  BY DEF IInv
<1> QED BY <1>1, MountInvariant, PTL

\* Retries stack mounts only on targets of a volume whose staging path was
\* cleaned up under them.
THEOREM NeverStacked == Spec => []NoStackedMounts
<1>1. IInv => NoStackedMounts
  <2> SUFFICES ASSUME IInv, NEW k \in Paths, Len(mounts[k]) > 1
               PROVE  (IF k \in Pods THEN VolumeOf[k] ELSE k) \in undone
    BY DEF NoStackedMounts
  <2>1. Len(mounts[k]) \in Nat
    BY NonEmptyStack DEF IInv, TypeOK
  <2>2. ~(k \in Volumes \/ VolumeOf[k] \notin undone)
    BY <2>1 DEF IInv, QuickCheckTruthful
  <2> QED BY <2>2 DEF Paths
<1> QED BY <1>1, MountInvariant, PTL

=============================================================================
