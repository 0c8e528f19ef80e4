----------------------------- MODULE NodeMounts -----------------------------
(***************************************************************************)
(* The node service of one node: NodeStageVolume, NodeUnstageVolume,       *)
(* NodePublishVolume and NodeUnpublishVolume over the host's mount table.  *)
(*                                                                         *)
(* A volume has one staging path and a pod one target path, so a volume    *)
(* stands for its staging path and a pod for its target path; they are     *)
(* also the keys the handlers lock.  The handlers ignore their context: a  *)
(* call the kubelet gave up on runs on, with its lock, and nobody hears    *)
(* its answer.  The kubelet asks for one thing at a time per key.          *)
(***************************************************************************)
EXTENDS Naturals, Sequences, VolumeLocks

CONSTANTS
  Volumes,
  Pods,
  VolumeOf,  \* the volume each pod mounts
  Slots,     \* handlers that could be running for one key
  MTLSMode,  \* the Space's mTLS mode in the volume context
  MaxStack   \* bound: mounts stacked on one path

ASSUME VolumeOfAssumption == VolumeOf \in [Pods -> Volumes]
ASSUME MaxStackAssumption == MaxStack \in Nat \ {0}
\* Staging paths and target paths lie in different trees of the kubelet.
ASSUME PathsAssumption == Volumes \intersect Pods = {}
ASSUME MTLSModeAssumption == MTLSMode \in {"required", "optional", "disabled"}

VARIABLES
  dirs,    \* paths that exist as directories
  mounts,  \* the stack of mounts on each path, the visible one first
  locks,   \* NodeServer.volumeLocks
  run,     \* the handlers of each key
  stage,   \* how far the kubelet is with each volume
  pod,     \* how far the kubelet is with each pod
  undone   \* history: staged volumes whose staging path a failed publish
           \* cleaned up

vars == <<dirs, mounts, locks, run, stage, pod, undone>>

Paths == Volumes \union Pods

\* What a mount shows: the NFS export, over mTLS or not, or a local directory
\* that was bind-mounted while nothing was mounted on it.
Content == {"mtls", "plain", "local"}

Handler == [rpc: {"none", "stage", "unstage", "publish", "unpublish"},
            pc: {"idle", "ensure", "mount", "fallback", "cleanup", "recheck",
                 "undo", "undorecheck"},
            heard: BOOLEAN]  \* is the kubelet still waiting for the answer?

Idle == [rpc |-> "none", pc |-> "idle", heard |-> FALSE]

TypeOK ==
  /\ dirs \subseteq Paths
  /\ mounts \in [Paths -> Seq(Content)]
  /\ locks \subseteq Paths
  /\ run \in [Paths \X Slots -> Handler]
  /\ stage \in [Volumes -> {"unstaged", "staging", "staged", "unstaging"}]
  /\ pod \in [Pods -> {"unpublished", "publishing", "published", "unpublishing"}]
  /\ undone \subseteq Volumes

Init ==
  /\ dirs = {}
  /\ mounts = [p \in Paths |-> <<>>]
  /\ locks = NoLocks
  /\ run = [h \in Paths \X Slots |-> Idle]
  /\ stage = [v \in Volumes |-> "unstaged"]
  /\ pod = [p \in Pods |-> "unpublished"]
  /\ undone = {}

-----------------------------------------------------------------------------
(* The mount table, as k8s.io/utils/mount reads and changes it.             *)

Mounted(path) == mounts[path] # <<>>

\* IsLikelyNotMountPoint compares devices, so a bind mount of a directory of
\* the same file system looks like no mount.
LikelyMounted(path) == Mounted(path) /\ Head(mounts[path]) # "local"

MountOn(path, content) ==
  /\ Len(mounts[path]) < MaxStack
  /\ mounts' = [mounts EXCEPT ![path] = <<content>> \o @]

Unmount(path) == mounts' = [mounts EXCEPT ![path] = Tail(@)]

RemoveDir(path) == path \in dirs /\ ~Mounted(path) /\ dirs' = dirs \ {path}

-----------------------------------------------------------------------------
(* Handlers.                                                                *)

Waiting(k) == \E s \in Slots : run[<<k, s>>].heard

\* A call that finds the key locked returns Aborted, which is not a step.
Enter(k, rpc, pc) ==
  /\ ~Waiting(k)
  /\ CanAcquire(locks, k)
  /\ locks' = Acquire(locks, k)
  /\ \E s \in Slots :
       /\ run[<<k, s>>].pc = "idle"
       /\ run' = [run EXCEPT ![<<k, s>>] = [rpc |-> rpc, pc |-> pc, heard |-> TRUE]]
  /\ UNCHANGED <<dirs, mounts, stage, pod, undone>>

At(h, rpcs, pc) == run[h].rpc \in rpcs /\ run[h].pc = pc

Continue(h, pc) ==
  /\ run' = [run EXCEPT ![h] = [rpc |-> run[h].rpc, pc |-> pc, heard |-> run[h].heard]]
  /\ UNCHANGED <<locks, stage, pod>>

\* Mutant: a return that forgets the lock.
ReturnKeepsLock(h) == run' = [run EXCEPT ![h] = Idle] /\ UNCHANGED locks

Return(h) ==
  /\ run' = [run EXCEPT ![h] = Idle]
  /\ locks' = Release(locks, h[1])

ReturnError(h) == Return(h) /\ UNCHANGED <<stage, pod>>

\* The kubelet, if it still listens, learns of the success.
ReturnOK(h) ==
  LET k == h[1]
      heard(rpc) == run[h].heard /\ run[h].rpc = rpc
  IN  /\ Return(h)
      /\ stage' = IF heard("stage") THEN [stage EXCEPT ![k] = "staged"]
                  ELSE IF heard("unstage") THEN [stage EXCEPT ![k] = "unstaged"] ELSE stage
      /\ pod' = IF heard("publish") THEN [pod EXCEPT ![k] = "published"]
                ELSE IF heard("unpublish") THEN [pod EXCEPT ![k] = "unpublished"] ELSE pod

StageCall(v) == stage[v] = "staging" /\ Enter(v, "stage", "ensure")
UnstageCall(v) == stage[v] = "unstaging" /\ Enter(v, "unstage", "cleanup")
PublishCall(p) == pod[p] = "publishing" /\ Enter(p, "publish", "ensure")
UnpublishCall(p) == pod[p] = "unpublishing" /\ Enter(p, "unpublish", "cleanup")

\* Mutant: the mount check is left out.
EnsureNoCheck(h) ==
  /\ At(h, {"stage", "publish"}, "ensure")
  /\ dirs' = dirs \union {h[1]}
  /\ Continue(h, "mount")
  /\ UNCHANGED <<mounts, undone>>

\* Mutant: an existing directory is taken for a mount.
EnsureIfDir(h) ==
  /\ At(h, {"stage", "publish"}, "ensure")
  /\ \/ h[1] \in dirs /\ ReturnOK(h) /\ UNCHANGED dirs
     \/ h[1] \notin dirs /\ dirs' = dirs \union {h[1]} /\ Continue(h, "mount")
  /\ UNCHANGED <<mounts, undone>>

\* ensureMountPoint: a path already mounted is success at once; otherwise the
\* directory is made.
Ensure(h) ==
  /\ At(h, {"stage", "publish"}, "ensure")
  /\ \/ LikelyMounted(h[1]) /\ ReturnOK(h) /\ UNCHANGED dirs
     \/ ~LikelyMounted(h[1]) /\ dirs' = dirs \union {h[1]} /\ Continue(h, "mount")
  /\ UNCHANGED <<mounts, undone>>

\* The NFS mount; in mode "optional" with mTLS first.
StageMount(h) ==
  /\ At(h, {"stage"}, "mount")
  /\ h[1] \in dirs
  /\ MountOn(h[1], IF MTLSMode = "disabled" THEN "plain" ELSE "mtls")
  /\ ReturnOK(h)
  /\ UNCHANGED <<dirs, undone>>

\* Any failure of the mTLS mount in mode "optional" is followed by a plain one.
StageMountFails(h) ==
  /\ At(h, {"stage"}, "mount")
  /\ IF MTLSMode = "optional" THEN Continue(h, "fallback") ELSE ReturnError(h)
  /\ UNCHANGED <<dirs, mounts, undone>>

StageFallback(h) ==
  /\ At(h, {"stage"}, "fallback")
  /\ \/ h[1] \in dirs /\ MountOn(h[1], "plain") /\ ReturnOK(h)
     \/ ReturnError(h) /\ UNCHANGED mounts
  /\ UNCHANGED <<dirs, undone>>

\* The bind mount shows whatever the staging path shows now.
PublishBind(h) ==
  /\ At(h, {"publish"}, "mount")
  /\ LET v == VolumeOf[h[1]]
     IN  /\ {v, h[1]} \subseteq dirs
         /\ MountOn(h[1], IF Mounted(v) THEN Head(mounts[v]) ELSE "local")
  /\ ReturnOK(h)
  /\ UNCHANGED <<dirs, undone>>

PublishBindFails(h) ==
  /\ At(h, {"publish"}, "mount")
  /\ Continue(h, "undo")
  /\ UNCHANGED <<dirs, mounts, undone>>

\* CleanupMountPoint of the STAGING path, without the volume's lock, in two
\* steps: unmount, then recheck and remove the directory.
PublishUndo(h) ==
  LET v == VolumeOf[h[1]]
  IN  /\ At(h, {"publish"}, "undo")
      /\ \/ LikelyMounted(v) /\ Unmount(v) /\ Continue(h, "undorecheck") /\ UNCHANGED dirs
         \/ ~LikelyMounted(v) /\ RemoveDir(v) /\ ReturnError(h) /\ UNCHANGED mounts
         \/ ReturnError(h) /\ UNCHANGED <<dirs, mounts>>  \* no path, or the step failed
      /\ undone' = undone \union {v}

PublishUndoRecheck(h) ==
  LET v == VolumeOf[h[1]]
  IN  /\ At(h, {"publish"}, "undorecheck")
      /\ ReturnError(h)
      /\ (~LikelyMounted(v) /\ RemoveDir(v)) \/ UNCHANGED dirs
      /\ UNCHANGED <<mounts, undone>>

\* Mutant: the cleanup relies on the quick mount check.
CleanupQuick(h) ==
  /\ At(h, {"unstage", "unpublish"}, "cleanup")
  /\ \/ h[1] \notin dirs /\ ReturnOK(h) /\ UNCHANGED <<dirs, mounts>>
     \/ RemoveDir(h[1]) /\ ReturnOK(h) /\ UNCHANGED mounts
     \/ LikelyMounted(h[1]) /\ Unmount(h[1]) /\ Continue(h, "recheck") /\ UNCHANGED dirs
  /\ UNCHANGED undone

\* CleanupMountPoint of an unstage or unpublish, with the extensive check.
Cleanup(h) ==
  /\ At(h, {"unstage", "unpublish"}, "cleanup")
  /\ \/ h[1] \notin dirs /\ ReturnOK(h) /\ UNCHANGED <<dirs, mounts>>
     \/ RemoveDir(h[1]) /\ ReturnOK(h) /\ UNCHANGED mounts
     \/ Mounted(h[1]) /\ Unmount(h[1]) /\ Continue(h, "recheck") /\ UNCHANGED dirs
  /\ UNCHANGED undone

\* Mutant: a path that is still mounted after the unmount is success.
RecheckSkipped(h) ==
  /\ At(h, {"unstage", "unpublish"}, "recheck")
  /\ ReturnOK(h)
  /\ RemoveDir(h[1]) \/ (Mounted(h[1]) /\ UNCHANGED dirs)
  /\ UNCHANGED <<mounts, undone>>

\* A path that is still mounted after the unmount is an error.
Recheck(h) ==
  /\ At(h, {"unstage", "unpublish"}, "recheck")
  /\ \/ RemoveDir(h[1]) /\ ReturnOK(h)
     \/ Mounted(h[1]) /\ ReturnError(h) /\ UNCHANGED dirs
  /\ UNCHANGED <<mounts, undone>>

\* The check, the mkdir, the unmount or the rmdir failed (a busy or stale mount).
HandlerFails(h) ==
  /\ run[h].pc \in {"ensure", "cleanup", "recheck"}
  /\ ReturnError(h)
  /\ UNCHANGED <<dirs, mounts, undone>>

-----------------------------------------------------------------------------
(* The kubelet, and the driver's process.                                   *)

WantStage(v) ==
  /\ stage[v] = "unstaged"
  /\ stage' = [stage EXCEPT ![v] = "staging"]
  /\ undone' = undone \ {v}
  /\ UNCHANGED <<dirs, mounts, locks, run, pod>>

WantUnstage(v) ==
  /\ stage[v] \in {"staging", "staged"}
  /\ ~Waiting(v)
  /\ \A p \in Pods : VolumeOf[p] = v => pod[p] = "unpublished"
  /\ stage' = [stage EXCEPT ![v] = "unstaging"]
  /\ UNCHANGED <<dirs, mounts, locks, run, pod, undone>>

WantPublish(p) ==
  /\ pod[p] = "unpublished"
  /\ stage[VolumeOf[p]] = "staged"
  /\ pod' = [pod EXCEPT ![p] = "publishing"]
  /\ UNCHANGED <<dirs, mounts, locks, run, stage, undone>>

WantUnpublish(p) ==
  /\ pod[p] \in {"publishing", "published"}
  /\ ~Waiting(p)
  /\ pod' = [pod EXCEPT ![p] = "unpublishing"]
  /\ UNCHANGED <<dirs, mounts, locks, run, stage, undone>>

\* The kubelet's deadline passes; the handler does not notice.
GiveUp(h) ==
  /\ run[h].heard
  /\ run' = [run EXCEPT ![h] = [rpc |-> run[h].rpc, pc |-> run[h].pc, heard |-> FALSE]]
  /\ UNCHANGED <<dirs, mounts, locks, stage, pod, undone>>

\* The node plugin restarts: handlers and locks are gone, mounts stay.
Restart ==
  /\ run' = [h \in Paths \X Slots |-> Idle]
  /\ locks' = NoLocks
  /\ UNCHANGED <<dirs, mounts, stage, pod, undone>>

Step(h) ==
  \/ Ensure(h)
  \/ StageMount(h) \/ StageMountFails(h) \/ StageFallback(h)
  \/ PublishBind(h) \/ PublishBindFails(h) \/ PublishUndo(h) \/ PublishUndoRecheck(h)
  \/ Cleanup(h) \/ Recheck(h)
  \/ HandlerFails(h)

Next ==
  \/ \E v \in Volumes :
       WantStage(v) \/ WantUnstage(v) \/ StageCall(v) \/ UnstageCall(v)
  \/ \E p \in Pods :
       WantPublish(p) \/ WantUnpublish(p) \/ PublishCall(p) \/ UnpublishCall(p)
  \/ \E h \in Paths \X Slots : Step(h) \/ GiveUp(h)
  \/ Restart

Spec == Init /\ [][Next]_vars

\* Handlers run and end, and the kubelet retries: a retry eventually finds the
\* lock free, and a step that can succeed while the kubelet listens does not
\* fail, or come too late, forever.
Fairness ==
  /\ \A h \in Paths \X Slots :
       /\ WF_vars(Step(h))
       /\ SF_vars(run[h].heard /\ Ensure(h))
       /\ SF_vars(run[h].heard /\ PublishBind(h))
       /\ SF_vars(run[h].heard /\ Cleanup(h))
       /\ SF_vars(run[h].heard /\ Recheck(h))
  /\ \A v \in Volumes : SF_vars(UnstageCall(v))
  /\ \A p \in Pods : SF_vars(PublishCall(p)) /\ SF_vars(UnpublishCall(p))

FairSpec == Spec /\ Fairness

-----------------------------------------------------------------------------
(* Properties.                                                              *)

\* After a successful NodeUnpublishVolume nothing is left on the target path,
\* whatever calls the kubelet had given up on before.
UnpublishedIsClean == \A p \in Pods : pod[p] = "unpublished" => ~Mounted(p)

\* After a successful NodeUnstageVolume nothing is left on the staging path.
UnstagedIsClean == \A v \in Volumes : stage[v] = "unstaged" => ~Mounted(v)

\* A pod whose publish succeeded keeps a mount, and a mount of the volume
\* unless a failed publish of a neighbour had cleaned up the staging path.
PublishedServesVolume ==
  \A p \in Pods :
    pod[p] = "published" =>
      /\ Mounted(p)
      /\ VolumeOf[p] \notin undone => Head(mounts[p]) # "local"

\* The docs: the NFS mount is shared by the pods and staged only once.
StagedStaysMounted == \A v \in Volumes : stage[v] = "staged" => Mounted(v)

\* The same, of volumes no failed publish has cleaned up.
StagedUntilUndone ==
  \A v \in Volumes \ undone : stage[v] = "staged" => Mounted(v)

\* Retries never stack a mount on a mount.
NoStackedMounts ==
  \A p \in Paths :
    Len(mounts[p]) > 1 => (IF p \in Pods THEN VolumeOf[p] ELSE p) \in undone

\* Teardown always ends: an unpublish or unstage that is retried leaves a
\* clean path in the end, also after stacked mounts, restarts and lost answers.
TeardownCompletes ==
  /\ \A p \in Pods : pod[p] = "unpublishing" ~> pod[p] = "unpublished"
  /\ \A v \in Volumes : stage[v] = "unstaging" ~> stage[v] = "unstaged"

\* A wanted publish is answered or withdrawn, unless a failed publish of a
\* neighbour has taken the staging path away.
PublishCompletes ==
  \A p \in Pods :
    pod[p] = "publishing" ~> pod[p] # "publishing" \/ VolumeOf[p] \in undone

-----------------------------------------------------------------------------
(* The inductive invariant.                                                 *)

\* A key is locked exactly while a handler of it runs, and then one only.
LockMatchesHandlers ==
  /\ \A k \in Paths : k \in locks <=> \E s \in Slots : run[<<k, s>>].pc # "idle"
  /\ \A g, h \in Paths \X Slots :
       g[1] = h[1] /\ run[g].pc # "idle" /\ run[h].pc # "idle" => g = h

\* A handler runs only while the kubelet wants its result, or, unheard, until
\* the teardown that follows gets the lock.
HandlerFits(h) ==
  LET k == h[1]
      at(rpc, pcs) == run[h].rpc = rpc /\ run[h].pc \in pcs
      wanted(state, up, down) == state = up \/ (state = down /\ ~run[h].heard)
  IN  \/ run[h] = Idle
      \/ /\ k \in Volumes
         /\ \/ /\ at("stage", {"ensure", "mount", "fallback"})
               /\ wanted(stage[k], "staging", "unstaging")
            \/ at("unstage", {"cleanup", "recheck"}) /\ stage[k] = "unstaging"
      \/ /\ k \in Pods
         /\ \/ /\ at("publish", {"ensure", "mount", "undo", "undorecheck"})
               /\ wanted(pod[k], "publishing", "unpublishing")
            \/ at("unpublish", {"cleanup", "recheck"}) /\ pod[k] = "unpublishing"

HandlerMatchesKubelet == \A h \in Paths \X Slots : HandlerFits(h)

\* The kubelet unstages a volume only after its pods.
PodsNeedVolume == \A p \in Pods : pod[p] # "unpublished" => stage[VolumeOf[p]] = "staged"

\* Nothing is mounted on a path that is not there.
MountedIsDir == \A k \in Paths : Mounted(k) => k \in dirs

\* What ensureMountPoint saw is still so when the handler mounts.
MountsOnFreePath ==
  \A h \in Paths \X Slots : run[h].pc \in {"mount", "fallback"} => ~LikelyMounted(h[1])

\* The quick check tells the truth about staging paths, and about the targets
\* of volumes whose staging path was not taken away; these carry one mount.
QuickCheckTruthful ==
  \A k \in Paths :
    k \in Volumes \/ VolumeOf[k] \notin undone =>
      Len(mounts[k]) <= 1 /\ (Mounted(k) => LikelyMounted(k))

IInv ==
  /\ TypeOK
  /\ LockMatchesHandlers /\ HandlerMatchesKubelet /\ PodsNeedVolume
  /\ MountedIsDir /\ MountsOnFreePath /\ QuickCheckTruthful
  /\ UnpublishedIsClean /\ UnstagedIsClean
  /\ PublishedServesVolume /\ StagedUntilUndone

=============================================================================
