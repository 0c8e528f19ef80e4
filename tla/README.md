# TLA+ models of the Linode NFS CSI driver

This directory models the parts of the driver that keep state across steps:
access control and expansion on the controller, provisioning, mounting on a
node, and the process around them (set-up, gRPC server, metadata). The models
are checked with TLC on small instances. Every safety and action property they
check is also proved with TLAPS, for every number of volumes, nodes, claims, pods
and calls; liveness is left to TLC.

Paths below are relative to the repository. "The service" is the Linode NFS
API, whose contract is the one the sanity tests' fake client states
(`tests/sanity/fake_sanity_linode_client.go`).

## 1. The system

| Part | State it keeps | Operations | Talks to |
| --- | --- | --- | --- |
| Volume locks, `pkg/util/volume_lock.go` | set of keys, in memory | `TryAcquire`, `Release` | used by both servers |
| Controller server, `internal/driver/controllerserver.go`, `controller_helpers.go` | its lock set; everything else is in the service | `CreateVolume`, `DeleteVolume`, `ControllerPublishVolume`, `ControllerUnpublishVolume`, `ControllerExpandVolume`, reads | called by csi-provisioner, csi-attacher, csi-resizer; calls the service and the metadata |
| Node server, `nodeserver.go`, `nodeserver_helpers.go` | its lock set; mounts and directories of the host | stage, unstage, publish, unpublish, reads | called by the kubelet; calls `k8s.io/utils/mount` |
| Metadata, `metadata.go` | the cached region | `Region`, `CurrentNode`, `NodeByName` | Kubernetes API |
| gRPC server and set-up, `server.go`, `driver.go`, `main.go` | the server and a wait group | `Start`, `Stop`, `ForceStop`, `Wait` | hosts the servers above |
| Service | filesystems, their policies, status, quotas | create, list, delete, get/update policy, waits | called by the controller |

What makes it hard:

* a policy update is a **full replacement** computed from an earlier GET;
* updates and creations are **asynchronous**: status "updating" or "creating"
  first, "active" later, and a retry meets them halfway;
* locks are **try-locks in memory**: a loser is `Aborted` and retried, a
  restart forgets them, and `CreateVolume` and `DeleteVolume` take none;
* HTTP calls time out after 10 s, waits after five minutes, callers earlier: the
  service may have done the work, or do it **afterwards**;
* publish, unpublish and expansion of a volume share its lock, and an
  expansion compares with a quota that a **late PUT** may have changed since;
* `Region` holds a mutex **across a Kubernetes call**, and what it answers first
  is kept for the life of the process;
* `Stop` may come before `serve` has made the server, while handlers run;
* node handlers **ignore their context**: a call the kubelet gave up on runs on;
* a path's mount state is inferred from a check that misses some bind mounts.

What makes each part correct:

* access control: a published node stays authorised, an unpublished one is
  out, no handler undoes another's change, the StorageClass's squash policy
  survives all of them, and every request is answered in the end;
* provisioning: a bound claim has a filesystem of its own, as requested; a retry
  finds what an earlier attempt made; what is no longer wanted is deleted;
* expansion: an answered capacity lies in the range and is there, no PUT shrinks a
  quota, one operation at a time runs on a volume, and every request that can be
  met is;
* mounting: a published pod sees the volume, teardown leaves nothing behind,
  retries do not stack mounts, and both end;
* the process: one region for all calls of a process, no call of a server that
  was not built, a graceful stop waits for the handlers, a node registers if its
  plugin knows its name and one of the two sources of its identity answers in time.

## 2. Modules

| Module | What it is |
| --- | --- |
| `VolumeLocks` | the lock set as three operators on a set; `TryAcquire` runs under a mutex, so each is one step |
| `NFSBackend` | filesystems and their access policies: `UpdatePolicy` replaces, `Settle` enforces, `DeleteFilesystem` |
| `AccessPolicy` | publish, unpublish and the squash update of `CreateVolume`, over the two modules above |
| `Attachment` | the abstract attachment service: wants, grants, answers |
| `Expansion` | `ControllerExpandVolume` over the lock set and root quotas |
| `ControllerServer` | the controller process: `AccessPolicy` and `Expansion` over one lock set, one service, one restart |
| `Provisioning` | `CreateVolume` and `DeleteVolume` over Spaces, filesystems and claims |
| `NodeMounts` | the node handlers over directories and stacked mounts |
| `Metadata` | `Region` with its mutex and cache, `CurrentNode` with its fallback |
| `GrpcServer` | `Start`, `Stop`, `ForceStop`, `Wait` and the calls that are admitted |
| `Plugin` | a process of either role: set-up, `Run`, end and restart, over the two modules above |
| `..._proofs` | the theorems about `AccessPolicy` (`AccessPolicy_proofs`, `Attachment_proofs`), `Expansion`, `ControllerServer`, `Provisioning`, `NodeMounts`, `Plugin` |
| `MC...` | instances for TLC |

`AccessPolicy` is built on `VolumeLocks` and `NFSBackend` and implements `Attachment`.
`ControllerServer` is built on `AccessPolicy` and `Expansion` and implements
`AccessPolicy` with the locks of expansions hidden. `Plugin` is built on `Metadata`
and `GrpcServer`.

Operators whose comment starts with "Mutant" are plausible bugs, kept beside the
definition each would replace; substituting one makes the property it is
listed for in `PROJECT.json` fail. No specification uses them.

### AccessPolicy

`rpc[<<v, n>>]` is the publish or unpublish handler of volume ID `v` and node
`n`; its `pc` says which call it makes next (`get`, `put`, `wait`) and `options`
is the replacement it built from its GET. `setup[f]` is the same for
`setInitialSquashPolicy`. `policy` is what a GET returns, `enforced` what clients
are admitted by, `pending` the filesystems in status "updating". `va` is the
VolumeAttachment, the attacher's view.

| Code | Actions |
| --- | --- |
| `ControllerPublishVolume` | `PublishCall` (lock), `PublishGet` (GET, shortcut, append), `Put`, `WaitActive` |
| `ControllerUnpublishVolume` | `UnpublishCall`, `UnpublishGet` (404 and absent node succeed), `Put`, `WaitActive` |
| error returns of both | `RpcFails`, `PutUnanswered` (applied, or applied later by `LateApply`) |
| `finalizeFilesystemVolume`, `setInitialSquashPolicy` | `SetupCall`, `SetupGet`, `SetupPut`, `SetupPutLate`, `SetupWaitActive`, `SetupFails` |
| `DeleteVolume` | `FilesystemDeleted`, at any moment |
| process restart | `Restart` |

`ControllerGetVolume`, which reports the ACL of an enabled policy, is no step. A
call that finds its lock held returns `Aborted` and changes nothing: that is no
step. A crash with a PUT under way is `PutUnanswered` followed by `Restart`. Policy
labels and protocols are copied unchanged by `filesystemPolicyUpdate` and left out.
`FsOf` is `parseVolumeHandle`.

The environment: csi-attacher has one call at a time per VolumeAttachment,
attaches only in `node` mode and only after `CreateVolume` succeeded. A caller
that gives up cancels the handler's context, which every API call and wait
honours, so such a handler can only fail.

### Expansion and ControllerServer

`capacity[f]` is the root quota, `wanted[v]` the range the csi-resizer asks for,
`expand[c]` the handler of a call: its program point, volume and range. Several
calls may be under way for one volume, because one whose caller gave up still
runs when the retry arrives. `NoOp`, `Refused` and `Grows` are the comparisons of
the handler, `ExistingAccepted` the one of `CreateVolume`.

| Code | Actions |
| --- | --- |
| `ControllerExpandVolume` | `ExpandCall` (lock), `ExpandList` (quotas, comparison), `ExpandPut`, `ExpandAnswer` (return, release) |
| error returns | `ExpandFails` (at "answer": applied, reply lost), `ExpandPutLate` (applied later by `LateExpand`) |
| process restart | `ExpandRestart`, together with `Restart` of `AccessPolicy` |

Ranges are those the handler lets pass (`ValidRange`). The answer is a step of its
own: a late PUT can come between the list and the PUT, and between either and the
answer. `overtaken` is a history bit of a handler: that happened since its last look.
`ControllerServer` joins the two components' steps: each leaves the other's
variables alone, except the lock set, the set of live filesystems and the restart.

### Provisioning

`call[c]` is the `CreateVolume` handler of claim `c`, with the StorageClass
parameters it was called with; the class may be recreated between calls. `claim`
and `unsure` are the csi-provisioner: it retries, and gives a withdrawn claim up
only when the last answer was final (every code but `Canceled`,
`DeadlineExceeded`, `Unavailable` and the like). `late` holds POSTs, `latePuts`
policy PUTs, that are applied after their caller gave up; `overwritten` is a history
variable: filesystems whose squash policy such a PUT changed after a handler last
looked at it. `OutsideCreates` makes filesystems by other hands.

| Code | Actions |
| --- | --- |
| `resolveSpace` | `CreateVolumeCall`, `ResolveSpace`, `SpaceRefused` |
| lookup by label | `FindExisting` |
| create path | `CreateNew`, `WaitNew` |
| `handleExistingFilesystem` | `WaitExisting`, `ExistingRefused` |
| `finalizeFilesystemVolume`, `setInitialSquashPolicy` | `GetPolicy`, `PutPolicy`, `Answer` |
| `linodeError`, `linodeWaitError` | `ApiFails`, `PostLate` (`LateCreate`), `PutPolicyLate` (`LateSquash`), `WaitTimesOut` |
| `DeleteVolume` | `DeleteVolume`, `DeleteReplyLost` |
| restart of the controller pod | `Restart` |

Of the access policy only the squash policy is modelled here, without its status:
the wait for it is part of the point before `Answer`, and `AccessPolicy` has it. There
all attempts ask for one squash policy (`WantedSquash`); attempts that ask for
different ones, after the StorageClass was recreated, are the matter of this module.

A StorageClass names a Space by ID or by a label that several Spaces may carry
(`SpacesOf`), and every call resolves it anew; a filesystem that an earlier call
made in another Space is then out of sight, which `LookIn` records in `abandoned`.
Left out: the capacity check of a reused filesystem (an end like differing tags; its
comparison is in `Expansion`), the region (in `Metadata`) and reading the Space's
policy, whose failure is `ApiFails`. A DELETE refused with 409 because data is left
changes nothing and is no step.

### NodeMounts

A volume stands for its staging path and a pod for its target path; these are
also the lock keys. `mounts[p]` is the stack of mounts on a path. A mount shows
the export (`mtls` or `plain`) or a `local` directory, which is what a bind of an
unmounted staging path gives and what `IsLikelyNotMountPoint` does not see.
`run[<<k, s>>]` are the handlers of key `k`; `heard` says whether the kubelet
still waits. `CleanupMountPoint` is two steps: unmount (`Cleanup`,
`PublishUndo`), then recheck and remove (`Recheck`, `PublishUndoRecheck`). The
clean-up after a failed bind works on the **staging** path, as the code does.
`undone` is a history variable: volumes it happened to since they were staged.

The kubelet wants one thing at a time per key, stages before it publishes and
unstages when no pod is left. Mount options and mount targets are left out.

### Metadata, GrpcServer and Plugin

`lookup[c]` is the program point of a call in the metadata service, `regionMu` the
holder of the mutex, `region` the cache; `answered` and `registered` say what the
callers were told. `workers` and `nodeObject` are the cluster. The two sources of
`CurrentNode` share the context of the call: where the instance metadata service
lets it run out, the call is `expired` and the fallback can only fail. A call of a
plugin without `NODE_NAME`, which the set-up accepts, is `nameless` and fails at
once. `serve`, `stop` and `forceStop` are the three goroutines of the server, `quit`
and `stopDone` what a `grpc.Server` knows of its stop. `config` is the environment
of the process, `built` what the set-up made, `services` what `serve` registered.

| Code | Actions |
| --- | --- |
| `main`, `dependenciesForRole`, `SetupLinodeDriver` | `SetupLinodeDriver` (or `Exit`, when a value is refused) |
| `Run`, `Start`, `serve` | `Run`, then `Listen`, `PublishServer`, `SignalReady`, `Serve`, `ServeReturns` |
| `Stop`, `ForceStop` | `StopCall`, `StopServer`, `StopDrained`; `ForceStopCall`, `ForceStopServer` |
| a handler's life | `Admit`, `Finish`, joined with the metadata step it makes |
| `Region` | `RegionCall`, `RegionLock`, `RegionList`, `RegionFails` |
| `CurrentNode` | `CurrentNodeCall`, `InstanceMetadata`, `NodeByName`, `NodeFails` |
| `Wait` returns, `klog.Fatalf`, a kill; the container's restart | `Exit`, `Restart` |

`Registered` models what the nil checks of `serve` see: interface values with a
type, nil pointer or not. The kubelet calls node plugins only, and whoever
provisions asks `GetPluginCapabilities` first. The driver itself calls neither
`Stop` nor `ForceStop` (the sanity test does, `tests/sanity/sanity_test.go`); the
models say what they promise their callers.

## 3. Runs

| Run | Instance | Shows |
| --- | --- | --- |
| `AccessPolicy` | 1 volume, 2 nodes, node mode, fair | the inductive invariant, the safety of access control, the refinement of `Attachment`; attach and detach are answered, and an answered publish comes into force |
| `AccessPolicySpace` | 2 filesystems, space mode, late PUTs | the squash policy and the empty enabled ACL survive |
| `AccessPolicyStatus` | 2 nodes | **violation**: a retried publish answers while its policy is pending |
| `Controller` | 1 volume, 1 node, 2 expansion calls, 2 ranges, late PUTs, fair | one operation at a time, expansions grow and answer what is there, `CreateVolume`'s squash policy is in force and survives PUTs that outlive their caller, the refinement of `AccessPolicy` |
| `NodeMounts` | 1 volume, 3 pods, stacks of 3, 2 handlers per key | the inductive invariant and mount safety |
| `NodeMountsLive` | 1 volume, 1 pod, fair | teardown and publish end |
| `NodeMountsUndo` | 2 pods | **violation**: a failed publish unmounts the shared staging path |
| `Provisioning` | 2 claims, 2 filesystem IDs, 1 Space, 2 StorageClasses, late POSTs and PUTs | the inductive invariant and the safety of provisioning |
| `ProvisioningLive` | 1 claim, 2 Spaces, 3 StorageClasses, fair | a claim is bound in the one Space its StorageClass named; creation and deletion end |
| `ProvisioningSquash` | 1 claim | **violation**: a foreign filesystem's squash policy is overwritten |
| `Plugin` | 3 calls, 2 regions, 5 environments, fair | one region, no nil server, graceful stop; the mutex is handed on, a stop and a node's registration end |
| `PluginRole` | 2 calls | **violation**: a process registers the services of both roles |

### Bounds

* Two nodes on one volume: a lost update needs two writers. The theorems about
  `AccessPolicy` hold for any number. Volumes with handles of their own share
  nothing but the controller, so one suffices; `AccessPolicySpace` has two.
* Two expansion calls: one whose caller gave up, and its retry. `TwoRanges` are a
  minimum with an equal limit and a minimum without a limit; the new quotas are
  below both, above the limit of the one and the minimum of the other, or missing.
  Growth, refusal, a replaced request and the no-op for a smaller minimum without a
  limit all happen. What the comparisons decide for other numbers is proved.
* Two filesystem IDs for two claims: one claim can meet a foreign filesystem or
  a second creation of its own. IDs are never handed out twice, so a behaviour
  that needs more creations is cut. The service holds one late POST or PUT of a claim
  at a time: one is enough to undo what a later attempt did.
* Two StorageClasses that differ in the squash policy, and foreign filesystems with
  other tags (`Foreign`). In `ProvisioningLive`, two that name different Spaces, one
  of them without a squash policy, and one that names both Spaces, which every call
  must refuse; a foreign filesystem fits the first and not the second.
* Environments: a controller with and without a token, a node plugin with and
  without a node name, and a role that does not exist.
* `MaxStack = 3`: a stack, and one more mount on it. With two handlers per key,
  one can be a call the kubelet gave up on. For one key the lock admits only one
  handler that runs, so a second slot only matters when the lock is broken, as
  in the mutants. Liveness is checked with one pod and one slot.
* Three calls at a mutex: a holder, one that waits, and one that overtakes it.
* Symmetry is used in runs of safety properties only.

### Fairness

* The service settles, activates and applies what it accepted (weak).
* A handler ends by its timeouts at the latest: `RpcFails`, `ApiFails` (weak).
* Goroutines run, a Go mutex does not starve a waiter, and calls of the metadata
  sources end with their callers' deadlines (`PluginFairness`). What
  `RegistrationCompletes` needs beyond that is in the property, not in the
  fairness: from some moment on the process is neither killed nor stopped, and the
  instance metadata service answers, fails, or is not there, but does not let calls
  run into their deadline.
* The sidecars and the kubelet retry with back-off. A call therefore finds the
  lock free at some point, and a step that can succeed again and again does not
  fail every time (strong). An API that always fails, a kernel that always
  refuses to unmount, or data never removed from a filesystem gives no progress,
  with or without the driver.

### What the violations say

* **`AccessPolicyStatus`.** `ControllerPublishVolume` returns at once when the
  GET shows the node (`controllerserver.go:171`); a retry after a lost reply
  succeeds before the update is in force. `docs/usage.md` says that publish
  waits. `AttachedBecomesEnforced` shows what is left of it: the update comes
  into force later.
* **`NodeMountsUndo`.** After a failed bind, `nodePublishVolume` cleans up
  `stagingTargetPath` (`nodeserver_helpers.go:61`) while its messages name the
  target. Other pods' staged volume is unmounted, and their next publish binds
  the local directory beneath. The other mount properties are stated for
  volumes this has not happened to.
* **`ProvisioningSquash`.** A filesystem found by label with another squash
  policy is updated (`controller_helpers.go:552`), where
  `docs/troubleshooting.md` describes a refusal.
* **`PluginRole`.** `Run` passes `d.cs` and `d.ns`, struct pointers, as interfaces
  (`driver.go:123`): the one that is nil is not a nil interface, and `serve`
  registers it. `docs/architecture.md` says the role picks the services.
  `NoNilServer` shows what is left: no caller that asks for the capabilities, or
  is a kubelet, reaches such a service.

A divergence without a run: `docs/usage.md:254` says an expansion to less than the
current quota is rejected; the code, and `TestControllerExpandVolume`, answer a
smaller minimum without a limit with success (`ExpandRefusesAboveLimit`).

Limits that hold by the code are explicit in the models:

* With `LateWrites` the ACL properties do not hold: the lock is released when the
  HTTP client gives up, and the service can still apply that PUT after a later
  handler's.
* A policy PUT of `CreateVolume` can be late as well (`controller_helpers.go:616`). If
  the StorageClass was recreated with another squash policy since, it undoes what
  the call that answered has set, and nothing sets it again: `BoundAsRequested`
  excepts these filesystems (`overwritten`).
* A filesystem can be left over when a POST ends in an error the csi-provisioner
  takes as final; `NothingLeft` excepts those claims (`abandoned`).
* That a claim does not get two filesystems in a Space is owed to the service,
  which is idempotent by label (`LabelsUnique`), not to the lookup of `CreateVolume`.
* A node without `NODE_NAME` never registers, as `docs/troubleshooting.md` says. Nor
  does one whose instance metadata service always hangs: the fallback that
  `docs/access-and-networking.md` describes shares its context (`metadata.go:158`).

## 4. Proofs

All are for every value of the constants that satisfies their assumptions: any
sets of volume IDs, filesystems, nodes, claims, Spaces, squash policies, pods,
calls, ranges, regions and environments, in both modes.

| Theorem | States |
| --- | --- |
| `TypeCorrect` | `Spec => []TypeOK` of `AccessPolicy` |
| `InvariantHolds` | `IInv` is an invariant |
| `NoLostUpdate` | `[]ReplacementIsCurrent` |
| `PublishHolds`, `UnpublishHolds` | `[]AttachedAuthorised`, `[]DetachedRevoked` |
| `SetupSurvives`, `SetupInForce` | `[]SetupKept`, `[]SetupEnforced` |
| `OnlyOwnNode` | `OnlyOwnNodeChanges`, an action property |
| `Refinement` | `Spec => ImplementsAttachment` |
| `ExpandDecides`, `ExpandRefusesAboveLimit`, `CreateAgreesWithExpand` | what the comparisons of capacity and range decide |
| `CInvHolds`, `OneOperation` | `[]CInv`, `[]OneOperationPerVolume` of `ControllerServer` |
| `RefinesAccessPolicy` | `ControllerSpec => ImplementsAccessPolicy` |
| `ProcessPublishHolds`, `ProcessUnpublishHolds`, `ProcessKeepsSetup`, `ProcessEnforcesSetup` | `[]AttachedAuthorised`, `[]DetachedRevoked`, `[]SetupKept`, `[]SetupEnforced` of `ControllerSpec` |
| `ExpansionTypes`, `ExpansionGrows` | `[]ExpandTypeOK`, `[]PutGrows` |
| `AnswersInRange` | `[]AnsweredInRange` |
| `ProvisioningTypes`, `ProvisioningInvariant` | `[]TypeOK`, `[]IInv` of `Provisioning` |
| `NothingLeaks` | `[]NothingLeft` |
| `VolumesAreOwned`, `VolumesAsRequested` | `[]BoundOwnsFilesystem`, `[]BoundAsRequested` |
| `MountTypes`, `MountInvariant` | `[]TypeOK`, `[]IInv` of `NodeMounts` |
| `OneHandlerPerPath` | `[]LockMatchesHandlers` of `NodeMounts` |
| `UnpublishedClean`, `UnstagedClean` | `[]UnpublishedIsClean`, `[]UnstagedIsClean` |
| `PublishedServes`, `StagedStays`, `NeverStacked` | `[]PublishedServesVolume`, `[]StagedUntilUndone`, `[]NoStackedMounts` |
| `PluginTypes`, `OneRegion` | `[]PluginTypeOK`, `[]RegionsAgree` |
| `HandlersHaveServers`, `StopDrains` | `[]NoNilServer`, `[]GracefulStopDrains` |

Assumptions beyond those of the constants:

* `InjectiveHandles` (no two volume IDs name one filesystem) and `~LateWrites`, in
  `InvariantHolds` and what follows from it (`NoLostUpdate`, `PublishHolds`,
  `UnpublishHolds`, `OnlyOwnNode`, `Refinement`,
  `ProcessPublishHolds`, `ProcessUnpublishHolds`). Both are needed: handles that
  parse alike share a filesystem but not a lock, and a late PUT outlives the lock.
  Handles that `CreateVolume` makes name one filesystem each.
* `InjectiveHandles` in `ExpansionGrows` and `AnswersInRange`.
* `InjectiveLabels` (no two claims have one label) in `VolumesAreOwned` and
  `VolumesAsRequested`: two claims with one label, tags and Space would share the
  filesystem. The label is the volume's name in lower case, cut off at 63 bytes;
  csi-provisioner makes it of `pvc` and 16 characters of the claim's UID
  (`deploy/kubernetes/base/controller-deployment.yaml:62`).

The others assume nothing, late PUTs and POSTs included. `Volumes` and `Pods` of
`NodeMounts` are disjoint (`PathsAssumption`): the kubelet's staging and target
paths are different directories, and a path is the key of one lock.

**Access policy.** That a published node stays authorised is not inductive: an
unpublish of another node could PUT a replacement without it. So the invariant
says of a handler about to PUT that its replacement is the one it would build
from the policy *now* (`ReplacementIsCurrent`). That is preserved because only
handlers of the same filesystem write its policy, these have one volume ID
(`InjectiveHandles`), and the lock admits one of them (`HandlersHoldLocks`);
and because `CreateVolume`'s unlocked update runs only before the filesystem is
ready, when nothing is attached (`SetupPhase`, `AttachmentPhase`). A handler that
waits sees its own update (`WaitedForOwnUpdate`), so its answer is true. These
make `PolicyInv`, for which others may hold locks too; `IInv` adds that a held lock
has its handler (`LockMatchesHandlers`), which `LocksReleased` proves of the return
paths. The proof has one lemma per action; `IInv` is also an invariant of the run
`AccessPolicy`.

**The set-up.** What `CreateVolume` sets does not rest on the locks. Every
replacement copies the squash policy from its GET, and one that is under way for a
ready filesystem, or that the service still holds, was copied after `CreateVolume`
set it: `PutsKeepSetup` says so of each, and applying any of them, in any order,
sets the same again. `SetupInv` joins it with the program points of `CreateVolume`'s
handlers (`SetupHandlers`), with attachments to ready volumes only, and with
"active" meaning enforced (`ActiveIsEnforced`), which makes the wait for the status
worth what `SetupEnforced` says.

**Refinement of `Attachment`.** Granted is what the policy authorises. Every action
that writes a policy or answers maps to a grant, a revocation, an answer or a
stutter; `IInv` supplies that a replacement is current, so that a PUT changes the
grant of its own node only.

**The controller process.** Every step is one of four kinds: a handler enters (its
lock was free), continues, returns (its lock is released), or leaves handlers and
locks alone; a restart ends them all. `CInv` says that running handlers and locks
correspond one to one, and each kind keeps it. `AccessPolicy` is implemented with
`PolicyLocks`, the locks no expansion holds: an expansion that enters or returns
changes nothing in that view, and a publish that enters finds its lock free there
too. The theorems `Process...` carry the results over: in a step of an expansion
`PolicyInv` and `SetupInv` lose nothing, as `CInv` supplies that running handlers
still hold their locks. `PutGrows` follows from `CInv`: between the comparison and
the PUT only a late PUT can change the quota. `AnsweredInRange` follows in the same
way: from a handler's last look, or its PUT, to its answer the lock keeps other
handlers of the filesystem out, and the service only lets quotas grow, so a late PUT
can make the filesystem larger than the answer and not smaller.

**The plugin.** `RegionInv`: the call that lists the workers holds the mutex, and the
cache is empty until it lets go, so a second answer can only be the first.
`RoleInv` ties what is built, advertised and called to the role. `DrainInv`: a
server that takes no calls never takes one again, and `serve` outlives the
handlers unless a forced stop cut them off.

**Provisioning.** Two things make retries find what an earlier call made.
`CallKnows`: what a handler has read of its filesystem (that it exists, its
Space, its label, its tags) is still so when it acts on it, unless the filesystem is
gone. `InReach`: a filesystem made for a claim lies in the Space that the present
call looks in, is the one that the call holds once it has found or made one, and the
volume's own once the claim is bound, and csi-provisioner will call again as long as
there is one, but for claims that count as `abandoned`. The service refuses a second
filesystem of a label in a Space (`LabelsUnique`) and the driver uses the claim's label
(`MadeUnderOwnLabel`): with both, what a call finds is what was made for its claim,
and `NothingLeft` follows. `IInv` is an invariant of the run `Provisioning`.

A second invariant, `VInv`, rests on it. A claim owns a filesystem from the point
before the answer on (`Owner`, `Mine`), and none owns another's (`OneOwner`): a call
that took it would find it under its own label. `Promised` filesystems are `Ready`:
active, in the Space and with the tags of the call, and with its squash policy or
`overwritten`. Late PUTs of every earlier attempt are steps of this proof; of the
others, none writes the squash policy of an owned filesystem, and `DeleteVolume` is
called for released claims only.

**Mounts.** The types need the lock first: that nothing is unmounted from an empty
table follows from one handler at a time on a path (`LockMatchesHandlers`) and from
handlers running only for paths of their kind (`HandlerMatchesKubelet`). Then
`MountsOnFreePath`: what the check before a mount saw is still so at the mount, again
by the lock. With a staging path that nobody cleaned up under the kubelet
(`undone`), `QuickCheckTruthful` says that `IsLikelyNotMountPoint` is right and that
the path carries one mount at most, so retries do not stack them. That a target is
clear after its unpublish does not depend on that: `CleanupMountPoint` removes the
directory only when nothing is mounted on it, and nothing is mounted on a path that
is not there (`MountedIsDir`). `PodsNeedVolume` (no pod outlives its stage) keeps the
unstage of a volume from its pods. `IInv` is an invariant of the run `NodeMounts`.

Only model-checked: the liveness properties (`AttachCompletes`, `DetachCompletes`,
`AttachedBecomesEnforced`, `ExpandCompletes`, `TeardownCompletes`, `PublishCompletes`,
`DeletionCompletes`, `ProvisioningCompletes`, `MutexIsHandedOn`, `StopCompletes`,
`RegistrationCompletes`): fairness and ENABLED are out of the prover's reach.

## 5. Not modelled, and the plan

1. Done: the modules of section 2 and their proofs.
2. An abstract specification of what `CreateVolume` and `DeleteVolume` promise a
   claim, and one of what the kubelet is promised, with `Provisioning` and
   `NodeMounts` shown to implement them.
3. A composition of provisioning, access and mounting for one claim: nothing is
   mounted that is not authorised, nothing deleted that is mounted, and the
   Space's mTLS mode, which the PersistentVolume keeps, against a Space that changes.

Not planned: reads without effect (`ValidateVolumeCapabilities`,
`NodeGetVolumeStats`, the remaining capabilities), parsing of provider IDs, labels
and addresses, mount options, the configuration of the API client, the thin wrappers
of `os` and `mount`, deployment files. That all workers are in one region is an
assumption of the driver (`docs/architecture.md`, `docs/installation.md`). Snapshots
are commented out in the code.
