---------------------------- MODULE AccessPolicy ----------------------------
(***************************************************************************)
(* The controller's access control: ControllerPublishVolume and            *)
(* ControllerUnpublishVolume, each a lock, a GET of the policy, a          *)
(* full-replace PUT and a wait; and the last part of CreateVolume          *)
(* (setInitialSquashPolicy), which does the same without the lock.         *)
(*                                                                         *)
(* A handler is a record in `rpc`, one per volume ID and node: the         *)
(* csi-attacher runs one call at a time for a VolumeAttachment.  A caller  *)
(* that gives up cancels the handler's context, after which the handler    *)
(* can only return an error: that is RpcFails, taken at any point.         *)
(***************************************************************************)
EXTENDS NFSBackend, VolumeLocks

CONSTANTS
  VolumeIDs,     \* the volume ID strings requests carry (the lock keys)
  FsOf,          \* the filesystem parseVolumeHandle finds in a volume ID
  Mode,          \* the access policy mode: "space" or "node"
  WantedSquash,  \* the StorageClass's squash policy, or any other value: unset
  LateWrites     \* may a PUT whose caller gave up be applied later?

ASSUME ModeAssumption == Mode \in {"space", "node"}
ASSUME LateWritesAssumption == LateWrites \in BOOLEAN
ASSUME FsOfAssumption == FsOf \in [VolumeIDs -> Filesystems]

VARIABLES
  locks,  \* ControllerServer.volumeLocks
  rpc,    \* the publish or unpublish handler of each volume ID and node
  va,     \* the VolumeAttachment of each volume ID and node
  setup,  \* the CreateVolume handler of each filesystem
  ready,  \* filesystems whose CreateVolume has returned OK
  late    \* PUTs whose caller gave up and that the service still holds

handlerVars == <<locks, rpc, va, setup, ready, late>>
vars == <<backendVars, handlerVars>>

Pairs == VolumeIDs \X Nodes

Fs(p) == FsOf[p[1]]

Handler == [pc: {"idle", "get", "put", "wait"},
            op: {"none", "publish", "unpublish", "create"},
            options: Policy]

Idle == [pc |-> "idle", op |-> "none", options |-> NewPolicy]

TypeOK ==
  /\ BackendTypeOK
  /\ locks \subseteq VolumeIDs
  /\ rpc \in [Pairs -> Handler]
  /\ va \in [Pairs -> {"detached", "attaching", "attached", "detaching"}]
  /\ setup \in [Filesystems -> Handler]
  /\ ready \subseteq Filesystems
  /\ late \subseteq Filesystems \X Policy

Init ==
  /\ BackendInit
  /\ locks = NoLocks
  /\ rpc = [p \in Pairs |-> Idle]
  /\ va = [p \in Pairs |-> "detached"]
  /\ setup = [f \in Filesystems |-> Idle]
  /\ ready = {}
  /\ late = {}

-----------------------------------------------------------------------------
(* What the csi-attacher asks for.  It runs only in node mode, for volumes  *)
(* whose CreateVolume succeeded.                                            *)

WantAttached(p) ==
  /\ Mode = "node"
  /\ Fs(p) \in ready
  /\ va[p] = "detached"
  /\ va' = [va EXCEPT ![p] = "attaching"]
  /\ UNCHANGED <<backendVars, locks, rpc, setup, ready, late>>

WantDetached(p) ==
  /\ va[p] \in {"attaching", "attached"}
  /\ rpc[p].pc = "idle"
  /\ va' = [va EXCEPT ![p] = "detaching"]
  /\ UNCHANGED <<backendVars, locks, rpc, setup, ready, late>>

-----------------------------------------------------------------------------
(* Publish and unpublish handlers.                                          *)

\* A call enters its handler.  One that finds the lock held returns Aborted,
\* which changes nothing and is not a step.
Enter(p, op) ==
  /\ rpc[p].pc = "idle"
  /\ CanAcquire(locks, p[1])
  /\ locks' = Acquire(locks, p[1])
  /\ rpc' = [rpc EXCEPT ![p] = [pc |-> "get", op |-> op, options |-> NewPolicy]]

At(p, pc, op) == rpc[p].pc = pc /\ rpc[p].op = op

Continue(p, pc, options) ==
  /\ rpc' = [rpc EXCEPT ![p] = [pc |-> pc, op |-> rpc[p].op, options |-> options]]
  /\ UNCHANGED locks

\* Mutant: a return that forgets the lock.
ReturnKeepsLock(p) == rpc' = [rpc EXCEPT ![p] = Idle] /\ UNCHANGED locks

\* Every return runs the deferred Release.
Return(p) ==
  /\ rpc' = [rpc EXCEPT ![p] = Idle]
  /\ locks' = Release(locks, p[1])

ReturnOK(p) ==
  /\ Return(p)
  /\ va' = [va EXCEPT ![p] =
              IF rpc[p].op = "publish" THEN "attached" ELSE "detached"]

Authorised(f, n) == policy[f].enabled /\ n \in policy[f].acl

\* Mutants: the ACL is replaced by the node; the policy is not enabled.
PublishOptionsOnlyNode(current, n) ==
  [enabled |-> TRUE, acl |-> {n}, squash |-> current.squash]
PublishOptionsNotEnabled(current, n) ==
  [enabled |-> current.enabled, acl |-> current.acl \union {n}, squash |-> current.squash]

PublishOptions(current, n) ==
  [enabled |-> TRUE, acl |-> current.acl \union {n}, squash |-> current.squash]

\* Mutants: the squash policy falls back to the default; the policy is disabled
\* and the node stays in the ACL.
UnpublishOptionsDropSquash(current, n) ==
  [enabled |-> current.enabled, acl |-> current.acl \ {n}, squash |-> DefaultSquash]
UnpublishOptionsDisable(current, n) ==
  [enabled |-> FALSE, acl |-> current.acl, squash |-> current.squash]

UnpublishOptions(current, n) ==
  [enabled |-> current.enabled, acl |-> current.acl \ {n}, squash |-> current.squash]

PublishCall(p) ==
  /\ va[p] = "attaching"
  /\ Enter(p, "publish")
  /\ UNCHANGED <<backendVars, va, setup, ready, late>>

\* The GET of a publish: an ACL that already has the node, under an enabled
\* policy, is success at once; otherwise the handler builds the replacement.
PublishGet(p) ==
  /\ At(p, "get", "publish")
  /\ Fs(p) \in live
  /\ \/ /\ Authorised(Fs(p), p[2])
        /\ ReturnOK(p)
     \/ /\ ~Authorised(Fs(p), p[2])
        /\ Continue(p, "put", PublishOptions(policy[Fs(p)], p[2]))
        /\ UNCHANGED va
  /\ UNCHANGED <<backendVars, setup, ready, late>>

UnpublishCall(p) ==
  /\ va[p] = "detaching"
  /\ Enter(p, "unpublish")
  /\ UNCHANGED <<backendVars, va, setup, ready, late>>

\* Mutants: any error of the GET counts as a 404; a 404 is an error.
UnpublishGetAnyError(p) ==
  /\ At(p, "get", "unpublish")
  /\ \/ ReturnOK(p)
     \/ /\ Fs(p) \in live /\ p[2] \in policy[Fs(p)].acl
        /\ Continue(p, "put", UnpublishOptions(policy[Fs(p)], p[2]))
        /\ UNCHANGED va
  /\ UNCHANGED <<backendVars, setup, ready, late>>
UnpublishGetNeeds(p) ==
  /\ At(p, "get", "unpublish")
  /\ Fs(p) \in live
  /\ IF p[2] \in policy[Fs(p)].acl
     THEN /\ Continue(p, "put", UnpublishOptions(policy[Fs(p)], p[2]))
          /\ UNCHANGED va
     ELSE ReturnOK(p)
  /\ UNCHANGED <<backendVars, setup, ready, late>>

\* The GET of an unpublish: 404 and a node not in the ACL are success.
UnpublishGet(p) ==
  /\ At(p, "get", "unpublish")
  /\ \/ /\ Fs(p) \notin live \/ p[2] \notin policy[Fs(p)].acl
        /\ ReturnOK(p)
     \/ /\ Fs(p) \in live /\ p[2] \in policy[Fs(p)].acl
        /\ Continue(p, "put", UnpublishOptions(policy[Fs(p)], p[2]))
        /\ UNCHANGED va
  /\ UNCHANGED <<backendVars, setup, ready, late>>

Put(p) ==
  /\ rpc[p].pc = "put"
  /\ UpdatePolicy(Fs(p), rpc[p].options)
  /\ Continue(p, "wait", NewPolicy)
  /\ UNCHANGED <<va, setup, ready, late>>

\* The handler saw an error (a 10 s HTTP timeout, a cancelled context, a 5xx),
\* but the service applied the PUT, or still is going to.
PutUnanswered(p) ==
  /\ rpc[p].pc = "put"
  /\ \/ UpdatePolicy(Fs(p), rpc[p].options) /\ UNCHANGED late
     \/ /\ LateWrites
        /\ late' = late \union {<<Fs(p), rpc[p].options>>}
        /\ UNCHANGED backendVars
  /\ Return(p)
  /\ UNCHANGED <<va, setup, ready>>

WaitActive(p) ==
  /\ rpc[p].pc = "wait"
  /\ PolicyActive(Fs(p))
  /\ ReturnOK(p)
  /\ UNCHANGED <<backendVars, setup, ready, late>>

\* The handler returns an error: the GET or PUT failed or was refused, the
\* wait timed out, the caller gave up, or the filesystem is gone.
RpcFails(p) ==
  /\ rpc[p].pc # "idle"
  /\ Return(p)
  /\ UNCHANGED <<backendVars, va, setup, ready, late>>

-----------------------------------------------------------------------------
(* The tail of CreateVolume: finalizeFilesystemVolume, no lock taken.       *)

SquashSet == WantedSquash \in SquashPolicies

\* An enabled policy with an empty ACL leaves admission to the Space's policy.
SetupOptions(current) ==
  IF Mode = "space"
  THEN [enabled |-> TRUE, acl |-> {}, squash |-> WantedSquash]
  ELSE [enabled |-> current.enabled, acl |-> current.acl, squash |-> WantedSquash]

SetupGoto(f, pc, options) ==
  setup' = [setup EXCEPT ![f] = [pc |-> pc, op |-> "create", options |-> options]]

SetupReturn(f) == setup' = [setup EXCEPT ![f] = Idle]

\* The filesystem is active: without a squash parameter CreateVolume is done.
SetupCall(f) ==
  /\ f \in live \ ready
  /\ setup[f].pc = "idle"
  /\ \/ /\ ~SquashSet
        /\ ready' = ready \union {f}
        /\ UNCHANGED setup
     \/ /\ SquashSet
        /\ SetupGoto(f, "get", NewPolicy)
        /\ UNCHANGED ready
  /\ UNCHANGED <<backendVars, locks, rpc, va, late>>

\* Mutant: a policy that is already as wanted is not waited for.
SetupGetNoWait(f) ==
  /\ setup[f].pc = "get"
  /\ f \in live
  /\ IF SetupOptions(policy[f]) = policy[f]
     THEN SetupReturn(f) /\ ready' = ready \union {f}
     ELSE SetupGoto(f, "put", SetupOptions(policy[f])) /\ UNCHANGED ready
  /\ UNCHANGED <<backendVars, locks, rpc, va, late>>

\* A policy that is already as wanted is not updated, but still waited for.
SetupGet(f) ==
  /\ setup[f].pc = "get"
  /\ f \in live
  /\ IF SetupOptions(policy[f]) = policy[f]
     THEN SetupGoto(f, "wait", NewPolicy)
     ELSE SetupGoto(f, "put", SetupOptions(policy[f]))
  /\ UNCHANGED <<backendVars, locks, rpc, va, ready, late>>

\* Mutant: the update carries the squash policy only.
SetupPutSquashOnly(f) ==
  /\ setup[f].pc = "put"
  /\ UpdatePolicy(f, [policy[f] EXCEPT !.squash = WantedSquash])
  /\ SetupGoto(f, "wait", NewPolicy) \/ SetupReturn(f)
  /\ UNCHANGED <<locks, rpc, va, ready, late>>

SetupPut(f) ==
  /\ setup[f].pc = "put"
  /\ UpdatePolicy(f, setup[f].options)
  /\ \/ SetupGoto(f, "wait", NewPolicy)
     \/ SetupReturn(f)  \* applied, but the reply was lost
  /\ UNCHANGED <<locks, rpc, va, ready, late>>

SetupPutLate(f) ==
  /\ LateWrites
  /\ setup[f].pc = "put"
  /\ late' = late \union {<<f, setup[f].options>>}
  /\ SetupReturn(f)
  /\ UNCHANGED <<backendVars, locks, rpc, va, ready>>

SetupWaitActive(f) ==
  /\ setup[f].pc = "wait"
  /\ PolicyActive(f)
  /\ ready' = ready \union {f}
  /\ SetupReturn(f)
  /\ UNCHANGED <<backendVars, locks, rpc, va, late>>

SetupFails(f) ==
  /\ setup[f].pc # "idle"
  /\ SetupReturn(f)
  /\ UNCHANGED <<backendVars, locks, rpc, va, ready, late>>

-----------------------------------------------------------------------------
(* The service, and the controller process.                                 *)

ServiceSettles(f) == Settle(f) /\ UNCHANGED handlerVars

FilesystemDeleted(f) == DeleteFilesystem(f) /\ UNCHANGED handlerVars

LateApply ==
  \E w \in late :
    /\ UpdatePolicy(w[1], w[2])
    /\ late' = late \ {w}
    /\ UNCHANGED <<locks, rpc, va, setup, ready>>

\* The controller process restarts: its handlers and its lock set are gone.
Restart ==
  /\ locks' = NoLocks
  /\ rpc' = [p \in Pairs |-> Idle]
  /\ setup' = [f \in Filesystems |-> Idle]
  /\ UNCHANGED <<backendVars, va, ready, late>>

RpcStep(p) ==
  \/ PublishCall(p) \/ PublishGet(p)
  \/ UnpublishCall(p) \/ UnpublishGet(p)
  \/ Put(p) \/ PutUnanswered(p)
  \/ WaitActive(p) \/ RpcFails(p)

SetupStep(f) ==
  \/ SetupCall(f) \/ SetupGet(f) \/ SetupPut(f) \/ SetupPutLate(f)
  \/ SetupWaitActive(f) \/ SetupFails(f)

Next ==
  \/ \E p \in Pairs :
       WantAttached(p) \/ WantDetached(p) \/ RpcStep(p)
  \/ \E f \in Filesystems :
       SetupStep(f) \/ ServiceSettles(f) \/ FilesystemDeleted(f)
  \/ LateApply
  \/ Restart

Spec == Init /\ [][Next]_vars

\* The service settles every update; a handler ends by its timeouts at the
\* latest; the attacher retries with back-off, so a retry eventually finds the
\* lock free and its requests are eventually answered.
Fairness ==
  /\ \A f \in Filesystems : WF_vars(ServiceSettles(f))
  /\ \A p \in Pairs :
       /\ WF_vars(RpcFails(p))
       /\ SF_vars(PublishCall(p)) /\ SF_vars(PublishGet(p))
       /\ SF_vars(UnpublishCall(p)) /\ SF_vars(UnpublishGet(p))
       /\ SF_vars(Put(p))

FairSpec == Spec /\ Fairness

-----------------------------------------------------------------------------
(* Properties.                                                              *)

\* No two volume IDs name one filesystem: the handles CreateVolume hands out.
InjectiveHandles == \A v, w \in VolumeIDs : FsOf[v] = FsOf[w] => v = w

\* The lock of a volume is held exactly while one of its handlers runs, and
\* then by one handler only (TryAcquire, and the deferred Release).
LockMatchesHandlers ==
  /\ \A v \in VolumeIDs : v \in locks <=> \E p \in Pairs : p[1] = v /\ rpc[p].pc # "idle"
  /\ \A p, q \in Pairs :
       rpc[p].pc # "idle" /\ rpc[q].pc # "idle" /\ p[1] = q[1] => p = q

\* A handler only runs for a VolumeAttachment that asks for it.
HandlerMatchesAttachment ==
  \A p \in Pairs :
    rpc[p].pc # "idle" =>
      \/ rpc[p].op = "publish" /\ va[p] = "attaching"
      \/ rpc[p].op = "unpublish" /\ va[p] = "detaching"

\* The full replacement a handler is about to PUT is still the one it would
\* build from the current policy: nobody wrote between its GET and its PUT.
ReplacementIsCurrent ==
  \A p \in Pairs :
    rpc[p].pc = "put" =>
      rpc[p].options = IF rpc[p].op = "publish"
                          THEN PublishOptions(policy[Fs(p)], p[2])
                          ELSE UnpublishOptions(policy[Fs(p)], p[2])

\* While a handler waits, its own update is still what the policy says.
WaitedForOwnUpdate ==
  \A p \in Pairs :
    rpc[p].pc = "wait" =>
      IF rpc[p].op = "publish" THEN Authorised(Fs(p), p[2])
                                  ELSE p[2] \notin policy[Fs(p)].acl

\* A node whose publish succeeded stays authorised until it is unpublished,
\* whatever publishes and unpublishes of other nodes do to the same policy.
AttachedAuthorised ==
  \A p \in Pairs :
    va[p] = "attached" /\ Fs(p) \in live => Authorised(Fs(p), p[2])

\* A node whose unpublish succeeded (or that never was published) is not in
\* the ACL: no other handler's replacement brings it back.
DetachedRevoked ==
  \A p \in Pairs :
    va[p] = "detached" /\ Fs(p) \in live => p[2] \notin policy[Fs(p)].acl

\* The squash policy of the StorageClass, once CreateVolume returned, survives
\* every later update; in space mode so does the enabled, empty ACL.
SetupKept ==
  \A f \in ready : SquashSet => SetupOptions(policy[f]) = policy[f]

\* CreateVolume returns only when the squash policy is in force (the comment
\* "Always wait for the policy status" in setInitialSquashPolicy).
SetupEnforced ==
  \A f \in ready : SquashSet => enforced[f].squash = WantedSquash

\* An ACL entry appears only while its node is being attached and disappears
\* only while it is being detached: a full replacement never drags along a
\* node of another handler.
OnlyOwnNodeChanges ==
  [][\A f \in ready, n \in Nodes :
       (n \in policy'[f].acl) # (n \in policy[f].acl) =>
         \E p \in Pairs :
           /\ Fs(p) = f /\ p[2] = n
           /\ va[p] = IF n \in policy'[f].acl THEN "attaching" ELSE "detaching"]_vars

\* Attachments exist in node mode only, of volumes that are ready.
AttachmentPhase ==
  \A p \in Pairs : va[p] # "detached" => Mode = "node" /\ Fs(p) \in ready

\* CreateVolume's read-modify-write has the filesystem to itself until ready.
SetupPhase ==
  \A f \in Filesystems :
    /\ f \in ready => setup[f].pc = "idle"
    /\ f \notin ready => policy[f].acl = {}
    /\ setup[f].pc = "put" => setup[f].options = SetupOptions(policy[f])
    /\ setup[f].pc = "wait" => SetupOptions(policy[f]) = policy[f]
    /\ setup[f].pc # "idle" => SquashSet

\* Status "active" means that the requested policy is the one in force.
ActiveIsEnforced == \A f \in live \ pending : enforced[f] = policy[f]

\* What protects a policy: a handler that runs holds the lock of its volume, alone.
HandlersHoldLocks ==
  /\ \A p \in Pairs : rpc[p].pc # "idle" => p[1] \in locks
  /\ \A p, q \in Pairs :
       rpc[p].pc # "idle" /\ rpc[q].pc # "idle" /\ p[1] = q[1] => p = q

\* The invariant of the policies: what the handlers' program points, the locks,
\* the attachments and the policies of one volume say of each other.  Others may
\* hold locks as well.
PolicyInv ==
  /\ TypeOK /\ InjectiveHandles /\ ~LateWrites /\ late = {}
  /\ HandlersHoldLocks /\ HandlerMatchesAttachment
  /\ AttachmentPhase /\ SetupPhase
  /\ ReplacementIsCurrent /\ WaitedForOwnUpdate
  /\ AttachedAuthorised /\ DetachedRevoked
  /\ ActiveIsEnforced /\ SetupKept /\ SetupEnforced

\* The inductive invariant.
IInv == PolicyInv /\ LockMatchesHandlers

AsSetUp(options) == SetupOptions(options) = options

\* CreateVolume's handlers, at their program points.
SetupHandlers ==
  \A f \in Filesystems :
    /\ setup[f].pc # "idle" => SquashSet
    /\ setup[f].pc = "put" => AsSetUp(setup[f].options)
    /\ setup[f].pc = "wait" => AsSetUp(policy[f])

\* Every other PUT under way, also one that the service still holds, repeats what
\* CreateVolume set.
PutsKeepSetup ==
  SquashSet => /\ \A p \in Pairs : rpc[p].pc = "put" => AsSetUp(rpc[p].options)
               /\ \A w \in late : AsSetUp(w[2])

\* The inductive invariant of what CreateVolume sets: it needs neither the locks
\* nor one volume ID per filesystem, and it allows for late PUTs.
SetupInv ==
  /\ TypeOK
  /\ HandlerMatchesAttachment /\ AttachmentPhase
  /\ SetupHandlers /\ PutsKeepSetup
  /\ ActiveIsEnforced /\ SetupKept /\ SetupEnforced

\* The docs: publish "waits for the access policy to become active".
AttachedEnforced ==
  \A p \in Pairs :
    va[p] = "attached" /\ Fs(p) \in live =>
      enforced[Fs(p)].enabled /\ p[2] \in enforced[Fs(p)].acl

\* A wanted attachment is answered, unless it is withdrawn or the filesystem
\* is deleted, across failures, lost replies and restarts (retry idempotency).
AttachCompletes ==
  \A p \in Pairs :
    va[p] = "attaching" ~> va[p] # "attaching" \/ Fs(p) \notin live

\* A wanted detachment is answered, also when the filesystem is deleted.
DetachCompletes ==
  \A p \in Pairs : va[p] = "detaching" ~> va[p] = "detached"

\* What publish answered is in force sooner or later.
AttachedBecomesEnforced ==
  \A p \in Pairs :
    va[p] = "attached" ~>
      \/ va[p] # "attached" \/ Fs(p) \notin live
      \/ enforced[Fs(p)].enabled /\ p[2] \in enforced[Fs(p)].acl

\* The abstract attachment service: granted is what the policy authorises.
Granted ==
  {p \in Pairs : Fs(p) \in live /\ Authorised(Fs(p), p[2])}

Abstract == INSTANCE Attachment WITH granted <- Granted

\* Publish and unpublish, with their locks, snapshots, full replacements,
\* failures and restarts, implement the abstract attachment service.
ImplementsAttachment == Abstract!Spec

=============================================================================
