------------------------ MODULE AccessPolicy_proofs ------------------------
(***************************************************************************)
(* Machine-checked proofs about AccessPolicy, for every number of volumes, *)
(* nodes and filesystems and both modes.                                   *)
(***************************************************************************)
EXTENDS AccessPolicy, TLAPS

\* The policies the operations build are policies.
LEMMA OptionsType ==
  ASSUME NEW pol \in Policy, NEW n \in Nodes
  PROVE  /\ PublishOptions(pol, n) \in Policy
         /\ UnpublishOptions(pol, n) \in Policy
BY DEF Policy, PublishOptions, UnpublishOptions

LEMMA SetupOptionsType ==
  ASSUME NEW pol \in Policy, SquashSet
  PROVE  SetupOptions(pol) \in Policy
BY DEF Policy, SetupOptions, SquashSet

LEMMA NewPolicyType == NewPolicy \in Policy
BY DefaultSquashAssumption DEF NewPolicy, Policy

LEMMA HandlerType ==
  /\ Idle \in Handler
  /\ \A pc \in {"get", "put", "wait"}, op \in {"none", "publish", "unpublish", "create"},
       options \in Policy : [pc |-> pc, op |-> op, options |-> options] \in Handler
  /\ \A h \in Handler : h.options \in Policy /\ h.op \in {"none", "publish", "unpublish", "create"}
BY NewPolicyType DEF Handler, Idle

LEMMA PairType ==
  ASSUME NEW p \in Pairs
  PROVE  p[1] \in VolumeIDs /\ p[2] \in Nodes /\ Fs(p) \in Filesystems
BY FsOfAssumption DEF Pairs, Fs

LEMMA InitTypeOK == Init => TypeOK
BY NewPolicyType, HandlerType
DEF Init, TypeOK, BackendInit, BackendTypeOK, NoLocks

\* A setup handler past its first step serves a StorageClass that sets squash.
SetupOnlyIfSet == \A f \in Filesystems : setup[f].pc # "idle" => SquashSet

TypeInv == TypeOK /\ SetupOnlyIfSet

LEMMA TypeInvStep == TypeInv /\ [Next]_vars => TypeInv'
<1> SUFFICES ASSUME TypeInv, [Next]_vars PROVE TypeInv'
  OBVIOUS
<1> USE NewPolicyType, HandlerType DEF TypeInv, TypeOK, BackendTypeOK, SetupOnlyIfSet
<1>1. ASSUME NEW p \in Pairs, WantAttached(p) \/ WantDetached(p)
      PROVE  TypeInv'
  BY <1>1 DEF WantAttached, WantDetached, backendVars
<1>2. ASSUME NEW p \in Pairs, RpcStep(p)
      PROVE  TypeInv'
  <2>0. p[1] \in VolumeIDs /\ p[2] \in Nodes /\ Fs(p) \in Filesystems /\ rpc[p] \in Handler
    BY PairType
  <2>1. CASE PublishCall(p) \/ UnpublishCall(p)
    BY <2>0, <2>1 DEF PublishCall, UnpublishCall, Enter, Acquire, backendVars
  <2>2. CASE PublishGet(p)
    <3>1. PublishOptions(policy[Fs(p)], p[2]) \in Policy
      BY <2>0, OptionsType
    <3> QED BY <2>0, <2>2, <3>1 DEF PublishGet, ReturnOK, Return, Continue, Release, backendVars
  <2>3. CASE UnpublishGet(p)
    <3>1. UnpublishOptions(policy[Fs(p)], p[2]) \in Policy
      BY <2>0, OptionsType
    <3> QED BY <2>0, <2>3, <3>1 DEF UnpublishGet, ReturnOK, Return, Continue, Release, backendVars
  <2>4. CASE Put(p)
    BY <2>0, <2>4 DEF Put, UpdatePolicy, Continue
  <2>5. CASE PutUnanswered(p) /\ UpdatePolicy(Fs(p), rpc[p].options) /\ UNCHANGED late
    BY <2>0, <2>5 DEF PutUnanswered, UpdatePolicy, Return, Release
  <2>6. CASE PutUnanswered(p) /\ late' = late \union {<<Fs(p), rpc[p].options>>}
                             /\ UNCHANGED backendVars
    BY <2>0, <2>6 DEF PutUnanswered, Return, Release, backendVars
  <2>7. CASE WaitActive(p)
    BY <2>0, <2>7 DEF WaitActive, ReturnOK, Return, Release, backendVars
  <2>8. CASE RpcFails(p)
    BY <2>0, <2>8 DEF RpcFails, Return, Release, backendVars
  <2> QED BY <1>2, <2>1, <2>2, <2>3, <2>4, <2>5, <2>6, <2>7, <2>8 DEF RpcStep, PutUnanswered
<1>3. ASSUME NEW f \in Filesystems, SetupStep(f)
      PROVE  TypeInv'
  <2>0. Idle.pc = "idle" /\ setup[f] \in Handler
    BY DEF Idle
  <2>1. CASE SetupCall(f)
    BY <2>1 DEF SetupCall, SetupGoto, backendVars
  <2>2. CASE SetupGet(f)
    <3>1. SquashSet /\ SetupOptions(policy[f]) \in Policy
      BY <2>2, SetupOptionsType DEF SetupGet
    <3> QED BY <2>2, <3>1 DEF SetupGet, SetupGoto, backendVars
  <2>3. CASE SetupPut(f)
    <3>1. SquashSet /\ setup[f].options \in Policy
      BY <2>0, <2>3 DEF SetupPut
    <3>2. policy' \in [Filesystems -> Policy] /\ pending' \subseteq Filesystems
      BY <2>3, <3>1 DEF SetupPut, UpdatePolicy
    <3>3. CASE SetupGoto(f, "wait", NewPolicy)
      BY <2>3, <3>1, <3>2, <3>3 DEF SetupPut, UpdatePolicy, SetupGoto
    <3>4. CASE SetupReturn(f)
      BY <2>0, <2>3, <3>1, <3>2, <3>4 DEF SetupPut, UpdatePolicy, SetupReturn
    <3> QED BY <2>3, <3>3, <3>4 DEF SetupPut
  <2>4. CASE SetupPutLate(f)
    BY <2>0, <2>4 DEF SetupPutLate, SetupReturn, backendVars
  <2>5. CASE SetupWaitActive(f)
    BY <2>0, <2>5 DEF SetupWaitActive, SetupReturn, backendVars
  <2>6. CASE SetupFails(f)
    BY <2>0, <2>6 DEF SetupFails, SetupReturn, backendVars
  <2> QED BY <1>3, <2>1, <2>2, <2>3, <2>4, <2>5, <2>6 DEF SetupStep
<1>4. ASSUME NEW f \in Filesystems, ServiceSettles(f) \/ FilesystemDeleted(f)
      PROVE  TypeInv'
  BY <1>4 DEF ServiceSettles, FilesystemDeleted, Settle, DeleteFilesystem, handlerVars
<1>5. CASE LateApply
  BY <1>5 DEF LateApply, UpdatePolicy
<1>6. CASE Restart
  BY <1>6 DEF Restart, NoLocks, Idle, backendVars
<1>7. CASE UNCHANGED vars
  BY <1>7 DEF vars, backendVars, handlerVars
<1> QED BY <1>1, <1>2, <1>3, <1>4, <1>5, <1>6, <1>7 DEF Next

\* Every variable keeps its type in every behaviour of the controller, also
\* when the service applies PUTs after their handlers are gone.
THEOREM TypeCorrect == Spec => []TypeOK
<1>1. Init => TypeInv
  BY InitTypeOK DEF Init, TypeInv, SetupOnlyIfSet, Idle
<1>2. TypeInv => TypeOK
  BY DEF TypeInv
<1> QED BY <1>1, <1>2, TypeInvStep, PTL DEF Spec

-----------------------------------------------------------------------------
(* The inductive invariant.                                                 *)

LEMMA InitPolicyInv == InjectiveHandles /\ ~LateWrites /\ Init => PolicyInv
<1> SUFFICES ASSUME InjectiveHandles, ~LateWrites, Init PROVE PolicyInv
  OBVIOUS
<1>1. TypeOK
  BY InitTypeOK
<1>2. /\ \A p \in Pairs : rpc[p].pc = "idle" /\ va[p] = "detached"
      /\ \A f \in Filesystems : setup[f].pc = "idle" /\ policy[f] = NewPolicy
      /\ \A p \in Pairs : Fs(p) \in Filesystems
  BY PairType DEF Init, BackendInit, Idle
<1> QED BY <1>1, <1>2 DEF Init, BackendInit, PolicyInv, HandlersHoldLocks,
     HandlerMatchesAttachment, AttachmentPhase, SetupPhase, ReplacementIsCurrent,
     WaitedForOwnUpdate, AttachedAuthorised, DetachedRevoked, ActiveIsEnforced,
     SetupKept, SetupEnforced, NewPolicy

\* Two pairs of one filesystem are pairs of one volume, so at most one of them
\* has a handler.
LEMMA OneWriter ==
  ASSUME PolicyInv, NEW p \in Pairs, NEW q \in Pairs, Fs(p) = Fs(q),
         rpc[p].pc # "idle", rpc[q].pc # "idle"
  PROVE  p = q
BY PairType DEF PolicyInv, InjectiveHandles, HandlersHoldLocks, Fs

LEMMA SamePair ==
  ASSUME InjectiveHandles, NEW p \in Pairs, NEW q \in Pairs, Fs(p) = Fs(q), p[2] = q[2]
  PROVE  p = q
BY DEF InjectiveHandles, Fs, Pairs

LEMMA SetupIdempotent ==
  ASSUME NEW pol \in Policy
  PROVE  SetupOptions(SetupOptions(pol)) = SetupOptions(pol)
BY DEF SetupOptions

LEMMA SetupFields ==
  ASSUME NEW pol \in Policy
  PROVE  /\ SetupOptions(pol) = pol => pol.squash = WantedSquash
         /\ Mode = "node" /\ pol.squash = WantedSquash => SetupOptions(pol) = pol
         /\ pol.acl = {} => SetupOptions(pol).acl = {}
BY ModeAssumption DEF SetupOptions, Policy

-----------------------------------------------------------------------------
(* A step that touches only the handler, lock and attachment of one pair.   *)

HandlerOnly(p) ==
  /\ UNCHANGED <<backendVars, setup, ready, late>>
  /\ rpc' = [rpc EXCEPT ![p] = rpc'[p]]
  /\ va' = [va EXCEPT ![p] = va'[p]]

LEMMA HandlerOnlyKeeps ==
  ASSUME PolicyInv, TypeOK', NEW p \in Pairs, HandlerOnly(p),
         va'[p] # "detached" => va[p] # "detached",
         rpc'[p].pc = "put" =>
           rpc'[p].options = IF rpc'[p].op = "publish"
                             THEN PublishOptions(policy[Fs(p)], p[2])
                             ELSE UnpublishOptions(policy[Fs(p)], p[2]),
         rpc'[p].pc = "wait" =>
           IF rpc'[p].op = "publish" THEN Authorised(Fs(p), p[2])
                                     ELSE p[2] \notin policy[Fs(p)].acl,
         va'[p] = "attached" /\ Fs(p) \in live => Authorised(Fs(p), p[2]),
         va'[p] = "detached" /\ Fs(p) \in live => p[2] \notin policy[Fs(p)].acl,
         HandlersHoldLocks', HandlerMatchesAttachment'
  PROVE  PolicyInv'
<1> USE DEF HandlerOnly, backendVars
<1>0. /\ \A q \in Pairs : q # p => rpc'[q] = rpc[q] /\ va'[q] = va[q]
      /\ \A q \in Pairs : Fs(q)' = Fs(q)
  BY DEF PolicyInv, TypeOK, Fs
<1>1. AttachmentPhase'
  BY <1>0 DEF PolicyInv, AttachmentPhase, Fs
<1>2. SetupPhase' /\ ActiveIsEnforced' /\ SetupKept' /\ SetupEnforced'
  BY DEF PolicyInv, SetupPhase, ActiveIsEnforced, SetupKept, SetupEnforced, SetupOptions, SquashSet
<1>3. ReplacementIsCurrent'
  <2>1. policy' = policy
    OBVIOUS
  <2>2. SUFFICES ASSUME NEW q \in Pairs, rpc'[q].pc = "put"
                 PROVE  rpc'[q].options = IF rpc'[q].op = "publish"
                                          THEN PublishOptions(policy[Fs(q)], q[2])
                                          ELSE UnpublishOptions(policy[Fs(q)], q[2])
    BY <2>1, <1>0 DEF ReplacementIsCurrent
  <2>3. CASE q = p
    BY <2>2, <2>3
  <2>4. CASE q # p
    BY <2>2, <2>4, <1>0 DEF PolicyInv, ReplacementIsCurrent
  <2> QED BY <2>3, <2>4
<1>4. WaitedForOwnUpdate'
  BY <1>0 DEF PolicyInv, WaitedForOwnUpdate, Authorised
<1>5. AttachedAuthorised' /\ DetachedRevoked'
  BY <1>0 DEF PolicyInv, AttachedAuthorised, DetachedRevoked, Authorised
<1> QED BY <1>1, <1>2, <1>3, <1>4, <1>5 DEF PolicyInv, InjectiveHandles

-----------------------------------------------------------------------------
(* The lock: entering and leaving a handler.                                *)

LEMMA EnterLocks ==
  ASSUME PolicyInv, NEW p \in Pairs, NEW op, Enter(p, op)
  PROVE  HandlersHoldLocks'
<1>1. /\ rpc'[p].pc = "get"
      /\ \A q \in Pairs : q # p => rpc'[q] = rpc[q]
      /\ p[1] \notin locks /\ locks' = locks \union {p[1]}
  BY DEF PolicyInv, TypeOK, Enter, CanAcquire, Acquire
<1>2. \A q \in Pairs : q[1] = p[1] => rpc[q].pc = "idle"
  BY <1>1, PairType DEF PolicyInv, HandlersHoldLocks
<1> QED BY <1>1, <1>2 DEF PolicyInv, HandlersHoldLocks

LEMMA ReturnLocks ==
  ASSUME PolicyInv, NEW p \in Pairs, Return(p), rpc[p].pc # "idle"
  PROVE  HandlersHoldLocks'
<1>1. /\ rpc'[p].pc = "idle"
      /\ \A q \in Pairs : q # p => rpc'[q] = rpc[q]
      /\ locks' = locks \ {p[1]}
  BY DEF PolicyInv, TypeOK, Return, Release, Idle
<1>2. \A q \in Pairs : q[1] = p[1] /\ q # p => rpc[q].pc = "idle"
  BY DEF PolicyInv, HandlersHoldLocks
<1> QED BY <1>1, <1>2 DEF PolicyInv, HandlersHoldLocks

LEMMA ContinueLocks ==
  ASSUME PolicyInv, NEW p \in Pairs, NEW pc, NEW options, Continue(p, pc, options),
         rpc[p].pc # "idle", pc # "idle"
  PROVE  HandlersHoldLocks'
<1>1. /\ rpc'[p].pc # "idle"
      /\ \A q \in Pairs : q # p => rpc'[q] = rpc[q]
      /\ locks' = locks
  BY DEF PolicyInv, TypeOK, Continue
<1> QED BY <1>1 DEF PolicyInv, HandlersHoldLocks

-----------------------------------------------------------------------------
(* The PUT of a handler, its reply received or lost.                        *)

LEMMA PutKeeps ==
  ASSUME PolicyInv, TypeOK', NEW p \in Pairs, rpc[p].pc = "put",
         UpdatePolicy(Fs(p), rpc[p].options),
         Continue(p, "wait", NewPolicy) \/ Return(p),
         UNCHANGED <<va, setup, ready, late>>
  PROVE  PolicyInv'
<1> DEFINE f == Fs(p)
<1>1. /\ f \in Filesystems /\ p[2] \in Nodes
      /\ policy[f] \in Policy /\ rpc[p] \in Handler
  BY PairType DEF PolicyInv, TypeOK, BackendTypeOK
<1>2. \/ /\ rpc[p].op = "publish" /\ va[p] = "attaching"
         /\ rpc[p].options = PublishOptions(policy[f], p[2])
      \/ /\ rpc[p].op = "unpublish" /\ va[p] = "detaching"
         /\ rpc[p].options = UnpublishOptions(policy[f], p[2])
  BY DEF PolicyInv, HandlerMatchesAttachment, ReplacementIsCurrent
<1>3. Mode = "node" /\ f \in ready /\ setup[f].pc = "idle"
  BY <1>1, <1>2 DEF PolicyInv, AttachmentPhase, SetupPhase
<1>4. /\ policy'[f] = rpc[p].options
      /\ \A g \in Filesystems : g # f => policy'[g] = policy[g]
      /\ live' = live /\ enforced' = enforced /\ pending' = pending \union {f}
  BY <1>1 DEF PolicyInv, TypeOK, BackendTypeOK, UpdatePolicy
<1>5. /\ \A q \in Pairs : q # p => rpc'[q] = rpc[q]
      /\ (rpc'[p].pc = "wait" /\ rpc'[p].op = rpc[p].op) \/ rpc'[p].pc = "idle"
      /\ va' = va /\ \A q \in Pairs : Fs(q)' = Fs(q) /\ Fs(q) \in Filesystems
  BY PairType DEF PolicyInv, TypeOK, Continue, Return, Idle, Fs
<1>6. \A q \in Pairs : q # p /\ Fs(q) = f => rpc[q].pc = "idle" /\ q[2] # p[2]
  BY OneWriter, SamePair DEF PolicyInv
<1>7. /\ policy'[f].squash = policy[f].squash
      /\ rpc[p].op = "publish" => policy'[f].enabled
      /\ rpc[p].op = "unpublish" => policy'[f].enabled = policy[f].enabled
      /\ policy'[f].acl = IF rpc[p].op = "publish" THEN policy[f].acl \union {p[2]}
                                                    ELSE policy[f].acl \ {p[2]}
      /\ policy'[f] \in Policy
  <2>1. policy'[f] \in Policy
    BY <1>1, <1>2, <1>4, OptionsType
  <2>2. CASE rpc[p].op = "publish"
    BY <1>2, <1>4, <2>1, <2>2 DEF PublishOptions
  <2>3. CASE rpc[p].op = "unpublish"
    BY <1>2, <1>4, <2>1, <2>3 DEF UnpublishOptions
  <2> QED BY <1>2, <2>2, <2>3
<1>8. HandlersHoldLocks'
  BY ContinueLocks, ReturnLocks
<1>9. HandlerMatchesAttachment' /\ AttachmentPhase'
  BY <1>5 DEF PolicyInv, HandlerMatchesAttachment, AttachmentPhase
<1>10. SetupPhase' /\ ActiveIsEnforced'
  <2>1. \A g \in Filesystems : g # f => SetupOptions(policy[g])' = SetupOptions(policy[g])
    BY <1>4 DEF SetupOptions
  <2>2. SquashSet' = SquashSet
    BY DEF SquashSet
  <2> QED BY <1>3, <1>4, <2>1, <2>2 DEF PolicyInv, SetupPhase, ActiveIsEnforced, TypeOK,
    BackendTypeOK
<1>11. SetupKept' /\ SetupEnforced'
  <2>1. SquashSet => SetupOptions(policy'[f]) = policy'[f]
    BY <1>1, <1>3, <1>7, SetupFields DEF PolicyInv, SetupKept
  <2> QED BY <1>3, <1>4, <2>1 DEF PolicyInv, SetupKept, SetupEnforced, SetupOptions, SquashSet,
    TypeOK
<1>12. ReplacementIsCurrent'
  <2> SUFFICES ASSUME NEW q \in Pairs, rpc'[q].pc = "put"
               PROVE  rpc'[q].options = IF rpc'[q].op = "publish"
                                        THEN PublishOptions(policy'[Fs(q)], q[2])
                                        ELSE UnpublishOptions(policy'[Fs(q)], q[2])
    BY <1>5 DEF ReplacementIsCurrent
  <2>1. q # p /\ rpc'[q] = rpc[q] /\ Fs(q) # f /\ policy'[Fs(q)] = policy[Fs(q)]
    BY <1>4, <1>5, <1>6
  <2> QED BY <2>1 DEF PolicyInv, ReplacementIsCurrent
<1>13. WaitedForOwnUpdate'
  BY <1>2, <1>4, <1>5, <1>6, <1>7 DEF PolicyInv, WaitedForOwnUpdate, Authorised
<1>14. AttachedAuthorised' /\ DetachedRevoked'
  BY <1>2, <1>4, <1>5, <1>6, <1>7 DEF PolicyInv, AttachedAuthorised, DetachedRevoked, Authorised
<1> QED BY <1>8, <1>9, <1>10, <1>11, <1>12, <1>13, <1>14 DEF PolicyInv, InjectiveHandles

-----------------------------------------------------------------------------
(* One step per action.                                                     *)

LEMMA WantKeeps ==
  ASSUME PolicyInv, TypeOK', NEW p \in Pairs, WantAttached(p) \/ WantDetached(p)
  PROVE  PolicyInv'
<1>1. /\ \A q \in Pairs : q # p => va'[q] = va[q]
      /\ UNCHANGED <<backendVars, locks, rpc, setup, ready, late>>
      /\ \A q \in Pairs : Fs(q)' = Fs(q)
      /\ \/ va'[p] = "attaching" /\ va[p] = "detached" /\ Mode = "node" /\ Fs(p) \in ready
         \/ va'[p] = "detaching" /\ va[p] # "detached"
      /\ rpc[p].pc = "idle"
  BY DEF WantAttached, WantDetached, PolicyInv, TypeOK, HandlerMatchesAttachment, Fs
<1>2. HandlersHoldLocks' /\ HandlerMatchesAttachment' /\ AttachmentPhase'
  BY <1>1 DEF PolicyInv, HandlersHoldLocks, HandlerMatchesAttachment, AttachmentPhase
<1>3. SetupPhase' /\ ActiveIsEnforced' /\ SetupKept' /\ SetupEnforced'
  BY <1>1 DEF PolicyInv, backendVars, SetupPhase, ActiveIsEnforced, SetupKept, SetupEnforced,
              SetupOptions, SquashSet
<1>4. ReplacementIsCurrent' /\ WaitedForOwnUpdate'
  BY <1>1 DEF PolicyInv, backendVars, ReplacementIsCurrent, WaitedForOwnUpdate, Authorised,
              PublishOptions, UnpublishOptions
<1>5. AttachedAuthorised' /\ DetachedRevoked'
  BY <1>1 DEF PolicyInv, backendVars, AttachedAuthorised, DetachedRevoked, Authorised
<1> QED BY <1>1, <1>2, <1>3, <1>4, <1>5 DEF PolicyInv, InjectiveHandles

LEMMA CallKeeps ==
  ASSUME PolicyInv, TypeOK', NEW p \in Pairs, PublishCall(p) \/ UnpublishCall(p)
  PROVE  PolicyInv'
<1>1. PICK op \in {"publish", "unpublish"} :
        /\ Enter(p, op) /\ UNCHANGED <<backendVars, va, setup, ready, late>>
        /\ va[p] = IF op = "publish" THEN "attaching" ELSE "detaching"
  BY DEF PublishCall, UnpublishCall
<1>2. /\ rpc'[p].pc = "get" /\ rpc'[p].op = op
      /\ \A q \in Pairs : q # p => rpc'[q] = rpc[q]
      /\ HandlerOnly(p) /\ va'[p] = va[p]
  BY <1>1 DEF HandlerOnly, Enter, PolicyInv, TypeOK
<1>3. HandlerMatchesAttachment'
  BY <1>1, <1>2 DEF PolicyInv, HandlerMatchesAttachment
<1>4. HandlersHoldLocks'
  BY <1>1, EnterLocks
<1> QED BY <1>1, <1>2, <1>3, <1>4, HandlerOnlyKeeps

\* A handler that returns, with an answer or an error.
LEMMA ReturnKeeps ==
  ASSUME PolicyInv, TypeOK', NEW p \in Pairs, rpc[p].pc # "idle", Return(p),
         UNCHANGED <<backendVars, setup, ready, late>>,
         \/ UNCHANGED va
         \/ /\ ReturnOK(p)
            /\ Fs(p) \in live => IF rpc[p].op = "publish"
                                  THEN Authorised(Fs(p), p[2])
                                  ELSE p[2] \notin policy[Fs(p)].acl
  PROVE  PolicyInv'
<1>1. /\ rpc'[p].pc = "idle"
      /\ \A q \in Pairs : q # p => rpc'[q] = rpc[q] /\ va'[q] = va[q]
      /\ HandlerOnly(p)
      /\ va'[p] = va[p] \/ va'[p] = IF rpc[p].op = "publish" THEN "attached" ELSE "detached"
  BY DEF HandlerOnly, Return, ReturnOK, Idle, PolicyInv, TypeOK
<1>2. /\ rpc[p].op = "publish" => va[p] = "attaching"
      /\ rpc[p].op # "publish" => va[p] = "detaching"
  BY DEF PolicyInv, HandlerMatchesAttachment
<1>3. HandlerMatchesAttachment'
  BY <1>1 DEF PolicyInv, HandlerMatchesAttachment
<1>4. HandlersHoldLocks'
  BY ReturnLocks
<1>5. /\ va'[p] = "attached" /\ Fs(p) \in live => Authorised(Fs(p), p[2])
      /\ va'[p] = "detached" /\ Fs(p) \in live => p[2] \notin policy[Fs(p)].acl
      /\ va'[p] # "detached" => va[p] # "detached"
  BY <1>2 DEF ReturnOK, PolicyInv, TypeOK
<1> QED BY <1>1, <1>3, <1>4, <1>5, HandlerOnlyKeeps

LEMMA GetContinuesKeeps ==
  ASSUME PolicyInv, TypeOK', NEW p \in Pairs, NEW options,
         rpc[p].pc = "get", Continue(p, "put", options),
         options = IF rpc[p].op = "publish" THEN PublishOptions(policy[Fs(p)], p[2])
                                            ELSE UnpublishOptions(policy[Fs(p)], p[2]),
         UNCHANGED <<backendVars, va, setup, ready, late>>
  PROVE  PolicyInv'
<1>1. /\ rpc'[p].pc = "put" /\ rpc'[p].op = rpc[p].op /\ rpc'[p].options = options
      /\ \A q \in Pairs : q # p => rpc'[q] = rpc[q]
      /\ HandlerOnly(p) /\ va'[p] = va[p]
  BY DEF HandlerOnly, Continue, PolicyInv, TypeOK
<1>2. HandlerMatchesAttachment'
  BY <1>1 DEF PolicyInv, HandlerMatchesAttachment
<1>3. HandlersHoldLocks'
  BY ContinueLocks
<1>4. va[p] # "attached" /\ va[p] # "detached"
  BY DEF PolicyInv, HandlerMatchesAttachment
<1> QED BY <1>1, <1>2, <1>3, <1>4, HandlerOnlyKeeps

LEMMA RpcKeeps ==
  ASSUME PolicyInv, TypeOK', NEW p \in Pairs, RpcStep(p)
  PROVE  PolicyInv'
<1>1. CASE PublishCall(p) \/ UnpublishCall(p)
  BY <1>1, CallKeeps
<1>2. CASE PublishGet(p)
  <2>1. CASE Authorised(Fs(p), p[2])
    BY <1>2, <2>1, ReturnKeeps DEF PublishGet, At, ReturnOK
  <2>2. CASE ~Authorised(Fs(p), p[2])
    BY <1>2, <2>2, GetContinuesKeeps DEF PublishGet, At
  <2> QED BY <2>1, <2>2
<1>3. CASE UnpublishGet(p)
  <2>1. CASE Fs(p) \notin live \/ p[2] \notin policy[Fs(p)].acl
    BY <1>3, <2>1, ReturnKeeps DEF UnpublishGet, At, ReturnOK
  <2>2. CASE Fs(p) \in live /\ p[2] \in policy[Fs(p)].acl
    BY <1>3, <2>2, GetContinuesKeeps DEF UnpublishGet, At
  <2> QED BY <2>1, <2>2
<1>4. CASE Put(p)
  BY <1>4, PutKeeps DEF Put
<1>5. CASE PutUnanswered(p)
  <2>1. UpdatePolicy(Fs(p), rpc[p].options) /\ UNCHANGED late
    BY <1>5 DEF PutUnanswered, PolicyInv
  <2> QED BY <1>5, <2>1, PutKeeps DEF PutUnanswered
<1>7. CASE WaitActive(p)
  <2>1. IF rpc[p].op = "publish" THEN Authorised(Fs(p), p[2]) ELSE p[2] \notin policy[Fs(p)].acl
    BY <1>7 DEF WaitActive, PolicyInv, WaitedForOwnUpdate
  <2> QED BY <1>7, <2>1, ReturnKeeps DEF WaitActive, ReturnOK
<1>8. CASE RpcFails(p)
  BY <1>8, ReturnKeeps DEF RpcFails, backendVars
<1> QED BY <1>1, <1>2, <1>3, <1>4, <1>5, <1>7, <1>8 DEF RpcStep

\* A step of CreateVolume or of the service leaves handlers and attachments.
LEMMA OthersKeep ==
  ASSUME PolicyInv, TypeOK', UNCHANGED <<locks, rpc, va, late>>,
         \A f \in Filesystems : f \in ready /\ policy'[f] # policy[f] => FALSE,
         \A f \in Filesystems : f \notin ready => policy'[f].acl = {},
         ready \subseteq ready', live' \subseteq live
  PROVE  /\ HandlersHoldLocks' /\ HandlerMatchesAttachment' /\ AttachmentPhase'
         /\ ReplacementIsCurrent' /\ WaitedForOwnUpdate'
         /\ AttachedAuthorised' /\ DetachedRevoked'
<1>1. \A p \in Pairs : Fs(p)' = Fs(p) /\ Fs(p) \in Filesystems
  BY PairType DEF Fs
<1>2. HandlersHoldLocks' /\ HandlerMatchesAttachment' /\ AttachmentPhase'
  BY <1>1 DEF PolicyInv, HandlersHoldLocks, HandlerMatchesAttachment, AttachmentPhase
<1>3. \A p \in Pairs : va[p] # "detached" => policy'[Fs(p)] = policy[Fs(p)]
  BY <1>1 DEF PolicyInv, AttachmentPhase
<1>4. \A p \in Pairs : rpc[p].pc # "idle" => policy'[Fs(p)] = policy[Fs(p)]
  BY <1>3 DEF PolicyInv, HandlerMatchesAttachment
<1>5. ReplacementIsCurrent'
  <2> SUFFICES ASSUME NEW p \in Pairs, rpc[p].pc = "put"
               PROVE  rpc[p].options = IF rpc[p].op = "publish"
                                       THEN PublishOptions(policy'[Fs(p)], p[2])
                                       ELSE UnpublishOptions(policy'[Fs(p)], p[2])
    BY <1>1 DEF ReplacementIsCurrent
  <2> QED BY <1>4 DEF PolicyInv, ReplacementIsCurrent
<1>6. WaitedForOwnUpdate'
  BY <1>1, <1>4 DEF PolicyInv, WaitedForOwnUpdate, Authorised
<1>7. AttachedAuthorised'
  BY <1>1, <1>3 DEF PolicyInv, AttachedAuthorised, Authorised
<1>8. DetachedRevoked'
  BY <1>1 DEF PolicyInv, DetachedRevoked
<1> QED BY <1>2, <1>5, <1>6, <1>7, <1>8

LEMMA SetupKeeps ==
  ASSUME PolicyInv, TypeOK', NEW f \in Filesystems, SetupStep(f)
  PROVE  PolicyInv'
<1>1. /\ f \notin ready /\ policy[f] \in Policy /\ policy[f].acl = {}
      /\ setup[f].pc # "idle" => SquashSet
      /\ SquashSet' = SquashSet
      /\ \A g \in Filesystems : policy'[g] = policy[g] =>
           SetupOptions(policy[g])' = SetupOptions(policy[g])
  BY DEF PolicyInv, TypeOK, BackendTypeOK, SetupPhase, SetupStep, SetupCall, SetupGet, SetupPut,
         SetupPutLate, SetupWaitActive, SetupFails, SquashSet, SetupOptions
<1>2. CASE SetupCall(f) \/ SetupGet(f) \/ SetupWaitActive(f) \/ SetupFails(f)
  <2>1. /\ UNCHANGED <<live, policy, enforced, pending, locks, rpc, va, late>>
        /\ \A g \in Filesystems : g # f => setup'[g] = setup[g] /\ (g \in ready' <=> g \in ready)
        /\ ready \subseteq ready'
    BY <1>2 DEF SetupCall, SetupGet, SetupWaitActive, SetupFails, SetupGoto, SetupReturn,
                backendVars, PolicyInv, TypeOK
  <2>2. \/ setup'[f].pc = "idle" /\ f \notin ready'
        \/ setup'[f].pc = "get" /\ f \notin ready' /\ SquashSet
        \/ /\ setup'[f].pc = "wait" /\ f \notin ready' /\ SquashSet
           /\ SetupOptions(policy[f]) = policy[f]
        \/ /\ setup'[f].pc = "put" /\ f \notin ready' /\ SquashSet
           /\ setup'[f].options = SetupOptions(policy[f])
        \/ setup'[f].pc = "idle" /\ ~SquashSet
        \/ /\ setup'[f].pc = "idle" /\ SetupOptions(policy[f]) = policy[f]
           /\ enforced[f] = policy[f]
    <3>1. CASE SetupCall(f)
      BY <1>1, <3>1 DEF SetupCall, SetupGoto, PolicyInv, TypeOK
    <3>2. CASE SetupGet(f)
      BY <1>1, <3>2 DEF SetupGet, SetupGoto, PolicyInv, TypeOK
    <3>3. CASE SetupWaitActive(f)
      BY <1>1, <3>3 DEF SetupWaitActive, SetupReturn, PolicyInv, TypeOK, Idle, SetupPhase,
                        ActiveIsEnforced, PolicyActive
    <3>4. CASE SetupFails(f)
      BY <1>1, <3>4 DEF SetupFails, SetupReturn, PolicyInv, TypeOK, Idle
    <3> QED BY <1>2, <3>1, <3>2, <3>3, <3>4
  <2>3. SetupPhase' /\ ActiveIsEnforced'
    BY <1>1, <2>1, <2>2 DEF PolicyInv, SetupPhase, ActiveIsEnforced
  <2>4. SetupKept' /\ SetupEnforced'
    <3>1. f \in ready' /\ SquashSet =>
            SetupOptions(policy[f]) = policy[f] /\ enforced[f].squash = WantedSquash
      BY <1>1, <2>2, SetupFields
    <3> QED BY <1>1, <2>1, <3>1 DEF PolicyInv, SetupKept, SetupEnforced, TypeOK
  <2> QED BY <1>1, <2>1, <2>3, <2>4, OthersKeep DEF PolicyInv, InjectiveHandles, SetupPhase
<1>3. CASE SetupPut(f)
  <2>1. /\ UNCHANGED <<live, enforced, locks, rpc, va, ready, late>>
        /\ pending' = pending \union {f}
        /\ policy'[f] = SetupOptions(policy[f])
        /\ \A g \in Filesystems : g # f => setup'[g] = setup[g] /\ policy'[g] = policy[g]
        /\ setup'[f].pc \in {"wait", "idle"}
    BY <1>3 DEF SetupPut, UpdatePolicy, SetupGoto, SetupReturn, Idle, PolicyInv, TypeOK,
                BackendTypeOK, SetupPhase
  <2>2. policy'[f].acl = {} /\ SetupOptions(policy'[f]) = policy'[f]
    BY <1>1, <2>1, SetupFields, SetupIdempotent
  <2>3. SetupPhase' /\ ActiveIsEnforced'
    <3>1. SetupOptions(policy[f])' = SetupOptions(policy'[f]) /\ SquashSet
      BY <1>1, <1>3 DEF SetupPut, SetupOptions
    <3> QED BY <1>1, <2>1, <2>2, <3>1 DEF PolicyInv, SetupPhase, ActiveIsEnforced, TypeOK,
      BackendTypeOK
  <2>4. SetupKept' /\ SetupEnforced'
    BY <1>1, <2>1 DEF PolicyInv, SetupKept, SetupEnforced, TypeOK
  <2> QED BY <1>1, <2>1, <2>2, <2>3, <2>4, OthersKeep DEF PolicyInv, InjectiveHandles, SetupPhase
<1>4. CASE SetupPutLate(f)
  BY <1>4 DEF SetupPutLate, PolicyInv
<1> QED BY <1>2, <1>3, <1>4 DEF SetupStep

LEMMA ServiceKeeps ==
  ASSUME PolicyInv, TypeOK', NEW f \in Filesystems, ServiceSettles(f) \/ FilesystemDeleted(f)
  PROVE  PolicyInv'
<1>1. /\ UNCHANGED <<policy, locks, rpc, va, setup, ready, late>>
      /\ live' \subseteq live
      /\ \A g \in Filesystems : SetupOptions(policy[g])' = SetupOptions(policy[g])
      /\ SquashSet' = SquashSet
  BY DEF ServiceSettles, FilesystemDeleted, Settle, DeleteFilesystem, handlerVars, SetupOptions,
    SquashSet
<1>2. \/ /\ enforced'[f] = policy[f] /\ pending' = pending \ {f} /\ live' = live
         /\ \A g \in Filesystems : g # f => enforced'[g] = enforced[g]
      \/ enforced' = enforced /\ live' = live \ {f} /\ pending' = pending \ {f}
  BY DEF ServiceSettles, FilesystemDeleted, Settle, DeleteFilesystem, PolicyInv, TypeOK,
    BackendTypeOK
<1>3. SetupPhase' /\ SetupKept'
  BY <1>1 DEF PolicyInv, SetupPhase, SetupKept, TypeOK
<1>4. ActiveIsEnforced'
  BY <1>1, <1>2 DEF PolicyInv, ActiveIsEnforced, TypeOK, BackendTypeOK
<1>5. SetupEnforced'
  <2>1. f \in ready /\ SquashSet => policy[f].squash = WantedSquash
    BY SetupFields DEF PolicyInv, SetupKept, TypeOK, BackendTypeOK
  <2> QED BY <1>1, <1>2, <2>1 DEF PolicyInv, SetupEnforced, TypeOK
<1> QED BY <1>1, <1>3, <1>4, <1>5, OthersKeep DEF PolicyInv, InjectiveHandles, SetupPhase

LEMMA RestartKeeps ==
  ASSUME PolicyInv, TypeOK', Restart
  PROVE  PolicyInv'
<1>1. /\ UNCHANGED <<live, policy, enforced, pending, va, ready, late>>
      /\ locks' = {}
      /\ \A p \in Pairs : rpc'[p].pc = "idle" /\ Fs(p)' = Fs(p)
      /\ \A f \in Filesystems : setup'[f].pc = "idle"
      /\ SquashSet' = SquashSet
  BY DEF Restart, backendVars, NoLocks, Idle, Fs, SquashSet
<1>2. /\ HandlersHoldLocks' /\ HandlerMatchesAttachment'
      /\ ReplacementIsCurrent' /\ WaitedForOwnUpdate'
  BY <1>1 DEF HandlersHoldLocks, HandlerMatchesAttachment, ReplacementIsCurrent, WaitedForOwnUpdate
<1>3. AttachmentPhase' /\ AttachedAuthorised' /\ DetachedRevoked'
  BY <1>1 DEF PolicyInv, AttachmentPhase, AttachedAuthorised, DetachedRevoked, Authorised
<1>4. SetupPhase' /\ ActiveIsEnforced' /\ SetupKept' /\ SetupEnforced'
  BY <1>1 DEF PolicyInv, SetupPhase, ActiveIsEnforced, SetupKept, SetupEnforced, SetupOptions
<1> QED BY <1>1, <1>2, <1>3, <1>4 DEF PolicyInv, InjectiveHandles

LEMMA StutterKeeps ==
  ASSUME PolicyInv, TypeOK', UNCHANGED vars
  PROVE  PolicyInv'
<1>1. UNCHANGED <<live, policy, enforced, pending, locks, rpc, va, setup, ready, late>>
  BY DEF vars, backendVars, handlerVars
<1>2. HandlersHoldLocks' /\ HandlerMatchesAttachment' /\ AttachmentPhase'
  BY <1>1 DEF PolicyInv, HandlersHoldLocks, HandlerMatchesAttachment, AttachmentPhase, Fs
<1>3. SetupPhase' /\ ActiveIsEnforced' /\ SetupKept' /\ SetupEnforced'
  BY <1>1 DEF PolicyInv, SetupPhase, ActiveIsEnforced, SetupKept, SetupEnforced, SetupOptions,
    SquashSet
<1>4. ReplacementIsCurrent' /\ WaitedForOwnUpdate'
  BY <1>1 DEF PolicyInv, ReplacementIsCurrent, WaitedForOwnUpdate, Authorised, Fs,
              PublishOptions, UnpublishOptions
<1>5. AttachedAuthorised' /\ DetachedRevoked'
  BY <1>1 DEF PolicyInv, AttachedAuthorised, DetachedRevoked, Authorised, Fs
<1> QED BY <1>1, <1>2, <1>3, <1>4, <1>5 DEF PolicyInv, InjectiveHandles

LEMMA PolicyInvStep == PolicyInv /\ [Next]_vars => PolicyInv'
<1> SUFFICES ASSUME PolicyInv, [Next]_vars PROVE PolicyInv'
  OBVIOUS
<1>0. TypeOK'
  BY TypeInvStep DEF PolicyInv, TypeInv, SetupOnlyIfSet, SetupPhase
<1>1. ASSUME NEW p \in Pairs, WantAttached(p) \/ WantDetached(p) PROVE PolicyInv'
  BY <1>0, <1>1, WantKeeps
<1>2. ASSUME NEW p \in Pairs, RpcStep(p) PROVE PolicyInv'
  BY <1>0, <1>2, RpcKeeps
<1>3. ASSUME NEW f \in Filesystems, SetupStep(f) PROVE PolicyInv'
  BY <1>0, <1>3, SetupKeeps
<1>4. ASSUME NEW f \in Filesystems, ServiceSettles(f) \/ FilesystemDeleted(f) PROVE PolicyInv'
  BY <1>0, <1>4, ServiceKeeps
<1>5. CASE LateApply
  BY <1>5 DEF LateApply, PolicyInv
<1>6. CASE Restart
  BY <1>0, <1>6, RestartKeeps
<1>7. CASE UNCHANGED vars
  BY <1>0, <1>7, StutterKeeps
<1> QED BY <1>1, <1>2, <1>3, <1>4, <1>5, <1>6, <1>7 DEF Next

\* No return path forgets the lock: one that is held has its handler.
LEMMA LocksReleased ==
  ASSUME PolicyInv, PolicyInv', LockMatchesHandlers, [Next]_vars
  PROVE  LockMatchesHandlers'
<1>1. SUFFICES ASSUME NEW v \in locks'
               PROVE  \E p \in Pairs : p[1] = v /\ rpc'[p].pc # "idle"
  BY PairType DEF LockMatchesHandlers, PolicyInv, HandlersHoldLocks
<1>2. ASSUME v \in locks
      PROVE  \E p \in Pairs : p[1] = v /\ rpc[p].pc # "idle"
  BY <1>2 DEF LockMatchesHandlers, PolicyInv, TypeOK
<1>3. ASSUME NEW p \in Pairs, RpcStep(p)
      PROVE  \E q \in Pairs : q[1] = v /\ rpc'[q].pc # "idle"
  <2>1. rpc \in [Pairs -> Handler]
    BY DEF PolicyInv, TypeOK
  <2>2. ASSUME NEW op, Enter(p, op)
        PROVE  rpc'[p].pc # "idle" /\ locks' = locks \union {p[1]} /\ rpc[p].pc = "idle"
    BY <2>1, <2>2 DEF Enter, Acquire
  <2>3. ASSUME NEW pc, NEW options, Continue(p, pc, options), pc # "idle"
        PROVE  rpc'[p].pc # "idle" /\ locks' = locks
    BY <2>1, <2>3 DEF Continue
  <2>4. CASE Return(p)
    BY <1>2, <2>4 DEF Return, Release
  <2>5. CASE ~Return(p)
    <3>1. \/ \E op : Enter(p, op)
          \/ \E pc, options : Continue(p, pc, options) /\ pc # "idle"
      BY <1>3, <2>5 DEF RpcStep, PublishCall, PublishGet, UnpublishCall, UnpublishGet, Put,
         PutUnanswered, WaitActive, RpcFails, ReturnOK
    <3>2. rpc'[p].pc # "idle" /\ (v \notin locks => v = p[1])
      BY <2>2, <2>3, <3>1
    <3>3. \A q \in Pairs : q # p => rpc'[q] = rpc[q]
      BY <2>1, <3>1 DEF Enter, Continue
    <3> QED BY <1>2, <3>2, <3>3
  <2> QED BY <2>4, <2>5
<1>4. CASE UNCHANGED <<locks, rpc>>
  BY <1>2, <1>4
<1>5. CASE Restart
  BY <1>5 DEF Restart, NoLocks
<1>6. (\E p \in Pairs : RpcStep(p)) \/ UNCHANGED <<locks, rpc>> \/ Restart
  BY DEF Next, vars, handlerVars, WantAttached, WantDetached, SetupStep, SetupCall, SetupGet,
     SetupPut, SetupPutLate, SetupWaitActive, SetupFails, ServiceSettles, FilesystemDeleted,
     LateApply
<1> QED BY <1>3, <1>4, <1>5, <1>6

LEMMA InitIInv == InjectiveHandles /\ ~LateWrites /\ Init => IInv
BY InitPolicyInv DEF IInv, LockMatchesHandlers, Init, NoLocks, Idle

LEMMA IInvStep == IInv /\ [Next]_vars => IInv'
BY PolicyInvStep, LocksReleased DEF IInv

\* Under the locks, with one volume ID per filesystem and no write that outlives
\* its caller, the inductive invariant holds in every behaviour.
THEOREM InvariantHolds == InjectiveHandles /\ ~LateWrites /\ Spec => []IInv
BY InitIInv, IInvStep, PTL DEF Spec

\* A published node stays in the enabled ACL until it is unpublished.
THEOREM PublishHolds == InjectiveHandles /\ ~LateWrites /\ Spec => []AttachedAuthorised
<1>1. IInv => AttachedAuthorised
  BY DEF IInv, PolicyInv
<1> QED BY <1>1, InvariantHolds, PTL

\* An unpublished node is in no ACL until it is published again.
THEOREM UnpublishHolds == InjectiveHandles /\ ~LateWrites /\ Spec => []DetachedRevoked
<1>1. IInv => DetachedRevoked
  BY DEF IInv, PolicyInv
<1> QED BY <1>1, InvariantHolds, PTL

\* Between the GET and the PUT of a handler nobody else writes the policy.
THEOREM NoLostUpdate == InjectiveHandles /\ ~LateWrites /\ Spec => []ReplacementIsCurrent
<1>1. IInv => ReplacementIsCurrent
  BY DEF IInv, PolicyInv
<1> QED BY <1>1, InvariantHolds, PTL

-----------------------------------------------------------------------------
(* What CreateVolume sets, without the locks and with late PUTs.            *)

LEMMA OptionsKeepSetup ==
  ASSUME NEW pol \in Policy, AsSetUp(pol), NEW n \in Nodes, Mode = "node"
  PROVE  AsSetUp(PublishOptions(pol, n)) /\ AsSetUp(UnpublishOptions(pol, n))
<1>1. pol.squash = WantedSquash
  BY SetupFields DEF AsSetUp
<1>2. /\ PublishOptions(pol, n).squash = WantedSquash
      /\ UnpublishOptions(pol, n).squash = WantedSquash
  BY <1>1 DEF PublishOptions, UnpublishOptions
<1> QED BY <1>2, OptionsType, SetupFields DEF AsSetUp

LEMMA SetupSets ==
  ASSUME NEW pol \in Policy
  PROVE  AsSetUp(SetupOptions(pol)) /\ (AsSetUp(pol) => pol.squash = WantedSquash)
BY SetupIdempotent, SetupFields DEF AsSetUp

\* A step that writes, if at all, a policy as CreateVolume would have it.
SetupFrame ==
  /\ \A f \in Filesystems :
       /\ policy'[f] = policy[f] \/ (SquashSet => AsSetUp(policy'[f]))
       /\ enforced'[f] = enforced[f] \/ enforced'[f] = policy[f]
       /\ f \in ready' \ ready => (SquashSet => AsSetUp(policy[f]) /\ enforced[f] = policy[f])
  /\ ready \subseteq ready'

LEMMA SetupFrameKeeps ==
  ASSUME SetupInv, TypeOK', SetupFrame
  PROVE  SetupKept' /\ SetupEnforced'
<1>1. SquashSet' = SquashSet
  BY DEF SquashSet
<1>2. ASSUME NEW f \in ready', SquashSet
      PROVE  SetupOptions(policy'[f]) = policy'[f] /\ enforced'[f].squash = WantedSquash
  <2>1. f \in Filesystems /\ policy[f] \in Policy
    BY DEF SetupInv, TypeOK, BackendTypeOK
  <2>2. AsSetUp(policy[f]) /\ enforced[f].squash = WantedSquash
    BY <1>2, <2>1, SetupSets DEF SetupFrame, SetupInv, SetupKept, SetupEnforced, AsSetUp
  <2>3. AsSetUp(policy'[f])
    BY <1>2, <2>1, <2>2 DEF SetupFrame
  <2>4. enforced'[f].squash = WantedSquash
    BY <2>1, <2>2, SetupSets DEF SetupFrame
  <2> QED BY <2>3, <2>4 DEF AsSetUp
<1>3. \A f \in ready' : SetupOptions(policy[f])' = SetupOptions(policy'[f])
  BY DEF SetupOptions
<1> QED BY <1>1, <1>2, <1>3 DEF SetupKept, SetupEnforced

\* A step of a publish or unpublish, whose PUT is built from a policy as
\* CreateVolume left it.
LEMMA RpcKeepsSetup ==
  ASSUME SetupInv, TypeOK', NEW p \in Pairs, RpcStep(p)
  PROVE  SetupInv'
<1> DEFINE f == Fs(p)
<1> USE DEF SetupInv
<1>0. /\ p[1] \in VolumeIDs /\ p[2] \in Nodes /\ f \in Filesystems
      /\ policy[f] \in Policy /\ rpc[p] \in Handler
  BY PairType DEF TypeOK, BackendTypeOK
<1>1. SquashSet' = SquashSet /\ \A q \in Pairs : Fs(q)' = Fs(q)
  BY DEF SquashSet, Fs
<1>2. /\ \A q \in Pairs : q # p => rpc'[q] = rpc[q] /\ va'[q] = va[q]
      /\ UNCHANGED <<live, enforced, setup, ready>>
  BY DEF RpcStep, PublishCall, PublishGet, UnpublishCall, UnpublishGet, Put, PutUnanswered,
         WaitActive, RpcFails, Enter, Continue, ReturnOK, Return, UpdatePolicy, TypeOK, backendVars
<1>3. \/ rpc'[p].pc = "idle"
      \/ /\ rpc'[p].pc = "get" /\ rpc[p].pc = "idle" /\ UNCHANGED va
         /\ \/ rpc'[p].op = "publish" /\ va[p] = "attaching"
            \/ rpc'[p].op = "unpublish" /\ va[p] = "detaching"
      \/ /\ rpc'[p].pc \in {"put", "wait"} /\ rpc[p].pc # "idle" /\ UNCHANGED va
         /\ rpc'[p].op = rpc[p].op
  BY DEF RpcStep, PublishCall, PublishGet, UnpublishCall, UnpublishGet, Put, PutUnanswered,
         WaitActive, RpcFails, Enter, Continue, ReturnOK, Return, At, Idle, TypeOK
<1>4. va'[p] = va[p] \/ (rpc[p].pc # "idle" /\ rpc'[p].pc = "idle")
  BY DEF RpcStep, PublishCall, PublishGet, UnpublishCall, UnpublishGet, Put, PutUnanswered,
         WaitActive, RpcFails, ReturnOK, Return, At, Idle, TypeOK
<1>5. HandlerMatchesAttachment' /\ AttachmentPhase'
  BY <1>1, <1>2, <1>3, <1>4 DEF HandlerMatchesAttachment, AttachmentPhase
<1>6. rpc[p].pc # "idle" => Mode = "node" /\ f \in ready
  BY DEF HandlerMatchesAttachment, AttachmentPhase
<1>7. rpc'[p].pc = "put" /\ SquashSet => AsSetUp(rpc'[p].options)
  <2> SUFFICES ASSUME rpc'[p].pc = "put", SquashSet
               PROVE  AsSetUp(rpc'[p].options)
    OBVIOUS
  <2>1. /\ rpc[p].pc # "idle"
        /\ \/ rpc'[p].options = PublishOptions(policy[f], p[2])
           \/ rpc'[p].options = UnpublishOptions(policy[f], p[2])
    BY DEF RpcStep, PublishCall, PublishGet, UnpublishCall, UnpublishGet, Put, PutUnanswered,
           WaitActive, RpcFails, Enter, Continue, ReturnOK, Return, At, Idle, TypeOK
  <2>2. AsSetUp(policy[f])
    BY <1>6, <2>1 DEF SetupKept, AsSetUp
  <2> QED BY <1>0, <1>6, <2>1, <2>2, OptionsKeepSetup
<1>8. \/ UNCHANGED <<policy, pending>>
      \/ /\ rpc[p].pc = "put" /\ policy' = [policy EXCEPT ![f] = rpc[p].options]
         /\ pending' = pending \union {f}
  BY DEF RpcStep, PublishCall, PublishGet, UnpublishCall, UnpublishGet, Put, PutUnanswered,
         WaitActive, RpcFails, UpdatePolicy, backendVars
<1>9. \/ UNCHANGED late
      \/ rpc[p].pc = "put" /\ late' = late \union {<<f, rpc[p].options>>}
  BY DEF RpcStep, PublishCall, PublishGet, UnpublishCall, UnpublishGet, Put, PutUnanswered,
         WaitActive, RpcFails
<1>10. rpc[p].pc = "put" /\ SquashSet => AsSetUp(rpc[p].options)
  BY DEF PutsKeepSetup
<1>11. SetupFrame
  BY <1>2, <1>8, <1>10 DEF SetupFrame, TypeOK, BackendTypeOK
<1>12. SetupHandlers'
  BY <1>1, <1>2, <1>8, <1>10 DEF SetupHandlers, AsSetUp, SetupOptions, TypeOK, BackendTypeOK
<1>13. PutsKeepSetup'
  <2>1. \A q \in Pairs : rpc'[q].pc = "put" /\ SquashSet => AsSetUp(rpc'[q].options)
    BY <1>2, <1>7 DEF PutsKeepSetup
  <2>2. \A w \in late' : SquashSet => AsSetUp(w[2])
    BY <1>9, <1>10 DEF PutsKeepSetup
  <2>3. \A options : AsSetUp(options)' = AsSetUp(options)
    BY DEF AsSetUp, SetupOptions
  <2> QED BY <1>1, <2>1, <2>2, <2>3 DEF PutsKeepSetup
<1>14. ActiveIsEnforced'
  BY <1>2, <1>8 DEF ActiveIsEnforced, TypeOK, BackendTypeOK
<1> QED BY <1>5, <1>11, <1>12, <1>13, <1>14, SetupFrameKeeps

LEMMA CreateKeepsSetup ==
  ASSUME SetupInv, TypeOK', NEW f \in Filesystems, SetupStep(f)
  PROVE  SetupInv'
<1> USE DEF SetupInv
<1>0. policy[f] \in Policy /\ setup[f] \in Handler
  BY DEF TypeOK, BackendTypeOK
<1>1. /\ SquashSet' = SquashSet
      /\ \A q \in Pairs : Fs(q)' = Fs(q)
      /\ \A options : AsSetUp(options)' = AsSetUp(options)
  BY DEF SquashSet, Fs, AsSetUp, SetupOptions
<1>2. /\ UNCHANGED <<live, enforced, locks, rpc, va>>
      /\ \A g \in Filesystems : g # f => setup'[g] = setup[g] /\ policy'[g] = policy[g]
      /\ ready \subseteq ready' /\ ready' \subseteq ready \union {f}
      /\ \/ policy' = policy /\ pending' = pending
         \/ /\ setup[f].pc = "put" /\ policy'[f] = setup[f].options
            /\ pending' = pending \union {f}
  BY DEF SetupStep, SetupCall, SetupGet, SetupPut, SetupPutLate, SetupWaitActive, SetupFails,
         SetupGoto, SetupReturn, UpdatePolicy, backendVars, TypeOK, BackendTypeOK
<1>3. setup[f].pc = "put" => SquashSet /\ AsSetUp(setup[f].options)
  BY DEF SetupHandlers
<1>4. \/ setup'[f].pc = "idle" /\ (UNCHANGED ready \/ ~SquashSet)
      \/ /\ setup'[f].pc = "idle" /\ UNCHANGED policy
         /\ AsSetUp(policy[f]) /\ enforced[f] = policy[f]
      \/ setup'[f].pc = "get" /\ SquashSet /\ UNCHANGED ready
      \/ /\ setup'[f].pc = "put" /\ SquashSet /\ UNCHANGED <<ready, policy>>
         /\ AsSetUp(setup'[f].options)
      \/ setup'[f].pc = "wait" /\ SquashSet /\ UNCHANGED ready /\ AsSetUp(policy'[f])
  <2>1. CASE SetupCall(f)
    BY <1>0, <2>1 DEF SetupCall, SetupGoto, TypeOK
  <2>2. CASE SetupGet(f)
    <3>1. SquashSet
      BY <2>2 DEF SetupGet, SetupHandlers
    <3> QED BY <1>0, <2>2, <3>1, SetupSets DEF SetupGet, SetupGoto, TypeOK, AsSetUp, backendVars
  <2>3. CASE SetupPut(f)
    <3>1. policy'[f] = setup[f].options
      BY <2>3 DEF SetupPut, UpdatePolicy, TypeOK, BackendTypeOK
    <3> QED BY <1>3, <2>3, <3>1 DEF SetupPut, SetupGoto, SetupReturn, Idle, TypeOK
  <2>4. CASE SetupWaitActive(f)
    BY <2>4 DEF SetupWaitActive, SetupReturn, Idle, TypeOK, SetupHandlers, ActiveIsEnforced,
                PolicyActive, backendVars
  <2>5. CASE SetupPutLate(f) \/ SetupFails(f)
    BY <2>5 DEF SetupPutLate, SetupFails, SetupReturn, Idle, TypeOK
  <2> QED BY <2>1, <2>2, <2>3, <2>4, <2>5 DEF SetupStep
<1>5. \/ UNCHANGED late
      \/ setup[f].pc = "put" /\ late' = late \union {<<f, setup[f].options>>}
  BY DEF SetupStep, SetupCall, SetupGet, SetupPut, SetupPutLate, SetupWaitActive, SetupFails
<1>6. SetupFrame
  BY <1>2, <1>3, <1>4 DEF SetupFrame
<1>7. SetupHandlers'
  BY <1>1, <1>2, <1>4 DEF SetupHandlers
<1>8. PutsKeepSetup'
  <2>1. \A w \in late' : SquashSet => AsSetUp(w[2])
    BY <1>3, <1>5 DEF PutsKeepSetup
  <2> QED BY <1>1, <1>2, <2>1 DEF PutsKeepSetup
<1>9. ActiveIsEnforced'
  BY <1>2 DEF ActiveIsEnforced, TypeOK, BackendTypeOK
<1>10. HandlerMatchesAttachment' /\ AttachmentPhase'
  BY <1>1, <1>2 DEF HandlerMatchesAttachment, AttachmentPhase
<1> QED BY <1>6, <1>7, <1>8, <1>9, <1>10, SetupFrameKeeps

\* A PUT that is applied late, like those of the handlers, keeps CreateVolume's part.
LEMMA ServiceKeepsSetup ==
  ASSUME SetupInv, TypeOK',
         \/ \E f \in Filesystems : ServiceSettles(f) \/ FilesystemDeleted(f)
         \/ LateApply
  PROVE  SetupInv'
<1> USE DEF SetupInv
<1>1. /\ SquashSet' = SquashSet
      /\ \A q \in Pairs : Fs(q)' = Fs(q)
      /\ \A options : AsSetUp(options)' = AsSetUp(options)
  BY DEF SquashSet, Fs, AsSetUp, SetupOptions
<1>2. /\ UNCHANGED <<locks, rpc, va, setup, ready>>
      /\ late' \subseteq late
  BY DEF ServiceSettles, FilesystemDeleted, LateApply, handlerVars
<1>3. HandlerMatchesAttachment' /\ AttachmentPhase' /\ PutsKeepSetup'
  BY <1>1, <1>2 DEF HandlerMatchesAttachment, AttachmentPhase, PutsKeepSetup
<1>4. CASE \E f \in Filesystems : ServiceSettles(f) \/ FilesystemDeleted(f)
  <2>1. /\ UNCHANGED policy
        /\ \A f \in Filesystems : enforced'[f] = enforced[f] \/ enforced'[f] = policy[f]
    BY <1>4 DEF ServiceSettles, FilesystemDeleted, Settle, DeleteFilesystem, TypeOK, BackendTypeOK
  <2>2. ActiveIsEnforced'
    BY <1>4 DEF ServiceSettles, FilesystemDeleted, Settle, DeleteFilesystem, ActiveIsEnforced,
                TypeOK, BackendTypeOK
  <2>3. SetupFrame /\ SetupHandlers'
    BY <1>1, <1>2, <2>1 DEF SetupFrame, SetupHandlers
  <2> QED BY <1>3, <2>2, <2>3, SetupFrameKeeps
<1>5. CASE LateApply
  <2>1. PICK w \in late : UpdatePolicy(w[1], w[2])
    BY <1>5 DEF LateApply
  <2>2. SquashSet => AsSetUp(w[2])
    BY DEF PutsKeepSetup
  <2>3. /\ \A f \in Filesystems : policy'[f] = policy[f] \/ policy'[f] = w[2]
        /\ UNCHANGED <<live, enforced>>
        /\ \A f \in Filesystems \ pending' : f \notin pending /\ policy'[f] = policy[f]
    BY <2>1 DEF UpdatePolicy, TypeOK, BackendTypeOK
  <2>4. SetupFrame /\ SetupHandlers'
    BY <1>1, <1>2, <2>2, <2>3 DEF SetupFrame, SetupHandlers
  <2>5. ActiveIsEnforced'
    BY <2>3 DEF ActiveIsEnforced, TypeOK, BackendTypeOK
  <2> QED BY <1>3, <2>4, <2>5, SetupFrameKeeps
<1> QED BY <1>4, <1>5

\* A step that leaves the service alone and runs no handler on.
LEMMA QuietKeepsSetup ==
  ASSUME SetupInv, TypeOK', UNCHANGED <<policy, enforced, pending, ready, late>>,
    live' \subseteq live,
         \A f \in Filesystems : setup'[f] = setup[f] \/ setup'[f].pc = "idle",
         \A p \in Pairs : rpc'[p] = rpc[p] \/ rpc'[p].pc = "idle",
         \A p \in Pairs :
           \/ va'[p] = va[p]
           \/ /\ rpc'[p].pc = "idle"
              /\ va[p] # "detached" \/ (Mode = "node" /\ Fs(p) \in ready)
  PROVE  SetupInv'
<1> USE DEF SetupInv
<1>1. /\ SquashSet' = SquashSet
      /\ \A q \in Pairs : Fs(q)' = Fs(q)
      /\ \A options : AsSetUp(options)' = AsSetUp(options)
  BY DEF SquashSet, Fs, AsSetUp, SetupOptions
<1>2. HandlerMatchesAttachment' /\ AttachmentPhase'
  BY <1>1 DEF HandlerMatchesAttachment, AttachmentPhase
<1>3. SetupHandlers' /\ PutsKeepSetup'
  BY <1>1 DEF SetupHandlers, PutsKeepSetup
<1>4. ActiveIsEnforced' /\ SetupFrame
  BY DEF ActiveIsEnforced, SetupFrame
<1> QED BY <1>2, <1>3, <1>4, SetupFrameKeeps

LEMMA SetupInvStep == SetupInv /\ [Next]_vars => SetupInv'
<1> SUFFICES ASSUME SetupInv, [Next]_vars
             PROVE  SetupInv'
  OBVIOUS
<1>0. TypeOK'
  BY TypeInvStep DEF SetupInv, TypeInv, SetupOnlyIfSet, SetupHandlers
<1>1. ASSUME NEW p \in Pairs, WantAttached(p) \/ WantDetached(p)
      PROVE  SetupInv'
  <2>1. /\ UNCHANGED <<live, policy, enforced, pending, rpc, setup, ready, late>>
        /\ \A q \in Pairs : q # p => va'[q] = va[q]
        /\ rpc[p].pc = "idle"
        /\ va[p] # "detached" \/ (Mode = "node" /\ Fs(p) \in ready)
    BY <1>1 DEF WantAttached, WantDetached, backendVars, SetupInv, TypeOK, HandlerMatchesAttachment
  <2> QED BY <1>0, <2>1, QuietKeepsSetup
<1>2. ASSUME NEW p \in Pairs, RpcStep(p)
      PROVE  SetupInv'
  BY <1>0, <1>2, RpcKeepsSetup
<1>3. ASSUME NEW f \in Filesystems, SetupStep(f)
      PROVE  SetupInv'
  BY <1>0, <1>3, CreateKeepsSetup
<1>4. CASE \/ \E f \in Filesystems : ServiceSettles(f) \/ FilesystemDeleted(f)
           \/ LateApply
  BY <1>0, <1>4, ServiceKeepsSetup
<1>5. CASE Restart
  <2>1. /\ UNCHANGED <<live, policy, enforced, pending, va, ready, late>>
        /\ \A p \in Pairs : rpc'[p].pc = "idle"
        /\ \A f \in Filesystems : setup'[f].pc = "idle"
    BY <1>5 DEF Restart, backendVars, Idle
  <2> QED BY <1>0, <2>1, QuietKeepsSetup
<1>6. CASE UNCHANGED vars
  <2>1. UNCHANGED <<live, policy, enforced, pending, rpc, va, setup, ready, late>>
    BY <1>6 DEF vars, backendVars, handlerVars
  <2> QED BY <1>0, <2>1, QuietKeepsSetup
<1> QED BY <1>1, <1>2, <1>3, <1>4, <1>5, <1>6 DEF Next

LEMMA InitSetupInv == Init => SetupInv
<1> SUFFICES ASSUME Init
             PROVE  SetupInv
  OBVIOUS
<1>1. /\ TypeOK /\ ready = {} /\ late = {} /\ policy = enforced
      /\ \A p \in Pairs : rpc[p].pc = "idle" /\ va[p] = "detached"
      /\ \A f \in Filesystems : setup[f].pc = "idle"
  BY InitTypeOK DEF Init, BackendInit, Idle
<1> QED BY <1>1 DEF SetupInv, HandlerMatchesAttachment, AttachmentPhase, SetupHandlers,
                    PutsKeepSetup, ActiveIsEnforced, SetupKept, SetupEnforced

LEMMA SetupInvHolds == Spec => []SetupInv
<1> QED BY InitSetupInv, SetupInvStep, PTL DEF Spec

\* What setInitialSquashPolicy wrote survives every later update of the policy, by
\* whichever handler, in whichever order, and applied as late as it may be.
THEOREM SetupSurvives == Spec => []SetupKept
<1>1. SetupInv => SetupKept
  BY DEF SetupInv
<1> QED BY <1>1, SetupInvHolds, PTL

\* CreateVolume, which always waits for the policy status, returns only when the
\* squash policy is in force, and it stays in force.
THEOREM SetupInForce == Spec => []SetupEnforced
<1>1. SetupInv => SetupEnforced
  BY DEF SetupInv
<1> QED BY <1>1, SetupInvHolds, PTL

=============================================================================
