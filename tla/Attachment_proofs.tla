--------------------------- MODULE Attachment_proofs ---------------------------
(***************************************************************************)
(* AccessPolicy implements Attachment, for every number of volumes, nodes  *)
(* and filesystems: initial states map to initial states, and every step   *)
(* of a handler, of the service or of a restart maps to a step of the      *)
(* attachment service or to a stutter.                                     *)
(***************************************************************************)
EXTENDS AccessPolicy_proofs

\* What a step does to a policy: nothing, or a handler's own PUT.
LEMMA PolicyWriters ==
  ASSUME IInv, [Next]_vars, NEW f \in ready, policy'[f] # policy[f]
  PROVE  \E p \in Pairs :
           /\ Fs(p) = f /\ rpc[p].pc = "put" /\ policy'[f] = rpc[p].options
           /\ Put(p) \/ PutUnanswered(p)
<1>1. ASSUME NEW p \in Pairs, Put(p) \/ PutUnanswered(p)
      PROVE  Fs(p) = f /\ policy'[f] = rpc[p].options /\ rpc[p].pc = "put"
  BY <1>1, PairType DEF Put, PutUnanswered, UpdatePolicy, IInv, PolicyInv, TypeOK, BackendTypeOK
<1>2. ASSUME NEW p \in Pairs, RpcStep(p), ~Put(p), ~PutUnanswered(p) PROVE FALSE
  BY <1>2 DEF RpcStep, PublishCall, PublishGet, UnpublishCall, UnpublishGet, WaitActive,
              RpcFails, backendVars
<1>3. ASSUME NEW p \in Pairs, WantAttached(p) \/ WantDetached(p) PROVE FALSE
  BY <1>3 DEF WantAttached, WantDetached, backendVars
<1>4. ASSUME NEW g \in Filesystems, SetupStep(g) PROVE FALSE
  <2>1. CASE SetupPut(g)
    <3>1. g \notin ready /\ f \in Filesystems /\ policy \in [Filesystems -> Policy]
      BY <2>1 DEF SetupPut, IInv, PolicyInv, SetupPhase, TypeOK, BackendTypeOK
    <3> QED BY <2>1, <3>1 DEF SetupPut, UpdatePolicy
  <2>2. CASE ~SetupPut(g)
    BY <1>4, <2>2 DEF SetupStep, SetupCall, SetupGet, SetupPutLate, SetupWaitActive, SetupFails,
                      backendVars
  <2> QED BY <2>1, <2>2
<1>5. ASSUME NEW g \in Filesystems, ServiceSettles(g) \/ FilesystemDeleted(g) PROVE FALSE
  BY <1>5 DEF ServiceSettles, FilesystemDeleted, Settle, DeleteFilesystem
<1>6. ~LateApply /\ ~Restart /\ vars' # vars
  BY DEF LateApply, IInv, PolicyInv, Restart, vars, backendVars
<1> QED BY <1>1, <1>2, <1>3, <1>4, <1>5, <1>6 DEF Next

\* The PUT of a publish grants its own node and the PUT of an unpublish takes it
\* away; all the others stay.
LEMMA PutChangesOwnNode ==
  ASSUME IInv, NEW p \in Pairs, rpc[p].pc = "put"
  PROVE  /\ va[p] = "attaching" =>
              /\ rpc[p].options.acl = policy[Fs(p)].acl \union {p[2]}
              /\ rpc[p].options.enabled
         /\ va[p] = "detaching" =>
              /\ rpc[p].options.acl = policy[Fs(p)].acl \ {p[2]}
              /\ rpc[p].options.enabled = policy[Fs(p)].enabled
         /\ va[p] \in {"attaching", "detaching"}
<1>1. policy[Fs(p)] \in Policy /\ p[2] \in Nodes
  BY PairType DEF IInv, PolicyInv, TypeOK, BackendTypeOK
<1>2. \/ va[p] = "attaching" /\ rpc[p].options = PublishOptions(policy[Fs(p)], p[2])
      \/ va[p] = "detaching" /\ rpc[p].options = UnpublishOptions(policy[Fs(p)], p[2])
  BY DEF IInv, PolicyInv, HandlerMatchesAttachment, ReplacementIsCurrent
<1> QED BY <1>1, <1>2 DEF PublishOptions, UnpublishOptions

\* A full replacement never drags along a node of another handler.
THEOREM OnlyOwnNode == InjectiveHandles /\ ~LateWrites /\ Spec => OnlyOwnNodeChanges
<1> DEFINE OwnNode ==
      \A f \in ready, n \in Nodes :
        (n \in policy'[f].acl) # (n \in policy[f].acl) =>
          \E p \in Pairs :
            /\ Fs(p) = f /\ p[2] = n
            /\ va[p] = IF n \in policy'[f].acl THEN "attaching" ELSE "detaching"
<1>1. IInv /\ [Next]_vars => OwnNode
  <2> SUFFICES ASSUME IInv, [Next]_vars, NEW f \in ready, NEW n \in Nodes,
                      (n \in policy'[f].acl) # (n \in policy[f].acl)
               PROVE  \E p \in Pairs :
                        /\ Fs(p) = f /\ p[2] = n
                        /\ va[p] = IF n \in policy'[f].acl THEN "attaching" ELSE "detaching"
    OBVIOUS
  <2>1. PICK p \in Pairs : Fs(p) = f /\ rpc[p].pc = "put" /\ policy'[f] = rpc[p].options
    BY PolicyWriters
  <2> QED BY <2>1, PutChangesOwnNode
<1>2. IInv /\ [Next]_vars => [OwnNode]_vars
  BY <1>1
<1> QED BY <1>2, InvariantHolds, PTL DEF Spec, OnlyOwnNodeChanges

-----------------------------------------------------------------------------
(* The refinement.                                                          *)

\* Only an enabled policy lists nodes, so the PUT that enables a policy grants
\* nobody but its own node.
EnabledIfListed == \A f \in Filesystems : policy[f].acl # {} => policy[f].enabled

RInv == IInv /\ EnabledIfListed

\* The step that makes a filesystem ready writes no policy.
LEMMA PolicyOrReady == [Next]_vars => policy' = policy \/ ready' = ready
<1> SUFFICES ASSUME Next, policy' # policy PROVE ready' = ready
  BY DEF vars, backendVars
<1>1. ASSUME NEW p \in Pairs, WantAttached(p) \/ WantDetached(p) \/ RpcStep(p) PROVE ready' = ready
  BY <1>1 DEF WantAttached, WantDetached, RpcStep, PublishCall, PublishGet, UnpublishCall,
              UnpublishGet, Put, PutUnanswered, WaitActive, RpcFails
<1>2. ASSUME NEW f \in Filesystems, SetupStep(f) PROVE ready' = ready
  BY <1>2 DEF SetupStep, SetupCall, SetupGet, SetupPut, SetupPutLate, SetupWaitActive, SetupFails,
              backendVars
<1>3. ASSUME NEW f \in Filesystems, ServiceSettles(f) \/ FilesystemDeleted(f) PROVE ready' = ready
  BY <1>3 DEF ServiceSettles, FilesystemDeleted, handlerVars
<1>4. LateApply \/ Restart => ready' = ready
  BY DEF LateApply, Restart
<1> QED BY <1>1, <1>2, <1>3, <1>4 DEF Next

LEMMA EnabledStep == RInv /\ [Next]_vars => EnabledIfListed'
<1> SUFFICES ASSUME RInv, [Next]_vars, NEW f \in Filesystems, policy'[f].acl # {}
             PROVE  policy'[f].enabled
  BY DEF EnabledIfListed
<1>1. CASE policy'[f] = policy[f]
  BY <1>1 DEF RInv, EnabledIfListed
<1>2. CASE policy'[f] # policy[f] /\ f \in ready
  <2>1. PICK p \in Pairs : Fs(p) = f /\ rpc[p].pc = "put" /\ policy'[f] = rpc[p].options
    BY <1>2, PolicyWriters DEF RInv
  <2> QED BY <2>1, PutChangesOwnNode DEF RInv, EnabledIfListed
<1>3. CASE policy'[f] # policy[f] /\ f \notin ready
  <2>1. IInv' /\ f \notin ready'
    BY <1>3, IInvStep, PolicyOrReady DEF RInv
  <2> QED BY <2>1 DEF IInv, PolicyInv, SetupPhase
<1> QED BY <1>1, <1>2, <1>3

LEMMA RInvInit == InjectiveHandles /\ ~LateWrites /\ Init => RInv
<1>1. Init => EnabledIfListed
  BY DEF Init, BackendInit, NewPolicy, EnabledIfListed
<1> QED BY <1>1, InitIInv DEF RInv

LEMMA RInvStep == RInv /\ [Next]_vars => RInv'
BY EnabledStep, IInvStep DEF RInv

LEMMA GrantedMember ==
  ASSUME NEW p \in Pairs
  PROVE  p \in Granted <=> Fs(p) \in live /\ policy[Fs(p)].enabled /\ p[2] \in policy[Fs(p)].acl
BY DEF Granted, Authorised

\* The same of the next state.
LEMMA GrantedMemberNext ==
  ASSUME NEW p \in Pairs
  PROVE  p \in Granted' <=> Fs(p) \in live' /\ policy'[Fs(p)].enabled /\ p[2] \in policy'[Fs(p)].acl
BY DEF Granted, Authorised, Fs

\* What Granted says depends on the policies and on which filesystems exist.
LEMMA GrantedKept == UNCHANGED <<live, policy>> => Granted' = Granted
BY DEF Granted, Authorised, Fs

LEMMA InitRefines == Init => Abstract!Init
<1> SUFFICES ASSUME Init PROVE Abstract!Init
  OBVIOUS
<1>1. \A p \in Pairs : p \notin Granted
  BY GrantedMember, PairType DEF Init, BackendInit, NewPolicy
<1>2. Granted = {}
  BY <1>1 DEF Granted
<1> QED BY <1>2 DEF Init, Abstract!Init, Abstract!Pairs, Pairs

\* The answer of a handler.
LEMMA AnswerRefines ==
  ASSUME RInv, NEW p \in Pairs, ReturnOK(p), rpc[p].pc # "idle", UNCHANGED <<live, policy>>,
         IF rpc[p].op = "publish" THEN p \in Granted ELSE p \notin Granted
  PROVE  Abstract!Next
<1>1. Granted' = Granted
  BY GrantedKept
<1>2. CASE rpc[p].op = "publish"
  <2>1. va[p] = "attaching" /\ va' = [va EXCEPT ![p] = "attached"]
    BY <1>2 DEF ReturnOK, RInv, IInv, PolicyInv, HandlerMatchesAttachment
  <2>2. Abstract!ConfirmAttached(p)
    BY <1>1, <1>2, <2>1 DEF Abstract!ConfirmAttached, Abstract!Becomes
  <2> QED BY <2>2 DEF Abstract!Next, Abstract!Pairs, Pairs
<1>3. CASE rpc[p].op # "publish"
  <2>1. va[p] = "detaching" /\ va' = [va EXCEPT ![p] = "detached"]
    BY <1>3 DEF ReturnOK, RInv, IInv, PolicyInv, HandlerMatchesAttachment
  <2>2. Abstract!ConfirmDetached(p)
    BY <1>1, <1>3, <2>1 DEF Abstract!ConfirmDetached, Abstract!Becomes
  <2> QED BY <2>2 DEF Abstract!Next, Abstract!Pairs, Pairs
<1> QED BY <1>2, <1>3

\* The PUT of a handler.
LEMMA PutRefines ==
  ASSUME RInv, NEW p \in Pairs, rpc[p].pc = "put", UpdatePolicy(Fs(p), rpc[p].options),
         UNCHANGED va
  PROVE  Abstract!Next
<1>1. /\ policy'[Fs(p)] = rpc[p].options /\ live' = live /\ Fs(p) \in live
      /\ \A g \in Filesystems : g # Fs(p) => policy'[g] = policy[g]
      /\ p[2] \in Nodes
  BY PairType DEF UpdatePolicy, RInv, IInv, PolicyInv, TypeOK, BackendTypeOK
<1>2. \A q \in Pairs : q # p /\ Fs(q) = Fs(p) => q[2] # p[2]
  BY SamePair DEF RInv, IInv, PolicyInv
<1>3. CASE va[p] = "attaching"
  <2>1. \A q \in Pairs : q \in Granted' <=> q \in Granted \/ q = p
    <3> SUFFICES ASSUME NEW q \in Pairs PROVE q \in Granted' <=> q \in Granted \/ q = p
      OBVIOUS
    <3>1. CASE Fs(q) = Fs(p)
      BY <1>1, <1>2, <1>3, <3>1, PutChangesOwnNode, GrantedMember, GrantedMemberNext, PairType
      DEF RInv, EnabledIfListed
    <3>2. CASE Fs(q) # Fs(p)
      BY <1>1, <3>2, GrantedMember, GrantedMemberNext, PairType
    <3> QED BY <3>1, <3>2
  <2>2. Granted' = Granted \union {p}
    BY <2>1 DEF Granted
  <2>3. Abstract!Grant(p)
    BY <1>3, <2>2 DEF Abstract!Grant
  <2> QED BY <2>3 DEF Abstract!Next, Abstract!Pairs, Pairs
<1>4. CASE va[p] = "detaching"
  <2>1. \A q \in Pairs : q \in Granted' <=> q \in Granted /\ q # p
    <3> SUFFICES ASSUME NEW q \in Pairs PROVE q \in Granted' <=> q \in Granted /\ q # p
      OBVIOUS
    <3>1. CASE Fs(q) = Fs(p)
      BY <1>1, <1>2, <1>4, <3>1, PutChangesOwnNode, GrantedMember, GrantedMemberNext, PairType
      DEF RInv
    <3>2. CASE Fs(q) # Fs(p)
      BY <1>1, <3>2, GrantedMember, GrantedMemberNext, PairType
    <3> QED BY <3>1, <3>2
  <2>2. Granted' = Granted \ {p}
    BY <2>1 DEF Granted
  <2>3. Abstract!Revoke(p)
    BY <1>4, <2>2 DEF Abstract!Revoke
  <2> QED BY <2>3 DEF Abstract!Next, Abstract!Pairs, Pairs
<1> QED BY <1>3, <1>4, PutChangesOwnNode DEF RInv

\* A step that changes neither attachments nor grants.
LEMMA StutterRefines ==
  ASSUME UNCHANGED <<va, live, policy>>
  PROVE  UNCHANGED Abstract!vars
BY GrantedKept DEF Abstract!vars

LEMMA WantRefines ==
  ASSUME NEW p \in Pairs, WantAttached(p) \/ WantDetached(p)
  PROVE  Abstract!Next
<1>1. Granted' = Granted
  BY GrantedKept DEF WantAttached, WantDetached, backendVars
<1>2. Abstract!Want(p)
  BY <1>1 DEF WantAttached, WantDetached, Abstract!Want, Abstract!Becomes
<1> QED BY <1>2 DEF Abstract!Next, Abstract!Pairs, Pairs

LEMMA RpcRefines ==
  ASSUME RInv, NEW p \in Pairs, RpcStep(p)
  PROVE  Abstract!Next \/ UNCHANGED Abstract!vars
<1>1. CASE PublishCall(p) \/ UnpublishCall(p) \/ RpcFails(p)
  BY <1>1, StutterRefines DEF PublishCall, UnpublishCall, RpcFails, backendVars
<1>2. CASE PublishGet(p)
  <2>1. CASE ReturnOK(p) /\ Authorised(Fs(p), p[2])
    BY <1>2, <2>1, AnswerRefines, GrantedMember DEF PublishGet, At, Authorised, backendVars
  <2>2. CASE UNCHANGED va
    BY <1>2, <2>2, StutterRefines DEF PublishGet, backendVars
  <2> QED BY <1>2, <2>1, <2>2 DEF PublishGet
<1>3. CASE UnpublishGet(p)
  <2>1. CASE ReturnOK(p) /\ (Fs(p) \notin live \/ p[2] \notin policy[Fs(p)].acl)
    BY <1>3, <2>1, AnswerRefines, GrantedMember DEF UnpublishGet, At, backendVars
  <2>2. CASE UNCHANGED va
    BY <1>3, <2>2, StutterRefines DEF UnpublishGet, backendVars
  <2> QED BY <1>3, <2>1, <2>2 DEF UnpublishGet
<1>4. CASE Put(p) \/ PutUnanswered(p)
  BY <1>4, PutRefines DEF Put, PutUnanswered, RInv, IInv, PolicyInv
<1>5. CASE WaitActive(p)
  <2>1. Fs(p) \in live /\ UNCHANGED <<live, policy>> /\ ReturnOK(p) /\ rpc[p].pc = "wait"
    BY <1>5 DEF WaitActive, PolicyActive, backendVars
  <2>2. IF rpc[p].op = "publish" THEN p \in Granted ELSE p \notin Granted
    BY <2>1, GrantedMember DEF RInv, IInv, PolicyInv, WaitedForOwnUpdate, Authorised
  <2> QED BY <2>1, <2>2, AnswerRefines
<1> QED BY <1>1, <1>2, <1>3, <1>4, <1>5 DEF RpcStep

LEMMA SetupRefines ==
  ASSUME RInv, NEW f \in Filesystems, SetupStep(f)
  PROVE  UNCHANGED Abstract!vars
<1>1. CASE SetupPut(f)
  <2>1. /\ live' = live /\ va' = va /\ policy[f].acl = {} /\ policy'[f].acl = {}
        /\ \A g \in Filesystems : g # f => policy'[g] = policy[g]
    BY <1>1, SetupFields DEF SetupPut, UpdatePolicy, RInv, IInv, PolicyInv, SetupPhase, TypeOK,
      BackendTypeOK
  <2>2. \A q \in Pairs : q \in Granted' <=> q \in Granted
    BY <2>1, GrantedMember, GrantedMemberNext, PairType
  <2>3. Granted' = Granted
    BY <2>2 DEF Granted
  <2> QED BY <2>1, <2>3 DEF Abstract!vars
<1>2. CASE ~SetupPut(f)
  BY <1>2, StutterRefines DEF SetupStep, SetupCall, SetupGet, SetupPutLate, SetupWaitActive,
                              SetupFails, backendVars
<1> QED BY <1>1, <1>2

LEMMA DeletionRefines ==
  ASSUME RInv, NEW f \in Filesystems, FilesystemDeleted(f)
  PROVE  Abstract!Next \/ UNCHANGED Abstract!vars
<1>1. live' = live \ {f} /\ UNCHANGED <<policy, va>>
  BY DEF FilesystemDeleted, DeleteFilesystem, handlerVars
<1>2. \A q \in Pairs : q \in Granted' <=> q \in Granted /\ Fs(q) # f
  BY <1>1, GrantedMember, GrantedMemberNext
<1>3. CASE \E v \in VolumeIDs : FsOf[v] = f
  <2>1. PICK v \in VolumeIDs : FsOf[v] = f
    BY <1>3
  <2>2. \A q \in Pairs : Fs(q) = f <=> q[1] = v
    BY <2>1, PairType DEF RInv, IInv, PolicyInv, InjectiveHandles, Fs
  <2>3. Granted' = {q \in Granted : q[1] # v}
    BY <1>2, <2>2 DEF Granted
  <2>4. Abstract!Delete(v)
    BY <1>1, <2>3 DEF Abstract!Delete
  <2> QED BY <2>4 DEF Abstract!Next
<1>4. CASE ~ \E v \in VolumeIDs : FsOf[v] = f
  <2>1. \A q \in Pairs : Fs(q) # f
    BY <1>4, PairType DEF Fs
  <2>2. Granted' = Granted
    BY <1>2, <2>1 DEF Granted
  <2> QED BY <1>1, <2>2 DEF Abstract!vars
<1> QED BY <1>3, <1>4

LEMMA StepRefines == RInv /\ [Next]_vars => [Abstract!Next]_(Abstract!vars)
<1> SUFFICES ASSUME RInv, [Next]_vars PROVE Abstract!Next \/ UNCHANGED Abstract!vars
  OBVIOUS
<1>1. ASSUME NEW p \in Pairs, WantAttached(p) \/ WantDetached(p)
      PROVE  Abstract!Next
  BY <1>1, WantRefines
<1>2. ASSUME NEW p \in Pairs, RpcStep(p)
      PROVE  Abstract!Next \/ UNCHANGED Abstract!vars
  BY <1>2, RpcRefines
<1>3. ASSUME NEW f \in Filesystems, SetupStep(f)
      PROVE  UNCHANGED Abstract!vars
  BY <1>3, SetupRefines
<1>4. ASSUME NEW f \in Filesystems, ServiceSettles(f)
      PROVE  UNCHANGED Abstract!vars
  BY <1>4, StutterRefines DEF ServiceSettles, Settle, handlerVars
<1>5. ASSUME NEW f \in Filesystems, FilesystemDeleted(f)
      PROVE  Abstract!Next \/ UNCHANGED Abstract!vars
  BY <1>5, DeletionRefines
<1>6. CASE LateApply
  BY <1>6 DEF LateApply, RInv, IInv, PolicyInv
<1>7. CASE Restart
  BY <1>7, StutterRefines DEF Restart, backendVars
<1>8. CASE UNCHANGED vars
  BY <1>8, StutterRefines DEF vars, backendVars, handlerVars
<1> QED BY <1>1, <1>2, <1>3, <1>4, <1>5, <1>6, <1>7, <1>8 DEF Next

\* Publish and unpublish, with their locks, snapshots, full replacements,
\* failures, lost replies and restarts, implement the attachment service.
THEOREM Refinement == InjectiveHandles /\ ~LateWrites /\ Spec => ImplementsAttachment
<1>1. InjectiveHandles /\ ~LateWrites /\ Spec => []RInv
  BY RInvInit, RInvStep, PTL DEF Spec
<1> QED BY <1>1, InitRefines, StepRefines, PTL DEF Spec, ImplementsAttachment, Abstract!Spec

=============================================================================
