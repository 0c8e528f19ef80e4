---------------------- MODULE ControllerServer_proofs ----------------------
(***************************************************************************)
(* Proofs about ControllerServer: one operation at a time per volume, the  *)
(* refinement of AccessPolicy and what follows for the whole process, and  *)
(* the increase of an expansion.  All hold for late PUTs as well.          *)
(***************************************************************************)
EXTENDS ControllerServer, AccessPolicy_proofs

BusyRpc(p) == rpc[p].pc # "idle"
BusyCall(c) == expand[c].pc # "idle"

CTypeOK ==
  /\ rpc = [p \in Pairs |-> rpc[p]]
  /\ locks \subseteq VolumeIDs
  /\ wanted \in [VolumeIDs -> Ranges \union {Expand!NoRange}]
  /\ expand = [c \in Calls |-> expand[c]]
  /\ \A c \in Calls : BusyCall(c) => expand[c].volume \in VolumeIDs /\ expand[c].range \in Ranges

\* OneOperationPerVolume, spelt out for the two kinds of handlers.
Exclusion ==
  /\ \A p \in Pairs : BusyRpc(p) => p[1] \in locks
  /\ \A c \in Calls : BusyCall(c) => expand[c].volume \in locks
  /\ \A p, q \in Pairs : BusyRpc(p) /\ BusyRpc(q) /\ p[1] = q[1] => p = q
  /\ \A c, d \in Calls :
       BusyCall(c) /\ BusyCall(d) /\ expand[c].volume = expand[d].volume => c = d
  /\ \A p \in Pairs, c \in Calls : BusyRpc(p) /\ BusyCall(c) => p[1] # expand[c].volume
  /\ \A v \in locks : \/ \E p \in Pairs : BusyRpc(p) /\ p[1] = v
                      \/ \E c \in Calls : BusyCall(c) /\ expand[c].volume = v

CInv == CTypeOK /\ Exclusion

-----------------------------------------------------------------------------
(* What a step does to the locks and to the handlers that run.              *)

SameCalls ==
  \A c \in Calls : BusyCall(c)' = BusyCall(c) /\ expand'[c].volume = expand[c].volume

RpcEnters(p) ==
  /\ p[1] \notin locks /\ locks' = locks \union {p[1]}
  /\ ~BusyRpc(p) /\ BusyRpc(p)' /\ \A q \in Pairs \ {p} : rpc'[q] = rpc[q]
  /\ UNCHANGED expand

RpcContinues(p) ==
  /\ BusyRpc(p) /\ BusyRpc(p)' /\ \A q \in Pairs \ {p} : rpc'[q] = rpc[q]
  /\ UNCHANGED <<locks, expand>>

RpcReturns(p) ==
  /\ locks' = locks \ {p[1]}
  /\ BusyRpc(p) /\ ~BusyRpc(p)' /\ \A q \in Pairs \ {p} : rpc'[q] = rpc[q]
  /\ UNCHANGED expand

CallEnters(c) ==
  /\ expand'[c].volume \in VolumeIDs \ locks /\ locks' = locks \union {expand'[c].volume}
  /\ ~BusyCall(c) /\ BusyCall(c)' /\ \A d \in Calls \ {c} : expand'[d] = expand[d]
  /\ UNCHANGED rpc

CallReturns(c) ==
  /\ locks' = locks \ {expand[c].volume}
  /\ BusyCall(c) /\ ~BusyCall(c)' /\ \A d \in Calls \ {c} : expand'[d] = expand[d]
  /\ UNCHANGED rpc

Quiet == UNCHANGED <<locks, rpc>> /\ SameCalls

AllReturn == locks' = {} /\ (\A p \in Pairs : ~BusyRpc(p)') /\ (\A c \in Calls : ~BusyCall(c)')

Movement ==
  \/ \E p \in Pairs : RpcEnters(p) \/ RpcContinues(p) \/ RpcReturns(p)
  \/ \E c \in Calls : CallEnters(c) \/ CallReturns(c)
  \/ Quiet
  \/ AllReturn

LEMMA FreeCallIsFree ==
  ASSUME \E c \in Calls : expand[c] = Expand!IdleCall
  PROVE  Expand!FreeCall \in Calls /\ expand[Expand!FreeCall] = Expand!IdleCall
  BY Zenon DEF Expand!FreeCall

LEMMA RpcMoves ==
  ASSUME CTypeOK, NEW p \in Pairs, RpcStep(p), UNCHANGED expandVars
  PROVE  (RpcEnters(p) \/ RpcContinues(p) \/ RpcReturns(p)) /\ CTypeOK'
  <1>0. p[1] \in VolumeIDs
    BY DEF Pairs
  <1>1. CASE PublishCall(p) \/ UnpublishCall(p)
    BY <1>0, <1>1 DEF PublishCall, UnpublishCall, Enter, CanAcquire, Acquire, RpcEnters, CTypeOK,
       BusyRpc, BusyCall, Idle, expandVars
  <1>2. CASE PublishGet(p)
    <2>1. CASE ReturnOK(p)
      BY <1>0, <1>2, <2>1 DEF PublishGet, ReturnOK, Return, Release, At, RpcReturns, CTypeOK,
         BusyRpc, BusyCall, Idle, expandVars
    <2>2. CASE Continue(p, "put", PublishOptions(policy[Fs(p)], p[2]))
      BY <1>0, <1>2, <2>2 DEF PublishGet, Continue, At, RpcContinues, CTypeOK, BusyRpc, BusyCall,
         expandVars
    <2> QED BY <1>2, <2>1, <2>2 DEF PublishGet
  <1>3. CASE UnpublishGet(p)
    <2>1. CASE ReturnOK(p)
      BY <1>0, <1>3, <2>1 DEF UnpublishGet, ReturnOK, Return, Release, At, RpcReturns, CTypeOK,
         BusyRpc, BusyCall, Idle, expandVars
    <2>2. CASE Continue(p, "put", UnpublishOptions(policy[Fs(p)], p[2]))
      BY <1>0, <1>3, <2>2 DEF UnpublishGet, Continue, At, RpcContinues, CTypeOK, BusyRpc, BusyCall,
         expandVars
    <2> QED BY <1>3, <2>1, <2>2 DEF UnpublishGet
  <1>4. CASE Put(p)
    BY <1>0, <1>4 DEF Put, Continue, RpcContinues, CTypeOK, BusyRpc, BusyCall, expandVars
  <1>5. CASE PutUnanswered(p) \/ WaitActive(p) \/ RpcFails(p)
    BY <1>0, <1>5 DEF PutUnanswered, WaitActive, RpcFails, ReturnOK, Return, Release,
       RpcReturns, CTypeOK, BusyRpc, BusyCall, Idle, expandVars
  <1> QED BY <1>1, <1>2, <1>3, <1>4, <1>5 DEF RpcStep

LEMMA OtherPolicyStepsMove ==
  ASSUME CTypeOK, UNCHANGED expandVars,
         \/ \E p \in Pairs : WantAttached(p) \/ WantDetached(p)
         \/ \E f \in Filesystems : SetupStep(f) \/ ServiceSettles(f) \/ FilesystemDeleted(f)
         \/ LateApply
  PROVE  Quiet /\ CTypeOK'
  <1>1. UNCHANGED <<locks, rpc>>
    BY DEF WantAttached, WantDetached, SetupStep, SetupCall, SetupGet, SetupPut, SetupPutLate,
       SetupWaitActive, SetupFails, ServiceSettles, FilesystemDeleted, LateApply, handlerVars
  <1> QED BY <1>1 DEF Quiet, SameCalls, CTypeOK, BusyCall, expandVars

LEMMA CallMoves ==
  ASSUME CTypeOK, NEW c \in Calls, UNCHANGED rpc,
         \/ Expand!ExpandList(c) \/ Expand!ExpandPut(c) \/ Expand!ExpandAnswer(c)
         \/ Expand!ExpandPutLate(c) \/ Expand!ExpandFails(c)
  PROVE  (CallReturns(c) \/ Quiet) /\ CTypeOK'
  <1>1. BusyCall(c)
    BY DEF Expand!ExpandList, Expand!ExpandPut, Expand!ExpandAnswer, Expand!ExpandPutLate,
       Expand!ExpandFails, BusyCall
  <1>2. CASE Expand!ExpandAnswer(c) \/ Expand!ExpandPutLate(c) \/ Expand!ExpandFails(c)
    <2>1. Expand!ExpandReturn(c)
      BY <1>2 DEF Expand!ExpandAnswer, Expand!ExpandPutLate, Expand!ExpandFails
    <2>2. wanted' \in [VolumeIDs -> Ranges \union {Expand!NoRange}]
      BY <1>2 DEF Expand!ExpandAnswer, Expand!ExpandPutLate, Expand!ExpandFails, CTypeOK
    <2> QED
      BY <1>1, <2>1, <2>2 DEF Expand!ExpandReturn, Expand!Release, CallReturns, CTypeOK, BusyCall,
         Expand!IdleCall
  <1>3. CASE Expand!ExpandList(c) \/ Expand!ExpandPut(c)
    <2>1. PICK pc, size : pc \in {"put", "answer"} /\ Expand!ExpandGoto(c, pc, size)
      BY <1>3 DEF Expand!ExpandList, Expand!ExpandPut
    <2> QED
      BY <1>1, <2>1 DEF Expand!ExpandGoto, Quiet, SameCalls, CTypeOK, BusyCall
  <1> QED BY <1>2, <1>3

LEMMA ExpansionMoves ==
  ASSUME CTypeOK, ExpansionStep
  PROVE  ((\E c \in Calls : CallEnters(c) \/ CallReturns(c)) \/ Quiet) /\ CTypeOK'
  <1>0. UNCHANGED rpc
    BY DEF ExpansionStep
  <1>1. CASE \E v \in VolumeIDs : Expand!Resize(v)
    BY <1>0, <1>1 DEF Expand!Resize, Quiet, SameCalls, CTypeOK, BusyCall
  <1>2. ASSUME NEW v \in VolumeIDs, Expand!ExpandCall(v)
        PROVE  (\E c \in Calls : CallEnters(c)) /\ CTypeOK'
    <2>1. PICK c \in Calls : c = Expand!FreeCall /\ expand[c] = Expand!IdleCall
      BY <1>2, FreeCallIsFree DEF Expand!ExpandCall
    <2>2. wanted[v] \in Ranges
      BY <1>2 DEF Expand!ExpandCall, CTypeOK
    <2>3. /\ v \notin locks /\ locks' = locks \union {v} /\ UNCHANGED wanted
          /\ expand' = [expand EXCEPT ![c] =
                          [pc |-> "list", volume |-> v, range |-> wanted[v], size |-> 0,
                           overtaken |-> FALSE]]
      BY <1>2, <2>1 DEF Expand!ExpandCall, Expand!CanAcquire, Expand!Acquire
    <2>4. /\ expand[c].pc = "idle" /\ expand'[c].pc = "list"
          /\ expand'[c].volume = v /\ expand'[c].range = wanted[v]
          /\ \A d \in Calls \ {c} : expand'[d] = expand[d]
          /\ expand' = [d \in Calls |-> expand'[d]]
      <3>1. expand = [d \in Calls |-> expand[d]]
        BY DEF CTypeOK
      <3>2. expand[c].pc = "idle"
        BY <2>1 DEF Expand!IdleCall
      <3> QED BY <2>3, <3>1, <3>2
    <2>5. CallEnters(c)
      BY <1>0, <2>3, <2>4 DEF CallEnters, BusyCall
    <2>6. CTypeOK'
      BY <1>0, <2>2, <2>3, <2>4 DEF CTypeOK, BusyCall
    <2> QED BY <2>5, <2>6
  <1>3. ASSUME NEW c \in Calls,
               \/ Expand!ExpandList(c) \/ Expand!ExpandPut(c) \/ Expand!ExpandAnswer(c)
               \/ Expand!ExpandPutLate(c) \/ Expand!ExpandFails(c)
        PROVE  (CallReturns(c) \/ Quiet) /\ CTypeOK'
    BY <1>0, <1>3, CallMoves
  <1>4. CASE Expand!LateExpand
    <2>1. \A c \in Calls :
            /\ expand'[c].pc = expand[c].pc /\ expand'[c].volume = expand[c].volume
            /\ expand'[c].range = expand[c].range
      BY <1>4 DEF Expand!LateExpand, Expand!Overtaken, CTypeOK
    <2>2. expand' = [c \in Calls |-> expand'[c]]
      BY <1>4 DEF Expand!LateExpand, CTypeOK
    <2>3. UNCHANGED <<locks, wanted>>
      BY <1>4 DEF Expand!LateExpand
    <2> QED BY <1>0, <2>1, <2>2, <2>3 DEF Quiet, SameCalls, CTypeOK, BusyCall
  <1> QED BY <1>1, <1>2, <1>3, <1>4 DEF ExpansionStep, Expand!ExpandNext

LEMMA RestartMoves ==
  ASSUME CTypeOK, ControllerRestart
  PROVE  AllReturn /\ CTypeOK'
  BY DEF ControllerRestart, Restart, Expand!ExpandRestart, NoLocks, AllReturn, CTypeOK, BusyRpc,
     BusyCall, Idle, Expand!IdleCall

LEMMA StepsMove ==
  ASSUME CTypeOK, [ControllerNext]_controllerVars
  PROVE  Movement /\ CTypeOK'
  <1>1. CASE AccessPolicyStep
    <2>1. UNCHANGED expandVars
      BY <1>1 DEF AccessPolicyStep
    <2>2. CASE \E p \in Pairs : RpcStep(p)
      BY <2>1, <2>2, RpcMoves DEF Movement
    <2>3. CASE \/ \E p \in Pairs : WantAttached(p) \/ WantDetached(p)
               \/ \E f \in Filesystems : SetupStep(f) \/ ServiceSettles(f) \/ FilesystemDeleted(f)
               \/ LateApply
      BY <2>1, <2>3, OtherPolicyStepsMove DEF Movement
    <2> QED BY <1>1, <2>2, <2>3 DEF AccessPolicyStep
  <1>2. CASE ExpansionStep
    BY <1>2, ExpansionMoves DEF Movement
  <1>3. CASE ControllerRestart
    BY <1>3, RestartMoves DEF Movement
  <1>4. CASE UNCHANGED controllerVars
    BY <1>4 DEF controllerVars, vars, handlerVars, expandVars, Movement, Quiet, SameCalls, CTypeOK,
       BusyCall
  <1> QED BY <1>1, <1>2, <1>3, <1>4 DEF ControllerNext

LEMMA MovementKeepsExclusion ==
  ASSUME CTypeOK, CTypeOK', Exclusion, Movement
  PROVE  Exclusion'
  <1> USE DEF Exclusion, CTypeOK
  <1>1. CASE \E p \in Pairs : RpcEnters(p)
    BY <1>1 DEF RpcEnters, BusyRpc, BusyCall
  <1>2. CASE \E p \in Pairs : RpcContinues(p)
    BY <1>2 DEF RpcContinues, BusyRpc, BusyCall
  <1>3. CASE \E p \in Pairs : RpcReturns(p)
    BY <1>3 DEF RpcReturns, BusyRpc, BusyCall
  <1>4. CASE \E c \in Calls : CallEnters(c)
    BY <1>4 DEF CallEnters, BusyRpc, BusyCall
  <1>5. CASE \E c \in Calls : CallReturns(c)
    BY <1>5 DEF CallReturns, BusyRpc, BusyCall
  <1>6. CASE Quiet
    BY <1>6 DEF Quiet, SameCalls, BusyRpc, BusyCall
  <1>7. CASE AllReturn
    BY <1>7 DEF AllReturn, BusyRpc, BusyCall
  <1> QED BY <1>1, <1>2, <1>3, <1>4, <1>5, <1>6, <1>7 DEF Movement

LEMMA CInvInit == ControllerInit => CInv
  BY DEF ControllerInit, Init, NoLocks, Idle, Expand!ExpandInit, Expand!IdleCall, CInv, CTypeOK,
     Exclusion, BusyRpc, BusyCall

LEMMA CInvStep == CInv /\ [ControllerNext]_controllerVars => CInv'
  BY StepsMove, MovementKeepsExclusion DEF CInv

THEOREM CInvHolds == ControllerSpec => []CInv
  BY CInvInit, CInvStep, PTL DEF ControllerSpec

LEMMA ExclusionIsOne == Exclusion /\ CTypeOK => OneOperationPerVolume
  <1> SUFFICES ASSUME Exclusion, CTypeOK, NEW v \in VolumeIDs
      PROVE  /\ v \in locks <=> Running(v) # {}
             /\ \A o1, o2 \in Running(v) : o1 = o2
    BY DEF OneOperationPerVolume
  <1>1. \A o : o \in Running(v) <=>
          \/ \E p \in Pairs : o = <<"rpc", p>> /\ BusyRpc(p) /\ p[1] = v
          \/ \E c \in Calls : o = <<"expand", c>> /\ BusyCall(c) /\ expand[c].volume = v
    BY DEF Running, BusyRpc, BusyCall
  <1>2. v \in locks <=> Running(v) # {}
    <2>1. ASSUME NEW p \in Pairs, BusyRpc(p), p[1] = v
          PROVE  <<"rpc", p>> \in Running(v) /\ v \in locks
      BY <1>1, <2>1 DEF Exclusion
    <2>2. ASSUME NEW c \in Calls, BusyCall(c), expand[c].volume = v
          PROVE  <<"expand", c>> \in Running(v) /\ v \in locks
      BY <1>1, <2>2 DEF Exclusion
    <2>3. v \in locks => \/ \E p \in Pairs : BusyRpc(p) /\ p[1] = v
                         \/ \E c \in Calls : BusyCall(c) /\ expand[c].volume = v
      BY DEF Exclusion
    <2>4. v \in locks => Running(v) # {}
      BY <2>1, <2>2, <2>3
    <2>5. Running(v) # {} => v \in locks
      <3> SUFFICES ASSUME NEW o \in Running(v)  PROVE v \in locks
        OBVIOUS
      <3> QED BY <1>1, <2>1, <2>2
    <2> QED BY <2>4, <2>5
  <1>3. ASSUME NEW o1 \in Running(v), NEW o2 \in Running(v)
        PROVE  o1 = o2
    <2>1. ASSUME NEW p \in Pairs, NEW q \in Pairs, o1 = <<"rpc", p>>, o2 = <<"rpc", q>>,
                 BusyRpc(p), BusyRpc(q), p[1] = q[1]
          PROVE  o1 = o2
      BY <2>1 DEF Exclusion
    <2>2. ASSUME NEW c \in Calls, NEW d \in Calls, o1 = <<"expand", c>>, o2 = <<"expand", d>>,
                 BusyCall(c), BusyCall(d), expand[c].volume = expand[d].volume
          PROVE  o1 = o2
      BY <2>2 DEF Exclusion
    <2>3. \A p \in Pairs, c \in Calls : BusyRpc(p) /\ BusyCall(c) => p[1] # expand[c].volume
      BY DEF Exclusion
    <2> QED BY <1>1, <2>1, <2>2, <2>3
  <1> QED BY <1>2, <1>3

\* A publish, an unpublish and an expansion of one volume never run at the same
\* time, and the lock is held exactly as long as one of them runs.
THEOREM OneOperation == ControllerSpec => []OneOperationPerVolume
  BY CInvHolds, ExclusionIsOne, PTL DEF CInv

-----------------------------------------------------------------------------
(* The refinement of AccessPolicy.                                          *)

\* The locks of publishes and unpublishes, as a step moves them.
LEMMA RpcEntersPolicy ==
  ASSUME CInv, NEW p \in Pairs, RpcEnters(p)
  PROVE  p[1] \notin PolicyLocks /\ PolicyLocks' = PolicyLocks \union {p[1]}
  BY DEF CInv, Exclusion, RpcEnters, PolicyLocks, BusyCall

LEMMA RpcReturnsPolicy ==
  ASSUME CInv, NEW p \in Pairs, RpcReturns(p)
  PROVE  PolicyLocks' = PolicyLocks \ {p[1]}
  BY DEF CInv, Exclusion, RpcReturns, PolicyLocks, BusyCall

LEMMA OtherMovesPolicy ==
  ASSUME CInv,
         \/ \E p \in Pairs : RpcContinues(p)
         \/ \E c \in Calls : CallEnters(c) \/ CallReturns(c)
         \/ Quiet
  PROVE  UNCHANGED PolicyLocks
  <1>1. CASE \E p \in Pairs : RpcContinues(p)
    BY <1>1 DEF RpcContinues, PolicyLocks
  <1>2. CASE \E c \in Calls : CallEnters(c)
    BY <1>2 DEF CInv, CTypeOK, Exclusion, CallEnters, PolicyLocks, BusyCall
  <1>3. CASE \E c \in Calls : CallReturns(c)
    BY <1>3 DEF CInv, CTypeOK, Exclusion, CallReturns, PolicyLocks, BusyCall
  <1>4. CASE Quiet
    BY <1>4 DEF Quiet, SameCalls, PolicyLocks, BusyCall
  <1> QED BY <1>1, <1>2, <1>3, <1>4

LEMMA RpcRefinesPolicy ==
  ASSUME CInv, NEW p \in Pairs, RpcStep(p), UNCHANGED expandVars
  PROVE  Policies!RpcStep(p)
  <1>1. \/ RpcEnters(p) /\ p[1] \notin PolicyLocks /\ PolicyLocks' = PolicyLocks \union {p[1]}
        \/ RpcContinues(p) /\ PolicyLocks' = PolicyLocks
        \/ RpcReturns(p) /\ PolicyLocks' = PolicyLocks \ {p[1]}
    BY RpcMoves, RpcEntersPolicy, RpcReturnsPolicy, OtherMovesPolicy DEF CInv
  <1>2. CASE PublishCall(p) \/ UnpublishCall(p)
    <2>1. PolicyLocks' = PolicyLocks \union {p[1]} /\ p[1] \notin PolicyLocks
      BY <1>1, <1>2 DEF PublishCall, UnpublishCall, Enter, RpcContinues, RpcReturns, BusyRpc
    <2> QED
      BY <1>2, <2>1 DEF PublishCall, UnpublishCall, Enter, Policies!PublishCall,
         Policies!UnpublishCall, Policies!Enter, Policies!CanAcquire, Policies!Acquire,
         Policies!RpcStep, NewPolicy, Policies!NewPolicy, backendVars, Policies!backendVars
  <1>3. ASSUME ReturnOK(p) \/ Return(p), rpc[p].pc # "idle"
        PROVE  (ReturnOK(p) => Policies!ReturnOK(p)) /\ (Return(p) => Policies!Return(p))
    <2>1. PolicyLocks' = PolicyLocks \ {p[1]}
      BY <1>1, <1>3 DEF ReturnOK, Return, RpcEnters, RpcContinues, BusyRpc, CInv, CTypeOK, Idle
    <2> QED
      BY <2>1 DEF ReturnOK, Return, Policies!ReturnOK, Policies!Return, Policies!Release, Idle,
         Policies!Idle, NewPolicy, Policies!NewPolicy
  <1>4. ASSUME NEW pc, NEW options, Continue(p, pc, options), pc # "idle", rpc[p].pc # "idle"
        PROVE  Policies!Continue(p, pc, options)
    <2>1. PolicyLocks' = PolicyLocks
      BY <1>1, <1>4 DEF Continue, RpcEnters, RpcReturns, BusyRpc, CInv, CTypeOK
    <2> QED
      BY <1>4, <2>1 DEF Continue, Policies!Continue
  <1>5. CASE PublishGet(p)
    BY <1>3, <1>4, <1>5 DEF PublishGet, Policies!PublishGet, At, Policies!At, Fs, Policies!Fs,
       Authorised, Policies!Authorised, PublishOptions, Policies!PublishOptions, backendVars,
       Policies!backendVars, Policies!RpcStep
  <1>6. CASE UnpublishGet(p)
    BY <1>3, <1>4, <1>6 DEF UnpublishGet, Policies!UnpublishGet, At, Policies!At, Fs, Policies!Fs,
       UnpublishOptions, Policies!UnpublishOptions, backendVars, Policies!backendVars,
       Policies!RpcStep
  <1>7. CASE Put(p) \/ PutUnanswered(p)
    BY <1>3, <1>4, <1>7 DEF Put, Policies!Put, PutUnanswered, Policies!PutUnanswered, UpdatePolicy,
       Policies!UpdatePolicy, Fs, Policies!Fs, NewPolicy, Policies!NewPolicy, backendVars,
       Policies!backendVars, Policies!RpcStep
  <1>8. CASE WaitActive(p) \/ RpcFails(p)
    BY <1>3, <1>8 DEF WaitActive, Policies!WaitActive, RpcFails,
       Policies!RpcFails, PolicyActive, Policies!PolicyActive, Fs, Policies!Fs, backendVars,
       Policies!backendVars, Policies!RpcStep
  <1> QED BY <1>2, <1>5, <1>6, <1>7, <1>8 DEF RpcStep

LEMMA SetupRefinesPolicy ==
  ASSUME NEW f \in Filesystems, SetupStep(f), UNCHANGED PolicyLocks
  PROVE  Policies!SetupStep(f)
  <1> USE DEF SetupReturn, Policies!SetupReturn, SetupGoto, Policies!SetupGoto, Idle,
          Policies!Idle, NewPolicy, Policies!NewPolicy, backendVars, Policies!backendVars,
          Policies!SetupStep
  <1>1. CASE SetupCall(f)
    BY <1>1 DEF SetupCall, Policies!SetupCall, SquashSet, Policies!SquashSet
  <1>2. CASE SetupGet(f)
    BY <1>2 DEF SetupGet, Policies!SetupGet, SetupOptions, Policies!SetupOptions
  <1>3. CASE SetupPut(f) \/ SetupPutLate(f)
    BY <1>3 DEF SetupPut, Policies!SetupPut, SetupPutLate, Policies!SetupPutLate, UpdatePolicy,
       Policies!UpdatePolicy
  <1>4. CASE SetupWaitActive(f) \/ SetupFails(f)
    BY <1>4 DEF SetupWaitActive, Policies!SetupWaitActive, SetupFails, Policies!SetupFails,
       PolicyActive, Policies!PolicyActive
  <1> QED BY <1>1, <1>2, <1>3, <1>4 DEF SetupStep

LEMMA OthersRefinePolicy ==
  ASSUME UNCHANGED PolicyLocks,
         \/ \E p \in Pairs : WantAttached(p) \/ WantDetached(p)
         \/ \E f \in Filesystems : SetupStep(f) \/ ServiceSettles(f) \/ FilesystemDeleted(f)
         \/ LateApply
  PROVE  Policies!Next
  <1>1. CASE \E p \in Pairs : WantAttached(p) \/ WantDetached(p)
    BY <1>1 DEF WantAttached, Policies!WantAttached, WantDetached, Policies!WantDetached, Fs,
       Policies!Fs, Pairs, Policies!Pairs, backendVars, Policies!backendVars, Policies!Next
  <1>2. CASE \E f \in Filesystems : SetupStep(f)
    BY <1>2, SetupRefinesPolicy DEF Policies!Next
  <1>3. CASE \E f \in Filesystems : ServiceSettles(f) \/ FilesystemDeleted(f)
    BY <1>3 DEF ServiceSettles, Policies!ServiceSettles, FilesystemDeleted,
       Policies!FilesystemDeleted, Settle, Policies!Settle, DeleteFilesystem,
       Policies!DeleteFilesystem, handlerVars, Policies!handlerVars, Policies!Next
  <1>4. CASE LateApply
    BY <1>4 DEF LateApply, Policies!LateApply, UpdatePolicy, Policies!UpdatePolicy, Policies!Next
  <1> QED BY <1>1, <1>2, <1>3, <1>4

LEMMA StutterRefinesPolicy ==
  ASSUME UNCHANGED <<live, policy, enforced, pending, rpc, va, setup, ready, late, PolicyLocks>>
  PROVE  UNCHANGED Policies!vars
  BY DEF Policies!vars, Policies!backendVars, Policies!handlerVars

LEMMA ExpansionKeepsLive == ASSUME ExpansionStep PROVE UNCHANGED live
  BY DEF ExpansionStep, Expand!ExpandNext, Expand!Resize, Expand!ExpandCall, Expand!ExpandList,
     Expand!ExpandPut, Expand!ExpandAnswer, Expand!ExpandPutLate, Expand!ExpandFails,
     Expand!LateExpand

LEMMA StepRefinesPolicy ==
  ASSUME CInv, [ControllerNext]_controllerVars
  PROVE  [Policies!Next]_Policies!vars
  <1>1. CASE AccessPolicyStep
    <2>1. UNCHANGED expandVars
      BY <1>1 DEF AccessPolicyStep
    <2>2. CASE \E p \in Pairs : RpcStep(p)
      BY <2>1, <2>2, RpcRefinesPolicy DEF Policies!Next, Pairs, Policies!Pairs
    <2>3. CASE \/ \E p \in Pairs : WantAttached(p) \/ WantDetached(p)
               \/ \E f \in Filesystems : SetupStep(f) \/ ServiceSettles(f) \/ FilesystemDeleted(f)
               \/ LateApply
      <3>1. UNCHANGED PolicyLocks
        BY <2>1, <2>3, OtherPolicyStepsMove, OtherMovesPolicy DEF CInv
      <3> QED BY <2>3, <3>1, OthersRefinePolicy
    <2> QED BY <1>1, <2>2, <2>3 DEF AccessPolicyStep
  <1>2. CASE ExpansionStep
    <2>1. UNCHANGED PolicyLocks
      BY <1>2, ExpansionMoves, OtherMovesPolicy DEF CInv
    <2> QED BY <1>2, <2>1, ExpansionKeepsLive, StutterRefinesPolicy DEF ExpansionStep
  <1>3. CASE ControllerRestart
    <2>1. PolicyLocks' = {}
      BY <1>3 DEF ControllerRestart, Restart, NoLocks, PolicyLocks
    <2>2. Policies!Restart
      BY <1>3, <2>1 DEF ControllerRestart, Restart, Policies!Restart, Policies!NoLocks, Pairs,
         Policies!Pairs, Idle, Policies!Idle, NewPolicy, Policies!NewPolicy, backendVars,
         Policies!backendVars
    <2> QED BY <2>2 DEF Policies!Next
  <1>4. CASE UNCHANGED controllerVars
    <2>1. UNCHANGED PolicyLocks
      BY <1>4 DEF controllerVars, vars, handlerVars, expandVars, PolicyLocks
    <2> QED
      BY <1>4, <2>1, StutterRefinesPolicy DEF controllerVars, vars, handlerVars, backendVars
  <1> QED BY <1>1, <1>2, <1>3, <1>4 DEF ControllerNext

\* With expansions of the same volumes around them, under the same locks, the
\* other handlers behave as AccessPolicy says.
THEOREM RefinesAccessPolicy == ControllerSpec => ImplementsAccessPolicy
  <1>1. ControllerInit => Policies!Init
    BY DEF ControllerInit, Init, NoLocks, BackendInit, Idle, NewPolicy, Pairs, PolicyLocks,
       Policies!Init, Policies!NoLocks, Policies!BackendInit, Policies!Idle, Policies!NewPolicy,
       Policies!Pairs
  <1> QED
    BY <1>1, StepRefinesPolicy, CInvHolds, PTL DEF ControllerSpec, ImplementsAccessPolicy,
       Policies!Spec

-----------------------------------------------------------------------------
(* What is proved of AccessPolicy, for the whole process.                   *)

\* An expansion takes and releases locks, and leaves the policies alone.
LEMMA ExpansionFrame ==
  ASSUME CInv, CInv', ExpansionStep
  PROVE  /\ UNCHANGED <<live, policy, enforced, pending, rpc, va, setup, ready, late>>
         /\ TypeOK => TypeOK'
         /\ HandlersHoldLocks'
  <1>1. UNCHANGED <<live, policy, enforced, pending, rpc, va, setup, ready, late>>
    BY ExpansionKeepsLive DEF ExpansionStep
  <1>2. TypeOK => TypeOK'
    BY <1>1 DEF TypeOK, BackendTypeOK, CInv, CTypeOK
  <1>3. HandlersHoldLocks'
    BY DEF CInv, Exclusion, BusyRpc, HandlersHoldLocks
  <1> QED BY <1>1, <1>2, <1>3

LEMMA ProcessSetupStep ==
  ASSUME CInv, SetupInv, [ControllerNext]_controllerVars
  PROVE  SetupInv'
  <1>1. CASE AccessPolicyStep \/ ControllerRestart \/ UNCHANGED controllerVars
    BY <1>1, SetupInvStep DEF AccessPolicyStep, ControllerRestart, controllerVars, Next
  <1>2. CASE ExpansionStep
    <2>1. /\ UNCHANGED <<live, policy, enforced, pending, rpc, va, setup, ready, late>>
          /\ TypeOK'
      BY <1>2, CInvStep, ExpansionFrame DEF ControllerNext, SetupInv
    <2> QED BY <2>1, QuietKeepsSetup
  <1> QED BY <1>1, <1>2 DEF ControllerNext

LEMMA ProcessPolicyStep ==
  ASSUME CInv, PolicyInv, [ControllerNext]_controllerVars
  PROVE  PolicyInv'
  <1>1. CASE AccessPolicyStep \/ ControllerRestart \/ UNCHANGED controllerVars
    BY <1>1, PolicyInvStep DEF AccessPolicyStep, ControllerRestart, controllerVars, Next
  <1>2. CASE ExpansionStep
    <2>1. /\ UNCHANGED <<live, policy, enforced, pending, rpc, va, setup, ready, late>>
          /\ TypeOK' /\ HandlersHoldLocks'
      BY <1>2, CInvStep, ExpansionFrame DEF ControllerNext, PolicyInv
    <2>2. HandlerMatchesAttachment' /\ AttachmentPhase'
      BY <2>1 DEF PolicyInv, HandlerMatchesAttachment, AttachmentPhase, Fs
    <2>3. SetupPhase' /\ ActiveIsEnforced' /\ SetupKept' /\ SetupEnforced'
      BY <2>1 DEF PolicyInv, SetupPhase, ActiveIsEnforced, SetupKept, SetupEnforced,
         SetupOptions, SquashSet
    <2>4. ReplacementIsCurrent' /\ WaitedForOwnUpdate'
      BY <2>1 DEF PolicyInv, ReplacementIsCurrent, WaitedForOwnUpdate, Authorised, Fs,
         PublishOptions, UnpublishOptions
    <2>5. AttachedAuthorised' /\ DetachedRevoked'
      BY <2>1 DEF PolicyInv, AttachedAuthorised, DetachedRevoked, Authorised, Fs
    <2> QED BY <2>1, <2>2, <2>3, <2>4, <2>5 DEF PolicyInv, InjectiveHandles
  <1> QED BY <1>1, <1>2 DEF ControllerNext

LEMMA ProcessSetupInv == ControllerSpec => []SetupInv
  <1>1. ControllerInit => SetupInv
    BY InitSetupInv DEF ControllerInit
  <1>2. CInv /\ SetupInv /\ [ControllerNext]_controllerVars => SetupInv'
    BY ProcessSetupStep
  <1> QED BY <1>1, <1>2, CInvHolds, PTL DEF ControllerSpec

LEMMA ProcessPolicyInv == InjectiveHandles /\ ~LateWrites /\ ControllerSpec => []PolicyInv
  <1>1. InjectiveHandles /\ ~LateWrites /\ ControllerInit => PolicyInv
    BY InitPolicyInv DEF ControllerInit
  <1>2. CInv /\ PolicyInv /\ [ControllerNext]_controllerVars => PolicyInv'
    BY ProcessPolicyStep
  <1> QED BY <1>1, <1>2, CInvHolds, PTL DEF ControllerSpec

\* In the whole controller process, with expansions and PUTs that are applied late,
\* what setInitialSquashPolicy wrote survives every other handler.
THEOREM ProcessKeepsSetup == ControllerSpec => []SetupKept
  <1>1. SetupInv => SetupKept
    BY DEF SetupInv
  <1> QED BY <1>1, ProcessSetupInv, PTL

\* The squash policy is in force when CreateVolume returns, and from then on.
THEOREM ProcessEnforcesSetup == ControllerSpec => []SetupEnforced
  <1>1. SetupInv => SetupEnforced
    BY DEF SetupInv
  <1> QED BY <1>1, ProcessSetupInv, PTL

\* Expansions of the same volumes, under the same locks, take no node's access
\* away between its publish and its unpublish.
THEOREM ProcessPublishHolds ==
  InjectiveHandles /\ ~LateWrites /\ ControllerSpec => []AttachedAuthorised
  <1>1. PolicyInv => AttachedAuthorised
    BY DEF PolicyInv
  <1> QED BY <1>1, ProcessPolicyInv, PTL

\* Nor do they give it back after an unpublish.
THEOREM ProcessUnpublishHolds ==
  InjectiveHandles /\ ~LateWrites /\ ControllerSpec => []DetachedRevoked
  <1>1. PolicyInv => DetachedRevoked
    BY DEF PolicyInv
  <1> QED BY <1>1, ProcessPolicyInv, PTL

-----------------------------------------------------------------------------
(* The increase of an expansion.                                            *)

CallFs(c) == FsOf[expand[c].volume]

Growing(c) ==
  expand[c].pc = "put" /\ CallFs(c) \in live =>
    /\ capacity[CallFs(c)] \in Nat
    /\ ~expand[c].overtaken =>
         Expand!RequestedCapacity(expand[c].range) > capacity[CallFs(c)]

Answering(c) ==
  expand[c].pc = "answer" /\ CallFs(c) \in live =>
    /\ capacity[CallFs(c)] \in Nat
    /\ expand[c].size \in Nat
    /\ Expand!Satisfies(expand[c].size, expand[c].range)
    /\ capacity[CallFs(c)] >= expand[c].size
    /\ ~expand[c].overtaken => capacity[CallFs(c)] = expand[c].size

GInv ==
  /\ capacity \in [Filesystems -> Nat \union {NoQuota}]
  /\ lateExpands \subseteq Filesystems \X Nat
  /\ \A c \in Calls : Growing(c) /\ Answering(c)

LEMMA RequestedIsNat ==
  ASSUME NEW r \in Ranges
  PROVE  Expand!RequestedCapacity(r) \in Nat
  BY RangesAssumption DEF Expand!IsRange, Expand!RequestedCapacity

LEMMA GrowsIsMore ==
  ASSUME NEW r \in Ranges, NEW size \in Nat, Expand!Grows(size, r)
  PROVE  Expand!RequestedCapacity(r) > size
  BY RangesAssumption, RequestedIsNat DEF Expand!IsRange, Expand!Grows, Expand!NoOp

LEMMA RequestedSatisfies ==
  ASSUME NEW r \in Ranges
  PROVE  Expand!Satisfies(Expand!RequestedCapacity(r), r)
  BY RangesAssumption DEF Expand!IsRange, Expand!ValidRange, Expand!RequestedCapacity,
     Expand!Satisfies

\* Past its list, a call decides by what it saw.
Decided(c) == expand[c].pc \in {"put", "answer"}

\* A step that leaves the capacities alone, and a call either as it is or not
\* past its list.
LEMMA GrowingKept ==
  ASSUME GInv, UNCHANGED capacity, live' \subseteq live, lateExpands' \subseteq Filesystems \X Nat,
         \A c \in Calls : expand'[c] = expand[c] \/ ~Decided(c)'
  PROVE  GInv'
  BY DEF GInv, Growing, Answering, Decided, CallFs

LEMMA PutKeepsGrowing ==
  ASSUME InjectiveHandles, CInv, GInv, NEW c \in Calls, Expand!ExpandPut(c)
  PROVE  GInv'
  <1> DEFINE new == Expand!RequestedCapacity(expand[c].range)
  <1>1. /\ BusyCall(c) /\ expand[c].pc = "put" /\ expand[c].volume \in VolumeIDs
        /\ expand[c].range \in Ranges
    BY DEF Expand!ExpandPut, BusyCall, CInv, CTypeOK
  <1>2. new \in Nat /\ CallFs(c) \in Filesystems /\ Expand!Satisfies(new, expand[c].range)
    BY <1>1, RequestedIsNat, RequestedSatisfies, FsOfAssumption DEF CallFs
  <1>3. /\ capacity' = [capacity EXCEPT ![CallFs(c)] = new]
        /\ UNCHANGED <<live, lateExpands>>
        /\ expand' = [expand EXCEPT ![c] =
                        [pc |-> "answer", volume |-> expand[c].volume, range |-> expand[c].range,
                         size |-> new, overtaken |-> FALSE]]
    BY DEF Expand!ExpandPut, Expand!SetCapacity, Expand!ExpandGoto, CallFs
  <1> HIDE DEF new
  <1>4. /\ expand'[c].pc = "answer" /\ expand'[c].volume = expand[c].volume
        /\ expand'[c].range = expand[c].range /\ expand'[c].size = new
        /\ \A d \in Calls \ {c} : expand'[d] = expand[d]
    BY <1>3 DEF CInv, CTypeOK
  <1>5. capacity' \in [Filesystems -> Nat \union {NoQuota}] /\ capacity'[CallFs(c)] = new
    BY <1>2, <1>3 DEF GInv
  <1>6. ASSUME NEW d \in Calls  PROVE Growing(d)' /\ Answering(d)'
    <2>1. CASE d = c
      <3>1. new >= new
        BY <1>2
      <3> QED BY <1>2, <1>4, <1>5, <2>1, <3>1 DEF Growing, Answering, CallFs
    <2>2. CASE d # c /\ Decided(d)
      <3>1. BusyCall(d) /\ expand[d].volume \in VolumeIDs
        BY <2>2 DEF Decided, BusyCall, CInv, CTypeOK
      <3>2. expand[d].volume # expand[c].volume
        BY <1>1, <2>2, <3>1 DEF CInv, Exclusion
      <3>3. CallFs(d) # CallFs(c)
        BY <1>1, <3>1, <3>2 DEF InjectiveHandles, CallFs
      <3>4. expand'[d] = expand[d] /\ capacity'[CallFs(d)] = capacity[CallFs(d)]
        BY <1>3, <1>4, <2>2, <3>3 DEF GInv
      <3> QED BY <1>3, <3>4 DEF GInv, Growing, Answering, CallFs
    <2>3. CASE d # c /\ ~Decided(d)
      BY <1>4, <2>3 DEF Decided, Growing, Answering
    <2> QED BY <2>1, <2>2, <2>3
  <1> QED BY <1>3, <1>5, <1>6 DEF GInv

LEMMA ListKeepsGrowing ==
  ASSUME CInv, GInv, NEW c \in Calls, Expand!ExpandList(c)
  PROVE  GInv'
  <1> DEFINE old == capacity[CallFs(c)]
  <1>1. UNCHANGED <<live, capacity, lateExpands>> /\ CallFs(c) \in live
    BY DEF Expand!ExpandList, CallFs
  <1>2. expand[c].range \in Ranges /\ CallFs(c) \in Filesystems
    BY FsOfAssumption DEF Expand!ExpandList, CallFs, BusyCall, CInv, CTypeOK
  <1>3. old \in Nat
    BY <1>2 DEF Expand!ExpandList, CallFs, GInv
  <1>4. PICK pc, size :
          /\ pc \in {"put", "answer"}
          /\ pc = "put" => Expand!Grows(old, expand[c].range)
          /\ pc = "answer" => Expand!NoOp(old, expand[c].range) /\ size = old
          /\ expand' = [expand EXCEPT ![c] =
                          [pc |-> pc, volume |-> expand[c].volume, range |-> expand[c].range,
                           size |-> size, overtaken |-> FALSE]]
    BY DEF Expand!ExpandList, Expand!ExpandGoto, CallFs
  <1>5. /\ expand'[c].volume = expand[c].volume /\ expand'[c].range = expand[c].range
        /\ expand'[c].pc = pc /\ expand'[c].size = size
        /\ \A d \in Calls \ {c} : expand'[d] = expand[d]
    BY <1>4 DEF CInv, CTypeOK
  <1>6. pc = "put" => Expand!RequestedCapacity(expand[c].range) > old
    BY <1>2, <1>3, <1>4, GrowsIsMore
  <1>7. pc = "answer" => size = old /\ Expand!Satisfies(old, expand[c].range)
    BY <1>2, <1>4, RequestedSatisfies DEF Expand!NoOp
  <1>8. old >= old
    BY <1>3
  <1>9. ASSUME NEW d \in Calls  PROVE Growing(d)' /\ Answering(d)'
    <2>1. CASE d = c
      BY <1>1, <1>3, <1>5, <1>6, <1>7, <1>8, <2>1 DEF Growing, Answering, CallFs
    <2>2. CASE d # c
      BY <1>1, <1>5, <2>2 DEF GInv, Growing, Answering, CallFs
    <2> QED BY <2>1, <2>2
  <1> QED BY <1>1, <1>9 DEF GInv

LEMMA LateKeepsGrowing ==
  ASSUME CInv, GInv, Expand!LateExpand
  PROVE  GInv'
  <1>1. PICK w \in lateExpands :
          /\ \/ UNCHANGED <<capacity, expand>>
             \/ /\ Expand!SetCapacity(w[1], w[2])
                /\ expand' = [c \in Calls |->
                                IF Expand!Overtakes(w[1], c) THEN Expand!Overtaken(c)
                                ELSE expand[c]]
          /\ lateExpands' = lateExpands \ {w}
    BY DEF Expand!LateExpand
  <1>2. UNCHANGED live /\ lateExpands' \subseteq Filesystems \X Nat
    BY <1>1 DEF Expand!LateExpand, GInv
  <1>3. CASE UNCHANGED <<capacity, expand>>
    BY <1>2, <1>3, GrowingKept
  <1>4. CASE Expand!SetCapacity(w[1], w[2]) /\ ~UNCHANGED <<capacity, expand>>
    <2>1. /\ w[1] \in Filesystems /\ w[2] \in Nat /\ capacity' = [capacity EXCEPT ![w[1]] = w[2]]
          /\ w[2] >= capacity[w[1]]
      BY <1>1, <1>4 DEF Expand!SetCapacity, GInv
    <2>2. capacity' \in [Filesystems -> Nat \union {NoQuota}] /\ capacity'[w[1]] = w[2]
      BY <2>1 DEF GInv
    <2>3. ASSUME NEW c \in Calls  PROVE Growing(c)' /\ Answering(c)'
      <3>1. CASE Expand!Overtakes(w[1], c)
        <4>1. /\ expand'[c] = Expand!Overtaken(c) /\ CallFs(c) = w[1]
              /\ expand[c].pc \in {"put", "answer"}
          BY <1>1, <1>4, <3>1 DEF Expand!Overtakes, CallFs
        <4>2. /\ expand'[c].pc = expand[c].pc /\ expand'[c].volume = expand[c].volume
              /\ expand'[c].range = expand[c].range /\ expand'[c].size = expand[c].size
              /\ expand'[c].overtaken
          BY <4>1 DEF Expand!Overtaken
        <4>3. CASE expand[c].pc = "put"
          BY <2>1, <2>2, <4>1, <4>2, <4>3 DEF Growing, Answering, CallFs
        <4>4. CASE expand[c].pc = "answer"
          <5>1. CallFs(c) \in live =>
                  /\ capacity[w[1]] \in Nat /\ expand[c].size \in Nat
                  /\ Expand!Satisfies(expand[c].size, expand[c].range)
                  /\ capacity[w[1]] >= expand[c].size
            BY <4>1, <4>4 DEF GInv, Answering
          <5>2. CallFs(c) \in live => w[2] >= expand[c].size
            BY <2>1, <5>1
          <5> QED BY <1>2, <2>1, <2>2, <4>1, <4>2, <4>4, <5>1, <5>2 DEF Growing, Answering, CallFs
        <4> QED BY <4>1, <4>3, <4>4
      <3>2. CASE ~Expand!Overtakes(w[1], c)
        <4>1. expand'[c] = expand[c]
          BY <1>1, <1>4, <3>2
        <4>2. Decided(c) => CallFs(c) # w[1]
          BY <3>2 DEF Expand!Overtakes, Decided, CallFs
        <4>3. Decided(c) => capacity'[CallFs(c)] = capacity[CallFs(c)]
          BY <2>1, <4>2 DEF GInv
        <4> QED BY <1>2, <4>1, <4>3 DEF GInv, Growing, Answering, Decided, CallFs
      <3> QED BY <3>1, <3>2
    <2> QED BY <1>2, <2>2, <2>3 DEF GInv
  <1> QED BY <1>1, <1>3, <1>4

LEMMA GInvStep ==
  ASSUME InjectiveHandles, CInv, GInv, [ControllerNext]_controllerVars
  PROVE  GInv'
  <1>1. CASE AccessPolicyStep \/ UNCHANGED controllerVars
    <2>1. UNCHANGED expandVars /\ live' \subseteq live
      BY <1>1 DEF AccessPolicyStep, WantAttached, WantDetached, RpcStep, PublishCall, PublishGet,
         UnpublishCall, UnpublishGet, Put, PutUnanswered, WaitActive, RpcFails, SetupStep,
         SetupCall, SetupGet, SetupPut, SetupPutLate, SetupWaitActive, SetupFails, ServiceSettles,
         Settle, FilesystemDeleted, DeleteFilesystem, LateApply, UpdatePolicy, backendVars,
         controllerVars, vars
    <2> QED BY <2>1, GrowingKept DEF expandVars, GInv
  <1>2. CASE \E v \in VolumeIDs : Expand!Resize(v)
    BY <1>2, GrowingKept DEF Expand!Resize, GInv
  <1>3. ASSUME NEW v \in VolumeIDs, Expand!ExpandCall(v)
        PROVE  GInv'
    <2>1. PICK c \in Calls : c = Expand!FreeCall
      BY <1>3, FreeCallIsFree DEF Expand!ExpandCall
    <2>2. expand' = [expand EXCEPT ![c] =
                      [pc |-> "list", volume |-> v, range |-> wanted[v], size |-> 0,
                       overtaken |-> FALSE]]
      BY <1>3, <2>1 DEF Expand!ExpandCall
    <2>3. \A d \in Calls : expand'[d] = expand[d] \/ ~Decided(d)'
      BY <2>2 DEF CInv, CTypeOK, Decided
    <2> QED BY <1>3, <2>3, GrowingKept DEF Expand!ExpandCall, GInv
  <1>4. CASE \E c \in Calls : Expand!ExpandList(c)
    BY <1>4, ListKeepsGrowing
  <1>5. CASE \E c \in Calls : Expand!ExpandPut(c)
    BY <1>5, PutKeepsGrowing
  <1>6. ASSUME NEW c \in Calls,
               Expand!ExpandAnswer(c) \/ Expand!ExpandPutLate(c) \/ Expand!ExpandFails(c)
        PROVE  GInv'
    <2>1. \A d \in Calls : expand'[d] = expand[d] \/ ~Decided(d)'
      BY <1>6 DEF Expand!ExpandAnswer, Expand!ExpandPutLate, Expand!ExpandFails,
         Expand!ExpandReturn, Expand!IdleCall, CInv, CTypeOK, Decided
    <2>2. UNCHANGED <<live, capacity>>
      BY <1>6 DEF Expand!ExpandAnswer, Expand!ExpandPutLate, Expand!ExpandFails
    <2>3. CASE Expand!ExpandPutLate(c)
      <3>1. expand[c].range \in Ranges /\ CallFs(c) \in Filesystems
        BY <2>3, FsOfAssumption DEF Expand!ExpandPutLate, CallFs, BusyCall, CInv, CTypeOK
      <3>2. lateExpands' \subseteq Filesystems \X Nat
        BY <2>3, <3>1, RequestedIsNat DEF Expand!ExpandPutLate, CallFs, GInv
      <3> QED BY <2>1, <2>2, <3>2, GrowingKept
    <2>4. CASE Expand!ExpandAnswer(c) \/ Expand!ExpandFails(c)
      BY <2>1, <2>2, <2>4, GrowingKept DEF Expand!ExpandAnswer, Expand!ExpandFails, GInv
    <2> QED BY <1>6, <2>3, <2>4
  <1>7. CASE Expand!LateExpand
    BY <1>7, LateKeepsGrowing
  <1>8. CASE ControllerRestart
    BY <1>8, GrowingKept DEF ControllerRestart, Restart, backendVars, Expand!ExpandRestart,
       Expand!IdleCall, GInv, Decided
  <1> QED
    BY <1>1, <1>2, <1>3, <1>4, <1>5, <1>6, <1>7, <1>8 DEF ControllerNext, ExpansionStep,
       Expand!ExpandNext

LEMMA GInvHolds == InjectiveHandles /\ ControllerSpec => [](InjectiveHandles /\ GInv)
  <1> DEFINE I == InjectiveHandles /\ GInv
  <1>1. InjectiveHandles /\ ControllerInit => I
    <2> SUFFICES ASSUME ControllerInit  PROVE GInv
      OBVIOUS
    <2>1. capacity \in [Filesystems -> Nat \union {NoQuota}]
      BY NewCapacitiesAssumption DEF ControllerInit, Expand!ExpandInit
    <2>2. lateExpands = {} /\ \A c \in Calls : expand[c].pc = "idle"
      BY DEF ControllerInit, Expand!ExpandInit, Expand!IdleCall
    <2> QED BY <2>1, <2>2 DEF GInv, Growing, Answering
  <1>2. CInv /\ I /\ [ControllerNext]_controllerVars => I'
    BY GInvStep DEF InjectiveHandles
  <1> QED BY <1>1, <1>2, CInvHolds, PTL DEF ControllerSpec

\* The PUT of an expansion still is an increase when it is sent, unless a late
\* one overtook it.
THEOREM ExpansionGrows == InjectiveHandles /\ ControllerSpec => []PutGrows
  <1>1. GInv => PutGrows
    BY DEF GInv, Growing, CallFs, PutGrows, Expand!PutGrows
  <1> QED BY <1>1, GInvHolds, PTL

\* The capacity an expansion answers is in the range and the filesystem's own,
\* which a late PUT may have raised, and nothing else.
THEOREM AnswersInRange == InjectiveHandles /\ ControllerSpec => []AnsweredInRange
  <1>1. GInv => AnsweredInRange
    BY DEF GInv, Answering, CallFs, AnsweredInRange, Expand!AnsweredInRange
  <1> QED BY <1>1, GInvHolds, PTL

-----------------------------------------------------------------------------
(* The types of Expansion.                                                  *)

OkCall(x) ==
  \/ x = Expand!IdleCall
  \/ x \in [pc : {"list", "put", "answer"}, volume : VolumeIDs, range : Ranges, size : Nat,
            overtaken : BOOLEAN]

\* The handlers, when one of them changes.
LEMMA CallsKept ==
  ASSUME CTypeOK, \A c \in Calls : OkCall(expand[c]),
         NEW c \in Calls, NEW x, OkCall(x), expand' = [expand EXCEPT ![c] = x]
  PROVE  \A d \in Calls : OkCall(expand'[d])
  BY DEF CTypeOK

LEMMA TypesKept ==
  ASSUME CInv, Expand!ExpandTypeOK, [ControllerNext]_controllerVars
  PROVE  Expand!ExpandTypeOK'
  <1>1. CTypeOK /\ wanted' \in [VolumeIDs -> Ranges \union {Expand!NoRange}]
    BY CInvStep DEF CInv, CTypeOK
  <1>2. \A c \in Calls : OkCall(expand[c])
    BY DEF Expand!ExpandTypeOK, OkCall
  <1>3. SUFFICES /\ capacity' \in [Filesystems -> Nat \union {NoQuota}]
                 /\ \A c \in Calls : OkCall(expand'[c])
                 /\ lateExpands' \subseteq Filesystems \X Nat
    BY <1>1 DEF Expand!ExpandTypeOK, OkCall
  <1>4. OkCall(Expand!IdleCall)
    BY DEF OkCall
  <1>5. ASSUME NEW c \in Calls, BusyCall(c)
        PROVE  /\ expand[c].volume \in VolumeIDs /\ expand[c].range \in Ranges
               /\ CallFs(c) \in Filesystems
               /\ Expand!RequestedCapacity(expand[c].range) \in Nat
    BY <1>1, <1>5, FsOfAssumption, RequestedIsNat DEF CTypeOK, CallFs
  <1>6. CASE AccessPolicyStep \/ UNCHANGED controllerVars \/ \E v \in VolumeIDs : Expand!Resize(v)
    BY <1>2, <1>6 DEF AccessPolicyStep, controllerVars, expandVars, Expand!Resize,
       Expand!ExpandTypeOK
  <1>7. ASSUME NEW v \in VolumeIDs, Expand!ExpandCall(v)
        PROVE  /\ UNCHANGED <<capacity, lateExpands>>
               /\ \A c \in Calls : OkCall(expand'[c])
    <2> DEFINE x == [pc |-> "list", volume |-> v, range |-> wanted[v], size |-> 0,
                     overtaken |-> FALSE]
    <2>1. PICK c \in Calls : c = Expand!FreeCall
      BY <1>7, FreeCallIsFree DEF Expand!ExpandCall
    <2>2. wanted[v] \in Ranges
      BY <1>1, <1>7 DEF Expand!ExpandCall, CTypeOK
    <2>3. OkCall(x)
      BY <2>2 DEF OkCall
    <2>4. expand' = [expand EXCEPT ![c] = x] /\ UNCHANGED <<capacity, lateExpands>>
      BY <1>7, <2>1 DEF Expand!ExpandCall
    <2> HIDE DEF x
    <2> QED BY <1>1, <1>2, <2>3, <2>4, CallsKept
  <1>8. ASSUME NEW c \in Calls,
               \/ Expand!ExpandList(c) \/ Expand!ExpandPut(c) \/ Expand!ExpandAnswer(c)
               \/ Expand!ExpandPutLate(c) \/ Expand!ExpandFails(c)
        PROVE  /\ capacity' \in [Filesystems -> Nat \union {NoQuota}]
               /\ \A d \in Calls : OkCall(expand'[d])
               /\ lateExpands' \subseteq Filesystems \X Nat
    <2>1. BusyCall(c)
      BY <1>8 DEF Expand!ExpandList, Expand!ExpandPut, Expand!ExpandAnswer, Expand!ExpandPutLate,
         Expand!ExpandFails, BusyCall
    <2>2. \A d \in Calls : OkCall(expand'[d])
      <3>1. CASE expand' = [expand EXCEPT ![c] = Expand!IdleCall]
        BY <1>1, <1>2, <1>4, <3>1, CallsKept
      <3>2. ASSUME NEW pc \in {"put", "answer"}, NEW size \in Nat, Expand!ExpandGoto(c, pc, size)
            PROVE  \A d \in Calls : OkCall(expand'[d])
        <4> DEFINE x == [pc |-> pc, volume |-> expand[c].volume, range |-> expand[c].range,
                         size |-> size, overtaken |-> FALSE]
        <4>1. OkCall(x)
          BY <1>5, <2>1 DEF OkCall
        <4>2. expand' = [expand EXCEPT ![c] = x]
          BY <3>2 DEF Expand!ExpandGoto
        <4> HIDE DEF x
        <4> QED BY <1>1, <1>2, <4>1, <4>2, CallsKept
      <3>3. CASE Expand!ExpandList(c)
        <4>1. capacity[CallFs(c)] \in Nat
          BY <1>5, <2>1, <3>3 DEF Expand!ExpandList, Expand!ExpandTypeOK, CallFs
        <4> QED BY <3>2, <3>3, <4>1 DEF Expand!ExpandList, CallFs
      <3>4. CASE Expand!ExpandPut(c)
        BY <1>5, <2>1, <3>2, <3>4 DEF Expand!ExpandPut
      <3> QED
        BY <1>8, <3>1, <3>3, <3>4 DEF Expand!ExpandAnswer, Expand!ExpandPutLate,
           Expand!ExpandFails, Expand!ExpandReturn
    <2>3. CASE Expand!ExpandPut(c)
      BY <1>5, <2>1, <2>2, <2>3 DEF Expand!ExpandPut, Expand!SetCapacity, Expand!ExpandTypeOK,
         CallFs
    <2>4. CASE Expand!ExpandPutLate(c)
      BY <1>5, <2>1, <2>2, <2>4 DEF Expand!ExpandPutLate, Expand!ExpandTypeOK, CallFs
    <2>5. CASE Expand!ExpandList(c) \/ Expand!ExpandAnswer(c) \/ Expand!ExpandFails(c)
      BY <2>2, <2>5 DEF Expand!ExpandList, Expand!ExpandAnswer, Expand!ExpandFails,
         Expand!ExpandTypeOK
    <2> QED BY <1>8, <2>3, <2>4, <2>5
  <1>9. CASE Expand!LateExpand
    <2>1. PICK w \in lateExpands :
            /\ \/ UNCHANGED <<capacity, expand>>
               \/ /\ Expand!SetCapacity(w[1], w[2])
                  /\ expand' = [c \in Calls |->
                                  IF Expand!Overtakes(w[1], c) THEN Expand!Overtaken(c)
                                  ELSE expand[c]]
            /\ lateExpands' = lateExpands \ {w}
      BY <1>9 DEF Expand!LateExpand
    <2>2. w[1] \in Filesystems /\ w[2] \in Nat
      BY <2>1 DEF Expand!ExpandTypeOK
    <2>3. capacity' \in [Filesystems -> Nat \union {NoQuota}]
      BY <2>1, <2>2 DEF Expand!SetCapacity, Expand!ExpandTypeOK
    <2>4. ASSUME NEW c \in Calls  PROVE OkCall(expand'[c])
      <3>1. CASE expand'[c] = expand[c]
        BY <1>2, <3>1
      <3>2. CASE expand'[c] # expand[c]
        <4>1. expand[c].pc \in {"put", "answer"} /\ expand'[c] = Expand!Overtaken(c)
          BY <2>1, <3>2 DEF Expand!Overtakes
        <4>2. expand[c].size \in Nat
          BY <1>2, <4>1 DEF OkCall, Expand!IdleCall
        <4> QED BY <1>5, <4>1, <4>2 DEF OkCall, Expand!Overtaken, BusyCall
      <3> QED BY <3>1, <3>2
    <2> QED BY <2>1, <2>3, <2>4 DEF Expand!ExpandTypeOK
  <1>10. CASE ControllerRestart
    BY <1>4, <1>10 DEF ControllerRestart, Expand!ExpandRestart, Expand!ExpandTypeOK
  <1> QED
    BY <1>2, <1>6, <1>7, <1>8, <1>9, <1>10 DEF ControllerNext, ExpansionStep, Expand!ExpandNext,
       Expand!ExpandTypeOK

\* Every reachable state of the expansion handlers is type correct.
THEOREM ExpansionTypes == ControllerSpec => []Expand!ExpandTypeOK
  <1>1. ControllerInit => Expand!ExpandTypeOK
    BY NewCapacitiesAssumption DEF ControllerInit, Expand!ExpandInit, Expand!ExpandTypeOK
  <1>2. CInv /\ Expand!ExpandTypeOK /\ [ControllerNext]_controllerVars => Expand!ExpandTypeOK'
    BY TypesKept
  <1> QED BY <1>1, <1>2, CInvHolds, PTL DEF ControllerSpec

=============================================================================
