-------------------------- MODULE ControllerServer --------------------------
(***************************************************************************)
(* The controller process: the handlers of AccessPolicy and of Expansion   *)
(* over one lock set, one Linode NFS service and one restart.              *)
(***************************************************************************)
EXTENDS AccessPolicy, Naturals

CONSTANTS Calls, Ranges, NoQuota, NewCapacities  \* as in Expansion

VARIABLES capacity, wanted, expand, lateExpands  \* as in Expansion

Expand == INSTANCE Expansion

ASSUME RangesAssumption == \A r \in Ranges : Expand!IsRange(r) /\ Expand!ValidRange(r)
ASSUME NoQuotaAssumption == NoQuota \notin Nat
ASSUME NewCapacitiesAssumption == NewCapacities \subseteq Nat \union {NoQuota}

expandVars == <<capacity, wanted, expand, lateExpands>>
controllerVars == <<vars, expandVars>>

ControllerInit == Init /\ Expand!ExpandInit

AccessPolicyStep ==
  /\ \/ \E p \in Pairs : WantAttached(p) \/ WantDetached(p) \/ RpcStep(p)
     \/ \E f \in Filesystems :
          SetupStep(f) \/ ServiceSettles(f) \/ FilesystemDeleted(f)
     \/ LateApply
  /\ UNCHANGED expandVars

\* Publish, unpublish and CreateVolume leave the capacity alone, an expansion
\* the access policy: the lock and the filesystem are what they share.
ExpansionStep ==
  /\ Expand!ExpandNext
  /\ UNCHANGED <<policy, enforced, pending, rpc, va, setup, ready, late>>

ControllerRestart == Restart /\ Expand!ExpandRestart

ControllerNext == AccessPolicyStep \/ ExpansionStep \/ ControllerRestart

ControllerSpec == ControllerInit /\ [][ControllerNext]_controllerVars

\* A publish, an unpublish or an expansion ends by its timeouts at the latest,
\* and the csi-resizer retries with back-off: in the end a retry finds the lock
\* free, and the service answers.
ControllerFairness ==
  LET Fair(A) == A /\ UNCHANGED <<policy, enforced, pending, rpc, va, setup, ready, late>> IN
  /\ \A p \in Pairs : WF_controllerVars(RpcFails(p) /\ UNCHANGED expandVars)
  /\ \A v \in VolumeIDs : SF_controllerVars(Fair(Expand!ExpandCall(v)))
  /\ \A c \in Calls :
       /\ WF_controllerVars(Fair(Expand!ExpandFails(c)))
       /\ SF_controllerVars(Fair(Expand!ExpandList(c)))
       /\ SF_controllerVars(Fair(Expand!ExpandPut(c)))
       /\ SF_controllerVars(Fair(Expand!ExpandAnswer(c)))

ControllerFairSpec == ControllerSpec /\ ControllerFairness

-----------------------------------------------------------------------------
(* Properties.                                                              *)

Running(v) ==
  {<<"rpc", p>> : p \in {q \in Pairs : q[1] = v /\ rpc[q].pc # "idle"}}
  \union {<<"expand", c>> : c \in {d \in Calls : expand[d].pc # "idle" /\ expand[d].volume = v}}

\* One operation at a time runs on a volume, be it a publish, an unpublish or
\* an expansion, and the lock is held as long (no return path forgets it).
OneOperationPerVolume ==
  \A v \in VolumeIDs :
    /\ v \in locks <=> Running(v) # {}
    /\ \A o1, o2 \in Running(v) : o1 = o2

\* The lock keeps an expansion's comparison and its PUT together.
PutGrows == Expand!PutGrows

\* The capacity an expansion answers is in the range and the filesystem has it,
\* also when a publish, an unpublish or a restart came between; only a late PUT
\* may have made it larger.
AnsweredInRange == Expand!AnsweredInRange

\* An expansion that is asked for is answered or replaced by another range,
\* unless the filesystem is gone, has no quota or has outgrown the limit.
ExpandCompletes ==
  \A v \in VolumeIDs, r \in Ranges :
    wanted[v] = r ~>
      \/ wanted[v] # r
      \/ FsOf[v] \notin live
      \/ capacity[FsOf[v]] = NoQuota
      \/ r.limit # 0 /\ capacity[FsOf[v]] > r.limit

\* The locks that publish and unpublish see held: those of expansions look to
\* them like a call that returned Aborted.
PolicyLocks ==
  {v \in locks : \A c \in Calls : expand[c].pc # "idle" => expand[c].volume # v}

Policies == INSTANCE AccessPolicy WITH locks <- PolicyLocks

\* Expansions, which share the lock set, the filesystems and the restarts with
\* the other handlers, do nothing to them that AccessPolicy does not foresee.
ImplementsAccessPolicy == Policies!Spec

=============================================================================
