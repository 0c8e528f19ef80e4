----------------------------- MODULE Expansion -----------------------------
(***************************************************************************)
(* ControllerExpandVolume: under the lock of the volume, which publish and *)
(* unpublish take as well, a handler lists the filesystem's quotas,        *)
(* compares the root quota with the requested range and PUTs the new       *)
(* capacity.  The service refuses a decrease.                              *)
(*                                                                         *)
(* The csi-resizer retries a range until it is answered, and several calls *)
(* may be under way: one that its caller gave up still runs when the retry *)
(* arrives.  As in AccessPolicy, such a handler can only return an error   *)
(* (ExpandFails), and its PUT may be applied later.                        *)
(***************************************************************************)
EXTENDS Naturals, VolumeLocks

CONSTANTS
  VolumeIDs, Filesystems, FsOf,  \* as in AccessPolicy
  Calls,        \* the ControllerExpandVolume calls that may run at a time
  Ranges,       \* the capacity ranges asked for
  NoQuota,      \* the root quota is missing, or has no capacity
  NewCapacities \* the root quotas of new filesystems

IsRange(r) == r \in [required : Nat, limit : Nat]

\* What the handler lets pass: not empty, and no minimum above its limit.
ValidRange(r) ==
  /\ r.required > 0 \/ r.limit > 0
  /\ r.limit # 0 => r.required <= r.limit

VARIABLES
  live, locks,  \* as in AccessPolicy
  capacity,     \* the root quota of each filesystem
  wanted,       \* the range the csi-resizer asks for, or NoRange
  expand,       \* the handler of each call
  lateExpands   \* PUTs whose caller gave up and that the service still holds

expandVars == <<capacity, wanted, expand, lateExpands>>

NoRange == [required |-> 0, limit |-> 0]

\* `size` is the CapacityBytes the handler is about to answer; `overtaken`, that a
\* late PUT changed the capacity since the handler's last look at it.
IdleCall ==
  [pc |-> "idle", volume |-> "none", range |-> NoRange, size |-> 0, overtaken |-> FALSE]

ExpandTypeOK ==
  /\ capacity \in [Filesystems -> Nat \union {NoQuota}]
  /\ wanted \in [VolumeIDs -> Ranges \union {NoRange}]
  /\ \A c \in Calls :
       \/ expand[c] = IdleCall
       \/ expand[c] \in [pc : {"list", "put", "answer"}, volume : VolumeIDs,
                         range : Ranges, size : Nat, overtaken : BOOLEAN]
  /\ lateExpands \subseteq Filesystems \X Nat

ExpandInit ==
  /\ capacity \in [Filesystems -> NewCapacities]
  /\ wanted = [v \in VolumeIDs |-> NoRange]
  /\ expand = [c \in Calls |-> IdleCall]
  /\ lateExpands = {}

-----------------------------------------------------------------------------
(* What the handler decides from the root quota and the range.              *)

RequestedCapacity(r) == IF r.required > 0 THEN r.required ELSE r.limit

Satisfies(size, r) == size >= r.required /\ (r.limit = 0 \/ size <= r.limit)

NoOp(size, r) == Satisfies(size, r) \/ size = RequestedCapacity(r)

Refused(size, r) == ~NoOp(size, r) /\ RequestedCapacity(r) < size

Grows(size, r) == ~NoOp(size, r) /\ RequestedCapacity(r) >= size

\* CreateVolume's check of a filesystem it finds by label.  It reads the
\* filesystem's MaxCapacityBytes, where 0 stands for no quota.
ExistingAccepted(size, r) ==
  size = 0 \/ ~(r.required > size \/ (r.limit # 0 /\ size > r.limit))

-----------------------------------------------------------------------------
(* The handler.                                                             *)

Resize(v) ==
  /\ \E r \in Ranges : wanted' = [wanted EXCEPT ![v] = r]
  /\ UNCHANGED <<live, locks, capacity, expand, lateExpands>>

\* Which call a handler is given is of no account.
FreeCall == CHOOSE c \in Calls : expand[c] = IdleCall

ExpandCall(v) ==
  /\ wanted[v] # NoRange
  /\ CanAcquire(locks, v)
  /\ locks' = Acquire(locks, v)
  /\ \E c \in Calls : expand[c] = IdleCall
  /\ expand' = [expand EXCEPT ![FreeCall] =
                  [pc |-> "list", volume |-> v, range |-> wanted[v], size |-> 0,
                   overtaken |-> FALSE]]
  /\ UNCHANGED <<live, capacity, wanted, lateExpands>>

\* Mutant: a return that forgets the lock.
ExpandReturnKeepsLock(c) ==
  /\ expand' = [expand EXCEPT ![c] = IdleCall]
  /\ UNCHANGED locks

ExpandReturn(c) ==
  /\ expand' = [expand EXCEPT ![c] = IdleCall]
  /\ locks' = Release(locks, expand[c].volume)

ExpandGoto(c, pc, size) ==
  /\ expand' = [expand EXCEPT ![c] =
                  [pc |-> pc, volume |-> expand[c].volume, range |-> expand[c].range,
                   size |-> size, overtaken |-> FALSE]]
  /\ UNCHANGED <<locks, wanted>>

\* No root quota and a range below the quota are errors: ExpandFails.
ExpandList(c) ==
  LET f == FsOf[expand[c].volume] IN
  /\ expand[c].pc = "list"
  /\ f \in live
  /\ capacity[f] # NoQuota
  /\ \/ /\ NoOp(capacity[f], expand[c].range)
        /\ ExpandGoto(c, "answer", capacity[f])
     \/ /\ Grows(capacity[f], expand[c].range)
        /\ ExpandGoto(c, "put", 0)
  /\ UNCHANGED <<live, capacity, lateExpands>>

\* UpdateNFSFilesystem: a decrease is refused (no step here).
SetCapacity(f, size) ==
  /\ f \in live
  /\ size >= capacity[f]
  /\ capacity' = [capacity EXCEPT ![f] = size]

ExpandPut(c) ==
  LET size == RequestedCapacity(expand[c].range) IN
  /\ expand[c].pc = "put"
  /\ SetCapacity(FsOf[expand[c].volume], size)
  /\ ExpandGoto(c, "answer", size)
  /\ UNCHANGED <<live, lateExpands>>

\* The caller takes the answer for the range it asked for.
ExpandAnswer(c) ==
  /\ expand[c].pc = "answer"
  /\ ExpandReturn(c)
  /\ wanted' = [wanted EXCEPT ![expand[c].volume] =
                  IF @ = expand[c].range THEN NoRange ELSE @]
  /\ UNCHANGED <<live, capacity, lateExpands>>

ExpandPutLate(c) ==
  /\ expand[c].pc = "put"
  /\ lateExpands' = lateExpands \union
       {<<FsOf[expand[c].volume], RequestedCapacity(expand[c].range)>>}
  /\ ExpandReturn(c)
  /\ UNCHANGED <<live, capacity, wanted>>

\* At "answer" it is the reply to the PUT, or the answer itself, that is lost.
ExpandFails(c) ==
  /\ expand[c].pc # "idle"
  /\ ExpandReturn(c)
  /\ UNCHANGED <<live, capacity, wanted, lateExpands>>

\* The handler has looked at the capacity and is not done with it.
Overtakes(f, c) == expand[c].pc \in {"put", "answer"} /\ FsOf[expand[c].volume] = f

Overtaken(c) ==
  [pc |-> expand[c].pc, volume |-> expand[c].volume, range |-> expand[c].range,
   size |-> expand[c].size, overtaken |-> TRUE]

LateExpand ==
  \E w \in lateExpands :
    /\ \/ UNCHANGED <<capacity, expand>>  \* refused
       \/ /\ SetCapacity(w[1], w[2])
          /\ expand' = [c \in Calls |-> IF Overtakes(w[1], c) THEN Overtaken(c) ELSE expand[c]]
    /\ lateExpands' = lateExpands \ {w}
    /\ UNCHANGED <<live, locks, wanted>>

\* The controller process restarts; Kubernetes and the service do not.
ExpandRestart ==
  /\ expand' = [c \in Calls |-> IdleCall]
  /\ UNCHANGED <<capacity, wanted, lateExpands>>

ExpandNext ==
  \/ \E v \in VolumeIDs : Resize(v) \/ ExpandCall(v)
  \/ \E c \in Calls :
       \/ ExpandList(c) \/ ExpandPut(c) \/ ExpandAnswer(c)
       \/ ExpandPutLate(c) \/ ExpandFails(c)
  \/ LateExpand

-----------------------------------------------------------------------------
(* Properties.                                                              *)

\* The PUT of an expansion is still an increase when it is sent, unless a PUT
\* of an earlier call reached the service late: the lock keeps the comparison
\* and the PUT together.
PutGrows ==
  \A c \in Calls :
    expand[c].pc = "put" /\ FsOf[expand[c].volume] \in live /\ ~expand[c].overtaken =>
      RequestedCapacity(expand[c].range) > capacity[FsOf[expand[c].volume]]

\* When a call answers, the filesystem has at least the capacity it reports, which
\* lies in the range; and it has that very capacity, unless a PUT of an earlier
\* call reached the service between the handler's last look and its answer.
AnsweredInRange ==
  \A c \in Calls :
    LET f == FsOf[expand[c].volume] IN
    expand[c].pc = "answer" /\ f \in live =>
      /\ Satisfies(expand[c].size, expand[c].range)
      /\ capacity[f] >= expand[c].size
      /\ ~expand[c].overtaken => capacity[f] = expand[c].size

=============================================================================
