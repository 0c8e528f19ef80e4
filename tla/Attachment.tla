----------------------------- MODULE Attachment -----------------------------
(***************************************************************************)
(* What controller publish and unpublish promise, without handlers, locks  *)
(* or a policy document: the attacher wants a volume attached to a node or *)
(* not, the node's access is granted and revoked one pair at a time and    *)
(* only for a pair that wants it, and an answer is given only when it is   *)
(* true.  AccessPolicy implements this specification.                      *)
(***************************************************************************)
CONSTANTS VolumeIDs, Nodes

VARIABLES
  va,      \* the VolumeAttachment of each volume ID and node
  granted  \* the pairs whose node is authorised for the volume

vars == <<va, granted>>

Pairs == VolumeIDs \X Nodes

Init ==
  /\ va = [p \in Pairs |-> "detached"]
  /\ granted = {}

Becomes(p, from, to) == va[p] \in from /\ va' = [va EXCEPT ![p] = to]

Want(p) ==
  /\ Becomes(p, {"detached"}, "attaching") \/ Becomes(p, {"attaching", "attached"}, "detaching")
  /\ UNCHANGED granted

Grant(p) == va[p] = "attaching" /\ granted' = granted \union {p} /\ UNCHANGED va

Revoke(p) == va[p] = "detaching" /\ granted' = granted \ {p} /\ UNCHANGED va

ConfirmAttached(p) == p \in granted /\ Becomes(p, {"attaching"}, "attached") /\ UNCHANGED granted

ConfirmDetached(p) == p \notin granted /\ Becomes(p, {"detaching"}, "detached") /\ UNCHANGED granted

\* The volume is deleted, and every grant with it.
Delete(v) == granted' = {p \in granted : p[1] # v} /\ UNCHANGED va

Next ==
  \/ \E p \in Pairs : Want(p) \/ Grant(p) \/ Revoke(p) \/ ConfirmAttached(p) \/ ConfirmDetached(p)
  \/ \E v \in VolumeIDs : Delete(v)

Spec == Init /\ [][Next]_vars

=============================================================================
