-------------------------- MODULE Expansion_proofs --------------------------
(***************************************************************************)
(* What the comparisons of ControllerExpandVolume decide for every         *)
(* capacity and every range the handler lets pass.                         *)
(***************************************************************************)
EXTENDS Expansion, TLAPS

\* Every range has one outcome: no change, an error or an update; and an update
\* is an increase to a capacity that lies in the range.
THEOREM ExpandDecides ==
  ASSUME NEW size \in Nat, NEW r, IsRange(r), ValidRange(r)
  PROVE  /\ NoOp(size, r) \/ Refused(size, r) \/ Grows(size, r)
         /\ ~(NoOp(size, r) /\ Refused(size, r))
         /\ ~(NoOp(size, r) /\ Grows(size, r))
         /\ ~(Refused(size, r) /\ Grows(size, r))
         /\ Grows(size, r) => /\ RequestedCapacity(r) > size
                              /\ Satisfies(RequestedCapacity(r), r)
  <1>1. r.required \in Nat /\ r.limit \in Nat
    BY DEF IsRange
  <1>2. RequestedCapacity(r) \in Nat /\ Satisfies(RequestedCapacity(r), r)
    BY <1>1 DEF RequestedCapacity, Satisfies, ValidRange
  <1> QED
    BY <1>1, <1>2 DEF NoOp, Refused, Grows

\* The comparison with the requested capacity in the no-op test adds nothing: a
\* capacity is left alone exactly when it lies in the range.  An error means that
\* the capacity is above the limit, and only that.
THEOREM ExpandRefusesAboveLimit ==
  ASSUME NEW size \in Nat, NEW r, IsRange(r), ValidRange(r)
  PROVE  /\ NoOp(size, r) <=> Satisfies(size, r)
         /\ Refused(size, r) <=> r.limit # 0 /\ size > r.limit
  <1>1. r.required \in Nat /\ r.limit \in Nat
    BY DEF IsRange
  <1>2. NoOp(size, r) <=> Satisfies(size, r)
    BY <1>1 DEF NoOp, RequestedCapacity, Satisfies, ValidRange
  <1> QED
    BY <1>1, <1>2 DEF Refused, RequestedCapacity, Satisfies, ValidRange

\* CreateVolume takes over a filesystem of some capacity exactly when an expansion
\* to the same range would leave it alone: a claim whose CreateVolume found its
\* filesystem again needs no expansion.
THEOREM CreateAgreesWithExpand ==
  ASSUME NEW size \in Nat, size # 0, NEW r, IsRange(r), ValidRange(r)
  PROVE  ExistingAccepted(size, r) <=> NoOp(size, r)
  <1>1. r.required \in Nat /\ r.limit \in Nat
    BY DEF IsRange
  <1>2. ExistingAccepted(size, r) <=> Satisfies(size, r)
    BY <1>1 DEF ExistingAccepted, Satisfies
  <1> QED
    BY <1>2, ExpandRefusesAboveLimit

=============================================================================
