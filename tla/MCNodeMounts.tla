---------------------------- MODULE MCNodeMounts ----------------------------
(* Small instances of NodeMounts for TLC.                                   *)
EXTENDS NodeMounts, TLC

CONSTANTS v1, p1, p2, p3, s1, s2

AllPodsOfOneVolume == [p \in Pods |-> v1]

PodSymmetry == Permutations(Pods) \union Permutations(Slots)

=============================================================================
