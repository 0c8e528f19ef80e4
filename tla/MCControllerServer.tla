------------------------ MODULE MCControllerServer ------------------------
(* Small instances of ControllerServer for TLC.                             *)
EXTENDS ControllerServer, TLC

CONSTANTS v1, fs1, n1, n2

OneVolume == [v \in {v1} |-> fs1]

\* A minimum with a limit, and a minimum above that limit.  Of the new root quotas,
\* 1 is below both, and 4 is above the limit of the one and the minimum of the other.
TwoRanges == {[required |-> 2, limit |-> 2], [required |-> 3, limit |-> 0]}

=============================================================================
