--------------------------- MODULE MCAccessPolicy ---------------------------
(* Small instances of AccessPolicy for TLC.                                 *)
EXTENDS AccessPolicy

CONSTANTS v1, v2, fs1, fs2, n1, n2

\* Volume IDs name filesystems one to one.
OneVolume == [v \in {v1} |-> fs1]
TwoVolumes == [v \in {v1, v2} |-> IF v = v1 THEN fs1 ELSE fs2]

=============================================================================
