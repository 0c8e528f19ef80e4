\* Node mode, two nodes on one volume, fair: publishes and unpublishes that
\* interleave, fail, lose replies and cross restarts.
SPECIFICATION FairSpec
CONSTANTS
  v1 = v1
  v2 = v2
  fs1 = fs1
  fs2 = fs2
  n1 = n1
  n2 = n2
  Filesystems = {fs1}
  Nodes = {n1, n2}
  SquashPolicies = {"root_squash", "no_root_squash"}
  DefaultSquash = "root_squash"
  VolumeIDs = {v1}
  FsOf <- OneVolume
  Mode = "node"
  WantedSquash = "no_root_squash"
  LateWrites = FALSE
INVARIANTS
  IInv
  ReplacementIsCurrent
  AttachedAuthorised
  DetachedRevoked
PROPERTIES
  OnlyOwnNodeChanges
  ImplementsAttachment
  AttachCompletes
  DetachCompletes
  AttachedBecomesEnforced
