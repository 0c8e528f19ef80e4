\* The documented promise that a successful publish has waited for the policy to
\* become active: a retry that finds the node in the ACL does not wait.
SPECIFICATION Spec
CONSTANTS
  v1 = v1
  v2 = v2
  fs1 = fs1
  fs2 = fs2
  n1 = n1
  n2 = n2
  Filesystems = {fs1}
  Nodes = {n1, n2}
  SquashPolicies = {"root_squash", "no_root_squash"}
  DefaultSquash = "root_squash"
  VolumeIDs = {v1}
  FsOf <- OneVolume
  Mode = "node"
  WantedSquash = "unset"
  LateWrites = FALSE
INVARIANTS
  AttachedEnforced
