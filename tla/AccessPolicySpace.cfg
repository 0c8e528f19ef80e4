\* Space mode: no attachments; CreateVolume leaves an enabled policy with an
\* empty ACL and the wanted squash policy, in force.
SPECIFICATION Spec
CONSTANTS
  v1 = v1
  v2 = v2
  fs1 = fs1
  fs2 = fs2
  n1 = n1
  n2 = n2
  Filesystems = {fs1, fs2}
  Nodes = {n1, n2}
  SquashPolicies = {"root_squash", "no_root_squash"}
  DefaultSquash = "root_squash"
  VolumeIDs = {v1, v2}
  FsOf <- TwoVolumes
  Mode = "space"
  WantedSquash = "no_root_squash"
  LateWrites = TRUE
INVARIANTS
  SetupKept
