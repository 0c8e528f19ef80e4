\* The controller process: publish, unpublish, CreateVolume's policy update and
\* expansion of one volume, with PUTs that are applied late, and restarts.
SPECIFICATION ControllerFairSpec
CONSTANTS
  v1 = v1
  fs1 = fs1
  n1 = n1
  n2 = n2
  Filesystems = {fs1}
  Nodes = {n1}
  SquashPolicies = {"root_squash", "no_root_squash"}
  DefaultSquash = "root_squash"
  VolumeIDs = {v1}
  FsOf <- OneVolume
  Mode = "node"
  WantedSquash = "no_root_squash"
  LateWrites = TRUE
  Calls = {1, 2}
  Ranges <- TwoRanges
  NoQuota = NoQuota
  NewCapacities = {1, 4, NoQuota}
INVARIANTS
  SetupKept
  SetupEnforced
  OneOperationPerVolume
  PutGrows
  AnsweredInRange
PROPERTIES
  ExpandCompletes
  ImplementsAccessPolicy
