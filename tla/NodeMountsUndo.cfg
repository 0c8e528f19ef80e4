\* The documented promise that the NFS mount of a volume is staged only once and
\* shared: a failed publish of one pod unmounts it.
SPECIFICATION Spec
CONSTANTS
  v1 = v1
  p1 = p1
  p2 = p2
  p3 = p3
  s1 = s1
  s2 = s2
  Volumes = {v1}
  Pods = {p1, p2}
  VolumeOf <- AllPodsOfOneVolume
  Slots = {s1, s2}
  MTLSMode = "optional"
  MaxStack = 3
INVARIANTS
  StagedStaysMounted
