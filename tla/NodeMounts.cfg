\* One volume and three pods on a node, mTLS optional: calls that fail, calls the
\* kubelet gives up on, and restarts of the node plugin.
SPECIFICATION Spec
CONSTANTS
  v1 = v1
  p1 = p1
  p2 = p2
  p3 = p3
  s1 = s1
  s2 = s2
  Volumes = {v1}
  Pods = {p1, p2, p3}
  VolumeOf <- AllPodsOfOneVolume
  Slots = {s1, s2}
  MTLSMode = "optional"
  MaxStack = 3
SYMMETRY PodSymmetry
INVARIANTS
  IInv
  UnpublishedIsClean
  UnstagedIsClean
  PublishedServesVolume
  StagedUntilUndone
  NoStackedMounts
