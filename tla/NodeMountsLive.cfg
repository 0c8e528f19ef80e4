\* One volume and one pod, fair: teardown always ends, and a publish ends unless
\* the staging path was taken away.
SPECIFICATION FairSpec
CONSTANTS
  v1 = v1
  p1 = p1
  p2 = p2
  p3 = p3
  s1 = s1
  s2 = s2
  Volumes = {v1}
  Pods = {p1}
  VolumeOf <- AllPodsOfOneVolume
  Slots = {s1}
  MTLSMode = "optional"
  MaxStack = 2
PROPERTIES
  TeardownCompletes
  PublishCompletes
