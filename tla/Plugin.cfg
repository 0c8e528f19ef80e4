\* One process in either role: three calls, changing workers, Stop and ForceStop at any
\* time, and restarts.
SPECIFICATION PluginFairSpec
CONSTANTS
  Calls = {"c1", "c2", "c3"}
  Regions = {"r1", "r2"}
  NoRegion = "none"
  Configs <- SomeConfigs
INVARIANTS
  RegionsAgree
  NoNilServer
  GracefulStopDrains
PROPERTIES
  MutexIsHandedOn
  StopCompletes
  RegistrationCompletes
