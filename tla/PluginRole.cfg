\* Which gRPC services a process registers.
SPECIFICATION PluginSpec
CONSTANTS
  Calls = {"c1", "c2"}
  Regions = {"r1", "r2"}
  NoRegion = "none"
  Configs <- SomeConfigs
INVARIANTS
  ServicesMatchRole
