SPECIFICATION FairSpec
CONSTANTS
  DesiredCount = 0
  MaxTasks = 3
  RestartPolicy = "always"
  Containers = {c1, c2, c3}
  NoContainer = NoContainer
  Verdicts = {"rebuild", "soft-reload"}
  MaxReloads = 2
  MaxCrashes = 2
INVARIANTS
  HostPortFree
PROPERTIES
  Settles
CHECK_DEADLOCK FALSE
