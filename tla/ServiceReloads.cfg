SPECIFICATION ReloadsSpec
CONSTANTS
  DesiredCount = 2
  MaxTasks = 2
  RestartPolicy = "on-failure"
  Containers = {c1, c2, c3, c4}
  NoContainer = NoContainer
  Verdicts = {"rebuild", "soft-reload"}
  MaxReloads = 1
  MaxCrashes = 1
  c4 = c4
  producer = producer
  consumer = consumer
  Targets <- TwoServices
  ReplicasOf <- TwoAndOne
  Claimants = {producer, consumer}
  Ips = {1, 2, 3, 4}
  MaxRounds = 1
  MaxRestarts = 1
  WatchedReplicas = 2
  MaxEdits = 3
  MaxExits = 1
SYMMETRY Symmetry
INVARIANTS
  NoOrphan
  StaysServed
  Attended
  InStep
PROPERTIES
  CrashMeansCrash
CHECK_DEADLOCK FALSE
