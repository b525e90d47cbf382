SPECIFICATION ReloadsSpec
CONSTANTS
  DesiredCount = 1
  MaxTasks = 1
  RestartPolicy = "none"
  Containers = {c4}
  NoContainer = NoContainer
  Verdicts = {"rebuild"}
  MaxReloads = 0
  MaxCrashes = 0
  c4 = c4
  producer = producer
  consumer = consumer
  Targets <- TwoServices
  ReplicasOf <- TwoAndOne
  Claimants = {}
  Ips = {1, 2, 3, 4}
  MaxRounds = 1
  MaxRestarts = 0
  WatchedReplicas = 1
  MaxEdits = 0
  MaxExits = 0
INVARIANTS
  PeersResolve
CHECK_DEADLOCK FALSE
