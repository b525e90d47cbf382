SPECIFICATION Spec
CONSTANTS
  DesiredCount = 1
  MaxTasks = 1
  RestartPolicy = "on-failure"
  Containers = {c1, c2}
  NoContainer = NoContainer
  Verdicts = {"rebuild"}
  MaxReloads = 0
  MaxCrashes = 1
PROPERTIES
  NoResurrection
CHECK_DEADLOCK FALSE
