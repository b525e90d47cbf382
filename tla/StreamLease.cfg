SPECIFICATION RequestSpec
CONSTANTS
  Requests = {r1}
  Containers = {c1}
  Nothing = Nothing
INVARIANT StreamsGiveBack
CHECK_DEADLOCK FALSE
