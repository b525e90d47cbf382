SPECIFICATION QuietSpec
CONSTANTS
  Count = 1
  Requests = {q1}
  MaxCrashes = 0
  f = f
  a1 = a1
  a2 = a2
  a3 = a3
  h1 = h1
  h2 = h2
  Nobody = Nobody
CHECK_DEADLOCK FALSE
PROPERTIES
  NoAcquireHangs
