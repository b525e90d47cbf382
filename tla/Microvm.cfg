SPECIFICATION MCSpec
CONSTANTS
  Count = 2
  Requests = {q1, q2}
  MaxCrashes = 1
  f = f
  a1 = a1
  a2 = a2
  a3 = a3
  h1 = h1
  h2 = h2
  Nobody = Nobody
INVARIANTS
  TypeOK
  ContainersFollow
  EndsCleanly
PROPERTIES
  TerminationIsFinal
  EverythingSettles
CHECK_DEADLOCK FALSE
