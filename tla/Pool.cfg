SPECIFICATION MCSpec
CONSTANTS
  l1 = l1
  l2 = l2
  r1 = r1
  r2 = r2
  r3 = r3
  r4 = r4
  Lambdas = {l1, l2}
  Requests = {r1, r2, r3, r4}
  Handles = {h1, h2, h3, h4}
  LambdaOf <- TwoLambdas
  PerLambdaConcurrency = 2
  NotFinite = NotFinite
  NoHandle = NoHandle
  Anything = Anything
  Intrinsic = Intrinsic
CHECK_DEADLOCK FALSE
SYMMETRY Symmetry
INVARIANTS
  TypeOK
  CapacityRespected
  LeaseExclusive
  NoOrphan
  LeaseKept
  EnvAsDeclared
  RequestsAsDeclared
PROPERTIES
  LendsSafely
