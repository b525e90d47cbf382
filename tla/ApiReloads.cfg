SPECIFICATION RunningSpec
CONSTANTS
  Requests = {r1, r2}
  Containers = {c1, c2}
  NoContainer = NoContainer
  MaxReloads = 2
  r1 = r1
  c1 = c1
  w1 = w1
  w2 = w2
  Pooled = {c1}
  Asked <- OneBuffered
  Conns = {w1, w2}
  Unguarded = {w2}
  MaxFrames = 3
  MAX_PRE_VERDICT_FRAMES = 2
  Routes <- DeclaredRoutes
  Paths <- AskedPaths
  Cors <- CorsMethods
  Placeholder = "{x}"
  MaxRoutes = 3
  Letters = {"a", "b"}
  MaxGlob = 4
  MaxText = 3
INVARIANTS
  LeaseHonoured
  NoOrphan
  Fresh
  RequestsServed
  NothingLost
  Matched
PROPERTIES
  DeliversInOrder
  EverythingEnds
CHECK_DEADLOCK FALSE
