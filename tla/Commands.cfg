SPECIFICATION Spec
CONSTANTS
  Nothing = Nothing
  w1 = w1
  w2 = w2
  MaxFirings = 2
  Template <- ThreeContainers
  Dependencies <- Graphs
  Serves = {w1, w2}
  served = w1
  Urls <- TwoUrls
  Edges <- OneEdge
  Origins <- NoneOrBoth
  MaxUpdates = 1
  MaxEdits = 3
  Groups <- HttpApis
  Sockets <- OneSocket
  Backing <- BackedBy
  Resolved <- InOrder
  Layered = {"f"}
  MaxPasses = 2
INVARIANTS
  NothingLeftBehind
  Prerequisites
  ServersAgree
PROPERTIES
  CleanupTakesAll
  CommandsEnd
CHECK_DEADLOCK FALSE
