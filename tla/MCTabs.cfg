SPECIFICATION TabsSpec
CONSTANTS
  Session = {s1, s2}
  Handoffs = {h1, h2}
  NoOne = NoOne
  MaxTargets = 2
  MaxEvents = 4
  Tab = {t1}
  Call = {p1, p2, p3}
  MaxPage = 2
  MaxRootEvents = 2
  MaxFailures = 1
  None = None
  Closed = Closed
INVARIANTS HandoffsKeepToTheirExecute ControlIsShown RootsAreLive
PROPERTIES HandoffsEnd InventoryIsVisible EventuallyReady
CHECK_DEADLOCK FALSE
