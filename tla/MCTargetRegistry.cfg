SPECIFICATION Spec
CONSTANTS
  tab1 = tab1
  tab2 = tab2
  t1 = t1
  t2 = t2
  t3 = t3
  Tab = {tab1, tab2}
  TargetId = {t1, t2, t3}
  HomeTab <- MCHomeTab
  BrSession = {s1, s2}
  ChildSession = {c1, c2}
  ChildTargetId = {f1, f2}
  MaxGeneration = 2
  None = None
INVARIANTS
  IndexesAgree
  PendingIsTheReservation
PROPERTIES
  ReplacementKeepsStagedSubtree
  ImplementsOwnership
SYMMETRY Symmetry
