SPECIFICATION Spec
CONSTANTS
  raw = raw
  own = own
  rig = rig
  t1 = t1
  t2 = t2
  page1 = page1
  page2 = page2
  frame = frame
  popup = popup
  k1 = k1
  k2 = k2
  Client = {raw, own}
  Rig = {rig}
  RigOf <- MCRigOf
  Tab = {t1, t2}
  Page = {page1, page2}
  Frame = {frame}
  Popup = {popup}
  AttachedAs <- MCAttachedAs
  Before <- MCBefore
  Within <- MCWithin
  TabOf <- MCTabOf
  ChildSession = {k1}
  MaxRoots = 3
  MaxConnections = 2
  MaxEvents = 3
  None = None
CHECK_DEADLOCK FALSE
PROPERTIES
  SessionTargetsAreItsOwn
