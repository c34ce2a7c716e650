SPECIFICATION Spec
CONSTANTS
  Id = {s1}
  Target = {t1, t2}
  Fiber = {f1, f2}
  Requests = {"create", "execute", "adopt", "reset", "drain", "close"}
  MaxSession = 3
  MaxEvents = 0
  MaxFailures = 1
  None = None
  Absent = Absent
  Gone = Gone
INVARIANTS
  SettledSessionsAgree
SYMMETRY Symmetry
