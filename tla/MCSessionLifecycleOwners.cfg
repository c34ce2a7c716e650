SPECIFICATION Spec
CONSTANTS
  Id = {s1, s2}
  Target = {t1}
  Fiber = {f1, f2}
  Requests = {"adopt", "drain", "reset", "delete"}
  MaxSession = 4
  MaxEvents = 1
  MaxFailures = 0
  None = None
  Absent = Absent
  Gone = Gone
INVARIANTS
  CatalogIsRestorable
SYMMETRY Symmetry
