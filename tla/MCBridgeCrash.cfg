SPECIFICATION Spec
CONSTANTS
  s1 = s1  s2 = s2  r1 = r1  r2 = r2
  None = None  EmptyDoc = EmptyDoc  NotJson = NotJson  IllTyped = IllTyped
  DummyCollection = "dummy"
  Shard = {s1, s2}  Zero = s1
  ReqId = {r1, r2}
  Requests <- CrashRequests
  EmptyStore <- MCEmptyStore
  Faults = FALSE
  MaxRuns = 2
SYMMETRY Symmetry
INVARIANT TypeOK
PROPERTY ImplementsAtMostOnce
