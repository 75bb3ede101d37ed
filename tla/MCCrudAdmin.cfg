SPECIFICATION FairSpec
CONSTANTS
  s1 = s1  s2 = s2  r1 = r1  r2 = r2  r3 = r3
  None = None  EmptyDoc = EmptyDoc  NotJson = NotJson  IllTyped = IllTyped
  DummyCollection = "dummy"
  Shard = {s1, s2}
  ReqId = {r1, r2}
  FairShards = {s2}
  Requests <- AdminRequests
  EmptyStore <- MCEmptyStore
INVARIANT TypeOK
PROPERTY ImplementsAtMostOnce AnsweredOnFairShards
