SPECIFICATION Spec
CONSTANTS
  s1 = s1  s2 = s2  t1 = t1  t2 = t2  t3 = t3
  None = None
  Shard = {s1, s2}
  Task = {t1, t2, t3}
  Calm = {s2}
INVARIANT TypeOK OneInScope BlockedBySuspended
PROPERTY CalmShardsFinish
CHECK_DEADLOCK FALSE
