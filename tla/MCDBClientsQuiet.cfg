SPECIFICATION FairSpec
CONSTANTS
  s1 = s1  s2 = s2  s3 = s3
  Shard = {s1, s2, s3}
  Faults = FALSE
  MaxRuns = 2
INVARIANT QuietRestart
PROPERTY InitTerminates
