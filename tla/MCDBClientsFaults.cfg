SPECIFICATION Spec
CONSTANTS
  s1 = s1  s2 = s2  s3 = s3
  Shard = {s1, s2, s3}
  Faults = TRUE
  MaxRuns = 3
SYMMETRY Symmetry
INVARIANT TypeOK ServableClients OneRunInLog SomeRowLeft
