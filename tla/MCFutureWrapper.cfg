SPECIFICATION Spec
CONSTANTS
  f1 = f1  f2 = f2
  Caller = {f1, f2}
INVARIANT AlwaysAFuture
