SPECIFICATION Spec
CONSTANTS
  r1 = r1  r2 = r2
  ReqId = {r1, r2}
INVARIANT TypeOK AbortsExactlyInMetrics NoRequestWithoutServer
PROPERTY SignalStops
