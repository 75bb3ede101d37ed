SPECIFICATION FairSpec
CONSTANTS
  r1 = r1  r2 = r2  r3 = r3
  ReqId = {r1, r2, r3}
  Faults = TRUE
INVARIANT TypeOK NoRequestWithoutService EndsOnlyWhenAsked LeftStarted
PROPERTY SignalStops RequestAnswered
