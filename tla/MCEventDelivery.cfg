SPECIFICATION DeliveryFairSpec
CONSTANTS
  o1 = o1  o2 = o2  c1 = c1  c2 = c2
  Owner = {o1, o2}
  CallId = {c1, c2}
  LIFO = TRUE
  MaxHandle = 5
INVARIANT DeliveryTypeOK HandleIsFree ClosureKeptByOwner CallAccountsForAll
PROPERTY ImplementsSubscriptions CallEnds
