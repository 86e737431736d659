\* Tabs of one browser: of two schools, of one, of the super administrator.
SPECIFICATION FairSpec
CONSTANTS
  Tabs = {t1, t2}
  Schools = {s1, s2}
  People = {p1, p2, p3}
  Root = Root
  HomeOf <- HomeOfPeople
  Trips <- SomeTrips
  MaxCalls = 2
  None = None
CHECK_DEADLOCK FALSE
INVARIANTS TypeOK DoneOnce RetryIsOwn ShownIsOfSite WaitsHaveCause
PROPERTY CallsSettle
