\* A page whose login the proxy will not show.
SPECIFICATION FairSpec
CONSTANTS
  Tabs = {t1, t2}
  Schools = {s1, s2}
  People = {p1, p2, p3}
  Root = Root
  HomeOf <- HomeOfPeople
  Trips <- SomeTrips
  MaxCalls = 2
  None = None
CHECK_DEADLOCK FALSE
PROPERTY ForcedToLogin
