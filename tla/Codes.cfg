\* Copies of three books are created and deleted at the same time.
SPECIFICATION FairSpec
CONSTANTS
  Procs = {p1, p2}
  b1 = b1
  b2 = b2
  b3 = b3
  x = x
  y = y
  s = s
  Books = {b1, b2, b3}
  PrefixOf <- Prefixes
  SchoolOf <- Schools
  None = None
  Attempts = 2
  MaxMade = 4
CHECK_DEADLOCK FALSE
INVARIANT NumbersDrift
PROPERTIES CreationEnds
