\* Three requests at a time for one reader, lent copies marked available among them.
SPECIFICATION Spec
CONSTANTS
  Procs = {p1, p2, p3}
  Copies = {c1, c2, c3}
  InitialCopies = {c1, c2}
  Books = {b1}
  Users = {u1}
  Schools = {s1}
  None = None
  BookOf <- BookOfCopies
  BookSchool <- SchoolOfBooks
  UserSchool <- SchoolOfUsers
  Workload <- LimitWork
  TicksPerDay = 1
  LoanDays = 1
  RenewDays = 1
  HoldDays = 1
  TypedDues = {}
  DefaultMax = 1
  AccountPatches <- Disabling
  PatchStatuses = {"available"}
  MaxLoans = 4
  MaxResv = 0
  MaxNow = 1
SYMMETRY Symmetry
CHECK_DEADLOCK FALSE
INVARIANTS LimitBound
