\* Two schools, one request at a time: the rules of lending and reserving.
SPECIFICATION Spec
CONSTANTS
  Procs = {p1}
  Copies = {c1, c2}
  InitialCopies = {c1, c2}
  Books = {b1, b2}
  Users = {u1, u2}
  Schools = {s1, s2}
  None = None
  BookOf <- BookOfCopies
  BookSchool <- SchoolOfBooks
  UserSchool <- SchoolOfUsers
  Workload <- AloneWork
  TicksPerDay = 1
  LoanDays = 1
  RenewDays = 1
  HoldDays = 1
  TypedDues = {0}
  DefaultMax = 1
  AccountPatches <- Disabling
  PatchStatuses = {}
  MaxLoans = 2
  MaxResv = 2
  MaxNow = 1
CHECK_DEADLOCK FALSE
INVARIANTS TenantIsolation
PROPERTIES LoanRules ReserveRules
