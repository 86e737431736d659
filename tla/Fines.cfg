\* Returns, renewals, payments and reservations race, and with the clock.
SPECIFICATION Spec
CONSTANTS
  Procs = {p1, p2}
  Copies = {c1}
  InitialCopies = {c1}
  Books = {b1}
  Users = {u1}
  Schools = {s1}
  None = None
  BookOf <- BookOfCopies
  BookSchool <- SchoolOfBooks
  UserSchool <- SchoolOfUsers
  Workload <- FineWork
  TicksPerDay = 2
  LoanDays = 0
  RenewDays = 1
  HoldDays = 1
  TypedDues = {0}
  DefaultMax = 1
  AccountPatches = {}
  PatchStatuses = {"lost", "reserved"}
  MaxLoans = 2
  MaxResv = 3
  MaxNow = 4
SYMMETRY Symmetry
CHECK_DEADLOCK FALSE
INVARIANTS TypeOK FinesMatchReturns DuplicatesBound
