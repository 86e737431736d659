\* Two requests at a time; copies come, go and are lent: who has which copy.
SPECIFICATION CarefulSpec
CONSTANTS
  Procs = {p1, p2}
  Copies = {c1, c2}
  InitialCopies = {c1}
  Books = {b1}
  Users = {u1, u2}
  Schools = {s1}
  None = None
  BookOf <- BookOfCopies
  BookSchool <- SchoolOfBooks
  UserSchool <- SchoolOfUsers
  Workload <- LendWork
  TicksPerDay = 1
  LoanDays = 1
  RenewDays = 1
  HoldDays = 1
  TypedDues = {}
  DefaultMax = 1
  AccountPatches = {}
  PatchStatuses = {"lost", "available", "borrowed"}
  MaxLoans = 2
  MaxResv = 0
  MaxNow = 1
CHECK_DEADLOCK FALSE
INVARIANTS LoanExclusive ShelfAgrees LoanKeepsCopy RenewedAtMostOnce
PROPERTIES ReturnedIsFinal ImplementsDesk
