\* Two returns race for the queue of one book, the copies' deletion among them;
\* every request is answered.
SPECIFICATION FairSpec
CONSTANTS
  Procs = {p1, p2}
  Copies = {c1, c2}
  InitialCopies = {c1, c2}
  Books = {b1}
  Users = {u1}
  Schools = {s1}
  None = None
  BookOf <- BookOfCopies
  BookSchool <- SchoolOfBooks
  UserSchool <- SchoolOfUsers
  Workload <- QueueWork
  TicksPerDay = 1
  LoanDays = 1
  RenewDays = 1
  HoldDays = 1
  TypedDues = {}
  DefaultMax = 2
  AccountPatches = {}
  PatchStatuses = {}
  MaxLoans = 2
  MaxResv = 2
  MaxNow = 0
CHECK_DEADLOCK FALSE
INVARIANTS OneNoticePerPromotion
PROPERTIES PromotionFIFO EveryRequestEnds
