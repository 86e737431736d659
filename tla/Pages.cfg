\* Every page of the client with the server behind it, answers out of order or lost.
SPECIFICATION Spec
CONSTANTS
  Rows = {r1, r2}
  Nobody = Nobody
  Open = {"borrow", "fines", "reservations", "users", "schools", "books", "book", "overview", "own_loans", "children"}
  Held <- HeldRows
  Acting <- ActingRoles
  MaxLoads = 2
  MaxActs <- ActsOf
  Loss = TRUE
CHECK_DEADLOCK FALSE
INVARIANTS TypeOK WaitsHaveCause ShowsTruth OffersAreAccepted
