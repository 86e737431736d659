\* The two buttons that send no body: the return of a loan, the reset of a password.
SPECIFICATION Spec
CONSTANTS
  Rows = {r1}
  Nobody = Nobody
  Open = {"borrow", "users"}
  Held <- HeldRows
  Acting <- ActingRoles
  MaxLoads = 2
  MaxActs <- ActsOf
  Loss = FALSE
CHECK_DEADLOCK FALSE
INVARIANT RefusedChangesNothing
