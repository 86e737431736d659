\* A school registers beside one that is open; people come, go and sign in.
SPECIFICATION Spec
CONSTANTS
  Procs = {p1, p2}
  demo = demo
  other = other
  fresh = fresh
  root = root
  head = head
  clerk = clerk
  guest = guest
  warden = warden
  founder = founder
  None = None
  Schools = {demo, other, fresh}
  Opened = {demo, other}
  People = {root, head, clerk, guest, warden, founder}
  Present = {root, head, guest}
  SchoolOf <- SchoolOfPeople
  FirstAdmin <- AdminOfSchool
  Roles = {"admin", "librarian", "student"}
  Barred = {"disabled"}
  Workloads <- Work
  Visits <- SignIns
  Patches <- Demotions
  AccessTTL = 1
  RefreshTTL = 2
  MaxTokens = 1
SYMMETRY Symmetry
INVARIANTS TypeOK OpenWasApproved TokensNeedApproval StaleRightsExpire
PROPERTIES RightsComeFromAdmins
