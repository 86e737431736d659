---------------------------- MODULE Circulation ----------------------------
(***************************************************************************)
(* The circulation desk of the school library: lending, returning and      *)
(* renewing copies, reserving books, settling fines, and the staff's       *)
(* corrections of copies and accounts, as the HTTP handlers of             *)
(* backend/internal/httpapi run them over PostgreSQL.                      *)
(*                                                                         *)
(* A request being served is a process.  Its program counter names the SQL *)
(* statement it runs next and req holds the handler's local variables.     *)
(* Isolation is READ COMMITTED: every statement reads what is committed    *)
(* when it runs.  The writes of a transaction are made in its commit step: *)
(* every row it writes is locked (SELECT ... FOR UPDATE or the UPDATE      *)
(* itself) from the statement that touches it to the commit, so nobody     *)
(* could have written the row in between and nobody could have read the    *)
(* new value.  Which rows are locked follows from the program counters.    *)
(*                                                                         *)
(* A request that its first statement refuses changes nothing and is left  *)
(* out; one that a later statement refuses ends in Finish.                 *)
(***************************************************************************)
EXTENDS Integers, Sequences, FiniteSets

CONSTANTS
    Procs,          \* requests in flight (at most the pool's connections)
    Copies,         \* ids of book_copies rows, present, future and deleted
    InitialCopies,  \* the copies that exist, on the shelf, at the start
    Books, BookOf,  \* books, and the book of each copy
    Users,          \* ids of users rows
    Schools, BookSchool, UserSchool,
    None,           \* an SQL NULL or an unset local variable
    Workload,       \* the kinds of request that arrive
    TicksPerDay, LoanDays, RenewDays, HoldDays,
    TypedDues,      \* due dates staff type instead of the default
    DefaultMax,     \* max_borrow of a new account
    AccountPatches, \* the (status, max) pairs staff set on an account
    PatchStatuses,  \* the copy statuses staff write with PATCH
    MaxLoans, MaxResv, MaxNow  \* bounds: rows and clock

CopyStatus  == {"available", "borrowed", "reserved", "lost", "damaged", "retired"}
LoanStatus  == {"borrowed", "returned", "overdue", "lost"}
OpenStatus  == {"borrowed", "overdue"}
ResvStatus  == {"pending", "ready", "fulfilled", "cancelled", "expired"}
FineStatus  == {"unpaid", "paid", "waived"}
FineReason  == {"overdue", "lost", "damaged"}
Outcomes    == {"available", "lost", "damaged"}
UserStatus  == {"active", "suspended", "disabled"}
StaffReservationStatuses == {"ready", "fulfilled", "cancelled"}

Requests == {"borrow", "return", "renew", "reserve", "resv_patch", "settle",
             "copy_patch", "copy_new", "copy_delete", "user_patch"}

ASSUME RequestAssumption == Workload \subseteq Requests

ASSUME RowAssumption ==
    /\ InitialCopies \subseteq Copies
    /\ BookOf \in [Copies -> Books]
    /\ BookSchool \in [Books -> Schools]
    /\ UserSchool \in [Users -> Schools]
    /\ None \notin Copies \cup Books \cup Users

ASSUME TimeAssumption ==
    /\ TicksPerDay \in Nat \ {0}
    /\ LoanDays \in Nat /\ RenewDays \in Nat /\ HoldDays \in Nat
    /\ TypedDues \subseteq Nat

ASSUME PatchAssumption ==
    /\ DefaultMax \in Nat
    /\ AccountPatches \subseteq [status : UserStatus, max : Nat]
    /\ PatchStatuses \subseteq CopyStatus

ASSUME BoundAssumption == MaxLoans \in Nat /\ MaxResv \in Nat /\ MaxNow \in Nat

VARIABLES
    copyStatus,  \* book_copies.status; "absent" before INSERT, "deleted" after DELETE
    loans,       \* borrow_records, in the order of insertion
    resv,        \* reservations, in the order of reserved_at
    fines,       \* fines, in the order of insertion
    notices,     \* the 'reservation_ready' notifications each user was sent
    account,     \* users.status and users.max_borrow
    now,         \* the clock, in ticks
    pc, req      \* the requests in flight

tables == <<copyStatus, loans, resv, fines, notices, account>>
vars   == <<tables, now, pc, req>>

LoanRow == [copy : Copies, user : Users, due : Nat, renewed : Nat,
            status : LoanStatus, back : Nat]
ResvRow == [book : Books, user : Users, status : ResvStatus, expires : Nat]
FineRow == [loan : Nat, user : Users, reason : FineReason, days : Nat,
            status : FineStatus]

Days(n) == n * TicksPerDay

(* math.Ceil of the hours late over 24.  (DaysEnded rounds down instead.) *)
DaysEnded(due, at) == (at - due) \div TicksPerDay
DaysLate(due, at) == (at - due + TicksPerDay - 1) \div TicksPerDay

(***************************************************************************)
(* Requests, their program counters and the locks these imply.             *)
(***************************************************************************)
BorrowSteps  == {"borrow_user", "borrow_count", "borrow_fines", "borrow_commit"}
ReturnLocked == {"return_promote", "return_commit"}
ReturnSteps  == {"return_copy"} \cup ReturnLocked
RenewSteps   == {"renew_check", "renew_commit"}
OtherSteps   == {"reserve_dup", "reserve_insert", "settle_update", "delete_row", "delete_check"}
Steps        == BorrowSteps \cup ReturnSteps \cup RenewSteps \cup OtherSteps

NoReq == [copy |-> None, user |-> None, book |-> None, row |-> 0, limit |-> 0,
          due |-> 0, at |-> 0, to |-> "none", queue |-> {}, pick |-> 0]

Request == [copy : Copies \cup {None}, user : Users \cup {None},
            book : Books \cup {None}, row : Nat, limit : Nat, due : Nat,
            at : Nat, to : Outcomes \cup FineStatus \cup {"none"},
            queue : SUBSET Nat, pick : Nat]

CopyHolding  == BorrowSteps \cup ReturnLocked \cup {"delete_check"}
HoldsCopy(p, c) == pc[p] \in CopyHolding /\ req[p].copy = c
HoldsLoan(p, l) == pc[p] \in ReturnSteps \cup RenewSteps /\ req[p].row = l
HoldsResv(p, r) == pc[p] = "return_commit" /\ req[p].pick = r

NotLocked(row) == TRUE      \* a statement that forgets FOR UPDATE waits for nobody
CopyFree(c) == \A p \in Procs : ~HoldsCopy(p, c)
LoanFree(l) == \A p \in Procs : ~HoldsLoan(p, l)
ResvFree(r) == \A p \in Procs : ~HoldsResv(p, r)

Exists(c)    == copyStatus[c] \in CopyStatus
SchoolOf(c)  == BookSchool[BookOf[c]]
AnySchool(u, c)  == TRUE    \* the users query without AND school_id = $2
SameSchool(u, c) == UserSchool[u] = SchoolOf(c)
UpToLimit(n, limit)  == n <= limit   \* off by one
BelowLimit(n, limit) == n < limit
OpenLoans(u) == {l \in DOMAIN loans : loans[l].user = u /\ loans[l].status \in OpenStatus}
Unpaid(u)    == {f \in DOMAIN fines : fines[f].user = u /\ fines[f].status = "unpaid"}
Live(r)      == resv[r].status \in {"pending", "ready"}
Pending(b)   == {r \in DOMAIN resv : resv[r].book = b /\ resv[r].status = "pending"}
InFlight(ss) == Cardinality({p \in Procs : pc[p] \in ss})

Start(p, kind, step, r) ==
    /\ kind \in Workload
    /\ pc[p] = "idle"
    /\ pc' = [pc EXCEPT ![p] = step]
    /\ req' = [req EXCEPT ![p] = r]
    /\ UNCHANGED <<tables, now>>

Goto(p, step, r) ==
    /\ pc' = [pc EXCEPT ![p] = step]
    /\ req' = [req EXCEPT ![p] = r]

Finish(p) == Goto(p, "idle", NoReq)

(***************************************************************************)
(* POST /borrow.  The copy row stays locked from the first statement on;   *)
(* the account, the loans and the fines are read without a lock, one       *)
(* statement each.                                                         *)
(***************************************************************************)
BorrowLock(p, c, u) ==
    /\ copyStatus[c] = "available" /\ CopyFree(c)
    /\ Len(loans) + InFlight(BorrowSteps) < MaxLoans
    /\ Start(p, "borrow", "borrow_user", [NoReq EXCEPT !.copy = c, !.user = u])

BorrowUser(p) ==
    /\ pc[p] = "borrow_user"
    /\ LET u == req[p].user
       IN  IF SameSchool(u, req[p].copy) /\ account[u].status = "active"
           THEN Goto(p, "borrow_count", [req[p] EXCEPT !.limit = account[u].max])
           ELSE Finish(p)
    /\ UNCHANGED <<tables, now>>

BorrowCount(p) ==
    /\ pc[p] = "borrow_count"
    /\ IF BelowLimit(Cardinality(OpenLoans(req[p].user)), req[p].limit)
       THEN Goto(p, "borrow_fines", req[p])
       ELSE Finish(p)
    /\ UNCHANGED <<tables, now>>

(* Lending without a look at the fines. *)
BorrowUnpaid(p) ==
    /\ pc[p] = "borrow_fines"
    /\ \E due \in {now + Days(LoanDays)} \cup TypedDues :
          Goto(p, "borrow_commit", [req[p] EXCEPT !.due = due])
    /\ UNCHANGED <<tables, now>>

BorrowFines(p) ==
    /\ pc[p] = "borrow_fines"
    /\ \E due \in {now + Days(LoanDays)} \cup TypedDues :
          IF Unpaid(req[p].user) = {}
          THEN Goto(p, "borrow_commit", [req[p] EXCEPT !.due = due])
          ELSE Finish(p)
    /\ UNCHANGED <<tables, now>>

BorrowCommit(p) ==
    /\ pc[p] = "borrow_commit"
    /\ loans' = Append(loans, [copy |-> req[p].copy, user |-> req[p].user,
                               due |-> req[p].due, renewed |-> 0,
                               status |-> "borrowed", back |-> 0])
    /\ copyStatus' = [copyStatus EXCEPT ![req[p].copy] = "borrowed"]
    /\ Finish(p)
    /\ UNCHANGED <<resv, fines, notices, account, now>>

(***************************************************************************)
(* POST /borrow/:id/return, with {lost} or {damaged} or neither.  The      *)
(* record is locked first, then the copy, then the reservation to promote. *)
(* The promoting SELECT sorts the pending rows of its snapshot and locks   *)
(* the first: it waits for a row another transaction holds and goes on to  *)
(* the next one if the row is no longer pending when it gets the lock.     *)
(***************************************************************************)
ReturnLock(p, l, to) ==
    /\ loans[l].status # "returned" /\ LoanFree(l)
    /\ Start(p, "return", "return_copy",
             [NoReq EXCEPT !.copy = loans[l].copy, !.user = loans[l].user,
                           !.row = l, !.due = loans[l].due, !.at = now, !.to = to])

ReturnCopy(p) ==
    /\ pc[p] = "return_copy" /\ CopyFree(req[p].copy)
    /\ IF req[p].to = "available"
       THEN Goto(p, "return_promote",
                 [req[p] EXCEPT !.queue = Pending(BookOf[req[p].copy])])
       ELSE Goto(p, "return_commit", req[p])
    /\ UNCHANGED <<tables, now>>

IsNewest(r, S) == \A s \in S : r >= s   \* ORDER BY reserved_at DESC
IsOldest(r, S) == \A s \in S : r <= s

(* A promotion that waits for its first choice even after it was cancelled. *)
PromoteFirst(p, r) ==
    /\ ResvFree(r) /\ resv[r].status = "pending"
    /\ Goto(p, "return_commit", [req[p] EXCEPT !.pick = r])

Promote(p, r) ==
    /\ ResvFree(r)
    /\ IF resv[r].status = "pending"
       THEN Goto(p, "return_commit", [req[p] EXCEPT !.pick = r])
       ELSE Goto(p, "return_promote", [req[p] EXCEPT !.queue = @ \ {r}])

ReturnPromote(p) ==
    /\ pc[p] = "return_promote"
    /\ \/ req[p].queue = {} /\ Goto(p, "return_commit", req[p])
       \/ \E r \in req[p].queue : IsOldest(r, req[p].queue) /\ Promote(p, r)
    /\ UNCHANGED <<tables, now>>

(* A damage fine that forgets to look at the outcome. *)
FinesAlways(q) ==
    <<[loan |-> q.row, user |-> q.user, reason |-> q.to, days |-> 0, status |-> "unpaid"]>>

NewFines(q) ==
    LET fine(reason, days) == [loan |-> q.row, user |-> q.user, reason |-> reason,
                               days |-> days, status |-> "unpaid"]
    IN  (IF q.at > q.due THEN <<fine("overdue", DaysLate(q.due, q.at))>> ELSE <<>>)
        \o (IF q.to # "available" THEN <<fine(q.to, 0)>> ELSE <<>>)

ReturnCommit(p) ==
    /\ pc[p] = "return_commit"
    /\ LET q == req[p]
           r == q.pick
       IN  /\ loans' = [loans EXCEPT ![q.row].status = "returned", ![q.row].back = q.at]
           /\ fines' = fines \o NewFines(q)
           /\ copyStatus' = [copyStatus EXCEPT ![q.copy] = q.to]
           /\ resv' = IF r = 0 THEN resv
                      ELSE [resv EXCEPT ![r].status = "ready",
                                        ![r].expires = q.at + Days(HoldDays)]
           /\ notices' = IF r = 0 THEN notices
                         ELSE [notices EXCEPT ![resv[r].user] = @ + 1]
    /\ Finish(p)
    /\ UNCHANGED <<account, now>>

(***************************************************************************)
(* POST /borrow/:id/renew, by the borrower or the staff.                   *)
(***************************************************************************)
RenewLock(p, l) ==
    /\ LoanFree(l)
    /\ loans[l].status = "borrowed" /\ now <= loans[l].due /\ loans[l].renewed < 1
    /\ Start(p, "renew", "renew_check",
             [NoReq EXCEPT !.copy = loans[l].copy, !.row = l, !.due = loans[l].due])

RenewCheck(p) ==
    /\ pc[p] = "renew_check"
    /\ IF \E r \in DOMAIN resv : resv[r].book = BookOf[req[p].copy] /\ Live(r)
       THEN Finish(p)
       ELSE Goto(p, "renew_commit", req[p])
    /\ UNCHANGED <<tables, now>>

RenewCommit(p) ==
    /\ pc[p] = "renew_commit"
    /\ loans' = [loans EXCEPT ![req[p].row].due = req[p].due + Days(RenewDays),
                              ![req[p].row].renewed = @ + 1]
    /\ Finish(p)
    /\ UNCHANGED <<copyStatus, resv, fines, notices, account, now>>

(***************************************************************************)
(* POST /reservations by a reader: autocommitted statements, no lock.      *)
(* PATCH /reservations/:id by staff (any of their statuses, from any       *)
(* status) or by the owner (cancelled); its one UPDATE waits for the row.  *)
(***************************************************************************)
ReserveAvail(p, u, b) ==
    /\ UserSchool[u] = BookSchool[b]
    /\ \A c \in Copies : BookOf[c] = b => copyStatus[c] # "available"
    /\ Len(resv) + InFlight({"reserve_dup", "reserve_insert"}) < MaxResv
    /\ Start(p, "reserve", "reserve_dup", [NoReq EXCEPT !.user = u, !.book = b])

(* No look for a duplicate. *)
ReserveUnchecked(p) ==
    /\ pc[p] = "reserve_dup"
    /\ Goto(p, "reserve_insert", req[p])
    /\ UNCHANGED <<tables, now>>

(* A duplicate check that overlooks the reservations that are ready. *)
ReserveAgain(p) ==
    /\ pc[p] = "reserve_dup"
    /\ IF \E r \in Pending(req[p].book) : resv[r].user = req[p].user
       THEN Finish(p)
       ELSE Goto(p, "reserve_insert", req[p])
    /\ UNCHANGED <<tables, now>>

ReserveDup(p) ==
    /\ pc[p] = "reserve_dup"
    /\ IF \E r \in DOMAIN resv : /\ resv[r].book = req[p].book
                                 /\ resv[r].user = req[p].user
                                 /\ Live(r)
       THEN Finish(p)
       ELSE Goto(p, "reserve_insert", req[p])
    /\ UNCHANGED <<tables, now>>

ReserveInsert(p) ==
    /\ pc[p] = "reserve_insert"
    /\ resv' = Append(resv, [book |-> req[p].book, user |-> req[p].user,
                             status |-> "pending", expires |-> 0])
    /\ Finish(p)
    /\ UNCHANGED <<copyStatus, loans, fines, notices, account, now>>

Serve(p, kind) == kind \in Workload /\ pc[p] = "idle" /\ UNCHANGED <<pc, req, now>>

UpdateReservation(p, r, to) ==
    /\ ResvFree(r)
    /\ resv' = [resv EXCEPT ![r].status = to]
    /\ Serve(p, "resv_patch")
    /\ UNCHANGED <<copyStatus, loans, fines, notices, account>>

(***************************************************************************)
(* POST /fines/:id/pay and /waive: read, check, then update by id.         *)
(***************************************************************************)
SettleRead(p, f, to) ==
    /\ fines[f].status = "unpaid"
    /\ Start(p, "settle", "settle_update", [NoReq EXCEPT !.row = f, !.to = to])

SettleUpdate(p) ==
    /\ pc[p] = "settle_update"
    /\ fines' = [fines EXCEPT ![req[p].row].status = req[p].to]
    /\ Finish(p)
    /\ UNCHANGED <<copyStatus, loans, resv, notices, account, now>>

(***************************************************************************)
(* Staff's corrections: PATCH and DELETE of a copy, a new copy, PATCH of   *)
(* an account.  A DELETE that a borrow record refers to fails on its       *)
(* foreign key.                                                            *)
(***************************************************************************)
UpdateCopy(p, c, status) ==
    /\ Exists(c) /\ CopyFree(c)
    /\ copyStatus' = [copyStatus EXCEPT ![c] = status]
    /\ Serve(p, "copy_patch")
    /\ UNCHANGED <<loans, resv, fines, notices, account>>

CreateCopy(p, c) ==
    /\ copyStatus[c] = "absent"
    /\ copyStatus' = [copyStatus EXCEPT ![c] = "available"]
    /\ Serve(p, "copy_new")
    /\ UNCHANGED <<loans, resv, fines, notices, account>>

DeleteRead(p, c) ==
    /\ Exists(c) /\ copyStatus[c] # "borrowed"
    /\ Start(p, "copy_delete", "delete_row", [NoReq EXCEPT !.copy = c])

Records(c) == {l \in DOMAIN loans : loans[l].copy = c}

(* The DELETE without the foreign key of borrow_records. *)
DeleteUnchecked(p) ==
    /\ pc[p] = "delete_row" /\ CopyFree(req[p].copy)
    /\ copyStatus' = [copyStatus EXCEPT ![req[p].copy] = "deleted"]
    /\ Finish(p)
    /\ UNCHANGED <<loans, resv, fines, notices, account, now>>

(* The DELETE locks the copy; then its foreign key asks for one record     *)
(* that refers to the copy, FOR KEY SHARE, whichever it meets first.       *)
DeleteRow(p) ==
    /\ pc[p] = "delete_row" /\ CopyFree(req[p].copy)
    /\ \/ /\ Records(req[p].copy) = {}
          /\ copyStatus' = [copyStatus EXCEPT ![req[p].copy] = "deleted"]
          /\ Finish(p)
       \/ /\ \E l \in Records(req[p].copy) : Goto(p, "delete_check", [req[p] EXCEPT !.row = l])
          /\ UNCHANGED copyStatus
    /\ UNCHANGED <<loans, resv, fines, notices, account, now>>

(* ... waits for who has that record locked, and fails on it. *)
DeleteCheck(p) ==
    /\ pc[p] = "delete_check" /\ LoanFree(req[p].row)
    /\ Finish(p)
    /\ UNCHANGED <<tables, now>>

UpdateUser(p, u, patch) ==
    /\ account' = [account EXCEPT ![u] = patch]
    /\ Serve(p, "user_patch")
    /\ UNCHANGED <<copyStatus, loans, resv, fines, notices>>

(* The client goes away, a statement fails or the server stops: the open   *)
(* transaction is rolled back and the handler's later statements never run. *)
Abort(p) == pc[p] # "idle" /\ Finish(p) /\ UNCHANGED <<tables, now>>

(* Request p waits for a row that request q has locked. *)
WaitsFor(p, q) ==
    \/ pc[p] \in {"return_copy", "delete_row"} /\ HoldsCopy(q, req[p].copy)
    \/ pc[p] = "return_promote"
         /\ \E r \in req[p].queue : IsOldest(r, req[p].queue) /\ HoldsResv(q, r)
    \/ pc[p] = "delete_check" /\ HoldsLoan(q, req[p].row)

(* PostgreSQL looks for a circle of waits once a request has waited for    *)
(* deadlock_timeout, and ends one of those in it: an error for its client. *)
(* (Circles are of two requests: WaitsResolve in QueueProofs.)             *)
DeadlockFound(p) ==
    /\ \E q \in Procs : WaitsFor(p, q) /\ WaitsFor(q, p)
    /\ Finish(p)
    /\ UNCHANGED <<tables, now>>

Tick == now < MaxNow /\ now' = now + 1 /\ UNCHANGED <<tables, pc, req>>

(***************************************************************************)
(* The specification.                                                      *)
(***************************************************************************)
Init ==
    /\ copyStatus = [c \in Copies |-> IF c \in InitialCopies THEN "available" ELSE "absent"]
    /\ loans = <<>> /\ resv = <<>> /\ fines = <<>>
    /\ notices = [u \in Users |-> 0]
    /\ account = [u \in Users |-> [status |-> "active", max |-> DefaultMax]]
    /\ now = 1
    /\ pc = [p \in Procs |-> "idle"]
    /\ req = [p \in Procs |-> NoReq]

Arrive(p) ==
    \/ \E c \in Copies, u \in Users : BorrowLock(p, c, u)
    \/ \E l \in DOMAIN loans, to \in Outcomes : ReturnLock(p, l, to)
    \/ \E l \in DOMAIN loans : RenewLock(p, l)
    \/ \E u \in Users, b \in Books : ReserveAvail(p, u, b)
    \/ \E r \in DOMAIN resv, to \in StaffReservationStatuses : UpdateReservation(p, r, to)
    \/ \E f \in DOMAIN fines, to \in {"paid", "waived"} : SettleRead(p, f, to)
    \/ \E c \in Copies, status \in PatchStatuses : UpdateCopy(p, c, status)
    \/ \E c \in Copies : CreateCopy(p, c)
    \/ \E c \in Copies : DeleteRead(p, c)
    \/ \E u \in Users, patch \in AccountPatches : UpdateUser(p, u, patch)

Proceed(p) ==
    \/ BorrowUser(p) \/ BorrowCount(p) \/ BorrowFines(p) \/ BorrowCommit(p)
    \/ ReturnCopy(p) \/ ReturnPromote(p) \/ ReturnCommit(p)
    \/ RenewCheck(p) \/ RenewCommit(p)
    \/ ReserveDup(p) \/ ReserveInsert(p)
    \/ SettleUpdate(p) \/ DeleteRow(p) \/ DeleteCheck(p)

Next == Tick \/ \E p \in Procs : Arrive(p) \/ Proceed(p) \/ Abort(p) \/ DeadlockFound(p)

Spec == Init /\ [][Next]_vars

(* The runtime schedules every handler, and PostgreSQL grants a row lock   *)
(* to its waiters in the order they came, so a step that is enabled again  *)
(* and again is taken; a circle of waits is found in time.  Nothing makes  *)
(* requests arrive or the client stay.                                     *)
FairSpec == Spec /\ \A p \in Procs : SF_vars(Proceed(p)) /\ WF_vars(DeadlockFound(p))

-----------------------------------------------------------------------------
(* Types of the tables and of the handlers' locals. *)
TypeOK ==
    /\ copyStatus \in [Copies -> CopyStatus \cup {"absent", "deleted"}]
    /\ loans \in Seq(LoanRow)
    /\ resv \in Seq(ResvRow)
    /\ fines \in Seq(FineRow)
    /\ notices \in [Users -> Nat]
    /\ account \in [Users -> [status : UserStatus, max : Nat]]
    /\ now \in Nat
    /\ pc \in [Procs -> Steps \cup {"idle"}]
    /\ req \in [Procs -> Request]

OpenOn(c) == {l \in DOMAIN loans : loans[l].copy = c /\ loans[l].status \in OpenStatus}

(* A copy is never lent to two borrowers: two createBorrow requests, or a  *)
(* createBorrow and a returnBorrow, may race for it.  (Of careful staff:   *)
(* CarefulSpec in CirculationClaims.)                                      *)
LoanExclusive == \A c \in Copies : \A l, m \in OpenOn(c) : l = m

(* The two records of a loan agree: a copy marked available has no open    *)
(* loan, and a copy marked borrowed has one, though loans, returns and     *)
(* PATCHes of the copy overlap.  (Of careful staff, too.)                  *)
ShelfAgrees ==
    \A c \in Copies : /\ copyStatus[c] = "available" => OpenOn(c) = {}
                      /\ copyStatus[c] = "borrowed" => OpenOn(c) # {}

(* deleteCopy checks the status in one statement and deletes in another;   *)
(* still no loan, open or closed, ever loses its copy, nor does a          *)
(* createBorrow that has passed its first statement.                       *)
LoanKeepsCopy ==
    /\ \A l \in DOMAIN loans : Exists(loans[l].copy)
    /\ \A p \in Procs : pc[p] \in BorrowSteps => Exists(req[p].copy)

(* The check of max_borrow counts without a lock, so requests for the same *)
(* reader can overshoot it, but by no more than the other requests in      *)
(* flight.                                                                 *)
LimitBound ==
    LET limits == {DefaultMax} \cup {a.max : a \in AccountPatches}
        top    == CHOOSE n \in limits : \A m \in limits : m <= n
    IN  \A u \in Users : Cardinality(OpenLoans(u)) <= top + Cardinality(Procs) - 1

(* createReservation looks for a live one of the reader's in one statement *)
(* and inserts in another, so requests that overlap can leave duplicates,  *)
(* but no more of them wait in the queue than requests were in flight.     *)
DuplicatesBound ==
    \A u \in Users, b \in Books :
        Cardinality({r \in Pending(b) : resv[r].user = u}) <= Cardinality(Procs)

(* A returned record is never touched again: neither by a second return    *)
(* nor by a renewal that was under way.                                    *)
ReturnedIsFinal ==
    [][\A l \in DOMAIN loans : loans[l].status = "returned" => loans'[l] = loans[l]]_vars

(* Racing renewals of one loan extend it once. *)
RenewedAtMostOnce == \A l \in DOMAIN loans : loans[l].renewed <= 1

(* Fines follow from the return: none while the loan is open; after it, an *)
(* overdue fine exactly when the copy came back after the due date as it   *)
(* then stood, one only, charged to the borrower for every day begun.      *)
FinesMatchReturns ==
    \A l \in DOMAIN loans :
        LET of(reason) == {f \in DOMAIN fines : fines[f].loan = l /\ fines[f].reason = reason}
            late == loans[l].back - loans[l].due
        IN  /\ loans[l].status # "returned" => \A reason \in FineReason : of(reason) = {}
            /\ loans[l].status = "returned" => (of("overdue") # {} <=> late > 0)
            /\ \A reason \in FineReason : \A f, g \in of(reason) : f = g
            /\ \A f \in of("overdue") : /\ fines[f].user = loans[l].user
                                        /\ Days(fines[f].days - 1) < late
                                        /\ late <= Days(fines[f].days)

(* A return serves the queue of its book in order: a reservation that is   *)
(* told of a copy is older than every other one still pending then.        *)
PromotionFIFO ==
    [][\A r \in DOMAIN resv :
          resv'[r].expires # resv[r].expires =>
              \A s \in DOMAIN resv : s < r /\ resv[s].book = resv[r].book
                                         => resv[s].status # "pending"]_vars

(* Returns of two copies of one book promote two reservations: each        *)
(* promotion tells its owner once, no reservation is promoted twice.       *)
OneNoticePerPromotion ==
    \A u \in Users :
        notices[u] = Cardinality({r \in DOMAIN resv : resv[r].user = u /\ resv[r].expires # 0})

(* Nothing crosses schools: loans join a reader and a copy of one school,  *)
(* reservations a reader and a book of one school.                         *)
TenantIsolation ==
    /\ \A l \in DOMAIN loans : UserSchool[loans[l].user] = SchoolOf(loans[l].copy)
    /\ \A r \in DOMAIN resv : UserSchool[resv[r].user] = BookSchool[resv[r].book]

(* Every request that has started is answered: no promotion waits for a    *)
(* row that will never do, and of a return and a deletion that wait for    *)
(* each other's rows PostgreSQL ends one.                                  *)
EveryRequestEnds == \A p \in Procs : pc[p] # "idle" ~> pc[p] = "idle"
=============================================================================
