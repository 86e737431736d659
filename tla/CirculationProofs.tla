------------------------- MODULE CirculationProofs -------------------------
(***************************************************************************)
(* Proofs that the desk keeps its invariants, for any number of requests,  *)
(* copies, readers and schools.                                            *)
(***************************************************************************)
EXTENDS CirculationInv, SequenceTheorems, TLAPS

(* The request record of a process that holds nothing is a request. *)
LEMMA NoReqType == NoReq \in Request
  BY DEF NoReq, Request

(* A request in flight is at a statement: idle is not one. *)
LEMMA IdleOrNot == "idle" \notin Steps
  BY DEF Steps, BorrowSteps, ReturnSteps, ReturnLocked, CopyHolding, RenewSteps, OtherSteps

(* Days and days late are natural numbers, a fine's days whenever there is one. *)
LEMMA DaysType == \A n \in Nat : Days(n) \in Nat
  BY TimeAssumption DEF Days

(* A late return is late by a natural number of days. *)
LEMMA DaysLateType == ASSUME NEW due \in Nat, NEW at \in Nat, at > due
                      PROVE  DaysLate(due, at) \in Nat
<1>1. TicksPerDay \in Nat /\ TicksPerDay > 0
  BY TimeAssumption
<1>2. at - due + TicksPerDay - 1 \in Nat
  BY <1>1
<1>3. QED
  BY <1>1, <1>2 DEF DaysLate

(* A row of a table is a record of its type. *)
LEMMA RowTypes ==
    ASSUME TypeOK
    PROVE  /\ \A l \in DOMAIN loans : loans[l] \in LoanRow
           /\ \A r \in DOMAIN resv : resv[r] \in ResvRow
           /\ \A f \in DOMAIN fines : fines[f] \in FineRow
           /\ DOMAIN loans = 1 .. Len(loans) /\ DOMAIN resv = 1 .. Len(resv)
           /\ DOMAIN fines = 1 .. Len(fines)
           /\ Len(loans) \in Nat /\ Len(resv) \in Nat /\ Len(fines) \in Nat
  BY ElementOfSeq, LenProperties DEF TypeOK

-----------------------------------------------------------------------------
(* Initially every table is empty and every process idle. *)
LEMMA InitIInv == Init => IInv
<1> SUFFICES ASSUME Init PROVE IInv
  OBVIOUS
<1>1. TypeOK
  <2>1. copyStatus \in [Copies -> CopyStatus \cup {"absent", "deleted"}]
    BY DEF Init, CopyStatus
  <2>2. account \in [Users -> [status : UserStatus, max : Nat]]
    BY PatchAssumption DEF Init, UserStatus
  <2>3. loans \in Seq(LoanRow) /\ resv \in Seq(ResvRow) /\ fines \in Seq(FineRow)
    BY EmptySeq DEF Init
  <2>4. QED
    BY <2>1, <2>2, <2>3, NoReqType DEF Init, TypeOK
<1>2. RowsOK /\ LocksOK
  BY IdleOrNot DEF Init, RowsOK, LocksOK, CopyLockers, LoanLockers, Steps, ReturnSteps, CopyHolding
<1>3. \A p \in Procs : ReqOK(p)
  BY DEF Init, ReqOK, BorrowSteps, ReturnSteps, ReturnLocked, CopyHolding, RenewSteps
<1>4. QED
  BY <1>1, <1>2, <1>3 DEF IInv

-----------------------------------------------------------------------------
(* A step that writes no table: process p goes on to a later statement, or *)
(* starts, or ends.  It is enough to look at what p knows and to the rows  *)
(* it has locked.                                                          *)
LEMMA Move ==
    ASSUME IInv, UNCHANGED tables, now' \in Nat,
           NEW p \in Procs, NEW step \in Steps \cup {"idle"}, NEW r \in Request,
           Goto(p, step, r),
           ReqOK(p)',
           step \in CopyHolding =>
               \A q \in CopyLockers \ {p} : req[q].copy # r.copy,
           step \in ReturnSteps \cup RenewSteps =>
               \A q \in LoanLockers \ {p} : req[q].row # r.row
    PROVE  IInv'
<1>0. TypeOK /\ RowsOK /\ LocksOK /\ \A q \in Procs : ReqOK(q)
  BY DEF IInv
<1>1. TypeOK'
  BY <1>0 DEF TypeOK, tables, Goto
<1>2. RowsOK'
  BY <1>0 DEF RowsOK, tables, Exists
<1>3. \A q \in Procs \ {p} : pc'[q] = pc[q] /\ req'[q] = req[q]
  BY <1>0 DEF Goto, TypeOK
<1>4. pc'[p] = step /\ req'[p] = r
  BY <1>0 DEF Goto, TypeOK
<1>5. LocksOK'
  BY <1>0, <1>3, <1>4 DEF LocksOK, CopyLockers, LoanLockers
<1>6. \A q \in Procs \ {p} : ReqOK(q)'
  BY <1>0, <1>3 DEF ReqOK, BorrowOK, ReturnOK, RenewOK, ReserveOK, tables
<1>7. QED
  BY <1>1, <1>2, <1>5, <1>6 DEF IInv

(* The statements that only read, and every way to give a request up. *)
LEMMA ReadSteps ==
    ASSUME IInv, NEW p \in Procs,
           \/ Abort(p) \/ DeadlockFound(p) \/ DeleteCheck(p) \/ BorrowUser(p) \/ BorrowCount(p) \/ BorrowFines(p)
           \/ ReturnCopy(p) \/ ReturnPromote(p) \/ RenewCheck(p) \/ ReserveDup(p)
    PROVE  IInv'
<1>0. /\ TypeOK /\ RowsOK /\ LocksOK /\ ReqOK(p) /\ req[p] \in Request
      /\ UNCHANGED tables /\ now' \in Nat
  BY DEF IInv, TypeOK, Abort, DeadlockFound, DeleteCheck, BorrowUser, BorrowCount, BorrowFines,
         ReturnCopy, ReturnPromote, RenewCheck, ReserveDup
<1> USE <1>0
<1>1. ASSUME Finish(p) PROVE IInv'
  <2>1. ReqOK(p)'
    BY <1>1 DEF Finish, Goto, TypeOK, ReqOK, BorrowSteps, ReturnSteps, ReturnLocked, CopyHolding, RenewSteps
  <2>2. QED
    BY <1>1, <2>1, Move, NoReqType
       DEF Finish, BorrowSteps, ReturnSteps, ReturnLocked, CopyHolding, RenewSteps
<1>2. ASSUME NEW step \in Steps, NEW r \in Request, Goto(p, step, r), ReqOK(p)',
             step \in CopyHolding =>
                 pc[p] \in CopyHolding \/ (pc[p] = "return_copy" /\ CopyFree(req[p].copy)),
             step \in ReturnSteps \cup RenewSteps => pc[p] \in ReturnSteps \cup RenewSteps,
             r.copy = req[p].copy, r.row = req[p].row
      PROVE  IInv'
  <2>1. step \in CopyHolding => \A q \in CopyLockers \ {p} : req[q].copy # r.copy
    BY <1>2 DEF LocksOK, CopyLockers, CopyFree, HoldsCopy
  <2>2. step \in ReturnSteps \cup RenewSteps => \A q \in LoanLockers \ {p} : req[q].row # r.row
    BY <1>2 DEF LocksOK, LoanLockers
  <2>3. QED
    BY <1>2, <2>1, <2>2, Move
<1>3. CASE Abort(p) \/ DeadlockFound(p) \/ DeleteCheck(p)
  BY <1>3, <1>1 DEF Abort, DeadlockFound, DeleteCheck
<1>4. CASE BorrowUser(p)
  <2>1. CASE Finish(p)
    BY <2>1, <1>1
  <2> DEFINE r == [req[p] EXCEPT !.limit = account[req[p].user].max]
  <2>2. CASE SameSchool(req[p].user, req[p].copy) /\ Goto(p, "borrow_count", r)
    <3>1. r \in Request /\ r.copy = req[p].copy /\ r.row = req[p].row /\ r.user = req[p].user
      BY <1>4 DEF TypeOK, Request, BorrowUser, ReqOK, BorrowOK, BorrowSteps
    <3>2. ReqOK(p)'
      BY <1>4, <2>2, <3>1 DEF BorrowUser, Goto, TypeOK, ReqOK, BorrowOK, BorrowSteps,
         ReturnSteps, ReturnLocked, CopyHolding, RenewSteps, tables, SameSchool, SchoolOf
    <3> HIDE DEF r
    <3>3. QED
      BY <1>2, <1>4, <2>2, <3>1, <3>2
         DEF BorrowUser, BorrowSteps, ReturnSteps, ReturnLocked, CopyHolding, RenewSteps, Steps
  <2>3. QED
    BY <2>1, <2>2, <1>4 DEF BorrowUser
<1>5. CASE BorrowCount(p)
  <2>1. CASE Finish(p)
    BY <2>1, <1>1
  <2>2. CASE Goto(p, "borrow_fines", req[p])
    <3>1. ReqOK(p)'
      BY <1>5, <2>2 DEF BorrowCount, Goto, TypeOK, ReqOK, BorrowOK, BorrowSteps,
         ReturnSteps, ReturnLocked, CopyHolding, RenewSteps, tables, SameSchool, SchoolOf
    <3>2. QED
      BY <1>2, <1>5, <2>2, <3>1
         DEF BorrowCount, BorrowSteps, ReturnSteps, ReturnLocked, CopyHolding, RenewSteps, Steps
  <2>3. QED
    BY <2>1, <2>2, <1>5 DEF BorrowCount
<1>6. CASE BorrowFines(p)
  <2>1. CASE Finish(p)
    BY <2>1, <1>1
  <2>2. ASSUME NEW due \in {now + Days(LoanDays)} \cup TypedDues,
               Goto(p, "borrow_commit", [req[p] EXCEPT !.due = due])
        PROVE  IInv'
    <3> DEFINE r == [req[p] EXCEPT !.due = due]
    <3>1. due \in Nat
      <4>1. Days(LoanDays) \in Nat
        BY TimeAssumption, DaysType
      <4>2. now + Days(LoanDays) \in Nat
        BY <4>1 DEF TypeOK
      <4>3. QED
        BY <4>2, TimeAssumption
    <3>2. r \in Request /\ r.copy = req[p].copy /\ r.row = req[p].row /\ r.user = req[p].user
      BY <3>1 DEF Request
    <3>3. ReqOK(p)'
      BY <1>6, <2>2, <3>2 DEF BorrowFines, Goto, TypeOK, ReqOK, BorrowOK, BorrowSteps,
         ReturnSteps, ReturnLocked, CopyHolding, RenewSteps, tables, SameSchool, SchoolOf
    <3> HIDE DEF r
    <3>4. QED
      BY <1>2, <1>6, <2>2, <3>2, <3>3
         DEF r, BorrowFines, BorrowSteps, ReturnSteps, ReturnLocked, CopyHolding, RenewSteps, Steps
  <2>3. QED
    BY <2>1, <2>2, <1>6 DEF BorrowFines
<1>7. CASE ReturnCopy(p)
  <2> DEFINE r == [req[p] EXCEPT !.queue = Pending(BookOf[req[p].copy])]
  <2>0. CASE Goto(p, "return_commit", req[p])
    <3>1. ReqOK(p)'
      BY <1>7, <2>0 DEF ReturnCopy, Goto, TypeOK, ReqOK, ReturnOK, BorrowSteps,
         ReturnSteps, ReturnLocked, CopyHolding, RenewSteps, tables
    <3>2. QED
      BY <1>2, <1>7, <2>0, <3>1
         DEF ReturnCopy, BorrowSteps, ReturnSteps, ReturnLocked, CopyHolding, RenewSteps, Steps
  <2>1. CASE Goto(p, "return_promote", r)
    <3>1. Pending(BookOf[req[p].copy]) \subseteq Nat
      BY LenProperties DEF TypeOK, Pending
    <3>2. r \in Request /\ r.copy = req[p].copy /\ r.row = req[p].row
          /\ r.user = req[p].user /\ r.due = req[p].due /\ r.to = req[p].to
      BY <3>1 DEF Request
    <3>3. ReqOK(p)'
      BY <1>7, <2>1, <3>2 DEF ReturnCopy, Goto, TypeOK, ReqOK, ReturnOK, BorrowSteps,
         ReturnSteps, ReturnLocked, CopyHolding, RenewSteps, tables
    <3> HIDE DEF r
    <3>4. QED
      BY <1>2, <1>7, <2>1, <3>2, <3>3
         DEF ReturnCopy, BorrowSteps, ReturnSteps, ReturnLocked, CopyHolding, RenewSteps, Steps
  <2>2. QED
    BY <2>0, <2>1, <1>7 DEF ReturnCopy
<1>8. CASE ReturnPromote(p)
  <2>1. ASSUME NEW step \in {"return_promote", "return_commit"}, NEW r \in Request,
               Goto(p, step, r), r.copy = req[p].copy, r.row = req[p].row,
               r.user = req[p].user, r.due = req[p].due, r.to = req[p].to
        PROVE  IInv'
    <3>1. ReqOK(p)'
      BY <1>8, <2>1 DEF ReturnPromote, Goto, TypeOK, ReqOK, ReturnOK, BorrowSteps,
         ReturnSteps, ReturnLocked, CopyHolding, RenewSteps, tables
    <3>2. QED
      BY <1>2, <1>8, <2>1, <3>1
         DEF ReturnPromote, BorrowSteps, ReturnSteps, ReturnLocked, CopyHolding, RenewSteps, Steps
  <2>2. CASE Goto(p, "return_commit", req[p])
    BY <2>1, <2>2
  <2>3. ASSUME NEW r \in req[p].queue, Promote(p, r)
        PROVE  IInv'
    <3>1. r \in Nat
      BY DEF Request
    <3> DEFINE picked == [req[p] EXCEPT !.pick = r]
               shorter == [req[p] EXCEPT !.queue = @ \ {r}]
    <3>2. /\ picked \in Request /\ picked.copy = req[p].copy /\ picked.row = req[p].row
          /\ picked.user = req[p].user /\ picked.due = req[p].due /\ picked.to = req[p].to
      BY <3>1 DEF Request
    <3>3. /\ shorter \in Request /\ shorter.copy = req[p].copy /\ shorter.row = req[p].row
          /\ shorter.user = req[p].user /\ shorter.due = req[p].due /\ shorter.to = req[p].to
      BY DEF Request
    <3>4. Goto(p, "return_commit", picked) \/ Goto(p, "return_promote", shorter)
      BY <2>3 DEF Promote
    <3> HIDE DEF picked, shorter
    <3>5. QED
      BY <2>1, <3>2, <3>3, <3>4
  <2>4. QED
    BY <2>2, <2>3, <1>8 DEF ReturnPromote
<1>9. CASE RenewCheck(p)
  <2>1. CASE Finish(p)
    BY <2>1, <1>1
  <2>2. CASE Goto(p, "renew_commit", req[p])
    <3>1. ReqOK(p)'
      BY <1>9, <2>2 DEF RenewCheck, Goto, TypeOK, ReqOK, RenewOK, BorrowSteps,
         ReturnSteps, ReturnLocked, CopyHolding, RenewSteps, tables
    <3>2. QED
      BY <1>2, <1>9, <2>2, <3>1
         DEF RenewCheck, BorrowSteps, ReturnSteps, ReturnLocked, CopyHolding, RenewSteps, Steps
  <2>3. QED
    BY <2>1, <2>2, <1>9 DEF RenewCheck
<1>10. CASE ReserveDup(p)
  <2>1. CASE Finish(p)
    BY <2>1, <1>1
  <2>2. CASE Goto(p, "reserve_insert", req[p])
    <3>1. ReqOK(p)'
      BY <1>10, <2>2 DEF ReserveDup, Goto, TypeOK, ReqOK, ReserveOK, BorrowSteps,
         ReturnSteps, ReturnLocked, CopyHolding, RenewSteps, tables
    <3>2. QED
      BY <1>2, <1>10, <2>2, <3>1
         DEF BorrowSteps, ReturnSteps, ReturnLocked, CopyHolding, RenewSteps, Steps, OtherSteps
  <2>3. QED
    BY <2>1, <2>2, <1>10 DEF ReserveDup
<1>11. QED
  BY <1>3, <1>4, <1>5, <1>6, <1>7, <1>8, <1>9, <1>10

-----------------------------------------------------------------------------
(* A request that ends gives its locks up and leaves the others alone. *)
LEMMA EndOf ==
    ASSUME TypeOK, NEW p \in Procs, Finish(p)
    PROVE  /\ pc' \in [Procs -> Steps \cup {"idle"}] /\ req' \in [Procs -> Request]
           /\ \A q \in Procs \ {p} : pc'[q] = pc[q] /\ req'[q] = req[q]
           /\ ReqOK(p)'
           /\ LocksOK => LocksOK'
<1>1. pc'[p] = "idle" /\ \A q \in Procs \ {p} : pc'[q] = pc[q] /\ req'[q] = req[q]
  BY DEF TypeOK, Finish, Goto
<1>2. ReqOK(p)'
  BY <1>1 DEF ReqOK, BorrowSteps, ReturnSteps, ReturnLocked, CopyHolding, RenewSteps
<1>3. CopyLockers' \subseteq CopyLockers \ {p} /\ LoanLockers' \subseteq LoanLockers \ {p}
  BY <1>1 DEF CopyLockers, LoanLockers, BorrowSteps, ReturnSteps, ReturnLocked, CopyHolding, RenewSteps
<1>4. LocksOK => LocksOK'
  BY <1>1, <1>3 DEF LocksOK, CopyLockers, LoanLockers
<1>5. pc' \in [Procs -> Steps \cup {"idle"}] /\ req' \in [Procs -> Request]
  BY NoReqType DEF TypeOK, Finish, Goto
<1>6. QED
  BY <1>1, <1>2, <1>4, <1>5

(* createBorrow's commit: a new open record, and the copy it has locked is *)
(* marked borrowed.                                                        *)
LEMMA BorrowCommitRows ==
    ASSUME IInv, NEW p \in Procs, BorrowCommit(p)
    PROVE  /\ BorrowOK(p) /\ SameSchool(req[p].user, req[p].copy) /\ p \in CopyLockers
           /\ loans' \in Seq(LoanRow) /\ DOMAIN loans' = DOMAIN loans \cup {Len(loans) + 1}
           /\ Len(loans) + 1 \notin DOMAIN loans
           /\ loans'[Len(loans) + 1] = [copy |-> req[p].copy, user |-> req[p].user,
                                        due |-> req[p].due, renewed |-> 0,
                                        status |-> "borrowed", back |-> 0]
           /\ \A l \in DOMAIN loans : loans'[l] = loans[l]
           /\ copyStatus' \in [Copies -> CopyStatus \cup {"absent", "deleted"}]
           /\ copyStatus'[req[p].copy] = "borrowed"
           /\ \A c \in Copies \ {req[p].copy} : copyStatus'[c] = copyStatus[c]
<1>0. TypeOK /\ ReqOK(p)
  BY DEF IInv
<1>1. BorrowOK(p) /\ SameSchool(req[p].user, req[p].copy) /\ p \in CopyLockers
  BY <1>0 DEF BorrowCommit, ReqOK, BorrowOK, BorrowSteps, CopyHolding, CopyLockers
<1> DEFINE row == [copy |-> req[p].copy, user |-> req[p].user, due |-> req[p].due,
                   renewed |-> 0, status |-> "borrowed", back |-> 0]
<1>2. row \in LoanRow
  BY <1>0, <1>1 DEF LoanRow, BorrowOK, TypeOK, Request, LoanStatus
<1>3. loans' = Append(loans, row)
  BY DEF BorrowCommit
<1> HIDE DEF row
<1>4. /\ loans' \in Seq(LoanRow) /\ DOMAIN loans' = DOMAIN loans \cup {Len(loans) + 1}
      /\ Len(loans) + 1 \notin DOMAIN loans
      /\ loans'[Len(loans) + 1] = row
      /\ \A l \in DOMAIN loans : loans'[l] = loans[l]
  BY <1>0, <1>2, <1>3, RowTypes DEF TypeOK
<1>5. /\ copyStatus' \in [Copies -> CopyStatus \cup {"absent", "deleted"}]
      /\ copyStatus'[req[p].copy] = "borrowed"
      /\ \A c \in Copies \ {req[p].copy} : copyStatus'[c] = copyStatus[c]
  BY <1>0, <1>1 DEF BorrowCommit, TypeOK, BorrowOK, CopyStatus
<1>6. QED
  BY <1>1, <1>4, <1>5 DEF row

(* createBorrow's commit adds a loan of an available copy and keeps IInv. *)
LEMMA BorrowCommitInv ==
    ASSUME IInv, NEW p \in Procs, BorrowCommit(p)
    PROVE  IInv'
<1>0. TypeOK /\ RowsOK /\ LocksOK /\ Finish(p) /\ \A q \in Procs : ReqOK(q)
  BY DEF IInv, BorrowCommit
<1>1. BorrowOK(p) /\ SameSchool(req[p].user, req[p].copy) /\ p \in CopyLockers
  BY BorrowCommitRows
<1>4. /\ loans' \in Seq(LoanRow) /\ DOMAIN loans' = DOMAIN loans \cup {Len(loans) + 1}
      /\ LET new == loans'[Len(loans) + 1]
         IN  /\ new.copy = req[p].copy /\ new.user = req[p].user
             /\ new.renewed = 0 /\ new.status = "borrowed"
      /\ \A l \in DOMAIN loans : loans'[l] = loans[l]
  <2> DEFINE n == Len(loans) + 1
  <2>1. loans'[n] = [copy |-> req[p].copy, user |-> req[p].user, due |-> req[p].due,
                     renewed |-> 0, status |-> "borrowed", back |-> 0]
    BY BorrowCommitRows
  <2> HIDE DEF n
  <2>2. /\ loans'[n].copy = req[p].copy /\ loans'[n].user = req[p].user
        /\ loans'[n].renewed = 0 /\ loans'[n].status = "borrowed"
    BY <2>1
  <2>3. QED
    BY <2>2, BorrowCommitRows DEF n
<1>5. /\ copyStatus' \in [Copies -> CopyStatus \cup {"absent", "deleted"}]
      /\ copyStatus'[req[p].copy] = "borrowed"
      /\ \A c \in Copies \ {req[p].copy} : copyStatus'[c] = copyStatus[c]
  BY BorrowCommitRows
<1>6. TypeOK'
  BY <1>0, <1>4, <1>5, EndOf DEF TypeOK, BorrowCommit
<1>7. RowsOK'
  <2>1. ASSUME NEW l \in DOMAIN loans'
        PROVE  /\ copyStatus'[loans'[l].copy] \in CopyStatus
               /\ SameSchool(loans'[l].user, loans'[l].copy)
               /\ loans'[l].status \in {"borrowed", "returned"} /\ loans'[l].renewed <= 1
    <3>1. CASE l = Len(loans) + 1
      BY <3>1, <1>1, <1>4, <1>5 DEF CopyStatus
    <3>2. CASE l \in DOMAIN loans
      <4>1. loans[l].copy \in Copies
        BY <3>2, <1>0, RowTypes DEF LoanRow
      <4>2. copyStatus[loans[l].copy] \in CopyStatus
        BY <3>2, <1>0 DEF RowsOK, Exists
      <4>3. QED
        BY <4>1, <4>2, <3>2, <1>0, <1>4, <1>5 DEF RowsOK, CopyStatus
    <3>3. QED
      BY <3>1, <3>2, <1>4
  <2>2. QED
    BY <2>1, <1>0 DEF RowsOK, BorrowCommit, SameSchool, SchoolOf, Exists
<1>8. ASSUME NEW q \in Procs \ {p} PROVE ReqOK(q)'
  <2>1. pc'[q] = pc[q] /\ req'[q] = req[q] /\ ReqOK(q)
    BY <1>0, EndOf
  <2>2. pc[q] \in BorrowSteps => req[q].copy # req[p].copy
    BY <1>0, <1>1 DEF LocksOK, CopyLockers, CopyHolding
  <2>3. pc[q] \in BorrowSteps => BorrowOK(q)'
    BY <2>1, <2>2, <1>5 DEF ReqOK, BorrowOK, SameSchool, SchoolOf
  <2>4. QED
    BY <2>1, <2>3, <1>4 DEF ReqOK, ReturnOK, RenewOK, ReserveOK
<1>9. QED
  BY <1>0, <1>6, <1>7, <1>8, EndOf DEF IInv

(* renewBorrow's commit writes the record it has locked. *)
LEMMA RenewCommitRows ==
    ASSUME IInv, NEW p \in Procs, RenewCommit(p)
    PROVE  LET l == req[p].row
           IN  /\ RenewOK(p) /\ p \in LoanLockers
               /\ loans' \in Seq(LoanRow) /\ DOMAIN loans' = DOMAIN loans
               /\ loans'[l].copy = loans[l].copy /\ loans'[l].user = loans[l].user
               /\ loans'[l].status = loans[l].status /\ loans'[l].renewed = 1
               /\ \A m \in DOMAIN loans \ {l} : loans'[m] = loans[m]
<1>0. TypeOK /\ \A q \in Procs : ReqOK(q)
  BY DEF IInv
<1> DEFINE l == req[p].row
           due == req[p].due + Days(RenewDays)
           row == [loans[l] EXCEPT !.due = due, !.renewed = @ + 1]
<1>1. RenewOK(p) /\ p \in LoanLockers
  BY <1>0 DEF RenewCommit, ReqOK, RenewSteps, LoanLockers
<1>2. l \in DOMAIN loans /\ loans[l] \in LoanRow /\ loans[l].renewed = 0
  BY <1>0, <1>1, RowTypes DEF RenewOK
<1>3. due \in Nat
  <2>1. Days(RenewDays) \in Nat
    BY TimeAssumption, DaysType
  <2>2. req[p].due \in Nat
    BY <1>0 DEF TypeOK, Request
  <2>3. QED
    BY <2>1, <2>2
<1>4. loans' = [loans EXCEPT ![l] = row]
  BY <1>2 DEF RenewCommit, LoanRow
<1> HIDE DEF due
<1>5. /\ row \in LoanRow /\ row.copy = loans[l].copy /\ row.user = loans[l].user
      /\ row.status = loans[l].status /\ row.renewed = 1
  <2>1. row = [loans[l] EXCEPT !.due = due, !.renewed = 1]
    BY <1>2
  <2> HIDE DEF row, l
  <2>2. QED
    BY <2>1, <1>2, <1>3 DEF LoanRow
<1> HIDE DEF row
<1>6. /\ loans' \in Seq(LoanRow) /\ DOMAIN loans' = DOMAIN loans /\ loans'[l] = row
      /\ \A m \in DOMAIN loans \ {l} : loans'[m] = loans[m]
  BY <1>0, <1>2, <1>4, <1>5, ExceptSeq, LenProperties DEF TypeOK
<1>7. QED
  BY <1>1, <1>5, <1>6

(* renewBorrow's commit extends the one record it locked and keeps IInv. *)
LEMMA RenewCommitInv ==
    ASSUME IInv, NEW p \in Procs, RenewCommit(p)
    PROVE  IInv'
<1>0. TypeOK /\ RowsOK /\ LocksOK /\ Finish(p) /\ \A q \in Procs : ReqOK(q)
  BY DEF IInv, RenewCommit
<1> DEFINE l == req[p].row
<1>1. RenewOK(p) /\ p \in LoanLockers /\ l \in DOMAIN loans
  BY RenewCommitRows DEF RenewOK
<1>6. /\ loans' \in Seq(LoanRow) /\ DOMAIN loans' = DOMAIN loans
      /\ loans'[l].copy = loans[l].copy /\ loans'[l].user = loans[l].user
      /\ loans'[l].status = loans[l].status /\ loans'[l].renewed = 1
      /\ \A m \in DOMAIN loans \ {l} : loans'[m] = loans[m]
  BY RenewCommitRows
<1>7. TypeOK'
  BY <1>0, <1>6, EndOf DEF TypeOK, RenewCommit
<1>8. RowsOK'
  <2>1. ASSUME NEW m \in DOMAIN loans
        PROVE  /\ loans'[m].copy = loans[m].copy /\ loans'[m].user = loans[m].user
               /\ loans'[m].status = loans[m].status
               /\ loans'[m].renewed \in {loans[m].renewed, 1}
    BY <1>6
  <2>2. ASSUME NEW m \in DOMAIN loans
        PROVE  /\ copyStatus[loans'[m].copy] \in CopyStatus
               /\ SameSchool(loans'[m].user, loans'[m].copy)
               /\ loans'[m].status \in {"borrowed", "returned"} /\ loans'[m].renewed <= 1
    BY <2>1, <1>0 DEF RowsOK, Exists
  <2>3. DOMAIN loans' = DOMAIN loans /\ copyStatus' = copyStatus /\ resv' = resv
    BY <1>6 DEF RenewCommit
  <2>4. (\A r \in DOMAIN resv : UserSchool[resv[r].user] = BookSchool[resv[r].book])'
    BY <1>0, <2>3 DEF RowsOK
  <2>5. QED
    BY <2>2, <2>3, <2>4 DEF RowsOK, SameSchool, SchoolOf, Exists
<1>9. ASSUME NEW q \in Procs \ {p} PROVE ReqOK(q)'
  <2>1. pc'[q] = pc[q] /\ req'[q] = req[q] /\ ReqOK(q)
    BY <1>0, EndOf
  <2>2. pc[q] \in ReturnSteps \cup RenewSteps => req[q].row # l
    BY <1>0, <1>1 DEF LocksOK, LoanLockers
  <2>3. pc[q] \in ReturnSteps => ReturnOK(q)'
    BY <2>1, <2>2, <1>6 DEF ReqOK, ReturnOK
  <2>4. pc[q] \in RenewSteps => RenewOK(q)'
    BY <2>1, <2>2, <1>6 DEF ReqOK, RenewOK
  <2>5. pc[q] \in BorrowSteps => BorrowOK(q)'
    BY <2>1 DEF ReqOK, BorrowOK, RenewCommit
  <2>6. QED
    BY <2>1, <2>3, <2>4, <2>5 DEF ReqOK, ReserveOK
<1>10. QED
  BY <1>0, <1>7, <1>8, <1>9, EndOf DEF IInv

(* returnBorrow's commit closes the record it has locked, and writes the   *)
(* copy it has locked, which no createBorrow in flight can hold.           *)
LEMMA ReturnCommitRows ==
    ASSUME IInv, NEW p \in Procs, ReturnCommit(p)
    PROVE  LET l == req[p].row
               c == req[p].copy
           IN  /\ ReturnOK(p) /\ p \in LoanLockers /\ p \in CopyLockers
               /\ l \in DOMAIN loans /\ loans[l].copy = c /\ c \in Copies
               /\ loans' \in Seq(LoanRow) /\ DOMAIN loans' = DOMAIN loans
               /\ loans'[l].copy = loans[l].copy /\ loans'[l].user = loans[l].user
               /\ loans'[l].status = "returned" /\ loans'[l].renewed = loans[l].renewed
               /\ \A m \in DOMAIN loans \ {l} : loans'[m] = loans[m]
               /\ copyStatus' \in [Copies -> CopyStatus \cup {"absent", "deleted"}]
               /\ copyStatus'[c] \in Outcomes
               /\ \A d \in Copies \ {c} : copyStatus'[d] = copyStatus[d]
<1>0. TypeOK /\ \A q \in Procs : ReqOK(q)
  BY DEF IInv
<1> DEFINE l == req[p].row
           c == req[p].copy
           row == [loans[l] EXCEPT !.status = "returned", !.back = req[p].at]
<1>1. ReturnOK(p) /\ p \in LoanLockers /\ p \in CopyLockers /\ req[p] \in Request
  BY <1>0 DEF ReturnCommit, ReqOK, ReturnSteps, ReturnLocked, CopyHolding, LoanLockers, CopyLockers,
     TypeOK
<1>2. l \in DOMAIN loans /\ loans[l] \in LoanRow /\ c = loans[l].copy /\ c \in Copies
  BY <1>0, <1>1, RowTypes DEF ReturnOK, LoanRow
<1>3. /\ row \in LoanRow /\ row.copy = loans[l].copy /\ row.user = loans[l].user
      /\ row.status = "returned" /\ row.renewed = loans[l].renewed
  BY <1>1, <1>2 DEF LoanRow, LoanStatus, Request
<1>4. loans' = [loans EXCEPT ![l] = row]
  BY <1>2 DEF ReturnCommit, LoanRow
<1> HIDE DEF row
<1>5. /\ loans' \in Seq(LoanRow) /\ DOMAIN loans' = DOMAIN loans /\ loans'[l] = row
      /\ \A m \in DOMAIN loans \ {l} : loans'[m] = loans[m]
  BY <1>0, <1>2, <1>3, <1>4, ExceptSeq, LenProperties DEF TypeOK
<1>6. /\ copyStatus' \in [Copies -> CopyStatus \cup {"absent", "deleted"}]
      /\ copyStatus'[c] \in Outcomes
      /\ \A d \in Copies \ {c} : copyStatus'[d] = copyStatus[d]
  BY <1>0, <1>1, <1>2 DEF ReturnCommit, TypeOK, ReturnOK, CopyStatus, Outcomes
<1>7. QED
  BY <1>1, <1>2, <1>3, <1>5, <1>6

(* returnBorrow's commit closes the one record it locked and keeps IInv. *)
LEMMA ReturnCommitInv ==
    ASSUME IInv, NEW p \in Procs, ReturnCommit(p)
    PROVE  IInv'
<1>0. TypeOK /\ RowsOK /\ LocksOK /\ Finish(p) /\ \A q \in Procs : ReqOK(q)
  BY DEF IInv, ReturnCommit
<1> DEFINE l == req[p].row
           c == req[p].copy
           r == req[p].pick
<1>1. ReturnOK(p) /\ p \in LoanLockers /\ p \in CopyLockers /\ req[p] \in Request
  BY <1>0, ReturnCommitRows DEF TypeOK
<1>2. l \in DOMAIN loans /\ c = loans[l].copy /\ c \in Copies
  BY ReturnCommitRows
<1>5. /\ loans' \in Seq(LoanRow) /\ DOMAIN loans' = DOMAIN loans
      /\ loans'[l].copy = loans[l].copy /\ loans'[l].user = loans[l].user
      /\ loans'[l].status = "returned" /\ loans'[l].renewed = loans[l].renewed
      /\ \A m \in DOMAIN loans \ {l} : loans'[m] = loans[m]
  BY ReturnCommitRows
<1>6. /\ copyStatus' \in [Copies -> CopyStatus \cup {"absent", "deleted"}]
      /\ copyStatus'[c] \in CopyStatus
      /\ \A d \in Copies \ {c} : copyStatus'[d] = copyStatus[d]
  BY ReturnCommitRows DEF Outcomes, CopyStatus
<1>7. fines' \in Seq(FineRow)
  <2>1. req[p].user \in Users /\ req[p].to \in Outcomes /\ req[p].row \in Nat
        /\ req[p].due \in Nat /\ req[p].at \in Nat
    BY <1>1, <1>2, <1>0, RowTypes DEF ReturnOK, LoanRow, Request
  <2> DEFINE late == [loan |-> l, user |-> req[p].user, reason |-> "overdue",
                      days |-> DaysLate(req[p].due, req[p].at), status |-> "unpaid"]
             harm == [loan |-> l, user |-> req[p].user, reason |-> req[p].to,
                      days |-> 0, status |-> "unpaid"]
             a == IF req[p].at > req[p].due THEN <<late>> ELSE <<>>
             b == IF req[p].to # "available" THEN <<harm>> ELSE <<>>
  <2>2. a \in Seq(FineRow)
    <3>1. CASE req[p].at > req[p].due
      <4>1. late \in FineRow
        BY <2>1, <3>1, DaysLateType DEF FineRow, FineReason, FineStatus
      <4>2. QED
        BY <4>1, <3>1
    <3>2. CASE ~(req[p].at > req[p].due)
      BY <3>2, EmptySeq
    <3>3. QED
      BY <3>1, <3>2
  <2>3. b \in Seq(FineRow)
    <3>1. CASE req[p].to # "available"
      <4>1. harm \in FineRow
        BY <2>1, <3>1 DEF FineRow, FineReason, FineStatus, Outcomes
      <4>2. QED
        BY <4>1, <3>1
    <3>2. CASE req[p].to = "available"
      BY <3>2, EmptySeq
    <3>3. QED
      BY <3>1, <3>2
  <2>4. fines' = fines \o (a \o b)
    BY DEF ReturnCommit, NewFines
  <2> HIDE DEF a, b
  <2>5. QED
    BY <2>2, <2>3, <2>4, <1>0, ConcatProperties DEF TypeOK
<1>8. resv' \in Seq(ResvRow) /\ notices' \in [Users -> Nat]
      /\ DOMAIN resv' = DOMAIN resv
      /\ \A s \in DOMAIN resv : resv'[s].user = resv[s].user /\ resv'[s].book = resv[s].book
  <2> DEFINE due == req[p].at + Days(HoldDays)
             ready == [resv[r] EXCEPT !.status = "ready", !.expires = due]
  <2>1. due \in Nat
    <3>1. Days(HoldDays) \in Nat
      BY TimeAssumption, DaysType
    <3>2. req[p].at \in Nat
      BY <1>1 DEF Request
    <3>3. QED
      BY <3>1, <3>2
  <2>2. CASE r \in DOMAIN resv
    <3>1. resv[r] \in ResvRow
      BY <1>0, <2>2, RowTypes
    <3>2. ready \in ResvRow /\ ready.user = resv[r].user /\ ready.book = resv[r].book
      BY <2>1, <3>1 DEF ResvRow, ResvStatus
    <3>3. r # 0 /\ r \in 1 .. Len(resv)
      BY <1>0, <2>2, RowTypes
    <3>4. resv' = [resv EXCEPT ![r] = ready]
      <4>1. resv' = [resv EXCEPT ![r].status = "ready", ![r].expires = due]
        BY <3>3 DEF ReturnCommit
      <4>2. QED
        BY <4>1, <3>1, <3>3 DEF ResvRow
    <3> HIDE DEF ready, due
    <3>5. /\ resv' \in Seq(ResvRow) /\ DOMAIN resv' = DOMAIN resv /\ resv'[r] = ready
          /\ \A s \in DOMAIN resv \ {r} : resv'[s] = resv[s]
      BY <1>0, <3>2, <3>3, <3>4, ExceptSeq, LenProperties DEF TypeOK
    <3>6. notices' \in [Users -> Nat]
      <4>1. notices' = [notices EXCEPT ![resv[r].user] = @ + 1]
        BY <3>3 DEF ReturnCommit
      <4>2. QED
        <5>1. notices \in [Users -> Nat]
          BY <1>0 DEF TypeOK
        <5>2. resv[r].user \in Users
          BY <3>1 DEF ResvRow
        <5>3. notices[resv[r].user] + 1 \in Nat
          BY <5>1, <5>2
        <5>4. QED
          BY <4>1, <5>1, <5>2, <5>3
    <3>7. QED
      BY <3>2, <3>5, <3>6
  <2>3. CASE r \notin DOMAIN resv
    <3>1. resv' = resv
      BY <1>0, <2>3, LenProperties DEF ReturnCommit, TypeOK
    <3>2. notices' \in [Users -> Nat]
      <4>1. CASE notices' = notices
        BY <4>1, <1>0 DEF TypeOK
      <4>2. CASE notices' = [notices EXCEPT ![resv[r].user] = @ + 1] /\ resv[r].user \in Users
        BY <4>2, <1>0 DEF TypeOK
      <4>3. CASE notices' = [notices EXCEPT ![resv[r].user] = @ + 1] /\ resv[r].user \notin Users
        BY <4>3, <1>0 DEF TypeOK
      <4>4. QED
        BY <4>1, <4>2, <4>3 DEF ReturnCommit
    <3>3. QED
      BY <1>0, <3>1, <3>2 DEF TypeOK
  <2>4. QED
    BY <2>2, <2>3
<1>9. TypeOK'
  BY <1>0, <1>5, <1>6, <1>7, <1>8, EndOf DEF TypeOK, ReturnCommit
<1>10. RowsOK'
  <2>1. ASSUME NEW m \in DOMAIN loans
        PROVE  /\ copyStatus'[loans'[m].copy] \in CopyStatus
               /\ SameSchool(loans'[m].user, loans'[m].copy)
               /\ loans'[m].status \in {"borrowed", "returned"} /\ loans'[m].renewed <= 1
    <3>1. loans[m].copy \in Copies /\ copyStatus[loans[m].copy] \in CopyStatus
      BY <1>0, RowTypes DEF RowsOK, Exists, LoanRow
    <3>2. loans'[m].copy = loans[m].copy /\ loans'[m].user = loans[m].user
          /\ loans'[m].renewed = loans[m].renewed
          /\ loans'[m].status \in {loans[m].status, "returned"}
      BY <1>5
    <3>3. QED
      BY <3>1, <3>2, <1>0, <1>6 DEF RowsOK
  <2>2. QED
    BY <2>1, <1>0, <1>5, <1>8 DEF RowsOK, SameSchool, SchoolOf, Exists
<1>11. ASSUME NEW q \in Procs \ {p} PROVE ReqOK(q)'
  <2>1. pc'[q] = pc[q] /\ req'[q] = req[q] /\ ReqOK(q)
    BY <1>0, EndOf
  <2>2. pc[q] \in ReturnSteps \cup RenewSteps => req[q].row # l
    BY <1>0, <1>1 DEF LocksOK, LoanLockers
  <2>3. pc[q] \in BorrowSteps => req[q].copy # c
    BY <1>0, <1>1 DEF LocksOK, CopyLockers, CopyHolding
  <2>4. pc[q] \in ReturnSteps => ReturnOK(q)'
    BY <2>1, <2>2, <1>5 DEF ReqOK, ReturnOK
  <2>5. pc[q] \in RenewSteps => RenewOK(q)'
    BY <2>1, <2>2, <1>5 DEF ReqOK, RenewOK
  <2>6. pc[q] \in BorrowSteps => BorrowOK(q)'
    BY <2>1, <2>3, <1>6 DEF ReqOK, BorrowOK
  <2>7. QED
    BY <2>1, <2>4, <2>5, <2>6 DEF ReqOK, ReserveOK
<1>12. QED
  BY <1>0, <1>9, <1>10, <1>11, EndOf DEF IInv

(* createReservation's INSERT and updateReservation's UPDATE. *)
LEMMA ReserveInsertInv ==
    ASSUME IInv, NEW p \in Procs, ReserveInsert(p)
    PROVE  IInv'
<1>0. TypeOK /\ RowsOK /\ LocksOK /\ Finish(p) /\ \A q \in Procs : ReqOK(q)
  BY DEF IInv, ReserveInsert
<1> DEFINE row == [book |-> req[p].book, user |-> req[p].user,
                   status |-> "pending", expires |-> 0]
<1>1. row \in ResvRow /\ UserSchool[row.user] = BookSchool[row.book]
  BY <1>0 DEF ReserveInsert, ReqOK, ReserveOK, ResvRow, ResvStatus
<1>2. resv' = Append(resv, row)
  BY DEF ReserveInsert
<1> HIDE DEF row
<1>3. /\ resv' \in Seq(ResvRow) /\ DOMAIN resv' = DOMAIN resv \cup {Len(resv) + 1}
      /\ resv'[Len(resv) + 1] = row
      /\ \A r \in DOMAIN resv : resv'[r] = resv[r]
  BY <1>0, <1>1, <1>2 DEF TypeOK
<1>4. TypeOK'
  BY <1>0, <1>3, EndOf DEF TypeOK, ReserveInsert
<1>5. RowsOK'
  BY <1>0, <1>1, <1>3 DEF RowsOK, ReserveInsert, SameSchool, SchoolOf, Exists
<1>6. ASSUME NEW q \in Procs \ {p} PROVE ReqOK(q)'
  <2>1. pc'[q] = pc[q] /\ req'[q] = req[q] /\ ReqOK(q)
    BY <1>0, EndOf
  <2>2. QED
    BY <2>1 DEF ReserveInsert, ReqOK, BorrowOK, ReturnOK, RenewOK, ReserveOK, SameSchool, SchoolOf
<1>7. QED
  BY <1>0, <1>4, <1>5, <1>6, EndOf DEF IInv

(* updateReservation writes a status and keeps IInv. *)
LEMMA UpdateReservationInv ==
    ASSUME IInv, NEW p \in Procs, NEW r \in DOMAIN resv,
           NEW to \in StaffReservationStatuses, UpdateReservation(p, r, to)
    PROVE  IInv'
<1>0. TypeOK /\ RowsOK /\ LocksOK /\ \A q \in Procs : ReqOK(q)
  BY DEF IInv
<1> DEFINE row == [resv[r] EXCEPT !.status = to]
<1>1. resv[r] \in ResvRow /\ r \in 1 .. Len(resv)
  BY <1>0, RowTypes
<1>2. row \in ResvRow /\ row.user = resv[r].user /\ row.book = resv[r].book
  BY <1>1 DEF ResvRow, ResvStatus, StaffReservationStatuses
<1>3. resv' = [resv EXCEPT ![r] = row]
  BY DEF UpdateReservation
<1> HIDE DEF row
<1>4. /\ resv' \in Seq(ResvRow) /\ DOMAIN resv' = DOMAIN resv /\ resv'[r] = row
      /\ \A s \in DOMAIN resv \ {r} : resv'[s] = resv[s]
  BY <1>0, <1>1, <1>2, <1>3, ExceptSeq, LenProperties DEF TypeOK
<1>5. TypeOK'
  BY <1>0, <1>4 DEF TypeOK, UpdateReservation, Serve
<1>6. RowsOK'
  BY <1>0, <1>2, <1>4 DEF RowsOK, UpdateReservation, SameSchool, SchoolOf, Exists
<1>7. LocksOK' /\ \A q \in Procs : ReqOK(q)'
  BY <1>0 DEF UpdateReservation, Serve, LocksOK, CopyLockers, LoanLockers, ReqOK, BorrowOK,
     ReturnOK, RenewOK, ReserveOK, SameSchool, SchoolOf
<1>8. QED
  BY <1>5, <1>6, <1>7 DEF IInv

(* settleFine's UPDATE. *)
LEMMA SettleUpdateInv ==
    ASSUME IInv, NEW p \in Procs, SettleUpdate(p)
    PROVE  IInv'
<1>0. TypeOK /\ RowsOK /\ LocksOK /\ Finish(p) /\ \A q \in Procs : ReqOK(q)
  BY DEF IInv, SettleUpdate
<1> DEFINE f == req[p].row
           row == [fines[f] EXCEPT !.status = req[p].to]
<1>1. req[p].to \in FineStatus
  BY <1>0 DEF SettleUpdate, ReqOK
<1>2. fines' \in Seq(FineRow)
  <2>1. CASE f \in DOMAIN fines
    <3>1. fines[f] \in FineRow /\ f \in 1 .. Len(fines)
      BY <2>1, <1>0, RowTypes
    <3>2. row \in FineRow /\ fines' = [fines EXCEPT ![f] = row]
      BY <3>1, <1>1 DEF FineRow, SettleUpdate
    <3> HIDE DEF row, f
    <3>3. QED
      BY <3>1, <3>2, <1>0, ExceptSeq DEF TypeOK
  <2>2. CASE f \notin DOMAIN fines
    <3>1. fines' = [fines EXCEPT ![f] = row]
      BY DEF SettleUpdate
    <3>2. fines \in [1 .. Len(fines) -> FineRow] /\ DOMAIN fines = 1 .. Len(fines)
      BY <1>0, LenProperties DEF TypeOK
    <3> HIDE DEF row, f
    <3>3. fines' = fines
      BY <2>2, <3>1, <3>2
    <3>4. QED
      BY <3>3, <1>0 DEF TypeOK
  <2>3. QED
    BY <2>1, <2>2
<1>3. TypeOK' /\ RowsOK'
  BY <1>0, <1>2, EndOf DEF TypeOK, RowsOK, SettleUpdate, SameSchool, SchoolOf, Exists
<1>4. ASSUME NEW q \in Procs \ {p} PROVE ReqOK(q)'
  <2>1. pc'[q] = pc[q] /\ req'[q] = req[q] /\ ReqOK(q)
    BY <1>0, EndOf
  <2>2. QED
    BY <2>1 DEF SettleUpdate, ReqOK, BorrowOK, ReturnOK, RenewOK, ReserveOK, SameSchool, SchoolOf
<1>5. QED
  BY <1>0, <1>3, <1>4, EndOf DEF IInv

(* The staff's writes of one copy row that no request has locked: PATCH,   *)
(* the INSERT of a copy, the DELETE of one that no record refers to.       *)
LEMMA CopyWriteInv ==
    ASSUME IInv, NEW c \in Copies, NEW new \in CopyStatus \cup {"deleted"},
           copyStatus' = [copyStatus EXCEPT ![c] = new],
           \A p \in Procs : pc[p] \in BorrowSteps => req[p].copy # c,
           new = "deleted" => \A l \in DOMAIN loans : loans[l].copy # c,
           UNCHANGED <<loans, resv>>
    PROVE  /\ copyStatus' \in [Copies -> CopyStatus \cup {"absent", "deleted"}]
           /\ RowsOK'
           /\ \A p \in Procs : pc'[p] = pc[p] /\ req'[p] = req[p] => ReqOK(p)'
<1>0. TypeOK /\ RowsOK /\ \A p \in Procs : ReqOK(p)
  BY DEF IInv
<1>1. /\ copyStatus' \in [Copies -> CopyStatus \cup {"absent", "deleted"}]
      /\ copyStatus'[c] = new
      /\ \A d \in Copies \ {c} : copyStatus'[d] = copyStatus[d]
  BY <1>0 DEF TypeOK
<1>2. ASSUME NEW l \in DOMAIN loans PROVE copyStatus'[loans[l].copy] \in CopyStatus
  <2>1. loans[l].copy \in Copies /\ copyStatus[loans[l].copy] \in CopyStatus
    BY <1>0, RowTypes DEF RowsOK, Exists, LoanRow
  <2>2. QED
    BY <2>1, <1>1
<1>3. RowsOK'
  BY <1>0, <1>2 DEF RowsOK, Exists, SameSchool, SchoolOf
<1>4. ASSUME NEW p \in Procs, pc'[p] = pc[p], req'[p] = req[p] PROVE ReqOK(p)'
  <2>1. pc[p] \in BorrowSteps => BorrowOK(p)'
    BY <1>0, <1>1, <1>4 DEF ReqOK, BorrowOK, SameSchool, SchoolOf
  <2>2. QED
    BY <2>1, <1>0, <1>4 DEF ReqOK, ReturnOK, RenewOK, ReserveOK
<1>5. QED
  BY <1>1, <1>3, <1>4

(* updateCopy writes no copy that a request has locked, so IInv holds on. *)
LEMMA UpdateCopyInv ==
    ASSUME IInv, NEW p \in Procs, NEW c \in Copies, NEW status \in PatchStatuses,
           UpdateCopy(p, c, status)
    PROVE  IInv'
<1>1. TypeOK /\ LocksOK /\ status \in CopyStatus
  BY PatchAssumption DEF IInv
<1>2. \A q \in Procs : pc[q] \in BorrowSteps => req[q].copy # c
  BY DEF UpdateCopy, CopyFree, HoldsCopy, CopyHolding
<1>3. /\ copyStatus' \in [Copies -> CopyStatus \cup {"absent", "deleted"}]
      /\ RowsOK' /\ \A q \in Procs : ReqOK(q)'
  BY <1>1, <1>2, CopyWriteInv DEF UpdateCopy, Serve, CopyStatus
<1>4. QED
  BY <1>1, <1>3 DEF IInv, TypeOK, LocksOK, CopyLockers, LoanLockers, UpdateCopy, Serve

(* createCopy writes a copy nobody knows yet, so IInv holds on. *)
LEMMA CreateCopyInv ==
    ASSUME IInv, NEW p \in Procs, NEW c \in Copies, CreateCopy(p, c)
    PROVE  IInv'
<1>1. TypeOK /\ LocksOK /\ \A q \in Procs : ReqOK(q)
  BY DEF IInv
<1>2. \A q \in Procs : pc[q] \in BorrowSteps => req[q].copy # c
  BY <1>1 DEF CreateCopy, ReqOK, BorrowOK
<1>3. /\ copyStatus' \in [Copies -> CopyStatus \cup {"absent", "deleted"}]
      /\ RowsOK' /\ \A q \in Procs : ReqOK(q)'
  BY <1>1, <1>2, CopyWriteInv DEF CreateCopy, Serve, CopyStatus
<1>4. QED
  BY <1>1, <1>3 DEF IInv, TypeOK, LocksOK, CopyLockers, LoanLockers, CreateCopy, Serve

(* deleteCopy deletes no copy that a loan or a createBorrow refers to. *)
LEMMA DeleteRowInv ==
    ASSUME IInv, NEW p \in Procs, DeleteRow(p), Records(req[p].copy) = {}
    PROVE  IInv'
<1>0. /\ TypeOK /\ RowsOK /\ LocksOK /\ \A q \in Procs : ReqOK(q)
      /\ Finish(p) /\ UNCHANGED <<loans, resv, fines, notices, account, now>>
      /\ copyStatus' = [copyStatus EXCEPT ![req[p].copy] = "deleted"]
  BY DEF IInv, DeleteRow
<1> DEFINE c == req[p].copy
<1>1. c \in Copies
  BY DEF DeleteRow, IInv, ReqOK
<1>2. /\ \A q \in Procs : pc[q] \in BorrowSteps => req[q].copy # c
      /\ \A l \in DOMAIN loans : loans[l].copy # c
  BY DEF DeleteRow, CopyFree, HoldsCopy, CopyHolding, Records
<1>3. /\ copyStatus' \in [Copies -> CopyStatus \cup {"absent", "deleted"}]
      /\ RowsOK' /\ \A q \in Procs \ {p} : ReqOK(q)'
  BY <1>0, <1>1, <1>2, CopyWriteInv, EndOf DEF CopyStatus
<1>4. QED
  BY <1>0, <1>1, <1>3, EndOf DEF IInv, TypeOK

(* A DELETE that meets a record has locked its copy; it writes nothing.    *)
LEMMA DeleteMeetInv ==
    ASSUME IInv, NEW p \in Procs, DeleteRow(p), UNCHANGED copyStatus,
           NEW l \in DOMAIN loans, Goto(p, "delete_check", [req[p] EXCEPT !.row = l])
    PROVE  IInv'
<1> DEFINE r == [req[p] EXCEPT !.row = l]
<1>0. /\ pc[p] = "delete_row" /\ CopyFree(req[p].copy) /\ ReqOK(p) /\ TypeOK
      /\ UNCHANGED tables /\ now' \in Nat
  BY DEF DeleteRow, IInv, TypeOK, tables
<1>1. r \in Request /\ r.copy = req[p].copy
  <2>1. req[p] \in Request /\ l \in Nat
    BY <1>0, RowTypes DEF TypeOK
  <2>2. QED
    BY <2>1 DEF Request
<1> HIDE DEF r
<1>2. Goto(p, "delete_check", r)
  BY DEF r
<1>3. ReqOK(p)'
  BY <1>0, <1>1, <1>2 DEF Goto, TypeOK, ReqOK, BorrowSteps, ReturnSteps, ReturnLocked,
     RenewSteps
<1>4. \A q \in CopyLockers \ {p} : req[q].copy # r.copy
  BY <1>0, <1>1 DEF CopyLockers, CopyFree, HoldsCopy
<1>5. QED
  BY <1>0, <1>1, <1>2, <1>3, <1>4, Move DEF Steps, OtherSteps, ReturnSteps, ReturnLocked,
     RenewSteps

(* Either way the DELETE keeps IInv. *)
LEMMA DeleteInv == ASSUME IInv, NEW p \in Procs, DeleteRow(p) PROVE IInv'
<1>1. CASE Records(req[p].copy) = {}
  BY <1>1, DeleteRowInv
<1>2. CASE Records(req[p].copy) # {}
  <2>1. PICK l \in Records(req[p].copy) :
            Goto(p, "delete_check", [req[p] EXCEPT !.row = l]) /\ UNCHANGED copyStatus
    BY <1>2 DEF DeleteRow
  <2>2. l \in DOMAIN loans
    BY DEF Records
  <2>3. QED
    BY <2>1, <2>2, DeleteMeetInv
<1>3. QED
  BY <1>1, <1>2

(* updateUser writes an account only: no record depends on it in IInv. *)
LEMMA UpdateUserInv ==
    ASSUME IInv, NEW p \in Procs, NEW u \in Users, NEW patch \in AccountPatches,
           UpdateUser(p, u, patch)
    PROVE  IInv'
<1>1. account' \in [Users -> [status : UserStatus, max : Nat]]
  BY PatchAssumption DEF IInv, TypeOK, UpdateUser
<1>2. QED
  BY <1>1 DEF IInv, TypeOK, UpdateUser, Serve, RowsOK, LocksOK, CopyLockers, LoanLockers,
     ReqOK, BorrowOK, ReturnOK, RenewOK, ReserveOK, SameSchool, SchoolOf, Exists

(* Time passing, or nothing happening, keeps IInv. *)
LEMMA TickInv == IInv /\ (Tick \/ UNCHANGED vars) => IInv'
<1> SUFFICES ASSUME IInv, Tick \/ UNCHANGED vars PROVE IInv'
  OBVIOUS
<1>1. now' \in Nat /\ UNCHANGED <<tables, pc, req>>
  BY DEF IInv, TypeOK, Tick, vars
<1>2. QED
  BY <1>1 DEF tables, IInv, TypeOK, RowsOK, LocksOK, CopyLockers, LoanLockers,
     ReqOK, BorrowOK, ReturnOK, RenewOK, ReserveOK, SameSchool, SchoolOf, Exists

-----------------------------------------------------------------------------
(* A first statement locks a free row and remembers what it read of it. *)
LEMMA Starts ==
    ASSUME IInv, NEW p \in Procs, NEW kind, NEW step \in Steps, NEW r \in Request,
           Start(p, kind, step, r), ReqOK(p)',
           step \in CopyHolding => CopyFree(r.copy),
           step \in ReturnSteps \cup RenewSteps => LoanFree(r.row)
    PROVE  IInv'
<1>1. step \in CopyHolding => \A q \in CopyLockers \ {p} : req[q].copy # r.copy
  BY DEF CopyLockers, CopyFree, HoldsCopy
<1>2. step \in ReturnSteps \cup RenewSteps => \A q \in LoanLockers \ {p} : req[q].row # r.row
  BY DEF LoanLockers, LoanFree, HoldsLoan
<1>3. QED
  BY <1>1, <1>2, Move DEF Start, Goto, IInv, TypeOK

(* createBorrow starts by locking an available copy that nobody holds. *)
LEMMA BorrowLockInv ==
    ASSUME IInv, NEW p \in Procs, NEW c \in Copies, NEW u \in Users, BorrowLock(p, c, u)
    PROVE  IInv'
<1> DEFINE r == [NoReq EXCEPT !.copy = c, !.user = u]
<1>1. r \in Request /\ r.copy = c /\ r.user = u
  BY DEF NoReq, Request
<1>2. Start(p, "borrow", "borrow_user", r) /\ copyStatus[c] = "available" /\ CopyFree(c)
  BY DEF BorrowLock
<1> HIDE DEF r
<1>3. ReqOK(p)'
  BY <1>1, <1>2 DEF IInv, TypeOK, Start, tables, ReqOK, BorrowOK, BorrowSteps,
     ReturnSteps, ReturnLocked, CopyHolding, RenewSteps
<1>4. QED
  BY <1>1, <1>2, <1>3, Starts DEF Steps, BorrowSteps, ReturnSteps, ReturnLocked, CopyHolding, RenewSteps

(* returnBorrow starts by locking an open record that nobody holds. *)
LEMMA ReturnLockInv ==
    ASSUME IInv, NEW p \in Procs, NEW l \in DOMAIN loans, NEW to \in Outcomes,
           ReturnLock(p, l, to)
    PROVE  IInv'
<1> DEFINE r == [NoReq EXCEPT !.copy = loans[l].copy, !.user = loans[l].user, !.row = l,
                              !.due = loans[l].due, !.at = now, !.to = to]
<1>1. loans[l] \in LoanRow /\ l \in Nat /\ now \in Nat /\ loans[l].status \in {"borrowed", "returned"}
  BY RowTypes DEF IInv, TypeOK, RowsOK
<1>2. /\ r \in Request /\ r.copy = loans[l].copy /\ r.user = loans[l].user /\ r.row = l
      /\ r.due = loans[l].due /\ r.to = to
  BY <1>1 DEF NoReq, Request, LoanRow
<1>3. Start(p, "return", "return_copy", r) /\ loans[l].status = "borrowed" /\ LoanFree(l)
  BY <1>1 DEF ReturnLock
<1> HIDE DEF r
<1>4. ReqOK(p)'
  BY <1>2, <1>3 DEF IInv, TypeOK, Start, tables, ReqOK, ReturnOK, BorrowSteps,
     ReturnSteps, ReturnLocked, CopyHolding, RenewSteps
<1>5. QED
  BY <1>2, <1>3, <1>4, Starts DEF Steps, BorrowSteps, ReturnSteps, ReturnLocked, CopyHolding, RenewSteps

(* renewBorrow starts by locking an open record that nobody holds. *)
LEMMA RenewLockInv ==
    ASSUME IInv, NEW p \in Procs, NEW l \in DOMAIN loans, RenewLock(p, l)
    PROVE  IInv'
<1> DEFINE r == [NoReq EXCEPT !.copy = loans[l].copy, !.row = l, !.due = loans[l].due]
<1>1. loans[l] \in LoanRow /\ l \in Nat
  BY RowTypes DEF IInv
<1>2. r \in Request /\ r.row = l /\ r.due = loans[l].due
  BY <1>1 DEF NoReq, Request, LoanRow
<1>3. /\ Start(p, "renew", "renew_check", r) /\ LoanFree(l)
      /\ loans[l].status = "borrowed" /\ loans[l].renewed = 0
  BY <1>1 DEF RenewLock, LoanRow
<1> HIDE DEF r
<1>4. ReqOK(p)'
  BY <1>2, <1>3 DEF IInv, TypeOK, Start, tables, ReqOK, RenewOK, BorrowSteps,
     ReturnSteps, ReturnLocked, CopyHolding, RenewSteps
<1>5. QED
  BY <1>2, <1>3, <1>4, Starts DEF Steps, BorrowSteps, ReturnSteps, ReturnLocked, CopyHolding, RenewSteps

(* The first statements that lock nothing. *)
LEMMA OtherStartsInv ==
    ASSUME IInv, NEW p \in Procs,
           \/ \E u \in Users, b \in Books : ReserveAvail(p, u, b)
           \/ \E f \in DOMAIN fines, to \in {"paid", "waived"} : SettleRead(p, f, to)
           \/ \E c \in Copies : DeleteRead(p, c)
    PROVE  IInv'
<1> USE DEF OtherSteps, Steps, BorrowSteps, ReturnSteps, ReturnLocked, CopyHolding, RenewSteps
<1>1. ASSUME NEW u \in Users, NEW b \in Books, ReserveAvail(p, u, b) PROVE IInv'
  <2> DEFINE r == [NoReq EXCEPT !.user = u, !.book = b]
  <2>1. r \in Request /\ r.user = u /\ r.book = b
    BY DEF NoReq, Request
  <2>2. Start(p, "reserve", "reserve_dup", r) /\ UserSchool[u] = BookSchool[b]
    BY <1>1 DEF ReserveAvail
  <2> HIDE DEF r
  <2>3. ReqOK(p)'
    BY <2>1, <2>2 DEF IInv, TypeOK, Start, ReqOK, ReserveOK
  <2>4. QED
    BY <2>1, <2>2, <2>3, Starts
<1>2. ASSUME NEW f \in DOMAIN fines, NEW to \in {"paid", "waived"}, SettleRead(p, f, to)
      PROVE  IInv'
  <2> DEFINE r == [NoReq EXCEPT !.row = f, !.to = to]
  <2>1. f \in Nat
    BY RowTypes DEF IInv
  <2>2. r \in Request /\ r.to \in FineStatus
    BY <2>1 DEF NoReq, Request, FineStatus
  <2>3. Start(p, "settle", "settle_update", r)
    BY <1>2 DEF SettleRead
  <2> HIDE DEF r
  <2>4. ReqOK(p)'
    BY <2>2, <2>3 DEF IInv, TypeOK, Start, ReqOK
  <2>5. QED
    BY <2>2, <2>3, <2>4, Starts
<1>3. ASSUME NEW c \in Copies, DeleteRead(p, c) PROVE IInv'
  <2> DEFINE r == [NoReq EXCEPT !.copy = c]
  <2>1. r \in Request /\ r.copy = c
    BY DEF NoReq, Request
  <2>2. Start(p, "copy_delete", "delete_row", r)
    BY <1>3 DEF DeleteRead
  <2> HIDE DEF r
  <2>3. ReqOK(p)'
    BY <2>1, <2>2 DEF IInv, TypeOK, Start, ReqOK
  <2>4. QED
    BY <2>1, <2>2, <2>3, Starts
<1>4. QED
  BY <1>1, <1>2, <1>3

-----------------------------------------------------------------------------
(* Every step of the desk keeps the inductive invariant. *)
LEMMA NextIInv == IInv /\ [Next]_vars => IInv'
<1> SUFFICES ASSUME IInv, [Next]_vars PROVE IInv'
  OBVIOUS
<1>1. CASE Tick \/ UNCHANGED vars
  BY <1>1, TickInv
<1>2. ASSUME NEW p \in Procs, Arrive(p) PROVE IInv'
  BY <1>2, BorrowLockInv, ReturnLockInv, RenewLockInv, OtherStartsInv,
     UpdateReservationInv, UpdateCopyInv, CreateCopyInv, UpdateUserInv DEF Arrive
<1>3. ASSUME NEW p \in Procs, Proceed(p) PROVE IInv'
  BY <1>3, ReadSteps, BorrowCommitInv, ReturnCommitInv, RenewCommitInv, ReserveInsertInv,
     SettleUpdateInv, DeleteInv DEF Proceed
<1>4. ASSUME NEW p \in Procs, Abort(p) \/ DeadlockFound(p) PROVE IInv'
  BY <1>4, ReadSteps
<1>5. QED
  BY <1>1, <1>2, <1>3, <1>4 DEF Next

(* The inductive invariant holds in every reachable state, whatever the    *)
(* constants: it carries the theorems below.                               *)
THEOREM IInvHolds == Spec => []IInv
  BY InitIInv, NextIInv, PTL DEF Spec

(* Types are kept: the desk never stores a value its columns do not have.  *)
THEOREM TypesHold == Spec => []TypeOK
<1>1. IInv => TypeOK
  BY DEF IInv
<1>2. QED
  BY <1>1, IInvHolds, PTL

(* No loan is renewed twice, however many renewals race for it. *)
THEOREM RenewalHolds == Spec => []RenewedAtMostOnce
<1>1. IInv => RenewedAtMostOnce
  BY DEF IInv, RowsOK, RenewedAtMostOnce
<1>2. QED
  BY <1>1, IInvHolds, PTL

(* No loan or reservation crosses schools. *)
THEOREM IsolationHolds == Spec => []TenantIsolation
<1>1. IInv => TenantIsolation
  BY DEF IInv, RowsOK, TenantIsolation, SameSchool
<1>2. QED
  BY <1>1, IInvHolds, PTL

(* No loan loses its copy, though deleteCopy acts on a stale check. *)
THEOREM LoanKeepsCopyHolds == Spec => []LoanKeepsCopy
<1>1. IInv => LoanKeepsCopy
  BY DEF IInv, RowsOK, LoanKeepsCopy, ReqOK, BorrowOK, Exists, CopyStatus
<1>2. QED
  BY <1>1, IInvHolds, PTL

-----------------------------------------------------------------------------
(* Only the three commits write records; every other step leaves them, and *)
(* changes a copy's status only as the staff's corrections do.             *)
LEMMA QuietSteps ==
    ASSUME [Next]_vars,
           \A p \in Procs : ~BorrowCommit(p) /\ ~ReturnCommit(p) /\ ~RenewCommit(p)
    PROVE  /\ loans' = loans
           /\ \/ copyStatus' = copyStatus
              \/ \E p \in Procs, c \in Copies, s \in PatchStatuses :
                    UpdateCopy(p, c, s) /\ copyStatus' = [copyStatus EXCEPT ![c] = s]
              \/ \E c \in Copies : /\ copyStatus[c] = "absent"
                                   /\ copyStatus' = [copyStatus EXCEPT ![c] = "available"]
              \/ \E p \in Procs : copyStatus' = [copyStatus EXCEPT ![req[p].copy] = "deleted"]
<1> USE DEF tables
<1>1. CASE Tick \/ UNCHANGED vars
  BY <1>1 DEF Tick, vars
<1>2. ASSUME NEW p \in Procs, Abort(p) \/ Proceed(p)
      PROVE  /\ loans' = loans
             /\ \/ copyStatus' = copyStatus
                \/ copyStatus' = [copyStatus EXCEPT ![req[p].copy] = "deleted"]
  BY <1>2 DEF Abort, Proceed, BorrowUser, BorrowCount, BorrowFines, ReturnCopy, ReturnPromote,
     RenewCheck, ReserveDup, ReserveInsert, SettleUpdate, DeleteRow, DeleteCheck
<1>3. ASSUME NEW p \in Procs, Arrive(p)
      PROVE  /\ loans' = loans
             /\ \/ copyStatus' = copyStatus
                \/ \E c \in Copies, s \in PatchStatuses :
                      UpdateCopy(p, c, s) /\ copyStatus' = [copyStatus EXCEPT ![c] = s]
                \/ \E c \in Copies : /\ copyStatus[c] = "absent"
                                     /\ copyStatus' = [copyStatus EXCEPT ![c] = "available"]
  BY <1>3 DEF Arrive, BorrowLock, ReturnLock, RenewLock, ReserveAvail, UpdateReservation,
     SettleRead, UpdateCopy, CreateCopy, DeleteRead, UpdateUser, Start
<1>4. QED
  BY <1>1, <1>2, <1>3 DEF Next, DeadlockFound

(* What the commits do to the open loans of each copy. *)
LEMMA BorrowShelf ==
    ASSUME IInv, ShelfInv, NEW p \in Procs, BorrowCommit(p), NEW c, c = req[p].copy
    PROVE  /\ c \in Copies /\ OpenOn(c) = {} /\ OpenOn(c)' = {Len(loans) + 1}
           /\ \A d \in Copies \ {c} : OpenOn(d)' = OpenOn(d)
<1>1. PICK n : n = Len(loans) + 1
  OBVIOUS
<1>2. /\ c \in Copies /\ copyStatus[c] = "available"
      /\ DOMAIN loans' = DOMAIN loans \cup {n} /\ n \notin DOMAIN loans
      /\ \A l \in DOMAIN loans : loans'[l] = loans[l]
  BY <1>1, BorrowCommitRows DEF BorrowOK
<1>3. loans'[n].copy = c /\ loans'[n].status = "borrowed"
  <2>1. loans'[n] = [copy |-> c, user |-> req[p].user, due |-> req[p].due,
                     renewed |-> 0, status |-> "borrowed", back |-> 0]
    BY <1>1, BorrowCommitRows
  <2>2. QED
    BY <2>1
<1>4. OpenOn(c) = {}
  BY <1>2 DEF ShelfInv
<1>5. OpenOn(c)' = {n}
  BY <1>2, <1>3, <1>4 DEF OpenOn, OpenStatus
<1>6. \A d \in Copies \ {c} : OpenOn(d)' = OpenOn(d)
  BY <1>2, <1>3 DEF OpenOn
<1>7. QED
  BY <1>1, <1>2, <1>4, <1>5, <1>6

(* returnBorrow's commit leaves its copy without an open loan. *)
LEMMA ReturnShelf ==
    ASSUME IInv, ShelfInv, NEW p \in Procs, ReturnCommit(p), NEW c, c = req[p].copy
    PROVE  /\ c \in Copies /\ OpenOn(c) = {req[p].row} /\ OpenOn(c)' = {}
           /\ \A d \in Copies \ {c} : OpenOn(d)' = OpenOn(d)
<1>1. PICK l : l = req[p].row
  OBVIOUS
<1>2. /\ l \in DOMAIN loans /\ loans[l].copy = c /\ c \in Copies /\ loans[l].status = "borrowed"
      /\ DOMAIN loans' = DOMAIN loans /\ loans'[l].copy = c /\ loans'[l].status = "returned"
      /\ \A m \in DOMAIN loans \ {l} : loans'[m] = loans[m]
  BY <1>1, ReturnCommitRows DEF ReturnOK
<1>3. OpenOn(c) = {l}
  BY <1>2 DEF ShelfInv, LoanExclusive, OpenOn, OpenStatus
<1>4. OpenOn(c)' = {}
  BY <1>2, <1>3 DEF OpenOn, OpenStatus
<1>5. \A d \in Copies \ {c} : OpenOn(d)' = OpenOn(d)
  BY <1>2 DEF OpenOn
<1>6. QED
  BY <1>1, <1>2, <1>3, <1>4, <1>5

(* renewBorrow's commit changes neither the copies nor their open loans. *)
LEMMA RenewShelf ==
    ASSUME IInv, NEW p \in Procs, RenewCommit(p)
    PROVE  \A c \in Copies : OpenOn(c)' = OpenOn(c)
<1>1. ASSUME NEW m \in DOMAIN loans
      PROVE  loans'[m].copy = loans[m].copy /\ loans'[m].status = loans[m].status
  BY RenewCommitRows
<1>2. DOMAIN loans' = DOMAIN loans
  BY RenewCommitRows
<1>3. QED
  BY <1>1, <1>2 DEF OpenOn

(* No step lends a copy twice or puts a lent copy on the shelf. *)
LEMMA ShelfStep ==
    ASSUME IInv, ShelfInv, [Next /\ CarefulStaff]_vars
    PROVE  ShelfInv'
<1>0. copyStatus \in [Copies -> CopyStatus \cup {"absent", "deleted"}] /\ [Next]_vars
  BY DEF IInv, TypeOK
<1>1. ASSUME NEW p \in Procs, BorrowCommit(p) PROVE ShelfInv'
  <2>1. PICK c : c = req[p].copy
    OBVIOUS
  <2>2. copyStatus'[c] = "borrowed" /\ \A d \in Copies \ {c} : copyStatus'[d] = copyStatus[d]
    BY <1>1, <2>1, BorrowCommitRows
  <2>3. /\ c \in Copies /\ OpenOn(c)' = {Len(loans) + 1}
        /\ \A d \in Copies \ {c} : OpenOn(d)' = OpenOn(d)
    BY <1>1, <2>1, BorrowShelf
  <2>4. QED
    BY <2>2, <2>3 DEF ShelfInv, LoanExclusive
<1>2. ASSUME NEW p \in Procs, ReturnCommit(p) PROVE ShelfInv'
  <2>1. PICK c : c = req[p].copy
    OBVIOUS
  <2>2. \A d \in Copies \ {c} : copyStatus'[d] = copyStatus[d]
    BY <1>2, <2>1, ReturnCommitRows
  <2>3. c \in Copies /\ OpenOn(c)' = {} /\ \A d \in Copies \ {c} : OpenOn(d)' = OpenOn(d)
    BY <1>2, <2>1, ReturnShelf
  <2>4. QED
    BY <2>2, <2>3 DEF ShelfInv, LoanExclusive
<1>3. ASSUME NEW p \in Procs, RenewCommit(p) PROVE ShelfInv'
  BY <1>3, RenewShelf DEF RenewCommit, ShelfInv, LoanExclusive
<1>4. CASE \A p \in Procs : ~BorrowCommit(p) /\ ~ReturnCommit(p) /\ ~RenewCommit(p)
  <2>1. \A c \in Copies : OpenOn(c)' = OpenOn(c)
    BY <1>0, <1>4, QuietSteps DEF OpenOn
  <2>2. ASSUME NEW c \in Copies, copyStatus'[c] = "available"
        PROVE  OpenOn(c) = {}
    <3>1. CASE copyStatus[c] = "available"
      BY <3>1 DEF ShelfInv
    <3>2. CASE copyStatus[c] = "absent"
      <4>1. \A l \in DOMAIN loans : loans[l].copy # c
        BY <3>2 DEF IInv, RowsOK, Exists, CopyStatus
      <4>2. QED
        BY <4>1 DEF OpenOn
    <3>3. CASE \E p \in Procs : UpdateCopy(p, c, "available")
      <4>1. CASE CarefulStaff
        BY <4>1, <3>3 DEF CarefulStaff
      <4>2. CASE UNCHANGED vars
        BY <4>2, <3>1, <2>2 DEF vars, tables
      <4>3. QED
        BY <4>1, <4>2
    <3>4. \/ copyStatus[c] = "available" \/ copyStatus[c] = "absent"
          \/ \E p \in Procs : UpdateCopy(p, c, "available")
      BY <1>0, <1>4, <2>2, QuietSteps
    <3>5. QED
      BY <3>1, <3>2, <3>3, <3>4
  <2>3. QED
    BY <2>1, <2>2 DEF ShelfInv, LoanExclusive
<1>5. QED
  BY <1>1, <1>2, <1>3, <1>4

(* Careful staff are staff: what holds of Spec holds of CarefulSpec.       *)
LEMMA CarefulIInv == CarefulSpec => Spec /\ []IInv
<1>1. [Next /\ CarefulStaff]_vars => [Next]_vars
  OBVIOUS
<1>2. QED
  BY <1>1, IInvHolds, PTL DEF Spec, CarefulSpec

(* A copy is lent to one reader at a time, and is not on the shelf while   *)
(* it is lent, as long as no PATCH puts a lent copy back on it.            *)
LEMMA ShelfHolds == CarefulSpec => []ShelfInv
<1>1. Init => ShelfInv
  BY DEF Init, ShelfInv, LoanExclusive, OpenOn
<1>2. IInv /\ ShelfInv /\ [Next /\ CarefulStaff]_vars => ShelfInv'
  BY ShelfStep
<1>3. QED
  BY <1>1, <1>2, CarefulIInv, PTL DEF CarefulSpec

(* No copy is ever lent to two borrowers, whatever requests race for it,   *)
(* unless staff mark a lent copy available.                                *)
THEOREM LoanExclusiveHolds == CarefulSpec => []LoanExclusive
<1>1. ShelfInv => LoanExclusive
  BY DEF ShelfInv
<1>2. QED
  BY <1>1, ShelfHolds, PTL

(* A copy marked borrowed has an open loan. *)
BorrowedInv == \A c \in Copies : copyStatus[c] = "borrowed" => OpenOn(c) # {}

(* No step leaves a copy marked borrowed without an open loan. *)
LEMMA BorrowedStep ==
    ASSUME IInv, ShelfInv, BorrowedInv, [Next /\ CarefulStaff]_vars
    PROVE  BorrowedInv'
<1>0. copyStatus \in [Copies -> CopyStatus \cup {"absent", "deleted"}] /\ [Next]_vars
  BY DEF IInv, TypeOK
<1>1. ASSUME NEW p \in Procs, BorrowCommit(p) PROVE BorrowedInv'
  <2>1. PICK c : c = req[p].copy
    OBVIOUS
  <2>2. \A d \in Copies \ {c} : copyStatus'[d] = copyStatus[d]
    BY <1>1, <2>1, BorrowCommitRows
  <2>3. /\ c \in Copies /\ OpenOn(c)' = {Len(loans) + 1}
        /\ \A d \in Copies \ {c} : OpenOn(d)' = OpenOn(d)
    BY <1>1, <2>1, BorrowShelf
  <2>4. QED
    BY <2>2, <2>3 DEF BorrowedInv
<1>2. ASSUME NEW p \in Procs, ReturnCommit(p) PROVE BorrowedInv'
  <2>1. PICK c : c = req[p].copy
    OBVIOUS
  <2>2. /\ copyStatus'[c] # "borrowed"
        /\ \A d \in Copies \ {c} : copyStatus'[d] = copyStatus[d]
    BY <1>2, <2>1, ReturnCommitRows DEF Outcomes
  <2>3. \A d \in Copies \ {c} : OpenOn(d)' = OpenOn(d)
    BY <1>2, <2>1, ReturnShelf
  <2>4. QED
    BY <2>2, <2>3 DEF BorrowedInv
<1>3. ASSUME NEW p \in Procs, RenewCommit(p) PROVE BorrowedInv'
  BY <1>3, RenewShelf DEF RenewCommit, BorrowedInv
<1>4. CASE \A p \in Procs : ~BorrowCommit(p) /\ ~ReturnCommit(p) /\ ~RenewCommit(p)
  <2>1. \A c \in Copies : OpenOn(c)' = OpenOn(c)
    BY <1>0, <1>4, QuietSteps DEF OpenOn
  <2>2. ASSUME NEW c \in Copies, copyStatus'[c] = "borrowed"
        PROVE  OpenOn(c) # {}
    <3>1. CASE copyStatus[c] = "borrowed"
      BY <3>1 DEF BorrowedInv
    <3>2. CASE \E p \in Procs : UpdateCopy(p, c, "borrowed")
      <4>1. CASE CarefulStaff
        BY <4>1, <3>2 DEF CarefulStaff
      <4>2. CASE UNCHANGED vars
        BY <4>2, <3>1, <2>2 DEF vars, tables
      <4>3. QED
        BY <4>1, <4>2
    <3>3. copyStatus[c] = "borrowed" \/ \E p \in Procs : UpdateCopy(p, c, "borrowed")
      BY <1>0, <1>4, <2>2, QuietSteps
    <3>4. QED
      BY <3>1, <3>2, <3>3
  <2>3. QED
    BY <2>1, <2>2 DEF BorrowedInv
<1>5. QED
  BY <1>1, <1>2, <1>3, <1>4

(* The copy row and the loan records agree, if the staff mark available    *)
(* only what is not lent, and borrowed only what is.                       *)
THEOREM ShelfAgreesHolds == CarefulSpec => []ShelfAgrees
<1>1. Init => BorrowedInv
  BY DEF Init, BorrowedInv
<1>2. IInv /\ ShelfInv /\ BorrowedInv /\ [Next /\ CarefulStaff]_vars => BorrowedInv'
  BY BorrowedStep
<1>3. ShelfInv /\ BorrowedInv => ShelfAgrees
  BY DEF ShelfInv, BorrowedInv, ShelfAgrees
<1>4. QED
  BY <1>1, <1>2, <1>3, CarefulIInv, ShelfHolds, PTL DEF CarefulSpec

(* A returned record is final: no later commit, of whatever request that   *)
(* was under way, writes it.                                               *)
THEOREM ReturnedIsFinalHolds == Spec => ReturnedIsFinal
<1> DEFINE Final == \A l \in DOMAIN loans : loans[l].status = "returned" => loans'[l] = loans[l]
<1>1. ASSUME IInv, [Next]_vars PROVE Final
  <2>1. ASSUME NEW p \in Procs, BorrowCommit(p) PROVE Final
    BY <1>1, <2>1, BorrowCommitRows
  <2>2. ASSUME NEW p \in Procs, ReturnCommit(p) PROVE Final
    BY <1>1, <2>2, ReturnCommitRows DEF ReturnOK
  <2>3. ASSUME NEW p \in Procs, RenewCommit(p) PROVE Final
    BY <1>1, <2>3, RenewCommitRows DEF RenewOK
  <2>4. CASE \A p \in Procs : ~BorrowCommit(p) /\ ~ReturnCommit(p) /\ ~RenewCommit(p)
    BY <1>1, <2>4, QuietSteps
  <2>5. QED
    BY <2>1, <2>2, <2>3, <2>4
<1>2. IInv /\ [Next]_vars => [Final]_vars
  BY <1>1
<1>3. Spec => [][Final]_vars
  <2> HIDE DEF Final
  <2>1. QED
    BY <1>2, IInvHolds, PTL DEF Spec
<1>4. QED
  BY <1>3 DEF ReturnedIsFinal

-----------------------------------------------------------------------------
(* The desk implements LendingDesk.  Who holds a copy follows from its one *)
(* open loan.                                                              *)
HolderFacts ==
    \A c \in Copies :
        /\ OpenOn(c) = {} => Holder[c] = None
        /\ \A l \in OpenOn(c) : Holder[c] = loans[l].user
        /\ c \in Extended <=> \E l \in OpenOn(c) : loans[l].renewed > 0

(* While loans are exclusive, the open loan of a copy says who holds it. *)
LEMMA HolderOf == ShelfInv => HolderFacts
<1> SUFFICES ASSUME ShelfInv, NEW c \in Copies
             PROVE  /\ OpenOn(c) = {} => Holder[c] = None
                    /\ \A l \in OpenOn(c) : Holder[c] = loans[l].user
                    /\ c \in Extended <=> \E l \in OpenOn(c) : loans[l].renewed > 0
  BY DEF HolderFacts
<1>1. ASSUME NEW l \in OpenOn(c) PROVE Holder[c] = loans[l].user
  <2>1. (CHOOSE m \in OpenOn(c) : TRUE) \in OpenOn(c)
    OBVIOUS
  <2>2. (CHOOSE m \in OpenOn(c) : TRUE) = l
    BY <2>1 DEF ShelfInv, LoanExclusive
  <2>3. QED
    BY <2>2 DEF Holder
<1>2. QED
  BY <1>1 DEF Holder, Extended

(* The same in the next state. *)
LEMMA HolderOfNext == ShelfInv' => HolderFacts'
  BY HolderOf, PTL

(* Both abstract variables follow from the open loans of each copy. *)
LEMMA DeskSame ==
    ASSUME ShelfInv, ShelfInv', NEW d \in Copies,
           OpenOn(d)' = OpenOn(d),
           \A l \in OpenOn(d) : /\ loans'[l].user = loans[l].user
                                /\ loans'[l].renewed = loans[l].renewed
    PROVE  Holder'[d] = Holder[d] /\ (d \in Extended' <=> d \in Extended)
<1>1. HolderFacts /\ HolderFacts'
  BY HolderOf, HolderOfNext
<1>2. /\ OpenOn(d)' = {} => Holder'[d] = None
      /\ \A l \in OpenOn(d)' : Holder'[d] = loans'[l].user
      /\ d \in Extended' <=> \E l \in OpenOn(d)' : loans'[l].renewed > 0
  BY <1>1 DEF HolderFacts
<1>3. QED
  BY <1>1, <1>2 DEF HolderFacts

(* createBorrow's commit is the abstract Lend. *)
LEMMA DeskLend ==
    ASSUME IInv, ShelfInv, ShelfInv', NEW p \in Procs, BorrowCommit(p)
    PROVE  \E c \in Copies, u \in Users : Desk!Lend(c, u)
<1>1. PICK c, u, n : c = req[p].copy /\ u = req[p].user /\ n = Len(loans) + 1
  OBVIOUS
<1>2. /\ c \in Copies /\ OpenOn(c) = {} /\ OpenOn(c)' = {n}
      /\ \A d \in Copies \ {c} : OpenOn(d)' = OpenOn(d)
  BY <1>1, BorrowShelf
<1>3. /\ u \in Users /\ \A l \in DOMAIN loans : loans'[l] = loans[l]
      /\ loans'[n] = [copy |-> c, user |-> u, due |-> req[p].due,
                      renewed |-> 0, status |-> "borrowed", back |-> 0]
  BY <1>1, BorrowCommitRows DEF BorrowOK
<1>4. loans'[n].user = u /\ loans'[n].renewed = 0
  BY <1>3
<1>5. \A d \in Copies \ {c} : Holder'[d] = Holder[d] /\ (d \in Extended' <=> d \in Extended)
  BY <1>2, <1>3, DeskSame DEF OpenOn
<1>6. HolderFacts /\ HolderFacts'
  BY HolderOf, HolderOfNext
<1>7. Holder[c] = None /\ Holder'[c] = u /\ c \notin Extended /\ c \notin Extended'
  BY <1>2, <1>4, <1>6 DEF HolderFacts
<1>8. Holder' = [Holder EXCEPT ![c] = u]
  <2>1. Holder' = [d \in Copies |-> Holder'[d]] /\ Holder = [d \in Copies |-> Holder[d]]
    BY DEF Holder
  <2> HIDE DEF Holder
  <2>2. QED
    BY <2>1, <1>2, <1>5, <1>7
<1>9. Extended' = Extended
  <2>1. Extended \subseteq Copies /\ Extended' \subseteq Copies
    BY DEF Extended
  <2>2. QED
    BY <2>1, <1>5, <1>7
<1>10. QED
  BY <1>2, <1>3, <1>7, <1>8, <1>9 DEF Desk!Lend

(* returnBorrow's commit is the abstract TakeBack. *)
LEMMA DeskTakeBack ==
    ASSUME IInv, ShelfInv, ShelfInv', NEW p \in Procs, ReturnCommit(p)
    PROVE  \E c \in Copies : Desk!TakeBack(c)
<1>1. PICK c, l : c = req[p].copy /\ l = req[p].row
  OBVIOUS
<1>2. /\ c \in Copies /\ OpenOn(c) = {l} /\ OpenOn(c)' = {}
      /\ \A d \in Copies \ {c} : OpenOn(d)' = OpenOn(d)
  BY <1>1, ReturnShelf
<1>3. /\ l \in DOMAIN loans /\ loans[l].copy = c
      /\ \A m \in DOMAIN loans \ {l} : loans'[m] = loans[m]
  BY <1>1, ReturnCommitRows
<1>4. loans[l].user \in Users
  BY <1>3, RowTypes DEF IInv, LoanRow
<1>5. \A d \in Copies \ {c} : Holder'[d] = Holder[d] /\ (d \in Extended' <=> d \in Extended)
  BY <1>2, <1>3, DeskSame DEF OpenOn
<1>6. HolderFacts /\ HolderFacts'
  BY HolderOf, HolderOfNext
<1>7. Holder[c] # None /\ Holder'[c] = None /\ c \notin Extended'
  BY <1>2, <1>4, <1>6, RowAssumption DEF HolderFacts
<1>8. Holder' = [Holder EXCEPT ![c] = None]
  <2>1. Holder' = [d \in Copies |-> Holder'[d]] /\ Holder = [d \in Copies |-> Holder[d]]
    BY DEF Holder
  <2>2. QED
    BY <2>1, <1>2, <1>5, <1>7
<1>9. Extended' = Extended \ {c}
  <2>1. Extended \subseteq Copies /\ Extended' \subseteq Copies
    BY DEF Extended
  <2>2. QED
    BY <2>1, <1>5, <1>7
<1>10. QED
  BY <1>2, <1>7, <1>8, <1>9 DEF Desk!TakeBack

(* renewBorrow's commit is the abstract Extend. *)
LEMMA DeskExtend ==
    ASSUME IInv, ShelfInv, ShelfInv', NEW p \in Procs, RenewCommit(p)
    PROVE  \E c \in Copies : Desk!Extend(c)
<1>1. PICK l : l = req[p].row
  OBVIOUS
<1>2. /\ l \in DOMAIN loans /\ loans[l].status = "borrowed" /\ loans[l].renewed = 0
      /\ loans'[l].user = loans[l].user /\ loans'[l].renewed = 1
      /\ \A m \in DOMAIN loans \ {l} : loans'[m] = loans[m]
  BY <1>1, RenewCommitRows DEF RenewOK
<1>3. PICK c \in Copies : c = loans[l].copy
  BY <1>2, RowTypes DEF IInv, LoanRow
<1>4. loans[l].user \in Users
  BY <1>2, RowTypes DEF IInv, LoanRow
<1>5. \A d \in Copies : OpenOn(d)' = OpenOn(d)
  BY RenewShelf
<1>6. OpenOn(c) = {l}
  BY <1>2, <1>3 DEF ShelfInv, LoanExclusive, OpenOn, OpenStatus
<1>7. \A d \in Copies \ {c} : Holder'[d] = Holder[d] /\ (d \in Extended' <=> d \in Extended)
  <2>1. \A d \in Copies \ {c} : l \notin OpenOn(d)
    BY <1>3 DEF OpenOn
  <2>2. QED
    BY <2>1, <1>2, <1>5, DeskSame DEF OpenOn
<1>8. HolderFacts /\ HolderFacts'
  BY HolderOf, HolderOfNext
<1>9. Holder[c] # None /\ Holder'[c] = Holder[c] /\ c \notin Extended /\ c \in Extended'
  BY <1>2, <1>4, <1>5, <1>6, <1>8, RowAssumption DEF HolderFacts
<1>10. Holder' = Holder
  <2>1. Holder' = [d \in Copies |-> Holder'[d]] /\ Holder = [d \in Copies |-> Holder[d]]
    BY DEF Holder
  <2>2. \A d \in Copies : Holder'[d] = Holder[d]
    BY <1>7, <1>9
  <2> HIDE DEF Holder
  <2>3. QED
    BY <2>1, <2>2
<1>11. Extended' = Extended \cup {c}
  <2>1. Extended \subseteq Copies /\ Extended' \subseteq Copies
    BY DEF Extended
  <2>2. QED
    BY <2>1, <1>7, <1>9
<1>12. QED
  BY <1>9, <1>10, <1>11 DEF Desk!Extend

(* Concurrent requests, aborted or not, amount to lending, extending once  *)
(* and taking back, one copy at a time, if staff mark no lent copy         *)
(* available.                                                              *)
THEOREM DeskRefinement == CarefulSpec => ImplementsDesk
<1>1. Init => Desk!Init
  BY DEF Init, Desk!Init, Holder, Extended, OpenOn
<1>2. ASSUME IInv, ShelfInv, ShelfInv', [Next]_vars PROVE [Desk!Next]_(Desk!vars)
  <2>1. ASSUME NEW p \in Procs, BorrowCommit(p) PROVE Desk!Next
    BY <1>2, <2>1, DeskLend DEF Desk!Next
  <2>2. ASSUME NEW p \in Procs, ReturnCommit(p) PROVE Desk!Next
    BY <1>2, <2>2, DeskTakeBack DEF Desk!Next
  <2>3. ASSUME NEW p \in Procs, RenewCommit(p) PROVE Desk!Next
    BY <1>2, <2>3, DeskExtend DEF Desk!Next
  <2>4. CASE \A p \in Procs : ~BorrowCommit(p) /\ ~ReturnCommit(p) /\ ~RenewCommit(p)
    <3>1. loans' = loans
      BY <1>2, <2>4, QuietSteps
    <3>2. Holder' = Holder /\ Extended' = Extended
      BY <3>1 DEF Holder, Extended, OpenOn
    <3>3. QED
      BY <3>2 DEF Desk!vars
  <2>5. QED
    BY <2>1, <2>2, <2>3, <2>4
<1>3. IInv /\ ShelfInv /\ ShelfInv' /\ [Next]_vars => [Desk!Next]_(Desk!vars)
  BY <1>2
<1>4. CarefulSpec => Desk!Spec
  BY <1>1, <1>3, CarefulIInv, ShelfHolds, PTL DEF Spec, Desk!Spec
<1>5. QED
  BY <1>4 DEF ImplementsDesk
=============================================================================
