---------------------------- MODULE ReaderProofs ----------------------------
(***************************************************************************)
(* Proofs about readers: the fines that returns write beside the records   *)
(* they close, and how many copies a reader may have at once.              *)
(***************************************************************************)
EXTENDS CirculationProofs, FiniteSetTheorems

(* FinesMatchReturns by the row: whose record a fine is of, that it is the *)
(* only one for its reason, what an overdue fine says, and that there is   *)
(* one for every late return.                                              *)
Late(l) == loans[l].back - loans[l].due

SameFine(f, g) == fines[f].loan = fines[g].loan /\ fines[f].reason = fines[g].reason

Closed(l) == l \in DOMAIN loans /\ loans[l].status = "returned"

OverdueOK(f) ==
    LET l == fines[f].loan
    IN  fines[f].reason = "overdue" =>
            /\ fines[f].user = loans[l].user
            /\ Late(l) > 0
            /\ Days(fines[f].days - 1) < Late(l) /\ Late(l) <= Days(fines[f].days)

FineOK(f) == Closed(fines[f].loan) /\ OverdueOK(f)

FInv == /\ \A f \in DOMAIN fines : FineOK(f)
        /\ \A f, g \in DOMAIN fines : SameFine(f, g) => f = g
        /\ \A l \in DOMAIN loans : Closed(l) /\ Late(l) > 0 =>
               \E f \in DOMAIN fines : fines[f].loan = l /\ fines[f].reason = "overdue"

LEMMA FinesStart == Init => FInv
  BY DEF Init, FInv

LEMMA FinesAgree == FInv => FinesMatchReturns
<1> SUFFICES ASSUME FInv, NEW l \in DOMAIN loans
             PROVE  LET of(reason) == {f \in DOMAIN fines : fines[f].loan = l /\ fines[f].reason = reason}
                        late == loans[l].back - loans[l].due
                    IN  /\ loans[l].status # "returned" => \A reason \in FineReason : of(reason) = {}
                        /\ loans[l].status = "returned" => (of("overdue") # {} <=> late > 0)
                        /\ \A reason \in FineReason : \A f, g \in of(reason) : f = g
                        /\ \A f \in of("overdue") : /\ fines[f].user = loans[l].user
                                                    /\ Days(fines[f].days - 1) < late
                                                    /\ late <= Days(fines[f].days)
  BY DEF FinesMatchReturns
<1> DEFINE of(reason) == {f \in DOMAIN fines : fines[f].loan = l /\ fines[f].reason = reason}
<1>1. loans[l].status # "returned" => \A reason \in FineReason : of(reason) = {}
  BY DEF FInv, FineOK, Closed
<1>2. loans[l].status = "returned" => (of("overdue") # {} <=> loans[l].back - loans[l].due > 0)
  BY DEF FInv, FineOK, Closed, OverdueOK, Late
<1>3. \A reason \in FineReason : \A f, g \in of(reason) : f = g
  BY DEF FInv, SameFine
<1>4. \A f \in of("overdue") : /\ fines[f].user = loans[l].user
                               /\ Days(fines[f].days - 1) < Late(l)
                               /\ Late(l) <= Days(fines[f].days)
  BY DEF FInv, FineOK, OverdueOK
<1>5. QED
  BY <1>1, <1>2, <1>3, <1>4 DEF Late

-----------------------------------------------------------------------------
(* The days of an overdue fine are the days late, rounded up (math.Ceil).  *)
LEMMA Quotient ==
    ASSUME NEW T \in Nat, T > 0, NEW x \in Nat
    PROVE  /\ x \div T \in Nat
           /\ (x \div T) * T <= x /\ x < (x \div T) * T + T
  BY Z3T(20)

LEMMA OneLess == ASSUME NEW d \in Nat, NEW T \in Nat PROVE (d - 1) * T = d * T - T
  BY SMTT(20)

LEMMA RoundedUp ==
    ASSUME NEW due \in Nat, NEW at \in Nat, at > due
    PROVE  /\ Days(DaysLate(due, at) - 1) < at - due
           /\ at - due <= Days(DaysLate(due, at))
<1> DEFINE x == at - due + TicksPerDay - 1
           d == x \div TicksPerDay
<1>1. TicksPerDay \in Nat /\ TicksPerDay > 0
  BY TimeAssumption
<1>2. x \in Nat /\ at - due = x - TicksPerDay + 1
  BY <1>1
<1> HIDE DEF x
<1>3. d \in Nat /\ d * TicksPerDay <= x /\ x < d * TicksPerDay + TicksPerDay
  BY <1>1, <1>2, Quotient
<1> HIDE DEF d
<1>4. (d - 1) * TicksPerDay = d * TicksPerDay - TicksPerDay
  BY <1>1, <1>3, OneLess
<1>5. PICK dT : dT = d * TicksPerDay /\ dT \in Nat
  BY <1>1, <1>3
<1>6. (d - 1) * TicksPerDay < at - due /\ at - due <= d * TicksPerDay
  <2>1. dT - TicksPerDay < x - TicksPerDay + 1 /\ x - TicksPerDay + 1 <= dT
    BY <1>1, <1>2, <1>3, <1>5
  <2>2. QED
    BY <1>2, <1>4, <1>5, <2>1
<1>7. DaysLate(due, at) = d
  BY DEF DaysLate, d, x
<1>8. QED
  BY <1>6, <1>7 DEF Days

(* What a return appends: at most one overdue fine, and one if it is late, *)
(* and at most one of another reason.                                      *)
LEMMA Appended ==
    ASSUME NEW q \in Request, q.user \in Users, q.to \in Outcomes
    PROVE  /\ NewFines(q) \in Seq(FineRow)
           /\ \A i \in DOMAIN NewFines(q) :
                /\ NewFines(q)[i].loan = q.row /\ NewFines(q)[i].user = q.user
                /\ NewFines(q)[i].reason = "overdue" =>
                     q.at > q.due /\ NewFines(q)[i].days = DaysLate(q.due, q.at)
           /\ \A i, j \in DOMAIN NewFines(q) : NewFines(q)[i].reason = NewFines(q)[j].reason => i = j
           /\ q.at > q.due => \E i \in DOMAIN NewFines(q) : NewFines(q)[i].reason = "overdue"
<1> DEFINE fine(reason, days) == [loan |-> q.row, user |-> q.user, reason |-> reason,
                                  days |-> days, status |-> "unpaid"]
           a == fine("overdue", DaysLate(q.due, q.at))
           b == fine(q.to, 0)
<1>1. q.at \in Nat /\ q.due \in Nat /\ q.row \in Nat
  BY DEF Request
<1>2. q.at > q.due => a \in FineRow /\ a.loan = q.row /\ a.user = q.user /\ a.reason = "overdue"
                      /\ a.days = DaysLate(q.due, q.at)
  BY <1>1, DaysLateType DEF FineRow, FineReason, FineStatus
<1>3. q.to # "available" => b \in FineRow /\ b.loan = q.row /\ b.user = q.user /\ b.reason # "overdue"
  BY <1>1 DEF FineRow, FineReason, FineStatus, Outcomes
<1>4. NewFines(q) = (IF q.at > q.due THEN <<a>> ELSE <<>>) \o (IF q.to # "available" THEN <<b>> ELSE <<>>)
  BY DEF NewFines
<1> HIDE DEF a, b
<1>5. CASE q.at > q.due /\ q.to # "available"
  <2>1. <<a>> \in Seq(FineRow) /\ b \in FineRow /\ Len(<<a>>) = 1 /\ <<a>>[1] = a
    BY <1>2, <1>3, <1>5
  <2>2. NewFines(q) = Append(<<a>>, b)
    BY <1>4, <1>5, <2>1, AppendIsConcat
  <2>3. /\ NewFines(q) \in Seq(FineRow) /\ DOMAIN NewFines(q) = {1, 2}
        /\ NewFines(q)[1] = a /\ NewFines(q)[2] = b
    <3>1. PICK s \in Seq(FineRow) : s = <<a>>
      BY <2>1
    <3>2. Len(s) = 1 /\ s[1] = a /\ NewFines(q) = Append(s, b)
      BY <2>1, <2>2, <3>1
    <3>3. Append(s, b) \in Seq(FineRow) /\ Len(Append(s, b)) = 2
          /\ Append(s, b)[1] = a /\ Append(s, b)[2] = b
      <4>1. b \in FineRow /\ Len(s) + 1 = 2 /\ 1 \in 1 .. Len(s)
        BY <2>1, <3>2
      <4>2. /\ Append(s, b) \in Seq(FineRow) /\ Len(Append(s, b)) = Len(s) + 1
            /\ Append(s, b)[1] = s[1] /\ Append(s, b)[Len(s) + 1] = b
        BY <4>1, AppendProperties
      <4>3. QED
        BY <3>2, <4>1, <4>2
    <3>4. QED
      BY <3>2, <3>3, LenProperties
  <2>4. QED
    BY <2>3, <1>2, <1>3, <1>5
<1>6. CASE q.at > q.due /\ q.to = "available"
  <2>1. NewFines(q) = <<a>>
    BY <1>4, <1>6
  <2>2. DOMAIN NewFines(q) = {1} /\ NewFines(q)[1] = a
    BY <2>1
  <2>3. NewFines(q) \in Seq(FineRow)
    BY <2>1, <1>2, <1>6
  <2>4. QED
    BY <2>2, <2>3, <1>2, <1>6
<1>7. CASE ~(q.at > q.due) /\ q.to # "available"
  <2>1. NewFines(q) = <<b>>
    BY <1>4, <1>7
  <2>2. DOMAIN NewFines(q) = {1} /\ NewFines(q)[1] = b
    BY <2>1
  <2>3. NewFines(q) \in Seq(FineRow)
    BY <2>1, <1>3, <1>7
  <2>4. QED
    BY <2>2, <2>3, <1>3, <1>7
<1>8. CASE ~(q.at > q.due) /\ q.to = "available"
  <2>1. NewFines(q) = <<>>
    BY <1>4, <1>8
  <2>2. QED
    BY <2>1, <1>8, EmptySeq
<1>9. QED
  BY <1>5, <1>6, <1>7, <1>8

-----------------------------------------------------------------------------
(* A step that closes no record and changes no closed one, and that leaves *)
(* of every fine whose it is, what for and of how many days.               *)
LEMMA FinesStay ==
    ASSUME FInv, DOMAIN fines' = DOMAIN fines,
           \A f \in DOMAIN fines : /\ fines'[f].loan = fines[f].loan
                                   /\ fines'[f].user = fines[f].user
                                   /\ fines'[f].reason = fines[f].reason
                                   /\ fines'[f].days = fines[f].days,
           \A l : Closed(l) => l \in DOMAIN loans' /\ loans'[l] = loans[l],
           \A l : Closed(l)' => Closed(l)
    PROVE  FInv'
<1>1. ASSUME NEW f \in DOMAIN fines' PROVE FineOK(f)'
  <2>1. Closed(fines[f].loan) /\ OverdueOK(f)
    BY <1>1 DEF FInv, FineOK
  <2>2. QED
    BY <1>1, <2>1 DEF FineOK, Closed, OverdueOK, Late
<1>2. \A f, g \in DOMAIN fines' : SameFine(f, g)' => f = g
  BY DEF FInv, SameFine
<1>3. ASSUME NEW l \in DOMAIN loans', Closed(l)', Late(l)' > 0
      PROVE  \E f \in DOMAIN fines' : fines'[f].loan = l /\ fines'[f].reason = "overdue"
  <2>1. Closed(l) /\ Late(l) > 0 /\ l \in DOMAIN loans
    BY <1>3 DEF Closed, Late
  <2>2. QED
    BY <2>1 DEF FInv
<1>4. QED
  BY <1>1, <1>2, <1>3 DEF FInv

LEMMA BorrowCommitFines ==
    ASSUME IInv, FInv, NEW p \in Procs, BorrowCommit(p)
    PROVE  FInv'
<1>1. PICK n : /\ DOMAIN loans' = DOMAIN loans \cup {n} /\ loans'[n].status # "returned"
               /\ \A l \in DOMAIN loans : loans'[l] = loans[l]
  <2>1. loans'[Len(loans) + 1].status = "borrowed"
    <3>1. loans'[Len(loans) + 1] = [copy |-> req[p].copy, user |-> req[p].user, due |-> req[p].due,
                                    renewed |-> 0, status |-> "borrowed", back |-> 0]
      BY BorrowCommitRows
    <3>2. QED
      BY <3>1
  <2>2. QED
    BY <2>1, BorrowCommitRows
<1>2. fines' = fines
  BY DEF BorrowCommit
<1>3. QED
  BY <1>1, <1>2, FinesStay DEF Closed

LEMMA RenewCommitFines ==
    ASSUME IInv, FInv, NEW p \in Procs, RenewCommit(p)
    PROVE  FInv'
<1>1. PICK l : l = req[p].row
  OBVIOUS
<1>2. /\ l \in DOMAIN loans /\ loans[l].status = "borrowed" /\ DOMAIN loans' = DOMAIN loans
      /\ loans'[l].status = loans[l].status
      /\ \A m \in DOMAIN loans \ {l} : loans'[m] = loans[m]
  BY <1>1, RenewCommitRows DEF RenewOK
<1>3. fines' = fines
  BY DEF RenewCommit
<1>4. QED
  BY <1>2, <1>3, FinesStay DEF Closed

LEMMA SettleUpdateFines ==
    ASSUME IInv, FInv, NEW p \in Procs, SettleUpdate(p)
    PROVE  FInv'
<1>1. /\ loans' = loans
      /\ fines' = [fines EXCEPT ![req[p].row].status = req[p].to]
  BY DEF SettleUpdate
<1>2. \A f \in DOMAIN fines : fines[f] \in FineRow
  BY RowTypes DEF IInv
<1>3. DOMAIN fines' = DOMAIN fines
  BY <1>1
<1>4. ASSUME NEW f \in DOMAIN fines
      PROVE  /\ fines'[f].loan = fines[f].loan /\ fines'[f].user = fines[f].user
             /\ fines'[f].reason = fines[f].reason /\ fines'[f].days = fines[f].days
  <2>1. fines'[f] = fines[f] \/ fines'[f] = [fines[f] EXCEPT !.status = req[p].to]
    BY <1>1, <1>4
  <2>2. QED
    BY <1>2, <1>4, <2>1 DEF FineRow
<1>5. QED
  BY <1>1, <1>3, <1>4, FinesStay DEF Closed

(* The record that a return closes and the fines it adds to those there.   *)
LEMMA ReturnRow ==
    ASSUME IInv, NEW p \in Procs, ReturnCommit(p)
    PROVE  LET l == req[p].row
           IN  loans'[l].back = req[p].at /\ loans'[l].due = req[p].due
               /\ loans'[l].user = req[p].user
<1>1. ReturnOK(p) /\ req[p] \in Request
  BY DEF IInv, ReqOK, ReturnCommit, ReturnSteps, ReturnLocked, TypeOK
<1>2. PICK l : l = req[p].row /\ l \in DOMAIN loans /\ loans[l] \in LoanRow
  BY <1>1, RowTypes DEF ReturnOK, IInv
<1>3. loans'[l] = [loans[l] EXCEPT !.status = "returned", !.back = req[p].at]
  BY <1>2 DEF ReturnCommit, LoanRow
<1>4. loans'[l].back = req[p].at /\ loans'[l].due = loans[l].due /\ loans'[l].user = loans[l].user
  BY <1>2, <1>3 DEF LoanRow
<1>5. loans[l].due = req[p].due /\ loans[l].user = req[p].user
  BY <1>1, <1>2 DEF ReturnOK
<1>6. QED
  BY <1>2, <1>4, <1>5

LEMMA ReturnFineRows ==
    ASSUME IInv, NEW p \in Procs, ReturnCommit(p)
    PROVE  LET new == NewFines(req[p])
           IN  /\ \A f \in DOMAIN fines : f \in DOMAIN fines' /\ fines'[f] = fines[f]
               /\ \A i \in DOMAIN new : /\ Len(fines) + i \in DOMAIN fines' \ DOMAIN fines
                                        /\ fines'[Len(fines) + i] = new[i]
               /\ \A f \in DOMAIN fines' \ DOMAIN fines :
                    \E i \in DOMAIN new : f = Len(fines) + i /\ fines'[f] = new[i]
<1> DEFINE new == NewFines(req[p])
           n == Len(fines)
           k == Len(new)
<1>1. fines \in Seq(FineRow) /\ new \in Seq(FineRow) /\ fines' = fines \o new
  <2>1. req[p] \in Request /\ ReturnOK(p) /\ fines \in Seq(FineRow)
    BY DEF IInv, ReqOK, ReturnCommit, ReturnSteps, ReturnLocked, TypeOK
  <2>2. req[p].to \in Outcomes /\ req[p].user \in Users
    BY <2>1, RowTypes DEF IInv, ReturnOK, LoanRow
  <2>3. QED
    BY <2>1, <2>2, Appended DEF ReturnCommit
<1> HIDE DEF new
<1>2. /\ n \in Nat /\ k \in Nat /\ DOMAIN fines = 1 .. n /\ DOMAIN new = 1 .. k
      /\ DOMAIN fines' = 1 .. n + k
      /\ \A i \in 1 .. n + k : fines'[i] = IF i <= n THEN fines[i] ELSE new[i - n]
  BY <1>1, ConcatProperties, LenProperties
<1> HIDE DEF n, k
<1>3. \A f \in DOMAIN fines : f \in DOMAIN fines' /\ fines'[f] = fines[f]
  BY <1>2
<1>4. ASSUME NEW i \in DOMAIN new
      PROVE  n + i \in DOMAIN fines' \ DOMAIN fines /\ fines'[n + i] = new[i]
  <2>1. i \in 1 .. k /\ n + i \in 1 .. n + k /\ ~(n + i <= n) /\ (n + i) - n = i
    BY <1>2, <1>4
  <2>2. QED
    BY <1>2, <2>1
<1>5. ASSUME NEW f \in DOMAIN fines' \ DOMAIN fines
      PROVE  \E i \in DOMAIN new : f = n + i /\ fines'[f] = new[i]
  <2>1. f \in 1 .. n + k /\ ~(f <= n) /\ f - n \in 1 .. k /\ f = n + (f - n)
    BY <1>2, <1>5
  <2>2. QED
    BY <1>2, <2>1
<1>6. QED
  BY <1>3, <1>4, <1>5 DEF n, new

LEMMA ReturnCommitFines ==
    ASSUME IInv, FInv, NEW p \in Procs, ReturnCommit(p)
    PROVE  FInv'
<1>1. PICK q, l : q = req[p] /\ l = req[p].row
  OBVIOUS
<1>2. /\ l \in DOMAIN loans /\ loans[l].status = "borrowed" /\ DOMAIN loans' = DOMAIN loans
      /\ loans'[l].status = "returned" /\ \A m \in DOMAIN loans \ {l} : loans'[m] = loans[m]
  BY <1>1, ReturnCommitRows DEF ReturnOK
<1>3. loans'[l].back = q.at /\ loans'[l].due = q.due /\ loans'[l].user = q.user
  BY <1>1, ReturnRow
<1>4. q \in Request /\ q.user \in Users /\ q.to \in Outcomes /\ q.row = l
      /\ q.at \in Nat /\ q.due \in Nat
  <2>1. q \in Request /\ ReturnOK(p)
    BY <1>1 DEF IInv, ReqOK, ReturnCommit, ReturnSteps, ReturnLocked, TypeOK
  <2>2. QED
    BY <1>1, <2>1, RowTypes DEF IInv, ReturnOK, LoanRow, Request
<1>5. PICK new : new = NewFines(q)
  OBVIOUS
<1>6. /\ \A f \in DOMAIN fines : f \in DOMAIN fines' /\ fines'[f] = fines[f]
      /\ \A i \in DOMAIN new : /\ Len(fines) + i \in DOMAIN fines'
                               /\ fines'[Len(fines) + i] = new[i]
      /\ \A f \in DOMAIN fines' \ DOMAIN fines :
           \E i \in DOMAIN new : f = Len(fines) + i /\ fines'[f] = new[i]
  BY <1>1, <1>5, ReturnFineRows
<1>7. /\ \A i \in DOMAIN new : /\ new[i].loan = l /\ new[i].user = q.user
                               /\ new[i].reason = "overdue" =>
                                    q.at > q.due /\ new[i].days = DaysLate(q.due, q.at)
      /\ \A i, j \in DOMAIN new : new[i].reason = new[j].reason => i = j
      /\ q.at > q.due => \E i \in DOMAIN new : new[i].reason = "overdue"
  BY <1>4, <1>5, Appended
<1>8. \A f \in DOMAIN fines : Closed(fines[f].loan) /\ fines[f].loan # l
  BY <1>2 DEF FInv, FineOK, Closed
<1>9. ASSUME NEW f \in DOMAIN fines' PROVE FineOK(f)'
  <2>1. CASE f \in DOMAIN fines
    <3>1. Closed(fines[f].loan) /\ OverdueOK(f) /\ fines[f].loan # l /\ fines'[f] = fines[f]
      BY <1>6, <1>8, <2>1 DEF FInv, FineOK
    <3>2. QED
      BY <1>2, <3>1 DEF FineOK, Closed, OverdueOK, Late
  <2>2. CASE f \notin DOMAIN fines
    <3>1. PICK i \in DOMAIN new : fines'[f] = new[i]
      BY <1>6, <1>9, <2>2
    <3>2. fines'[f].loan = l /\ fines'[f].user = q.user /\ Closed(l)'
      BY <1>2, <1>7, <3>1 DEF Closed
    <3>3. ASSUME fines'[f].reason = "overdue" PROVE q.at > q.due /\ fines'[f].days = DaysLate(q.due, q.at)
      BY <1>7, <3>1, <3>3
    <3>4. ASSUME fines'[f].reason = "overdue"
          PROVE  /\ q.at - q.due > 0 /\ Days(fines'[f].days - 1) < q.at - q.due
                 /\ q.at - q.due <= Days(fines'[f].days)
      <4>1. q.at > q.due /\ fines'[f].days = DaysLate(q.due, q.at)
        BY <3>3, <3>4
      <4>2. Days(DaysLate(q.due, q.at) - 1) < q.at - q.due /\ q.at - q.due <= Days(DaysLate(q.due, q.at))
        BY <1>4, <4>1, RoundedUp
      <4>3. QED
        BY <1>4, <4>1, <4>2
    <3>5. Late(l)' = q.at - q.due
      BY <1>3 DEF Late
    <3>6. QED
      BY <1>3, <3>2, <3>4, <3>5 DEF FineOK, OverdueOK, Days
  <2>3. QED
    BY <2>1, <2>2
<1>10. ASSUME NEW f \in DOMAIN fines', NEW g \in DOMAIN fines', SameFine(f, g)' PROVE f = g
  <2>1. CASE f \in DOMAIN fines /\ g \in DOMAIN fines
    BY <1>6, <1>10, <2>1 DEF FInv, SameFine
  <2>2. CASE f \notin DOMAIN fines /\ g \notin DOMAIN fines
    <3>1. PICK i, j \in DOMAIN new : /\ f = Len(fines) + i /\ fines'[f] = new[i]
                                     /\ g = Len(fines) + j /\ fines'[g] = new[j]
      BY <1>6, <1>10, <2>2
    <3>2. new[i].reason = new[j].reason
      BY <1>10, <3>1 DEF SameFine
    <3>3. QED
      BY <1>7, <3>1, <3>2
  <2>3. ASSUME NEW a \in DOMAIN fines', NEW b \in DOMAIN fines', a \in DOMAIN fines, b \notin DOMAIN fines
        PROVE  fines'[a].loan # fines'[b].loan
    <3>1. fines'[b].loan = l
      BY <1>6, <1>7, <2>3
    <3>2. fines'[a].loan # l
      BY <1>6, <1>8, <2>3
    <3>3. QED
      BY <3>1, <3>2
  <2>4. QED
    BY <1>10, <2>1, <2>2, <2>3 DEF SameFine
<1>11. ASSUME NEW m \in DOMAIN loans', Closed(m)', Late(m)' > 0
       PROVE  \E f \in DOMAIN fines' : fines'[f].loan = m /\ fines'[f].reason = "overdue"
  <2>1. CASE m # l
    <3>1. m \in DOMAIN loans /\ Closed(m) /\ Late(m) > 0
      BY <1>2, <1>11, <2>1 DEF Closed, Late
    <3>2. PICK f \in DOMAIN fines : fines[f].loan = m /\ fines[f].reason = "overdue"
      BY <3>1 DEF FInv
    <3>3. QED
      BY <1>6, <3>2
  <2>2. CASE m = l
    <3>1. q.at > q.due
      BY <1>3, <1>4, <1>11, <2>2 DEF Late
    <3>2. PICK i \in DOMAIN new : new[i].reason = "overdue" /\ new[i].loan = l
      BY <1>7, <3>1
    <3>3. Len(fines) + i \in DOMAIN fines' /\ fines'[Len(fines) + i] = new[i]
      BY <1>6, <3>2
    <3>4. QED
      BY <2>2, <3>2, <3>3
  <2>3. QED
    BY <2>1, <2>2
<1>12. QED
  BY <1>9, <1>10, <1>11 DEF FInv

-----------------------------------------------------------------------------
LEMMA FinesStep == IInv /\ FInv /\ [Next]_vars => FInv'
<1> SUFFICES ASSUME IInv, FInv, [Next]_vars PROVE FInv'
  OBVIOUS
<1>1. CASE loans' = loans /\ fines' = fines
  BY <1>1, FinesStay DEF Closed
<1>2. \/ loans' = loans /\ fines' = fines
      \/ \E p \in Procs : BorrowCommit(p) \/ ReturnCommit(p) \/ RenewCommit(p) \/ SettleUpdate(p)
  <2>1. ASSUME NEW p \in Procs, Arrive(p) PROVE loans' = loans /\ fines' = fines
    BY <2>1 DEF Arrive, BorrowLock, ReturnLock, RenewLock, ReserveAvail, UpdateReservation,
       SettleRead, UpdateCopy, CreateCopy, DeleteRead, UpdateUser, Start, tables
  <2>2. ASSUME NEW p \in Procs, Abort(p) \/ Proceed(p)
        PROVE  \/ loans' = loans /\ fines' = fines
               \/ BorrowCommit(p) \/ ReturnCommit(p) \/ RenewCommit(p) \/ SettleUpdate(p)
    BY <2>2 DEF Abort, Proceed, BorrowUser, BorrowCount, BorrowFines, ReturnCopy, ReturnPromote,
       RenewCheck, ReserveDup, ReserveInsert, DeleteRow, DeleteCheck, tables
  <2>3. CASE Tick \/ UNCHANGED vars
    BY <2>3 DEF Tick, vars, tables
  <2>4. QED
    BY <2>1, <2>2, <2>3 DEF Next, DeadlockFound, tables
<1>3. QED
  BY <1>1, <1>2, BorrowCommitFines, ReturnCommitFines, RenewCommitFines, SettleUpdateFines

(* FinesMatchReturns: the fines of a record are those of the one return    *)
(* that closed it, at most one for each reason; an overdue fine is there   *)
(* exactly when the return was late, of its reader, and counts every day   *)
(* begun (borrow.go:192-224).                                              *)
THEOREM FinesMatchHolds == Spec => []FinesMatchReturns
<1>1. Spec => []FInv
  BY FinesStart, FinesStep, IInvHolds, PTL DEF Spec
<1>2. QED
  BY <1>1, FinesAgree, PTL
-----------------------------------------------------------------------------
(* A function on a finite set of things has a largest value (there is no   *)
(* smallest subset on which it has none).                                  *)
LEMMA LargestValue ==
    ASSUME NEW S, IsFiniteSet(S), S # {}, NEW f \in [S -> Nat]
    PROVE  \E x \in S : \A y \in S : f[y] <= f[x]
<1> DEFINE Has(T) == \E x \in T : \A y \in T : f[y] <= f[x]
           Without == {T \in SUBSET S : T # {} /\ ~Has(T)}
<1> SUFFICES ASSUME Without # {} PROVE FALSE
  BY DEF Without
<1>1. IsWellFoundedOn(StrictSubsetOrdering(S), SUBSET S)
  BY FS_StrictSubsetOrderingWellFounded, FS_FiniteSubsetsOfFinite
<1>2. PICK T \in Without : \A U \in Without : ~(<<U, T>> \in StrictSubsetOrdering(S))
  <2>1. Without \subseteq SUBSET S
    OBVIOUS
  <2> HIDE DEF Without
  <2>2. QED
    BY <1>1, <2>1, WFMin
<1>3. PICK x : x \in T
  BY <1>2
<1>4. T \in SUBSET S /\ ~Has(T) /\ f[x] \in Nat
  BY <1>2, <1>3
<1>5. T \ {x} \in SUBSET S /\ <<T \ {x}, T>> \in StrictSubsetOrdering(S)
  BY <1>3, <1>4 DEF StrictSubsetOrdering
<1>6. T \ {x} \notin Without
  BY <1>2, <1>5
<1>7. CASE T \ {x} = {}
  BY <1>3, <1>4, <1>7
<1>8. CASE T \ {x} # {}
  <2>1. PICK z \in T \ {x} : \A y \in T \ {x} : f[y] <= f[z]
    BY <1>5, <1>6, <1>8
  <2>2. \A y \in T : f[y] \in Nat
    BY <1>4
  <2>3. CASE f[x] <= f[z]
    <3>1. \A y \in T : f[y] <= f[z]
      BY <2>1, <2>3
    <3>2. QED
      BY <1>4, <2>1, <3>1
  <2>4. CASE f[z] < f[x]
    <3>1. \A y \in T : f[y] <= f[x]
      BY <2>1, <2>2, <2>4
    <3>2. QED
      BY <1>3, <1>4, <3>1
  <2>5. QED
    BY <1>3, <2>1, <2>2, <2>3, <2>4
<1>9. QED
  BY <1>7, <1>8

(* The largest limit that an account may have.  Max_borrow is a number in  *)
(* a column, so there are finitely many; requests are finitely many.       *)
FiniteDesk == IsFiniteSet(Procs) /\ Procs # {} /\ IsFiniteSet(AccountPatches)

Limits == {DefaultMax} \cup {a.max : a \in AccountPatches}
Top    == CHOOSE n \in Limits : \A m \in Limits : m <= n

LEMMA TopLimit == ASSUME FiniteDesk PROVE Top \in Nat /\ \A n \in Limits : n \in Nat /\ n <= Top
<1>1. DefaultMax \in Nat /\ \A a \in AccountPatches : a.max \in Nat
  BY PatchAssumption
<1>2. \E n \in Limits : \A m \in Limits : m <= n
  <2>1. CASE AccountPatches = {}
    BY <1>1, <2>1 DEF Limits
  <2>2. CASE AccountPatches # {}
    <3> DEFINE f == [a \in AccountPatches |-> a.max]
    <3>1. f \in [AccountPatches -> Nat]
      BY <1>1
    <3>2. PICK a \in AccountPatches : \A b \in AccountPatches : f[b] <= f[a]
      <4> HIDE DEF f
      <4>1. QED
        BY <2>2, <3>1, LargestValue DEF FiniteDesk
    <3>3. \A b \in AccountPatches : b.max <= a.max
      BY <3>2
    <3>4. CASE DefaultMax <= a.max
      BY <1>1, <3>3, <3>4 DEF Limits
    <3>5. CASE a.max < DefaultMax
      BY <1>1, <3>3, <3>5 DEF Limits
    <3>6. QED
      BY <1>1, <3>4, <3>5
  <2>3. QED
    BY <2>1, <2>2
<1>3. Top \in Limits /\ \A n \in Limits : n <= Top
  BY <1>2 DEF Top
<1>4. QED
  BY <1>1, <1>3 DEF Limits

(* LimitBound is not inductive: a request that has passed the count of its *)
(* reader's loans will add one whatever others have added since.  Those    *)
(* requests are counted as well.                                           *)
Counted(u) == {p \in Procs : pc[p] \in {"borrow_fines", "borrow_commit"} /\ req[p].user = u}

LimitsKnown ==
    /\ \A u \in Users : account[u].max \in Limits
    /\ \A p \in Procs : pc[p] = "borrow_count" => req[p].limit \in Limits

LoansBounded ==
    \A u \in Users : Cardinality(OpenLoans(u)) + Cardinality(Counted(u)) <= Top + Cardinality(Procs) - 1

LimitInv == LimitsKnown /\ LoansBounded

LEMMA CountsAreFinite ==
    ASSUME FiniteDesk, TypeOK, NEW u
    PROVE  /\ IsFiniteSet(OpenLoans(u)) /\ Cardinality(OpenLoans(u)) \in Nat
           /\ IsFiniteSet(Counted(u)) /\ Cardinality(Counted(u)) \in Nat
           /\ Cardinality(Counted(u)) <= Cardinality(Procs)
           /\ Cardinality(Procs) \in Nat /\ Cardinality(Procs) >= 1
<1>1. IsFiniteSet(DOMAIN loans) /\ OpenLoans(u) \subseteq DOMAIN loans
  BY RowTypes, FS_Interval DEF OpenLoans
<1>2. Counted(u) \subseteq Procs
  BY DEF Counted
<1>3. Cardinality(Procs) \in Nat /\ Cardinality(Procs) # 0
  BY FS_CardinalityType, FS_EmptySet DEF FiniteDesk
<1>4. IsFiniteSet(OpenLoans(u)) /\ IsFiniteSet(Counted(u)) /\ Cardinality(Counted(u)) <= Cardinality(Procs)
  BY <1>1, <1>2, FS_Subset DEF FiniteDesk
<1>5. QED
  BY <1>3, <1>4, FS_CardinalityType

LEMMA LimitStart == ASSUME FiniteDesk PROVE Init => LimitInv
<1> SUFFICES ASSUME Init PROVE LimitInv
  OBVIOUS
<1>1. LimitsKnown
  BY DEF Init, LimitsKnown, Limits
<1>2. ASSUME NEW u \in Users
      PROVE  Cardinality(OpenLoans(u)) + Cardinality(Counted(u)) <= Top + Cardinality(Procs) - 1
  <2>1. OpenLoans(u) = {} /\ Counted(u) = {}
    BY DEF Init, OpenLoans, Counted
  <2>2. Cardinality(Procs) \in Nat /\ Cardinality(Procs) # 0
    BY FS_CardinalityType, FS_EmptySet DEF FiniteDesk
  <2>3. QED
    BY <2>1, <2>2, TopLimit, FS_EmptySet
<1>3. QED
  BY <1>1, <1>2 DEF LimitInv, LoansBounded

(* No more loans, nobody past the count who was not: the bound stays. *)
LEMMA NoMoreLoans ==
    ASSUME FiniteDesk, IInv, LimitInv,
           \A u \in Users : OpenLoans(u)' \subseteq OpenLoans(u) /\ Counted(u)' \subseteq Counted(u)
    PROVE  LoansBounded'
<1> SUFFICES ASSUME NEW u \in Users
             PROVE  Cardinality(OpenLoans(u)') + Cardinality(Counted(u)') <= Top + Cardinality(Procs) - 1
  BY DEF LoansBounded, Top, Limits
<1>1. /\ IsFiniteSet(OpenLoans(u)) /\ Cardinality(OpenLoans(u)) \in Nat
      /\ IsFiniteSet(Counted(u)) /\ Cardinality(Counted(u)) \in Nat /\ Cardinality(Procs) \in Nat
  BY CountsAreFinite DEF IInv
<1>2. /\ IsFiniteSet(OpenLoans(u)') /\ Cardinality(OpenLoans(u)') <= Cardinality(OpenLoans(u))
      /\ IsFiniteSet(Counted(u)') /\ Cardinality(Counted(u)') <= Cardinality(Counted(u))
  BY <1>1, FS_Subset
<1>3. Cardinality(OpenLoans(u)') \in Nat /\ Cardinality(Counted(u)') \in Nat
  BY <1>2, FS_CardinalityType
<1>4. Cardinality(OpenLoans(u)) + Cardinality(Counted(u)) <= Top + Cardinality(Procs) - 1
  BY DEF LimitInv, LoansBounded
<1>5. QED
  BY <1>1, <1>2, <1>3, <1>4, TopLimit

LEMMA CountLimit ==
    ASSUME FiniteDesk, IInv, LimitInv, NEW p \in Procs, BorrowCount(p)
    PROVE  LimitInv'
<1>1. /\ loans' = loans /\ account' = account /\ pc[p] = "borrow_count"
      /\ pc \in [Procs -> Steps \cup {"idle"}] /\ req \in [Procs -> Request] /\ TypeOK
  BY DEF BorrowCount, tables, IInv, TypeOK
<1>2. LimitsKnown'
  BY <1>1 DEF LimitInv, LimitsKnown, BorrowCount, Goto, Finish, Limits
<1>3. CASE ~BelowLimit(Cardinality(OpenLoans(req[p].user)), req[p].limit)
  <2>1. pc' = [pc EXCEPT ![p] = "idle"] /\ \A q \in Procs \ {p} : req'[q] = req[q]
    BY <1>1, <1>3 DEF BorrowCount, Finish, Goto
  <2>2. \A u \in Users : OpenLoans(u)' \subseteq OpenLoans(u) /\ Counted(u)' \subseteq Counted(u)
    BY <1>1, <2>1 DEF OpenLoans, Counted
  <2>3. QED
    BY <1>2, <2>2, NoMoreLoans DEF LimitInv
<1>4. CASE BelowLimit(Cardinality(OpenLoans(req[p].user)), req[p].limit)
  <2>1. pc' = [pc EXCEPT ![p] = "borrow_fines"] /\ req' = req
    BY <1>1, <1>4 DEF BorrowCount, Goto
  <2>2. LoansBounded'
    <3> SUFFICES ASSUME NEW u \in Users
                 PROVE  Cardinality(OpenLoans(u)') + Cardinality(Counted(u)') <= Top + Cardinality(Procs) - 1
      BY DEF LoansBounded, Top, Limits
    <3>1. OpenLoans(u)' = OpenLoans(u)
      BY <1>1 DEF OpenLoans
    <3>2. CASE u = req[p].user
      <4>1. Counted(u)' \subseteq Procs
        BY DEF Counted
      <4>2. Cardinality(Counted(u)') <= Cardinality(Procs) /\ Cardinality(Counted(u)') \in Nat
        BY <4>1, FS_Subset, FS_CardinalityType DEF FiniteDesk
      <4>3. Cardinality(OpenLoans(u)) < Top
        <5>1. req[p].limit \in Nat /\ req[p].limit <= Top /\ Cardinality(OpenLoans(u)) < req[p].limit
          BY <1>1, <1>4, <3>2, TopLimit DEF LimitInv, LimitsKnown, BelowLimit
        <5>2. QED
          BY <1>1, <5>1, TopLimit, CountsAreFinite
      <4>4. QED
        BY <1>1, <3>1, <4>2, <4>3, TopLimit, CountsAreFinite
    <3>3. CASE u # req[p].user
      <4>1. Counted(u)' = Counted(u)
        BY <1>1, <2>1, <3>3 DEF Counted
      <4>2. QED
        BY <3>1, <4>1 DEF LimitInv, LoansBounded
    <3>4. QED
      BY <3>2, <3>3
  <2>3. QED
    BY <1>2, <2>2 DEF LimitInv
<1>5. QED
  BY <1>3, <1>4

(* A loan that is granted takes the place of the request that counted. *)
LEMMA CommitLimit ==
    ASSUME FiniteDesk, IInv, LimitInv, NEW p \in Procs, BorrowCommit(p)
    PROVE  LimitInv'
<1>1. /\ pc[p] = "borrow_commit" /\ account' = account
      /\ pc \in [Procs -> Steps \cup {"idle"}] /\ req \in [Procs -> Request] /\ TypeOK
      /\ pc' = [pc EXCEPT ![p] = "idle"] /\ \A q \in Procs \ {p} : req'[q] = req[q]
  BY DEF BorrowCommit, Finish, Goto, IInv, TypeOK
<1>2. LimitsKnown'
  BY <1>1 DEF LimitInv, LimitsKnown, Limits
<1>3. PICK n : /\ n \notin DOMAIN loans /\ DOMAIN loans' = DOMAIN loans \cup {n}
               /\ loans'[n].user = req[p].user
               /\ \A l \in DOMAIN loans : loans'[l] = loans[l]
  <2>1. loans'[Len(loans) + 1].user = req[p].user
    <3>1. loans'[Len(loans) + 1] = [copy |-> req[p].copy, user |-> req[p].user, due |-> req[p].due,
                                    renewed |-> 0, status |-> "borrowed", back |-> 0]
      BY BorrowCommitRows
    <3>2. QED
      BY <3>1
  <2>2. QED
    BY <2>1, BorrowCommitRows
<1>4. LoansBounded'
  <2> SUFFICES ASSUME NEW u \in Users
               PROVE  Cardinality(OpenLoans(u)') + Cardinality(Counted(u)') <= Top + Cardinality(Procs) - 1
    BY DEF LoansBounded, Top, Limits
  <2>1. /\ IsFiniteSet(OpenLoans(u)) /\ Cardinality(OpenLoans(u)) \in Nat
        /\ IsFiniteSet(Counted(u)) /\ Cardinality(Counted(u)) \in Nat
        /\ Cardinality(OpenLoans(u)) + Cardinality(Counted(u)) <= Top + Cardinality(Procs) - 1
        /\ Cardinality(Procs) \in Nat /\ Top \in Nat
    BY <1>1, CountsAreFinite, TopLimit DEF LimitInv, LoansBounded
  <2>2. CASE u = req[p].user
    <3>1. OpenLoans(u)' \subseteq OpenLoans(u) \cup {n}
      BY <1>3 DEF OpenLoans
    <3>2. Counted(u)' = Counted(u) \ {p} /\ p \in Counted(u)
      BY <1>1, <2>2 DEF Counted
    <3>3. IsFiniteSet(OpenLoans(u) \cup {n}) /\ Cardinality(OpenLoans(u) \cup {n}) = Cardinality(OpenLoans(u)) + 1
      <4>1. n \notin OpenLoans(u)
        BY <1>3 DEF OpenLoans
      <4>2. QED
        BY <2>1, <4>1, FS_AddElement
    <3>4. Cardinality(OpenLoans(u)') <= Cardinality(OpenLoans(u)) + 1 /\ Cardinality(OpenLoans(u)') \in Nat
      <4>1. IsFiniteSet(OpenLoans(u)') /\ Cardinality(OpenLoans(u)') <= Cardinality(OpenLoans(u) \cup {n})
        BY <3>1, <3>3, FS_Subset
      <4>2. QED
        BY <3>3, <4>1, FS_CardinalityType
    <3>5. Cardinality(Counted(u)') = Cardinality(Counted(u)) - 1
      BY <2>1, <3>2, FS_RemoveElement
    <3>6. QED
      BY <2>1, <3>4, <3>5
  <2>3. CASE u # req[p].user
    <3>1. OpenLoans(u)' = OpenLoans(u)
      BY <1>3, <2>3 DEF OpenLoans
    <3>2. Counted(u)' = Counted(u)
      BY <1>1, <2>3 DEF Counted
    <3>3. QED
      BY <2>1, <3>1, <3>2
  <2>4. QED
    BY <2>2, <2>3
<1>5. QED
  BY <1>2, <1>4 DEF LimitInv

(* The other statements of createBorrow. *)
LEMMA OtherBorrowLimit ==
    ASSUME FiniteDesk, IInv, LimitInv, NEW p \in Procs, BorrowUser(p) \/ BorrowFines(p)
    PROVE  LimitInv'
<1>1. /\ loans' = loans /\ account' = account
      /\ pc \in [Procs -> Steps \cup {"idle"}] /\ req \in [Procs -> Request] /\ BorrowOK(p)
  BY DEF BorrowUser, BorrowFines, tables, IInv, TypeOK, ReqOK, BorrowSteps
<1>2. /\ \A q \in Procs \ {p} : pc'[q] = pc[q] /\ req'[q] = req[q]
      /\ pc'[p] = "borrow_count" => req'[p].limit \in Limits
      /\ pc'[p] \in {"borrow_fines", "borrow_commit"} => pc[p] = "borrow_fines" /\ req'[p].user = req[p].user
  <2>1. CASE BorrowUser(p)
    <3>1. req[p].user \in Users /\ account[req[p].user].max \in Limits
      BY <1>1 DEF BorrowOK, LimitInv, LimitsKnown
    <3>2. QED
      BY <1>1, <2>1, <3>1 DEF BorrowUser, Goto, Finish, Request
  <2>2. CASE BorrowFines(p)
    BY <1>1, <2>2 DEF BorrowFines, Goto, Finish, Request
  <2>3. QED
    BY <2>1, <2>2
<1>3. LimitsKnown'
  BY <1>1, <1>2 DEF LimitInv, LimitsKnown, Limits
<1>4. \A u \in Users : OpenLoans(u)' \subseteq OpenLoans(u) /\ Counted(u)' \subseteq Counted(u)
  BY <1>1, <1>2 DEF OpenLoans, Counted
<1>5. QED
  BY <1>3, <1>4, NoMoreLoans DEF LimitInv

(* Steps that grant nothing. *)
LEMMA QuietLimit ==
    ASSUME FiniteDesk, IInv, LimitInv,
           \A u \in Users : account'[u].max \in Limits,
           \A q \in Procs : \/ pc'[q] = pc[q] /\ req'[q] = req[q]
                            \/ pc'[q] \notin {"borrow_count", "borrow_fines", "borrow_commit"},
           \A u \in Users : OpenLoans(u)' \subseteq OpenLoans(u)
    PROVE  LimitInv'
<1>1. LimitsKnown'
  BY DEF LimitInv, LimitsKnown, Limits
<1>2. \A u \in Users : Counted(u)' \subseteq Counted(u)
  BY DEF Counted
<1>3. QED
  BY <1>1, <1>2, NoMoreLoans DEF LimitInv

LEMMA LimitStep == ASSUME FiniteDesk PROVE IInv /\ LimitInv /\ [Next]_vars => LimitInv'
<1> SUFFICES ASSUME IInv, LimitInv, [Next]_vars PROVE LimitInv'
  OBVIOUS
<1>0. pc \in [Procs -> Steps \cup {"idle"}] /\ req \in [Procs -> Request]
      /\ \A u \in Users : account[u].max \in Limits
  BY DEF IInv, TypeOK, LimitInv, LimitsKnown
<1> DEFINE Others(p) == /\ \A q \in Procs \ {p} : pc'[q] = pc[q] /\ req'[q] = req[q]
                        /\ pc'[p] \notin {"borrow_count", "borrow_fines", "borrow_commit"}
<1>1. CASE Tick \/ UNCHANGED vars
  BY <1>0, <1>1, QuietLimit DEF Tick, vars, tables, OpenLoans
<1>2. ASSUME NEW p \in Procs, \E u \in Users, patch \in AccountPatches : UpdateUser(p, u, patch)
      PROVE  LimitInv'
  <2>1. PICK v \in Users, patch \in AccountPatches : UpdateUser(p, v, patch)
    BY <1>2
  <2>2. \A u \in Users : account'[u].max \in Limits
    <3>1. \A u \in Users : account'[u] = account[u] \/ account'[u] = patch
      BY <2>1 DEF UpdateUser, IInv, TypeOK
    <3>2. QED
      BY <1>0, <3>1 DEF Limits
  <2>3. QED
    BY <2>1, <2>2, QuietLimit DEF UpdateUser, Serve, OpenLoans
<1>3. ASSUME NEW p \in Procs, Arrive(p),
             ~ \E u \in Users, patch \in AccountPatches : UpdateUser(p, u, patch)
      PROVE  LimitInv'
  <2>1. loans' = loans /\ account' = account
    BY <1>3 DEF Arrive, BorrowLock, ReturnLock, RenewLock, ReserveAvail, UpdateReservation,
       SettleRead, UpdateCopy, CreateCopy, DeleteRead, Start, tables
  <2>2. Others(p) \/ (pc' = pc /\ req' = req)
    <3>1. ASSUME NEW kind, NEW step, NEW r, Start(p, kind, step, r), step \in {"borrow_user"} \cup ReturnSteps
                   \cup {"renew_check", "reserve_dup", "settle_update", "delete_row"}
          PROVE  Others(p)
      BY <1>0, <3>1 DEF Start, ReturnSteps, ReturnLocked
    <3>2. QED
      BY <1>3, <3>1 DEF Arrive, BorrowLock, ReturnLock, RenewLock, ReserveAvail, UpdateReservation,
         SettleRead, UpdateCopy, CreateCopy, DeleteRead, Serve, ReturnSteps
  <2>3. QED
    BY <1>0, <2>1, <2>2, QuietLimit DEF OpenLoans
<1>4. ASSUME NEW p \in Procs, ReturnCommit(p) \/ RenewCommit(p) PROVE LimitInv'
  <2>1. PICK l : l = req[p].row
    OBVIOUS
  <2>2. /\ DOMAIN loans' = DOMAIN loans
        /\ \A m \in DOMAIN loans \ {l} : loans'[m] = loans[m]
        /\ loans'[l].user = loans[l].user
        /\ loans'[l].status = "returned" \/ loans'[l].status = loans[l].status
    BY <1>4, <2>1, ReturnCommitRows, RenewCommitRows
  <2>3. \A u \in Users : OpenLoans(u)' \subseteq OpenLoans(u)
    BY <2>2 DEF OpenLoans, OpenStatus
  <2>4. Others(p) /\ account' = account
    BY <1>0, <1>4 DEF ReturnCommit, RenewCommit, Finish, Goto
  <2>5. QED
    BY <1>0, <2>3, <2>4, QuietLimit
<1>5. ASSUME NEW p \in Procs,
             \/ Abort(p) \/ ReturnCopy(p) \/ ReturnPromote(p) \/ RenewCheck(p) \/ ReserveDup(p)
             \/ ReserveInsert(p) \/ SettleUpdate(p) \/ DeleteRow(p) \/ DeleteCheck(p)
             \/ DeadlockFound(p)
      PROVE  LimitInv'
  <2>1. loans' = loans /\ account' = account
    BY <1>5 DEF Abort, ReturnCopy, ReturnPromote, RenewCheck, ReserveDup, ReserveInsert,
       SettleUpdate, DeleteRow, DeleteCheck, DeadlockFound, tables
  <2>2. Others(p)
    <3>1. CASE Abort(p) \/ ReturnCopy(p) \/ RenewCheck(p) \/ ReserveDup(p)
      BY <1>0, <3>1 DEF Abort, ReturnCopy, RenewCheck, ReserveDup, Finish, Goto
    <3>2. CASE ReturnPromote(p)
      BY <1>0, <3>2 DEF ReturnPromote, Promote, Goto
    <3>3. CASE ReserveInsert(p) \/ SettleUpdate(p)
      BY <1>0, <3>3 DEF ReserveInsert, SettleUpdate, Finish, Goto
    <3>4. CASE DeleteRow(p)
      BY <1>0, <3>4 DEF DeleteRow, Finish, Goto
    <3>5. CASE DeleteCheck(p) \/ DeadlockFound(p)
      BY <1>0, <3>5 DEF DeleteCheck, DeadlockFound, Finish, Goto
    <3>6. QED
      BY <1>5, <3>1, <3>2, <3>3, <3>4, <3>5
  <2>3. QED
    BY <1>0, <2>1, <2>2, QuietLimit DEF OpenLoans
<1>6. QED
  BY <1>1, <1>2, <1>3, <1>4, <1>5, CountLimit, CommitLimit, OtherBorrowLimit DEF Next, Proceed

(* LimitBound: however many requests of one reader overlap, the loans      *)
(* exceed the largest limit by fewer than there are requests               *)
(* (borrow.go:84-98).                                                      *)
THEOREM LimitBoundHolds == ASSUME FiniteDesk PROVE Spec => []LimitBound
<1>1. Spec => []LimitInv
  BY LimitStart, LimitStep, IInvHolds, PTL DEF Spec
<1>2. IInv /\ LimitInv => LimitBound
  <2> SUFFICES ASSUME IInv, LimitInv, NEW u \in Users
               PROVE  Cardinality(OpenLoans(u)) <= Top + Cardinality(Procs) - 1
    BY DEF LimitBound, Top, Limits
  <2>1. QED
    BY CountsAreFinite, TopLimit DEF IInv, LimitInv, LoansBounded
<1>3. QED
  BY <1>1, <1>2, IInvHolds, PTL
=============================================================================
