---------------------------- MODULE QueueProofs ----------------------------
(***************************************************************************)
(* Proofs about the queue of reservations: whom a return tells of a copy,  *)
(* and how often, for any number of returns and reservations at once; how  *)
(* many reservations one reader's requests can leave; and which requests   *)
(* wait for each other's rows.                                             *)
(***************************************************************************)
EXTENDS CirculationProofs, FiniteSetTheorems

(* What a return knows of the queue.  While it chooses, its list is of its *)
(* book and whatever is pending beside it is newer; once it has chosen, no *)
(* reservation of the book that is still pending is older than its choice. *)
ChoosesOK(p) ==
    pc[p] = "return_promote" =>
        /\ \A r \in req[p].queue : r \in DOMAIN resv
        /\ \A s \in Pending(BookOf[req[p].copy]) \ req[p].queue : \A r \in req[p].queue : r < s
        /\ \A r \in req[p].queue : resv[r].book = BookOf[req[p].copy]

ChosenOK(p) ==
    pc[p] = "return_commit" /\ req[p].pick # 0 =>
        /\ req[p].pick \in Pending(BookOf[req[p].copy])
        /\ \A s \in Pending(BookOf[req[p].copy]) : req[p].pick <= s

SinceReturn(p) ==
    /\ pc[p] \in ReturnSteps => req[p].at >= 1
    /\ pc[p] \in {"return_copy", "return_promote"} => req[p].pick = 0

QueueOK(p) == ChoosesOK(p) /\ ChosenOK(p) /\ SinceReturn(p)

(* A reservation is locked by one return; one that was promoted is not     *)
(* pending again.                                                          *)
PicksOK == \A p, q \in Procs : pc[p] = "return_commit" /\ HoldsResv(q, req[p].pick)
                                 /\ req[p].pick # 0 => p = q

PromotedOnce == \A r \in DOMAIN resv : resv[r].status = "pending" => resv[r].expires = 0

QInv == /\ now >= 1 /\ PromotedOnce /\ PicksOK
        /\ \A p \in Procs : QueueOK(p)
        /\ OneNoticePerPromotion

LEMMA QueueStart == Init => QInv
<1> SUFFICES ASSUME Init PROVE QInv
  OBVIOUS
<1>1. /\ resv = <<>> /\ DOMAIN resv = {} /\ now = 1 /\ notices = [u \in Users |-> 0]
      /\ pc = [p \in Procs |-> "idle"]
  BY DEF Init
<1>2. now >= 1 /\ PromotedOnce /\ PicksOK /\ \A p \in Procs : QueueOK(p)
  BY <1>1 DEF PromotedOnce, PicksOK, QueueOK, ChoosesOK, ChosenOK, SinceReturn,
     ReturnSteps, ReturnLocked
<1>3. OneNoticePerPromotion
  <2>1. \A u \in Users : {r \in DOMAIN resv : resv[r].user = u /\ resv[r].expires # 0} = {}
    BY <1>1
  <2>2. QED
    BY <1>1, <2>1, FS_EmptySet DEF OneNoticePerPromotion
<1>4. QED
  BY <1>2, <1>3 DEF QInv

(* Steps that leave the reservations: what the requests of others know     *)
(* stays, and a request that is at no statement of a return knows nothing. *)
Elsewhere(p) == /\ \A q \in Procs \ {p} : pc'[q] = pc[q] /\ req'[q] = req[q]
                /\ UNCHANGED <<resv, notices, now>>

LEMMA ElsewhereStep ==
    ASSUME QInv, NEW p \in Procs, Elsewhere(p), QueueOK(p)',
           pc'[p] = "return_commit" /\ req'[p].pick # 0 =>
               \/ pc[p] = "return_commit" /\ req'[p].pick = req[p].pick
               \/ ResvFree(req'[p].pick)
    PROVE  QInv'
<1>1. \A q \in Procs : QueueOK(q)'
  BY DEF QInv, Elsewhere, QueueOK, ChoosesOK, ChosenOK, SinceReturn, Pending
<1>2. PicksOK'
  BY DEF QInv, Elsewhere, PicksOK, HoldsResv, ResvFree
<1>3. (now >= 1)' /\ PromotedOnce' /\ OneNoticePerPromotion'
  BY DEF QInv, Elsewhere, PromotedOnce, OneNoticePerPromotion
<1>4. QED
  BY <1>1, <1>2, <1>3 DEF QInv

(* Everything but a return and the two statements that write reservations. *)
LEMMA QuietQueue ==
    ASSUME QInv, UNCHANGED <<resv, notices, pc, req>>, now' >= now, now \in Nat, now' \in Nat
    PROVE  QInv'
<1>1. now' >= 1
  BY DEF QInv
<1>2. QED
  BY <1>1 DEF QInv, PromotedOnce, PicksOK, QueueOK, ChoosesOK, ChosenOK, SinceReturn, Pending,
     HoldsResv, OneNoticePerPromotion

LEMMA OutsideStep ==
    ASSUME QInv, NEW p \in Procs, Elsewhere(p), pc'[p] \notin ReturnSteps
    PROVE  QInv'
<1>1. QueueOK(p)'
  BY DEF QueueOK, ChoosesOK, ChosenOK, SinceReturn, ReturnSteps, ReturnLocked
<1>2. pc'[p] # "return_commit"
  BY DEF ReturnSteps, ReturnLocked
<1>3. QED
  BY <1>1, <1>2, ElsewhereStep

LEMMA ReturnLockQueue ==
    ASSUME IInv, QInv, NEW p \in Procs, NEW l \in DOMAIN loans, NEW to \in Outcomes, ReturnLock(p, l, to)
    PROVE  QInv'
<1>1. /\ pc'[p] = "return_copy" /\ req'[p].at = now /\ req'[p].pick = 0
      /\ Elsewhere(p)
  BY DEF ReturnLock, Start, tables, NoReq, IInv, TypeOK, Elsewhere
<1>2. QueueOK(p)'
  BY <1>1 DEF QueueOK, ChoosesOK, ChosenOK, SinceReturn, QInv
<1>3. QED
  BY <1>1, <1>2, ElsewhereStep

LEMMA ReturnCopyQueue ==
    ASSUME IInv, QInv, NEW p \in Procs, ReturnCopy(p)
    PROVE  QInv'
<1>1. /\ req[p] \in Request /\ pc[p] = "return_copy" /\ Elsewhere(p)
      /\ req[p].at >= 1 /\ req[p].pick = 0
  BY DEF ReturnCopy, Goto, tables, IInv, TypeOK, Elsewhere, QInv, QueueOK, SinceReturn, ReturnSteps
<1>2. CASE req[p].to = "available"
  <2>1. /\ pc'[p] = "return_promote" /\ req'[p].queue = Pending(BookOf[req[p].copy])
        /\ req'[p].copy = req[p].copy /\ req'[p].at = req[p].at /\ req'[p].pick = 0
    BY <1>1, <1>2 DEF ReturnCopy, Goto, IInv, TypeOK, Request
  <2>2. resv' = resv
    BY <1>1 DEF Elsewhere
  <2>3. QueueOK(p)'
    BY <1>1, <2>1, <2>2 DEF QueueOK, ChoosesOK, ChosenOK, SinceReturn, Pending
  <2>4. QED
    BY <1>1, <2>1, <2>3, ElsewhereStep
<1>3. CASE req[p].to # "available"
  <2>1. pc'[p] = "return_commit" /\ req'[p] = req[p]
    BY <1>3 DEF ReturnCopy, Goto, IInv, TypeOK
  <2>2. QueueOK(p)'
    BY <1>1, <2>1 DEF QueueOK, ChoosesOK, ChosenOK, SinceReturn
  <2>3. QED
    BY <1>1, <2>1, <2>2, ElsewhereStep
<1>4. QED
  BY <1>2, <1>3

(* The choice of a return: the oldest of its list when that is pending, or *)
(* it goes on without one that is not.                                     *)
LEMMA ReturnPromoteQueue ==
    ASSUME IInv, QInv, NEW p \in Procs, ReturnPromote(p)
    PROVE  QInv'
<1>1. /\ req[p] \in Request /\ pc[p] = "return_promote" /\ Elsewhere(p)
      /\ req[p].at >= 1 /\ req[p].pick = 0 /\ ChoosesOK(p)
  BY DEF ReturnPromote, Promote, Goto, tables, IInv, TypeOK, Elsewhere, QInv, QueueOK,
     SinceReturn, ReturnSteps, ReturnLocked
<1>2. resv' = resv
  BY <1>1 DEF Elsewhere
<1>3. CASE req[p].queue = {} /\ Goto(p, "return_commit", req[p])
  <2>1. pc'[p] = "return_commit" /\ req'[p] = req[p]
    BY <1>3 DEF Goto, IInv, TypeOK
  <2>2. QueueOK(p)'
    BY <1>1, <2>1 DEF QueueOK, ChoosesOK, ChosenOK, SinceReturn
  <2>3. QED
    BY <1>1, <2>1, <2>2, ElsewhereStep
<1>4. ASSUME NEW r \in req[p].queue, IsOldest(r, req[p].queue), Promote(p, r)
      PROVE  QInv'
  <2> DEFINE b == BookOf[req[p].copy]
  <2>1. CASE resv[r].status = "pending"
    <3>1. /\ pc'[p] = "return_commit" /\ req'[p].pick = r /\ req'[p].at = req[p].at
          /\ req'[p].copy = req[p].copy /\ ResvFree(r)
      BY <1>1, <1>4, <2>1 DEF Promote, Goto, IInv, TypeOK, Request
    <3>2. r \in Pending(b) /\ \A s \in Pending(b) : r <= s
      <4>1. r \in Pending(b) /\ r \in Nat /\ Pending(b) \subseteq Nat
        BY <1>1, <1>4, <2>1, RowTypes DEF ChoosesOK, Pending, IInv, TypeOK
      <4>2. \A s \in Pending(b) \ req[p].queue : r < s
        BY <1>1, <1>4 DEF ChoosesOK
      <4>3. \A s \in req[p].queue : r <= s
        BY <1>4 DEF IsOldest
      <4>4. QED
        BY <4>1, <4>2, <4>3
    <3>3. QueueOK(p)'
      BY <1>1, <1>2, <3>1, <3>2 DEF QueueOK, ChoosesOK, ChosenOK, SinceReturn, Pending
    <3>4. QED
      BY <1>1, <3>1, <3>3, ElsewhereStep
  <2>2. CASE resv[r].status # "pending"
    <3>1. /\ pc'[p] = "return_promote" /\ req'[p].queue = req[p].queue \ {r} /\ req'[p].at = req[p].at
          /\ req'[p].copy = req[p].copy /\ req'[p].pick = 0
      BY <1>1, <1>4, <2>2 DEF Promote, Goto, IInv, TypeOK, Request
    <3>2. r \notin Pending(b)
      BY <2>2 DEF Pending
    <3>3. QueueOK(p)'
      BY <1>1, <1>2, <3>1, <3>2 DEF QueueOK, ChoosesOK, ChosenOK, SinceReturn, Pending
    <3>4. QED
      BY <1>1, <3>1, <3>3, ElsewhereStep
  <2>3. QED
    BY <2>1, <2>2
<1>5. QED
  BY <1>3, <1>4 DEF ReturnPromote

(* What the two statements and the commit do to the reservations: no row   *)
(* becomes pending but a new one, which is the last.                       *)
Aged == /\ DOMAIN resv' \subseteq Nat
        /\ \A r \in DOMAIN resv : /\ r \in DOMAIN resv' /\ resv'[r].book = resv[r].book
                                  /\ resv'[r].user = resv[r].user
                                  /\ resv'[r].status = "pending" => resv[r].status = "pending"
        /\ \A s \in DOMAIN resv' \ DOMAIN resv : /\ \A r \in DOMAIN resv : r < s
                                                 /\ resv'[s].expires = 0

LEMMA AgedQueue ==
    ASSUME QInv, Aged, NEW q \in Procs, pc'[q] = pc[q], req'[q] = req[q],
           pc[q] = "return_commit" /\ req[q].pick \in DOMAIN resv => resv'[req[q].pick] = resv[req[q].pick]
    PROVE  QueueOK(q)'
<1> DEFINE b == BookOf[req[q].copy]
<1>1. QueueOK(q)
  BY DEF QInv
<1>2. \A s \in Pending(b)' : s \in Pending(b) \/ \A r \in DOMAIN resv : r < s
  BY DEF Aged, Pending
<1>3. ChoosesOK(q)'
  BY <1>1, <1>2 DEF Aged, QueueOK, ChoosesOK
<1>4. ChosenOK(q)'
  <2> SUFFICES ASSUME pc[q] = "return_commit", req[q].pick # 0
               PROVE  req[q].pick \in Pending(b)' /\ \A s \in Pending(b)' : req[q].pick <= s
    BY DEF ChosenOK
  <2>1. req[q].pick \in Pending(b) /\ \A s \in Pending(b) : req[q].pick <= s
    BY <1>1 DEF QueueOK, ChosenOK
  <2>2. req[q].pick \in Pending(b)'
    BY <2>1 DEF Aged, Pending
  <2>3. req[q].pick \in Nat /\ req[q].pick \in DOMAIN resv /\ Pending(b)' \subseteq Nat
    BY <2>1 DEF Aged, Pending
  <2>4. QED
    BY <1>2, <2>1, <2>2, <2>3
<1>5. SinceReturn(q)'
  BY <1>1 DEF QueueOK, SinceReturn
<1>6. QED
  BY <1>3, <1>4, <1>5 DEF QueueOK

(* A return that promotes: its choice was pending, so it was never told of *)
(* a copy before, and is told once.                                        *)
LEMMA PromotionStep ==
    ASSUME IInv, QInv, NEW p \in Procs, ReturnCommit(p), req[p].pick # 0
    PROVE  /\ req[p].pick \in DOMAIN resv /\ resv[req[p].pick].status = "pending"
           /\ resv[req[p].pick].expires = 0
           /\ DOMAIN resv' = DOMAIN resv
           /\ resv'[req[p].pick].status = "ready" /\ resv'[req[p].pick].expires # 0
           /\ resv'[req[p].pick].book = resv[req[p].pick].book
           /\ resv'[req[p].pick].user = resv[req[p].pick].user
           /\ \A s \in DOMAIN resv \ {req[p].pick} : resv'[s] = resv[s]
           /\ notices' = [notices EXCEPT ![resv[req[p].pick].user] = @ + 1]
<1>1. /\ req[p] \in Request /\ req[p].at \in Nat /\ req[p].at >= 1 /\ pc[p] = "return_commit" /\ ChosenOK(p)
  BY DEF ReturnCommit, IInv, TypeOK, Request, QInv, QueueOK, SinceReturn, ReturnSteps, ReturnLocked
<1>2. PICK r \in DOMAIN resv : r = req[p].pick /\ resv[r].status = "pending"
  BY <1>1 DEF ChosenOK, Pending
<1>3. resv[r] \in ResvRow /\ resv[r].expires = 0
  BY <1>2, RowTypes DEF IInv, QInv, PromotedOnce
<1>4. req[p].at + Days(HoldDays) # 0
  BY <1>1, DaysType, TimeAssumption
<1>5. resv' = [resv EXCEPT ![r].status = "ready", ![r].expires = req[p].at + Days(HoldDays)]
  BY <1>2 DEF ReturnCommit
<1>6. notices' = [notices EXCEPT ![resv[r].user] = @ + 1]
  BY <1>2 DEF ReturnCommit
<1>7. /\ DOMAIN resv' = DOMAIN resv /\ resv'[r].status = "ready" /\ resv'[r].expires # 0
      /\ resv'[r].book = resv[r].book /\ resv'[r].user = resv[r].user
      /\ \A s \in DOMAIN resv \ {r} : resv'[s] = resv[s]
  BY <1>2, <1>3, <1>4, <1>5 DEF ResvRow
<1>8. QED
  BY <1>2, <1>3, <1>6, <1>7

LEMMA ReturnCommitQueue ==
    ASSUME IInv, QInv, NEW p \in Procs, ReturnCommit(p)
    PROVE  QInv'
<1>1. /\ pc'[p] = "idle" /\ \A q \in Procs \ {p} : pc'[q] = pc[q] /\ req'[q] = req[q]
      /\ now' = now /\ pc[p] = "return_commit"
  BY DEF ReturnCommit, Finish, Goto, IInv, TypeOK
<1>2. CASE req[p].pick = 0
  <2>1. Elsewhere(p)
    BY <1>1, <1>2 DEF ReturnCommit, Elsewhere
  <2>2. pc'[p] \notin ReturnSteps
    BY <1>1 DEF ReturnSteps, ReturnLocked
  <2>3. QED
    BY <2>1, <2>2, OutsideStep
<1>3. CASE req[p].pick # 0
  <2>1. PICK r \in DOMAIN resv :
           /\ r = req[p].pick /\ resv[r].status = "pending" /\ resv[r].expires = 0
           /\ DOMAIN resv' = DOMAIN resv /\ resv'[r].status = "ready" /\ resv'[r].expires # 0
           /\ resv'[r].book = resv[r].book /\ resv'[r].user = resv[r].user
           /\ \A s \in DOMAIN resv \ {r} : resv'[s] = resv[s]
           /\ notices' = [notices EXCEPT ![resv[r].user] = @ + 1]
    BY <1>3, PromotionStep
  <2>2. Aged
    <3>1. DOMAIN resv \subseteq Nat
      BY RowTypes DEF IInv, TypeOK
    <3>2. QED
      BY <2>1, <3>1 DEF Aged
  <2>3. \A q \in Procs : QueueOK(q)'
    <3>1. QueueOK(p)'
      BY <1>1 DEF QueueOK, ChoosesOK, ChosenOK, SinceReturn, ReturnSteps, ReturnLocked
    <3>2. ASSUME NEW q \in Procs \ {p} PROVE QueueOK(q)'
      <4>1. pc[q] = "return_commit" => req[q].pick # r
        BY <1>1, <1>3, <2>1 DEF QInv, PicksOK, HoldsResv
      <4>2. QED
        BY <1>1, <2>1, <2>2, <4>1, AgedQueue
    <3>3. QED
      BY <3>1, <3>2
  <2>4. PicksOK'
    BY <1>1 DEF QInv, PicksOK, HoldsResv
  <2>5. PromotedOnce' /\ now' >= 1
    BY <1>1, <2>1 DEF QInv, PromotedOnce
  <2>6. OneNoticePerPromotion'
    <3> SUFFICES ASSUME NEW u \in Users
                 PROVE  notices'[u] = Cardinality({s \in DOMAIN resv' : resv'[s].user = u /\ resv'[s].expires # 0})
      BY DEF OneNoticePerPromotion
    <3> DEFINE T == {s \in DOMAIN resv : resv[s].user = u /\ resv[s].expires # 0}
               V == {s \in DOMAIN resv' : resv'[s].user = u /\ resv'[s].expires # 0}
    <3>1. notices[u] = Cardinality(T) /\ notices \in [Users -> Nat]
      BY DEF QInv, OneNoticePerPromotion, IInv, TypeOK
    <3>2. IsFiniteSet(T)
      <4>1. DOMAIN resv = 1 .. Len(resv) /\ Len(resv) \in Nat
        BY LenProperties DEF IInv, TypeOK
      <4>2. IsFiniteSet(DOMAIN resv)
        BY <4>1, FS_Interval
      <4>3. QED
        BY <4>2, FS_Subset
    <3>3. CASE resv[r].user = u
      <4>1. V = T \cup {r} /\ r \notin T
        BY <2>1, <3>3
      <4>2. Cardinality(V) = Cardinality(T) + 1
        BY <3>2, <4>1, FS_AddElement
      <4>3. QED
        BY <2>1, <3>1, <3>3, <4>2
    <3>4. CASE resv[r].user # u
      <4>1. V = T
        BY <2>1, <3>4
      <4>2. QED
        BY <2>1, <3>1, <3>4, <4>1
    <3>5. QED
      BY <3>3, <3>4
  <2>7. QED
    BY <2>3, <2>4, <2>5, <2>6 DEF QInv
<1>4. QED
  BY <1>2, <1>3

(* The statements that write reservations for a reader or the staff.       *)
LEMMA WriteStep ==
    ASSUME IInv, QInv, NEW p \in Procs, Aged, \A q \in Procs \ {p} : pc'[q] = pc[q] /\ req'[q] = req[q],
           \A r \in DOMAIN resv : resv'[r].expires = resv[r].expires,
           \A s \in DOMAIN resv' \ DOMAIN resv : resv'[s].expires = 0,
           \A q \in Procs \ {p} : pc[q] = "return_commit" /\ req[q].pick \in DOMAIN resv
                                    => resv'[req[q].pick] = resv[req[q].pick],
           pc'[p] = "idle", UNCHANGED <<notices, now>>
    PROVE  QInv'
<1>1. \A q \in Procs : QueueOK(q)'
  <2>1. QueueOK(p)'
    BY DEF QueueOK, ChoosesOK, ChosenOK, SinceReturn, ReturnSteps, ReturnLocked
  <2>2. \A q \in Procs \ {p} : QueueOK(q)'
    BY AgedQueue
  <2>3. QED
    BY <2>1, <2>2
<1>2. PicksOK'
  BY DEF QInv, PicksOK, HoldsResv
<1>3. PromotedOnce' /\ now' >= 1
  BY DEF QInv, PromotedOnce, Aged
<1>4. OneNoticePerPromotion'
  <2>1. \A u \in Users : {r \in DOMAIN resv' : resv'[r].user = u /\ resv'[r].expires # 0}
                       = {r \in DOMAIN resv : resv[r].user = u /\ resv[r].expires # 0}
    BY DEF Aged
  <2>2. QED
    BY <2>1 DEF QInv, OneNoticePerPromotion
<1>5. QED
  BY <1>1, <1>2, <1>3, <1>4 DEF QInv

LEMMA InsertRows ==
    ASSUME IInv, NEW p \in Procs, ReserveInsert(p)
    PROVE  /\ DOMAIN resv' = DOMAIN resv \cup {Len(resv) + 1} /\ DOMAIN resv = 1 .. Len(resv)
           /\ Len(resv) \in Nat
           /\ \A r \in DOMAIN resv : resv'[r] = resv[r]
           /\ resv'[Len(resv) + 1].expires = 0
           /\ resv'[Len(resv) + 1].book = req[p].book
           /\ resv'[Len(resv) + 1].user = req[p].user
<1> DEFINE row == [book |-> req[p].book, user |-> req[p].user, status |-> "pending", expires |-> 0]
<1>1. resv' = Append(resv, row) /\ resv \in Seq(ResvRow)
  BY DEF ReserveInsert, IInv, TypeOK
<1>2. row.expires = 0 /\ row.book = req[p].book /\ row.user = req[p].user
  OBVIOUS
<1> HIDE DEF row
<1>3. Len(resv) \in Nat /\ DOMAIN resv = 1 .. Len(resv)
  BY RowTypes DEF IInv
<1>4. /\ DOMAIN resv' = 1 .. (Len(resv) + 1) /\ resv'[Len(resv) + 1] = row
      /\ \A r \in 1 .. Len(resv) : resv'[r] = resv[r]
  BY <1>1
<1>5. QED
  BY <1>2, <1>3, <1>4

LEMMA ReserveInsertQueue ==
    ASSUME IInv, QInv, NEW p \in Procs, ReserveInsert(p)
    PROVE  QInv'
<1>1. /\ pc'[p] = "idle" /\ \A q \in Procs \ {p} : pc'[q] = pc[q] /\ req'[q] = req[q]
      /\ UNCHANGED <<notices, now>>
  BY DEF ReserveInsert, Finish, Goto, IInv, TypeOK
<1>2. /\ DOMAIN resv' = DOMAIN resv \cup {Len(resv) + 1} /\ DOMAIN resv = 1 .. Len(resv)
      /\ Len(resv) \in Nat
      /\ \A r \in DOMAIN resv : resv'[r] = resv[r]
      /\ resv'[Len(resv) + 1].expires = 0
  BY InsertRows
<1>3. Aged
  BY <1>2 DEF Aged
<1>4. QED
  BY <1>1, <1>2, <1>3, WriteStep

LEMMA PatchRows ==
    ASSUME IInv, NEW p \in Procs, NEW r \in DOMAIN resv, NEW to \in StaffReservationStatuses,
           UpdateReservation(p, r, to)
    PROVE  /\ DOMAIN resv' = DOMAIN resv /\ \A s \in DOMAIN resv \ {r} : resv'[s] = resv[s]
           /\ resv'[r].status # "pending" /\ resv'[r].expires = resv[r].expires
           /\ resv'[r].book = resv[r].book /\ resv'[r].user = resv[r].user
<1>1. resv[r] \in ResvRow
  BY RowTypes DEF IInv
<1>2. resv' = [resv EXCEPT ![r].status = to] /\ to # "pending"
  BY DEF UpdateReservation, StaffReservationStatuses
<1>3. QED
  BY <1>1, <1>2 DEF ResvRow

LEMMA UpdateReservationQueue ==
    ASSUME IInv, QInv, NEW p \in Procs, NEW r \in DOMAIN resv, NEW to \in StaffReservationStatuses,
           UpdateReservation(p, r, to)
    PROVE  QInv'
<1>1. /\ pc[p] = "idle" /\ UNCHANGED <<pc, req, now, notices>>
      /\ \A q \in Procs : pc[q] = "return_commit" => req[q].pick # r
  BY DEF UpdateReservation, Serve, ResvFree, HoldsResv
<1>2. /\ DOMAIN resv' = DOMAIN resv /\ \A s \in DOMAIN resv \ {r} : resv'[s] = resv[s]
      /\ resv'[r].status # "pending" /\ resv'[r].expires = resv[r].expires
      /\ resv'[r].book = resv[r].book /\ resv'[r].user = resv[r].user
  BY PatchRows
<1>3. Aged
  <2>1. DOMAIN resv \subseteq Nat
    BY RowTypes DEF IInv
  <2>2. QED
    BY <1>2, <2>1 DEF Aged
<1>4. \A q \in Procs \ {p} : pc[q] = "return_commit" /\ req[q].pick \in DOMAIN resv
                               => resv'[req[q].pick] = resv[req[q].pick]
  BY <1>1, <1>2
<1>5. \A s \in DOMAIN resv : resv'[s].expires = resv[s].expires
  BY <1>2
<1>6. QED
  BY <1>1, <1>2, <1>3, <1>4, <1>5, WriteStep

(* All the steps of requests that are not of the queue.                    *)
LEMMA OtherQueue ==
    ASSUME IInv, QInv, NEW p \in Procs,
           \/ \E c \in Copies, u \in Users : BorrowLock(p, c, u)
           \/ \E l \in DOMAIN loans : RenewLock(p, l)
           \/ \E u \in Users, b \in Books : ReserveAvail(p, u, b)
           \/ \E f \in DOMAIN fines, to \in {"paid", "waived"} : SettleRead(p, f, to)
           \/ \E c \in Copies : DeleteRead(p, c)
           \/ BorrowUser(p) \/ BorrowCount(p) \/ BorrowFines(p) \/ BorrowCommit(p)
           \/ RenewCheck(p) \/ RenewCommit(p) \/ ReserveDup(p) \/ SettleUpdate(p) \/ DeleteRow(p)
           \/ DeleteCheck(p) \/ Abort(p) \/ DeadlockFound(p)
    PROVE  QInv'
<1>1. UNCHANGED <<resv, notices, now>>
  BY DEF BorrowLock, RenewLock, ReserveAvail, SettleRead, DeleteRead, BorrowUser, BorrowCount,
     BorrowFines, BorrowCommit, RenewCheck, RenewCommit, ReserveDup, SettleUpdate, DeleteRow,
     DeleteCheck, Abort, DeadlockFound, Start, tables
<1>2. pc \in [Procs -> Steps \cup {"idle"}] /\ req \in [Procs -> Request]
  BY DEF IInv, TypeOK
<1>3. Elsewhere(p) /\ pc'[p] \notin ReturnSteps
  <2> USE DEF Elsewhere, ReturnSteps, ReturnLocked
  <2>1. ASSUME NEW c \in Copies, NEW u \in Users, BorrowLock(p, c, u)
        PROVE  Elsewhere(p) /\ pc'[p] \notin ReturnSteps
    BY <1>1, <1>2, <2>1 DEF BorrowLock, Start
  <2>2. ASSUME NEW l \in DOMAIN loans, RenewLock(p, l)
        PROVE  Elsewhere(p) /\ pc'[p] \notin ReturnSteps
    BY <1>1, <1>2, <2>2 DEF RenewLock, Start
  <2>3. ASSUME NEW u \in Users, NEW b \in Books, ReserveAvail(p, u, b)
        PROVE  Elsewhere(p) /\ pc'[p] \notin ReturnSteps
    BY <1>1, <1>2, <2>3 DEF ReserveAvail, Start
  <2>4. ASSUME NEW f \in DOMAIN fines, NEW to \in {"paid", "waived"}, SettleRead(p, f, to)
        PROVE  Elsewhere(p) /\ pc'[p] \notin ReturnSteps
    BY <1>1, <1>2, <2>4 DEF SettleRead, Start
  <2>5. ASSUME NEW c \in Copies, DeleteRead(p, c) PROVE Elsewhere(p) /\ pc'[p] \notin ReturnSteps
    BY <1>1, <1>2, <2>5 DEF DeleteRead, Start
  <2>6. CASE BorrowUser(p)
    BY <1>1, <1>2, <2>6 DEF BorrowUser, Goto, Finish
  <2>7. CASE BorrowCount(p)
    BY <1>1, <1>2, <2>7 DEF BorrowCount, Goto, Finish
  <2>8. CASE BorrowFines(p)
    BY <1>1, <1>2, <2>8 DEF BorrowFines, Goto, Finish
  <2>9. CASE RenewCheck(p) \/ ReserveDup(p)
    BY <1>1, <1>2, <2>9 DEF RenewCheck, ReserveDup, Goto, Finish
  <2>10. CASE BorrowCommit(p) \/ RenewCommit(p) \/ SettleUpdate(p) \/ Abort(p)
    BY <1>1, <1>2, <2>10 DEF BorrowCommit, RenewCommit, SettleUpdate, Abort, Goto, Finish
  <2>11. CASE DeleteRow(p)
    BY <1>1, <1>2, <2>11 DEF DeleteRow, Goto, Finish
  <2>12. CASE DeleteCheck(p) \/ DeadlockFound(p)
    BY <1>1, <1>2, <2>12 DEF DeleteCheck, DeadlockFound, Goto, Finish
  <2>13. QED
    BY <2>1, <2>2, <2>3, <2>4, <2>5, <2>6, <2>7, <2>8, <2>9, <2>10, <2>11, <2>12
<1>4. QED
  BY <1>3, OutsideStep

LEMMA QueueStep == IInv /\ QInv /\ [Next]_vars => QInv'
<1> SUFFICES ASSUME IInv, QInv, [Next]_vars PROVE QInv'
  OBVIOUS
<1>1. CASE Tick \/ UNCHANGED vars
  BY <1>1, QuietQueue DEF Tick, vars, tables, IInv, TypeOK
<1>2. ASSUME NEW p \in Procs,
             \/ \E c \in Copies, status \in PatchStatuses : UpdateCopy(p, c, status)
             \/ \E c \in Copies : CreateCopy(p, c)
             \/ \E u \in Users, patch \in AccountPatches : UpdateUser(p, u, patch)
      PROVE  QInv'
  BY <1>2, QuietQueue DEF UpdateCopy, CreateCopy, UpdateUser, Serve, IInv, TypeOK
<1>3. ASSUME NEW p \in Procs, Arrive(p) PROVE QInv'
  BY <1>2, <1>3, ReturnLockQueue, UpdateReservationQueue, OtherQueue DEF Arrive
<1>4. ASSUME NEW p \in Procs, Proceed(p) \/ Abort(p) \/ DeadlockFound(p) PROVE QInv'
  BY <1>4, ReturnCopyQueue, ReturnPromoteQueue, ReturnCommitQueue, ReserveInsertQueue, OtherQueue DEF Proceed
<1>5. QED
  BY <1>1, <1>3, <1>4 DEF Next

LEMMA QueueHolds == Spec => []QInv
  BY QueueStart, QueueStep, IInvHolds, PTL DEF Spec

(* OneNoticePerPromotion: of returns that promote at the same time each    *)
(* tells a reader of its own, once, and no reservation is promoted twice   *)
(* (borrow.go:226-262).                                                    *)
THEOREM OneNoticeHolds == Spec => []OneNoticePerPromotion
<1>1. QInv => OneNoticePerPromotion
  BY DEF QInv
<1>2. QED
  BY <1>1, QueueHolds, PTL

(* The reservations are written by these three only.                       *)
LEMMA ReservationSteps ==
    ASSUME [Next]_vars
    PROVE  \/ resv' = resv
           \/ \E p \in Procs : ReturnCommit(p) /\ req[p].pick # 0
           \/ \E p \in Procs : ReserveInsert(p)
           \/ \E p \in Procs, r \in DOMAIN resv, to \in StaffReservationStatuses :
                 UpdateReservation(p, r, to)
<1>1. ASSUME NEW p \in Procs, Arrive(p)
      PROVE  \/ resv' = resv
             \/ \E r \in DOMAIN resv, to \in StaffReservationStatuses : UpdateReservation(p, r, to)
  BY <1>1 DEF Arrive, BorrowLock, ReturnLock, RenewLock, ReserveAvail, SettleRead, UpdateCopy,
     CreateCopy, DeleteRead, UpdateUser, Start, tables
<1>2. ASSUME NEW p \in Procs, Proceed(p) \/ Abort(p) \/ DeadlockFound(p)
      PROVE  \/ resv' = resv \/ ReserveInsert(p) \/ (ReturnCommit(p) /\ req[p].pick # 0)
  BY <1>2 DEF Proceed, Abort, DeadlockFound, BorrowUser, BorrowCount, BorrowFines, BorrowCommit,
     ReturnCopy, ReturnPromote, ReturnCommit, RenewCheck, RenewCommit, ReserveDup, SettleUpdate,
     DeleteRow, DeleteCheck, tables
<1>3. CASE Tick \/ UNCHANGED vars
  BY <1>3 DEF Tick, vars, tables
<1>4. QED
  BY <1>1, <1>2, <1>3 DEF Next

(* PromotionFIFO: whom a return tells of a copy is the oldest of those who *)
(* still wait for the book, whatever was cancelled, inserted or promoted   *)
(* since it sorted them.                                                   *)
THEOREM FIFOHolds == Spec => PromotionFIFO
<1> DEFINE FIFO == \A r \in DOMAIN resv :
                     resv'[r].expires # resv[r].expires =>
                       \A s \in DOMAIN resv : s < r /\ resv[s].book = resv[r].book
                                                  => resv[s].status # "pending"
<1>1. ASSUME IInv, QInv, [Next]_vars PROVE FIFO
  <2>1. ASSUME NEW p \in Procs, ReturnCommit(p), req[p].pick # 0 PROVE FIFO
    <3>1. ChosenOK(p) /\ pc[p] = "return_commit"
      BY <1>1, <2>1 DEF QInv, QueueOK, ReturnCommit
    <3>2. \A r \in DOMAIN resv : resv'[r].expires # resv[r].expires => r = req[p].pick
      BY <1>1, <2>1, PromotionStep
    <3>3. \A s \in DOMAIN resv : s < req[p].pick /\ resv[s].book = resv[req[p].pick].book
                                  => resv[s].status # "pending"
      <4>1. DOMAIN resv \subseteq Nat
        BY <1>1, RowTypes DEF IInv
      <4>2. QED
        BY <2>1, <3>1, <4>1 DEF ChosenOK, Pending
    <3>4. QED
      BY <3>2, <3>3
  <2>2. ASSUME NEW p \in Procs, ReserveInsert(p) PROVE FIFO
    BY <1>1, <2>2, InsertRows
  <2>3. ASSUME NEW p \in Procs, NEW r \in DOMAIN resv, NEW to \in StaffReservationStatuses,
               UpdateReservation(p, r, to)
        PROVE  FIFO
    <3>1. \A s \in DOMAIN resv : resv'[s].expires = resv[s].expires
      BY <1>1, <2>3, PatchRows
    <3>2. QED
      BY <3>1
  <2>4. CASE resv' = resv
    BY <2>4
  <2>5. QED
    BY <1>1, <2>1, <2>2, <2>3, <2>4, ReservationSteps
<1>2. IInv /\ QInv /\ [Next]_vars => [FIFO]_vars
  BY <1>1
<1>3. Spec => [][FIFO]_vars
  <2> HIDE DEF FIFO
  <2>1. QED
    BY <1>2, IInvHolds, QueueHolds, PTL DEF Spec
<1>4. QED
  BY <1>3 DEF PromotionFIFO
-----------------------------------------------------------------------------
(* A request comes to its check of a record by its own DELETE only, and to *)
(* its INSERT of a reservation by its own check for duplicates.            *)
LEMMA ComesTo ==
    ASSUME IInv, [Next]_vars, NEW q \in Procs, pc'[q] \in {"delete_check", "reserve_insert"}
    PROVE  \/ pc'[q] = pc[q] /\ req'[q] = req[q]
           \/ pc'[q] = "delete_check" /\ DeleteRow(q)
           \/ pc'[q] = "reserve_insert" /\ ReserveDup(q)
<1>0. pc \in [Procs -> Steps \cup {"idle"}] /\ req \in [Procs -> Request]
  BY DEF IInv, TypeOK
<1> DEFINE Same == pc'[q] = pc[q] /\ req'[q] = req[q]
<1>1. ASSUME NEW p \in Procs, NEW s, NEW r, Goto(p, s, r),
             s # "delete_check", s # "reserve_insert"
      PROVE  Same
  BY <1>0, <1>1 DEF Goto
<1>2. ASSUME UNCHANGED <<pc, req>> PROVE Same
  BY <1>2
<1>3. CASE Tick \/ UNCHANGED vars
  BY <1>3 DEF Tick, vars
<1>4. ASSUME NEW p \in Procs, Arrive(p) PROVE Same
  <2> HIDE DEF Same
  <2>1. ASSUME NEW c \in Copies PROVE /\ \A u \in Users : BorrowLock(p, c, u) => Same
                                      /\ DeleteRead(p, c) => Same
    <3>1. ASSUME NEW u \in Users, BorrowLock(p, c, u) PROVE Same
      BY <3>1, <1>1 DEF BorrowLock, Start, Goto
    <3>2. ASSUME DeleteRead(p, c) PROVE Same
      BY <3>2, <1>1 DEF DeleteRead, Start, Goto
    <3>3. QED
      BY <3>1, <3>2
  <2>2. ASSUME NEW l \in DOMAIN loans PROVE /\ \A to \in Outcomes : ReturnLock(p, l, to) => Same
                                            /\ RenewLock(p, l) => Same
    <3>1. ASSUME NEW to \in Outcomes, ReturnLock(p, l, to) PROVE Same
      BY <3>1, <1>1 DEF ReturnLock, Start, Goto
    <3>2. ASSUME RenewLock(p, l) PROVE Same
      BY <3>2, <1>1 DEF RenewLock, Start, Goto
    <3>3. QED
      BY <3>1, <3>2
  <2>3. ASSUME NEW u \in Users, NEW b \in Books, ReserveAvail(p, u, b) PROVE Same
    BY <2>3, <1>1 DEF ReserveAvail, Start, Goto
  <2>4. ASSUME NEW f \in DOMAIN fines, NEW to \in {"paid", "waived"}, SettleRead(p, f, to) PROVE Same
    BY <2>4, <1>1 DEF SettleRead, Start, Goto
  <2>5. ASSUME NEW c \in Copies, (\E status \in PatchStatuses : UpdateCopy(p, c, status)) \/ CreateCopy(p, c)
        PROVE  Same
    BY <2>5, <1>2 DEF UpdateCopy, CreateCopy, Serve
  <2>6. ASSUME NEW r \in DOMAIN resv, NEW to \in StaffReservationStatuses, UpdateReservation(p, r, to)
        PROVE  Same
    BY <2>6, <1>2 DEF UpdateReservation, Serve
  <2>7. ASSUME NEW u \in Users, NEW patch \in AccountPatches, UpdateUser(p, u, patch) PROVE Same
    BY <2>7, <1>2 DEF UpdateUser, Serve
  <2>8. QED
    BY <1>4, <2>1, <2>2, <2>3, <2>4, <2>5, <2>6, <2>7 DEF Arrive
<1>5. ASSUME NEW p \in Procs, Proceed(p) \/ Abort(p) \/ DeadlockFound(p),
             ~DeleteRow(p), ~ReserveDup(p)
      PROVE  Same
  <2> HIDE DEF Same
  <2>1. CASE ReturnPromote(p)
    BY <2>1, <1>1 DEF ReturnPromote, Promote
  <2>2. CASE ~ReturnPromote(p)
    <3>1. \/ Finish(p)
          \/ \E r : Goto(p, "borrow_count", r) \/ Goto(p, "borrow_fines", r) \/ Goto(p, "borrow_commit", r)
          \/ \E r : Goto(p, "return_promote", r) \/ Goto(p, "return_commit", r)
          \/ \E r : Goto(p, "renew_commit", r)
      BY <1>5, <2>2 DEF Proceed, Abort, DeadlockFound, BorrowUser, BorrowCount, BorrowFines,
         BorrowCommit, ReturnCopy, ReturnCommit, RenewCheck, RenewCommit, ReserveInsert,
         SettleUpdate, DeleteCheck
    <3>2. QED
      BY <3>1, <1>1 DEF Finish
  <2>3. QED
    BY <2>1, <2>2
<1>6. ASSUME NEW p \in Procs, p # q, DeleteRow(p) \/ ReserveDup(p) PROVE Same
  BY <1>0, <1>6 DEF DeleteRow, ReserveDup, Finish, Goto
<1>7. ASSUME DeleteRow(q) PROVE pc'[q] = "delete_check"
  BY <1>0, <1>7 DEF DeleteRow, Finish, Goto
<1>8. ASSUME ReserveDup(q) PROVE pc'[q] = "reserve_insert"
  BY <1>0, <1>8 DEF ReserveDup, Finish, Goto
<1>9. QED
  <2>1. CASE \E p \in Procs : Proceed(p) \/ Abort(p) \/ DeadlockFound(p)
    BY <2>1, <1>5, <1>6, <1>7, <1>8
  <2>2. QED
    BY <2>1, <1>3, <1>4 DEF Next

(* DuplicatesBound is not inductive: a request that has found no duplicate *)
(* will insert one whatever others have inserted since.  Those requests    *)
(* are counted as well.                                                    *)
PendingOf(u, b) == {r \in Pending(b) : resv[r].user = u}
Inserting(u, b) == {p \in Procs : pc[p] = "reserve_insert" /\ req[p].user = u /\ req[p].book = b}

DupInv ==
    \A u \in Users, b \in Books :
        Cardinality(PendingOf(u, b)) + Cardinality(Inserting(u, b)) <= Cardinality(Procs)

LEMMA DupCounts ==
    ASSUME IsFiniteSet(Procs), IInv, NEW u, NEW b
    PROVE  /\ IsFiniteSet(PendingOf(u, b)) /\ Cardinality(PendingOf(u, b)) \in Nat
           /\ IsFiniteSet(Inserting(u, b)) /\ Cardinality(Inserting(u, b)) \in Nat
           /\ Cardinality(Procs) \in Nat
<1>1. IsFiniteSet(DOMAIN resv)
  BY RowTypes, FS_Interval DEF IInv
<1>2. PendingOf(u, b) \subseteq DOMAIN resv /\ Inserting(u, b) \subseteq Procs
  BY DEF PendingOf, Pending, Inserting
<1>3. QED
  BY <1>1, <1>2, FS_Subset, FS_CardinalityType

(* Nobody asks for more, nobody else is about to: the bound stays. *)
LEMMA NoMoreDup ==
    ASSUME IsFiniteSet(Procs), IInv, DupInv, NEW u \in Users, NEW b \in Books,
           PendingOf(u, b)' \subseteq PendingOf(u, b), Inserting(u, b)' \subseteq Inserting(u, b)
    PROVE  Cardinality(PendingOf(u, b)') + Cardinality(Inserting(u, b)') <= Cardinality(Procs)
<1>1. /\ Cardinality(PendingOf(u, b)') <= Cardinality(PendingOf(u, b))
      /\ Cardinality(Inserting(u, b)') <= Cardinality(Inserting(u, b))
      /\ Cardinality(PendingOf(u, b)') \in Nat /\ Cardinality(Inserting(u, b)') \in Nat
  BY DupCounts, FS_Subset, FS_CardinalityType
<1>2. QED
  BY <1>1, DupCounts DEF DupInv

(* What a step does to the pending reservations of a reader for a book.    *)
LEMMA PendingSteps ==
    ASSUME IInv, QInv, [Next]_vars, \A p \in Procs : ~ReserveInsert(p), NEW u, NEW b
    PROVE  PendingOf(u, b)' \subseteq PendingOf(u, b)
<1>1. CASE resv' = resv
  BY <1>1 DEF PendingOf, Pending
<1>2. ASSUME NEW p \in Procs, ReturnCommit(p), req[p].pick # 0
      PROVE  PendingOf(u, b)' \subseteq PendingOf(u, b)
  BY <1>2, PromotionStep DEF PendingOf, Pending
<1>3. ASSUME NEW p \in Procs, NEW r \in DOMAIN resv, NEW to \in StaffReservationStatuses,
             UpdateReservation(p, r, to)
      PROVE  PendingOf(u, b)' \subseteq PendingOf(u, b)
  BY <1>3, PatchRows DEF PendingOf, Pending
<1>4. QED
  BY <1>1, <1>2, <1>3, ReservationSteps

LEMMA DupStep == ASSUME IsFiniteSet(Procs) PROVE IInv /\ QInv /\ DupInv /\ [Next]_vars => DupInv'
<1> SUFFICES ASSUME IInv, QInv, DupInv, [Next]_vars, NEW u \in Users, NEW b \in Books
             PROVE  Cardinality(PendingOf(u, b)') + Cardinality(Inserting(u, b)') <= Cardinality(Procs)
  BY DEF DupInv
<1>0. pc \in [Procs -> Steps \cup {"idle"}] /\ req \in [Procs -> Request]
  BY DEF IInv, TypeOK
<1>1. ASSUME NEW p \in Procs, ReserveInsert(p), req[p].user = u, req[p].book = b
      PROVE  Cardinality(PendingOf(u, b)') + Cardinality(Inserting(u, b)') <= Cardinality(Procs)
  <2>1. PICK n : n = Len(resv) + 1
    OBVIOUS
  <2>2. PendingOf(u, b)' \subseteq PendingOf(u, b) \cup {n} /\ n \notin PendingOf(u, b)
    BY <1>1, <2>1, InsertRows DEF PendingOf, Pending
  <2>3. Inserting(u, b)' = Inserting(u, b) \ {p} /\ p \in Inserting(u, b)
    BY <1>0, <1>1 DEF ReserveInsert, Finish, Goto, Inserting
  <2>4. IsFiniteSet(PendingOf(u, b) \cup {n})
        /\ Cardinality(PendingOf(u, b) \cup {n}) = Cardinality(PendingOf(u, b)) + 1
    BY <2>2, DupCounts, FS_AddElement
  <2>5. Cardinality(PendingOf(u, b)') <= Cardinality(PendingOf(u, b)) + 1
        /\ Cardinality(PendingOf(u, b)') \in Nat
    BY <2>2, <2>4, FS_Subset, FS_CardinalityType
  <2>6. Cardinality(Inserting(u, b)') = Cardinality(Inserting(u, b)) - 1
    BY <2>3, DupCounts, FS_RemoveElement
  <2>7. QED
    BY <2>5, <2>6, DupCounts DEF DupInv
<1>2. ASSUME NEW p \in Procs, ReserveInsert(p), req[p].user # u \/ req[p].book # b
      PROVE  Cardinality(PendingOf(u, b)') + Cardinality(Inserting(u, b)') <= Cardinality(Procs)
  <2>1. PendingOf(u, b)' \subseteq PendingOf(u, b)
    <3>1. /\ resv'[Len(resv) + 1].book = req[p].book /\ resv'[Len(resv) + 1].user = req[p].user
          /\ DOMAIN resv' = DOMAIN resv \cup {Len(resv) + 1}
          /\ \A r \in DOMAIN resv : resv'[r] = resv[r]
      BY <1>2, InsertRows
    <3>2. QED
      BY <1>2, <3>1 DEF PendingOf, Pending
  <2>2. Inserting(u, b)' \subseteq Inserting(u, b)
    BY <1>0, <1>2 DEF ReserveInsert, Finish, Goto, Inserting
  <2>3. QED
    BY <2>1, <2>2, NoMoreDup
<1>3. ASSUME NEW p \in Procs, ReserveDup(p), pc'[p] = "reserve_insert", req[p].user = u, req[p].book = b
      PROVE  Cardinality(PendingOf(u, b)') + Cardinality(Inserting(u, b)') <= Cardinality(Procs)
  <2>1. resv' = resv /\ PendingOf(u, b) = {}
    BY <1>0, <1>3 DEF ReserveDup, Finish, Goto, PendingOf, Pending, Live, tables
  <2>2. PendingOf(u, b)' = {}
    BY <2>1 DEF PendingOf, Pending
  <2>3. Inserting(u, b)' \subseteq Procs
    BY DEF Inserting
  <2>4. Cardinality(Inserting(u, b)') <= Cardinality(Procs) /\ Cardinality(Inserting(u, b)') \in Nat
    BY <2>3, FS_Subset, FS_CardinalityType
  <2>5. QED
    BY <2>2, <2>4, FS_EmptySet, DupCounts
<1>4. ASSUME \A p \in Procs : ~ReserveInsert(p),
             \A p \in Procs : ~(/\ ReserveDup(p) /\ pc'[p] = "reserve_insert"
                                /\ req[p].user = u /\ req[p].book = b)
      PROVE  Cardinality(PendingOf(u, b)') + Cardinality(Inserting(u, b)') <= Cardinality(Procs)
  <2>1. ASSUME NEW q \in Inserting(u, b)' PROVE q \in Inserting(u, b)
    <3>1. q \in Procs /\ pc'[q] = "reserve_insert" /\ req'[q].user = u /\ req'[q].book = b
      BY <2>1 DEF Inserting
    <3>2. CASE pc'[q] = pc[q] /\ req'[q] = req[q]
      BY <3>1, <3>2 DEF Inserting
    <3>3. CASE ReserveDup(q)
      <4>1. req'[q] = req[q]
        BY <1>0, <3>1, <3>3 DEF ReserveDup, Finish, Goto
      <4>2. QED
        BY <1>4, <3>1, <3>3, <4>1
    <3>4. QED
      BY <3>1, <3>2, <3>3, ComesTo
  <2>2. QED
    BY <1>4, <2>1, PendingSteps, NoMoreDup
<1>5. QED
  BY <1>1, <1>2, <1>3, <1>4

(* DuplicatesBound: however many reservations of one reader for one book   *)
(* overlap, no more of them wait than there are requests                   *)
(* (reservations.go:47-67).                                                 *)
THEOREM DuplicatesBoundHolds == ASSUME IsFiniteSet(Procs) PROVE Spec => []DuplicatesBound
<1>1. Init => DupInv
  <2> SUFFICES ASSUME Init, NEW u \in Users, NEW b \in Books
               PROVE  Cardinality(PendingOf(u, b)) + Cardinality(Inserting(u, b)) <= Cardinality(Procs)
    BY DEF DupInv
  <2>1. PendingOf(u, b) = {} /\ Inserting(u, b) = {}
    BY DEF Init, PendingOf, Pending, Inserting
  <2>2. QED
    BY <2>1, FS_EmptySet, FS_CardinalityType
<1>2. Spec => []DupInv
  BY <1>1, DupStep, IInvHolds, QueueHolds, PTL DEF Spec
<1>3. IInv /\ DupInv => DuplicatesBound
  <2> SUFFICES ASSUME IInv, DupInv, NEW u \in Users, NEW b \in Books
               PROVE  Cardinality(PendingOf(u, b)) <= Cardinality(Procs)
    BY DEF DuplicatesBound, PendingOf
  <2>1. QED
    BY DupCounts DEF DupInv
<1>4. QED
  BY <1>2, <1>3, IInvHolds, PTL
-----------------------------------------------------------------------------
(* Waiting.  A DELETE that waits for a record has locked the copy of it.   *)
Waits(p) == \E q \in Procs : WaitsFor(p, q)
InCircle(p) == \E q \in Procs : WaitsFor(p, q) /\ WaitsFor(q, p)

MeetsOK(p) == pc[p] = "delete_check" => req[p].row \in Records(req[p].copy)
DInv == \A p \in Procs : MeetsOK(p)

(* A request waits for one other at a time.  Who waits for a request that  *)
(* waits need look no further: the next one can go on, or the two wait for *)
(* each other.  That is a return that has its record and wants the copy,   *)
(* and a deletion that has the copy and meets the record.  So some request *)
(* in flight can always go on, or PostgreSQL sees two in a circle.         *)
WaitsResolve ==
    /\ \A p, q, r \in Procs : WaitsFor(p, q) /\ WaitsFor(p, r) => q = r
    /\ \A p, q, r \in Procs : WaitsFor(p, q) /\ WaitsFor(q, r) => ~Waits(r) \/ WaitsFor(r, q)
    /\ \A p, q \in Procs : WaitsFor(p, q) /\ WaitsFor(q, p) =>
          /\ {pc[p], pc[q]} = {"return_copy", "delete_check"}
          /\ req[p].copy = req[q].copy
    /\ (\E p \in Procs : pc[p] # "idle")
          => \E p \in Procs : pc[p] # "idle" /\ (~Waits(p) \/ InCircle(p))

(* The statements of a handler in their order. *)
Place(step) ==
    CASE step \in {"borrow_user", "return_copy", "renew_check", "reserve_dup", "delete_row"} -> 1
      [] step \in {"borrow_count", "return_promote"} -> 2
      [] step = "borrow_fines"                       -> 3
      [] OTHER                                       -> 4

(* A request that moves ends, goes on to a later statement of its handler, *)
(* or is left with fewer reservations to choose from.                      *)
Onward(p) ==
    \/ pc'[p] = "idle"
    \/ Place(pc'[p]) > Place(pc[p])
    \/ /\ pc'[p] = pc[p]
       /\ req'[p].queue \subseteq req[p].queue /\ req'[p].queue # req[p].queue
       /\ IsFiniteSet(req[p].queue)
Moves(p) == pc[p] # "idle" /\ (pc'[p] # pc[p] \/ req'[p] # req[p])

(* No handler goes round in circles, whatever other requests do meanwhile. *)
HandlersAdvance == [][\A p \in Procs : Moves(p) => Onward(p)]_vars

(* No step changes the copy of a record.                                   *)
LEMMA CopyOfRecord ==
    ASSUME IInv, [Next]_vars, NEW l \in DOMAIN loans
    PROVE  l \in DOMAIN loans' /\ loans'[l].copy = loans[l].copy
<1>1. ASSUME NEW p \in Procs, BorrowCommit(p) PROVE l \in DOMAIN loans' /\ loans'[l] = loans[l]
  BY <1>1, BorrowCommitRows
<1>2. ASSUME NEW p \in Procs, ReturnCommit(p)
      PROVE  l \in DOMAIN loans' /\ loans'[l].copy = loans[l].copy
  BY <1>2, ReturnCommitRows DEF ReturnOK
<1>3. ASSUME NEW p \in Procs, RenewCommit(p)
      PROVE  l \in DOMAIN loans' /\ loans'[l].copy = loans[l].copy
  BY <1>3, RenewCommitRows
<1>4. CASE \A p \in Procs : ~BorrowCommit(p) /\ ~ReturnCommit(p) /\ ~RenewCommit(p)
  BY <1>4, QuietSteps
<1>5. QED
  BY <1>1, <1>2, <1>3, <1>4

LEMMA MeetStep == IInv /\ DInv /\ [Next]_vars => DInv'
<1> SUFFICES ASSUME IInv, DInv, [Next]_vars, NEW q \in Procs, pc'[q] = "delete_check"
             PROVE  req'[q].row \in DOMAIN loans' /\ loans'[req'[q].row].copy = req'[q].copy
  BY DEF DInv, MeetsOK, Records
<1>1. CASE pc[q] = "delete_check" /\ req'[q] = req[q]
  BY <1>1, CopyOfRecord DEF DInv, MeetsOK, Records
<1>2. CASE DeleteRow(q)
  <2>1. PICK l \in Records(req[q].copy) : req' = [req EXCEPT ![q] = [req[q] EXCEPT !.row = l]]
    BY <1>2 DEF DeleteRow, Finish, Goto, IInv, TypeOK
  <2>2. req[q] \in Request /\ l \in Nat /\ l \in DOMAIN loans /\ loans[l].copy = req[q].copy
    BY RowTypes DEF IInv, TypeOK, Records
  <2>3. req'[q].row = l /\ req'[q].copy = req[q].copy
    BY <2>1, <2>2 DEF IInv, TypeOK, Request
  <2>4. QED
    BY <2>2, <2>3, CopyOfRecord
<1>3. QED
  BY <1>1, <1>2, ComesTo

LEMMA MeetsHold == Spec => []DInv
<1>1. Init => DInv
  BY DEF Init, DInv, MeetsOK
<1>2. QED
  BY <1>1, MeetStep, IInvHolds, PTL DEF Spec

(* Who waits for whom, by the statement it is at.                          *)
LEMMA WaitsByStep ==
    ASSUME NEW p \in Procs, NEW q \in Procs, WaitsFor(p, q)
    PROVE  \/ /\ pc[p] \in {"return_copy", "delete_row"} /\ pc[q] \in CopyHolding
              /\ req[q].copy = req[p].copy
           \/ pc[p] = "return_promote" /\ pc[q] = "return_commit"
           \/ /\ pc[p] = "delete_check" /\ pc[q] \in ReturnSteps \cup RenewSteps
              /\ req[q].row = req[p].row
  BY DEF WaitsFor, HoldsCopy, HoldsResv, HoldsLoan

(* A request waits for one other at a time.                                *)
LEMMA WaitsForOne ==
    ASSUME IInv, QInv, NEW p \in Procs, NEW q \in Procs, NEW r \in Procs,
           WaitsFor(p, q), WaitsFor(p, r)
    PROVE  q = r
<1>1. CASE pc[p] \in {"return_copy", "delete_row"}
  <2>1. HoldsCopy(q, req[p].copy) /\ HoldsCopy(r, req[p].copy)
    BY <1>1 DEF WaitsFor
  <2>2. QED
    BY <2>1 DEF IInv, LocksOK, CopyLockers, HoldsCopy
<1>2. CASE pc[p] = "return_promote"
  <2>1. PICK k \in req[p].queue : IsOldest(k, req[p].queue) /\ HoldsResv(q, k)
    BY <1>2 DEF WaitsFor
  <2>2. PICK l \in req[p].queue : IsOldest(l, req[p].queue) /\ HoldsResv(r, l)
    BY <1>2 DEF WaitsFor
  <2>3. DOMAIN resv \subseteq Nat \ {0}
    BY RowTypes DEF IInv
  <2>4. k \in Nat \ {0} /\ l \in Nat \ {0}
    BY <1>2, <2>1, <2>2, <2>3 DEF QInv, QueueOK, ChoosesOK
  <2>5. k = l
    BY <2>1, <2>2, <2>4 DEF IsOldest
  <2>6. QED
    BY <2>1, <2>2, <2>4, <2>5 DEF QInv, PicksOK, HoldsResv
<1>3. CASE pc[p] = "delete_check"
  <2>1. HoldsLoan(q, req[p].row) /\ HoldsLoan(r, req[p].row)
    BY <1>3 DEF WaitsFor
  <2>2. QED
    BY <2>1 DEF IInv, LocksOK, LoanLockers, HoldsLoan
<1>4. QED
  BY <1>1, <1>2, <1>3 DEF WaitsFor

(* A return that waits for its copy while a deletion waits for its record  *)
(* waits for that deletion.                                                *)
LEMMA WaitsBack ==
    ASSUME IInv, QInv, DInv, NEW p \in Procs, NEW q \in Procs, NEW r \in Procs,
           WaitsFor(p, q), WaitsFor(q, r), pc[q] = "return_copy"
    PROVE  r = p /\ pc[p] = "delete_check" /\ req[p].copy = req[q].copy
<1>1. pc[p] = "delete_check" /\ req[q].row = req[p].row
  BY WaitsByStep DEF CopyHolding, BorrowSteps, ReturnLocked
<1>2. req[p].copy = loans[req[p].row].copy /\ req[q].copy = loans[req[q].row].copy
  BY <1>1 DEF DInv, MeetsOK, Records, IInv, ReqOK, ReturnOK, ReturnSteps
<1>3. r \in CopyLockers /\ req[r].copy = req[q].copy
  BY WaitsByStep DEF CopyLockers
<1>4. p \in CopyLockers
  BY <1>1 DEF CopyLockers, CopyHolding
<1>5. QED
  BY <1>1, <1>2, <1>3, <1>4 DEF IInv, LocksOK

(* Waits lead, after two, to a request that can go on or back.             *)
LEMMA WaitsEnd ==
    ASSUME IInv, QInv, DInv, NEW p \in Procs, NEW q \in Procs, NEW r \in Procs,
           WaitsFor(p, q), WaitsFor(q, r)
    PROVE  ~Waits(r) \/ WaitsFor(r, q)
<1>1. CASE pc[q] = "return_copy"
  BY <1>1, WaitsBack
<1>2. CASE pc[q] = "return_promote"
  <2>1. pc[r] = "return_commit"
    BY <1>2, WaitsByStep
  <2>2. QED
    BY <2>1 DEF Waits, WaitsFor
<1>3. CASE pc[q] = "delete_check"
  <2>1. pc[r] \in ReturnSteps \cup RenewSteps /\ req[r].row = req[q].row
    BY <1>3, WaitsByStep
  <2>2. req[q].copy = loans[req[q].row].copy
    BY <1>3 DEF DInv, MeetsOK, Records
  <2>3. CASE pc[r] \in RenewSteps
    BY <2>3 DEF Waits, WaitsFor, RenewSteps
  <2>4. CASE pc[r] \in ReturnSteps
    <3>1. req[r].copy = req[q].copy
      BY <2>1, <2>2, <2>4 DEF IInv, ReqOK, ReturnOK
    <3>2. pc[r] \notin ReturnLocked
      BY <1>3, <3>1 DEF IInv, LocksOK, CopyLockers, CopyHolding, ReturnLocked
    <3>3. pc[r] = "return_copy"
      BY <2>4, <3>2 DEF ReturnSteps
    <3>4. QED
      BY <1>3, <3>1, <3>3 DEF WaitsFor, HoldsCopy, CopyHolding
  <2>5. QED
    BY <2>1, <2>3, <2>4
<1>4. pc[q] # "delete_row"
  BY WaitsByStep DEF CopyHolding, BorrowSteps, ReturnLocked, ReturnSteps, RenewSteps
<1>5. QED
  BY <1>1, <1>2, <1>3, <1>4 DEF WaitsFor

(* Two requests that wait for each other are a return and a deletion of    *)
(* one copy.                                                               *)
LEMMA CircleIsReturnAndDelete ==
    ASSUME IInv, QInv, DInv, NEW p \in Procs, NEW q \in Procs, WaitsFor(p, q), WaitsFor(q, p)
    PROVE  {pc[p], pc[q]} = {"return_copy", "delete_check"} /\ req[p].copy = req[q].copy
<1>1. CASE pc[q] = "return_copy"
  BY <1>1, WaitsBack
<1>2. CASE pc[p] = "return_copy"
  BY <1>2, WaitsBack
<1>3. pc[q] = "return_copy" \/ pc[p] = "return_copy"
  BY WaitsByStep DEF CopyHolding, BorrowSteps, ReturnLocked, ReturnSteps, RenewSteps
<1>4. QED
  BY <1>1, <1>2, <1>3

(* returnBorrow locks a record and then its copy (borrow.go:161, 226); the *)
(* DELETE of a copy, by its foreign key, the copy and then a record of it  *)
(* (copies.go:160).  That is the only circle of waits there can be, for    *)
(* any number of requests; it is of two, which PostgreSQL ends.            *)
THEOREM WaitsResolveHolds == Spec => []WaitsResolve
<1>1. ASSUME IInv, QInv, DInv, NEW p \in Procs, pc[p] # "idle"
      PROVE  \E q \in Procs : pc[q] # "idle" /\ (~Waits(q) \/ InCircle(q))
  <2>1. CASE ~Waits(p)
    BY <1>1, <2>1
  <2>2. CASE Waits(p)
    <3>1. PICK q \in Procs : WaitsFor(p, q)
      BY <2>2 DEF Waits
    <3>2. pc[q] # "idle"
      BY <3>1, WaitsByStep DEF CopyHolding, BorrowSteps, ReturnLocked, ReturnSteps, RenewSteps
    <3>3. CASE ~Waits(q)
      BY <3>2, <3>3
    <3>4. ASSUME NEW r \in Procs, WaitsFor(q, r)
          PROVE  pc[r] # "idle" /\ (~Waits(r) \/ InCircle(r))
      <4>1. pc[r] # "idle"
        BY <3>4, WaitsByStep DEF CopyHolding, BorrowSteps, ReturnLocked, ReturnSteps, RenewSteps
      <4>2. QED
        BY <1>1, <3>1, <3>4, <4>1, WaitsEnd DEF InCircle
    <3>5. QED
      BY <3>3, <3>4 DEF Waits
  <2>3. QED
    BY <2>1, <2>2
<1>2. IInv /\ QInv /\ DInv => WaitsResolve
  BY <1>1, WaitsForOne, WaitsEnd, CircleIsReturnAndDelete DEF WaitsResolve
<1>3. QED
  BY <1>2, IInvHolds, QueueHolds, MeetsHold, PTL

(* The list a promotion chooses from gets shorter with each choice that is *)
(* no longer pending.                                                      *)
LEMMA PromoteOnward ==
    ASSUME IInv, QInv, NEW p \in Procs, ReturnPromote(p)
    PROVE  Onward(p)
<1>1. pc[p] = "return_promote" /\ req[p] \in Request /\ ChoosesOK(p)
  BY DEF ReturnPromote, IInv, TypeOK, QInv, QueueOK
<1>2. CASE pc'[p] = "return_commit"
  BY <1>1, <1>2 DEF Onward, Place
<1>3. CASE pc'[p] # "return_commit"
  <2>1. PICK r \in req[p].queue :
           pc'[p] = "return_promote" /\ req'[p] = [req[p] EXCEPT !.queue = @ \ {r}]
    BY <1>3 DEF ReturnPromote, Promote, Goto, IInv, TypeOK
  <2>2. req'[p].queue = req[p].queue \ {r}
    BY <1>1, <2>1 DEF Request
  <2>3. IsFiniteSet(req[p].queue)
    <3>1. resv \in Seq(ResvRow)
      BY DEF IInv, TypeOK
    <3>2. Len(resv) \in Nat /\ DOMAIN resv = 1..Len(resv)
      BY <3>1
    <3>3. IsFiniteSet(DOMAIN resv)
      BY <3>2, FS_Interval
    <3>4. req[p].queue \subseteq DOMAIN resv
      BY <1>1 DEF ChoosesOK
    <3>5. QED
      BY <3>3, <3>4, FS_Subset
  <2>4. QED
    BY <1>1, <2>1, <2>2, <2>3 DEF Onward
<1>4. QED
  BY <1>2, <1>3

(* EveryRequestEnds, as far as it is no matter of fairness: no handler of  *)
(* borrow.go, reservations.go or fines.go runs a statement twice but the   *)
(* promotion, and that for another row each time.                          *)
THEOREM HandlersAdvanceHolds == Spec => HandlersAdvance
<1> DEFINE Advance == \A p \in Procs : Moves(p) => Onward(p)
<1>1. ASSUME IInv, QInv, [Next]_vars PROVE Advance
  <2>1. ASSUME NEW p \in Procs, Proceed(p) \/ Abort(p) \/ DeadlockFound(p)
        PROVE  Onward(p) /\ \A q \in Procs \ {p} : ~Moves(q)
    <3>1. CASE ReturnPromote(p)
      <4>1. \A q \in Procs \ {p} : ~Moves(q)
        BY <1>1, <3>1 DEF ReturnPromote, Promote, Goto, IInv, TypeOK, Moves
      <4>2. QED
        BY <1>1, <3>1, <4>1, PromoteOnward
    <3>2. CASE ~ReturnPromote(p)
      <4> DEFINE Later(s) == s = "idle" \/ Place(s) > Place(pc[p])
      <4>1. \/ Finish(p)
            \/ pc[p] = "borrow_user" /\ \E r : Goto(p, "borrow_count", r)
            \/ pc[p] = "borrow_count" /\ \E r : Goto(p, "borrow_fines", r)
            \/ pc[p] = "borrow_fines" /\ \E r : Goto(p, "borrow_commit", r)
            \/ pc[p] = "return_copy" /\ \E r : Goto(p, "return_promote", r) \/ Goto(p, "return_commit", r)
            \/ pc[p] = "renew_check" /\ \E r : Goto(p, "renew_commit", r)
            \/ pc[p] = "reserve_dup" /\ \E r : Goto(p, "reserve_insert", r)
            \/ pc[p] = "delete_row" /\ \E r : Goto(p, "delete_check", r)
        BY <2>1, <3>2 DEF Proceed, Abort, DeadlockFound, BorrowUser, BorrowCount, BorrowFines,
           BorrowCommit, ReturnCopy, ReturnCommit, RenewCheck, RenewCommit, ReserveDup,
           ReserveInsert, SettleUpdate, DeleteRow, DeleteCheck
      <4>2. PICK s, r : Goto(p, s, r) /\ Later(s)
        BY <4>1 DEF Finish, Place
      <4>3. pc'[p] = s /\ \A q \in Procs \ {p} : ~Moves(q)
        BY <1>1, <4>2 DEF Goto, IInv, TypeOK, Moves
      <4>4. QED
        BY <4>2, <4>3 DEF Onward
    <3>3. QED
      BY <3>1, <3>2
  <2>2. ASSUME NEW p \in Procs, Arrive(p) PROVE \A q \in Procs : ~Moves(q)
    <3> DEFINE Begins == pc[p] = "idle" /\ \E s, r : Goto(p, s, r)
    <3>1. ASSUME NEW c \in Copies PROVE /\ \A u \in Users : BorrowLock(p, c, u) => Begins
                                        /\ DeleteRead(p, c) => Begins
      <4>1. ASSUME NEW u \in Users, BorrowLock(p, c, u) PROVE Begins
        BY <4>1 DEF BorrowLock, Start, Goto
      <4>2. ASSUME DeleteRead(p, c) PROVE Begins
        BY <4>2 DEF DeleteRead, Start, Goto
      <4>3. QED
        BY <4>1, <4>2
    <3>2. ASSUME NEW l \in DOMAIN loans PROVE /\ \A to \in Outcomes : ReturnLock(p, l, to) => Begins
                                              /\ RenewLock(p, l) => Begins
      <4>1. ASSUME NEW to \in Outcomes, ReturnLock(p, l, to) PROVE Begins
        BY <4>1 DEF ReturnLock, Start, Goto
      <4>2. ASSUME RenewLock(p, l) PROVE Begins
        BY <4>2 DEF RenewLock, Start, Goto
      <4>3. QED
        BY <4>1, <4>2
    <3>3. ASSUME NEW u \in Users, NEW b \in Books, ReserveAvail(p, u, b) PROVE Begins
      BY <3>3 DEF ReserveAvail, Start, Goto
    <3>4. ASSUME NEW f \in DOMAIN fines, NEW to \in {"paid", "waived"}, SettleRead(p, f, to) PROVE Begins
      BY <3>4 DEF SettleRead, Start, Goto
    <3>5. ASSUME NEW c \in Copies, (\E status \in PatchStatuses : UpdateCopy(p, c, status)) \/ CreateCopy(p, c)
          PROVE  UNCHANGED <<pc, req>>
      BY <3>5 DEF UpdateCopy, CreateCopy, Serve
    <3>6. ASSUME NEW r \in DOMAIN resv, NEW to \in StaffReservationStatuses, UpdateReservation(p, r, to)
          PROVE  UNCHANGED <<pc, req>>
      BY <3>6 DEF UpdateReservation, Serve
    <3>7. ASSUME NEW u \in Users, NEW patch \in AccountPatches, UpdateUser(p, u, patch)
          PROVE  UNCHANGED <<pc, req>>
      BY <3>7 DEF UpdateUser, Serve
    <3>8. CASE Begins
      BY <1>1, <3>8 DEF Goto, IInv, TypeOK, Moves
    <3>9. CASE UNCHANGED <<pc, req>>
      BY <3>9 DEF Moves
    <3>10. QED
      <4> HIDE DEF Begins
      <4>1. QED
        BY <2>2, <3>1, <3>2, <3>3, <3>4, <3>5, <3>6, <3>7, <3>8, <3>9 DEF Arrive
  <2>3. CASE Tick \/ UNCHANGED vars
    BY <2>3 DEF Tick, vars, Moves
  <2>4. QED
    BY <1>1, <2>1, <2>2, <2>3 DEF Next
<1>2. IInv /\ QInv /\ [Next]_vars => [Advance]_vars
  BY <1>1
<1>3. Spec => [][Advance]_vars
  <2> HIDE DEF Advance
  <2>1. QED
    BY <1>2, IInvHolds, QueueHolds, PTL DEF Spec
<1>4. QED
  BY <1>3 DEF HandlersAdvance
=============================================================================
