-------------------------- MODULE CopyCodesProofs --------------------------
(* Proofs about the codes of copies, for any books, prefixes and requests. *)
EXTENDS CopyCodes, FiniteSetTheorems, TLAPS

-----------------------------------------------------------------------------
(* Types.  A request reserves the copy that it may make: the copies made   *)
(* and the requests under way stay within the bound together.              *)
Types ==
    /\ TypeOK
    /\ IsFiniteSet(copies)
    /\ \A p \in Procs : req[p].step # "idle" => req[p].book \in Books
    /\ \A b \in Books : made[b] <= created
    /\ created + Cardinality(Creating) <= MaxMade
    /\ \A p \in Procs : req[p].step # "idle" => req[p].attempt < Attempts

LEMMA CreatingFinite ==
    /\ IsFiniteSet(Creating) /\ Cardinality(Creating) \in Nat
    /\ IsFiniteSet(Creating') /\ Cardinality(Creating') \in Nat
<1>1. Creating \subseteq Procs /\ Creating' \subseteq Procs
  BY DEF Creating
<1>2. QED
  BY <1>1, CodesAssumption, FS_Subset, FS_CardinalityType

LEMMA CountFinite == ASSUME Types, NEW b PROVE IsFiniteSet(CopiesOf(b)) /\ Count(b) \in Nat
<1>1. CopiesOf(b) \subseteq copies
  BY DEF CopiesOf
<1>2. QED
  BY <1>1, FS_Subset, FS_CardinalityType DEF Types, Count

LEMMA StartTypes == ASSUME Types, NEW p \in Procs, NEW b \in Books, Start(p, b) PROVE Types'
<1> USE DEF Types, TypeOK
<1>1. /\ req[p].step = "idle" /\ UNCHANGED <<copies, made, created>>
      /\ created + Cardinality(Creating) < MaxMade
      /\ req' = [req EXCEPT ![p] = [Idle EXCEPT !.step = "count", !.book = b]]
  BY DEF Start
<1>2. /\ req'[p] = [Idle EXCEPT !.step = "count", !.book = b]
      /\ \A q \in Procs \ {p} : req'[q] = req[q]
  BY <1>1
<1>3. req'[p].step = "count" /\ req'[p].book = b /\ req'[p].attempt = 0 /\ req'[p] \in Request
  <2>1. req'[p] = [step |-> "count", book |-> b, attempt |-> 0, seq |-> 0, from |-> 0]
    BY <1>2 DEF Idle
  <2>2. QED
    BY <2>1, CodesAssumption DEF Request
<1>4. req' \in [Procs -> Request]
  BY <1>1, <1>2, <1>3
<1>5. created + Cardinality(Creating') <= MaxMade
  <2>1. Creating' = Creating \cup {p} /\ p \notin Creating
    BY <1>1, <1>2, <1>3 DEF Creating
  <2>2. Cardinality(Creating') = Cardinality(Creating) + 1
    BY <2>1, CreatingFinite, FS_AddElement
  <2>3. QED
    BY <2>2, <1>1, CreatingFinite, CodesAssumption
<1>6. \A q \in Procs : req'[q].step # "idle" => req'[q].book \in Books /\ req'[q].attempt < Attempts
  <2>1. 0 < Attempts
    BY CodesAssumption
  <2>2. QED
    BY <1>2, <1>3, <2>1
<1>7. QED
  BY <1>1, <1>4, <1>5, <1>6

LEMMA CountTypes == ASSUME Types, NEW p \in Procs, CountCopies(p) PROVE Types'
<1> USE DEF Types, TypeOK
<1>1. PICK n \in Nat, m \in Nat :
        req' = [req EXCEPT ![p].step = "insert", ![p].seq = n, ![p].from = m]
  <2>1. made[req[p].book] \in Nat /\ Count(req[p].book) \in Nat
    BY CountFinite DEF CountCopies
  <2>2. QED
    BY <2>1 DEF CountCopies
<1>2. req[p].step = "count" /\ UNCHANGED <<copies, made, created>>
  BY DEF CountCopies
<1>3. /\ req'[p].step = "insert" /\ req'[p].book = req[p].book /\ req'[p].attempt = req[p].attempt
      /\ \A q \in Procs \ {p} : req'[q] = req[q]
      /\ req' \in [Procs -> Request]
  <2>1. req[p] \in Request /\ p \in DOMAIN req
    OBVIOUS
  <2>2. req'[p] = [req[p] EXCEPT !.step = "insert", !.seq = n, !.from = m]
    BY <1>1, <2>1
  <2>3. req'[p] = [step |-> "insert", book |-> req[p].book, attempt |-> req[p].attempt, seq |-> n, from |-> m]
    BY <2>1, <2>2 DEF Request
  <2>4. req'[p] \in Request
    BY <2>1, <2>3 DEF Request
  <2>5. QED
    BY <1>1, <2>3, <2>4
<1>4. Creating' = Creating
  BY <1>2, <1>3 DEF Creating
<1>5. QED
  BY <1>2, <1>3, <1>4

LEMMA InsertTypes == ASSUME Types, NEW p \in Procs, Insert(p) PROVE Types'
<1> USE DEF Types, TypeOK
<1>1. /\ req[p].step = "insert" /\ req[p].book \in Books /\ req[p] \in Request
      /\ made' = [made EXCEPT ![req[p].book] = @ + 1] /\ created' = created + 1
      /\ copies' = copies \cup {[id |-> made[req[p].book] + 1, book |-> req[p].book, number |-> Number(p)]}
      /\ req' = [req EXCEPT ![p] = Idle]
  BY DEF Insert
<1>2. req'[p] = Idle /\ Idle.step = "idle" /\ Idle \in Request /\ \A q \in Procs \ {p} : req'[q] = req[q]
  BY <1>1, CodesAssumption DEF Idle, Request
<1>3. created + 1 + Cardinality(Creating') <= MaxMade
  <2>1. Creating' = Creating \ {p} /\ p \in Creating
    BY <1>1, <1>2 DEF Creating
  <2>2. Cardinality(Creating') = Cardinality(Creating) - 1
    BY <2>1, CreatingFinite, FS_RemoveElement
  <2>3. QED
    BY <2>2, CreatingFinite, CodesAssumption
<1>4. created' \in 0..MaxMade
  BY <1>1, <1>3, CreatingFinite, CodesAssumption
<1>5. /\ made' \in [Books -> 0..MaxMade] /\ made[req[p].book] + 1 \in 1..MaxMade
      /\ \A b \in Books : made'[b] <= created'
  <2>1. \A b \in Books : made[b] \in Nat /\ made[b] + 1 <= created'
    BY <1>1
  <2>2. \A b \in Books : made'[b] \in {made[b], made[b] + 1}
    BY <1>1
  <2>3. \A b \in Books : made'[b] \in 0..MaxMade /\ made'[b] <= created'
    BY <1>1, <1>4, <2>1, <2>2, CodesAssumption
  <2>4. QED
    BY <1>1, <1>4, <2>1, <2>3, CodesAssumption
<1>6. copies' \subseteq CopyRow /\ IsFiniteSet(copies')
  <2>1. Number(p) \in Nat \ {0}
    BY <1>1 DEF Number, Request
  <2>2. [id |-> made[req[p].book] + 1, book |-> req[p].book, number |-> Number(p)] \in CopyRow
    BY <1>1, <1>5, <2>1 DEF CopyRow
  <2>3. QED
    BY <1>1, <2>2, FS_AddElement
<1>7. QED
  BY <1>1, <1>2, <1>3, <1>4, <1>5, <1>6

LEMMA CollideTypes == ASSUME Types, NEW p \in Procs, Collide(p) PROVE Types'
<1> USE DEF Types, TypeOK
<1>1. req[p].step = "insert" /\ req[p] \in Request /\ UNCHANGED <<copies, made, created>>
  BY DEF Collide
<1>2. CASE req[p].attempt + 1 < Attempts
  <2>1. req' = [req EXCEPT ![p] = [req[p] EXCEPT !.step = "count", !.attempt = req[p].attempt + 1]]
    BY <1>2 DEF Collide, Retry
  <2>2. req[p].attempt + 1 \in 0..Attempts
    BY <1>1, <1>2, CodesAssumption DEF Request
  <2>3. PICK a \in 0..Attempts : a < Attempts /\ req' = [req EXCEPT ![p] = [req[p] EXCEPT !.step = "count", !.attempt = a]]
    BY <1>2, <2>1, <2>2
  <2>4. /\ req'[p].step = "count" /\ req'[p].book = req[p].book /\ req'[p].attempt = a
        /\ \A q \in Procs \ {p} : req'[q] = req[q]
        /\ req' \in [Procs -> Request]
    BY <1>1, <2>3 DEF Request
  <2>5. Creating' = Creating
    BY <1>1, <2>4 DEF Creating
  <2>6. QED
    BY <1>1, <2>3, <2>4, <2>5
<1>3. CASE ~(req[p].attempt + 1 < Attempts)
  <2>1. req' = [req EXCEPT ![p] = Idle]
    BY <1>3 DEF Collide, Retry
  <2>2. req'[p] = Idle /\ Idle.step = "idle" /\ Idle \in Request /\ \A q \in Procs \ {p} : req'[q] = req[q]
    BY <2>1, CodesAssumption DEF Idle, Request
  <2>3. Creating' \subseteq Creating
    BY <2>2 DEF Creating
  <2>4. Cardinality(Creating') <= Cardinality(Creating)
    BY <2>3, CreatingFinite, FS_Subset
  <2>5. created + Cardinality(Creating') <= MaxMade
    BY <2>4, CreatingFinite, CodesAssumption
  <2>6. QED
    BY <1>1, <2>1, <2>2, <2>5
<1>4. QED
  BY <1>2, <1>3

LEMMA TypesStep == Types /\ [Next]_vars => Types'
<1> SUFFICES ASSUME Types, [Next]_vars PROVE Types'
  OBVIOUS
<1>1. CASE DeleteCopy
  <2>1. copies' \subseteq copies /\ UNCHANGED <<made, created, req>>
    BY <1>1 DEF DeleteCopy
  <2>2. IsFiniteSet(copies')
    BY <2>1, FS_Subset DEF Types
  <2>3. QED
    BY <2>1, <2>2 DEF Types, TypeOK, Creating
<1>2. CASE UNCHANGED vars
  BY <1>2 DEF vars, Types, TypeOK, Creating
<1>3. QED
  BY <1>1, <1>2, StartTypes, CountTypes, InsertTypes, CollideTypes DEF Next, Proceed

LEMMA TypesStart == Init => Types
<1> SUFFICES ASSUME Init PROVE Types
  OBVIOUS
<1>1. copies = {} /\ made = [b \in Books |-> 0] /\ created = 0 /\ req = [p \in Procs |-> Idle]
  BY DEF Init
<1>2. Creating = {} /\ Cardinality(Creating) = 0 /\ IsFiniteSet(copies)
  <2>1. Creating = {}
    BY <1>1 DEF Creating, Idle
  <2>2. QED
    BY <1>1, <2>1, FS_EmptySet
<1>3. Idle \in Request /\ Idle.step = "idle"
  BY CodesAssumption DEF Idle, Request
<1>4. QED
  BY <1>1, <1>2, <1>3, CodesAssumption DEF Types, TypeOK

(* The requests, rows and counters keep their types and their bound.       *)
THEOREM CodesTypes == Spec => []Types
BY TypesStart, TypesStep, PTL DEF Spec

-----------------------------------------------------------------------------
(* The numbers of a book whose prefix is its own.  With N requests, the    *)
(* m-th copy of a book has a number of at most (2N - 1) m / N: all but one *)
(* of N requests that overlap may skip a number for each they lose.        *)
N == Cardinality(Procs)

InReach(n, m) == N * n <= (2 * N - 1) * m

(* How far the number n of a request that counted after m copies is out of *)
(* reach, counted so that only what is above N would be too far.           *)
Debt(n, m) == N * n - (2 * N - 1) * (m + 1) + N

Counted(p) == req[p].step = "insert" \/ (req[p].step = "count" /\ req[p].attempt > 0)

(* The number a request tries, or the one it failed with. *)
Tried(p) == req[p].seq + req[p].attempt + (IF req[p].step = "insert" THEN 1 ELSE 0)

(* The only copy made since p counted has the number that p tries or tried: *)
(* p is going to count it and to add its attempt as well.                  *)
Lost(p, b) ==
    /\ req[p].from + 1 = made[b]
    /\ \/ req[p].step = "insert" /\ \E c \in CopiesOf(b) : c.id = made[b] /\ c.number = Tried(p)
       \/ req[p].step = "count" /\ ~InReach(Tried(p), req[p].from)

For(p, b)   == Counted(p) /\ req[p].book = b
Level(p, b) == Debt(Tried(p), req[p].from) + (IF Lost(p, b) THEN 1 ELSE 0)
AtLevel(b, t) == {p \in Procs : For(p, b) /\ Level(p, b) >= t}

(* Debts are rare: whoever makes another request lose a number had at      *)
(* least the debt of the loser and is done.                                *)
LevelsOK(b) == \A t \in 1..(N + 1) : Cardinality(AtLevel(b, t)) + t <= N + 1

NumbersOK(b) ==
    /\ Count(b) <= made[b]
    /\ \A c \in CopiesOf(b) : c.id \in 1..made[b] /\ InReach(c.number, c.id)
    /\ Procs = {} => made[b] = 0

CountedOK(p, b) ==
    For(p, b) =>
        /\ req[p].from <= made[b]
        /\ Count(b) <= req[p].seq + (made[b] - req[p].from)
        /\ req[p].from # made[b] => N >= 2
        /\ req[p].step = "count" => req[p].from # made[b] \/ InReach(Tried(p), req[p].from)

DriftOK(b) == NumbersOK(b) /\ LevelsOK(b) /\ \A p \in Procs : CountedOK(p, b)

DriftInv == Types /\ \A b \in Books : OwnPrefix(b) => DriftOK(b)

(* The arithmetic of debts. *)
LEMMA Requests == N \in Nat /\ \A p \in Procs : N >= 1 /\ \A q \in Procs \ {p} : N >= 2
<1>1. N \in Nat
  BY CodesAssumption, FS_CardinalityType DEF N
<1>2. ASSUME NEW p \in Procs PROVE N >= 1
  <2>1. IsFiniteSet({p}) /\ Cardinality({p}) = 1
    BY FS_Singleton
  <2>2. {p} \in SUBSET Procs
    BY <1>2
  <2>3. QED
    BY <2>1, <2>2, CodesAssumption, FS_Subset DEF N
<1>3. ASSUME NEW p \in Procs, NEW q \in Procs \ {p} PROVE N >= 2
  <2>1. IsFiniteSet({p}) /\ Cardinality({p}) = 1
    BY FS_Singleton
  <2>2. Cardinality({p} \cup {q}) = 2
    BY <2>1, FS_AddElement
  <2>3. {p} \cup {q} \in SUBSET Procs
    BY <1>3
  <2>4. QED
    BY <2>2, <2>3, CodesAssumption, FS_Subset DEF N
<1>4. QED
  BY <1>1, <1>2, <1>3

LEMMA DebtType == ASSUME NEW n \in Int, NEW m \in Int PROVE Debt(n, m) \in Int
BY Requests DEF Debt

LEMMA FartherInReach ==
    ASSUME NEW n \in Nat, NEW l \in Nat, NEW m \in Nat, N >= 1, l <= m
    PROVE  /\ InReach(n, l) => InReach(n, m)
           /\ Debt(n, m) <= Debt(n, l)
           /\ Debt(n, l) <= N => InReach(n, m + 1)
<1> DEFINE k == m - l
<1>1. k \in Nat /\ m = l + k /\ N \in Nat
  BY Requests
<1>2. N * k >= k
  BY <1>1
<1> HIDE DEF k
<1>3. (2 * N - 1) * m = (2 * N - 1) * l + 2 * (N * k) - k
  BY <1>1
<1>4. N * k \in Nat /\ N * n \in Nat
  BY <1>1
<1>5. InReach(n, l) => InReach(n, m)
  BY <1>1, <1>2, <1>3, <1>4 DEF InReach
<1>6. (2 * N - 1) * (m + 1) = (2 * N - 1) * (l + 1) + 2 * (N * k) - k
  BY <1>1
<1>7. Debt(n, m) <= Debt(n, l)
  BY <1>1, <1>2, <1>4, <1>6 DEF Debt
<1>8. Debt(n, l) <= N => InReach(n, m + 1)
  BY <1>1, <1>2, <1>4, <1>6 DEF Debt, InReach
<1>9. QED
  BY <1>5, <1>7, <1>8

(* A request that failed with a number in reach, or with none, has no debt *)
(* when it counts again, k copies later.                                   *)
LEMMA NoDebt ==
    ASSUME N >= 1, NEW n \in Nat, NEW m \in Nat, NEW k \in Nat, NEW j \in Int, j <= k, InReach(n, m)
    PROVE  Debt(n + j + 1, m + k) <= 1
<1>1. N \in Nat /\ N * n <= (2 * N - 1) * m
  BY Requests DEF InReach
<1>2. N * (n + j + 1) = N * n + N * j + N /\ N * j <= N * k
  <2>1. N * (k - j) >= 0
    BY <1>1
  <2>2. QED
    BY <1>1, <2>1
<1>3. (2 * N - 1) * (m + k + 1) = (2 * N - 1) * m + 2 * (N * k) - k + 2 * N - 1
  BY <1>1
<1>4. N * k >= k
  BY <1>1
<1>5. /\ N * n \in Int /\ N * j \in Int /\ N * k \in Int /\ (2 * N - 1) * m \in Int
      /\ N * (n + j + 1) \in Int /\ (2 * N - 1) * (m + k + 1) \in Int
  BY <1>1
<1>6. QED
  BY <1>1, <1>2, <1>3, <1>4, <1>5 DEF Debt

(* One copy later the debt may be higher by one, two copies later and more *)
(* it is not.                                                              *)
LEMMA DebtGrows ==
    ASSUME N >= 2, NEW n \in Nat, NEW m \in Nat, NEW k \in Nat \ {0}, NEW j \in Int, j <= k
    PROVE  Debt(n + j + 1, m + k) <= Debt(n, m) + (IF k = 1 THEN 1 ELSE 0)
<1>1. N \in Nat
  BY Requests
<1>2. N * (n + j + 1) = N * n + N * j + N /\ N * j <= N * k
  <2>1. N * (k - j) >= 0
    BY <1>1
  <2>2. QED
    BY <1>1, <2>1
<1>3. (2 * N - 1) * (m + k + 1) = (2 * N - 1) * (m + 1) + 2 * (N * k) - k
  BY <1>1
<1>4. CASE k = 1
  BY <1>1, <1>2, <1>3, <1>4 DEF Debt
<1>5. CASE k # 1
  <2>1. (N - 1) * (k - 2) >= 0
    BY <1>1, <1>5
  <2>2. N * k - k >= 2 * N - 2
    BY <1>1, <2>1
  <2>3. /\ N * n \in Int /\ N * j \in Int /\ N * k \in Int /\ (2 * N - 1) * (m + 1) \in Int
        /\ N * (n + j + 1) \in Int /\ (2 * N - 1) * (m + k + 1) \in Int
    BY <1>1
  <2>4. QED
    BY <1>1, <1>2, <1>3, <1>5, <2>2, <2>3 DEF Debt
<1>6. QED
  BY <1>4, <1>5

(* What all the numbers in debts are. *)
LEMMA DriftTypes ==
    ASSUME Types, NEW b \in Books, NEW p \in Procs
    PROVE  /\ made[b] \in Nat /\ Count(b) \in Nat
           /\ req[p].seq \in Nat /\ req[p].attempt \in Nat /\ req[p].from \in Nat
           /\ Tried(p) \in Nat
           /\ Debt(Tried(p), req[p].from) \in Int /\ Level(p, b) \in Int
<1>1. req[p] \in Request /\ made[b] \in Nat
  BY DEF Types, TypeOK
<1>2. req[p].seq \in Nat /\ req[p].attempt \in Nat /\ req[p].from \in Nat
  BY <1>1 DEF Request
<1>3. Tried(p) \in Nat
  BY <1>2 DEF Tried
<1>4. Debt(Tried(p), req[p].from) \in Int
  <2>1. Tried(p) \in Int /\ req[p].from \in Int
    BY <1>2, <1>3
  <2>2. QED
    BY <2>1, DebtType
<1>5. QED
  BY <1>1, <1>2, <1>3, <1>4, CountFinite DEF Level

LEMMA DriftTypesNext ==
    ASSUME Types', NEW b \in Books, NEW p \in Procs
    PROVE  /\ made'[b] \in Nat /\ Count(b)' \in Nat
           /\ req'[p].seq \in Nat /\ req'[p].attempt \in Nat /\ req'[p].from \in Nat
           /\ Tried(p)' \in Nat /\ Level(p, b)' \in Int
<1>1. req'[p] \in Request /\ made'[b] \in Nat
  BY DEF Types, TypeOK, Request
<1>2. req'[p].seq \in Nat /\ req'[p].attempt \in Nat /\ req'[p].from \in Nat
  BY <1>1 DEF Request
<1>3. Tried(p)' \in Nat
  BY <1>2 DEF Tried
<1>4. Debt(Tried(p), req[p].from)' \in Int
  BY <1>2, <1>3, Requests DEF Debt
<1>5. Count(b)' \in Nat
  <2>1. CopiesOf(b)' \subseteq copies' /\ IsFiniteSet(copies')
    BY DEF CopiesOf, Types
  <2>2. QED
    BY <2>1, FS_Subset, FS_CardinalityType DEF Count
<1>6. QED
  BY <1>1, <1>2, <1>3, <1>4, <1>5 DEF Level

LEMMA LevelsFinite ==
    ASSUME NEW b, NEW t
    PROVE  /\ IsFiniteSet(AtLevel(b, t)) /\ Cardinality(AtLevel(b, t)) \in Nat
           /\ Cardinality(AtLevel(b, t)) <= N
<1>1. AtLevel(b, t) \in SUBSET Procs
  BY DEF AtLevel
<1>2. QED
  BY <1>1, CodesAssumption, FS_Subset, FS_CardinalityType DEF N

(* A step after which only those are in debt who were before, no less.     *)
LEMMA LevelsKept ==
    ASSUME Types, Types', NEW b \in Books, LevelsOK(b),
           \A q \in Procs : For(q, b)' => Level(q, b)' <= 1 \/ (For(q, b) /\ Level(q, b)' <= Level(q, b))
    PROVE  LevelsOK(b)'
<1> SUFFICES ASSUME NEW t \in 1..(N + 1) PROVE Cardinality(AtLevel(b, t)') + t <= N + 1
  BY DEF LevelsOK, N
<1>1. N \in Nat
  BY Requests
<1>2. IsFiniteSet(AtLevel(b, t)') /\ Cardinality(AtLevel(b, t)') \in Nat /\ Cardinality(AtLevel(b, t)') <= N
  <2>1. AtLevel(b, t)' \in SUBSET Procs
    BY DEF AtLevel
  <2>2. QED
    BY <2>1, CodesAssumption, FS_Subset, FS_CardinalityType DEF N
<1>3. CASE t = 1
  BY <1>1, <1>2, <1>3
<1>4. CASE t # 1
  <2>1. ASSUME NEW q \in AtLevel(b, t)' PROVE q \in AtLevel(b, t)
    <3>1. q \in Procs /\ For(q, b)' /\ Level(q, b)' >= t
      BY <2>1 DEF AtLevel
    <3>2. Level(q, b)' \in Int /\ Level(q, b) \in Int
      BY <3>1, DriftTypes, DriftTypesNext
    <3>3. For(q, b) /\ Level(q, b)' <= Level(q, b)
      BY <1>4, <3>1, <3>2
    <3>4. QED
      BY <3>1, <3>2, <3>3 DEF AtLevel
  <2>2. Cardinality(AtLevel(b, t)') <= Cardinality(AtLevel(b, t))
    BY <2>1, LevelsFinite, FS_Subset
  <2>3. QED
    BY <1>1, <1>2, <2>2, LevelsFinite DEF LevelsOK
<1>5. QED
  BY <1>3, <1>4

(* A request that does nothing while its book has no new copy.             *)
LEMMA Bystander ==
    ASSUME Types, Types', NEW b \in Books, NEW q \in Procs, CountedOK(q, b),
           req'[q] = req[q], made'[b] = made[b], CopiesOf(b)' \subseteq CopiesOf(b)
    PROVE  /\ CountedOK(q, b)'
           /\ For(q, b)' => For(q, b) /\ Level(q, b)' <= Level(q, b)
<1>1. Count(b)' <= Count(b) /\ Count(b)' \in Nat
  <2>1. IsFiniteSet(CopiesOf(b))
    BY CountFinite
  <2>2. Cardinality(CopiesOf(b)') <= Cardinality(CopiesOf(b))
    BY <2>1, FS_Subset
  <2>3. QED
    BY <2>2, DriftTypes, DriftTypesNext DEF Count
<1>2. /\ For(q, b)' = For(q, b) /\ Tried(q)' = Tried(q)
      /\ InReach(Tried(q), req[q].from)' = InReach(Tried(q), req[q].from)
      /\ Debt(Tried(q), req[q].from)' = Debt(Tried(q), req[q].from)
  BY DEF For, Counted, Tried, InReach, Debt, N
<1>3. Lost(q, b)' => Lost(q, b)
  BY <1>2 DEF Lost
<1>4. Level(q, b)' <= Level(q, b)
  BY <1>2, <1>3, DriftTypes DEF Level
<1>5. CountedOK(q, b)'
  <2>1. /\ made[b] \in Nat /\ Count(b) \in Nat
        /\ req[q].seq \in Nat /\ req[q].from \in Nat /\ N' = N
    BY DriftTypes DEF N
  <2>2. QED
    BY <1>1, <1>2, <2>1 DEF CountedOK
<1>6. QED
  BY <1>2, <1>4, <1>5

(* Requests that do not count, insert or collide for b leave b as it was.  *)
LEMMA DriftElsewhere ==
    ASSUME Types, Types', NEW b \in Books, DriftOK(b), NEW p \in Procs,
           \A q \in Procs \ {p} : req'[q] = req[q],
           made'[b] = made[b], CopiesOf(b)' \subseteq CopiesOf(b),
           For(p, b)' => CountedOK(p, b)' /\ (Level(p, b)' <= 1 \/ (For(p, b) /\ Level(p, b)' <= Level(p, b)))
    PROVE  DriftOK(b)'
<1>1. \A q \in Procs \ {p} : /\ CountedOK(q, b)'
                             /\ For(q, b)' => For(q, b) /\ Level(q, b)' <= Level(q, b)
  BY Bystander DEF DriftOK
<1>2. \A q \in Procs : CountedOK(q, b)'
  BY <1>1 DEF CountedOK
<1>3. LevelsOK(b)'
  <2>1. \A q \in Procs : For(q, b)' => Level(q, b)' <= 1 \/ (For(q, b) /\ Level(q, b)' <= Level(q, b))
    BY <1>1
  <2>2. QED
    BY <2>1, LevelsKept DEF DriftOK
<1>4. NumbersOK(b)'
  <2>1. IsFiniteSet(CopiesOf(b))
    BY CountFinite
  <2>2. Cardinality(CopiesOf(b)') <= Cardinality(CopiesOf(b))
    BY <2>1, FS_Subset
  <2>3. Count(b)' <= made'[b]
    BY <2>2, DriftTypes, DriftTypesNext DEF DriftOK, NumbersOK, Count
  <2>4. \A c \in CopiesOf(b)' : c.id \in 1..made'[b] /\ InReach(c.number, c.id)'
    BY DEF DriftOK, NumbersOK, InReach, N
  <2>5. QED
    BY <2>3, <2>4 DEF NumbersOK
<1>5. QED
  BY <1>2, <1>3, <1>4 DEF DriftOK

LEMMA StartDrift ==
    ASSUME Types, Types', NEW b \in Books, DriftOK(b), NEW p \in Procs, NEW a \in Books, Start(p, a)
    PROVE  DriftOK(b)'
<1>1. /\ req' = [req EXCEPT ![p] = [Idle EXCEPT !.step = "count", !.book = a]]
      /\ UNCHANGED <<copies, made>>
  BY DEF Start
<1>2. /\ req'[p].step = "count" /\ req'[p].attempt = 0
      /\ \A q \in Procs \ {p} : req'[q] = req[q]
  BY <1>1 DEF Types, TypeOK, Idle
<1>3. ~For(p, b)'
  BY <1>2 DEF For, Counted
<1>4. made'[b] = made[b] /\ CopiesOf(b)' \subseteq CopiesOf(b)
  BY <1>1 DEF CopiesOf
<1>5. QED
  BY <1>2, <1>3, <1>4, DriftElsewhere

LEMMA DeleteDrift ==
    ASSUME Types, Types', NEW b \in Books, DriftOK(b), NEW p \in Procs, DeleteCopy
    PROVE  DriftOK(b)'
<1>1. copies' \subseteq copies /\ UNCHANGED <<made, req>>
  BY DEF DeleteCopy
<1>2. CopiesOf(b)' \subseteq CopiesOf(b) /\ made'[b] = made[b]
  BY <1>1 DEF CopiesOf
<1>3. /\ CountedOK(p, b)'
      /\ For(p, b)' => For(p, b) /\ Level(p, b)' <= Level(p, b)
  BY <1>1, <1>2, Bystander DEF DriftOK
<1>4. QED
  BY <1>1, <1>2, <1>3, DriftElsewhere

(* A count: what a request has tried and lost is a debt, the rest is not.  *)
LEMMA CountDrift ==
    ASSUME Types, Types', NEW b \in Books, DriftOK(b), NEW p \in Procs, CountCopies(p)
    PROVE  DriftOK(b)'
<1>1. /\ req' = [req EXCEPT ![p].step = "insert", ![p].seq = Count(req[p].book), ![p].from = made[req[p].book]]
      /\ req[p].step = "count" /\ UNCHANGED <<copies, made>>
      /\ req[p] \in Request /\ p \in DOMAIN req
  BY DEF CountCopies, Types, TypeOK
<1>2. /\ req'[p].step = "insert" /\ req'[p].seq = Count(req[p].book) /\ req'[p].from = made[req[p].book]
      /\ req'[p].book = req[p].book /\ req'[p].attempt = req[p].attempt
      /\ \A q \in Procs \ {p} : req'[q] = req[q]
  <2>1. PICK c, m : /\ c = Count(req[p].book) /\ m = made[req[p].book]
                    /\ req' = [req EXCEPT ![p].step = "insert", ![p].seq = c, ![p].from = m]
    BY <1>1
  <2>2. req'[p] = [req[p] EXCEPT !.step = "insert", !.seq = c, !.from = m]
    BY <1>1, <2>1
  <2>3. req'[p] = [step |-> "insert", book |-> req[p].book, attempt |-> req[p].attempt, seq |-> c, from |-> m]
    BY <1>1, <2>2 DEF Request
  <2>4. \A q \in Procs \ {p} : req'[q] = req[q]
    BY <2>1 DEF Types, TypeOK
  <2>5. /\ req'[p].step = "insert" /\ req'[p].seq = c /\ req'[p].from = m
        /\ req'[p].book = req[p].book /\ req'[p].attempt = req[p].attempt
    BY <2>3
  <2>6. QED
    BY <2>1, <2>4, <2>5
<1>3. made'[b] = made[b] /\ CopiesOf(b)' = CopiesOf(b) /\ Count(b)' = Count(b)
  BY <1>1 DEF CopiesOf, Count
<1>4. CASE req[p].book # b
  BY <1>2, <1>3, <1>4, DriftElsewhere DEF For
<1>5. CASE req[p].book = b
  <2> DEFINE c == Count(b)
             m == made[b]
             a == req[p].attempt
             f == req[p].from
             t == Tried(p)
  <2>1. c \in Nat /\ m \in Nat /\ a \in Nat /\ f \in Nat /\ t \in Nat /\ N >= 1 /\ N \in Nat
    BY DriftTypes, Requests
  <2>2. CountedOK(p, b)'
    BY <1>2, <1>3, <1>5, <2>1 DEF CountedOK
  <2>3. Level(p, b)' = Debt(c + 1 + a, m)
    <3>1. ~Lost(p, b)'
      BY <1>2, <1>3, <1>5, <2>1 DEF Lost
    <3>2. Tried(p)' = c + 1 + a
      BY <1>2, <1>5, <2>1 DEF Tried
    <3>3. Debt(Tried(p), req[p].from)' = Debt(c + 1 + a, m)
      BY <1>2, <1>5, <3>2 DEF Debt, N
    <3>4. Debt(c + 1 + a, m) \in Int
      <4>1. c + 1 + a \in Int /\ m \in Int
        BY <2>1
      <4>2. QED
        BY <4>1, DebtType
    <3>5. QED
      BY <3>1, <3>3, <3>4 DEF Level
  <2>4. CASE a = 0
    <3>1. InReach(0, 0) /\ c <= m
      BY <2>1 DEF InReach, DriftOK, NumbersOK
    <3>2. Debt(0 + c + 1, 0 + m) <= 1
      <4>1. c \in Int /\ m \in Nat /\ 0 \in Nat
        BY <2>1
      <4> HIDE DEF c, m
      <4>2. QED
        BY <2>1, <3>1, <4>1, NoDebt
    <3>3. 0 + c + 1 = c + 1 + a /\ 0 + m = m
      BY <2>1, <2>4
    <3>4. Level(p, b)' <= 1
      BY <2>3, <3>2, <3>3
    <3>5. QED
      BY <1>2, <1>3, <2>2, <3>4, DriftElsewhere
  <2>5. CASE a # 0
    <3>1. For(p, b) /\ t = req[p].seq + a
      BY <1>1, <1>5, <2>1, <2>5, DriftTypes DEF For, Counted, Tried
    <3>2. /\ f <= m /\ c <= req[p].seq + (m - f) /\ (f # m => N >= 2)
          /\ f # m \/ InReach(t, f)
      BY <1>1, <3>1 DEF DriftOK, CountedOK
    <3>3. PICK k \in Nat, j \in Int : k = m - f /\ j = c - req[p].seq
      BY <2>1, <3>2, DriftTypes
    <3>4. j <= k /\ c + 1 + a = t + j + 1 /\ m = f + k
      BY <2>1, <3>1, <3>2, <3>3, DriftTypes
    <3>5. CASE InReach(t, f)
      <4>1. Debt(t + j + 1, f + k) <= 1
        BY <2>1, <3>4, <3>5, NoDebt
      <4>2. QED
        BY <1>2, <1>3, <2>2, <2>3, <3>4, <4>1, DriftElsewhere
    <3>6. CASE ~InReach(t, f)
      <4>1. k # 0 /\ N >= 2
        BY <2>1, <3>2, <3>3, <3>6
      <4>2. Debt(t + j + 1, f + k) <= Debt(t, f) + (IF k = 1 THEN 1 ELSE 0)
        BY <2>1, <3>4, <4>1, DebtGrows
      <4>3. k = 1 => Lost(p, b)
        BY <1>1, <2>1, <3>3, <3>4, <3>6 DEF Lost
      <4>4. Debt(t, f) + (IF k = 1 THEN 1 ELSE 0) <= Level(p, b)
        BY <4>3, DriftTypes DEF Level
      <4>5. Level(p, b)' <= Level(p, b)
        BY <2>3, <3>4, <4>2, <4>4, DriftTypes, DriftTypesNext
      <4>6. QED
        BY <1>2, <1>3, <2>2, <3>1, <4>5, DriftElsewhere
    <3>7. QED
      BY <3>5, <3>6
  <2>6. QED
    BY <2>4, <2>5
<1>6. QED
  BY <1>4, <1>5

(* A collision: with a number in reach, or with the newest copy.           *)
LEMMA CollideDrift ==
    ASSUME Types, Types', NEW b \in Books, OwnPrefix(b), DriftOK(b), NEW p \in Procs, Collide(p)
    PROVE  DriftOK(b)'
<1>1. /\ req[p].step = "insert" /\ Taken(req[p].book, Number(p)) /\ UNCHANGED <<copies, made>>
      /\ req[p] \in Request /\ p \in DOMAIN req
  BY DEF Collide, Types, TypeOK
<1>2. made'[b] = made[b] /\ CopiesOf(b)' = CopiesOf(b) /\ Count(b)' = Count(b)
  BY <1>1 DEF CopiesOf, Count
<1>3. \A q \in Procs \ {p} : req'[q] = req[q]
  BY <1>1 DEF Collide, Retry, Types, TypeOK
<1>4. \/ req'[p].step = "idle"
      \/ /\ req'[p].step = "count" /\ req'[p].attempt = req[p].attempt + 1
         /\ req'[p].book = req[p].book /\ req'[p].seq = req[p].seq /\ req'[p].from = req[p].from
  <2>1. CASE req[p].attempt + 1 < Attempts
    <3>1. req' = [req EXCEPT ![p] = [req[p] EXCEPT !.step = "count", !.attempt = req[p].attempt + 1]]
      BY <2>1 DEF Collide, Retry
    <3>2. \A n : LET r == [req[p] EXCEPT !.step = "count", !.attempt = n]
                 IN  /\ r.step = "count" /\ r.attempt = n
                     /\ r.book = req[p].book /\ r.seq = req[p].seq /\ r.from = req[p].from
      BY <1>1 DEF Request
    <3>3. QED
      BY <1>1, <3>1, <3>2
  <2>2. CASE ~(req[p].attempt + 1 < Attempts)
    BY <1>1, <2>2 DEF Collide, Retry, Idle
  <2>3. QED
    BY <2>1, <2>2
<1>5. CASE req[p].book # b \/ req'[p].step = "idle"
  BY <1>2, <1>3, <1>4, <1>5, DriftElsewhere DEF For, Counted
<1>6. CASE req[p].book = b /\ req'[p].step # "idle"
  <2> DEFINE m == made[b]
             f == req[p].from
             t == Tried(p)
  <2>1. m \in Nat /\ f \in Nat /\ t \in Nat /\ req[p].attempt \in Nat /\ req[p].seq \in Nat /\ N >= 1
    BY DriftTypes, Requests
  <2>2. PICK c \in CopiesOf(b) : c.number = t
    <3>1. Number(p) = t
      BY <1>1, <2>1 DEF Number, Tried
    <3>2. PICK c \in copies : SchoolOf[c.book] = SchoolOf[b] /\ PrefixOf[c.book] = PrefixOf[b] /\ c.number = t
      BY <1>1, <1>6, <3>1 DEF Taken, SchoolCopies
    <3>3. c.book \in Books
      BY <3>2 DEF Types, TypeOK, CopyRow
    <3>4. c.book = b
      BY <3>2, <3>3 DEF OwnPrefix
    <3>5. QED
      BY <3>2, <3>4 DEF CopiesOf
  <2>3. c.id \in Nat /\ c.id <= m /\ InReach(t, c.id)
    BY <2>1, <2>2 DEF DriftOK, NumbersOK
  <2>4. InReach(t, f) \/ f < c.id
    BY <2>1, <2>3, FartherInReach
  <2>5. For(p, b) /\ f <= m
    BY <1>1, <1>6 DEF For, Counted, DriftOK, CountedOK
  <2>6. /\ req'[p].step = "count" /\ req'[p].book = b /\ req'[p].from = f /\ Tried(p)' = t
        /\ For(p, b)'
    BY <1>1, <1>4, <1>6, <2>1 DEF Tried, For, Counted
  <2>7. InReach(Tried(p), req[p].from)' = InReach(t, f) /\ Debt(Tried(p), req[p].from)' = Debt(t, f)
    BY <2>6 DEF InReach, Debt, N
  <2>8. Lost(p, b)' => Lost(p, b)
    <3> SUFFICES ASSUME Lost(p, b)' PROVE Lost(p, b)
      OBVIOUS
    <3>1. f + 1 = m /\ ~InReach(t, f)
      BY <1>2, <2>6, <2>7 DEF Lost
    <3>2. c.id = m
      BY <2>1, <2>3, <2>4, <3>1
    <3>3. QED
      BY <1>1, <2>2, <3>1, <3>2 DEF Lost
  <2>9. Level(p, b)' <= Level(p, b)
    BY <2>7, <2>8, DriftTypes DEF Level
  <2>10. CountedOK(p, b)'
    <3>1. f # m \/ InReach(t, f)
      BY <2>1, <2>3, <2>4
    <3>2. N' = N /\ req'[p].seq = req[p].seq
      BY <1>4, <1>6 DEF N
    <3>3. QED
      BY <1>2, <2>5, <2>6, <2>7, <3>1, <3>2 DEF DriftOK, CountedOK
  <2>11. QED
    BY <1>2, <1>3, <2>5, <2>9, <2>10, DriftElsewhere
<1>7. QED
  BY <1>5, <1>6

(* An insert.  The number is in reach, as no debt is above N; whoever      *)
(* loses it is one deeper in debt, but the request that won is gone, and   *)
(* had at least the debt that the losers had.                              *)
LEMMA InsertElsewhere ==
    ASSUME Types, Types', NEW b \in Books, DriftOK(b), NEW p \in Procs, Insert(p), req[p].book # b
    PROVE  DriftOK(b)'
<1>1. /\ made' = [made EXCEPT ![req[p].book] = @ + 1]
      /\ copies' = copies \cup {[id |-> made[req[p].book] + 1, book |-> req[p].book, number |-> Number(p)]}
      /\ req' = [req EXCEPT ![p] = Idle]
  BY DEF Insert
<1>2. /\ req'[p].step = "idle" /\ \A q \in Procs \ {p} : req'[q] = req[q]
      /\ made'[b] = made[b]
  BY <1>1 DEF Idle, Types, TypeOK
<1>3. CopiesOf(b)' \subseteq CopiesOf(b)
  <2> DEFINE new == [id |-> made[req[p].book] + 1, book |-> req[p].book, number |-> Number(p)]
  <2>1. new.book # b /\ copies' = copies \cup {new}
    BY <1>1
  <2> HIDE DEF new
  <2>2. QED
    BY <2>1 DEF CopiesOf
<1>4. QED
  BY <1>2, <1>3, DriftElsewhere DEF For, Counted

LEMMA InsertNumbers ==
    ASSUME Types, Types', NEW b \in Books, DriftOK(b), NEW p \in Procs, Insert(p), req[p].book = b
    PROVE  /\ made'[b] = made[b] + 1 /\ req'[p].step = "idle" /\ \A q \in Procs \ {p} : req'[q] = req[q]
           /\ For(p, b) /\ Level(p, b) <= N
           /\ NumbersOK(b)' /\ Count(b)' <= Count(b) + 1
           /\ \A c \in CopiesOf(b)' : c.id = made'[b] => c.number = Tried(p)
<1>1. /\ made' = [made EXCEPT ![b] = @ + 1]
      /\ copies' = copies \cup {[id |-> made[b] + 1, book |-> b, number |-> Number(p)]}
      /\ req' = [req EXCEPT ![p] = Idle] /\ req[p].step = "insert"
  BY DEF Insert
<1>2. /\ req'[p].step = "idle" /\ \A q \in Procs \ {p} : req'[q] = req[q]
      /\ made'[b] = made[b] + 1
  BY <1>1 DEF Idle, Types, TypeOK
<1>3. PICK new : /\ copies' = copies \cup {new} /\ new.book = b
                 /\ new.id = made[b] + 1 /\ new.number = Tried(p)
  <2>1. Number(p) = Tried(p)
    BY <1>1, DriftTypes DEF Number, Tried
  <2> DEFINE row == [id |-> made[b] + 1, book |-> b, number |-> Number(p)]
  <2>2. row.book = b /\ row.id = made[b] + 1 /\ row.number = Number(p)
    OBVIOUS
  <2>3. copies' = copies \cup {row}
    BY <1>1
  <2> HIDE DEF row
  <2>4. QED
    BY <2>1, <2>2, <2>3
<1>4. CopiesOf(b)' = CopiesOf(b) \cup {new}
  BY <1>3 DEF CopiesOf
<1>5. Count(b)' <= Count(b) + 1
  <2>1. /\ IsFiniteSet(CopiesOf(b)) /\ Cardinality(CopiesOf(b)) \in Nat
    BY CountFinite DEF Count
  <2>2. Cardinality(CopiesOf(b) \cup {new}) <= Cardinality(CopiesOf(b)) + 1
    <3>1. Cardinality(CopiesOf(b) \cup {new}) \in {Cardinality(CopiesOf(b)), Cardinality(CopiesOf(b)) + 1}
      BY <2>1, FS_AddElement
    <3>2. QED
      BY <2>1, <3>1
  <2>3. QED
    BY <1>4, <2>2 DEF Count
<1>6. For(p, b)
  BY <1>1 DEF For, Counted
<1>7. Level(p, b) <= N
  <2> SUFFICES ASSUME ~(Level(p, b) <= N) PROVE FALSE
    OBVIOUS
  <2>1. p \in AtLevel(b, N + 1)
    BY <1>6, Requests, DriftTypes DEF AtLevel
  <2>2. Cardinality(AtLevel(b, N + 1)) + (N + 1) <= N + 1
    BY Requests DEF DriftOK, LevelsOK
  <2>3. Cardinality(AtLevel(b, N + 1)) = 0
    BY <2>2, Requests, LevelsFinite
  <2>4. AtLevel(b, N + 1) = {}
    BY <2>3, LevelsFinite, FS_EmptySet
  <2>5. QED
    BY <2>1, <2>4
<1>8. InReach(Tried(p), made[b] + 1)
  <2>1. Debt(Tried(p), req[p].from) <= Level(p, b)
    BY DriftTypes DEF Level
  <2>2. Debt(Tried(p), req[p].from) <= N
    BY <1>7, <2>1, DriftTypes, Requests
  <2>3. req[p].from <= made[b]
    BY <1>6 DEF DriftOK, CountedOK
  <2>4. QED
    BY <2>2, <2>3, DriftTypes, Requests, FartherInReach
<1>9. NumbersOK(b)'
  <2>1. Count(b)' <= made'[b]
    BY <1>2, <1>5, DriftTypes, DriftTypesNext DEF DriftOK, NumbersOK
  <2>2. ASSUME NEW c \in CopiesOf(b)' PROVE c.id \in 1..made'[b] /\ InReach(c.number, c.id)
    <3>1. CASE c \in CopiesOf(b)
      BY <1>2, <3>1, DriftTypes DEF DriftOK, NumbersOK
    <3>2. CASE c = new
      BY <1>2, <1>3, <1>8, <3>2, DriftTypes
    <3>3. QED
      BY <1>4, <2>2, <3>1, <3>2
  <2>3. \A n, m : InReach(n, m)' = InReach(n, m)
    BY DEF InReach, N
  <2>4. QED
    BY <2>1, <2>2 DEF NumbersOK, InReach, N
<1>10. \A c \in CopiesOf(b)' : c.id = made'[b] => c.number = Tried(p)
  BY <1>2, <1>3, <1>4, DriftTypes DEF DriftOK, NumbersOK
<1>11. QED
  BY <1>2, <1>5, <1>6, <1>7, <1>9, <1>10

LEMMA InsertOthers ==
    ASSUME Types, Types', NEW b \in Books, DriftOK(b), NEW p \in Procs, Insert(p), req[p].book = b,
           NEW q \in Procs \ {p}
    PROVE  /\ CountedOK(q, b)'
           /\ For(q, b)' => /\ For(q, b) /\ Level(q, b)' <= Level(q, b) + 1
                            /\ ~(Level(q, b)' <= Level(q, b)) => Level(q, b)' <= Level(p, b) + 1
<1> DEFINE m == made[b]
           f == req[q].from
           t == Tried(q)
<1>1. /\ made'[b] = m + 1 /\ req'[q] = req[q] /\ For(p, b) /\ Count(b)' <= Count(b) + 1
      /\ \A c \in CopiesOf(b)' : c.id = made'[b] => c.number = Tried(p)
  BY InsertNumbers
<1>2. /\ For(q, b)' = For(q, b) /\ Tried(q)' = t
      /\ InReach(t, f)' = InReach(t, f) /\ Debt(Tried(q), req[q].from)' = Debt(t, f)
  BY <1>1 DEF For, Counted, Tried, InReach, Debt, N
<1>3. /\ m \in Nat /\ f \in Nat /\ t \in Nat /\ req[q].seq \in Nat /\ Count(b) \in Nat /\ Count(b)' \in Nat
      /\ N \in Nat /\ N >= 2
  BY DriftTypes, DriftTypesNext, Requests
<1>4. CountedOK(q, b)'
  <2>1. For(q, b) => f <= m /\ Count(b) <= req[q].seq + (m - f)
    BY DEF DriftOK, CountedOK
  <2>2. For(q, b) => f <= m + 1 /\ Count(b)' <= req[q].seq + (m + 1 - f) /\ f # m + 1
    BY <1>1, <1>3, <2>1
  <2>3. N' = N
    BY DEF N
  <2>4. QED
    BY <1>1, <1>2, <1>3, <2>2, <2>3 DEF CountedOK
<1>5. Level(q, b)' <= Level(q, b) + 1
  BY <1>2, DriftTypes DEF Level
<1>6. For(q, b) /\ Lost(q, b)' => Level(q, b)' <= Level(p, b) + 1
  <2> SUFFICES ASSUME For(q, b), Lost(q, b)' PROVE Level(q, b)' <= Level(p, b) + 1
    OBVIOUS
  <2>1. f = m
    BY <1>1, <1>3 DEF Lost
  <2>2. req[q].step = "insert"
    BY <1>1, <1>2, <2>1 DEF Lost, DriftOK, CountedOK
  <2>3. t = Tried(p)
    BY <1>1, <1>2, <2>2 DEF Lost
  <2>4. req[p].from <= m
    BY <1>1 DEF DriftOK, CountedOK
  <2>5. Debt(Tried(p), m) <= Debt(Tried(p), req[p].from)
    BY <1>3, <2>4, DriftTypes, FartherInReach
  <2>6. Debt(Tried(p), req[p].from) <= Level(p, b)
    BY DriftTypes DEF Level
  <2>7. Level(q, b)' <= Debt(t, m) + 1
    BY <1>2, <2>1, DriftTypes DEF Level
  <2>8. Debt(t, m) \in Int
    BY <2>1, DriftTypes
  <2>9. QED
    BY <2>3, <2>5, <2>6, <2>7, <2>8, DriftTypes, DriftTypesNext
<1>7. ~Lost(q, b)' => Level(q, b)' <= Level(q, b)
  BY <1>2, DriftTypes DEF Level
<1>8. QED
  BY <1>2, <1>4, <1>5, <1>6, <1>7

LEMMA InsertDrift ==
    ASSUME Types, Types', NEW b \in Books, DriftOK(b), NEW p \in Procs, Insert(p), req[p].book = b
    PROVE  DriftOK(b)'
<1>1. /\ NumbersOK(b)' /\ For(p, b) /\ ~For(p, b)'
  BY InsertNumbers DEF For, Counted
<1>2. \A q \in Procs : CountedOK(q, b)'
  BY <1>1, InsertOthers DEF CountedOK
<1>3. LevelsOK(b)'
  <2> SUFFICES ASSUME NEW t \in 1..(N + 1) PROVE Cardinality(AtLevel(b, t)') + t <= N + 1
    BY DEF LevelsOK, N
  <2>1. N \in Nat
    BY Requests
  <2>2. IsFiniteSet(AtLevel(b, t)') /\ Cardinality(AtLevel(b, t)') \in Nat /\ Cardinality(AtLevel(b, t)') <= N
    <3>1. AtLevel(b, t)' \in SUBSET Procs
      BY DEF AtLevel
    <3>2. QED
      BY <3>1, CodesAssumption, FS_Subset, FS_CardinalityType DEF N
  <2>3. ASSUME NEW q \in AtLevel(b, t)'
        PROVE  /\ q \in Procs \ {p} /\ Level(q, b)' \in Int /\ Level(q, b) \in Int /\ For(q, b)
               /\ Level(q, b)' >= t /\ Level(q, b)' <= Level(q, b) + 1
               /\ ~(Level(q, b)' <= Level(q, b)) => Level(q, b)' <= Level(p, b) + 1
    <3>1. q \in Procs \ {p} /\ For(q, b)' /\ Level(q, b)' >= t
      BY <1>1, <2>3 DEF AtLevel
    <3>2. QED
      BY <3>1, InsertOthers, DriftTypes, DriftTypesNext
  <2>4. CASE t = 1
    BY <2>1, <2>2, <2>4
  <2>5. CASE t # 1 /\ AtLevel(b, t)' \subseteq AtLevel(b, t)
    <3>1. Cardinality(AtLevel(b, t)') <= Cardinality(AtLevel(b, t))
      BY <2>5, LevelsFinite, FS_Subset
    <3>2. QED
      BY <2>1, <2>2, <3>1, LevelsFinite DEF DriftOK, LevelsOK
  <2>6. CASE t # 1 /\ ~(AtLevel(b, t)' \subseteq AtLevel(b, t))
    <3>1. PICK q \in AtLevel(b, t)' : q \notin AtLevel(b, t)
      BY <2>6
    <3>2. Level(p, b) >= t - 1
      BY <2>3, <3>1, DriftTypes DEF AtLevel
    <3>3. p \in AtLevel(b, t - 1)
      BY <1>1, <3>2 DEF AtLevel
    <3>4. AtLevel(b, t)' \subseteq AtLevel(b, t - 1) \ {p}
      BY <2>3 DEF AtLevel
    <3>5. t - 1 \in 1..(N + 1)
      BY <2>1, <2>6
    <3>6. Cardinality(AtLevel(b, t - 1)) + (t - 1) <= N + 1
      BY <3>5 DEF DriftOK, LevelsOK
    <3>7. /\ IsFiniteSet(AtLevel(b, t - 1) \ {p})
          /\ Cardinality(AtLevel(b, t - 1) \ {p}) = Cardinality(AtLevel(b, t - 1)) - 1
      BY <3>3, LevelsFinite, FS_RemoveElement
    <3>8. Cardinality(AtLevel(b, t)') <= Cardinality(AtLevel(b, t - 1)) - 1
      BY <3>4, <3>7, FS_Subset
    <3>9. Cardinality(AtLevel(b, t - 1)) \in Nat
      BY LevelsFinite
    <3>10. QED
      BY <2>1, <2>2, <3>6, <3>8, <3>9
  <2>7. QED
    BY <2>4, <2>5, <2>6
<1>4. QED
  BY <1>1, <1>2, <1>3 DEF DriftOK

LEMMA DriftStep == DriftInv /\ [Next]_vars => DriftInv'
<1> SUFFICES ASSUME DriftInv, [Next]_vars PROVE DriftInv'
  OBVIOUS
<1>1. Types /\ Types'
  BY TypesStep DEF DriftInv
<1>2. ASSUME NEW b \in Books, OwnPrefix(b) PROVE DriftOK(b)'
  <2>1. DriftOK(b)
    BY <1>2 DEF DriftInv
  <2>2. ASSUME NEW p \in Procs, CountCopies(p) \/ Insert(p) \/ Collide(p) \/ \E a \in Books : Start(p, a)
        PROVE  DriftOK(b)'
    BY <1>1, <1>2, <2>1, <2>2, CountDrift, InsertElsewhere, InsertDrift, CollideDrift, StartDrift
  <2>3. CASE DeleteCopy \/ UNCHANGED vars
    <3>1. CASE Procs = {}
      <4>1. made' = made /\ copies' \subseteq copies
        BY <2>3 DEF DeleteCopy, vars
      <4>2. IsFiniteSet(CopiesOf(b)) /\ CopiesOf(b)' \subseteq CopiesOf(b)
        BY <1>1, <4>1, CountFinite DEF CopiesOf
      <4>3. Count(b)' <= Count(b) /\ Count(b) \in Nat /\ Count(b)' \in Nat
        BY <4>2, FS_Subset, FS_CardinalityType DEF Count
      <4>4. NumbersOK(b)'
        BY <1>1, <2>1, <4>1, <4>2, <4>3 DEF DriftOK, NumbersOK, InReach, N, Types, TypeOK
      <4>5. LevelsOK(b)'
        <5>1. \A t : AtLevel(b, t)' = AtLevel(b, t)
          BY <3>1 DEF AtLevel
        <5>2. QED
          BY <2>1, <5>1 DEF DriftOK, LevelsOK, N
      <4>6. QED
        BY <3>1, <4>4, <4>5 DEF DriftOK
    <3>2. CASE Procs # {}
      <4>1. PICK p \in Procs : TRUE
        BY <3>2
      <4>2. CASE DeleteCopy
        BY <1>1, <2>1, <4>1, <4>2, DeleteDrift
      <4>3. CASE UNCHANGED vars
        <5>1. made'[b] = made[b] /\ req' = req /\ CopiesOf(b)' \subseteq CopiesOf(b)
          BY <4>3 DEF vars, CopiesOf
        <5>2. /\ CountedOK(p, b)'
              /\ For(p, b)' => For(p, b) /\ Level(p, b)' <= Level(p, b)
          BY <1>1, <2>1, <5>1, Bystander DEF DriftOK
        <5>3. QED
          BY <1>1, <2>1, <5>1, <5>2, DriftElsewhere
      <4>4. QED
        BY <2>3, <4>2, <4>3
    <3>3. QED
      BY <3>1, <3>2
  <2>4. QED
    BY <2>2, <2>3 DEF Next, Proceed
<1>3. QED
  BY <1>1, <1>2 DEF DriftInv, OwnPrefix

LEMMA DriftStart == Init => DriftInv
<1> SUFFICES ASSUME Init PROVE DriftInv
  OBVIOUS
<1>1. copies = {} /\ made = [b \in Books |-> 0] /\ req = [p \in Procs |-> Idle]
  BY DEF Init
<1>2. \A p \in Procs, b \in Books : ~For(p, b)
  BY <1>1 DEF For, Counted, Idle
<1>3. ASSUME NEW b \in Books PROVE DriftOK(b)
  <2>1. CopiesOf(b) = {}
    BY <1>1 DEF CopiesOf
  <2>2. NumbersOK(b)
    BY <1>1, <2>1, FS_EmptySet DEF NumbersOK, Count
  <2>3. LevelsOK(b)
    <3>1. \A t : AtLevel(b, t) = {}
      BY <1>2 DEF AtLevel
    <3>2. \A t : Cardinality(AtLevel(b, t)) = 0
      BY <3>1, FS_EmptySet
    <3>3. QED
      BY <3>2, Requests DEF LevelsOK
  <2>4. QED
    BY <1>2, <2>2, <2>3 DEF DriftOK, CountedOK
<1>4. QED
  BY <1>3, TypesStart DEF DriftInv

(* A finite set of numbers has a largest: there is no smallest subset that *)
(* has none.                                                               *)
LEMMA LargestNumber ==
    ASSUME NEW S \in SUBSET Nat, IsFiniteSet(S), S # {}
    PROVE  \E x \in S : \A y \in S : x >= y
<1> DEFINE Has(T)  == \E x \in T : \A y \in T : x >= y
           Without == {T \in SUBSET S : T # {} /\ ~Has(T)}
<1> SUFFICES ASSUME Without # {} PROVE FALSE
  BY DEF Without
<1>1. IsWellFoundedOn(StrictSubsetOrdering(S), SUBSET S)
  BY FS_StrictSubsetOrderingWellFounded, FS_FiniteSubsetsOfFinite
<1>2. PICK T \in Without : \A U \in Without : ~(<<U, T>> \in StrictSubsetOrdering(S))
  <2>1. Without \subseteq SUBSET S
    OBVIOUS
  <2> HIDE DEF Without
  <2>2. QED
    BY <1>1, <2>1, WFMin
<1>3. PICK x : x \in T
  BY <1>2
<1>4. T \in SUBSET S /\ ~Has(T) /\ x \in Nat /\ \A y \in T : y \in Nat
  BY <1>2, <1>3
<1>5. T \ {x} \in SUBSET S /\ <<T \ {x}, T>> \in StrictSubsetOrdering(S)
  BY <1>3, <1>4 DEF StrictSubsetOrdering
<1>6. T \ {x} \notin Without
  BY <1>2, <1>5
<1>7. CASE T \ {x} = {}
  BY <1>3, <1>4, <1>7
<1>8. CASE T \ {x} # {}
  <2>1. PICK z \in T \ {x} : \A y \in T \ {x} : z >= y
    BY <1>5, <1>6, <1>8
  <2>2. CASE x <= z
    <3>1. \A y \in T : z >= y
      BY <1>4, <2>1, <2>2
    <3>2. QED
      BY <1>4, <2>1, <3>1
  <2>3. CASE z < x
    <3>1. \A y \in T : x >= y
      BY <1>4, <2>1, <2>3
    <3>2. QED
      BY <1>3, <1>4, <3>1
  <2>4. QED
    BY <1>4, <2>1, <2>2, <2>3
<1>9. QED
  BY <1>7, <1>8

LEMMA HighestInReach ==
    ASSUME Types, NEW b \in Books, NumbersOK(b)
    PROVE  Highest(b) \in Nat /\ N * Highest(b) <= (2 * N - 1) * made[b]
<1> DEFINE S == {c.number : c \in CopiesOf(b)} \cup {0}
<1>1. made[b] \in Nat /\ N \in Nat /\ (N = 0 => made[b] = 0)
  <2>1. Procs # {} => N >= 1
    BY Requests
  <2>2. QED
    BY <2>1, Requests DEF NumbersOK, Types, TypeOK
<1>2. \A n \in S : n \in Nat /\ N * n <= (2 * N - 1) * made[b]
  <2>1. ASSUME NEW c \in CopiesOf(b) PROVE c.number \in Nat /\ N * c.number <= (2 * N - 1) * made[b]
    <3>1. c.number \in Nat /\ InReach(c.number, c.id) /\ c.id \in 1..made[b]
      BY DEF NumbersOK, CopiesOf, Types, TypeOK, CopyRow
    <3>2. N >= 1
      BY <1>1, <3>1
    <3>3. QED
      BY <1>1, <3>1, <3>2, FartherInReach DEF InReach
  <2>2. N * 0 <= (2 * N - 1) * made[b]
    <3>1. CASE N = 0
      BY <1>1, <3>1
    <3>2. CASE N >= 1
      BY <1>1, <3>2
    <3>3. QED
      BY <1>1, <3>1, <3>2
  <2>3. QED
    BY <2>1, <2>2
<1>3. IsFiniteSet(S)
  <2>1. IsFiniteSet(CopiesOf(b))
    BY CountFinite
  <2>2. IsFiniteSet({c.number : c \in CopiesOf(b)})
    <3> DEFINE T == {c.number : c \in CopiesOf(b)}
               number == [c \in CopiesOf(b) |-> c.number]
    <3>1. number \in Surjection(CopiesOf(b), T)
      BY DEF Surjection
    <3>2. QED
      BY <2>1, <3>1, FS_Surjection
  <2>3. QED
    BY <2>2, FS_AddElement
<1>4. Highest(b) = Max(S)
  BY DEF Highest
<1> HIDE DEF S
<1>5. Max(S) \in S
  <2>1. S # {}
    BY DEF S
  <2>2. \E x \in S : \A y \in S : x >= y
    BY <1>2, <1>3, <2>1, LargestNumber
  <2>3. QED
    BY <2>2 DEF Max
<1>6. QED
  BY <1>2, <1>4, <1>5

(* NumbersDrift: however many requests count, collide and insert among     *)
(* each other, whatever is deleted and however often they try              *)
(* (copies.go:67-91), the numbers of a book stay in reach of its copies.   *)
THEOREM NumbersDriftHolds == Spec => []NumbersDrift
<1>1. DriftInv => NumbersDrift
  <2> SUFFICES ASSUME DriftInv, NEW b \in Books, OwnPrefix(b)
               PROVE  N * (Highest(b) - Count(b)) <= (N - 1) * made[b] + N * (made[b] - Count(b))
    BY DEF NumbersDrift, N
  <2>1. Highest(b) \in Nat /\ N * Highest(b) <= (2 * N - 1) * made[b]
    BY HighestInReach DEF DriftInv, DriftOK
  <2>2. made[b] \in Nat /\ Count(b) \in Nat /\ N \in Nat
    BY CountFinite, Requests DEF DriftInv, Types, TypeOK
  <2>3. QED
    BY <2>1, <2>2
<1>2. QED
  BY <1>1, DriftStart, DriftStep, PTL DEF Spec
=============================================================================
