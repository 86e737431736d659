----------------------------- MODULE CopyCodes -----------------------------
(***************************************************************************)
(* How copies get their codes: createCopy counts the copies of its book,   *)
(* tries the number after that count, and tries again with a later one     *)
(* while the code is taken (copies.go:39-92).  A code is the first eight   *)
(* characters of the book's id and a number; PrefixOf and SchoolOf are     *)
(* given, the number is what the requests compute.                         *)
(***************************************************************************)
EXTENDS Integers, FiniteSets, FiniteSetsExt

CONSTANTS
    Procs,       \* requests that may run at the same time
    Books,
    PrefixOf,    \* the first eight characters of a book's id
    SchoolOf,    \* the school of a book
    None,
    Attempts,    \* 5 in copies.go:67
    MaxMade      \* bound: copies ever created

ASSUME CodesAssumption ==
    /\ IsFiniteSet(Procs)
    /\ Attempts \in Nat \ {0}
    /\ MaxMade \in Nat
    /\ None \notin Books

VARIABLES
    copies,      \* rows of book_copies: [id, book, number], id the rank among
                 \* the copies ever made of the book
    made,        \* ghost: copies created so far, for each book
    created,     \* ghost: copies created so far, of all books
    req          \* req[p]: what request p knows, and (ghost) how many copies its
                 \* book had had when it last counted
vars == <<copies, made, created, req>>

CopyRow == [id : 1..MaxMade, book : Books, number : Nat \ {0}]
Request == [step : {"idle", "count", "insert"}, book : Books \cup {None},
            attempt : 0..Attempts, seq : Nat, from : Nat]
Idle    == [step |-> "idle", book |-> None, attempt |-> 0, seq |-> 0, from |-> 0]

TypeOK ==
    /\ copies \subseteq CopyRow
    /\ made \in [Books -> 0..MaxMade] /\ created \in 0..MaxMade
    /\ req \in [Procs -> Request]

Init ==
    /\ copies = {} /\ made = [b \in Books |-> 0] /\ created = 0
    /\ req = [p \in Procs |-> Idle]
-----------------------------------------------------------------------------
CopiesOf(b)     == {c \in copies : c.book = b}
SchoolCopies(b)  == {c \in copies : SchoolOf[c.book] = SchoolOf[b]}
Creating        == {p \in Procs : req[p].step # "idle"}

(* SELECT COUNT over the book's rows (mutant: over the school's rows). *)
CountSchool(b) == Cardinality(SchoolCopies(b))
Count(b)       == Cardinality(CopiesOf(b))

(* The unique index on school and code. *)
Taken(b, n) == \E c \in SchoolCopies(b) : PrefixOf[c.book] = PrefixOf[b] /\ c.number = n

(* POST /books/{id}/copies.  The bound counts requests under way as made. *)
Start(p, b) ==
    /\ req[p].step = "idle"
    /\ created + Cardinality(Creating) < MaxMade
    /\ req' = [req EXCEPT ![p] = [Idle EXCEPT !.step = "count", !.book = b]]
    /\ UNCHANGED <<copies, made, created>>

CountCopies(p) ==
    /\ req[p].step = "count"
    /\ req' = [req EXCEPT ![p].step = "insert", ![p].seq = Count(req[p].book),
                         ![p].from = made[req[p].book]]
    /\ UNCHANGED <<copies, made, created>>

Number(p) == req[p].seq + 1 + req[p].attempt

Insert(p) ==
    /\ req[p].step = "insert"
    /\ ~Taken(req[p].book, Number(p))
    /\ made' = [made EXCEPT ![req[p].book] = @ + 1]
    /\ created' = created + 1
    /\ copies' = copies \cup
         {[id |-> made[req[p].book] + 1, book |-> req[p].book, number |-> Number(p)]}
    /\ req' = [req EXCEPT ![p] = Idle]

(* The next round of the loop, or 409 when there is none (mutants: the     *)
(* loop forgets to count its rounds; it ends a round early).               *)
RetryLess(p) ==
    req' = [req EXCEPT ![p] =
        IF @.attempt + 2 < Attempts
        THEN [@ EXCEPT !.step = "count", !.attempt = req[p].attempt + 1] ELSE Idle]
RetrySame(p) ==
    req' = [req EXCEPT ![p] = [@ EXCEPT !.step = "count"]]
Retry(p) ==
    req' = [req EXCEPT ![p] =
        IF @.attempt + 1 < Attempts
        THEN [@ EXCEPT !.step = "count", !.attempt = req[p].attempt + 1] ELSE Idle]

Collide(p) ==
    /\ req[p].step = "insert"
    /\ Taken(req[p].book, Number(p))
    /\ Retry(p)
    /\ UNCHANGED <<copies, made, created>>

(* DELETE /copies/{id} of a copy that is not lent. *)
DeleteCopy ==
    /\ \E c \in copies : copies' = copies \ {c}
    /\ UNCHANGED <<made, created, req>>

Proceed(p) == CountCopies(p) \/ Insert(p) \/ Collide(p)
Next == (\E p \in Procs : Proceed(p) \/ \E b \in Books : Start(p, b)) \/ DeleteCopy
Spec == Init /\ [][Next]_vars
FairSpec == Spec /\ \A p \in Procs : WF_vars(Proceed(p))
-----------------------------------------------------------------------------
(* The last number in use; books whose prefix no other book shares. *)
Highest(b) == Max({c.number : c \in CopiesOf(b)} \cup {0})
OwnPrefix(b) == \A a \in Books \ {b} :
                    PrefixOf[a] = PrefixOf[b] => SchoolOf[a] # SchoolOf[b]

(* How far numbers run ahead of the count that createCopy starts from.  A  *)
(* request that loses a race skips a number for good (it counts the winner *)
(* and adds its attempt as well), so of n creations that overlap all but   *)
(* one may leave a hole, and every deletion leaves one more.               *)
NumbersDrift ==
    \A b \in Books : OwnPrefix(b) =>
        Cardinality(Procs) * (Highest(b) - Count(b))
            <= (Cardinality(Procs) - 1) * made[b]
               + Cardinality(Procs) * (made[b] - Count(b))

(* Every createCopy is answered: the loop ends, whatever it collides with. *)
CreationEnds == \A p \in Procs : req[p].step # "idle" ~> req[p].step = "idle"

(* What the comment at copies.go:64-65 says: the loop is for the race of   *)
(* two staff.  A request that meets nobody finds a free number in time.    *)
LoneCreationWorks ==
    \A b \in Books : \E k \in 0..(Attempts - 1) : ~Taken(b, Count(b) + 1 + k)
=============================================================================
