------------------------- MODULE CirculationClaims -------------------------
(***************************************************************************)
(* Statements about the desk beyond its invariants: the abstract desk it   *)
(* implements, and the rules of docs/API.md and docs/SRS.md as steps or    *)
(* states of the model.  Some of them hold of the code when requests do    *)
(* not overlap, some do not hold at all; the runs say which.               *)
(***************************************************************************)
EXTENDS Circulation

(* The desk, seen as who holds which copy: concurrent requests amount to   *)
(* lending, extending once and taking back, one at a time.                 *)
Holder == [c \in Copies |-> IF OpenOn(c) = {} THEN None
                            ELSE loans[CHOOSE l \in OpenOn(c) : TRUE].user]
Extended == {c \in Copies : \E l \in OpenOn(c) : loans[l].renewed > 0}
Desk == INSTANCE LendingDesk WITH Nobody <- None, holder <- Holder, extended <- Extended
ImplementsDesk == Desk!Spec

(* updateCopy sets the status it is sent and looks at no loan, so who has  *)
(* which copy also rests with the staff.  Careful staff mark a copy        *)
(* available only if it is not lent, and borrowed only if it is; they may  *)
(* write any other status at any time.                                     *)
CarefulStaff ==
    \A p \in Procs, c \in Copies : /\ UpdateCopy(p, c, "available") => OpenOn(c) = {}
                                   /\ UpdateCopy(p, c, "borrowed") => OpenOn(c) # {}

CarefulSpec == Init /\ [][Next /\ CarefulStaff]_vars

NewLoans == DOMAIN loans' \ DOMAIN loans
NewResv  == DOMAIN resv' \ DOMAIN resv

(* docs/API.md:139-140.  A loan is granted to an active reader below the   *)
(* limit who owes nothing, as the accounts stand when it is granted.       *)
LoanRules ==
    [][\A l \in NewLoans : LET u == loans'[l].user
                           IN  /\ account[u].status = "active"
                               /\ Cardinality(OpenLoans(u)) < account[u].max
                               /\ Unpaid(u) = {}]_vars

(* docs/SRS.md FR-21.  A reservation is taken only when no copy of the     *)
(* book is available, and its reader has no live one for the book.         *)
ReserveRules ==
    [][\A r \in NewResv :
          /\ \A c \in Copies : BookOf[c] = resv'[r].book => copyStatus[c] # "available"
          /\ ~ \E s \in DOMAIN resv : /\ resv[s].book = resv'[r].book
                                      /\ resv[s].user = resv'[r].user
                                      /\ Live(s)]_vars

(* docs/API.md:139.  A reader never has more open loans than max_borrow.   *)
WithinLimit == \A u \in Users : Cardinality(OpenLoans(u)) <= account[u].max

(* fines.go:83.  A fine that was settled is refused, so its status stays.  *)
SettledOnce ==
    [][\A f \in DOMAIN fines : fines[f].status # "unpaid"
                                  => fines'[f].status = fines[f].status]_vars
=============================================================================
