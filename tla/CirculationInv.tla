-------------------------- MODULE CirculationInv --------------------------
(***************************************************************************)
(* The inductive strengthening of the desk's invariants: what the rows     *)
(* satisfy, what each request in flight knows of the rows it has locked,   *)
(* and that no two requests hold the same row.                             *)
(***************************************************************************)
EXTENDS CirculationClaims

(* Rows: who holds what stays within one school, every loan has its copy,  *)
(* a loan is renewed at most once.                                         *)
RowsOK ==
    /\ \A l \in DOMAIN loans : /\ Exists(loans[l].copy)
                               /\ SameSchool(loans[l].user, loans[l].copy)
                               /\ loans[l].status \in {"borrowed", "returned"}
                               /\ loans[l].renewed <= 1
    /\ \A r \in DOMAIN resv : UserSchool[resv[r].user] = BookSchool[resv[r].book]

(* Locals: what request p read of a row it has locked is still true.  A    *)
(* createBorrow holds an available copy; a returnBorrow an open record; a  *)
(* renewBorrow an open record not yet renewed.                             *)
BorrowOK(p) ==
    /\ req[p].copy \in Copies /\ req[p].user \in Users
    /\ copyStatus[req[p].copy] = "available"
    /\ pc[p] # "borrow_user" => SameSchool(req[p].user, req[p].copy)

ReturnOK(p) ==
    /\ req[p].row \in DOMAIN loans /\ req[p].to \in Outcomes
    /\ loans[req[p].row].status = "borrowed"
    /\ req[p].copy = loans[req[p].row].copy /\ req[p].user = loans[req[p].row].user
    /\ req[p].due = loans[req[p].row].due

RenewOK(p) ==
    /\ req[p].row \in DOMAIN loans
    /\ loans[req[p].row].status = "borrowed" /\ loans[req[p].row].renewed = 0
    /\ req[p].due = loans[req[p].row].due

ReserveOK(p) ==
    /\ req[p].user \in Users /\ req[p].book \in Books
    /\ UserSchool[req[p].user] = BookSchool[req[p].book]

ReqOK(p) ==
    /\ pc[p] \in BorrowSteps => BorrowOK(p)
    /\ pc[p] \in ReturnSteps => ReturnOK(p)
    /\ pc[p] \in RenewSteps => RenewOK(p)
    /\ pc[p] \in {"reserve_dup", "reserve_insert"} => ReserveOK(p)
    /\ pc[p] = "settle_update" => req[p].to \in FineStatus
    /\ pc[p] \in {"delete_row", "delete_check"} => req[p].copy \in Copies

(* Locks: a copy row and a record are locked by one request each. *)
CopyLockers == {p \in Procs : pc[p] \in CopyHolding}
LoanLockers == {p \in Procs : pc[p] \in ReturnSteps \cup RenewSteps}
LocksOK ==
    /\ \A p, q \in CopyLockers : req[p].copy = req[q].copy => p = q
    /\ \A p, q \in LoanLockers : req[p].row = req[q].row => p = q

(* The copies and their open loans (of careful staff: a PATCH looks at no  *)
(* loan).                                                                  *)
ShelfInv ==
    /\ LoanExclusive
    /\ \A c \in Copies : copyStatus[c] = "available" => OpenOn(c) = {}

IInv == TypeOK /\ RowsOK /\ LocksOK /\ \A p \in Procs : ReqOK(p)
=============================================================================
