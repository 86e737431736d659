----------------------------- MODULE MCListPage -----------------------------
(* Small instances of ListPage. *)
EXTENDS ListPageClaims

One == CHOOSE r \in Rows : TRUE

\* Two rows where buttons of two rows meet in one busyId, one row elsewhere.
HeldRows == [p \in Open |-> IF p = "reservations" THEN Rows ELSE {One}]

\* Two requests of a page that meet, but for the pages with most states.
ActsOf == [p \in Open |-> IF p \in {"borrow", "users", "schools"} THEN 1 ELSE 2]

\* Of roles that a page does not tell apart, one.
ActingRoles ==
  [p \in Open |-> CASE p \in {"borrow", "fines", "overview"} -> {"librarian"}
                   [] p \in {"reservations", "book"} -> {"librarian", "student"}
                   [] p \in {"books", "own_loans"} -> {"student"}
                   [] OTHER -> {"admin", "parent", "super_admin"}]
=============================================================================
