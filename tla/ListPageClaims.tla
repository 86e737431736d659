--------------------------- MODULE ListPageClaims ---------------------------
(* What the texts of the client and of the server say of the pages, and    *)
(* the code does not keep to.                                              *)
EXTENDS ListPage

\* A page at rest that says no row matches the current filter
\* (borrow/page.tsx:120, super-admin/(dashboard)/page.tsx:111) is right about
\* the rows nobody else touched.
EmptyMeansNoMatch ==
  Airborne = {} /\ Flying = {} /\ ~timer /\ ~error /\ shown = Blank =>
    \A r \in Rows \ excused : Listed(filter)[r] = None

\* The body of a password reset is optional, and an empty one is not an error
\* (users.go:221), nor is it for the return of a loan (docs/API.md:131): a
\* request that is answered with a refusal changed nothing.
RefusedChangesNothing ==
  \A a \in Flying : acts[a].heard \in Heard \ {None, "yes"} => ~acts[a].done

\* A finished reservation stays finished, and only a ready one is fulfilled
\* (docs/SRS.md:318), whatever page the buttons were pressed on.
FulfilledFromReady ==
  [][\A r \in Rows : page = "reservations" /\ status'[r] = "fulfilled" /\ status[r] # "fulfilled"
       => status[r] = "ready"]_vars
=============================================================================
