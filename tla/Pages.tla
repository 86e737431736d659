------------------------------- MODULE Pages -------------------------------
(* The pages of the client, as tables: what a page lists under each of its *)
(* filters, which requests its buttons and forms offer on a row of which   *)
(* status, and, beside it, what the handler of the request accepts and     *)
(* does.  A row is a loan, a fine, a reservation, an account, a school, a  *)
(* book, a copy or a child; only its status is kept.  ListPage is the      *)
(* machine that runs any of these pages.                                   *)
None    == "none"
All     == "all"
Staff   == {"admin", "librarian"}
Readers == {"teacher", "student"}
Tenants == Staff \cup Readers \cup {"parent"}

\* A button of a row: the shown statuses it is drawn on, the statuses the
\* handler takes, and those it leaves ({}: the status stays as it is).
Button(name, offered, takes, gives) ==
  [name |-> name, on |-> "row", offered |-> offered, absent |-> {},
   to |-> Staff, by |-> Staff,       \* roles the button is drawn for, roles the route lets in
   takes |-> takes, gives |-> gives,
   form  |-> FALSE,                  \* opens a form, whose submission is the request
   busy  |-> TRUE,                   \* disabled while busyId is this row
   reload |-> TRUE,                  \* success calls load()
   puts   |-> FALSE,                 \* ... or puts back the rows it was drawn with
   picky |-> FALSE,                  \* refused also by a rule about what is not a row's status
   split |-> FALSE,                  \* the handler reads the status first and writes later
   garbled |-> FALSE,                \* the handler cannot use what the page sends
   anyway  |-> FALSE]                \* ... says so, and goes on

\* A form that makes a row, and a button about the book as a whole that is
\* drawn while no copy has a status of "absent".
Maker(name, gives)  == [Button(name, {}, {None}, gives) EXCEPT !.on = "new", !.form = TRUE, !.busy = FALSE, !.picky = TRUE]
OnBook(name, absent) == [Button(name, {}, {}, {}) EXCEPT !.on = "book", !.absent = absent, !.busy = FALSE, !.reload = FALSE]
FormOf(op)  == [op EXCEPT !.form = TRUE, !.busy = FALSE]
For(op, to, by) == [op EXCEPT !.to = to, !.by = by]

\* Fields a form sends and fields its handler will not do without.
Understood(op, sends, needs) == [op EXCEPT !.garbled = ~(needs \subseteq sends)]
-----------------------------------------------------------------------------
(* borrow: loans, by tabs.  "late" is a loan out past its due time, which  *)
(* listBorrow still files under status borrowed.                           *)
LoanStates  == {"borrowed", "late", "returned"}
BorrowGate  == Staff
BorrowLists == [active |-> {"borrowed", "late"}, overdue |-> {"late"}, all |-> LoanStates]
BorrowView  == {"borrowed", "late"}                      \* !returned: both buttons
\* POSTs no body: decodeJSON answers 400, returnBorrow drops its FALSE, goes on
\* and commits.
BorrowReturn ==
  [Button("return", BorrowView, {"borrowed", "late"}, {"returned"}) EXCEPT !.garbled = TRUE, !.anyway = TRUE]
\* Drawn on a loan that is shown as late, which renewBorrow refuses; for a loan
\* in time it has rules of its own (renewed before, reserved by someone).
BorrowRenew  == [For(Button("renew", BorrowView, {"borrowed"}, {"borrowed"}), Staff, Tenants) EXCEPT !.picky = TRUE]
NewBorrow    == Maker("new_loan", {"borrowed", "late"})  \* due_at is any typed day
BorrowDrift  == {<<"borrowed", "late">>, <<None, "borrowed">>, <<"borrowed", "returned">>, <<"late", "returned">>}

(* fines: pay and waive look for an unpaid fine and write later.           *)
FineStates == {"unpaid", "paid", "waived"}
FinesGate  == Staff
FineLists  == [unpaid |-> {"unpaid"}, paid |-> {"paid"}, waived |-> {"waived"}, all |-> FineStates]
FineView   == {"unpaid"}                                 \* (mutant: FineStates)
\* (mutant: the success does not load again)
FinePayOnly == [Button("pay", FineView, {"unpaid"}, {"paid"}) EXCEPT !.split = TRUE, !.reload = FALSE]
FinePay    == [Button("pay", FineView, {"unpaid"}, {"paid"}) EXCEPT !.split = TRUE]
\* (mutant: a status the column does not have)
FineCancel == [Button("waive", FineView, {"unpaid"}, {"cancelled"}) EXCEPT !.split = TRUE]
FineWaive  == [Button("waive", FineView, {"unpaid"}, {"waived"}) EXCEPT !.split = TRUE]
FineDrift  == {<<None, "unpaid">>, <<"unpaid", "paid">>, <<"unpaid", "waived">>}

(* reservations: staff see all of them, readers their own; no gate.        *)
ResvStates  == {"pending", "ready", "fulfilled", "cancelled"}
ResvLists   == [all |-> ResvStates]
ResvButtons ==
  { For(Button("ready", {"pending"}, ResvStates, {"ready"}), Staff, Tenants),
    For(Button("fulfil", {"ready"}, ResvStates, {"fulfilled"}), Staff, Tenants),
    For(Button("cancel", {"pending", "ready"}, ResvStates, {"cancelled"}), Tenants, Tenants) }
ResvDrift  == {<<None, "pending">>, <<"pending", "ready">>, <<"pending", "cancelled">>, <<"ready", "cancelled">>}

(* users: accounts by role.  The search box filters like the role does and *)
(* is left out.  The create form sends "name" where createUser wants       *)
(* "full_name", and the reset button sends no body: decodeJSON answers 400 *)
(* to it while resetPassword goes on and replaces the password.            *)
UserStates == {"student", "parent"}
UsersGate  == {"admin"}
UserLists  == [all |-> UserStates, student |-> {"student"}]
UserFields == {"name", "email", "role", "class_name", "phone", "password"}
CreateUserFields == {"email", "password", "full_name", "role"}
UserForms  ==
  { For(Understood(Maker("new_user", UserStates), UserFields, CreateUserFields), UsersGate, Staff),
    For(FormOf(Button("edit_user", UserStates, UserStates, UserStates)), UsersGate, UsersGate) }
LinkParent == [For(FormOf(Button("link", {"student"}, {"student"}, {})), UsersGate, UsersGate) EXCEPT !.picky = TRUE]
ResetPassword ==
  [For(Button("reset", UserStates, UserStates, {}), UsersGate, UsersGate)
     EXCEPT !.reload = FALSE, !.garbled = TRUE, !.anyway = TRUE]
UserDrift == {<<None, "student">>, <<"student", "parent">>, <<"parent", "student">>}

(* schools, for the super administrator: transitionSchool reads the status *)
(* and updates it by id afterwards.  Of the filters of one status two are  *)
(* kept, as those for rejected and suspended schools work like them.       *)
SchoolStates  == {"pending", "approved", "rejected", "suspended"}
SchoolLists   == [pending |-> {"pending"}, approved |-> {"approved"}, all |-> SchoolStates]
Transition(name, offered, from, to) ==
  [For(Button(name, offered, from, {to}), {"super_admin"}, {"super_admin"}) EXCEPT !.split = TRUE]
SchoolApprove    == Transition("approve", {"pending"}, {"pending", "rejected", "suspended"}, "approved")
SchoolSuspend    == Transition("suspend", {"approved"}, {"approved"}, "suspended")
SchoolReactivate == Transition("reactivate", {"suspended"}, {"suspended"}, "approved")
\* The button of the rejection form is disabled by busyId as well.
SchoolReject     == [Transition("reject", {"pending"}, {"pending"}, "rejected") EXCEPT !.form = TRUE]
SchoolDrift == {<<None, "pending">>, <<"pending", "approved">>, <<"pending", "rejected">>,
                <<"approved", "suspended">>, <<"suspended", "approved">>}

(* books: the catalogue, by publication type.  "textbook" is a choice the  *)
(* page offers and the column's enumeration does not have.                 *)
BookStates == {"book", "magazine"}
BookLists  == [all |-> BookStates, magazine |-> {"magazine"}, textbook |-> {}]
BookTypes  == {"all", "magazine"}                        \* filters the database understands
BookDrift  == {<<None, "book">>, <<"book", "magazine">>, <<"book", None>>}

(* book: one book and its copies.                                          *)
CopyStates == {"available", "borrowed", "lost"}
CopyLists  == [all |-> CopyStates]
LendCopy   == [For(FormOf(Button("lend", {"available"}, {"available"}, {"borrowed"})), {"librarian"}, Staff)
                 EXCEPT !.picky = TRUE]
AddCopy    == Maker("new_copy", {"available"})
EditBook   == [OnBook("edit_book", {}) EXCEPT !.puts = TRUE]
Reserve    == [For(OnBook("reserve", {"available"}), Readers, Readers) EXCEPT !.picky = TRUE]
CopyDrift  == {<<None, "available">>, <<"available", "borrowed">>, <<"borrowed", "available">>,
               <<"available", "lost">>, <<"available", None>>}

(* home: the overview of the staff, a reader's own loans, a parent's       *)
(* children; none of them changes anything.                                *)
OverviewLists == [all |-> {"borrowed", "late"}]
OwnLists      == [all |-> {"borrowed", "late"}]
ChildStates   == {"holding", "clear"}
ChildLists    == [all |-> ChildStates]
ChildDrift    == {<<"clear", "holding">>, <<"holding", "clear">>, <<None, "clear">>}
-----------------------------------------------------------------------------
\* A page whose filters are applied at once, drawn under its own header.
Listing(roles, by, states, lists, first, ops, drift) ==
  [roles |-> roles, by |-> by,       \* roles that get to the page, roles the listing's route lets in
   states |-> states, lists |-> lists, understood |-> DOMAIN lists, first |-> first,
   ops |-> [n \in {o.name : o \in ops} |-> CHOOSE o \in ops : o.name = n],
   drift |-> drift,                  \* what others and time do to a row
   delayed |-> FALSE,                \* a change of filter loads 300 ms later
   whole   |-> FALSE]                \* loading or an error replaces the whole page
Delayed(p) == [p EXCEPT !.delayed = TRUE]
Whole(p)   == [p EXCEPT !.whole = TRUE]

BorrowPage == Listing(BorrowGate, Tenants, LoanStates, BorrowLists, "active",
                      {BorrowReturn, BorrowRenew, NewBorrow}, BorrowDrift)
FinesPage  == Listing(FinesGate, Tenants, FineStates, FineLists, "unpaid", {FinePay, FineWaive}, FineDrift)
ResvPage   == Listing(Tenants, Tenants, ResvStates, ResvLists, All, ResvButtons, ResvDrift)
UsersPage  == Delayed(Listing(UsersGate, Staff, UserStates, UserLists, All,
                              UserForms \cup {LinkParent, ResetPassword}, UserDrift))
SchoolsPage == Delayed(Listing({"super_admin"}, {"super_admin"}, SchoolStates, SchoolLists, "pending",
                 {SchoolApprove, SchoolSuspend, SchoolReactivate, SchoolReject}, SchoolDrift))
BooksPage  == [Delayed(Listing(Tenants, Tenants, BookStates, BookLists, All, {}, BookDrift))
                 EXCEPT !.understood = BookTypes]
BookPage   == Whole(Listing(Tenants, Tenants, CopyStates, CopyLists, All,
                            {LendCopy, AddCopy, EditBook, Reserve}, CopyDrift))
Overview   == Whole(Listing(Staff, Staff, LoanStates, OverviewLists, All, {}, BorrowDrift))
OwnLoans   == Listing(Readers, Tenants, LoanStates, OwnLists, All, {}, BorrowDrift)
Children   == Listing({"parent"}, Tenants, ChildStates, ChildLists, All, {}, ChildDrift)

Tables == [borrow |-> BorrowPage, fines |-> FinesPage, reservations |-> ResvPage, users |-> UsersPage,
           schools |-> SchoolsPage, books |-> BooksPage, book |-> BookPage,
           overview |-> Overview, own_loans |-> OwnLoans, children |-> Children]
Pages == DOMAIN Tables

\* Buttons drawn on a status that their handler refuses, and requests their
\* handler answers 400 whatever they are about.
RefusedAsShown == {<<"borrow", "renew", "late">>}
Misunderstood  == {<<"borrow", "return">>, <<"users", "new_user">>, <<"users", "reset">>}

\* DashboardPage shows one of three pages, by role.
Home(r) == IF r \in Staff THEN "overview" ELSE IF r = "parent" THEN "children" ELSE "own_loans"

\* What the menu of a role leads to; the catalogue leads on to each book.
Menu(r) ==
  IF r = "super_admin" THEN {"schools"} ELSE
  {Home(r), "books", "book"} \cup (IF r \in Staff THEN {"borrow", "fines"} ELSE {})
    \cup (IF r \in Staff \cup Readers THEN {"reservations"} ELSE {})
    \cup (IF r = "admin" THEN {"users"} ELSE {})

Roles == Tenants \cup {"super_admin"}
=============================================================================
