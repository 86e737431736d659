--------------------------- MODULE ListPageProofs ---------------------------
(* Theorems about ListPage, for any set of its pages, any number of rows   *)
(* and of requests on their way.  The tables are looked at once: what the  *)
(* machine needs of them is PageOK.                                        *)
EXTENDS ListPage, TLAPS

\* What a button or form of page p must be like: it leaves statuses of its page,
\* reloads if it leaves any, is about a row if it disables one or looks before
\* it acts, is drawn for none but those the route lets in, and on none but the
\* statuses the handler takes, where nothing else is said.
OpOK(o, S, p) ==
  /\ o.gives \subseteq S
  /\ o.gives = {} \/ o.reload
  /\ o.busy /\ ~o.form => o.on = "row"
  /\ o.split => o.on = "row"
  /\ o.on \in {"row", "new", "book"}
  /\ o.to \subseteq o.by
  /\ o.on = "row" => o.absent = {} /\ \A s \in o.offered \ o.takes : <<p, o.name, s>> \in RefusedAsShown
  /\ o.garbled => <<p, o.name>> \in Misunderstood
  /\ o.name # None

PageOK(P, p) ==
  /\ P.first \in DOMAIN P.lists /\ P.delayed \in BOOLEAN
  /\ P.roles \subseteq P.by
  /\ \A n \in DOMAIN P.ops : OpOK(P.ops[n], P.states, p) /\ P.ops[n].name = n /\ n # None

\* A listing whose buttons are as they must be is, delayed or whole as well.
LEMMA ListingOK ==
  ASSUME NEW roles, NEW by, NEW states, NEW lists, NEW first, NEW ops, NEW drift, NEW q, NEW L,
         L = Listing(roles, by, states, lists, first, ops, drift),
         first \in DOMAIN lists, roles \subseteq by, \A o \in ops : OpOK(o, states, q)
  PROVE  /\ PageOK(L, q) /\ L.roles = roles
         /\ PageOK(Delayed(L), q) /\ Delayed(L).roles = roles
         /\ PageOK(Whole(L), q) /\ Whole(L).roles = roles
<1> DEFINE F == [n \in {o.name : o \in ops} |-> CHOOSE o \in ops : o.name = n]
<1>1. \A n \in DOMAIN F : OpOK(F[n], states, q) /\ F[n].name = n /\ n # None
  <2> SUFFICES ASSUME NEW n \in {o.name : o \in ops}
               PROVE  LET o == CHOOSE x \in ops : x.name = n IN OpOK(o, states, q) /\ o.name = n /\ n # None
    OBVIOUS
  <2>1. PICK o \in ops : o.name = n
    OBVIOUS
  <2>2. (CHOOSE x \in ops : x.name = n) \in ops
    BY <2>1
  <2> QED BY <2>1, <2>2 DEF OpOK
<1> HIDE DEF F
<1>2. /\ L.first = first /\ L.lists = lists /\ L.delayed = FALSE /\ L.states = states
      /\ L.roles = roles /\ L.by = by /\ L.ops = F
  BY DEF Listing, F
<1>3. LET D == Delayed(L) IN
      /\ D.first = first /\ D.lists = lists /\ D.delayed = TRUE /\ D.states = states
      /\ D.roles = roles /\ D.by = by /\ D.ops = F
  BY DEF Listing, Delayed, F
<1>4. LET D == Whole(L) IN
      /\ D.first = first /\ D.lists = lists /\ D.delayed = FALSE /\ D.states = states
      /\ D.roles = roles /\ D.by = by /\ D.ops = F
  BY DEF Listing, Whole, F
<1>6. ASSUME NEW p, p.first = first, p.lists = lists, p.delayed \in BOOLEAN, p.states = states,
             p.roles = roles, p.by = by, p.ops = F
      PROVE  PageOK(p, q)
  BY <1>1, <1>6 DEF PageOK
<1>7. PageOK(L, q) /\ PageOK(Delayed(L), q) /\ PageOK(Whole(L), q)
  BY <1>2, <1>3, <1>4, <1>6
<1> QED BY <1>2, <1>3, <1>4, <1>7

\* What each page has to offer is as it must be.
Good(P, p, roles) == PageOK(P, p) /\ P.roles = roles

LEMMA BorrowOK == Good(BorrowPage, "borrow", Staff)
<1>1. OpOK(BorrowReturn, LoanStates, "borrow")
  BY DEF OpOK, BorrowReturn, BorrowView, LoanStates, Button, None, Misunderstood
<1>2. OpOK(BorrowRenew, LoanStates, "borrow")
  BY DEF OpOK, BorrowRenew, BorrowView, LoanStates, Button, For, Staff, Readers, Tenants, None, RefusedAsShown
<1>3. OpOK(NewBorrow, LoanStates, "borrow")
  BY DEF OpOK, NewBorrow, LoanStates, Button, Maker, None
<1>4. "active" \in DOMAIN BorrowLists /\ Staff \subseteq Tenants
  BY DEF BorrowLists, Tenants
<1> QED BY <1>1, <1>2, <1>3, <1>4, ListingOK DEF BorrowPage, BorrowGate, Good

LEMMA FinesOK == Good(FinesPage, "fines", Staff)
<1>1. OpOK(FinePay, FineStates, "fines") /\ OpOK(FineWaive, FineStates, "fines")
  BY DEF OpOK, FinePay, FineWaive, FineView, FineStates, Button, None
<1>2. "unpaid" \in DOMAIN FineLists /\ Staff \subseteq Tenants
  BY DEF FineLists, Tenants
<1> QED BY <1>1, <1>2, ListingOK DEF FinesPage, FinesGate, Good

LEMMA ResvOK == Good(ResvPage, "reservations", Tenants)
<1>1. ASSUME NEW name, name # None, NEW offered, NEW to, NEW t \in ResvStates,
             offered \subseteq ResvStates, to \subseteq Tenants
      PROVE  OpOK(For(Button(name, offered, ResvStates, {t}), to, Tenants), ResvStates, "reservations")
  BY <1>1 DEF OpOK, Button, For
<1>3. \A o \in ResvButtons : OpOK(o, ResvStates, "reservations")
  <2>1. "ready" # None /\ "fulfil" # None /\ "cancel" # None
    BY DEF None
  <2>2. Staff \subseteq Tenants /\ {"pending"} \subseteq ResvStates /\ {"ready"} \subseteq ResvStates
        /\ {"pending", "ready"} \subseteq ResvStates
    BY DEF Tenants, ResvStates
  <2>3. "ready" \in ResvStates /\ "fulfilled" \in ResvStates /\ "cancelled" \in ResvStates
    BY DEF ResvStates
  <2> QED BY <2>1, <2>2, <2>3, <1>1 DEF ResvButtons
<1>2. All \in DOMAIN ResvLists
  BY DEF ResvLists, All
<1> QED BY <1>2, <1>3, ListingOK DEF ResvPage, Good

LEMMA UsersOK == Good(UsersPage, "users", {"admin"})
<1>1. \A o \in UserForms : OpOK(o, UserStates, "users")
  <2>1. OpOK(For(Understood(Maker("new_user", UserStates), UserFields, CreateUserFields), UsersGate, Staff), UserStates, "users")
    BY DEF OpOK, UserStates, Understood, Maker, Button, For, UsersGate, Staff, None, Misunderstood
  <2>2. OpOK(For(FormOf(Button("edit_user", UserStates, UserStates, UserStates)), UsersGate, UsersGate), UserStates, "users")
    BY DEF OpOK, UserStates, FormOf, Button, For, UsersGate, None
  <2> QED BY <2>1, <2>2 DEF UserForms
<1>2. OpOK(LinkParent, UserStates, "users") /\ OpOK(ResetPassword, UserStates, "users")
  BY DEF OpOK, LinkParent, ResetPassword, UserStates, FormOf, Button, For, UsersGate, None, Misunderstood
<1>3. All \in DOMAIN UserLists /\ UsersGate \subseteq Staff
  BY DEF UserLists, All, UsersGate, Staff
<1> DEFINE ops == UserForms \cup {LinkParent, ResetPassword}
           L == Listing(UsersGate, Staff, UserStates, UserLists, All, ops, UserDrift)
<1>4. \A o \in ops : OpOK(o, UserStates, "users")
  BY <1>1, <1>2
<1>5. L = Listing(UsersGate, Staff, UserStates, UserLists, All, ops, UserDrift)
  OBVIOUS
<1>6. UsersPage = Delayed(L)
  BY DEF UsersPage
<1> HIDE DEF ops, L
<1>7. PageOK(Delayed(L), "users") /\ Delayed(L).roles = UsersGate
  BY <1>3, <1>4, <1>5, ListingOK
<1> QED BY <1>6, <1>7 DEF UsersGate, Good

LEMMA SchoolsOK == Good(SchoolsPage, "schools", {"super_admin"})
<1>1. OpOK(SchoolApprove, SchoolStates, "schools") /\ OpOK(SchoolSuspend, SchoolStates, "schools")
  BY DEF OpOK, SchoolApprove, SchoolSuspend, SchoolStates, Transition, Button, For, None
<1>2. OpOK(SchoolReactivate, SchoolStates, "schools") /\ OpOK(SchoolReject, SchoolStates, "schools")
  BY DEF OpOK, SchoolReactivate, SchoolReject, SchoolStates, Transition, Button, For, None
<1>3. "pending" \in DOMAIN SchoolLists
  BY DEF SchoolLists
<1> DEFINE ops == {SchoolApprove, SchoolSuspend, SchoolReactivate, SchoolReject}
           L == Listing({"super_admin"}, {"super_admin"}, SchoolStates, SchoolLists, "pending", ops, SchoolDrift)
<1>4. \A o \in ops : OpOK(o, SchoolStates, "schools")
  BY <1>1, <1>2
<1>5. L = Listing({"super_admin"}, {"super_admin"}, SchoolStates, SchoolLists, "pending", ops, SchoolDrift)
  OBVIOUS
<1>6. SchoolsPage = Delayed(L)
  BY DEF SchoolsPage
<1> HIDE DEF ops, L
<1>7. PageOK(Delayed(L), "schools") /\ Delayed(L).roles = {"super_admin"}
  BY <1>3, <1>4, <1>5, ListingOK
<1> QED BY <1>6, <1>7 DEF Good

LEMMA BooksOK == Good(BooksPage, "books", Tenants)
<1>1. All \in DOMAIN BookLists /\ {o.name : o \in {}} = {}
  BY DEF BookLists, All
<1>2. /\ BooksPage.first = All /\ BooksPage.lists = BookLists /\ BooksPage.delayed = TRUE
      /\ BooksPage.roles = Tenants /\ BooksPage.by = Tenants /\ DOMAIN BooksPage.ops = {}
  BY <1>1 DEF BooksPage, Delayed, Listing
<1> QED BY <1>1, <1>2 DEF Good, PageOK

LEMMA BookOK == Good(BookPage, "book", Tenants)
<1>1. OpOK(LendCopy, CopyStates, "book") /\ OpOK(AddCopy, CopyStates, "book")
  BY DEF OpOK, LendCopy, AddCopy, CopyStates, FormOf, Maker, Button, For, Staff, None
<1>2. OpOK(EditBook, CopyStates, "book") /\ OpOK(Reserve, CopyStates, "book")
  BY DEF OpOK, EditBook, Reserve, CopyStates, OnBook, Button, For, None
<1>3. All \in DOMAIN CopyLists
  BY DEF CopyLists, All
<1> QED BY <1>1, <1>2, <1>3, ListingOK DEF BookPage, Good

LEMMA HomesOK == Good(Overview, "overview", Staff) /\ Good(OwnLoans, "own_loans", Readers) /\ Good(Children, "children", {"parent"})
<1>1. All \in DOMAIN OverviewLists /\ All \in DOMAIN OwnLists /\ All \in DOMAIN ChildLists
  BY DEF OverviewLists, OwnLists, ChildLists, All
<1>2. Readers \subseteq Tenants /\ {"parent"} \subseteq Tenants
  BY DEF Tenants
<1> QED BY <1>1, <1>2, ListingOK DEF Overview, OwnLoans, Children, Good

\* Every page is as it must be, and the menu leads no role to a page that is
\* closed to it.
LEMMA TableOK ==
  ASSUME NEW p \in DOMAIN Tables
  PROVE  PageOK(Tables[p], p) /\ \A r \in Roles : p \in Menu(r) => r \in Tables[p].roles
<1>1. p \in {"borrow", "fines", "reservations", "users", "schools", "books", "book",
             "overview", "own_loans", "children"}
  BY DEF Tables
<1>2. /\ Tables["borrow"] = BorrowPage /\ Tables["fines"] = FinesPage
      /\ Tables["reservations"] = ResvPage /\ Tables["users"] = UsersPage
      /\ Tables["schools"] = SchoolsPage /\ Tables["books"] = BooksPage
      /\ Tables["book"] = BookPage /\ Tables["overview"] = Overview
      /\ Tables["own_loans"] = OwnLoans /\ Tables["children"] = Children
  BY DEF Tables
<1>3. PageOK(Tables[p], p)
  BY <1>1, <1>2, BorrowOK, FinesOK, ResvOK, UsersOK, SchoolsOK, BooksOK, BookOK, HomesOK DEF Good
<1>4. \A r \in Roles : p \in Menu(r) => r \in Tables[p].roles
  BY <1>1, <1>2, BorrowOK, FinesOK, ResvOK, UsersOK, SchoolsOK, BooksOK, BookOK, HomesOK
     DEF Good, Menu, Home, Roles, Tenants, Staff, Readers
<1> QED BY <1>3, <1>4
-----------------------------------------------------------------------------
\* A page stays the page it is, and what depends on it alone stays too.
Same == page' = page /\ role' = role

LEMMA SamePage ==
  ASSUME Same
  PROVE  /\ Page' = Page /\ Acts' = Acts /\ Ops' = Ops /\ Filters' = Filters
         /\ LoadType' = LoadType /\ ActType' = ActType
<1>1. Page' = Page /\ Acts' = Acts
  BY DEF Same, Page, Acts
<1> QED BY <1>1 DEF Ops, Filters, LoadType, ActType

LEMMA NextSame == ASSUME [Next]_vars PROVE Same
BY DEF Next, ClientStep, AnswerStep, ServerStep, vars, server, Same, TimerFires, Retry, CloseForm, SetFilter,
       OpenForm, Press, Submit, LoadAnswered, LoadFailed, Succeed, Fail, ServeLoad, Refuse, Check, Do, Others

\* A request on its way has all of its fields.
LEMMA LiveAct ==
  ASSUME NEW c \in ActType, c.at # "free"
  PROVE  /\ c.at \in {"sent", "checked", "answered"} /\ c.op \in Ops /\ c.row \in Rows \cup {Nobody}
         /\ c.filter \in Filters /\ c.seen \in Page.states \cup {None} /\ c.met \in Page.states \cup {None}
         /\ c.done \in BOOLEAN /\ c.heard \in Heard
         /\ c.back \in [Rows -> Page.states \cup {None}]
BY DEF ActType, FreeAct

LEMMA MovedAct ==
  ASSUME NEW c \in ActType, c.at # "free", NEW to \in {"sent", "checked", "answered"}, NEW row \in Rows \cup {Nobody},
         NEW met \in Page.states \cup {None}, NEW done \in BOOLEAN,
         NEW heard \in Heard
  PROVE  Moved(c, to, row, met, done, heard) \in ActType
BY LiveAct DEF ActType, Moved

\* The page and its requests, typed; the parts that more than one step needs.
LEMMA AskType ==
  ASSUME TypeOK, Same, NEW f \in Filters, Ask(f)
  PROVE  /\ loads' \in [Loads -> LoadType] /\ newest' \in Loads /\ loading' = TRUE /\ error' = FALSE
         /\ current' = FALSE /\ late' = {} /\ loads'[newest'].at = "sent"
<1>1. PICK l \in Loads : /\ loads' = [loads EXCEPT ![l] = [at |-> "sent", filter |-> f, rows |-> Blank]]
                         /\ newest' = l
  BY DEF Ask
<1>2. [at |-> "sent", filter |-> f, rows |-> Blank] \in LoadType
  BY DEF LoadType, Blank
<1> QED BY <1>1, <1>2 DEF TypeOK, Ask

LEMMA SendType ==
  ASSUME TypeOK, NEW a \in Acts, NEW n \in Ops, NEW r \in Rows \cup {Nobody},
         NEW seen \in Page.states \cup {None}, Send(a, n, r, seen)
  PROVE  /\ acts' \in [Acts -> ActType] /\ acts[a].at = "free"
         /\ acts'[a].at = "sent" /\ acts'[a].op = n /\ acts'[a].row = r /\ acts'[a].seen = seen
         /\ acts'[a].heard = None /\ acts'[a].done = FALSE
         /\ \A b \in Acts : b # a => acts'[b] = acts[b]
<1> DEFINE c == [at |-> "sent", op |-> n, row |-> r, filter |-> filter, seen |-> seen,
                met |-> None, done |-> FALSE, heard |-> None,
                back |-> IF Op(n).puts THEN shown ELSE Blank]
<1>1. c \in ActType
  BY DEF ActType, Blank, TypeOK, Heard
<1>2. acts' = [acts EXCEPT ![a] = c] /\ acts[a].at = "free"
  BY DEF Send, FirstFree
<1> QED BY <1>1, <1>2 DEF TypeOK

\* What is known of a request: its button was drawn for the role, on a row
\* whose status it was drawn on; it is heard of when it is answered, and what
\* it hears is what OffersAreAccepted says.
ActOK(c) ==
  /\ role \in Op(c.op).to
  /\ Op(c.op).on = "row" => c.row \in Rows /\ c.seen \in Op(c.op).offered
  /\ Op(c.op).on # "row" /\ c.at = "sent" => c.row = Nobody
  /\ c.at # "answered" => c.heard = None
  /\ c.heard # "forbidden"
  /\ c.heard = "no" /\ c.row \in Rows => c.met # c.seen \/ <<page, c.op, c.seen>> \in RefusedAsShown
  /\ c.heard = "garbled" => <<page, c.op>> \in Misunderstood
ActsOK == \A a \in Acts : acts[a].at # "free" => ActOK(acts[a])

LEMMA TypeInit == Init => TypeOK
<1> SUFFICES ASSUME Init PROVE TypeOK
  OBVIOUS
<1> USE InstanceAssumption
<1>1. PageOK(Page, page) /\ page \in Open
  BY TableOK DEF Init, Page
<1>2. filter \in Filters /\ timer \in BOOLEAN
  BY <1>1 DEF Init, Filters, PageOK
<1>3. loads \in [Loads -> LoadType] /\ newest \in Loads \cup {Nobody}
  <2>1. FreeLoad \in LoadType /\ [FreeLoad EXCEPT !.at = "sent", !.filter = filter] \in LoadType
    BY <1>2 DEF FreeLoad, LoadType, Blank
  <2>2. 1 \in Loads
    BY DEF Loads
  <2> QED BY <2>1, <2>2 DEF Init
<1>4. acts \in [Acts -> ActType]
  BY DEF Init, ActType
<1>5. form \in [op : Ops \cup {None}, row : Rows \cup {Nobody}, seen : Page.states \cup {None}, act : Acts \cup {Nobody}]
  BY DEF Init, NoForm
<1>6. shown \in [Rows -> Page.states \cup {None}]
  BY DEF Init, Blank
<1> QED BY <1>1, <1>2, <1>3, <1>4, <1>5, <1>6 DEF Init, TypeOK

LEMMA TypeStep == TypeOK /\ ActsOK /\ [Next]_vars => TypeOK'
<1> SUFFICES ASSUME TypeOK, ActsOK, [Next]_vars PROVE TypeOK'
  OBVIOUS
<1> USE InstanceAssumption
<1>a. Same
  BY NextSame
<1>b. /\ Page' = Page /\ Acts' = Acts /\ Ops' = Ops /\ Filters' = Filters
      /\ LoadType' = LoadType /\ ActType' = ActType
  BY <1>a, SamePage
<1>c. PageOK(Page, page) /\ filter \in Filters
  BY TableOK DEF TypeOK, Page
<1>d. page' = page /\ role' = role
  BY <1>a DEF Same
<1> DEFINE FormType == [op : Ops \cup {None}, row : Rows \cup {Nobody}, seen : Page.states \cup {None}, act : Acts \cup {Nobody}]
<1>e. NoForm \in FormType /\ Fresh(form) \in FormType /\ FreeLoad \in LoadType /\ FreeAct \in ActType
  BY DEF TypeOK, NoForm, Fresh, FreeLoad, LoadType, Blank, ActType
<1>1. ASSUME TimerFires PROVE TypeOK'
  BY <1>1, <1>a, <1>b, <1>c, <1>d, AskType DEF TimerFires, TypeOK, server
<1>2. ASSUME Retry PROVE TypeOK'
  BY <1>2, <1>a, <1>b, <1>c, <1>d, <1>e, AskType DEF Retry, TypeOK, server
<1>3. ASSUME CloseForm PROVE TypeOK'
  BY <1>3, <1>b, <1>d, <1>e DEF CloseForm, TypeOK, server, ghost
<1>4. ASSUME NEW f \in Filters, SetFilter(f) PROVE TypeOK'
  BY <1>4, <1>a, <1>b, <1>d, AskType DEF SetFilter, TypeOK, server
<1>5. ASSUME NEW n \in Ops, NEW r \in Rows \cup {Nobody}, OpenForm(n, r) PROVE TypeOK'
  <2>1. form' \in FormType
    BY <1>5 DEF OpenForm, Seen, TypeOK
  <2> QED BY <2>1, <1>5, <1>b, <1>d DEF OpenForm, TypeOK, server, ghost
<1>6. ASSUME NEW n \in Ops, NEW r \in Rows \cup {Nobody}, NEW a \in Acts, Press(a, n, r) PROVE TypeOK'
  <2>1. Seen(r) \in Page.states \cup {None}
    BY DEF Seen, TypeOK
  <2>2. acts' \in [Acts -> ActType] /\ busy' \in Rows \cup {Nobody}
    BY <2>1, <1>6, SendType DEF Press, TypeOK
  <2> QED BY <2>2, <1>6, <1>b, <1>d DEF Press, TypeOK, server, ghost
<1>7. ASSUME NEW a \in Acts, Submit(a) PROVE TypeOK'
  <2>1. form.op \in Ops /\ form.row \in Rows \cup {Nobody} /\ form.seen \in Page.states \cup {None}
    BY <1>7 DEF Submit, TypeOK
  <2>2. acts' \in [Acts -> ActType] /\ form' \in FormType
    BY <2>1, <1>7, SendType DEF Submit, TypeOK
  <2> QED BY <2>2, <1>7, <1>b, <1>d DEF Submit, TypeOK, server, ghost
<1>8. ASSUME NEW l \in Loads, LoadAnswered(l) PROVE TypeOK'
  <2>1. loads[l] \in LoadType
    BY DEF TypeOK
  <2>2. /\ loads' \in [Loads -> LoadType] /\ shown' \in [Rows -> Page.states \cup {None}]
        /\ basis' \in Filters \cup {None}
    BY <2>1, <1>8, <1>e DEF LoadAnswered, TypeOK, LoadType
  <2>3. newest' \in Loads \cup {Nobody} /\ current' \in BOOLEAN /\ excused' \subseteq Rows /\ loading' = FALSE
    BY <1>8 DEF LoadAnswered, TypeOK
  <2> QED BY <2>2, <2>3, <1>8, <1>b, <1>d DEF LoadAnswered, TypeOK, server
<1>9. ASSUME NEW l \in Loads, LoadFailed(l) PROVE TypeOK'
  <2>1. loads' \in [Loads -> LoadType] /\ newest' \in Loads \cup {Nobody}
    BY <1>9, <1>e DEF LoadFailed, TypeOK
  <2> QED BY <2>1, <1>9, <1>b, <1>d DEF LoadFailed, TypeOK, server
<1>10. ASSUME NEW a \in Acts, Succeed(a) PROVE TypeOK'
  <2>1. acts[a] \in ActType /\ acts[a].at # "free"
    BY <1>10 DEF Succeed, TypeOK
  <2>2. /\ acts[a].op \in Ops /\ acts[a].filter \in Filters
        /\ acts[a].back \in [Rows -> Page.states \cup {None}]
    BY <2>1, LiveAct
  <2>3. acts' \in [Acts -> ActType] /\ form' \in FormType /\ busy' \in Rows \cup {Nobody}
    BY <1>10, <1>e DEF Succeed, Rest, TypeOK
  <2>4. CASE Op(acts[a].op).reload
    BY <2>4, <2>2, <2>3, <1>10, <1>a, <1>b, <1>d, AskType DEF Succeed, TypeOK, server
  <2>5. CASE ~Op(acts[a].op).reload
    <3>1. shown' \in [Rows -> Page.states \cup {None}] /\ current' \in BOOLEAN
      BY <2>5, <2>2, <1>10 DEF Succeed, TypeOK
    <3> QED BY <3>1, <2>5, <2>3, <1>10, <1>b, <1>d DEF Succeed, TypeOK, server
  <2> QED BY <2>4, <2>5
<1>11. ASSUME NEW a \in Acts, Fail(a) PROVE TypeOK'
  <2>1. acts' \in [Acts -> ActType] /\ form' \in FormType /\ busy' \in Rows \cup {Nobody}
    BY <1>11, <1>e DEF Fail, Rest, TypeOK
  <2>2. late' \subseteq Rows /\ excused' \subseteq Rows
    BY <1>11 DEF Fail, TypeOK
  <2> QED BY <2>1, <2>2, <1>11, <1>b, <1>d DEF Fail, TypeOK, server
<1>12. ASSUME NEW l \in Loads, ServeLoad(l) PROVE TypeOK'
  <2>1. Listed(loads[l].filter) \in [Rows -> Page.states \cup {None}] /\ loads[l] \in LoadType
    BY DEF Listed, TypeOK
  <2>2. loads' \in [Loads -> LoadType]
    BY <2>1, <1>12 DEF ServeLoad, LoadType, TypeOK
  <2>3. late' \subseteq Rows
    BY <1>12 DEF ServeLoad, TypeOK
  <2> QED BY <2>2, <2>3, <1>12, <1>b, <1>d DEF ServeLoad, TypeOK, server, view
<1>13. ASSUME NEW a \in Acts, Refuse(a) PROVE TypeOK'
  <2>1. acts[a] \in ActType /\ acts[a].at # "free"
    BY <1>13 DEF Refuse, TypeOK
  <2>2. ASSUME NEW m \in Page.states \cup {None}, NEW h \in Heard, Answer(a, h, m)
        PROVE  acts' \in [Acts -> ActType]
    <3>1. Moved(acts[a], "answered", acts[a].row, m, acts[a].done, h) \in ActType
      <4>1. acts[a].row \in Rows \cup {Nobody} /\ acts[a].done \in BOOLEAN
        BY <2>1, LiveAct
      <4> QED BY <2>1, <4>1, MovedAct
    <3> QED BY <3>1, <2>2 DEF Answer, TypeOK
  <2>3. acts[a].row # Nobody => status[acts[a].row] \in Page.states \cup {None}
    BY <2>1, LiveAct DEF TypeOK
  <2>4. acts' \in [Acts -> ActType]
    BY <2>2, <2>3, <1>13 DEF Refuse, Heard
  <2> QED BY <2>4, <1>13, <1>b, <1>d DEF Refuse, TypeOK, server, view, ghost
<1>14. ASSUME NEW a \in Acts, Check(a) PROVE TypeOK'
  <2>1. acts[a] \in ActType /\ acts[a].at # "free" /\ acts[a].op \in Ops
    BY <1>14, LiveAct DEF Check, TypeOK
  <2>o. Op(acts[a].op).split /\ OpOK(Op(acts[a].op), Page.states, page)
    BY <2>1, <1>14, <1>c DEF Check, PageOK, Op, Ops
  <2>p. Op(acts[a].op).on = "row"
    BY <2>o DEF OpOK
  <2>2. acts[a].row \in Rows
    BY <2>1, <2>p DEF ActsOK, ActOK
  <2>3. Moved(acts[a], "checked", acts[a].row, status[acts[a].row], acts[a].done, acts[a].heard) \in ActType
    <3>1. acts[a].done \in BOOLEAN /\ acts[a].heard \in Heard
          /\ status[acts[a].row] \in Page.states \cup {None}
      BY <2>1, <2>2, LiveAct DEF TypeOK
    <3> QED BY <2>1, <2>2, <3>1, MovedAct
  <2> QED BY <2>3, <1>14, <1>b, <1>d DEF Check, TypeOK, server, view, ghost
<1>15. ASSUME NEW a \in Acts, NEW r \in Rows \cup {Nobody}, Do(a, r) PROVE TypeOK'
  <2>1. acts[a] \in ActType /\ acts[a].at # "free" /\ acts[a].op \in Ops
    BY <1>15, LiveAct DEF Do, TypeOK
  <2>2. ASSUME NEW h \in {"garbled", "yes"}
        PROVE  Moved(acts[a], "answered", r, acts[a].met, TRUE, h) \in ActType
    <3>1. acts[a].met \in Page.states \cup {None}
      BY <2>1, LiveAct
    <3> QED BY <2>1, <2>2, <3>1, MovedAct DEF Heard
  <2>3. acts' \in [Acts -> ActType]
    BY <2>2, <1>15 DEF Do, TypeOK
  <2>4. Op(acts[a].op).gives \subseteq Page.states
    BY <2>1, <1>c DEF PageOK, OpOK, Op, Ops
  <2>5. status' \in [Rows -> Page.states \cup {None}]
    BY <2>4, <1>15 DEF Do, TypeOK
  <2> QED BY <2>3, <2>5, <1>15, <1>b, <1>d DEF Do, TypeOK, view, ghost
<1>16. ASSUME NEW r \in Rows, NEW t \in Page.states \cup {None}, Others(r, t) PROVE TypeOK'
  <2>1. status' \in [Rows -> Page.states \cup {None}]
    BY <1>16 DEF Others, TypeOK
  <2> QED BY <2>1, <1>16, <1>b, <1>d DEF Others, TypeOK, view
<1>17. ASSUME UNCHANGED vars PROVE TypeOK'
  BY <1>17, <1>b DEF TypeOK, vars, server, view, ghost
<1> QED BY <1>1, <1>2, <1>3, <1>4, <1>5, <1>6, <1>7, <1>8, <1>9, <1>10, <1>11, <1>12, <1>13, <1>14, <1>15, <1>16, <1>17
        DEF Next, ClientStep, AnswerStep, ServerStep
-----------------------------------------------------------------------------
\* The gate lets the role of the page in, and the route of the listing too.
RoleOK == role \in Page.roles

\* An open form is one the role was offered, on a row it was offered on; the
\* request it waits for is its own.
FormOK ==
  /\ form.op # None =>
       /\ form.op \in Ops /\ Op(form.op).form /\ role \in Op(form.op).to
       /\ Op(form.op).on = "row" => form.row \in Rows /\ form.seen \in Op(form.op).offered
       /\ Op(form.op).on # "row" => form.row = Nobody
  /\ form.act # Nobody => form.act \in Acts /\ acts[form.act].at # "free" /\ acts[form.act].op = form.op

\* A step keeps ActsOK if each request it touches is freed or as it must be.
LEMMA ActsKeep ==
  ASSUME Same, ActsOK,
         \A b \in Acts : acts'[b].at = "free" \/ acts'[b] = acts[b] \/ ActOK(acts'[b])
  PROVE  ActsOK'
<1>1. Page' = Page /\ Acts' = Acts /\ role' = role
  BY SamePage DEF Same
<1>2. SUFFICES ASSUME NEW b \in Acts, acts'[b].at # "free" PROVE ActOK(acts'[b])
  BY <1>1 DEF Same, ActsOK, ActOK, Op
<1>3. CASE acts'[b] = acts[b]
  BY <1>2, <1>3 DEF ActsOK
<1> QED BY <1>2, <1>3

\* What a button drawn on the page sends.
LEMMA OfferedOK ==
  ASSUME TypeOK, NEW n \in Ops, NEW r \in Rows \cup {Nobody}, Offered(n, r)
  PROVE  /\ role \in Op(n).to
         /\ Op(n).on = "row" => r \in Rows /\ Seen(r) \in Op(n).offered
         /\ Op(n).on # "row" => r = Nobody
<1>1. Op(n).on \in {"row", "new", "book"}
  BY TableOK, InstanceAssumption DEF TypeOK, Page, PageOK, OpOK, Op, Ops
<1> QED BY <1>1, InstanceAssumption DEF Offered, Seen

LEMMA ActsStep == TypeOK /\ RoleOK /\ FormOK /\ ActsOK /\ [Next]_vars => ActsOK'
<1> SUFFICES ASSUME TypeOK, RoleOK, FormOK, ActsOK, [Next]_vars PROVE ActsOK'
  OBVIOUS
<1> USE InstanceAssumption
<1>a. Same
  BY NextSame
<1>c. PageOK(Page, page)
  BY TableOK DEF TypeOK, Page
<1>u. ASSUME UNCHANGED acts PROVE ActsOK'
  BY <1>u, <1>a, ActsKeep
<1>f. ASSUME NEW a \in Acts, acts' = [acts EXCEPT ![a] = FreeAct] PROVE ActsOK'
  <2>1. \A b \in Acts : acts'[b].at = "free" \/ acts'[b] = acts[b]
    BY <1>f DEF TypeOK, FreeAct
  <2> QED BY <2>1, <1>a, ActsKeep
<1>m. ASSUME NEW a \in Acts, NEW c, ActOK(c), acts' = [acts EXCEPT ![a] = c] PROVE ActsOK'
  <2>1. \A b \in Acts : ActOK(acts'[b]) \/ acts'[b] = acts[b]
    BY <1>m DEF TypeOK
  <2> QED BY <2>1, <1>a, ActsKeep
<1>6. ASSUME NEW n \in Ops, NEW r \in Rows \cup {Nobody}, NEW a \in Acts, Press(a, n, r) PROVE ActsOK'
  <2>1. Seen(r) \in Page.states \cup {None} /\ Send(a, n, r, Seen(r)) /\ Offered(n, r)
    BY <1>6 DEF Seen, TypeOK, Press
  <2>2. /\ acts'[a].op = n /\ acts'[a].row = r /\ acts'[a].seen = Seen(r) /\ acts'[a].heard = None
        /\ \A b \in Acts : b # a => acts'[b] = acts[b]
    BY <2>1, SendType
  <2>3. ActOK(acts'[a])
    BY <2>1, <2>2, OfferedOK DEF ActOK, None
  <2> QED BY <2>2, <2>3, <1>a, ActsKeep
<1>7. ASSUME NEW a \in Acts, Submit(a) PROVE ActsOK'
  <2>1. /\ form.op \in Ops /\ form.row \in Rows \cup {Nobody} /\ form.seen \in Page.states \cup {None}
        /\ Send(a, form.op, form.row, form.seen) /\ form.op # None
    BY <1>7 DEF Submit, TypeOK
  <2>2. /\ acts'[a].op = form.op /\ acts'[a].row = form.row /\ acts'[a].seen = form.seen /\ acts'[a].heard = None
        /\ \A b \in Acts : b # a => acts'[b] = acts[b]
    <3> DEFINE n == form.op
               r == form.row
               s == form.seen
    <3>1. n \in Ops /\ r \in Rows \cup {Nobody} /\ s \in Page.states \cup {None} /\ Send(a, n, r, s)
      BY <2>1
    <3> HIDE DEF n, r, s
    <3>2. /\ acts'[a].op = n /\ acts'[a].row = r /\ acts'[a].seen = s /\ acts'[a].heard = None
          /\ \A b \in Acts : b # a => acts'[b] = acts[b]
      BY <3>1, SendType
    <3> QED BY <3>2 DEF n, r, s
  <2>3. ActOK(acts'[a])
    BY <2>1, <2>2 DEF ActOK, FormOK, None
  <2> QED BY <2>2, <2>3, <1>a, ActsKeep
<1>13. ASSUME NEW a \in Acts, Refuse(a) PROVE ActsOK'
  <2> DEFINE op == Op(acts[a].op)
             Hear(h, m) == acts' = [acts EXCEPT ![a] = Moved(acts[a], "answered", acts[a].row, m, acts[a].done, h)]
  <2>1. acts[a] \in ActType /\ acts[a].at = "sent" /\ acts[a].op \in Ops /\ ActOK(acts[a])
    BY <1>13, LiveAct DEF Refuse, TypeOK, ActsOK
  <2>2. OpOK(op, Page.states, page)
    BY <2>1, <1>c DEF PageOK, Op, Ops
  <2>n. op.name = acts[a].op
    BY <2>1, <1>c DEF PageOK, Op, Ops
  <2>3. CASE Hear("garbled", None) /\ op.garbled
    <3>1. ActOK(Moved(acts[a], "answered", acts[a].row, None, acts[a].done, "garbled"))
      BY <2>1, <2>2, <2>3, <2>n DEF ActOK, OpOK, Moved
    <3> QED BY <3>1, <2>3, <1>m
  <2>r. CASE Hear("rule", None)
    <3>1. ActOK(Moved(acts[a], "answered", acts[a].row, None, acts[a].done, "rule"))
      BY <2>1 DEF ActOK, Moved
    <3> QED BY <3>1, <2>r, <1>m
  <2>4. ~(role \notin op.by)
    BY <2>1, <2>2 DEF ActOK, OpOK
  <2>5. ASSUME ~Takes(a, acts[a].row) \/ ~NoCopyIn(op.absent),
               Hear("no", IF acts[a].row = Nobody THEN None ELSE status[acts[a].row])
        PROVE  ActsOK'
    <3> DEFINE m == IF acts[a].row = Nobody THEN None ELSE status[acts[a].row]
    <3>1. acts[a].row \in Rows => m # acts[a].seen \/ <<page, acts[a].op, acts[a].seen>> \in RefusedAsShown
      <4> SUFFICES ASSUME acts[a].row \in Rows, m = acts[a].seen
                   PROVE  <<page, acts[a].op, acts[a].seen>> \in RefusedAsShown
        OBVIOUS
      <4>1. acts[a].row # Nobody /\ m = status[acts[a].row]
        OBVIOUS
      <4>2. op.on = "row" /\ acts[a].seen \in op.offered
        BY <4>1, <2>1 DEF ActOK
      <4>3. op.absent = {} /\ status[acts[a].row] \notin op.takes
        BY <4>2, <2>2, <2>5 DEF OpOK, NoCopyIn, Takes
      <4> QED BY <4>1, <4>2, <4>3, <2>2, <2>n DEF OpOK
    <3>2. ActOK(Moved(acts[a], "answered", acts[a].row, m, acts[a].done, "no"))
      BY <2>1, <3>1 DEF ActOK, Moved
    <3> QED BY <3>2, <2>5, <1>m
  <2> QED BY <2>3, <2>r, <2>4, <2>5, <1>13 DEF Refuse, Answer
<1>14. ASSUME NEW a \in Acts, Check(a) PROVE ActsOK'
  <2>1. acts[a].at = "sent" /\ Op(acts[a].op).split /\ acts[a].op \in Ops /\ ActOK(acts[a])
    BY <1>14, LiveAct DEF Check, TypeOK, ActsOK
  <2>2. Op(acts[a].op).on = "row"
    BY <2>1, <1>c DEF PageOK, OpOK, Op, Ops
  <2>3. ActOK(Moved(acts[a], "checked", acts[a].row, status[acts[a].row], acts[a].done, acts[a].heard))
    BY <2>1, <2>2 DEF ActOK, Moved, None
  <2> QED BY <2>3, <1>14, <1>m DEF Check
<1>15. ASSUME NEW a \in Acts, NEW r \in Rows \cup {Nobody}, Do(a, r) PROVE ActsOK'
  <2>1. acts[a].at # "free" /\ acts[a].at # "answered" /\ acts[a].op \in Ops /\ ActOK(acts[a])
    BY <1>15, LiveAct DEF Do, TypeOK, ActsOK
  <2>2. Op(acts[a].op).on = "row" => r = acts[a].row
    BY <2>1, <1>15 DEF Do, Target
  <2>n. Op(acts[a].op).garbled => <<page, acts[a].op>> \in Misunderstood
    BY <2>1, <1>c DEF PageOK, OpOK, Op, Ops
  <2>3. ASSUME NEW h \in {"garbled", "yes"}, h = "garbled" => Op(acts[a].op).garbled
        PROVE  ActOK(Moved(acts[a], "answered", r, acts[a].met, TRUE, h))
    BY <2>1, <2>2, <2>n, <2>3 DEF ActOK, Moved
  <2>4. acts' = [acts EXCEPT ![a] = Moved(acts[a], "answered", r, acts[a].met, TRUE,
                                          IF Op(acts[a].op).garbled THEN "garbled" ELSE "yes")]
    BY <1>15 DEF Do
  <2> QED BY <2>3, <2>4, <1>m
<1>16. ASSUME \/ TimerFires \/ Retry \/ CloseForm
              \/ \E f \in Filters : SetFilter(f)
              \/ \E n \in Ops, r \in Rows \cup {Nobody} : OpenForm(n, r)
              \/ \E l \in Loads : LoadAnswered(l) \/ LoadFailed(l) \/ ServeLoad(l)
              \/ \E r \in Rows, t \in Page.states \cup {None} : Others(r, t)
       PROVE  ActsOK'
  BY <1>16, <1>u DEF TimerFires, Retry, CloseForm, SetFilter, OpenForm, LoadAnswered, LoadFailed, ServeLoad, Others
<1>17. ASSUME NEW a \in Acts, Succeed(a) \/ Fail(a) PROVE ActsOK'
  BY <1>17, <1>f DEF Succeed, Fail
<1>18. ASSUME UNCHANGED vars PROVE ActsOK'
  BY <1>18, <1>u DEF vars
<1> QED BY <1>6, <1>7, <1>13, <1>14, <1>15, <1>16, <1>17, <1>18 DEF Next, ClientStep, AnswerStep, ServerStep

LEMMA RoleStep == ASSUME TypeOK, RoleOK, [Next]_vars PROVE RoleOK'
BY NextSame, SamePage DEF RoleOK, Same

\* A step keeps FormOK if the form keeps its subject, or gets one it was
\* offered, and the request it waits for goes on.
LEMMA FormStep == TypeOK /\ ActsOK /\ FormOK /\ [Next]_vars => FormOK'
<1> SUFFICES ASSUME TypeOK, ActsOK, FormOK, [Next]_vars PROVE FormOK'
  OBVIOUS
<1> USE InstanceAssumption
<1>a. Same
  BY NextSame
<1>b. Page' = Page /\ Acts' = Acts /\ Ops' = Ops /\ role' = role
  BY <1>a, SamePage DEF Same
<1>c. PageOK(Page, page) /\ Nobody \notin Acts
  BY TableOK DEF TypeOK, Page, Acts
<1>k. ASSUME form' = form \/ form' = Fresh(form),
             form.act # Nobody => acts'[form.act].at # "free" /\ acts'[form.act].op = form.op
      PROVE  FormOK'
  <2>1. form'.op = form.op /\ form'.row = form.row /\ form'.seen = form.seen /\ form'.act \in {form.act, Nobody}
    BY <1>k DEF Fresh, TypeOK
  <2> QED BY <2>1, <1>k, <1>b DEF FormOK, Op
<1>n. ASSUME form' = NoForm PROVE FormOK'
  BY <1>n DEF FormOK, NoForm
<1>1. ASSUME UNCHANGED acts, form' = form \/ form' = Fresh(form) PROVE FormOK'
  BY <1>1, <1>k DEF FormOK
<1>2. ASSUME \/ TimerFires \/ Retry
             \/ \E f \in Filters : SetFilter(f)
             \/ \E l \in Loads : LoadAnswered(l) \/ LoadFailed(l) \/ ServeLoad(l)
             \/ \E r \in Rows, t \in Page.states \cup {None} : Others(r, t)
             \/ UNCHANGED vars
      PROVE  FormOK'
  BY <1>2, <1>1 DEF TimerFires, Retry, SetFilter, LoadAnswered, LoadFailed, ServeLoad, Others, vars, view
<1>3. ASSUME CloseForm PROVE FormOK'
  BY <1>3, <1>n DEF CloseForm
<1>5. ASSUME NEW n \in Ops, NEW r \in Rows \cup {Nobody}, OpenForm(n, r) PROVE FormOK'
  <2>1. form' = [op |-> n, row |-> r, seen |-> Seen(r), act |-> Nobody] /\ Op(n).form /\ Offered(n, r)
    BY <1>5 DEF OpenForm
  <2>2. /\ role \in Op(n).to
        /\ Op(n).on = "row" => r \in Rows /\ Seen(r) \in Op(n).offered
        /\ Op(n).on # "row" => r = Nobody
    BY <2>1, OfferedOK
  <2> HIDE DEF Seen
  <2> QED BY <2>1, <2>2, <1>b DEF FormOK, Op
<1>6. ASSUME NEW n \in Ops, NEW r \in Rows \cup {Nobody}, NEW a \in Acts, Press(a, n, r) PROVE FormOK'
  <2>1. Seen(r) \in Page.states \cup {None} /\ Send(a, n, r, Seen(r)) /\ form' = form
    BY <1>6 DEF Seen, TypeOK, Press
  <2>2. acts[a].at = "free" /\ \A b \in Acts : b # a => acts'[b] = acts[b]
    BY <2>1, SendType
  <2> QED BY <2>1, <2>2, <1>k DEF FormOK
<1>7. ASSUME NEW a \in Acts, Submit(a) PROVE FormOK'
  <2>1. /\ form.op \in Ops /\ form.row \in Rows \cup {Nobody} /\ form.seen \in Page.states \cup {None}
        /\ Send(a, form.op, form.row, form.seen) /\ form.op # None /\ form' = [form EXCEPT !.act = a]
    BY <1>7 DEF Submit, TypeOK
  <2>2. acts'[a].op = form.op /\ acts'[a].at = "sent"
    BY <2>1, SendType
  <2>3. form'.op = form.op /\ form'.row = form.row /\ form'.seen = form.seen /\ form'.act = a
    BY <2>1 DEF TypeOK
  <2> QED BY <2>2, <2>3, <1>b DEF FormOK, Op
<1>8. ASSUME NEW a \in Acts, Succeed(a) PROVE FormOK'
  <2>1. acts[a].op \in Ops /\ acts' = [acts EXCEPT ![a] = FreeAct]
    BY <1>8, LiveAct DEF Succeed, TypeOK
  <2>2. CASE form.act = a
    <3>1. form.op = acts[a].op /\ acts[a].op \in DOMAIN Page.ops
      BY <2>1, <2>2, <1>c DEF FormOK, Ops
    <3>n. form.op # None
      BY <3>1, <1>c DEF PageOK
    <3>2. Op(acts[a].op).form
      BY <3>1, <3>n DEF FormOK
    <3> QED BY <3>1, <3>2, <1>8, <1>n DEF Succeed
  <2>3. CASE form.act # a
    <3>1. form.act # Nobody => acts'[form.act].at # "free" /\ acts'[form.act].op = form.op
      BY <2>1, <2>3 DEF FormOK, TypeOK
    <3> QED BY <3>1, <1>8, <1>k, <1>n DEF Succeed
  <2> QED BY <2>2, <2>3
<1>9. ASSUME NEW a \in Acts, Fail(a) PROVE FormOK'
  <2>1. acts' = [acts EXCEPT ![a] = FreeAct]
    BY <1>9 DEF Fail
  <2>2. CASE form.act = a
    <3>1. form' = [form EXCEPT !.act = Nobody]
      BY <1>9, <2>2 DEF Fail
    <3>2. form'.op = form.op /\ form'.row = form.row /\ form'.seen = form.seen /\ form'.act = Nobody
      BY <3>1 DEF TypeOK
    <3> QED BY <3>2, <1>b DEF FormOK, Op
  <2>3. CASE form.act # a
    <3>1. form.act # Nobody => acts'[form.act].at # "free" /\ acts'[form.act].op = form.op
      BY <2>1, <2>3 DEF FormOK, TypeOK
    <3> QED BY <2>3, <3>1, <1>9, <1>k DEF Fail
  <2> QED BY <2>2, <2>3
<1>m. ASSUME NEW a \in Acts, NEW to, to # "free", NEW row, NEW met, NEW done, NEW heard, form' = form,
             acts' = [acts EXCEPT ![a] = Moved(acts[a], to, row, met, done, heard)]
      PROVE  FormOK'
  <2>1. acts'[a].at # "free" /\ acts'[a].op = acts[a].op /\ \A b \in Acts : b # a => acts'[b] = acts[b]
    BY <1>m DEF Moved, TypeOK
  <2>2. form.act # Nobody => acts'[form.act].at # "free" /\ acts'[form.act].op = form.op
    BY <2>1 DEF FormOK
  <2> QED BY <2>2, <1>m, <1>k
<1>10. ASSUME NEW a \in Acts, Refuse(a) PROVE FormOK'
  BY <1>10, <1>m DEF Refuse, Answer, view
<1>11. ASSUME NEW a \in Acts, Check(a) PROVE FormOK'
  BY <1>11, <1>m DEF Check, view
<1>12. ASSUME NEW a \in Acts, NEW r \in Rows \cup {Nobody}, Do(a, r) PROVE FormOK'
  BY <1>12, <1>m DEF Do, view
<1> QED BY <1>2, <1>3, <1>5, <1>6, <1>7, <1>8, <1>9, <1>10, <1>11, <1>12 DEF Next, ClientStep, AnswerStep, ServerStep
-----------------------------------------------------------------------------
\* The disabled button of a row has a request of its own on its way.
Holds(c, r) == c.at # "free" /\ c.row = r /\ Op(c.op).busy /\ ~Op(c.op).form
BusyOK      == busy # Nobody => \E a \in Acts : Holds(acts[a], busy)
LoadingOK   == loading => timer \/ \E l \in Loads : loads[l].at # "free"

LEMMA BusyStep == TypeOK /\ BusyOK /\ [Next]_vars => BusyOK'
<1> SUFFICES ASSUME TypeOK, BusyOK, [Next]_vars PROVE BusyOK'
  OBVIOUS
<1> USE InstanceAssumption
<1>a. Same
  BY NextSame
<1>b. Page' = Page /\ Acts' = Acts
  BY <1>a, SamePage
<1>c. PageOK(Page, page)
  BY TableOK DEF TypeOK, Page
<1>w. ASSUME NEW b \in Acts, Holds(acts'[b], busy') PROVE BusyOK'
  BY <1>w, <1>b DEF BusyOK, Holds, Op
<1>u. ASSUME UNCHANGED <<acts, busy>> PROVE BusyOK'
  BY <1>u, <1>w DEF BusyOK
<1>k. ASSUME NEW a \in Acts, busy' = busy, \A b \in Acts : b # a => acts'[b] = acts[b],
             Holds(acts[a], busy) => Holds(acts'[a], busy)
      PROVE  BusyOK'
  <2>1. CASE busy = Nobody
    BY <2>1, <1>k DEF BusyOK
  <2>2. CASE busy # Nobody
    <3>1. PICK b \in Acts : Holds(acts[b], busy)
      BY <2>2 DEF BusyOK
    <3>2. Holds(acts'[b], busy')
      BY <3>1, <1>k
    <3> QED BY <3>2, <1>w
  <2> QED BY <2>1, <2>2
<1>n. ASSUME busy' = Nobody PROVE BusyOK'
  BY <1>n DEF BusyOK
<1>1. ASSUME \/ TimerFires \/ Retry \/ CloseForm
             \/ \E f \in Filters : SetFilter(f)
             \/ \E n \in Ops, r \in Rows \cup {Nobody} : OpenForm(n, r)
             \/ \E l \in Loads : LoadAnswered(l) \/ LoadFailed(l) \/ ServeLoad(l)
             \/ \E r \in Rows, t \in Page.states \cup {None} : Others(r, t)
             \/ UNCHANGED vars
      PROVE  BusyOK'
  BY <1>1, <1>u DEF TimerFires, Retry, CloseForm, SetFilter, OpenForm, LoadAnswered, LoadFailed, ServeLoad, Others,
                    vars, view
<1>2. ASSUME NEW n \in Ops, NEW r \in Rows \cup {Nobody}, NEW a \in Acts, Press(a, n, r) PROVE BusyOK'
  <2>1. Seen(r) \in Page.states \cup {None} /\ Send(a, n, r, Seen(r)) /\ ~Op(n).form
        /\ busy' = IF Op(n).busy THEN r ELSE busy
    BY <1>2 DEF Seen, TypeOK, Press
  <2>2. /\ acts[a].at = "free" /\ acts'[a].at = "sent" /\ acts'[a].op = n /\ acts'[a].row = r
        /\ \A b \in Acts : b # a => acts'[b] = acts[b]
    BY <2>1, SendType
  <2>3. CASE Op(n).busy
    <3>1. Holds(acts'[a], busy')
      BY <2>1, <2>2, <2>3 DEF Holds
    <3> QED BY <3>1, <1>w
  <2>4. CASE ~Op(n).busy
    <3>1. busy' = busy /\ ~Holds(acts[a], busy)
      BY <2>1, <2>2, <2>4 DEF Holds
    <3> QED BY <3>1, <2>2, <1>k
  <2> QED BY <2>3, <2>4
<1>3. ASSUME NEW a \in Acts, Submit(a) PROVE BusyOK'
  <2>1. /\ form.op \in Ops /\ form.row \in Rows \cup {Nobody} /\ form.seen \in Page.states \cup {None}
        /\ Send(a, form.op, form.row, form.seen) /\ busy' = busy
    BY <1>3 DEF Submit, TypeOK
  <2>2. acts[a].at = "free" /\ \A b \in Acts : b # a => acts'[b] = acts[b]
    BY <2>1, SendType
  <2>3. ~Holds(acts[a], busy)
    BY <2>2 DEF Holds
  <2> QED BY <2>1, <2>2, <2>3, <1>k
<1>4. ASSUME NEW a \in Acts, Succeed(a) \/ Fail(a) PROVE BusyOK'
  <2> DEFINE op == Op(acts[a].op)
  <2>1. acts' = [acts EXCEPT ![a] = FreeAct] /\ busy' = IF op.busy /\ ~op.form THEN Nobody ELSE busy
    BY <1>4 DEF Succeed, Fail, Rest
  <2>2. CASE op.busy /\ ~op.form
    BY <2>1, <2>2, <1>n
  <2>3. CASE ~(op.busy /\ ~op.form)
    <3>1. ~Holds(acts[a], busy) /\ busy' = busy /\ \A b \in Acts : b # a => acts'[b] = acts[b]
      BY <2>1, <2>3 DEF Holds, TypeOK
    <3> QED BY <3>1, <1>k
  <2> QED BY <2>2, <2>3
<1>m. ASSUME NEW a \in Acts, NEW to, to # "free", NEW row, NEW met, NEW done, NEW heard, busy' = busy,
             Op(acts[a].op).busy /\ ~Op(acts[a].op).form => row = acts[a].row,
             acts' = [acts EXCEPT ![a] = Moved(acts[a], to, row, met, done, heard)]
      PROVE  BusyOK'
  <2>1. /\ acts'[a].at # "free" /\ acts'[a].op = acts[a].op /\ acts'[a].row = row
        /\ \A b \in Acts : b # a => acts'[b] = acts[b]
    BY <1>m DEF Moved, TypeOK
  <2>2. Holds(acts[a], busy) => Holds(acts'[a], busy)
    BY <2>1, <1>m DEF Holds
  <2> QED BY <2>1, <2>2, <1>m, <1>k
<1>5. ASSUME NEW a \in Acts, Refuse(a) PROVE BusyOK'
  BY <1>5, <1>m DEF Refuse, Answer, view
<1>6. ASSUME NEW a \in Acts, Check(a) PROVE BusyOK'
  BY <1>6, <1>m DEF Check, view
<1>7. ASSUME NEW a \in Acts, NEW r \in Rows \cup {Nobody}, Do(a, r) PROVE BusyOK'
  <2>1. acts[a].op \in Ops
    BY <1>7, LiveAct DEF Do, TypeOK
  <2>2. Op(acts[a].op).busy /\ ~Op(acts[a].op).form => Op(acts[a].op).on = "row"
    BY <2>1, <1>c DEF PageOK, OpOK, Op, Ops
  <2>3. Op(acts[a].op).on = "row" => r = acts[a].row
    BY <1>7 DEF Do, Target
  <2> QED BY <2>2, <2>3, <1>7, <1>m DEF Do, view
<1> QED BY <1>1, <1>2, <1>3, <1>4, <1>5, <1>6, <1>7 DEF Next, ClientStep, AnswerStep, ServerStep

LEMMA LoadingStep == TypeOK /\ LoadingOK /\ [Next]_vars => LoadingOK'
<1> SUFFICES ASSUME TypeOK, LoadingOK, [Next]_vars PROVE LoadingOK'
  OBVIOUS
<1> USE InstanceAssumption
<1>a. Same
  BY NextSame
<1>b. Loads' = Loads
  BY DEF Loads
<1>1. ASSUME NEW f \in Filters, Ask(f) PROVE LoadingOK'
  <2>1. newest' \in Loads /\ loads'[newest'].at = "sent"
    BY <1>1, <1>a, AskType
  <2> QED BY <2>1, <1>b DEF LoadingOK
<1>2. ASSUME UNCHANGED <<loading, timer, loads>> PROVE LoadingOK'
  BY <1>2, <1>b DEF LoadingOK
<1>3. ASSUME NEW l \in Loads, LoadAnswered(l) \/ LoadFailed(l) PROVE LoadingOK'
  BY <1>3 DEF LoadAnswered, LoadFailed, LoadingOK
<1>4. ASSUME NEW l \in Loads, ServeLoad(l) PROVE LoadingOK'
  <2>1. \A k \in Loads : loads[k].at # "free" => loads'[k].at # "free"
    BY <1>4 DEF ServeLoad, TypeOK
  <2> QED BY <2>1, <1>4, <1>b DEF ServeLoad, LoadingOK, view
<1>5. ASSUME TimerFires \/ Retry PROVE LoadingOK'
  BY <1>5, <1>1 DEF TimerFires, Retry, TypeOK
<1>6. ASSUME NEW f \in Filters, SetFilter(f) PROVE LoadingOK'
  BY <1>6, <1>1 DEF SetFilter, LoadingOK
<1>7. ASSUME NEW a \in Acts, Succeed(a) PROVE LoadingOK'
  <2>1. acts[a].filter \in Filters
    BY <1>7, LiveAct DEF Succeed, TypeOK
  <2> QED BY <2>1, <1>7, <1>1, <1>2 DEF Succeed
<1>8. ASSUME \/ CloseForm
             \/ \E n \in Ops, r \in Rows \cup {Nobody} : OpenForm(n, r) \/ \E a \in Acts : Press(a, n, r)
             \/ \E a \in Acts : Submit(a) \/ Fail(a) \/ Refuse(a) \/ Check(a) \/ \E r \in Rows \cup {Nobody} : Do(a, r)
             \/ \E r \in Rows, t \in Page.states \cup {None} : Others(r, t)
             \/ UNCHANGED vars
      PROVE  LoadingOK'
  BY <1>8, <1>2 DEF CloseForm, OpenForm, Press, Submit, Fail, Refuse, Check, Do, Others, vars, view
<1> QED BY <1>3, <1>4, <1>5, <1>6, <1>7, <1>8 DEF Next, ClientStep, AnswerStep, ServerStep
-----------------------------------------------------------------------------
\* A change of a row that its page has been told of, or will be: the answer is
\* on its way, and the reload it leads to will show the change.
Due(c, r) == c.at = "answered" /\ c.done /\ c.row = r /\ Op(c.op).gives # {}
Owed(r)   == \E a \in Acts : Due(acts[a], r)

\* Rows that answer the last listing are as the server has them, but for those
\* changed by others and those owed; so are the rows of an answer on its way.
ShownTrue == current => \A r \in Rows : shown[r] = Listed(basis)[r] \/ r \in excused \/ Owed(r)
NewestTrue ==
  newest # Nobody /\ loads[newest].at = "answered" =>
    \A r \in Rows : loads[newest].rows[r] = Listed(loads[newest].filter)[r] \/ r \in late \/ Owed(r)

LEMMA OwedNext ==
  ASSUME Same, NEW r, NEW a \in Acts, Due(acts'[a], r)
  PROVE  Owed(r)'
BY SamePage DEF Owed, Due, Op

\* What a step may do to the rows: leave them, be excused for them, owe them.
Kept(S) ==
  /\ \A r \in Rows : status'[r] = status[r] \/ r \in S \/ \E a \in Acts : Due(acts'[a], r)
  /\ \A r \in Rows, a \in Acts : Due(acts[a], r) => r \in S \/ Due(acts'[a], r)

LEMMA ShownKeep ==
  ASSUME TypeOK, Same, ShownTrue, current' => current /\ shown' = shown /\ basis' = basis,
         excused \subseteq excused', Kept(excused')
  PROVE  ShownTrue'
<1>1. SUFFICES ASSUME current', NEW r \in Rows
               PROVE  (shown[r] = Listed(basis)[r])' \/ r \in excused' \/ Owed(r)'
  BY DEF ShownTrue
<1>2. shown[r] = Listed(basis)[r] \/ r \in excused \/ Owed(r)
  BY <1>1 DEF ShownTrue
<1>3. CASE Owed(r)
  BY <1>3, OwedNext DEF Kept, Owed
<1>4. CASE r \in excused
  BY <1>4
<1>5. CASE shown[r] = Listed(basis)[r]
  <2>1. CASE status'[r] = status[r]
    BY <2>1, <1>1, <1>5, SamePage DEF Listed
  <2>2. CASE status'[r] # status[r]
    BY <2>2, OwedNext DEF Kept
  <2> QED BY <2>1, <2>2
<1> QED BY <1>2, <1>3, <1>4, <1>5

LEMMA NewestKeep ==
  ASSUME TypeOK, Same, NewestTrue,
         newest' # Nobody /\ loads'[newest'].at = "answered" =>
           newest # Nobody /\ loads[newest].at = "answered" /\ loads'[newest'] = loads[newest],
         late \subseteq late', Kept(late')
  PROVE  NewestTrue'
<1>1. SUFFICES ASSUME newest' # Nobody, loads'[newest'].at = "answered", NEW r \in Rows
               PROVE  (loads[newest].rows[r] = Listed(loads[newest].filter)[r])' \/ r \in late' \/ Owed(r)'
  BY DEF NewestTrue
<1> DEFINE L == loads[newest]
<1>2. L.rows[r] = Listed(L.filter)[r] \/ r \in late \/ Owed(r)
  BY <1>1 DEF NewestTrue
<1>3. CASE Owed(r)
  BY <1>3, OwedNext DEF Kept, Owed
<1>4. CASE r \in late
  BY <1>4
<1>5. CASE L.rows[r] = Listed(L.filter)[r]
  <2>1. CASE status'[r] = status[r]
    BY <2>1, <1>1, <1>5, SamePage DEF Listed
  <2>2. CASE status'[r] # status[r]
    BY <2>2, OwedNext DEF Kept
  <2> QED BY <2>1, <2>2
<1> QED BY <1>2, <1>3, <1>4, <1>5

LEMMA TruthStep ==
  TypeOK /\ ActsOK /\ ShownTrue /\ NewestTrue /\ [Next]_vars => ShownTrue' /\ NewestTrue'
<1> SUFFICES ASSUME TypeOK, ActsOK, ShownTrue, NewestTrue, [Next]_vars PROVE ShownTrue' /\ NewestTrue'
  OBVIOUS
<1> USE InstanceAssumption
<1>a. Same
  BY NextSame
<1>c. PageOK(Page, page) /\ Nobody \notin Loads
  BY TableOK DEF TypeOK, Page, Loads
<1>k. ASSUME NEW S, UNCHANGED <<status, acts>> PROVE Kept(S)
  BY <1>k DEF Kept
\* Another listing is asked for: nothing is claimed until it is answered.
<1>1. ASSUME NEW f \in Filters, Ask(f) PROVE ShownTrue' /\ NewestTrue'
  <2>1. current' = FALSE /\ loads'[newest'].at = "sent"
    BY <1>1, <1>a, AskType
  <2> QED BY <2>1 DEF ShownTrue, NewestTrue
<1>2. ASSUME UNCHANGED <<loads, newest, late, shown, current, basis, excused>>, Kept(late), Kept(excused)
      PROVE  ShownTrue' /\ NewestTrue'
  BY <1>2, <1>a, ShownKeep, NewestKeep
<1>3. ASSUME TimerFires \/ Retry PROVE ShownTrue' /\ NewestTrue'
  BY <1>3, <1>1 DEF TimerFires, Retry, TypeOK
<1>4. ASSUME NEW f \in Filters, SetFilter(f) PROVE ShownTrue' /\ NewestTrue'
  <2>1. CASE Page.delayed
    <3>1. Kept(late) /\ Kept(excused)
      BY <1>4, <1>k DEF SetFilter, server
    <3> QED BY <2>1, <3>1, <1>4, <1>2 DEF SetFilter
  <2>2. CASE ~Page.delayed
    BY <2>2, <1>4, <1>1 DEF SetFilter
  <2> QED BY <2>1, <2>2
<1>5. ASSUME CloseForm \/ (\E n \in Ops, r \in Rows \cup {Nobody} : OpenForm(n, r)) \/ UNCHANGED vars
      PROVE  ShownTrue' /\ NewestTrue'
  BY <1>5, <1>2, <1>k DEF CloseForm, OpenForm, vars, server, view, ghost
<1>6. ASSUME NEW l \in Loads, ServeLoad(l) PROVE ShownTrue' /\ NewestTrue'
  <2>1. UNCHANGED <<status, acts, shown, current, basis, excused, newest>>
    BY <1>6 DEF ServeLoad, server, view
  <2>2. ShownTrue'
    BY <2>1, <1>a, <1>k, ShownKeep
  <2>3. CASE newest # l
    <3>1. late' = late /\ (newest # Nobody => loads'[newest] = loads[newest])
      BY <1>6, <2>3 DEF ServeLoad, TypeOK
    <3> QED BY <3>1, <2>1, <2>2, <1>a, <1>k, NewestKeep
  <2>4. CASE newest = l
    <3>1. loads'[l].rows = Listed(loads[l].filter) /\ loads'[l].filter = loads[l].filter
      BY <1>6 DEF ServeLoad, TypeOK
    <3>2. Page' = Page
      BY <1>a, SamePage
    <3> QED BY <3>1, <3>2, <2>1, <2>2, <2>4 DEF NewestTrue, Listed
  <2> QED BY <2>3, <2>4
<1>7. ASSUME NEW l \in Loads, LoadAnswered(l) PROVE ShownTrue' /\ NewestTrue'
  <2>1. /\ UNCHANGED <<status, acts, late>> /\ loads' = [loads EXCEPT ![l] = FreeLoad]
        /\ shown' = loads[l].rows /\ basis' = loads[l].filter /\ loads[l].at = "answered"
        /\ current' = (newest = l) /\ newest' = IF newest = l THEN Nobody ELSE newest
    BY <1>7 DEF LoadAnswered, server
  <2>2. NewestTrue'
    <3>1. newest' # Nobody => newest' = newest /\ loads'[newest'] = loads[newest]
      BY <2>1 DEF TypeOK
    <3> QED BY <3>1, <2>1, <1>a, <1>k, NewestKeep
  <2>3. CASE newest = l
    <3>1. excused' = late
      BY <1>7, <2>3 DEF LoadAnswered
    <3>2. \A r \in Rows : loads[l].rows[r] = Listed(loads[l].filter)[r] \/ r \in late \/ Owed(r)
      BY <2>1, <2>3, <1>c DEF NewestTrue
    <3> QED BY <2>1, <2>2, <3>1, <3>2, <1>a, SamePage DEF ShownTrue, Listed, Owed, Due, Op
  <2>4. CASE newest # l
    BY <2>1, <2>2, <2>4 DEF ShownTrue
  <2> QED BY <2>3, <2>4
<1>8. ASSUME NEW l \in Loads, LoadFailed(l) PROVE ShownTrue' /\ NewestTrue'
  <2>1. /\ UNCHANGED <<status, acts, late, shown, current, basis, excused>> /\ loads' = [loads EXCEPT ![l] = FreeLoad]
        /\ newest' = IF newest = l THEN Nobody ELSE newest
    BY <1>8 DEF LoadFailed, server
  <2>2. newest' # Nobody => newest' = newest /\ loads'[newest'] = loads[newest]
    BY <2>1 DEF TypeOK
  <2> QED BY <2>1, <2>2, <1>a, <1>k, ShownKeep, NewestKeep
\* A request changes, but not one whose change of a row is owed.
<1>m. ASSUME NEW a \in Acts, NEW c, acts[a].at # "answered" \/ Op(acts[a].op).gives = {},
             acts' = [acts EXCEPT ![a] = c], UNCHANGED status
      PROVE  \A S : Kept(S)
  <2>1. \A b \in Acts : b # a => acts'[b] = acts[b]
    BY <1>m DEF TypeOK
  <2>2. \A r : ~Due(acts[a], r)
    BY <1>m DEF Due
  <2> QED BY <2>1, <2>2, <1>m DEF Kept
<1>9. ASSUME NEW a \in Acts, NEW n, NEW r, NEW seen, Send(a, n, r, seen),
             UNCHANGED <<status, loads, newest, late, shown, current, basis, excused>>
      PROVE  ShownTrue' /\ NewestTrue'
  <2>1. Kept(late) /\ Kept(excused)
    BY <1>9, <1>m DEF Send, FirstFree
  <2> QED BY <2>1, <1>9, <1>2
<1>10. ASSUME NEW n \in Ops, NEW r \in Rows \cup {Nobody}, NEW a \in Acts, Press(a, n, r)
       PROVE  ShownTrue' /\ NewestTrue'
  BY <1>10, <1>9 DEF Press, server, ghost
<1>11. ASSUME NEW a \in Acts, Submit(a) PROVE ShownTrue' /\ NewestTrue'
  BY <1>11, <1>9 DEF Submit, server, ghost
<1>12. ASSUME NEW a \in Acts, Refuse(a) PROVE ShownTrue' /\ NewestTrue'
  <2>1. Kept(late) /\ Kept(excused)
    BY <1>12, <1>m DEF Refuse, Answer, server
  <2> QED BY <2>1, <1>12, <1>2 DEF Refuse, server, view, ghost
<1>13. ASSUME NEW a \in Acts, Check(a) PROVE ShownTrue' /\ NewestTrue'
  <2>1. Kept(late) /\ Kept(excused)
    BY <1>13, <1>m DEF Check, server
  <2> QED BY <2>1, <1>13, <1>2 DEF Check, server, view, ghost
<1>14. ASSUME NEW a \in Acts, NEW r \in Rows \cup {Nobody}, Do(a, r) PROVE ShownTrue' /\ NewestTrue'
  <2>1. acts[a].at # "answered"
    BY <1>14 DEF Do
  <2>2. CASE Op(acts[a].op).gives = {}
    <3>1. Kept(late) /\ Kept(excused)
      BY <2>1, <2>2, <1>14, <1>m DEF Do
    <3> QED BY <3>1, <1>14, <1>2 DEF Do, view, ghost
  <2>3. CASE Op(acts[a].op).gives # {}
    <3>1. Due(acts'[a], r) /\ \A b \in Acts : b # a => acts'[b] = acts[b]
      BY <2>3, <1>14 DEF Do, Moved, Due, TypeOK
    <3>2. \A x \in Rows : x # r => status'[x] = status[x]
      BY <2>3, <1>14 DEF Do, TypeOK
    <3>3. Kept(late) /\ Kept(excused)
      BY <3>1, <3>2, <2>1 DEF Kept, Due
    <3> QED BY <3>3, <1>14, <1>2 DEF Do, view, ghost
  <2> QED BY <2>2, <2>3
<1>15. ASSUME NEW r \in Rows, NEW t \in Page.states \cup {None}, Others(r, t) PROVE ShownTrue' /\ NewestTrue'
  <2>1. /\ late' = late \cup {r} /\ excused' = excused \cup {r}
        /\ UNCHANGED <<loads, newest, shown, current, basis, acts>>
    BY <1>15 DEF Others, view
  <2>2. \A x \in Rows : x # r => status'[x] = status[x]
    BY <1>15 DEF Others, TypeOK
  <2>3. Kept(late') /\ Kept(excused')
    BY <2>1, <2>2 DEF Kept
  <2> QED BY <2>1, <2>3, <1>a, ShownKeep, NewestKeep
<1>16. ASSUME NEW a \in Acts, Succeed(a) PROVE ShownTrue' /\ NewestTrue'
  <2>1. acts[a].op \in Ops /\ acts[a].filter \in Filters
    BY <1>16, LiveAct DEF Succeed, TypeOK
  <2>2. CASE Op(acts[a].op).reload
    BY <2>1, <2>2, <1>16, <1>1 DEF Succeed
  <2>3. CASE ~Op(acts[a].op).reload
    <3>1. Op(acts[a].op).gives = {}
      BY <2>1, <2>3, <1>c DEF PageOK, OpOK, Op, Ops
    <3>2. Kept(late') /\ Kept(excused')
      BY <3>1, <1>16, <1>m DEF Succeed, server
    <3>3. UNCHANGED <<loads, newest, late, excused, basis>> /\ (current' => current /\ shown' = shown)
      BY <2>3, <1>16 DEF Succeed
    <3> QED BY <3>2, <3>3, <1>a, ShownKeep, NewestKeep
  <2> QED BY <2>2, <2>3
<1>17. ASSUME NEW a \in Acts, Fail(a) PROVE ShownTrue' /\ NewestTrue'
  <2> DEFINE gone == IF acts[a].done /\ acts[a].row \in Rows THEN {acts[a].row} ELSE {}
  <2>1. /\ late' = late \cup gone /\ excused' = excused \cup gone /\ acts' = [acts EXCEPT ![a] = FreeAct]
        /\ UNCHANGED <<status, loads, newest, shown, current, basis>>
    BY <1>17 DEF Fail, server
  <2>2. \A b \in Acts : b # a => acts'[b] = acts[b]
    BY <2>1 DEF TypeOK
  <2>3. \A r \in Rows : Due(acts[a], r) => r \in gone
    BY DEF Due
  <2>4. Kept(late') /\ Kept(excused')
    BY <2>1, <2>2, <2>3 DEF Kept
  <2> QED BY <2>1, <2>4, <1>a, ShownKeep, NewestKeep
<1> QED BY <1>3, <1>4, <1>5, <1>6, <1>7, <1>8, <1>10, <1>11, <1>12, <1>13, <1>14, <1>15, <1>16, <1>17
        DEF Next, ClientStep, AnswerStep, ServerStep
-----------------------------------------------------------------------------
\* The inductive invariant.
IInv == /\ TypeOK /\ RoleOK /\ ActsOK /\ FormOK
        /\ BusyOK /\ LoadingOK /\ ShownTrue /\ NewestTrue

LEMMA IInvInit == Init => IInv
<1> SUFFICES ASSUME Init PROVE IInv
  OBVIOUS
<1> USE InstanceAssumption
<1>1. TypeOK
  BY TypeInit
<1>2. RoleOK
  BY TableOK DEF Init, RoleOK, Page
<1>3. ActsOK /\ FormOK /\ BusyOK
  BY DEF Init, ActsOK, FormOK, BusyOK, NoForm, FreeAct
<1>4. LoadingOK
  <2>1. 1 \in Loads
    BY DEF Loads
  <2>2. ASSUME ~Page.delayed PROVE loads[1].at # "free"
    <3>1. loads = [l \in Loads |-> IF l = 1 THEN [FreeLoad EXCEPT !.at = "sent", !.filter = filter] ELSE FreeLoad]
      BY <2>2 DEF Init
    <3>2. loads[1] = [FreeLoad EXCEPT !.at = "sent", !.filter = filter]
      BY <2>1, <3>1
    <3> QED BY <3>2 DEF FreeLoad
  <2> QED BY <2>1, <2>2, TableOK DEF Init, LoadingOK, PageOK, Page
<1>5. ShownTrue
  BY DEF Init, ShownTrue
<1>6. NewestTrue
  <2>1. 1 \in Loads
    BY DEF Loads
  <2>2. newest # Nobody => newest = 1 /\ loads[1].at = "sent"
    <3>1. CASE Page.delayed
      BY <3>1 DEF Init
    <3>2. CASE ~Page.delayed
      <4>1. /\ newest = 1
            /\ loads = [l \in Loads |-> IF l = 1 THEN [FreeLoad EXCEPT !.at = "sent", !.filter = filter] ELSE FreeLoad]
        BY <3>2 DEF Init
      <4>2. loads[1] = [FreeLoad EXCEPT !.at = "sent", !.filter = filter]
        BY <2>1, <4>1
      <4> QED BY <4>1, <4>2 DEF FreeLoad
    <3> QED BY <3>1, <3>2
  <2> QED BY <2>2 DEF NewestTrue
<1> QED BY <1>1, <1>2, <1>3, <1>4, <1>5, <1>6 DEF IInv

LEMMA IInvHolds == Spec => []IInv
<1>1. IInv /\ [Next]_vars => IInv'
  BY TypeStep, RoleStep, ActsStep, FormStep, BusyStep, LoadingStep, TruthStep DEF IInv
<1> QED BY IInvInit, <1>1, PTL DEF Spec

\* The state of any page stays what it should be (ListPage's TypeOK).
THEOREM PageTypes == Spec => []TypeOK
<1>1. IInv => TypeOK
  BY DEF IInv
<1> QED BY IInvHolds, <1>1, PTL

\* No spinner turns and no button is disabled for nothing: load's finally and
\* the finally of each button run whatever the answer, and a reload takes its
\* place before the answer that led to it is forgotten.
THEOREM WaitsAreCaused == Spec => []WaitsHaveCause
<1>1. IInv => WaitsHaveCause
  BY DEF IInv, BusyOK, Holds, LoadingOK, FormOK, WaitsHaveCause, Flying, Airborne
<1> QED BY IInvHolds, <1>1, PTL

\* A page at rest shows what the server has, whatever the order of the answers:
\* each change of a row that the page asked for, and was told of as done, is
\* followed by a listing.  The return of a loan is told of as refused.
THEOREM TruthIsShown == Spec => []ShowsTruth
<1>1. IInv => ShowsTruth
  <2> SUFFICES ASSUME IInv, Flying = {}, current, basis = filter, NEW r \in Rows \ excused
               PROVE  shown[r] = Listed(filter)[r]
    BY DEF ShowsTruth
  <2>1. ~Owed(r)
    BY DEF Owed, Due, Flying
  <2> QED BY <2>1 DEF IInv, ShownTrue
<1> QED BY IInvHolds, <1>1, PTL

\* Menus, gates, buttons and routes agree on every page: no role is led to a
\* page that is closed to it, no request is refused for the role, none but the
\* renewal of a loan shown as late is refused for a status the page showed, and
\* none but the three of Misunderstood is refused for what it sends.
THEOREM OffersHold == Spec => []OffersAreAccepted
<1>1. IInv => OffersAreAccepted
  <2> SUFFICES ASSUME IInv PROVE OffersAreAccepted
    OBVIOUS
  <2>1. role \in Page.roles /\ role \in Page.by
    BY TableOK, InstanceAssumption DEF IInv, TypeOK, RoleOK, Page, PageOK
  <2>2. \A a \in Flying : ActOK(acts[a])
    BY DEF IInv, ActsOK, Flying
  <2> QED BY <2>1, <2>2 DEF OffersAreAccepted, ActOK
<1> QED BY IInvHolds, <1>1, PTL
=============================================================================
