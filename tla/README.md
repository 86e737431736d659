# Formal model of the school library (thuvientruong)

TLA+ specifications, TLC runs and TLAPS proofs of the multi-school library: its Go backend (`src/backend`) and its
browser client (`src/frontend`), kept beside the code.  Paths below are relative to the repository's root.

## 1. The system

| Component | State it keeps | Operations | Hard because |
|---|---|---|---|
| Circulation (`httpapi/borrow.go`, `reservations.go`, `fines.go`, `copies.go`) | `book_copies.status`, `borrow_records`, `reservations`, `fines`, `notifications` | borrow, return, renew, reserve, change a reservation, pay/waive, add/change/delete a copy | every handler is several SQL statements at READ COMMITTED; some rows are locked, some checks are not |
| Copy numbering (`copies.go:64-91`) | `copy_code`, unique within a school | createCopy's count-and-retry loop | two staff at once; deletions leave the count behind the codes |
| School lifecycle (`school.go`) | `schools.status`, `rejection_reason`, `approved_at` | register, approve, reject, suspend, reactivate | the status is read in one statement and written in another |
| Sessions and access (`auth.go`, `middleware.go`, `internal/auth`) | signed tokens held by browsers; nothing on the server | login, refresh, logout, every authenticated call | a token outlives the account, role and school it was made from |
| Catalog (`books.go`, `categories.go`, `authors.go`, `publishers.go`) | books, their authors, publishers, the category tree | create, update, delete, with references checked first | references deleted between check and insert; cascades; row locks taken in different orders |
| Accounts (`users.go`, `me.go`) | `users`, `parent_links` | create, update, reset password, link a parent | roles change between check and link |
| Notifications (`notifications.go`, `components/NotificationsMenu.tsx`) | rows written elsewhere; what the bell shows | list, mark read | the bell shows a notice as read before the server knows |
| Reports (`me.go`, `reports.go`) | none | count, list | the overview reads six counts without one snapshot |
| Client session (`frontend/lib/api.ts`, `lib/auth-context.tsx`, `proxy.ts`, `components/AppShell.tsx`) | tokens in `localStorage`, session cookies, one refresh promise per path, the user of each tab | fetch with one refresh and one retry, login, logout, the load of a page and its redirects | calls, tabs and a logout overlap a refresh; what tabs share is written in several writes |
| Pages (`app/[slug]/(app)/**`, `app/super-admin/(dashboard)`) | the rows of the last answer, a filter, `busyId`, an open form | load, filter, the buttons and forms of each page | answers arrive in any order or not at all; each callback is a closure over an older filter |
| Registration and book forms (`app/dang-ky/page.tsx`, `books/new/page.tsx`) | fields, the hint under the slug, the requests of one submission | type, check, submit | late checks, lost answers, many requests at once |
| Routing, start-up, seed, landing page | none of their own | wiring and rendering | - |

The components of the backend share the PostgreSQL database and nothing else: a request is a goroutine (`net/http`),
its statements go through a pool of 20 connections (`internal/db/db.go:19`), and requests see each other only through
committed rows and row locks.  There is no background job: whatever `docs/SRS.md` gives to one (FR-20, FR-22's expiry)
does not happen.  The client talks to it over HTTP only.  Its tabs are threads that share `localStorage` and cookies;
within a tab one JavaScript callback runs at a time, so that what interleaves is the callbacks, the answers, and the
writes of other tabs.

### What makes each part correct

* Circulation: a copy is with one reader, and the copy's status and its open loan agree, as long as staff who PATCH a
  copy look at its loan first; a return is final, charges the right fines once and serves the queue in order; a loan
  is renewed once; the limits of `docs/API.md` bind, or are overshot by no more than the requests in flight; nothing
  crosses schools; every request ends.
* Copy numbering: numbers stay in reach of the copies made (that codes are unique is up to the index); a creation
  ends.
* School lifecycle: the status moves along the documented edges only; a school that is open was approved.
* Sessions: no token before approval; whoever is disabled loses access within the life of an access token.
* Catalog: the references of a book are those of one request and exist; the categories form a forest.
* Client session: one refresh in flight per path; a call is retried at most once, as an account of its own school; the
  account shown is of the school of the page; no request waits for ever.
* Pages: a spinner or a disabled button waits for something; a page at rest shows what the server has, but for what
  others changed and what it was not told of; no button is refused on principle, but for the few of section 5.
* Forms and bell: the hint that the newest check of a slug gave is right; one submission makes one school, or one book
  with all of its copies; a notice shown as read is read, unless the request that says so was lost.

## 2. Modules

| Module | Content |
|---|---|
| `Circulation` | the desk: state, one action per SQL statement that matters, the specification, its invariants |
| `LendingDesk` | the abstract desk: who holds each copy, and whether that loan was extended |
| `CirculationClaims` | the refinement to `LendingDesk` and the rules of the docs as properties |
| `CirculationInv` | the inductive invariant |
| `CirculationProofs`, `QueueProofs`, `ReaderProofs` | the theorems: on loans and copies, on the queue of reservations and the waits for row locks, on what a reader may have and owes |
| `MCCirculation` | instances and workloads for TLC |
| `CopyCodes`, `CopyCodesProofs`, `MCCopyCodes` | how copies get their codes; the proof how far their numbers drift; instances |
| `Tenancy` | schools, accounts, tokens, and the requests that change them or are let in by them |
| `TenancyClaims` | what `Tenancy` promises, and its inductive invariant |
| `TenancyProofs`, `MCTenancy` | the theorems; the instance |
| `ClientSession` | the tabs of one browser: storage, cookies, proxy, auth providers, requests with refresh and retry |
| `ClientSessionClaims`, `ClientSessionProofs`, `MCClientSession` | what texts say and the code does not keep; the inductive invariant and the theorems; the instance |
| `Pages` | ten pages as tables: filters, buttons and forms, and what the handlers behind them take and do |
| `ListPage` | the machine that runs any of these pages with the server behind it |
| `ListPageClaims`, `ListPageProofs`, `MCListPage` | what texts say and the code does not keep; the theorems; the instance |
| `RegisterForm` | the form that registers a school, with the delayed checks of its slug |
| `NewBookForm` | the form that adds a book with its first copies; it extends `CopyCodes` |
| `NotificationsMenu` | the bell |
| `Screens`, `ScreensProofs`, `MCScreens` | these three, one open at a time; the theorems; the instance |

`Circulation`, `CopyCodes` and `Tenancy` stand beside each other: each takes of the others' rows what its own handlers
read.  `Circulation` knows accounts by status and limit and lets any copy that is absent appear (`CreateCopy`);
`CopyCodes` details that step as the loop of `createCopy`; `Tenancy` decides who gets as far as a handler. On the side
of the client, `NewBookForm` runs the requests of `CopyCodes` statement by statement; `ListPage` has the handlers as
single steps (two for those that read first and write later), with the rest of the world as `Others`; `ClientSession`
has of the server only whom it lets in.

### Circulation and the code

A *process* is a request being served.  `pc[p]` names the SQL statement it runs next (`idle`: none) and `req[p]` holds
the handler's local variables.  `tables` are the committed rows.  The correspondence:

* **Isolation.**  PostgreSQL's READ COMMITTED: a statement reads what is committed when it runs.  A statement is a
  step.  The writes of a transaction (`createBorrow`, `returnBorrow`, `renewBorrow`) are made in its commit step: each
  row it writes is locked from the statement that touches it until the commit, so no other statement could have
  written it, nor read the new value, in between.  Inserted rows are invisible until the commit.
* **Row locks** are not state: `HoldsCopy`, `HoldsLoan` and `HoldsResv` derive them from the program counters. A
  statement that locks a row has `CopyFree`, `LoanFree` or `ResvFree` in its guard, that is, it waits. `returnBorrow`
  locks the record, then the copy, then the reservation.  The DELETE of a copy (`copies.go:160`) goes the other way:
  it locks the copy, and its foreign key then waits for a record (below).  A return and a DELETE of one copy can so
  wait for each other; PostgreSQL finds the circle after `deadlock_timeout` and ends one of the two with an error, a
  500 to its client (`DeadlockFound`).
* **The promotion** (`SELECT ... ORDER BY reserved_at LIMIT 1 FOR UPDATE`, `borrow.go:237`) sorts its snapshot, waits
  for the first row, and, as PostgreSQL re-checks the WHERE clause once it has the lock, goes on to the next row if
  the first is no longer pending.  `req.queue` is the snapshot, `Promote` the wait and the re-check.  The snapshot is
  taken when the copy's lock is obtained: the statements between the two touch rows that the request holds already.
* **Autocommitted statements** (`createReservation`, `updateReservation`, `settleFine`, `updateCopy`, `createCopy`,
  `deleteCopy`, `updateUser`) are steps of their own.  A handler of one statement is one action; `updateReservation`
  reads only columns that never change before its UPDATE.
* **DELETE of a copy** fails on the foreign key of `borrow_records` (`0001_init.sql:94`, NO ACTION) when any loan,
  open or closed, refers to the copy.  `DeleteRead` is the SELECT of the status; `DeleteRow` the DELETE, which waits
  for the copy; if there are records of it, the check of the foreign key asks for one of them FOR KEY SHARE, whichever
  it meets first, and waits for who has it locked (`DeleteCheck`), holding the copy.
* **Careful staff.**  `updateCopy` writes the status it is sent and looks at no loan, so a PATCH of a lent copy to
  `available` lets it be lent again.  `CarefulSpec` (`CirculationClaims`) is the desk of staff who mark a copy
  `available` only while it is not lent, and `borrowed` only while it is; they write any other status at any time.
  `LoanExclusive`, `ShelfAgrees` and `ImplementsDesk` are claims about that desk, in the run and in the theorems; the
  others do without it.
* **Refusals.**  A request refused by its first statement changes nothing and has no step; one refused later ends in
  `Finish`.
* **Failure.**  `Abort` is the client's cancellation (the request's context is passed to every statement), a failing
  statement, and the server's stop: the transaction is rolled back, the later autocommitted statements never run.
* **Data.**  A fine carries its reason and its days, not its amount (`fineRatePerDayVN` times the days, or the price);
  dates are ticks, `TicksPerDay` of them a day; shelf, condition and names are left out.  Identifiers are model
  values, rows of `borrow_records`, `reservations` and `fines` are sequences in the order of insertion, which is the
  order of `reserved_at` as each INSERT is its own transaction.
* **Who asks.**  The role table of the routes and the ownership checks (`borrow.go:293`, `reservations.go:96`) refuse
  or admit a request before it changes anything; staff may ask for every operation but a reservation, so the model
  lets every request be asked.

`Workload` chooses the kinds of request of a run, `MaxLoans`, `MaxResv` and `MaxNow` bound rows and clock.

### CopyCodes and the code

`createCopy` (`copies.go:67-91`) is a loop of two autocommitted statements: `CountCopies` is the SELECT COUNT,
`Insert` the INSERT that succeeds, `Collide` the one that the unique index on school and code refuses, with the next
round or the 409 (`Retry`).  A code is the first eight characters of the book's id and a number: `PrefixOf` is a
constant, because two books of one school may share it, and `Number` is computed as in line 73.  `DeleteCopy` removes
any row, which is right for copies that were never lent; the refusals of `deleteCopy` are in `Circulation`.  That
codes are unique in a school is the guard of `Insert`, the index itself, and no property here.  `made`, `created` and
the field `from` of a request are history variables: how many copies of each book and how many in all were ever made,
and the former when the request last counted.  `created` serves the bound `MaxMade`, the others `NumbersDrift`.  The
`id` of a row is its rank among the copies ever made of its book, so that it is not used again after a deletion, as a
UUID is not.

### Tenancy and the code

* **State.**  `school` and `account` are the rows; a slug or account that does not exist yet has status `none`.
  `tokens` are the signed tokens that somebody holds and that have not expired; the server keeps none, so a token is
  state only as long as it can be used.  Passwords, names and contact data are left out: a person who asks to sign in
  knows the password.  `since` is a history variable (ticks since an account last changed).
* **Middleware.**  `Open` is `resolveSchool`, `OfThisSchool` the comparison of slug and token in `requireAuth`,
  `MayCall` is `requireRole` for the two routes that change accounts.  They are guards of the step with which a
  request arrives, as they read one row of `schools` and the token, and the handler's statements come later: a school
  may be suspended, an account barred, between `Admit` and `UpdateUser`.
* **login, refresh, superAdminLogin** read the account (`ReadUser`) and issue tokens in a later step (`IssueTokens`);
  a bcrypt comparison lies between.  `Found` is the WHERE clause each of them uses.  The super admin's refresh cookie
  is left out, as no endpoint reads it.  `Logout` gives up the refresh cookie; an access token stays good until it
  expires, whoever holds it.
* **transitionSchool** reads the status (`CheckStatus`) and writes by id alone (`WriteStatus`).
* **registerSchool** is one transaction of two INSERTs with nothing read before that matters; it is one step.
* **Time.**  `Tick` ages tokens.  It is not taken while a request is between reading an account and issuing tokens: a
  request is shorter than a tick.  This is an assumption about the length of a request (tokens live 15 minutes and 7
  days, `auth.go:16-17`; the server's write timeout is 30 seconds, `cmd/api/main.go:57`), and `StaleRightsExpire`
  rests on it.
* **Bounds.**  `MaxTokens` bounds sign-ins, `Visits` who signs in where, `Patches` the rows that staff may leave;
  `work`, chosen once, is the mix of requests that comes, so that one run explores two mixes instead of their product.

### ClientSession and the code

* **Tabs.**  `at` and `screen` are the site and the page of each tab: `app` stands for everything `AppShell` wraps,
  `login` for the login form.  `user`, `loading` are the state of `AuthProvider` (`SuperAdminAuthProvider` at
  `Root`).  `bounced` records that the effect of `AppShell` has asked for the login page and was turned back: its
  dependencies do not change, so it does not run again.
* **Shared stores.**  `token` and `slug` are the two keys of `localStorage`, `cookie` and `rootCookie` the cookies the
  proxy looks at, `refresh` the HttpOnly cookie of each school's path.  Where the code writes several of them in one
  function, the first write is in the action and the others are `chores`: another tab may run between them, the tab
  itself may not (`Ready`).
* **Requests.**  `coreFetch` is `Start`, `Serve` or `Lose`, then, for a first 401 at a school, `AwaitRefresh` and
  `Resume`. `fetching` is the entry of `refreshPromisesByPath`, `ServeRefresh` the server, `Refreshed` the callback
  that stores the token.  A retry is sent with the token of the answer.  What follows the last answer is `LoadUser`,
  `LoggedIn`, `LoggedOut` or `Shown`.
* **Proxy.**  `Gate` is `proxy.ts`; `FullLoad` is a document load, which loses the memory of the tab; `Redirect` is a
  client-side navigation, which keeps it.
* **Time** is left out: any token may have expired when it is used (`Verdicts` always has 401), any cookie may have
  lapsed (`CookieLapses`).  Bounds: `Trips` gives each tab the sites it goes to and its requests at a time.

### Pages, ListPage and the code

A page is a table: `roles` is its gate, `by` the route's, `lists` the statuses a filter lists, `ops` its buttons and
forms.  Of a button the table has the status it is drawn on (`offered`), what the handler takes (`takes`) and leaves
(`gives`), for whom it is drawn and whom the route lets in, and how page and handler go about it: disabled by
`busyId`, followed by `load()`, refused also by a rule about something that is no status of the row (`picky`), reading
before writing (`split`), not understood (`garbled`) and, with a 400 for an answer, done all the same (`anyway`).
`Understood` computes `garbled` from the fields the form sends and those the handler needs.  Two buttons send no body
to a handler that decodes one: the return of a loan (`BorrowReturn`) and the reset of a password (`ResetPassword`),
both `garbled` and `anyway`.  `Misunderstood` and `RefusedAsShown` list the requests that are always answered 400 and
the button that is drawn on a status which its handler refuses; `OffersAreAccepted` says that there are no others.

`ListPage` is the component: `Ask` is `load()`, with the filter of the closure; `LoadAnswered` and `LoadFailed` are
`.then` and `.catch` with their `.finally`; `Press`, `OpenForm`, `Submit`, `CloseForm` are the events; `Succeed` and
`Fail` what runs after the `await`, with the filter the request was started with.  `whole` pages (`AppShell`'s
children that return a spinner or an `ErrorState` in place of everything) unmount their forms.  `Refuse`, `Check` and
`Do` are the handler; `Others` changes rows along `drift`.  `newest`, `current`, `basis`, `late` and `excused` are
ghosts: which listing is the last one asked for, whether `shown` is its answer, and which rows changed behind it.

Bounds: `MaxLoads` listings and `MaxActs` other requests on their way, two rows where the buttons of two rows share
one `busyId` and one row elsewhere (`Held`), one of the roles that a page does not tell apart (`Acting`; all of them
open the page), and `Room`: a step of the user leaves a slot for the listing that each answer will ask for.  Search
boxes and paging are left out: a page has fewer rows than one answer (20, `respond.go`).

### RegisterForm, NewBookForm, NotificationsMenu and the code

`SlugChanges` is the effect on the slug with its 400 ms, `CheckEnds` the callback of a check, `HintFrom` the hint that
any answer becomes, also the answer to a check of an older slug, which `NewestHintIsRight` does not speak of; `newest`
and `about` are ghosts for that property.  `Submit` to `Complain` are `handleSubmit` and `registerSchool`.

`NewBookForm` extends `CopyCodes`: `SubmitBook` and `MakeBook` are the first request, `AskCopies` the `Promise.all`,
`StartCopy` and `CreateCopy` the requests in it, `LoseCopy` a lost one, `CopiesFail` and `Leave` the two ends.  A
failing copy does not stop the others, as `Promise.all` does not.  `OthersAdd` and `OthersDelete` are other staff at
work on copies, on their own pages.

`NotificationsMenu` has the two requests of the bell; the server's `read_at` is not what the bell reads, so that what
was read is unread after a reload (`ServeNotices`).

## 3. Runs

| Run | Instance | Shows |
|---|---|---|
| `Lend` | `CarefulSpec`; 2 requests, 2 copies (1 at the start), 2 readers, 2 loans, PATCH to `lost`, `available`, `borrowed` | no copy is lent twice, copy and loan agree, deleted copies had no loans, returns are final, one renewal; refinement of `LendingDesk` |
| `Limit` | 3 requests, 3 copies (2 at the start), PATCH to `available` at any time, 1 reader, limit 1, 4 loans | `max_borrow` is overshot by at most the other requests in flight (`LimitBound`), though copies come and lent ones are marked available |
| `Queue` | 2 requests, 2 copies that may be deleted, 1 reader, 2 loans, 2 reservations | promotions are in order and told once, whatever staff do to reservations meanwhile; every request that started ends, the circle of a return and a DELETE included |
| `Fines` | 2 requests, 1 copy, 2 loans, 3 reservations, 4 ticks of half a day | fines are those of the due date as it stood at the return, rounded up, one per reason; duplicates of a reservation are at most as many as requests |
| `Alone` | 1 request, 2 schools, 2 books, 2 copies, 2 readers | one at a time, the rules of API.md and SRS.md on loans, renewals and reservations hold, and nothing joins two schools |
| `Codes` | 2 requests, 3 books (two share a prefix), 2 attempts, 4 copies made | numbers run ahead only by races and deletions, every creation is answered |
| `Tenancy` | 2 requests, 3 schools, 6 accounts, tokens of 1 and 2 ticks | open schools were approved, no token before approval, lost rights end with an access token, accounts change by admins of their school |
| `Pages` | ten pages, 1 or 2 rows, 2 listings and 1 or 2 requests on their way, all of them late or lost | waits have a cause, a page at rest shows what the server has and the page was told of, offers are refused when stale or in the ways listed |
| `Session` | 2 tabs, 2 schools and the super administrator, 3 accounts, 4 trips | nothing is done twice, retries and the account shown are of the own school, requests end |
| `Screens` | 3 slugs, 2 checks; 2 books, 2 errors, 3 requests, 2 attempts, 3 copies made, any deleted; 2 notices | the newest hint is right, one school, one complete book for each error shown and one, first copies, read is read, submissions end |
| `NoBody` | as `Pages`, the pages of loans and of users | **violated**: a request that was answered 400 has been done |
| `DeadEnd` | as `Session`, 2 tabs at 2 schools | **violated**: a page of one school is not led to its login page |

Why the bounds are enough.  The races of this code are between two requests over one row: two requests are what it
takes, and `Limit` has three because its bound counts them.  A copy is lent, returned and lent again within two loans.
A queue needs two reservations to have an order, and one reader may have both, from two requests that overlap: one
reader is enough in `Queue`, as `borrow.go:237` does not look at who reserved. Three reservations of one reader are
one more than two requests may leave (`Fines`).  In `Fines` a tick is half a day, so that a return may be due exactly
now, half a day late and whole days late.  In `Codes` two attempts reach the end of the loop with few copies; three
requests are the smallest batch of `NewBookForm` in which two collide with one another and a third with both; with two
errors the form is sent a second time and a second book may come, and a third submission would begin as the second
did.  In `Tenancy` the access token lives one tick and the refresh token two, so the refresh token outlives it. In
`Pages` two listings are what it takes to answer out of order, two requests to share a `busyId`.  In `Session` two
tabs are what it takes to mix the token of one school with the slug of another; a tab alone with two requests is what
it takes to share one refresh; the four trips are chosen at the start so that one run explores them one after another.

`CHECK_DEADLOCK FALSE` where the rows and the clock are bounded: with the bounds spent and every request answered,
nothing more comes, and that is no error.  A circle of row locks would not be seen as a deadlock anyway, since `Abort`
is always possible; `EveryRequestEnds` is what would find one that nothing resolves.

### Fairness

* `Circulation`: `SF_vars(Proceed(p))` for each request.  A handler's next statement is disabled while another request
  holds the row and enabled when it is released.  The Go scheduler runs every goroutine, PostgreSQL grants a row lock
  to its waiters in the order they came, and every holder ends; so a statement that can run again and again is run.
  `WF_vars(DeadlockFound(p))`: PostgreSQL's detector runs after `deadlock_timeout` in every backend that waits, and a
  circle lasts until it does. There is no fairness on arrivals, on `Abort` or on the clock.  `Queue` checks it on
  loans, returns, reservations, their changes and deletions of copies, the requests that wait for rows in different
  orders.  Without `DeadlockFound` the run fails: a return and a DELETE wait for each other for ever.
* `CopyCodes`: `WF_vars(Proceed(p))`.  Its statements wait for nobody.
* `Tenancy` and `Pages` claim nothing that must eventually happen.
* `ClientSession`: `WF_vars(DoChore(t))`, a function that has begun goes on; `SF_vars(Onward(t, k))`, a request is
  answered or fails (the browser gives up on any), and its callback is run although other callbacks of the tab, and
  their writes, come before it again and again: an event loop is first in, first out.  No fairness for the user.
  `CallsSettle` excludes a user who reloads for ever, as a reload drops the requests it finds.
* `NewBookForm`: weak fairness for the requests, their losses and the script between them (`BookFair`).

## 4. Proofs

TLAPS proves for every value of the constants that satisfies the modules' assumptions:

| Theorem | Rests on |
|---|---|
| `IInvHolds`, `TypesHold`, `RenewalHolds`, `IsolationHolds`, `LoanKeepsCopyHolds`, `ReturnedIsFinalHolds`, `OneNoticeHolds`, `FIFOHolds`, `WaitsResolveHolds`, `HandlersAdvanceHolds`, `FinesMatchHolds` | `RowAssumption`, `TimeAssumption`, `PatchAssumption`, `BoundAssumption` of `Circulation` |
| `LimitBoundHolds` | the same, and `FiniteDesk`: finitely many requests at a time (at least one), and finitely many account limits |
| `DuplicatesBoundHolds` | the same, and that `Procs` is finite |
| `LoanExclusiveHolds`, `ShelfAgreesHolds`, `DeskRefinement` | the same, of `CarefulSpec`: a PATCH marks a copy `available` only while it is not lent, and `borrowed` only while it is |
| `CodesTypes`, `NumbersDriftHolds` | `CodesAssumption` of `CopyCodes` |
| `SessionTypes`, `NothingTwice`, `RetriesAreOwn`, `ShownIsOwn`, `WaitsAreCaused`, `CallsAdvanceHolds` | `SessionAssumption` |
| `PageTypes`, `WaitsAreCaused`, `TruthIsShown`, `OffersHold` | `InstanceAssumption` of `ListPage` |
| `NoticesRead`, `OneSchool`, `HintRight`, `BookComplete`, `ScreenTypes`, `FormRunsCodes`, `FormCodes` | `ScreensAssumption` |
| `FirstCopies` | the same, and `OwnPrefixes`: no two books of a school share their first eight characters |
| `TenancyInvariant`, `TenancyTypes`, `OpenWasApprovedHolds`, `TokensNeedApprovalHolds`, `StaleRightsExpireHolds`, `RightsComeFromAdminsHolds` | `TenancyAssumption` |

**Circulation.**  None of the invariants is inductive: that a return may close its record depends on what the request
read some statements ago.  `IInv` (`CirculationInv`) adds, beside the types and `RowsOK`, what every request in flight
knows of the rows it has locked (`ReqOK`: a loan under way holds an available copy, a return an open record with the
due date it read) and that no two requests hold one row (`LocksOK`).  With these, a commit finds the rows as it left
them.  The proof has a lemma for each step that writes (`BorrowCommitInv`, `ReturnCommitInv`, ...), one for the steps
that only read (`ReadSteps`), one for each arrival.  `ShelfInv` is a second layer: a copy that is marked available has
no open loan, and none has two; `BorrowedInv` is the other half, that a copy marked borrowed has one. Both are
invariants of `CarefulSpec`.  `CarefulStaff` cannot be dropped: `updateCopy` looks at no loan, and a PATCH to
`available` of a lent copy lets it be lent again.  It says no more than that: staff may mark a copy available that is
not lent, or lost while it is, and a PATCH may race a loan or a return of the copy.

`QInv` (`QueueProofs`) is what a return knows of the queue it looked at, on top of `IInv`: while it chooses, whatever
is pending beside its list came later (`ChoosesOK`), so the first of the list that it can lock and that is still
pending is the oldest (`ChosenOK`).  Cancelling takes rows away and an insert adds a newer one, so neither disturbs
this; a reservation that was promoted may not become pending again (`PromotedOnce`), and one return holds it
(`PicksOK`).

What `EveryRequestEnds` owes to the code, and not to fairness, is proved for any number of requests. `WaitsResolve`
says that a request waits for one other at a time; that a circle of waits is always a return that has its record and
wants the copy, and a deletion that has the copy and meets the record; that whoever waits for a request that waits
finds, one further, a request that can go on or such a circle; and so that, while requests are in flight, one of them
can go on or PostgreSQL has a circle to end.  `DInv` is what it needs beside `IInv` and `QInv`: a deletion that waits
for a record has the copy of that record.  TLC checked it first, with three requests on the instance of `Queue`
(59,724 distinct states up to symmetry).  `HandlersAdvance` says that each step of a request is a later statement of
its handler, or takes one reservation off the finite list that its promotion still has to try.  That a request which
can go on does so, and that the detector runs, is the fairness of section 3, and the conclusion stays with TLC.

`DuplicatesBound` is not inductive, because a request that has found no duplicate will insert all the same.  `DupInv`
counts the pending reservations of a reader for a book with the requests about to insert one: together they are at
most the requests there are.  A request passes the look for duplicates only when nothing is pending, and an insert
moves one from one side to the other (`DupCounts`, `DupStep`); nothing makes a reservation pending again.

`ReaderProofs` is about what a reader may have and owes.  `FInv` states `FinesMatchReturns` by the row: every fine is
of a closed record, as `ReturnOK` says that the record a return is about to close was open, and hence has no fine yet
(`FinesStay`, `ReturnCommitFines`).  The days are rounded up whatever the length of a day (`RoundedUp`).

`LimitBound` is not inductive, because it says nothing of the requests that have counted the reader's open loans and
not yet lent. `LimitInv` counts these with the loans: the open loans of a reader and the requests of his that are past
the count are together at most the largest limit plus the number of requests the server runs at once, less one.  A
request that passes the count adds one to that sum when the loans are below the limit, and `BorrowCommit` moves one
from one side to the other.  The largest limit is the largest value of a function on a finite set, whose existence is
proved by a minimal counterexample (`LargestValue`, on the well-foundedness of strict inclusion of finite sets), as
the rules of induction are out of the prover's reach.

`LoanRules` and `ReserveRules` compare the rows at a commit with the checks made some statements earlier.  They are
claims about requests that do not overlap, model-checked with one request at a time (`Alone`); `LimitBound` and
`DuplicatesBound` are what is left of them when requests do.

**The refinement** maps a copy to the reader of its open loan and to whether that loan was renewed.  `BorrowCommit`
maps to `Lend`, `RenewCommit` to `Extend`, `ReturnCommit` to `TakeBack`, everything else stutters (`DeskLend`,
`DeskExtend`, `DeskTakeBack`, `DeskSame`).

**Copy numbers.**  After a deletion the count is below the numbers that are taken, so a number may exceed the number
of copies that the book has. `NumbersDrift` bounds by how much, whatever the numbers of requests, attempts and
deletions, and it is the deepest of these arguments.  Of N requests the m-th copy of a book gets a number of at most
(2N - 1) m / N (`InReach`).  The `Debt` of a request says how far the number it tries goes beyond the reach of the
next copy, and each lost attempt adds at most one to it.  `DriftInv` says that debts are rare: at most N - t + 1
requests have t or more (`LevelsOK`), because whoever makes another request lose had a debt as high, and is done.  So
no debt exceeds N, which is just what `InReach` needs when the request inserts.  TLC checked `DriftInv` first, with 3
requests, 4 attempts and 5 copies (87,733 states).

**Tenancy.**  `IInv` (`TenancyClaims`) adds what a request under way knows: a handler that was admitted has a caller
of its school; a request that is about to issue tokens has the role the account has, or the account changed within
this tick; a request about to write `suspended` or `approved` (by a reactivation) has a school that was approved once,
which stays true although the status may no longer be the one it checked.  The last point is why `OpenWasApproved`
survives the unlocked check of `transitionSchool`.

**The session.**  `IInv` (`ClientSessionProofs`) adds to the types what each request knows (`CallOK`): one that was
sent for the first time has done nothing, one that was refused with 401 has done nothing either, so a second try is
the first to act; a second try carries an account of the school of its page, because the refresh that brought it was
read from the cookie of that path.  `TabOK` says that the user shown and the grants on their way are of the tab's
site, and that the tab waits for what is on its way; `CookiesOK` that the refresh cookie of a school is of an account
of that school.  Nothing is said of `token` and `slug`: other tabs tear them, and the theorems hold all the same.
`CallsAdvance` is what `CallsSettle` owes to the code and not to fairness: a request goes on through its stages
(`Stage`) and never back, unless its page is loaded again; with `WaitsHaveCause`, what it waits for is on its way.
TLC checked it and the invariant on the instance of `Session` first (139,100 states).

**The pages.**  `ListPageProofs` looks at the tables once: `PageOK` is what the machine needs of a page (a button
leaves statuses of its page, reloads if it leaves any, is drawn for none but the roles the
route lets in, and on none but the statuses the handler takes, `RefusedAsShown` aside), and `TableOK` proves it of all
ten.  The rest is about any page.  `IInv` adds what is known of each request (`ActOK`), of the open form (`FormOK`)
and of the disabled button (`BusyOK`), and, for `ShowsTruth`, that a row of a page that answers its last listing may
differ from the server's only if somebody else changed it or if the page's own change is `Owed`: its answer is on the
way, and a reload comes with it. `NewestTrue` says the same of an answer that has not arrived.  Both count changes by
`Kept`.  The bounds `MaxLoads`, `MaxActs`, `Held` and `Acting` are constants of the theorems, so the small numbers of
the run do not matter to them.

**The screens.**  `ScreensProofs` has one invariant for each of the three, as a step of one leaves the others alone.
`BellInv` says that the menu never hears of more than the server has.  `RegisterInv` says that, while the form is
there, the only school it registered and has not lost the answer of is the one its button waits for (`OneOpenAnswer`),
and that the check started last asks about the slug in the field (`LastCheckIsRight`).  `BookInv` counts: a job that
is done has made a copy, and a book was made for each error shown and at most one more.  `FirstInv` is about the loop
of `createCopy`.  Without deletions, each round that failed met a copy of the same book with a number below those
tried next, so that a request is refused only after as many copies as it has attempts.  Deletions lead the count back,
and a request may meet a number again: with five attempts, one that collides on numbers 1, 3 and 5 while others
insert, sees copies 1 and 3 deleted, and collides on 5 and on 6, is refused of a book that has had four copies.
`Accounted` therefore charges each failed round to a number that is in use below those it tries next (`Met`), to a
deletion that took such a number away (`Gone`), or to one since it counted first, which led the count back; hence
copies made and copies deleted are together as many as attempts, and `made` alone is not (TLC finds that with five
attempts). It needs `OwnPrefixes`, as a copy of another book may stand in the way otherwise (the run `Codes` has such
books).

`FormRunsCodes` shows that the form implements `CopyCodes`: with `NewBookForm`'s loops in the place of the requests,
every step of `Screens` is a step of `CopyCodes` or leaves its variables alone.  `FormCodes` then has the drift of
numbers from the theorem on `CopyCodes`, without a proof of its own.

**Model-checked only** are the four liveness properties `EveryRequestEnds`, `CreationEnds`, `CallsSettle` and
`SubmissionEnds`: liveness under fairness, and ENABLED, are out of the prover's reach.  For the first and the third,
what the fairness acts on is proved (`WaitsResolve` and `HandlersAdvance`, `WaitsHaveCause` and `CallsAdvance`).  So
are `LoanRules` and `ReserveRules`, which hold of requests that do not overlap.  Every other invariant and action
property of a passing run is stated by one of the theorems, under the conditions of the table.

## 5. Where code and documents disagree

Shown by a run (PROJECT.json, "findings"):

* `NoBody`: the page of loans returns a copy without a body (`borrow/page.tsx:54`, as `docs/API.md:131` has it).
  `decodeJSON` writes a 400 (`respond.go:31`), `returnBorrow` drops its FALSE (`borrow.go:150`) and commits: the page
  reports a failure, does not load again and goes on showing the loan; a second press is answered 400 again.
  The page of users resets a password in the same way (`users/page.tsx:64`, `users.go:221`): the password is a random
  one that nobody sees.
* `DeadEnd`: two schools in two tabs may leave the token and slug of one with the cookie of the other.  A page then
  asks for its login page, the proxy turns it back because of the cookie, and it stays at its spinner
  (`AppShell.tsx:22`, `proxy.ts:48`, against `docs/SRS.md:675`).

Stated as definitions and refuted by TLC when they are added to a configuration (in brackets), but not kept as runs:

* `WithinLimit` (`Limit`): `max_borrow` is not a limit, as open loans are counted without a lock (`borrow.go:91`);
  `LimitBound` is what holds.
* `SettledOnce` (`Fines`): a paid fine may become waived and the reverse (`fines.go:87`).
* `LoneCreationWorks` (`Codes`, with one request at a time): after deletions nobody races and still no copy can be
  created, as the count stays below the numbers that are taken (`copies.go:67`).
* `TokenMatchesSlug` (`Session`): two tabs leave the token of one school under the slug of the other (`api.ts:49`).
* `EmptyMeansNoMatch` (`Pages`): an answer that is out of date, or to an older filter, is shown as "no rows".
* `FulfilledFromReady` (`Pages`): a reservation is fulfilled although it was cancelled meanwhile.

Seen while modelling, without a run, because the code does not attempt what the document asks:

* Two overlapping `createReservation` of one reader for one book both pass the duplicate check (`reservations.go:49`).
* The page of loans draws "renew" on a loan it shows as overdue (`borrow/page.tsx:148`), which `renewBorrow` always
  refuses (`borrow.go:303`).
* A return and a DELETE of the same copy may wait for each other's rows; PostgreSQL ends one of them after a second,
  with a 500 for a return that nothing is wrong with, or for the DELETE, which would have failed on the foreign key
  with a 500 anyway.
* FR-22: a copy whose return made a reservation ready stays `available` and may be lent to anybody (`borrow.go:226`);
  `expires_at` is written and only shown, a reservation never expires; staff who set `ready` by PATCH send no
  notification.
* FR-23: `fulfilled` is reachable from `pending`, and an ended reservation may be made `ready` again
  (`reservations.go:99`).
* FR-20: nothing writes the status `overdue`; `me.go:43` counts it, so a parent always sees zero overdue loans.
* FR-15: a copy in status `reserved` may be deleted (`copies.go:156`).
* `createReservation` looks for an available copy and inserts later: a copy returned in between leaves a pending
  reservation beside a copy on the shelf, and only the next return of the book will promote it.  The rule holds one
  request at a time (`ReserveRules` in `Alone`).
* The comment of `transitionSchool` (`school.go:268-270`) promises 409 outside the allowed starting states; as the
  check and the write are separate, of an approval and a rejection that overlap both succeed, and the school is what
  the later made of it.
* The form for an account sends `name` where `createUser` wants `full_name`: it is refused whatever is typed
  (`UserForms` of `Pages`).  The forms for a book send `type` and `author_id` where the server reads
  `publication_type` and `author_ids`; that for a copy sends `location` and a numeric price.  The catalogue offers
  "textbook" and other types that the column does not have: the listing fails.
* A notice that was read is unread again after a reload: the bell looks for `read`, the server sends `read_at`.
* The page of fines adds up amounts that are strings; waiving asks for no confirmation (NFR-19).  Lists show the first
  20 rows and no more.
* One `busyId` serves all rows: the answer to one enables the button of another whose request is still on its way, and
  it may be pressed again.
* Saving the form of a book shows again the book it was opened with, copies included, whatever was loaded since
  (`books/[id]/page.tsx:328`).
* The answer to a check of an older slug that comes late becomes the hint of the newer one (`dang-ky/page.tsx:77`),
  which it may call free when it is taken.  A registration whose answer is lost is told "taken" when it is sent again,
  or makes a second school under another slug.
* The form for a new book reports an error although the book was made, and a second try makes a second book.
* `loadUser` clears the stored session after any failure, a lost answer too, whichever tab stored it.  A logout whose
  request is lost leaves the refresh cookie, which the client cannot clear itself.  A second tab of the super
  administrator has a token and no user (`sa_user` is in `sessionStorage`) and is asked to log in again.

## 6. What is not modelled

`PROJECT.json` lists every component.  Not modelled: the catalogue below the book (authors, publishers, the tree of
categories under foreign keys: the database decides; a cycle of categories is possible, as nothing looks for one), the
links of parents themselves, reports and lists as such (they change nothing; the overview takes six counts without one
snapshot), routing, configuration, start-up, the seed program, the landing page and the root layout.  Amounts of
money, dates of day, texts, images, search boxes and paging are abstracted away.  A crash of PostgreSQL itself is its
own business (committed rows stay); a crash of the server is `Abort` of every request; a reload of a tab is `Visit`.

## 7. Plan

1. `Catalog`: books with authors, publishers and categories under foreign keys and cascades; checks before the
   transaction, two updates of one book, the category tree.
2. `Accounts`: `linkParent` against role changes; the password of `resetPassword`.
3. Proofs: the refinement of the account rows of `Circulation` by those of `Tenancy`.
