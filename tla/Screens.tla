------------------------------ MODULE Screens ------------------------------
(* The three screens of the client that are not listings, one of them open *)
(* at a time: the registration of a school, the form for a new book, and   *)
(* the notices.                                                            *)
EXTENDS Naturals, FiniteSets

CONSTANTS Slugs, Invalid, NoSlug, MaxChecks,                                  \* RegisterForm
          Procs, Books, PrefixOf, SchoolOf, None, Attempts, MaxMade, MaxErrors, \* NewBookForm
          Notices                                                            \* NotificationsMenu

ASSUME ScreensAssumption ==
  /\ Slugs # {} /\ Invalid \subseteq Slugs /\ NoSlug \notin Slugs /\ MaxChecks \in Nat \ {0}
  /\ Attempts \in Nat \ {0} /\ MaxMade \in Nat /\ MaxErrors \in Nat
  /\ IsFiniteSet(Procs) /\ IsFiniteSet(Books) /\ None \notin Books

VARIABLES
  screen,
  slug, touched, hint, timer, checks, sent, wrong, submitted, schools, mine, lost, newest, about,
  copies, made, created, req, stage, titled, book, jobs, errors, asked,
  stored, asking, list, items, loaded, marks, missed

Register == INSTANCE RegisterForm
NewBook  == INSTANCE NewBookForm
Bell     == INSTANCE NotificationsMenu

regVars  == <<slug, touched, hint, timer, checks, sent, wrong, submitted, schools, mine, lost, newest, about>>
bookVars == <<copies, made, created, req, stage, titled, book, jobs, errors, asked>>
bellVars == <<stored, asking, list, items, loaded, marks, missed>>
vars     == <<screen, regVars, bookVars, bellVars>>

Init ==
  /\ screen \in {"register", "new_book", "notices"}
  /\ IF screen = "register" THEN Register!RegInit
       ELSE Register!RegInit /\ schools = {}
  /\ NewBook!BookInit
  /\ Bell!BellInit
  /\ screen # "notices" => \A n \in Notices : stored[n] = "none"

InRegister == screen = "register" /\ Register!RegNext /\ UNCHANGED <<screen, bookVars, bellVars>>
InNewBook  == screen = "new_book" /\ NewBook!BookNext /\ UNCHANGED <<screen, regVars, bellVars>>
InNotices  == screen = "notices" /\ Bell!BellNext /\ UNCHANGED <<screen, regVars, bookVars>>

Next == InRegister \/ InNewBook \/ InNotices
Spec == Init /\ [][Next]_vars
FairSpec == Spec /\ NewBook!BookFair
-----------------------------------------------------------------------------
\* What the screens and their servers hold.
TypeOK ==
  /\ screen \in {"register", "new_book", "notices"}
  /\ Register!RegTypeOK /\ NewBook!BookTypeOK /\ Bell!BellTypeOK

\* The hint under the slug is right when the newest check gave it; an older
\* answer that comes late is about another slug and may be wrong.
NewestHintIsRight        == Register!NewestHintIsRight
\* One form registers one school, unless the answer to it was lost.
OneSchoolPerAnswer == Register!OneSchoolPerAnswer
\* A submission makes one book, and leaves when all of its copies are there.
OneCompleteBook    == NewBook!OneCompleteBook
\* A copy is refused only of a book with as many copies made and deleted as
\* createCopy has attempts, however many are made at once.
FirstCopiesSucceed == NewBook!FirstCopiesSucceed
\* A submission of a book ends.
SubmissionEnds     == NewBook!SubmissionEnds
\* A notice shown as read is read.
ReadIsStored       == Bell!ReadIsStored
=============================================================================
