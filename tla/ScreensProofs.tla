--------------------------- MODULE ScreensProofs ---------------------------
(* Proofs about the screens, for any slugs, notices, books and requests.   *)
EXTENDS Screens, FiniteSetTheorems, TLAPS

-----------------------------------------------------------------------------
(* The notices.  What the menu has heard of a notice is behind what the    *)
(* server knows: it never takes back that there is a notice.               *)
HeardIsTrue ==
  \A n \in Notices :
    /\ list[n] # "read"
    /\ list[n] # "none" \/ items[n] # "none" \/ marks[n] = "sent" => stored[n] # "none"

BellInv == Bell!BellTypeOK /\ HeardIsTrue /\ Bell!ReadIsStored

LEMMA BellStart == Init => BellInv
<1> SUFFICES ASSUME Init PROVE BellInv
  OBVIOUS
<1>1. /\ stored \in [Notices -> {"none", "unread", "read"}]
      /\ asking = "sent" /\ list = Bell!Empty /\ items = Bell!Empty /\ loaded = FALSE
      /\ marks = Bell!Empty /\ missed = {}
  BY DEF Init, Bell!BellInit
<1>2. /\ Bell!Empty \in [Notices -> {"none", "unread", "read"}]
      /\ Bell!Empty \in [Notices -> {"none", "sent"}]
      /\ \A n \in Notices : Bell!Empty[n] = "none"
  BY DEF Bell!Empty
<1>3. Bell!BellTypeOK
  BY <1>1, <1>2 DEF Bell!BellTypeOK
<1>4. HeardIsTrue /\ Bell!ReadIsStored
  BY <1>1, <1>2 DEF HeardIsTrue, Bell!ReadIsStored
<1>5. QED
  BY <1>3, <1>4 DEF BellInv

LEMMA BellListing ==
  ASSUME BellInv, Bell!ServeNotices \/ Bell!ShowNotices \/ Bell!NoticesFail \/ Bell!Reopen
  PROVE  BellInv'
<1> USE DEF BellInv, Bell!BellTypeOK, HeardIsTrue, Bell!ReadIsStored, Bell!Empty
<1>1. CASE Bell!ServeNotices
  BY <1>1 DEF Bell!ServeNotices
<1>2. CASE Bell!ShowNotices
  BY <1>2 DEF Bell!ShowNotices
<1>3. CASE Bell!NoticesFail
  BY <1>3 DEF Bell!NoticesFail
<1>4. CASE Bell!Reopen
  <2>1. Bell!BellTypeOK'
    <3>1. /\ Bell!Empty \in [Notices -> {"none", "unread", "read"}]
          /\ Bell!Empty \in [Notices -> {"none", "sent"}]
      OBVIOUS
    <3>2. list' = Bell!Empty /\ items' = Bell!Empty /\ marks' = Bell!Empty /\ stored' = stored
      BY <1>4 DEF Bell!Reopen
    <3>3. /\ stored' \in [Notices -> {"none", "unread", "read"}]
          /\ list' \in [Notices -> {"none", "unread", "read"}]
          /\ items' \in [Notices -> {"none", "unread", "read"}]
          /\ marks' \in [Notices -> {"none", "sent"}]
      <4> HIDE DEF Bell!Empty, HeardIsTrue, Bell!ReadIsStored
      <4>1. QED
        BY <3>1, <3>2
    <3>4. asking' = "sent" /\ loaded' = FALSE /\ missed' = {}
      BY <1>4 DEF Bell!Reopen
    <3>5. QED
      BY <3>3, <3>4
  <2>2. HeardIsTrue'
    BY <1>4 DEF Bell!Reopen
  <2>3. (Bell!ReadIsStored)'
    BY <1>4 DEF Bell!Reopen
  <2>4. QED
    BY <2>1, <2>2, <2>3
<1>5. QED
  BY <1>1, <1>2, <1>3, <1>4

LEMMA BellReading ==
  ASSUME BellInv, NEW n \in Notices,
         Bell!MarkRead(n) \/ Bell!ReadNotification(n) \/ Bell!MarkFails(n) \/ Bell!Notify(n)
  PROVE  BellInv'
<1> USE DEF BellInv, Bell!BellTypeOK, HeardIsTrue, Bell!ReadIsStored
<1>1. CASE Bell!MarkRead(n)
  BY <1>1 DEF Bell!MarkRead
<1>2. CASE Bell!ReadNotification(n)
  BY <1>2 DEF Bell!ReadNotification
<1>3. CASE Bell!MarkFails(n)
  BY <1>3 DEF Bell!MarkFails
<1>4. CASE Bell!Notify(n)
  BY <1>4 DEF Bell!Notify
<1>5. QED
  BY <1>1, <1>2, <1>3, <1>4

LEMMA BellStep == BellInv /\ [Next]_vars => BellInv'
<1> SUFFICES ASSUME BellInv, [Next]_vars PROVE BellInv'
  OBVIOUS
<1>1. CASE UNCHANGED bellVars
  BY <1>1 DEF bellVars, BellInv, Bell!BellTypeOK, HeardIsTrue, Bell!ReadIsStored
<1>2. CASE Bell!BellNext
  BY <1>2, BellListing, BellReading DEF Bell!BellNext
<1>3. QED
  BY <1>1, <1>2 DEF Next, InRegister, InNewBook, InNotices, vars

(* ReadIsStored: a notice the menu shows as read is read at the server, on *)
(* its way there, or the request that says so was lost                     *)
(* (NotificationsMenu.tsx).                                                *)
THEOREM NoticesRead == Spec => []ReadIsStored
<1>1. BellInv => ReadIsStored
  BY DEF BellInv, ReadIsStored
<1>2. QED
  BY <1>1, BellStart, BellStep, PTL DEF Spec
-----------------------------------------------------------------------------
(* The registration.  While the form is there, all it registered was lost  *)
(* to it but what the answer on its way is about; the thanks end it.       *)
RegisterTypes ==
  /\ Register!RegTypeOK
  /\ sent.at = "free" <=> sent.slug = NoSlug
  /\ sent.ok => sent.at = "answered" /\ sent.slug \in mine
  /\ \A c \in Register!Checks : checks[c].at = "answered" => checks[c].said # "idle"

OneOpenAnswer ==
  /\ ~submitted => \A s \in mine \ lost : sent.ok /\ s = sent.slug
  /\ submitted  => sent.at = "free" /\ \E s \in mine : mine \ {s} \subseteq lost

(* The check that was started last asks about the slug in the field, and   *)
(* its answer is right until somebody registers.                           *)
Right(word) == (word = "taken") = (slug \in schools \cup Invalid)

LastCheckIsRight ==
  newest # 0 =>
    /\ checks[newest].at # "free" /\ checks[newest].slug = slug
    /\ checks[newest].at = "answered" /\ slug \notin mine => Right(checks[newest].said)

RegisterInv == RegisterTypes /\ OneOpenAnswer /\ LastCheckIsRight /\ Register!NewestHintIsRight

LEMMA RegisterStart == Init => RegisterInv
<1> SUFFICES ASSUME Init PROVE RegisterInv
  OBVIOUS
<1>1. Register!RegInit \/ (Register!RegInit /\ schools = {})
  BY DEF Init
<1>2. /\ slug = NoSlug /\ touched = FALSE /\ hint = "idle" /\ timer = FALSE
      /\ checks = [c \in Register!Checks |-> Register!NoCheck] /\ sent = Register!NotSent
      /\ wrong = FALSE /\ submitted = FALSE /\ schools \subseteq Slugs
      /\ mine = {} /\ lost = {} /\ newest = 0 /\ about = 0
  BY <1>1 DEF Register!RegInit
<1>3. Register!RegTypeOK
  <2>1. /\ checks \in [Register!Checks -> [at : {"free", "sent", "answered"}, slug : Slugs \cup {NoSlug},
                                           said : {"idle", "available", "taken"}]]
        /\ sent \in [at : {"free", "sent", "answered"}, slug : Slugs \cup {NoSlug}, ok : BOOLEAN]
    BY <1>2 DEF Register!NoCheck, Register!NotSent
  <2>2. 0 \in 0..MaxChecks
    BY ScreensAssumption
  <2>3. QED
    BY <1>2, <2>1, <2>2 DEF Register!RegTypeOK
<1>4. RegisterTypes
  BY <1>2, <1>3 DEF RegisterTypes, Register!NoCheck, Register!NotSent
<1>5. QED
  BY <1>2, <1>4 DEF RegisterInv, OneOpenAnswer, LastCheckIsRight, Register!NewestHintIsRight

(* A new slug forgets the check that was last and the hint it gave.        *)
LEMMA SlugStep ==
  ASSUME RegisterInv, NEW s \in Slugs \cup {NoSlug}, Register!SuggestSlug(s) \/ Register!TypeSlug(s)
  PROVE  RegisterInv'
<1>1. Register!SlugChanges(s) /\ touched' \in BOOLEAN
  BY DEF Register!SuggestSlug, Register!TypeSlug, RegisterInv, RegisterTypes, Register!RegTypeOK
<1>2. RegisterTypes' /\ OneOpenAnswer'
  BY <1>1, ScreensAssumption
     DEF Register!SlugChanges, RegisterInv, RegisterTypes, Register!RegTypeOK, OneOpenAnswer
<1>3. LastCheckIsRight' /\ Register!NewestHintIsRight'
  BY <1>1 DEF Register!SlugChanges, LastCheckIsRight, Register!NewestHintIsRight
<1>4. QED
  BY <1>2, <1>3 DEF RegisterInv

LEMMA CheckStep == RegisterInv /\ Register!CheckSlug => RegisterInv'
<1> SUFFICES ASSUME RegisterInv, Register!CheckSlug PROVE RegisterInv'
  OBVIOUS
<1>1. PICK c \in Register!Checks :
        /\ Register!FirstFreeCheck(c)
        /\ checks' = [checks EXCEPT ![c] = [at |-> "sent", slug |-> slug, said |-> "idle"]]
        /\ newest' = c
  BY DEF Register!CheckSlug
<1>2. /\ timer' = FALSE
      /\ UNCHANGED <<slug, touched, hint, sent, wrong, submitted, schools, mine, lost, about>>
  BY DEF Register!CheckSlug
<1>3. /\ checks'[c] = [at |-> "sent", slug |-> slug, said |-> "idle"]
      /\ \A d \in Register!Checks \ {c} : checks'[d] = checks[d]
  BY <1>1 DEF RegisterInv, RegisterTypes, Register!RegTypeOK
<1>4. RegisterTypes' /\ OneOpenAnswer'
  <2>1. newest' \in 0..MaxChecks
    BY <1>1, ScreensAssumption DEF Register!Checks
  <2>2. Register!RegTypeOK'
    BY <2>1, <1>1, <1>2 DEF RegisterInv, RegisterTypes, Register!RegTypeOK
  <2>3. QED
    BY <2>2, <1>2, <1>3 DEF RegisterInv, RegisterTypes, OneOpenAnswer
<1>5. LastCheckIsRight'
  BY <1>1, <1>2, <1>3 DEF LastCheckIsRight, Right
<1>6. c \in Register!InFlight'
  BY <1>3 DEF Register!InFlight
<1>7. Register!NewestHintIsRight'
  BY <1>2, <1>3, <1>6 DEF RegisterInv, Register!NewestHintIsRight
<1>8. QED
  BY <1>4, <1>5, <1>7 DEF RegisterInv

LEMMA ServeCheckStep ==
  ASSUME RegisterInv, NEW c \in Register!Checks, Register!ServeCheck(c)
  PROVE  RegisterInv'
<1> DEFINE said == IF checks[c].slug \in schools \cup Invalid THEN "taken" ELSE "available"
<1>1. /\ checks'[c].at = "answered" /\ checks'[c].slug = checks[c].slug /\ checks'[c].said = said
      /\ \A d \in Register!Checks \ {c} : checks'[d] = checks[d]
      /\ checks' \in [Register!Checks -> [at : {"free", "sent", "answered"}, slug : Slugs \cup {NoSlug},
                                          said : {"idle", "available", "taken"}]]
  <2>1. /\ checks' = [checks EXCEPT ![c] = [checks[c] EXCEPT !.at = "answered", !.said = said]]
        /\ checks \in [Register!Checks -> [at : {"free", "sent", "answered"}, slug : Slugs \cup {NoSlug},
                                           said : {"idle", "available", "taken"}]]
    BY DEF Register!ServeCheck, RegisterInv, RegisterTypes, Register!RegTypeOK
  <2>2. said \in {"available", "taken"}
    OBVIOUS
  <2> HIDE DEF said
  <2>3. QED
    BY <2>1, <2>2
<1>2. /\ checks[c].at = "sent"
      /\ UNCHANGED <<slug, touched, hint, timer, sent, wrong, submitted, schools, mine, lost, newest, about>>
  BY DEF Register!ServeCheck
<1>3. RegisterTypes' /\ OneOpenAnswer'
  BY <1>1, <1>2 DEF RegisterInv, RegisterTypes, Register!RegTypeOK, OneOpenAnswer
<1>4. LastCheckIsRight'
  <2>1. CASE newest = c
    BY <2>1, <1>1, <1>2 DEF RegisterInv, LastCheckIsRight, Right
  <2>2. CASE newest # c
    <3>1. newest # 0 => newest \in Register!Checks
      BY ScreensAssumption DEF RegisterInv, RegisterTypes, Register!RegTypeOK, Register!Checks
    <3>2. QED
      BY <2>2, <3>1, <1>1, <1>2 DEF RegisterInv, LastCheckIsRight, Right
  <2>3. QED
    BY <2>1, <2>2
<1>5. \A d \in Register!InFlight : d \in Register!InFlight' /\ checks'[d].slug = checks[d].slug
  BY <1>1, <1>2 DEF Register!InFlight
<1>6. Register!NewestHintIsRight'
  BY <1>2, <1>5 DEF RegisterInv, Register!NewestHintIsRight
<1>7. QED
  BY <1>3, <1>4, <1>6 DEF RegisterInv

(* The answer to the last check is right; no other one counts as a hint    *)
(* about the slug in the field.                                            *)
LEMMA CheckEndsStep ==
  ASSUME RegisterInv, NEW c \in Register!Checks, Register!CheckEnds(c)
  PROVE  RegisterInv'
<1>1. /\ checks'[c] = Register!NoCheck
      /\ \A d \in Register!Checks \ {c} : checks'[d] = checks[d]
      /\ checks' \in [Register!Checks -> [at : {"free", "sent", "answered"}, slug : Slugs \cup {NoSlug},
                                          said : {"idle", "available", "taken"}]]
  BY DEF Register!CheckEnds, RegisterInv, RegisterTypes, Register!RegTypeOK, Register!NoCheck
<1>2. /\ checks[c].at # "free"
      /\ newest' = IF c = newest THEN 0 ELSE newest
      /\ UNCHANGED <<slug, touched, timer, sent, wrong, submitted, schools, mine, lost>>
      /\ Register!HintFrom(c)
  BY DEF Register!CheckEnds
<1>3. newest \in 0..MaxChecks /\ (newest # 0 => newest \in Register!Checks) /\ c \in 1..MaxChecks
  BY ScreensAssumption DEF RegisterInv, RegisterTypes, Register!RegTypeOK, Register!Checks
<1>4. /\ hint' \in {"idle", "checking", "available", "taken", "error"} /\ about' \in 0..MaxChecks
      /\ ~submitted => hint' \in {"available", "taken", "error"}
  BY <1>2, <1>3, ScreensAssumption
     DEF Register!HintFrom, RegisterInv, RegisterTypes, Register!RegTypeOK
<1>5. RegisterTypes' /\ OneOpenAnswer'
  <2>1. newest' \in 0..MaxChecks
    BY <1>2, <1>3, ScreensAssumption
  <2>2. QED
    BY <2>1, <1>1, <1>2, <1>4
       DEF RegisterInv, RegisterTypes, Register!RegTypeOK, OneOpenAnswer, Register!NoCheck
<1>6. LastCheckIsRight'
  BY <1>1, <1>2, <1>3 DEF RegisterInv, LastCheckIsRight, Right
<1>7. Register!NewestHintIsRight'
  <2>1. CASE submitted
    BY <2>1, <1>2 DEF Register!HintFrom, RegisterInv, Register!NewestHintIsRight
  <2>2. CASE ~submitted /\ c = newest
    <3>1. hint' \in {"available", "taken"} => checks[c].at = "answered" /\ hint' = checks[c].said
      BY <2>2, <1>2 DEF Register!HintFrom
    <3>2. c # 0
      BY <1>3
    <3>3. hint' \in {"available", "taken"} /\ slug \notin mine => Right(hint')
      BY <2>2, <3>1, <3>2 DEF RegisterInv, LastCheckIsRight
    <3>4. QED
      BY <2>2, <1>2, <1>4, <3>3 DEF Register!NewestHintIsRight, Right
  <2>3. CASE ~submitted /\ c # newest
    BY <2>3, <1>2, <1>4 DEF Register!HintFrom, Register!NewestHintIsRight
  <2>4. QED
    BY <2>1, <2>2, <2>3
<1>8. QED
  BY <1>5, <1>6, <1>7 DEF RegisterInv

(* The button waits for an answer, and only an answer that was lost lets   *)
(* the form go on without a word of the school it registered.              *)
LEMMA SendStep ==
  ASSUME RegisterInv, Register!Submit \/ Register!Decline \/ Register!Thank \/ Register!Complain
  PROVE  RegisterInv'
<1>1. LastCheckIsRight' /\ Register!NewestHintIsRight'
  BY DEF RegisterInv, LastCheckIsRight, Right, Register!NewestHintIsRight, Register!InFlight,
         Register!Submit, Register!Decline, Register!Thank, Register!Complain
<1>2. RegisterTypes' /\ OneOpenAnswer'
  <2> USE DEF RegisterInv, RegisterTypes, Register!RegTypeOK, OneOpenAnswer
  <2>1. CASE Register!Submit
    <3>1. /\ sent'.at = "sent" /\ sent'.slug = slug /\ sent'.ok = FALSE /\ slug \in Slugs /\ ~submitted
          /\ sent' \in [at : {"free", "sent", "answered"}, slug : Slugs \cup {NoSlug}, ok : BOOLEAN]
      BY <2>1 DEF Register!Submit
    <3>2. /\ ~sent.ok /\ slug # NoSlug /\ wrong' = FALSE
          /\ UNCHANGED <<slug, touched, hint, timer, checks, submitted, schools, mine, lost, newest, about>>
      BY <2>1 DEF Register!Submit
    <3>3. QED
      BY <3>1, <3>2
  <2>2. CASE Register!Decline
    BY <2>2 DEF Register!Decline
  <2>3. CASE Register!Thank
    <3>1. /\ sent'.at = "free" /\ sent'.slug = NoSlug /\ sent'.ok = FALSE /\ submitted' = TRUE /\ timer' = FALSE
          /\ sent' \in [at : {"free", "sent", "answered"}, slug : Slugs \cup {NoSlug}, ok : BOOLEAN]
      BY <2>3 DEF Register!Thank, Register!NotSent
    <3>2. /\ UNCHANGED <<slug, touched, hint, checks, wrong, schools, mine, lost, newest, about>>
          /\ sent.slug \in mine /\ (~submitted => mine \ {sent.slug} \subseteq lost)
      BY <2>3 DEF Register!Thank
    <3>3. ~submitted
      BY <2>3 DEF Register!Thank
    <3>4. QED
      BY <3>1, <3>2, <3>3
  <2>4. CASE Register!Complain
    BY <2>4 DEF Register!Complain, Register!NotSent
  <2>5. QED
    BY <2>1, <2>2, <2>3, <2>4
<1>3. QED
  BY <1>1, <1>2 DEF RegisterInv

LEMMA SchoolStep == RegisterInv /\ Register!Register => RegisterInv'
<1> SUFFICES ASSUME RegisterInv, Register!Register PROVE RegisterInv'
  OBVIOUS
<1>1. /\ sent.at = "sent" /\ sent.slug \in Slugs /\ ~sent.ok /\ ~submitted
      /\ schools' = schools \cup {sent.slug} /\ mine' = mine \cup {sent.slug}
      /\ UNCHANGED <<slug, touched, hint, timer, checks, wrong, submitted, lost, newest, about>>
  BY DEF Register!Register, RegisterInv, RegisterTypes, Register!RegTypeOK, OneOpenAnswer
<1>2. /\ sent'.at = "answered" /\ sent'.slug = sent.slug /\ sent'.ok = TRUE
      /\ sent' \in [at : {"free", "sent", "answered"}, slug : Slugs \cup {NoSlug}, ok : BOOLEAN]
  BY DEF Register!Register, RegisterInv, RegisterTypes, Register!RegTypeOK
<1>3. RegisterTypes' /\ OneOpenAnswer'
  BY <1>1, <1>2 DEF RegisterInv, RegisterTypes, Register!RegTypeOK, OneOpenAnswer
<1>4. slug \notin mine' => (slug \in schools' <=> slug \in schools) /\ slug \notin mine
  BY <1>1
<1>5. LastCheckIsRight' /\ Register!NewestHintIsRight'
  BY <1>1, <1>4 DEF RegisterInv, LastCheckIsRight, Right, Register!NewestHintIsRight, Register!InFlight
<1>6. QED
  BY <1>3, <1>5 DEF RegisterInv

LEMMA OthersStep ==
  ASSUME RegisterInv, NEW s \in Slugs, Register!OthersRegister(s)
  PROVE  RegisterInv'
<1>1. LastCheckIsRight' /\ Register!NewestHintIsRight'
  BY DEF RegisterInv, LastCheckIsRight, Right, Register!NewestHintIsRight, Register!InFlight, Register!OthersRegister
<1>2. RegisterTypes' /\ OneOpenAnswer'
  BY ScreensAssumption
     DEF RegisterInv, RegisterTypes, Register!RegTypeOK, OneOpenAnswer, Register!OthersRegister
<1>3. QED
  BY <1>1, <1>2 DEF RegisterInv

LEMMA RegisterStep == RegisterInv /\ [Next]_vars => RegisterInv'
<1> SUFFICES ASSUME RegisterInv, [Next]_vars PROVE RegisterInv'
  OBVIOUS
<1>1. CASE UNCHANGED regVars
  BY <1>1 DEF regVars, RegisterInv, RegisterTypes, Register!RegTypeOK, OneOpenAnswer, LastCheckIsRight,
              Right, Register!NewestHintIsRight, Register!InFlight
<1>2. CASE Register!RegNext
  BY <1>2, SlugStep, CheckStep, ServeCheckStep, CheckEndsStep, SendStep, SchoolStep, OthersStep
     DEF Register!RegNext
<1>3. QED
  BY <1>1, <1>2 DEF Next, InRegister, InNewBook, InNotices, vars

(* OneSchoolPerAnswer: however often the form is sent, it registers a      *)
(* second school only when the answer to the first was lost                *)
(* (dang-ky/page.tsx, registerSchool in school.go).                        *)
THEOREM OneSchool == Spec => []OneSchoolPerAnswer
<1>1. RegisterInv => OneSchoolPerAnswer
  <2> SUFFICES ASSUME RegisterInv PROVE OneSchoolPerAnswer
    OBVIOUS
  <2> USE DEF RegisterInv, RegisterTypes, Register!RegTypeOK, OneOpenAnswer, OneSchoolPerAnswer,
              Register!OneSchoolPerAnswer
  <2>1. CASE submitted
    BY <2>1
  <2>2. CASE ~submitted /\ sent.ok
    BY <2>2
  <2>3. CASE ~submitted /\ ~sent.ok
    BY <2>3, ScreensAssumption
  <2>4. QED
    BY <2>1, <2>2, <2>3
<1>2. QED
  BY <1>1, RegisterStart, RegisterStep, PTL DEF Spec

(* NewestHintIsRight: "checking" is shown only while a check of the slug   *)
(* is due or under way, and a hint that the newest check gave is right     *)
(* until somebody registers; an older answer that comes after it is not    *)
(* covered: the page shows it (dang-ky/page.tsx:77).                       *)
THEOREM HintRight == Spec => []NewestHintIsRight
<1>1. RegisterInv => NewestHintIsRight
  BY DEF RegisterInv, NewestHintIsRight
<1>2. QED
  BY <1>1, RegisterStart, RegisterStep, PTL DEF Spec
-----------------------------------------------------------------------------
(* The new book.                                                           *)
BookRequest == [step : {"idle", "count", "insert"}, book : Books \cup {None}, attempt : Nat, seq : Nat, from : Nat]

BookTypes ==
  /\ made \in [Books -> Nat] /\ req \in [Procs -> BookRequest]
  /\ IsFiniteSet(copies) /\ \A c \in copies : c.book \in Books /\ c.number \in Nat
  /\ titled \subseteq Books /\ book \in titled \cup {None}
  /\ stage \in {"editing", "booking", "copying", "error", "left"}
  /\ jobs \in [Procs -> {"none", "due", "running", "done", "refused", "lost"}]
  /\ errors \in Nat /\ asked \in Nat
  /\ \A p \in Procs : req[p].step # "idle" => req[p].book \in Books

(* Jobs are of the book of the submission under way; one that runs is a    *)
(* request for a copy of it.                                               *)
JobsAreOfBook ==
  /\ stage = "booking" => jobs = NewBook!NoJobs
  /\ stage \in {"copying", "left"} => book \in titled
  /\ \A p \in Procs : jobs[p] # "none" => book \in titled
  /\ \A p \in Procs : jobs[p] = "running" => req[p].step # "idle" /\ req[p].book = book

(* A job that is done has made a copy; a book was made for each error but  *)
(* the one under way.                                                      *)
DoneIsMade ==
  /\ book \in titled => Cardinality(NewBook!Jobs("done")) <= made[book]
  /\ stage = "copying" => asked = Cardinality(Procs \ NewBook!Jobs("none"))
  /\ stage = "left" => asked <= made[book]

Settled == stage \in {"editing", "error"} \/ (stage = "booking" /\ book = None)

BooksCounted == Cardinality(titled) <= IF Settled THEN errors ELSE errors + 1

BookInv == BookTypes /\ JobsAreOfBook /\ DoneIsMade /\ BooksCounted

(* The instance counts as this module does.                                *)
LEMMA SameCount == ASSUME NEW S PROVE NewBook!Cardinality(S) = Cardinality(S)
BY Zenon DEF Cardinality, NewBook!Cardinality

(* Changing one job of a finite set changes the jobs done by at most it.   *)
LEMMA JobsFinite ==
  /\ IsFiniteSet(NewBook!Jobs("done")) /\ Cardinality(NewBook!Jobs("done")) \in Nat
  /\ IsFiniteSet(NewBook!Jobs("done"))' /\ Cardinality(NewBook!Jobs("done"))' \in Nat
<1>1. NewBook!Jobs("done") \subseteq Procs /\ NewBook!Jobs("done")' \subseteq Procs
  BY DEF NewBook!Jobs
<1>2. QED
  BY <1>1, ScreensAssumption, FS_Subset, FS_CardinalityType

LEMMA BookStart == Init => BookInv
<1> SUFFICES ASSUME Init PROVE BookInv
  OBVIOUS
<1>1. /\ copies = {} /\ made = [b \in Books |-> 0] /\ req = [p \in Procs |-> NewBook!Idle]
      /\ stage = "editing" /\ titled = {} /\ book = None /\ jobs = NewBook!NoJobs /\ errors = 0 /\ asked = 0
  BY DEF Init, NewBook!BookInit, NewBook!Init
<1>2. IsFiniteSet({}) /\ Cardinality({}) = 0
  BY FS_EmptySet
<1>3. BookTypes
  BY <1>1, <1>2 DEF BookTypes, BookRequest, NewBook!Idle, NewBook!NoJobs
<1>4. QED
  BY <1>1, <1>2, <1>3, ScreensAssumption
     DEF BookInv, JobsAreOfBook, DoneIsMade, BooksCounted, Settled, NewBook!NoJobs

(* What the script of the form does: it sends the book, then the jobs.     *)
LEMMA ScriptStep ==
  ASSUME BookInv,
         NewBook!SubmitBook \/ NewBook!BookFails \/ NewBook!CopiesFail
  PROVE  BookInv'
<1> USE DEF BookInv, BookTypes
<1>1. CASE NewBook!SubmitBook
  <2>1. /\ stage' = "booking" /\ book' = None /\ jobs' = NewBook!NoJobs /\ stage \in {"editing", "error"}
        /\ UNCHANGED <<copies, made, req, titled, errors, asked>>
    BY <1>1 DEF NewBook!SubmitBook, NewBook!vars
  <2>2. BookTypes'
    BY <2>1 DEF NewBook!NoJobs
  <2>3. None \notin titled'
    BY <2>1, ScreensAssumption
  <2>4. QED
    BY <2>1, <2>2, <2>3 DEF JobsAreOfBook, DoneIsMade, BooksCounted, Settled, NewBook!NoJobs
<1>2. CASE NewBook!BookFails \/ NewBook!CopiesFail
  <2>1. /\ stage' = "error" /\ errors' = errors + 1 /\ stage \in {"booking", "copying"}
        /\ UNCHANGED <<copies, made, req, titled, book, jobs, asked>>
    BY <1>2 DEF NewBook!BookFails, NewBook!CopiesFail, NewBook!vars
  <2>2. IsFiniteSet(titled) /\ Cardinality(titled) \in Nat
    BY ScreensAssumption, FS_Subset, FS_CardinalityType
  <2>3. BookTypes'
    BY <2>1
  <2>4. JobsAreOfBook' /\ DoneIsMade'
    BY <2>1 DEF JobsAreOfBook, DoneIsMade, NewBook!Jobs
  <2>5. BooksCounted'
    BY <2>1, <2>2 DEF BooksCounted, Settled
  <2>6. QED
    BY <2>3, <2>4, <2>5
<1>3. QED
  BY <1>1, <1>2

LEMMA MakeBookStep == BookInv /\ NewBook!MakeBook => BookInv'
<1> SUFFICES ASSUME BookInv, NewBook!MakeBook PROVE BookInv'
  OBVIOUS
<1> USE DEF BookInv, BookTypes
<1>1. PICK b \in Books \ titled : book' = b /\ titled' = titled \cup {b}
  BY DEF NewBook!MakeBook
<1>2. /\ stage = "booking" /\ book = None
      /\ UNCHANGED <<copies, made, req, stage, jobs, errors, asked>>
  BY DEF NewBook!MakeBook, NewBook!vars
<1>3. BookTypes'
  BY <1>1, <1>2
<1>4. JobsAreOfBook'
  BY <1>1, <1>2 DEF JobsAreOfBook, NewBook!NoJobs
<1>5. NewBook!Jobs("done")' = {}
  BY <1>2 DEF JobsAreOfBook, NewBook!Jobs, NewBook!NoJobs
<1>6. DoneIsMade'
  <2>1. Cardinality(NewBook!Jobs("done"))' = 0
    BY <1>5, FS_EmptySet
  <2>2. made'[b] \in Nat
    BY <1>1, <1>2
  <2>3. 0 <= made'[book']
    BY <2>2, <1>1
  <2>4. stage' = "booking"
    BY <1>2
  <2>5. QED
    BY <2>1, <2>3, <2>4 DEF DoneIsMade
<1>7. IsFiniteSet(titled) /\ Cardinality(titled) \in Nat /\ Cardinality(titled') = Cardinality(titled) + 1
  <2>1. IsFiniteSet(titled)
    BY ScreensAssumption, FS_Subset
  <2>2. b \notin titled
    BY <1>1
  <2>3. QED
    BY <2>1, <2>2, <1>1, FS_CardinalityType, FS_AddElement
<1>8. BooksCounted'
  BY <1>1, <1>2, <1>7, ScreensAssumption DEF BooksCounted, Settled
<1>9. QED
  BY <1>3, <1>4, <1>6, <1>8

LEMMA AskStep ==
  ASSUME BookInv, NEW S \in SUBSET Procs, NewBook!AskCopies(S)
  PROVE  BookInv'
<1> USE DEF BookInv, BookTypes
<1>1. /\ stage = "booking" /\ book # None /\ stage' = "copying" /\ asked' = Cardinality(S)
      /\ jobs' = [p \in Procs |-> IF p \in S THEN "due" ELSE "none"]
      /\ UNCHANGED <<copies, made, req, titled, book, errors>>
  <2>1. stage = "booking" /\ book # None /\ stage' = "copying" /\ asked' = Cardinality(S)
    BY SameCount DEF NewBook!AskCopies
  <2>2. jobs' = [p \in Procs |-> IF p \in S THEN "due" ELSE "none"]
    BY Zenon DEF NewBook!AskCopies
  <2>3. UNCHANGED <<copies, made, req, titled, book, errors>>
    BY DEF NewBook!AskCopies, NewBook!vars
  <2>4. QED
    BY Zenon, <2>1, <2>2, <2>3
<1>2. IsFiniteSet(S) /\ Cardinality(S) \in Nat
  BY ScreensAssumption, FS_Subset, FS_CardinalityType
<1>3. BookTypes'
  BY <1>1, <1>2
<1>4. JobsAreOfBook'
  BY <1>1 DEF JobsAreOfBook
<1>5. DoneIsMade'
  <2>1. NewBook!Jobs("done")' = {} /\ Procs \ NewBook!Jobs("none")' = S
    BY <1>1 DEF NewBook!Jobs
  <2>2. Cardinality(NewBook!Jobs("done"))' = 0 /\ Cardinality(Procs \ NewBook!Jobs("none"))' = Cardinality(S)
    BY <2>1, FS_EmptySet
  <2>3. made'[book'] \in Nat
    BY <1>1
  <2>4. QED
    BY <2>2, <2>3, <1>1 DEF DoneIsMade
<1>6. BooksCounted'
  BY <1>1 DEF BooksCounted, Settled
<1>7. QED
  BY <1>3, <1>4, <1>5, <1>6

LEMMA LeaveStep == BookInv /\ NewBook!Leave => BookInv'
<1> SUFFICES ASSUME BookInv, NewBook!Leave PROVE BookInv'
  OBVIOUS
<1> USE DEF BookInv, BookTypes
<1>1. /\ stage = "copying" /\ stage' = "left"
      /\ \A p \in Procs : jobs[p] \in {"none", "done"}
      /\ UNCHANGED <<copies, made, req, titled, book, jobs, errors, asked>>
  BY DEF NewBook!Leave, NewBook!vars, NewBook!Jobs
<1>2. Procs \ NewBook!Jobs("none") = NewBook!Jobs("done")
  BY <1>1 DEF NewBook!Jobs
<1>3. asked <= made[book] /\ book \in titled
  BY <1>1, <1>2 DEF DoneIsMade, JobsAreOfBook
<1>4. BookTypes' /\ JobsAreOfBook' /\ BooksCounted'
  BY <1>1 DEF JobsAreOfBook, BooksCounted, Settled, NewBook!Jobs
<1>5. DoneIsMade'
  BY <1>1, <1>3 DEF DoneIsMade, NewBook!Jobs
<1>6. QED
  BY <1>4, <1>5

(* A request that starts, for the form or for other staff, finishes none.  *)
LEMMA BeginStep ==
  ASSUME BookInv, NEW p \in Procs, NewBook!StartCopy(p) \/ NewBook!OthersAdd(p)
  PROVE  BookInv'
<1> USE DEF BookInv, BookTypes
<1>1. PICK b \in titled :
        /\ req[p].step = "idle"
        /\ req' = [req EXCEPT ![p] = [NewBook!Idle EXCEPT !.step = "count", !.book = b]]
        /\ \/ jobs[p] = "due" /\ b = book /\ jobs' = [jobs EXCEPT ![p] = "running"]
           \/ jobs[p] = "none" /\ jobs' = jobs
  BY DEF NewBook!StartCopy, NewBook!OthersAdd, NewBook!Start, NewBook!formVars, JobsAreOfBook
<1>2. UNCHANGED <<copies, made, stage, titled, book, errors, asked>>
  BY DEF NewBook!StartCopy, NewBook!OthersAdd, NewBook!Start, NewBook!formVars
<1>3. /\ req'[p].step = "count" /\ req'[p].book = b
      /\ \A q \in Procs \ {p} : req'[q] = req[q]
      /\ req' \in [Procs -> BookRequest]
  BY <1>1 DEF NewBook!Idle, BookRequest
<1>4. jobs[p] # "running" /\ \A q \in Procs \ {p} : jobs'[q] = jobs[q]
  BY <1>1
<1>5. BookTypes'
  BY <1>1, <1>2, <1>3
<1>6. JobsAreOfBook'
  <2>1. stage # "booking" \/ jobs' = jobs
    BY <1>1 DEF JobsAreOfBook, NewBook!NoJobs
  <2>2. QED
    BY <2>1, <1>1, <1>2, <1>3, <1>4 DEF JobsAreOfBook
<1>7. NewBook!Jobs("done")' = NewBook!Jobs("done") /\ NewBook!Jobs("none")' = NewBook!Jobs("none")
  BY <1>1 DEF NewBook!Jobs
<1>8. DoneIsMade' /\ BooksCounted'
  BY <1>2, <1>7 DEF DoneIsMade, BooksCounted, Settled
<1>9. QED
  BY <1>5, <1>6, <1>8

LEMMA LoseStep ==
  ASSUME BookInv, NEW p \in Procs, NewBook!LoseCopy(p)
  PROVE  BookInv'
<1> USE DEF BookInv, BookTypes
<1>1. /\ jobs[p] \in {"due", "running", "done"} /\ stage \in {"copying", "error"}
      /\ jobs' = [jobs EXCEPT ![p] = "lost"]
      /\ UNCHANGED <<copies, made, req, stage, titled, book, errors, asked>>
  BY DEF NewBook!LoseCopy, NewBook!vars
<1>2. BookTypes' /\ JobsAreOfBook' /\ BooksCounted'
  BY <1>1 DEF JobsAreOfBook, BooksCounted, Settled
<1>3. NewBook!Jobs("done")' \subseteq NewBook!Jobs("done") /\ NewBook!Jobs("none")' = NewBook!Jobs("none")
  BY <1>1 DEF NewBook!Jobs
<1>4. Cardinality(NewBook!Jobs("done"))' <= Cardinality(NewBook!Jobs("done"))
  BY <1>3, JobsFinite, FS_Subset
<1>5. book \in titled => made[book] \in Nat
  OBVIOUS
<1>6. DoneIsMade'
  <2>1. book \in titled => Cardinality(NewBook!Jobs("done"))' <= made[book]
    BY <1>4, <1>5, JobsFinite DEF DoneIsMade
  <2>2. Cardinality(Procs \ NewBook!Jobs("none"))' = Cardinality(Procs \ NewBook!Jobs("none"))
    BY <1>3
  <2>3. QED
    BY <1>1, <2>1, <2>2 DEF DoneIsMade
<1>7. QED
  BY <1>2, <1>6

(* One step of createCopy: it counts, inserts and is done, or collides and *)
(* is perhaps refused.                                                     *)
CountsOn(p) ==
  /\ req[p].step = "count" /\ UNCHANGED <<copies, made, jobs>>
  /\ req' = [req EXCEPT ![p].step = "insert", ![p].seq = NewBook!Count(req[p].book),
                       ![p].from = made[req[p].book]]

Inserts(p) ==
  /\ req[p].step = "insert" /\ ~NewBook!Taken(req[p].book, NewBook!Number(p))
  /\ made' = [made EXCEPT ![req[p].book] = @ + 1]
  /\ \E id : copies' = copies \cup {[id |-> id, book |-> req[p].book, number |-> NewBook!Number(p)]}
  /\ req' = [req EXCEPT ![p] = NewBook!Idle]
  /\ jobs' = IF jobs[p] = "running" THEN [jobs EXCEPT ![p] = "done"] ELSE jobs

Collides(p) ==
  /\ req[p].step = "insert" /\ NewBook!Taken(req[p].book, NewBook!Number(p))
  /\ UNCHANGED <<copies, made>>
  /\ \/ /\ req[p].attempt + 1 < Attempts
        /\ req' = [req EXCEPT ![p] = [req[p] EXCEPT !.step = "count", !.attempt = req[p].attempt + 1]] /\ jobs' = jobs
     \/ /\ req[p].attempt + 1 >= Attempts /\ req' = [req EXCEPT ![p] = NewBook!Idle]
        /\ jobs' = IF jobs[p] = "running" THEN [jobs EXCEPT ![p] = "refused"] ELSE jobs

LEMMA CreateCases ==
  ASSUME BookInv, NEW p \in Procs, NewBook!CreateCopy(p)
  PROVE  /\ CountsOn(p) \/ Inserts(p) \/ Collides(p)
         /\ UNCHANGED <<stage, titled, book, errors, asked>>
<1> USE DEF BookInv, BookTypes
<1>1. req[p] \in BookRequest /\ p \in DOMAIN req
  OBVIOUS
<1>2. UNCHANGED <<stage, titled, book, errors, asked>>
  BY DEF NewBook!CreateCopy
<1>3. CASE NewBook!CountCopies(p)
  <2>1. ~NewBook!Ends(p)
    BY <1>3 DEF NewBook!Ends, NewBook!CountCopies
  <2>2. CountsOn(p)
    BY <1>3, <2>1 DEF NewBook!CreateCopy, NewBook!CountCopies, CountsOn
  <2>3. QED
    BY <1>2, <2>2
<1>4. CASE NewBook!Insert(p)
  <2>1. req'[p] = NewBook!Idle /\ req[p].step = "insert"
    BY <1>1, <1>4 DEF NewBook!Insert
  <2>2. NewBook!Ends(p)
    BY <2>1 DEF NewBook!Ends, NewBook!Idle
  <2>3. made' # made
    <3>1. req[p].book \in Books
      BY <2>1
    <3>2. made'[req[p].book] = made[req[p].book] + 1 /\ made[req[p].book] \in Nat
      BY <3>1, <1>4 DEF NewBook!Insert
    <3>3. QED
      BY <3>2
  <2>4. jobs' = IF jobs[p] = "running" THEN [jobs EXCEPT ![p] = "done"] ELSE jobs
    BY <2>2, <2>3 DEF NewBook!CreateCopy, NewBook!Finish
  <2>5. Inserts(p)
    BY <1>4, <2>4 DEF NewBook!Insert, Inserts
  <2>6. QED
    BY <1>2, <2>5
<1>5. CASE NewBook!Collide(p)
  <2>1. /\ req[p].step = "insert" /\ NewBook!Taken(req[p].book, NewBook!Number(p))
        /\ UNCHANGED <<copies, made>>
    BY <1>5 DEF NewBook!Collide
  <2>2. CASE req[p].attempt + 1 < Attempts
    <3>1. req' = [req EXCEPT ![p] = [req[p] EXCEPT !.step = "count", !.attempt = req[p].attempt + 1]]
      BY <2>2, <1>5 DEF NewBook!Collide, NewBook!Retry
    <3>2. req'[p].step = "count"
      BY <1>1, <3>1 DEF BookRequest
    <3>3. jobs' = jobs
      BY <3>2 DEF NewBook!CreateCopy, NewBook!Ends
    <3>4. QED
      BY <1>2, <2>1, <2>2, <3>1, <3>3 DEF Collides
  <2>3. CASE ~(req[p].attempt + 1 < Attempts)
    <3>1. req' = [req EXCEPT ![p] = NewBook!Idle]
      BY <2>3, <1>5 DEF NewBook!Collide, NewBook!Retry
    <3>2. NewBook!Ends(p)
      BY <1>1, <2>1, <3>1 DEF NewBook!Ends, NewBook!Idle
    <3>3. jobs' = IF jobs[p] = "running" THEN [jobs EXCEPT ![p] = "refused"] ELSE jobs
      BY <2>1, <3>2 DEF NewBook!CreateCopy, NewBook!Finish
    <3>4. req[p].attempt + 1 >= Attempts
      BY <2>3, <1>1, ScreensAssumption DEF BookRequest
    <3>5. QED
      BY <1>2, <2>1, <3>4, <3>1, <3>3 DEF Collides
  <2>4. QED
    BY <2>2, <2>3
<1>6. QED
  BY <1>3, <1>4, <1>5 DEF NewBook!CreateCopy, NewBook!Proceed

(* What a step of createCopy leaves of requests, jobs and counts.          *)
LEMMA CreateTypes ==
  ASSUME BookInv, NEW p \in Procs, NewBook!CreateCopy(p)
  PROVE  /\ BookTypes'
         /\ \A q \in Procs \ {p} : req'[q] = req[q] /\ jobs'[q] = jobs[q]
         /\ \A b \in Books : made'[b] >= made[b]
         /\ jobs'[p] = "running" => jobs[p] = "running" /\ req'[p].step # "idle" /\ req'[p].book = req[p].book
<1> USE DEF BookInv, BookTypes
<1>1. /\ CountsOn(p) \/ Inserts(p) \/ Collides(p)
      /\ UNCHANGED <<stage, titled, book, errors, asked>>
  BY CreateCases
<1>2. /\ req[p] \in BookRequest /\ p \in DOMAIN req
      /\ req[p].step # "idle" => req[p].book \in Books
  OBVIOUS
<1>3. CASE CountsOn(p)
  <2>1. NewBook!Count(req[p].book) \in Nat
    <3>1. NewBook!CopiesOf(req[p].book) \subseteq copies
      BY DEF NewBook!CopiesOf
    <3>2. QED
      BY <3>1, FS_Subset, FS_CardinalityType, SameCount DEF NewBook!Count
  <2>2. /\ req' \in [Procs -> BookRequest] /\ req'[p].step = "insert" /\ req'[p].book = req[p].book
        /\ \A q \in Procs \ {p} : req'[q] = req[q]
    BY <1>2, <1>3, <2>1 DEF CountsOn, BookRequest
  <2>3. UNCHANGED <<copies, made, jobs>> /\ req[p].step # "idle"
    BY <1>3 DEF CountsOn
  <2>4. QED
    BY <1>1, <1>2, <2>2, <2>3
<1>4. CASE Inserts(p)
  <2>1. PICK id : copies' = copies \cup {[id |-> id, book |-> req[p].book, number |-> NewBook!Number(p)]}
    BY <1>4 DEF Inserts
  <2>2. req[p].book \in Books /\ NewBook!Number(p) \in Nat
    BY <1>2, <1>4 DEF Inserts, NewBook!Number, BookRequest
  <2>3. IsFiniteSet(copies') /\ \A c \in copies' : c.book \in Books /\ c.number \in Nat
    <3>1. IsFiniteSet(copies')
      BY <2>1, FS_AddElement
    <3>2. QED
      BY <3>1, <2>1, <2>2
  <2>4. made' \in [Books -> Nat] /\ \A b \in Books : made'[b] >= made[b]
    BY <1>4, <2>2 DEF Inserts
  <2>5. /\ req' \in [Procs -> BookRequest] /\ req'[p].step = "idle"
        /\ \A q \in Procs \ {p} : req'[q] = req[q]
    BY <1>4, <1>2, ScreensAssumption DEF Inserts, NewBook!Idle, BookRequest
  <2>6. /\ jobs' \in [Procs -> {"none", "due", "running", "done", "refused", "lost"}]
        /\ jobs'[p] # "running" /\ \A q \in Procs \ {p} : jobs'[q] = jobs[q]
    BY <1>4 DEF Inserts
  <2>7. QED
    BY <1>1, <2>3, <2>4, <2>5, <2>6
<1>5. CASE Collides(p)
  <2>1. UNCHANGED <<copies, made>> /\ req[p].step = "insert"
    BY <1>5 DEF Collides
  <2>2. /\ req' \in [Procs -> BookRequest]
        /\ req'[p].step # "idle" => req'[p].book = req[p].book
        /\ \A q \in Procs \ {p} : req'[q] = req[q]
    <3>1. CASE req' = [req EXCEPT ![p] = [req[p] EXCEPT !.step = "count", !.attempt = req[p].attempt + 1]]
      <4> DEFINE next == [req[p] EXCEPT !.step = "count", !.attempt = req[p].attempt + 1]
      <4>1. next \in BookRequest /\ next.book = req[p].book
        <5>1. req[p].attempt + 1 \in Nat
          BY <1>2 DEF BookRequest
        <5>2. \A n \in Nat : LET r == [req[p] EXCEPT !.step = "count", !.attempt = n]
                             IN  r \in BookRequest /\ r.book = req[p].book
          BY <1>2 DEF BookRequest
        <5>3. QED
          BY <5>1, <5>2
      <4>2. QED
        BY <1>2, <3>1, <4>1
    <3>2. CASE req' = [req EXCEPT ![p] = NewBook!Idle]
      BY <1>2, <3>2, ScreensAssumption DEF NewBook!Idle, BookRequest
    <3>3. QED
      BY <1>5, <3>1, <3>2 DEF Collides
  <2>3. /\ jobs' \in [Procs -> {"none", "due", "running", "done", "refused", "lost"}]
        /\ \A q \in Procs \ {p} : jobs'[q] = jobs[q]
        /\ jobs'[p] = "running" => jobs[p] = "running" /\ req'[p].step = "count"
    BY <1>5, <1>2 DEF Collides, BookRequest
  <2>4. QED
    BY <1>1, <1>2, <2>1, <2>2, <2>3
<1>6. QED
  BY <1>1, <1>3, <1>4, <1>5

LEMMA CreateStep ==
  ASSUME BookInv, NEW p \in Procs, NewBook!CreateCopy(p)
  PROVE  BookInv'
<1> USE DEF BookInv, BookTypes
<1>1. /\ CountsOn(p) \/ Inserts(p) \/ Collides(p)
      /\ UNCHANGED <<stage, titled, book, errors, asked>>
  BY CreateCases
<1>2. /\ BookTypes'
      /\ \A q \in Procs \ {p} : req'[q] = req[q] /\ jobs'[q] = jobs[q]
      /\ \A b \in Books : made'[b] >= made[b] /\ made'[b] \in Nat /\ made[b] \in Nat
      /\ jobs'[p] = "running" => jobs[p] = "running" /\ req'[p].step # "idle" /\ req'[p].book = req[p].book
  BY CreateTypes
<1>3. jobs' = jobs \/ (jobs[p] = "running" /\ jobs'[p] \in {"done", "refused"})
  BY <1>1 DEF CountsOn, Inserts, Collides
<1>4. JobsAreOfBook'
  <2>1. stage # "booking" \/ jobs' = jobs
    BY <1>3 DEF JobsAreOfBook, NewBook!NoJobs
  <2>2. \A q \in Procs : jobs'[q] # "none" => jobs[q] # "none"
    BY <1>2, <1>3
  <2>3. \A q \in Procs : jobs'[q] = "running" => req'[q].step # "idle" /\ req'[q].book = book
    BY <1>2 DEF JobsAreOfBook
  <2>4. QED
    BY <1>1, <2>1, <2>2, <2>3 DEF JobsAreOfBook
<1>5. NewBook!Jobs("none")' = NewBook!Jobs("none")
  BY <1>2, <1>3 DEF NewBook!Jobs
<1>6. book \in titled => Cardinality(NewBook!Jobs("done"))' <= made'[book]
  <2> SUFFICES ASSUME book \in titled PROVE Cardinality(NewBook!Jobs("done"))' <= made'[book]
    OBVIOUS
  <2>1. made[book] \in Nat /\ made'[book] \in Nat /\ made'[book] >= made[book] /\ book \in Books
    BY <1>2
  <2>2. CASE NewBook!Jobs("done")' = NewBook!Jobs("done")
    BY <2>1, <2>2, JobsFinite DEF DoneIsMade
  <2>3. CASE Inserts(p) /\ jobs[p] = "running"
    <3>1. NewBook!Jobs("done")' = NewBook!Jobs("done") \cup {p}
      BY <1>2, <2>3 DEF Inserts, NewBook!Jobs
    <3>2. Cardinality(NewBook!Jobs("done"))' <= Cardinality(NewBook!Jobs("done")) + 1
      BY <3>1, JobsFinite, FS_AddElement
    <3>3. made'[book] = made[book] + 1
      BY <2>1, <2>3 DEF Inserts, JobsAreOfBook
    <3>4. QED
      BY <2>1, <3>2, <3>3, JobsFinite DEF DoneIsMade
  <2>4. CASE ~(Inserts(p) /\ jobs[p] = "running")
    <3>1. jobs' = jobs \/ (jobs'[p] = "refused" /\ jobs[p] = "running")
      BY <1>1, <1>3, <2>4 DEF CountsOn, Inserts, Collides
    <3>2. NewBook!Jobs("done")' = NewBook!Jobs("done")
      BY <1>2, <3>1 DEF NewBook!Jobs
    <3>3. QED
      BY <2>2, <3>2
  <2>5. QED
    BY <2>3, <2>4
<1>7. DoneIsMade'
  <2>1. Cardinality(Procs \ NewBook!Jobs("none"))' = Cardinality(Procs \ NewBook!Jobs("none"))
    BY <1>5
  <2>2. stage = "left" => asked <= made'[book]
    <3> SUFFICES ASSUME stage = "left" PROVE asked <= made'[book]
      OBVIOUS
    <3>1. book \in Books /\ asked <= made[book]
      BY DEF JobsAreOfBook, DoneIsMade
    <3>2. QED
      BY <1>2, <3>1
  <2>3. QED
    BY <1>1, <1>6, <2>1, <2>2 DEF DoneIsMade
<1>8. BooksCounted'
  BY <1>1 DEF BooksCounted, Settled
<1>9. QED
  BY <1>2, <1>4, <1>7, <1>8

(* A copy of any book deleted by other staff.                              *)
LEMMA OthersDeleteStep == BookInv /\ NewBook!OthersDelete => BookInv'
<1> SUFFICES ASSUME BookInv, NewBook!OthersDelete PROVE BookInv'
  OBVIOUS
<1>1. copies' \in SUBSET copies
  BY DEF NewBook!OthersDelete, NewBook!DeleteCopy
<1>2. UNCHANGED <<made, req, stage, titled, book, jobs, errors, asked>>
  BY DEF NewBook!OthersDelete, NewBook!DeleteCopy, NewBook!formVars
<1>3. IsFiniteSet(copies')
  BY <1>1, FS_Subset DEF BookInv, BookTypes
<1>4. BookTypes'
  BY <1>1, <1>2, <1>3 DEF BookInv, BookTypes
<1>5. JobsAreOfBook' /\ DoneIsMade' /\ BooksCounted'
  BY <1>2 DEF BookInv, JobsAreOfBook, DoneIsMade, BooksCounted, Settled, NewBook!Jobs
<1>6. QED
  BY <1>4, <1>5 DEF BookInv

LEMMA BookStep == BookInv /\ [Next]_vars => BookInv'
<1> SUFFICES ASSUME BookInv, [Next]_vars PROVE BookInv'
  OBVIOUS
<1>1. CASE UNCHANGED bookVars
  BY <1>1 DEF bookVars, BookInv, BookTypes, JobsAreOfBook, DoneIsMade, BooksCounted, Settled, NewBook!Jobs
<1>2. CASE NewBook!BookNext
  BY <1>2, OthersDeleteStep, ScriptStep, MakeBookStep, AskStep, LeaveStep, BeginStep, LoseStep, CreateStep
     DEF NewBook!BookNext
<1>3. QED
  BY <1>1, <1>2 DEF Next, InRegister, InNewBook, InNotices, vars

(* OneCompleteBook: the form leaves for the page of the book only when it  *)
(* has had every copy that was asked for, and makes one book for each      *)
(* error it showed, and one (books/new/page.tsx, copies.go).               *)
THEOREM BookComplete == Spec => []OneCompleteBook
<1>1. BookInv => OneCompleteBook
  <2> SUFFICES ASSUME BookInv PROVE OneCompleteBook
    OBVIOUS
  <2> USE DEF BookInv, BookTypes
  <2>1. stage = "left" => book \in titled /\ made[book] \in Nat /\ made[book] >= asked
    BY DEF JobsAreOfBook, DoneIsMade
  <2>2. IsFiniteSet(titled) /\ Cardinality(titled) \in Nat
    BY ScreensAssumption, FS_Subset, FS_CardinalityType
  <2>3. Cardinality(titled) <= errors + 1
    BY <2>2 DEF BooksCounted
  <2>4. QED
    BY <2>1, <2>3, SameCount DEF OneCompleteBook, NewBook!OneCompleteBook
<1>2. QED
  BY <1>1, BookStart, BookStep, PTL DEF Spec
-----------------------------------------------------------------------------
(* The first copies.  When no two books share a prefix, each round of      *)
(* createCopy that failed met a number of a copy of the same book.  Gone   *)
(* are the copies of a book deleted so far, Met the numbers in use up to   *)
(* one.  A failed round is accounted for by a number still in use below    *)
(* those it tries next, by a deletion that took one away, or by a deletion *)
(* since it counted first: the count, and the numbers tried, then go back. *)
OwnPrefixes == \A b \in Books : NewBook!OwnPrefix(b)

Gone(b)   == made[b] - Cardinality(NewBook!CopiesOf(b))
Met(b, k) == {n \in 1..k : \E c \in NewBook!CopiesOf(b) : c.number = n}

Accounted(b, a, s, f) ==
  /\ s <= f /\ f <= made[b] /\ f - s <= Gone(b)
  /\ a <= Cardinality(Met(b, s + a)) + Gone(b) + (f - s)

RoundsMet(p) ==
  req[p].step # "idle" => Accounted(req[p].book, req[p].attempt, req[p].seq, req[p].from)

CopiesAreMade      == \A b \in Books : Gone(b) >= 0
RoundsMetCopies    == CopiesAreMade /\ \A p \in Procs : RoundsMet(p)
RefusedAfterRounds == \A p \in Procs : jobs[p] = "refused" => made[book] + Gone(book) >= Attempts

FirstInv == OwnPrefixes /\ BookInv /\ RoundsMetCopies /\ RefusedAfterRounds

LEMMA FirstStart == Init /\ OwnPrefixes => FirstInv
<1> SUFFICES ASSUME Init, OwnPrefixes PROVE FirstInv
  OBVIOUS
<1>1. /\ copies = {} /\ made = [b \in Books |-> 0] /\ req = [p \in Procs |-> NewBook!Idle]
      /\ jobs = NewBook!NoJobs
  BY DEF Init, NewBook!BookInit, NewBook!Init
<1>2. \A b \in Books : NewBook!CopiesOf(b) = {}
  BY <1>1 DEF NewBook!CopiesOf
<1>3. RoundsMetCopies
  BY <1>1, <1>2, FS_EmptySet DEF RoundsMetCopies, CopiesAreMade, Gone, RoundsMet, NewBook!Idle
<1>4. RefusedAfterRounds
  BY <1>1 DEF RefusedAfterRounds, NewBook!NoJobs
<1>5. QED
  BY <1>3, <1>4, BookStart DEF FirstInv

(* How many copies and numbers there are.                                  *)
LEMMA GoneType ==
  ASSUME BookTypes, NEW b \in Books
  PROVE  /\ IsFiniteSet(NewBook!CopiesOf(b)) /\ Cardinality(NewBook!CopiesOf(b)) \in Nat
         /\ made[b] \in Nat /\ Gone(b) \in Int
         /\ Gone(b) = made[b] - Cardinality(NewBook!CopiesOf(b))
<1>1. NewBook!CopiesOf(b) \subseteq copies
  BY DEF NewBook!CopiesOf
<1>2. IsFiniteSet(NewBook!CopiesOf(b)) /\ Cardinality(NewBook!CopiesOf(b)) \in Nat
  BY <1>1, FS_Subset, FS_CardinalityType DEF BookTypes
<1>3. made[b] \in Nat
  BY DEF BookTypes
<1>4. QED
  BY <1>2, <1>3 DEF Gone

LEMMA MetFinite ==
  ASSUME NEW b, NEW k \in Nat
  PROVE  /\ IsFiniteSet(Met(b, k)) /\ Cardinality(Met(b, k)) \in Nat
         /\ IsFiniteSet(Met(b, k)') /\ Cardinality(Met(b, k)') \in Nat
<1>1. Met(b, k) \subseteq 1..k /\ Met(b, k)' \subseteq 1..k
  BY DEF Met
<1>2. IsFiniteSet(1..k)
  BY FS_Interval
<1>3. QED
  BY <1>1, <1>2, FS_Subset, FS_CardinalityType

LEMMA MetAreCopies ==
  ASSUME BookTypes, NEW b \in Books, NEW k \in Nat
  PROVE  Cardinality(Met(b, k)) <= Cardinality(NewBook!CopiesOf(b))
<1> DEFINE low == {c \in NewBook!CopiesOf(b) : c.number \in 1..k}
           num == [c \in low |-> c.number]
<1>1. IsFiniteSet(NewBook!CopiesOf(b)) /\ Cardinality(NewBook!CopiesOf(b)) \in Nat
  BY GoneType
<1>2. IsFiniteSet(low) /\ Cardinality(low) <= Cardinality(NewBook!CopiesOf(b)) /\ Cardinality(low) \in Nat
  BY <1>1, FS_Subset, FS_CardinalityType
<1>3. num \in Surjection(low, Met(b, k))
  <2>1. num \in [low -> Met(b, k)]
    BY DEF Met
  <2>2. \A n \in Met(b, k) : \E c \in low : num[c] = n
    BY DEF Met
  <2>3. QED
    BY <2>1, <2>2 DEF Surjection
<1>4. Cardinality(Met(b, k)) <= Cardinality(low)
  BY <1>2, <1>3, FS_Surjection
<1>5. QED
  BY <1>1, <1>2, <1>4, MetFinite

LEMMA MetGrows ==
  ASSUME NEW b, NEW j \in Nat, NEW k \in Nat, j <= k, copies \subseteq copies'
  PROVE  Cardinality(Met(b, j)) <= Cardinality(Met(b, k)')
<1>1. Met(b, j) \subseteq Met(b, k)'
  BY DEF Met, NewBook!CopiesOf
<1>2. QED
  BY <1>1, MetFinite, FS_Subset

LEMMA MetBefore ==
  ASSUME NEW b, NEW j \in Nat, NEW k \in Nat, j <= k
  PROVE  Cardinality(Met(b, k)) <= Cardinality(Met(b, j)) + (k - j)
<1> DEFINE gap == (j + 1)..k
<1>1. IsFiniteSet(gap) /\ Cardinality(gap) = k - j
  <2>1. j + 1 \in Int /\ k \in Int
    OBVIOUS
  <2>2. IsFiniteSet(gap) /\ Cardinality(gap) = IF j + 1 > k THEN 0 ELSE k - (j + 1) + 1
    BY <2>1, FS_Interval
  <2>3. QED
    BY <2>2
<1>2. Met(b, k) \subseteq Met(b, j) \cup gap
  BY DEF Met
<1>3. IsFiniteSet(Met(b, j) \cup gap) /\ Cardinality(Met(b, j) \cup gap) <= Cardinality(Met(b, j)) + (k - j)
  <2>1. /\ IsFiniteSet(Met(b, j) \cup gap)
        /\ Cardinality(Met(b, j) \cup gap) =
             Cardinality(Met(b, j)) + Cardinality(gap) - Cardinality(Met(b, j) \cap gap)
    BY <1>1, MetFinite, FS_Union
  <2>2. Cardinality(Met(b, j) \cap gap) \in Nat
    BY MetFinite, FS_Intersection, FS_CardinalityType
  <2>3. Cardinality(Met(b, j)) \in Nat
    BY MetFinite
  <2>4. QED
    BY <1>1, <2>1, <2>2, <2>3
<1>4. Cardinality(Met(b, k)) <= Cardinality(Met(b, j) \cup gap)
  BY <1>2, <1>3, FS_Subset
<1>5. /\ Cardinality(Met(b, k)) \in Nat /\ Cardinality(Met(b, j)) \in Nat
      /\ Cardinality(Met(b, j) \cup gap) \in Nat
  BY <1>3, MetFinite, FS_CardinalityType
<1>6. QED
  BY <1>3, <1>4, <1>5

(* A step that adds copies, or deletes one, takes no number away without a *)
(* deletion for it.                                                        *)
NothingLost ==
  \A b \in Books :
    /\ made'[b] \in Nat /\ made'[b] >= made[b]
    /\ Gone(b)' \in Int /\ Gone(b)' >= Gone(b)
    /\ \A k \in Nat : Cardinality(Met(b, k)') + Gone(b)' >= Cardinality(Met(b, k)) + Gone(b)

LEMMA QuietLosesNothing == ASSUME BookTypes, UNCHANGED <<copies, made>> PROVE NothingLost
<1> SUFFICES ASSUME NEW b \in Books
             PROVE  /\ made'[b] \in Nat /\ made'[b] >= made[b]
                    /\ Gone(b)' \in Int /\ Gone(b)' >= Gone(b)
                    /\ \A k \in Nat : Cardinality(Met(b, k)') + Gone(b)' >= Cardinality(Met(b, k)) + Gone(b)
  BY DEF NothingLost
<1>1. made' = made /\ Gone(b)' = Gone(b) /\ \A k \in Nat : Met(b, k)' = Met(b, k)
  BY DEF Gone, Met, NewBook!CopiesOf
<1>2. made[b] \in Nat /\ Gone(b) \in Int
  BY GoneType
<1>3. \A k \in Nat : Cardinality(Met(b, k)) \in Nat
  BY MetFinite
<1>4. QED
  BY <1>1, <1>2, <1>3

LEMMA InsertLosesNothing ==
  ASSUME BookTypes, BookTypes', NEW p \in Procs, Inserts(p)
  PROVE  NothingLost
<1>1. PICK a \in Books : a = req[p].book
  BY DEF Inserts, BookTypes
<1>2. PICK new : new.book = a /\ copies' = copies \cup {new}
  <2>1. PICK id : copies' = copies \cup {[id |-> id, book |-> req[p].book, number |-> NewBook!Number(p)]}
    BY DEF Inserts
  <2>2. [id |-> id, book |-> req[p].book, number |-> NewBook!Number(p)].book = a
    BY <1>1
  <2>3. QED
    BY <2>1, <2>2
<1>3. made' = [made EXCEPT ![a] = @ + 1] /\ made \in [Books -> Nat]
  BY <1>1 DEF Inserts, BookTypes
<1> SUFFICES ASSUME NEW b \in Books
             PROVE  /\ made'[b] \in Nat /\ made'[b] >= made[b]
                    /\ Gone(b)' \in Int /\ Gone(b)' >= Gone(b)
                    /\ \A k \in Nat : Cardinality(Met(b, k)') + Gone(b)' >= Cardinality(Met(b, k)) + Gone(b)
  BY DEF NothingLost
<1>4. /\ IsFiniteSet(NewBook!CopiesOf(b)) /\ Cardinality(NewBook!CopiesOf(b)) \in Nat
      /\ made[b] \in Nat /\ Gone(b) \in Int
      /\ Gone(b) = made[b] - Cardinality(NewBook!CopiesOf(b))
  BY GoneType
<1>5. made'[b] \in Nat /\ made'[b] >= made[b]
  BY <1>3
<1>6. Gone(b)' \in Int /\ Gone(b)' >= Gone(b)
  <2>1. CASE b = a
    <3>1. NewBook!CopiesOf(b)' = NewBook!CopiesOf(b) \cup {new}
      BY <1>2, <2>1 DEF NewBook!CopiesOf
    <3>2. Cardinality(NewBook!CopiesOf(b)') \in
            {Cardinality(NewBook!CopiesOf(b)), Cardinality(NewBook!CopiesOf(b)) + 1}
      BY <1>4, <3>1, FS_AddElement
    <3>3. made'[b] = made[b] + 1 /\ Gone(b)' = made'[b] - Cardinality(NewBook!CopiesOf(b)')
      BY <1>3, <2>1 DEF Gone
    <3>4. QED
      BY <1>4, <3>2, <3>3
  <2>2. CASE b # a
    <3>1. NewBook!CopiesOf(b)' = NewBook!CopiesOf(b) /\ made'[b] = made[b]
      BY <1>2, <1>3, <2>2 DEF NewBook!CopiesOf
    <3>2. QED
      BY <1>4, <3>1 DEF Gone
  <2>3. QED
    BY <2>1, <2>2
<1>7. ASSUME NEW k \in Nat
      PROVE  Cardinality(Met(b, k)') + Gone(b)' >= Cardinality(Met(b, k)) + Gone(b)
  <2>1. copies \subseteq copies' /\ k <= k
    BY <1>2
  <2>2. Cardinality(Met(b, k)) <= Cardinality(Met(b, k)')
    BY <2>1, MetGrows
  <2>3. Cardinality(Met(b, k)) \in Nat /\ Cardinality(Met(b, k)') \in Nat
    BY MetFinite
  <2>4. QED
    BY <1>4, <1>6, <2>2, <2>3
<1>8. QED
  BY <1>5, <1>6, <1>7

LEMMA DeleteLosesNothing ==
  ASSUME BookTypes, NEW old \in copies, copies' = copies \ {old}, made' = made
  PROVE  NothingLost
<1> SUFFICES ASSUME NEW b \in Books
             PROVE  /\ made'[b] \in Nat /\ made'[b] >= made[b]
                    /\ Gone(b)' \in Int /\ Gone(b)' >= Gone(b)
                    /\ \A k \in Nat : Cardinality(Met(b, k)') + Gone(b)' >= Cardinality(Met(b, k)) + Gone(b)
  BY DEF NothingLost
<1>1. /\ IsFiniteSet(NewBook!CopiesOf(b)) /\ Cardinality(NewBook!CopiesOf(b)) \in Nat
      /\ made[b] \in Nat /\ Gone(b) \in Int
      /\ Gone(b) = made[b] - Cardinality(NewBook!CopiesOf(b))
  BY GoneType
<1>2. made'[b] \in Nat /\ made'[b] >= made[b]
  BY <1>1
<1>3. \A k \in Nat : Cardinality(Met(b, k)) \in Nat /\ Cardinality(Met(b, k)') \in Nat
  BY MetFinite
<1>4. CASE old.book = b
  <2>1. NewBook!CopiesOf(b)' = NewBook!CopiesOf(b) \ {old} /\ old \in NewBook!CopiesOf(b)
    BY <1>4 DEF NewBook!CopiesOf
  <2>2. Cardinality(NewBook!CopiesOf(b)') = Cardinality(NewBook!CopiesOf(b)) - 1
    BY <1>1, <2>1, FS_RemoveElement
  <2>3. Gone(b)' = Gone(b) + 1
    BY <1>1, <2>2 DEF Gone
  <2>4. ASSUME NEW k \in Nat PROVE Cardinality(Met(b, k)) <= Cardinality(Met(b, k)') + 1
    <3>1. Met(b, k) \subseteq Met(b, k)' \cup {old.number}
      BY DEF Met, NewBook!CopiesOf
    <3>2. IsFiniteSet(Met(b, k)') /\ Cardinality(Met(b, k)') \in Nat
      BY MetFinite
    <3>3. /\ IsFiniteSet(Met(b, k)' \cup {old.number})
          /\ Cardinality(Met(b, k)' \cup {old.number}) <= Cardinality(Met(b, k)') + 1
      BY <3>2, FS_AddElement
    <3>4. Cardinality(Met(b, k)) <= Cardinality(Met(b, k)' \cup {old.number})
      BY <3>1, <3>3, FS_Subset
    <3>5. Cardinality(Met(b, k)' \cup {old.number}) \in Nat
      BY <3>3, FS_CardinalityType
    <3>6. QED
      BY <1>3, <3>2, <3>3, <3>4, <3>5
  <2>5. QED
    BY <1>1, <1>2, <1>3, <2>3, <2>4
<1>5. CASE old.book # b
  <2>1. NewBook!CopiesOf(b)' = NewBook!CopiesOf(b)
    BY <1>5 DEF NewBook!CopiesOf
  <2>2. Gone(b)' = Gone(b) /\ \A k \in Nat : Met(b, k)' = Met(b, k)
    BY <2>1 DEF Gone, Met
  <2>3. QED
    BY <1>1, <1>2, <1>3, <2>2
<1>6. QED
  BY <1>4, <1>5

(* What is accounted for stays so.                                         *)
LEMMA StaysAccounted ==
  ASSUME BookTypes, NothingLost, NEW b \in Books,
         NEW a \in Nat, NEW s \in Nat, NEW f \in Nat, Accounted(b, a, s, f)
  PROVE  Accounted(b, a, s, f)'
<1>1. /\ s + a \in Nat /\ Gone(b) \in Int /\ Gone(b)' \in Int /\ Gone(b)' >= Gone(b)
      /\ made[b] \in Nat /\ made'[b] \in Nat /\ made'[b] >= made[b]
  BY GoneType DEF NothingLost
<1>2. /\ Cardinality(Met(b, s + a)) \in Nat /\ Cardinality(Met(b, s + a)') \in Nat
      /\ Cardinality(Met(b, s + a)') + Gone(b)' >= Cardinality(Met(b, s + a)) + Gone(b)
  BY <1>1, MetFinite DEF NothingLost
<1>3. s <= f /\ f <= made[b] /\ f - s <= Gone(b) /\ a <= Cardinality(Met(b, s + a)) + Gone(b) + (f - s)
  BY DEF Accounted
<1>4. f <= made'[b] /\ f - s <= Gone(b)'
  BY <1>1, <1>3
<1>5. a <= Cardinality(Met(b, s + a)') + Gone(b)' + (f - s)
  BY <1>1, <1>2, <1>3
<1>6. QED
  BY <1>3, <1>4, <1>5 DEF Accounted

LEMMA RoundsKept ==
  ASSUME FirstInv, NothingLost, NEW q \in Procs, req'[q] = req[q]
  PROVE  RoundsMet(q)'
<1> SUFFICES ASSUME req[q].step # "idle"
             PROVE  Accounted(req[q].book, req[q].attempt, req[q].seq, req[q].from)'
  BY DEF RoundsMet
<1>1. PICK b \in Books, a \in Nat, s \in Nat, f \in Nat :
        b = req[q].book /\ a = req[q].attempt /\ s = req[q].seq /\ f = req[q].from
  BY DEF FirstInv, BookInv, BookTypes, BookRequest
<1>2. Accounted(b, a, s, f) /\ BookTypes
  BY <1>1 DEF FirstInv, BookInv, RoundsMetCopies, RoundsMet
<1>3. Accounted(b, a, s, f)'
  BY <1>2, StaysAccounted
<1>4. b = req'[q].book /\ a = req'[q].attempt /\ s = req'[q].seq /\ f = req'[q].from
  BY <1>1
<1>5. QED
  BY <1>3, <1>4 DEF Accounted, Met, NewBook!CopiesOf, Gone

LEMMA CopiesKept == FirstInv /\ NothingLost => CopiesAreMade'
<1> SUFFICES ASSUME FirstInv, NothingLost, NEW b \in Books PROVE Gone(b)' >= 0
  BY DEF CopiesAreMade
<1>1. Gone(b) >= 0 /\ Gone(b) \in Int /\ Gone(b)' \in Int /\ Gone(b)' >= Gone(b)
  BY GoneType DEF FirstInv, BookInv, RoundsMetCopies, CopiesAreMade, NothingLost
<1>2. QED
  BY <1>1

LEMMA RefusedKept ==
  ASSUME FirstInv, NothingLost, \A p \in Procs : jobs'[p] = "refused" => jobs[p] = "refused" /\ book' = book
  PROVE  RefusedAfterRounds'
<1> SUFFICES ASSUME NEW p \in Procs, jobs'[p] = "refused" PROVE (made[book] + Gone(book))' >= Attempts
  BY DEF RefusedAfterRounds
<1>1. PICK b \in Books : b = book /\ b = book'
  BY DEF FirstInv, BookInv, JobsAreOfBook, BookTypes
<1>2. made[b] + Gone(b) >= Attempts /\ Attempts \in Nat
  BY <1>1, ScreensAssumption DEF FirstInv, RefusedAfterRounds
<1>3. made[b] \in Nat /\ made'[b] \in Nat /\ made'[b] >= made[b]
  BY GoneType DEF FirstInv, BookInv, NothingLost
<1>4. Gone(b) \in Int /\ Gone(b)' \in Int /\ Gone(b)' >= Gone(b)
  BY GoneType DEF FirstInv, BookInv, NothingLost
<1>5. made'[b] + Gone(b)' >= Attempts
  BY <1>2, <1>3, <1>4
<1>6. QED
  BY <1>1, <1>5 DEF Gone, NewBook!CopiesOf

LEMMA QuietStep ==
  ASSUME FirstInv, NothingLost, UNCHANGED req,
         \A p \in Procs : jobs'[p] = "refused" => jobs[p] = "refused" /\ book' = book
  PROVE  RoundsMetCopies' /\ RefusedAfterRounds'
<1>1. \A q \in Procs : RoundsMet(q)'
  BY RoundsKept
<1>2. QED
  BY <1>1, CopiesKept, RefusedKept DEF RoundsMetCopies

LEMMA BeginRounds ==
  ASSUME FirstInv, NEW p \in Procs, NewBook!StartCopy(p) \/ NewBook!OthersAdd(p)
  PROVE  RoundsMetCopies' /\ RefusedAfterRounds'
<1>1. BookTypes
  BY DEF FirstInv, BookInv
<1>2. /\ UNCHANGED <<copies, made, book>>
      /\ jobs' = jobs \/ jobs' = [jobs EXCEPT ![p] = "running"]
  BY DEF NewBook!StartCopy, NewBook!OthersAdd, NewBook!Start, NewBook!formVars
<1>3. PICK b \in Books : req' = [req EXCEPT ![p] = [NewBook!Idle EXCEPT !.step = "count", !.book = b]]
  <2>1. CASE NewBook!StartCopy(p)
    <3>1. book \in Books
      BY <2>1 DEF NewBook!StartCopy, FirstInv, BookInv, JobsAreOfBook, BookTypes
    <3>2. QED
      BY <2>1, <3>1 DEF NewBook!StartCopy, NewBook!Start
  <2>2. CASE NewBook!OthersAdd(p)
    BY <1>1, <2>2 DEF NewBook!OthersAdd, NewBook!Start, BookTypes
  <2>3. QED
    BY <2>1, <2>2
<1>4. /\ req'[p].seq = 0 /\ req'[p].attempt = 0 /\ req'[p].from = 0 /\ req'[p].book = b
      /\ \A q \in Procs \ {p} : req'[q] = req[q]
  BY <1>1, <1>3 DEF BookTypes, NewBook!Idle
<1>5. NothingLost
  BY <1>1, <1>2, QuietLosesNothing
<1>6. \A q \in Procs \ {p} : RoundsMet(q)'
  BY <1>4, <1>5, RoundsKept
<1>7. Accounted(b, 0, 0, 0)'
  <2>1. Gone(b)' >= 0 /\ Gone(b)' \in Int /\ made'[b] >= 0
    BY <1>1, <1>5, CopiesKept, GoneType DEF CopiesAreMade, NothingLost
  <2>2. Cardinality(Met(b, 0 + 0)') \in Nat
    BY MetFinite
  <2>3. QED
    BY <2>1, <2>2 DEF Accounted
<1>8. RoundsMet(p)'
  BY <1>4, <1>7 DEF RoundsMet, Accounted, Met, NewBook!CopiesOf, Gone
<1>9. RefusedAfterRounds'
  <2>1. \A q \in Procs : jobs'[q] = "refused" => jobs[q] = "refused" /\ book' = book
    BY <1>1, <1>2 DEF BookTypes
  <2>2. QED
    BY <1>5, <2>1, RefusedKept
<1>10. QED
  BY <1>5, <1>6, <1>8, <1>9, CopiesKept DEF RoundsMetCopies

(* A second count may be lower, by the deletions since the first at most;  *)
(* the numbers between the two starts make up for no more.                 *)
LEMMA CountRounds ==
  ASSUME FirstInv, NEW p \in Procs, CountsOn(p), book' = book
  PROVE  RoundsMetCopies' /\ RefusedAfterRounds'
<1>1. BookTypes /\ req[p] \in BookRequest /\ p \in DOMAIN req /\ req[p].book \in Books
  BY DEF CountsOn, FirstInv, BookInv, BookTypes
<1>2. PICK b \in Books, a \in Nat, s \in Nat, f \in Nat :
        b = req[p].book /\ a = req[p].attempt /\ s = req[p].seq /\ f = req[p].from
  BY <1>1 DEF BookRequest
<1>3. PICK n \in Nat, m \in Nat : n = Cardinality(NewBook!CopiesOf(b)) /\ m = made[b]
  BY <1>1, GoneType
<1>4. /\ UNCHANGED <<copies, made, jobs>>
      /\ req' = [req EXCEPT ![p].step = "insert", ![p].seq = n, ![p].from = m]
  BY <1>2, <1>3, SameCount DEF CountsOn, NewBook!Count
<1>5. /\ req'[p].seq = n /\ req'[p].attempt = a /\ req'[p].book = b /\ req'[p].from = m
      /\ \A q \in Procs \ {p} : req'[q] = req[q]
  BY <1>1, <1>2, <1>4 DEF BookTypes, BookRequest
<1>6. NothingLost
  BY <1>1, <1>4, QuietLosesNothing
<1>7. \A q \in Procs \ {p} : RoundsMet(q)'
  BY <1>5, <1>6, RoundsKept
<1>8. Accounted(b, a, n, m)
  <2>1. Accounted(b, a, s, f)
    BY <1>2 DEF CountsOn, FirstInv, RoundsMetCopies, RoundsMet
  <2>2. Gone(b) = m - n /\ Gone(b) >= 0
    BY <1>1, <1>3, GoneType DEF FirstInv, RoundsMetCopies, CopiesAreMade
  <2>3. s <= f /\ f <= m /\ f - s <= m - n /\ a <= Cardinality(Met(b, s + a)) + (m - n) + (f - s)
    BY <1>3, <2>1, <2>2 DEF Accounted
  <2>4. s + a \in Nat /\ n + a \in Nat
    OBVIOUS
  <2>5. Cardinality(Met(b, s + a)) \in Nat /\ Cardinality(Met(b, n + a)) \in Nat
    BY <2>4, MetFinite
  <2>6. CASE s <= n
    <3>1. Met(b, s + a) \subseteq Met(b, n + a)
      BY <2>4, <2>6 DEF Met
    <3>2. Cardinality(Met(b, s + a)) <= Cardinality(Met(b, n + a))
      BY <2>4, <3>1, MetFinite, FS_Subset
    <3>3. QED
      BY <1>3, <2>2, <2>3, <2>5, <3>2 DEF Accounted
  <2>7. CASE n < s
    <3>1. n + a <= s + a /\ (s + a) - (n + a) = s - n
      BY <2>7
    <3>2. Cardinality(Met(b, s + a)) <= Cardinality(Met(b, n + a)) + ((s + a) - (n + a))
      BY <2>4, <3>1, MetBefore
    <3>3. QED
      BY <1>3, <2>2, <2>3, <2>5, <3>1, <3>2 DEF Accounted
  <2>8. QED
    BY <2>6, <2>7
<1>9. RoundsMet(p)'
  BY <1>4, <1>5, <1>8 DEF RoundsMet, Accounted, Met, NewBook!CopiesOf, Gone
<1>10. RefusedAfterRounds'
  BY <1>4, <1>6, RefusedKept
<1>11. QED
  BY <1>6, <1>7, <1>9, <1>10, CopiesKept DEF RoundsMetCopies

LEMMA InsertRounds ==
  ASSUME FirstInv, NEW p \in Procs, Inserts(p), BookTypes', book' = book
  PROVE  RoundsMetCopies' /\ RefusedAfterRounds'
<1>1. BookTypes
  BY DEF FirstInv, BookInv
<1>2. /\ req'[p].step = "idle" /\ \A q \in Procs \ {p} : req'[q] = req[q]
      /\ \A q \in Procs : jobs'[q] = "refused" => jobs[q] = "refused"
  BY <1>1 DEF Inserts, NewBook!Idle, BookTypes
<1>3. NothingLost
  BY <1>1, InsertLosesNothing
<1>4. \A q \in Procs : RoundsMet(q)'
  <2>1. \A q \in Procs \ {p} : RoundsMet(q)'
    BY <1>2, <1>3, RoundsKept
  <2>2. RoundsMet(p)'
    BY <1>2 DEF RoundsMet
  <2>3. QED
    BY <2>1, <2>2
<1>5. QED
  BY <1>2, <1>3, <1>4, CopiesKept, RefusedKept DEF RoundsMetCopies

(* The copy met has the number that was tried, which no earlier round had. *)
LEMMA CollideRounds ==
  ASSUME FirstInv, NEW p \in Procs, Collides(p), book' = book
  PROVE  RoundsMetCopies' /\ RefusedAfterRounds'
<1>1. BookTypes /\ req[p] \in BookRequest /\ p \in DOMAIN req /\ req[p].book \in Books
  BY DEF Collides, FirstInv, BookInv, BookTypes
<1>2. PICK b \in Books, a \in Nat, s \in Nat, f \in Nat :
        b = req[p].book /\ a = req[p].attempt /\ s = req[p].seq /\ f = req[p].from
  BY <1>1 DEF BookRequest
<1>3. PICK c \in copies : c.book = b /\ c.number = s + 1 + a
  <2>1. \E c \in copies : /\ SchoolOf[c.book] = SchoolOf[b] /\ PrefixOf[c.book] = PrefixOf[b]
                          /\ c.number = s + 1 + a
    BY <1>2 DEF Collides, NewBook!Taken, NewBook!SchoolCopies, NewBook!Number
  <2>2. QED
    BY <1>1, <2>1 DEF FirstInv, OwnPrefixes, NewBook!OwnPrefix, BookTypes
<1>4. Accounted(b, a, s, f)
  BY <1>2 DEF Collides, FirstInv, RoundsMetCopies, RoundsMet
<1>5. Accounted(b, a + 1, s, f)
  <2> DEFINE n == s + (a + 1)
  <2>1. n \in Nat /\ s + a \in Nat /\ n \in 1..n /\ n = s + 1 + a /\ n \notin 1..(s + a)
    OBVIOUS
  <2>2. Met(b, s + a) \cup {n} \subseteq Met(b, n) /\ n \notin Met(b, s + a)
    BY <1>3, <2>1 DEF Met, NewBook!CopiesOf
  <2>3. /\ IsFiniteSet(Met(b, s + a)) /\ IsFiniteSet(Met(b, n))
        /\ Cardinality(Met(b, s + a)) \in Nat /\ Cardinality(Met(b, n)) \in Nat
    BY <2>1, MetFinite
  <2>4. Cardinality(Met(b, s + a) \cup {n}) = Cardinality(Met(b, s + a)) + 1
    BY <2>2, <2>3, FS_AddElement
  <2>5. Cardinality(Met(b, s + a) \cup {n}) <= Cardinality(Met(b, n))
    BY <2>2, <2>3, FS_Subset
  <2>6. Gone(b) \in Int
    BY <1>1, GoneType
  <2>7. a + 1 <= Cardinality(Met(b, n)) + Gone(b) + (f - s)
    BY <1>4, <2>3, <2>4, <2>5, <2>6 DEF Accounted
  <2>8. QED
    BY <1>4, <2>7 DEF Accounted
<1>6. a + 1 <= made[b] + Gone(b)
  <2>1. s + (a + 1) \in Nat
    OBVIOUS
  <2>2. Cardinality(Met(b, s + (a + 1))) <= Cardinality(NewBook!CopiesOf(b))
    BY <1>1, <2>1, MetAreCopies
  <2>3. /\ Cardinality(NewBook!CopiesOf(b)) \in Nat /\ made[b] \in Nat /\ Gone(b) \in Int
        /\ Gone(b) = made[b] - Cardinality(NewBook!CopiesOf(b))
    BY <1>1, GoneType
  <2>4. Cardinality(Met(b, s + (a + 1))) \in Nat
    BY <2>1, MetFinite
  <2>5. f - s <= Gone(b) /\ a + 1 <= Cardinality(Met(b, s + (a + 1))) + Gone(b) + (f - s)
    BY <1>5 DEF Accounted
  <2>6. QED
    BY <2>2, <2>3, <2>4, <2>5
<1>7. UNCHANGED <<copies, made>> /\ NothingLost
  BY <1>1, QuietLosesNothing DEF Collides
<1>8. CASE /\ jobs' = jobs
           /\ req' = [req EXCEPT ![p] = [req[p] EXCEPT !.step = "count", !.attempt = req[p].attempt + 1]]
  <2>1. req' = [req EXCEPT ![p] = [req[p] EXCEPT !.step = "count", !.attempt = a + 1]]
    BY <1>2, <1>8
  <2>2. /\ req'[p].seq = s /\ req'[p].attempt = a + 1 /\ req'[p].book = b /\ req'[p].from = f
        /\ \A q \in Procs \ {p} : req'[q] = req[q]
    BY <1>1, <1>2, <2>1 DEF BookTypes, BookRequest
  <2>3. \A q \in Procs \ {p} : RoundsMet(q)'
    BY <1>7, <2>2, RoundsKept
  <2>4. RoundsMet(p)'
    BY <1>5, <1>7, <2>2 DEF RoundsMet, Accounted, Met, NewBook!CopiesOf, Gone
  <2>5. RefusedAfterRounds'
    BY <1>7, <1>8, RefusedKept
  <2>6. QED
    BY <1>7, <2>3, <2>4, <2>5, CopiesKept DEF RoundsMetCopies
<1>9. CASE /\ req[p].attempt + 1 >= Attempts /\ req' = [req EXCEPT ![p] = NewBook!Idle]
           /\ jobs' = IF jobs[p] = "running" THEN [jobs EXCEPT ![p] = "refused"] ELSE jobs
  <2>1. req'[p].step = "idle" /\ \A q \in Procs \ {p} : req'[q] = req[q]
    BY <1>1, <1>9 DEF NewBook!Idle, BookTypes
  <2>2. \A q \in Procs \ {p} : RoundsMet(q)'
    BY <1>7, <2>1, RoundsKept
  <2>3. RoundsMet(p)'
    BY <2>1 DEF RoundsMet
  <2>4. jobs[p] = "running" => made[book] + Gone(book) >= Attempts
    <3> SUFFICES ASSUME jobs[p] = "running" PROVE made[book] + Gone(book) >= Attempts
      OBVIOUS
    <3>1. b = book
      BY <1>2 DEF FirstInv, BookInv, JobsAreOfBook
    <3>2. a + 1 >= Attempts /\ made[b] \in Nat /\ Gone(b) \in Int
      BY <1>1, <1>2, <1>9, GoneType
    <3>3. QED
      BY <1>6, <3>1, <3>2, ScreensAssumption
  <2>5. RefusedAfterRounds'
    <3>1. Gone(book)' = Gone(book) /\ made' = made /\ book' = book
      BY <1>7 DEF Gone, NewBook!CopiesOf
    <3>2. \A q \in Procs : jobs'[q] = "refused" => jobs[q] = "refused" \/ jobs[p] = "running"
      BY <1>9
    <3>3. QED
      BY <2>4, <3>1, <3>2 DEF RefusedAfterRounds, FirstInv
  <2>6. QED
    BY <1>7, <2>2, <2>3, <2>5, CopiesKept DEF RoundsMetCopies
<1>10. QED
  BY <1>8, <1>9 DEF Collides

LEMMA FirstStep == FirstInv /\ [Next]_vars => FirstInv'
<1> SUFFICES ASSUME FirstInv, [Next]_vars PROVE FirstInv'
  OBVIOUS
<1>1. BookInv /\ BookInv' /\ BookTypes /\ BookTypes' /\ OwnPrefixes'
  BY BookStep DEF FirstInv, BookInv, OwnPrefixes, NewBook!OwnPrefix
<1>2. CASE \/ UNCHANGED bookVars
           \/ NewBook!SubmitBook \/ NewBook!MakeBook \/ NewBook!BookFails \/ NewBook!CopiesFail \/ NewBook!Leave
           \/ \E S \in SUBSET Procs : NewBook!AskCopies(S)
           \/ \E p \in Procs : NewBook!LoseCopy(p)
  <2>1. UNCHANGED <<copies, made, req>>
    BY <1>2 DEF bookVars, NewBook!vars, NewBook!SubmitBook, NewBook!MakeBook, NewBook!BookFails,
                NewBook!CopiesFail, NewBook!Leave, NewBook!AskCopies, NewBook!LoseCopy
  <2>2. \A q \in Procs : jobs'[q] = "refused" => jobs[q] = "refused" /\ book' = book
    <3>1. CASE NewBook!MakeBook
      BY <1>1, <3>1 DEF NewBook!MakeBook, BookInv, JobsAreOfBook, NewBook!NoJobs
    <3>2. CASE NewBook!SubmitBook \/ \E S \in SUBSET Procs : NewBook!AskCopies(S)
      BY <3>2 DEF NewBook!SubmitBook, NewBook!AskCopies, NewBook!NoJobs
    <3>3. CASE \E p \in Procs : NewBook!LoseCopy(p)
      BY <1>1, <3>3 DEF NewBook!LoseCopy, BookInv, BookTypes
    <3>4. CASE UNCHANGED bookVars \/ NewBook!BookFails \/ NewBook!CopiesFail \/ NewBook!Leave
      BY <3>4 DEF bookVars, NewBook!BookFails, NewBook!CopiesFail, NewBook!Leave
    <3>5. QED
      BY <1>2, <3>1, <3>2, <3>3, <3>4
  <2>3. NothingLost
    BY <1>1, <2>1, QuietLosesNothing
  <2>4. QED
    BY <1>1, <2>1, <2>2, <2>3, QuietStep DEF FirstInv
<1>3. CASE NewBook!OthersDelete
  <2>1. PICK old \in copies : copies' = copies \ {old}
    BY <1>3 DEF NewBook!OthersDelete, NewBook!DeleteCopy
  <2>2. UNCHANGED <<made, req, jobs, book>>
    BY <1>3 DEF NewBook!OthersDelete, NewBook!DeleteCopy, NewBook!formVars
  <2>3. NothingLost
    BY <1>1, <2>1, <2>2, DeleteLosesNothing
  <2>4. QED
    BY <1>1, <2>2, <2>3, QuietStep DEF FirstInv
<1>4. ASSUME NEW p \in Procs, NewBook!StartCopy(p) \/ NewBook!OthersAdd(p) PROVE FirstInv'
  BY <1>1, <1>4, BeginRounds DEF FirstInv
<1>5. ASSUME NEW p \in Procs, NewBook!CreateCopy(p) PROVE FirstInv'
  <2>1. (CountsOn(p) \/ Inserts(p) \/ Collides(p)) /\ book' = book
    BY <1>1, <1>5, CreateCases
  <2>2. QED
    BY <1>1, <2>1, CountRounds, InsertRounds, CollideRounds DEF FirstInv
<1>6. QED
  BY <1>2, <1>3, <1>4, <1>5 DEF Next, InRegister, InNewBook, InNotices, vars, NewBook!BookNext

(* FirstCopiesSucceed: where no two books share a prefix, a copy of the    *)
(* new book is refused only when the copies made of it and those deleted   *)
(* are together as many as createCopy has attempts, however the requests   *)
(* of a batch and of other staff count, insert and delete among each other *)
(* (copies.go:67, copies.go:160).                                          *)
THEOREM FirstCopies == Spec /\ OwnPrefixes => []FirstCopiesSucceed
<1>1. FirstInv => FirstCopiesSucceed
  <2> SUFFICES ASSUME FirstInv, NEW p \in Procs, jobs[p] = "refused"
               PROVE  made[book] + (made[book] - NewBook!Count(book)) >= Attempts
    BY DEF FirstCopiesSucceed, NewBook!FirstCopiesSucceed, NewBook!Jobs
  <2>1. NewBook!Count(book) = Cardinality(NewBook!CopiesOf(book))
    BY SameCount DEF NewBook!Count
  <2>2. QED
    BY <2>1 DEF FirstInv, RefusedAfterRounds, Gone
<1>2. QED
  BY <1>1, FirstStart, FirstStep, PTL DEF Spec
-----------------------------------------------------------------------------
(* What the form asks of the server are steps of CopyCodes: whatever is    *)
(* proved of createCopy holds of the copies that forms ask for.            *)
Codes == INSTANCE CopyCodesProofs

LEMMA CodesAssumed == Codes!CodesAssumption
BY ScreensAssumption, Zenon DEF Codes!CodesAssumption, Codes!IsFiniteSet, IsFiniteSet

LEMMA CodesStart == Init => Codes!Init
BY DEF Init, NewBook!BookInit, NewBook!Init, NewBook!Idle, Codes!Init, Codes!Idle

LEMMA FormStarts ==
  ASSUME NEW p \in Procs, NEW b \in Books, NewBook!Start(p, b)
  PROVE  Codes!Start(p, b)
<1>1. NewBook!Cardinality(NewBook!Creating) = Codes!Cardinality(Codes!Creating)
  <2>1. NewBook!Creating = Codes!Creating
    BY DEF NewBook!Creating, Codes!Creating
  <2>2. \A S : NewBook!Cardinality(S) = Codes!Cardinality(S)
    BY Zenon DEF NewBook!Cardinality, Codes!Cardinality
  <2>3. QED
    BY <2>1, <2>2
<1>2. QED
  BY <1>1 DEF NewBook!Start, Codes!Start, NewBook!Idle, Codes!Idle

LEMMA FormProceeds ==
  ASSUME NEW p \in Procs, NewBook!Proceed(p)
  PROVE  Codes!Proceed(p)
<1>1. \A b : NewBook!Count(b) = Codes!Count(b)
  <2>1. \A S : NewBook!Cardinality(S) = Codes!Cardinality(S)
    BY Zenon DEF NewBook!Cardinality, Codes!Cardinality
  <2>2. \A b : NewBook!CopiesOf(b) = Codes!CopiesOf(b)
    BY DEF NewBook!CopiesOf, Codes!CopiesOf
  <2>3. QED
    BY <2>1, <2>2 DEF NewBook!Count, Codes!Count
<1>2. /\ NewBook!Number(p) = Codes!Number(p) /\ NewBook!Idle = Codes!Idle
      /\ \A b, n : NewBook!Taken(b, n) = Codes!Taken(b, n)
  BY DEF NewBook!Number, Codes!Number, NewBook!Idle, Codes!Idle, NewBook!Taken, Codes!Taken,
         NewBook!SchoolCopies, Codes!SchoolCopies
<1>3. CASE NewBook!CountCopies(p)
  BY <1>1, <1>3 DEF NewBook!CountCopies, Codes!CountCopies, Codes!Proceed
<1>4. CASE NewBook!Insert(p)
  BY <1>2, <1>4 DEF NewBook!Insert, Codes!Insert, Codes!Proceed
<1>5. CASE NewBook!Collide(p)
  BY <1>2, <1>5 DEF NewBook!Collide, Codes!Collide, NewBook!Retry, Codes!Retry, Codes!Proceed
<1>6. QED
  BY <1>3, <1>4, <1>5 DEF NewBook!Proceed

LEMMA FormStep == BookInv /\ [Next]_vars => [Codes!Next]_Codes!vars
<1> SUFFICES ASSUME BookInv, [Next]_vars PROVE Codes!Next \/ UNCHANGED Codes!vars
  OBVIOUS
<1>1. CASE UNCHANGED bookVars
  BY <1>1 DEF bookVars, Codes!vars
<1>2. CASE NewBook!BookNext
  <2>1. CASE \/ NewBook!SubmitBook \/ NewBook!MakeBook \/ NewBook!BookFails \/ NewBook!CopiesFail \/ NewBook!Leave
             \/ \E S \in SUBSET Procs : NewBook!AskCopies(S)
             \/ \E p \in Procs : NewBook!LoseCopy(p)
    BY <2>1 DEF NewBook!SubmitBook, NewBook!MakeBook, NewBook!BookFails, NewBook!CopiesFail, NewBook!Leave,
                NewBook!AskCopies, NewBook!LoseCopy, NewBook!vars, Codes!vars
  <2>2. ASSUME NEW p \in Procs, NewBook!StartCopy(p) \/ NewBook!OthersAdd(p) PROVE Codes!Next
    <3>1. PICK b \in Books : NewBook!Start(p, b)
      <4>1. book \in Books \/ ~NewBook!StartCopy(p)
        BY DEF NewBook!StartCopy, BookInv, BookTypes, JobsAreOfBook
      <4>2. titled \subseteq Books
        BY DEF BookInv, BookTypes
      <4>3. QED
        BY <2>2, <4>1, <4>2 DEF NewBook!StartCopy, NewBook!OthersAdd
    <3>2. QED
      BY <3>1, FormStarts DEF Codes!Next
  <2>3. ASSUME NEW p \in Procs, NewBook!CreateCopy(p) PROVE Codes!Next
    BY <2>3, FormProceeds DEF NewBook!CreateCopy, Codes!Next
  <2>4. CASE NewBook!OthersDelete
    BY <2>4 DEF NewBook!OthersDelete, NewBook!DeleteCopy, Codes!DeleteCopy, Codes!Next
  <2>5. QED
    BY <1>2, <2>1, <2>2, <2>3, <2>4 DEF NewBook!BookNext
<1>3. QED
  BY <1>1, <1>2 DEF Next, InRegister, InNewBook, InNotices, vars

(* The form for a new book, the requests of other staff beside it,         *)
(* implements CopyCodes (books/new/page.tsx, copies.go:39-92).             *)
THEOREM FormRunsCodes == Spec => Codes!Spec
BY CodesStart, FormStep, BookStart, BookStep, PTL DEF Spec, Codes!Spec

(* The numbers of the copies that forms and staff ask for stay in reach of *)
(* the copies made.                                                        *)
THEOREM FormCodes == Spec => []Codes!NumbersDrift
<1>1. Codes!Spec => []Codes!NumbersDrift
  BY CodesAssumed, Codes!NumbersDriftHolds
<1>2. QED
  BY <1>1, FormRunsCodes, PTL
-----------------------------------------------------------------------------
(* Types of the three screens.  A submission under way leaves room for the *)
(* error it may show; it never asks for more copies than there are         *)
(* requests.                                                               *)
BoundsOK ==
  /\ errors \in 0..MaxErrors /\ asked \in 0..Cardinality(Procs)
  /\ stage \in {"booking", "copying"} => errors < MaxErrors

ScreenOK == screen \in {"register", "new_book", "notices"} /\ BoundsOK /\ BookInv /\ Codes!Types

LEMMA ScreenStart == Init => ScreenOK
<1> SUFFICES ASSUME Init PROVE ScreenOK
  OBVIOUS
<1>1. screen \in {"register", "new_book", "notices"} /\ errors = 0 /\ asked = 0 /\ stage = "editing"
  BY DEF Init, NewBook!BookInit
<1>2. Cardinality(Procs) \in Nat
  BY ScreensAssumption, FS_CardinalityType
<1>3. Codes!Types
  BY CodesStart, CodesAssumed, Codes!TypesStart
<1>4. QED
  BY <1>1, <1>2, <1>3, BookStart, ScreensAssumption DEF ScreenOK, BoundsOK

LEMMA BoundsStep == BoundsOK /\ [Next]_vars => BoundsOK'
<1> SUFFICES ASSUME BoundsOK, [Next]_vars PROVE BoundsOK'
  OBVIOUS
<1>1. CASE UNCHANGED <<errors, asked, stage>>
  BY <1>1 DEF BoundsOK
<1>2. CASE NewBook!SubmitBook
  BY <1>2 DEF NewBook!SubmitBook, BoundsOK
<1>3. CASE NewBook!BookFails \/ NewBook!CopiesFail
  <2>1. errors' = errors + 1 /\ errors < MaxErrors /\ stage' = "error" /\ asked' = asked
    BY <1>3 DEF NewBook!BookFails, NewBook!CopiesFail, BoundsOK
  <2>2. QED
    BY <2>1, ScreensAssumption DEF BoundsOK
<1>4. ASSUME NEW S \in SUBSET Procs, NewBook!AskCopies(S) PROVE BoundsOK'
  <2>1. Cardinality(S) \in 0..Cardinality(Procs)
    BY ScreensAssumption, FS_Subset, FS_CardinalityType
  <2>2. /\ asked' = Cardinality(S) /\ errors' = errors
        /\ stage = "booking" /\ stage' = "copying"
    BY <1>4, SameCount DEF NewBook!AskCopies
  <2>3. QED
    BY <2>1, <2>2 DEF BoundsOK
<1>5. CASE NewBook!Leave
  BY <1>5 DEF NewBook!Leave, BoundsOK
<1>6. QED
  <2>1. ASSUME NewBook!BookNext PROVE BoundsOK'
    <3>1. CASE \/ NewBook!MakeBook \/ NewBook!OthersDelete
               \/ \E p \in Procs : \/ NewBook!StartCopy(p) \/ NewBook!CreateCopy(p)
                                   \/ NewBook!LoseCopy(p) \/ NewBook!OthersAdd(p)
      BY <1>1, <3>1 DEF NewBook!MakeBook, NewBook!OthersDelete, NewBook!StartCopy, NewBook!CreateCopy,
                        NewBook!LoseCopy, NewBook!OthersAdd, NewBook!formVars
    <3>2. QED
      BY <1>2, <1>3, <1>4, <1>5, <2>1, <3>1 DEF NewBook!BookNext
  <2>2. QED
    BY <1>1, <2>1 DEF Next, InRegister, InNewBook, InNotices, vars, bookVars

LEMMA ScreenStep == ScreenOK /\ [Next]_vars => ScreenOK'
<1>1. ScreenOK /\ [Next]_vars => screen' \in {"register", "new_book", "notices"}
  BY DEF ScreenOK, Next, InRegister, InNewBook, InNotices, vars
<1>2. ScreenOK /\ [Next]_vars => BoundsOK' /\ BookInv'
  BY BoundsStep, BookStep DEF ScreenOK
<1>3. ScreenOK /\ [Next]_vars => Codes!Types'
  BY FormStep, CodesAssumed, Codes!TypesStep DEF ScreenOK
<1>4. QED
  BY <1>1, <1>2, <1>3 DEF ScreenOK

(* TypeOK: what the three screens and their servers hold has its type, and *)
(* the copies made stay within the bound with those under way.             *)
THEOREM ScreenTypes == Spec => []TypeOK
<1>1. ScreenOK /\ RegisterInv /\ BellInv => TypeOK
  <2> SUFFICES ASSUME ScreenOK, RegisterInv, BellInv PROVE TypeOK
    OBVIOUS
  <2>1. Register!RegTypeOK /\ Bell!BellTypeOK
    BY DEF RegisterInv, RegisterTypes, BellInv
  <2>2. NewBook!TypeOK
    BY DEF ScreenOK, Codes!Types, Codes!TypeOK, NewBook!TypeOK, Codes!CopyRow, NewBook!CopyRow,
           Codes!Request, NewBook!Request
  <2>3. NewBook!BookTypeOK
    BY <2>2, SameCount DEF ScreenOK, BoundsOK, BookInv, BookTypes, NewBook!BookTypeOK
  <2>4. QED
    BY <2>1, <2>3 DEF ScreenOK, TypeOK
<1>2. QED
  BY <1>1, ScreenStart, ScreenStep, RegisterStart, RegisterStep, BellStart, BellStep, PTL DEF Spec
=============================================================================
