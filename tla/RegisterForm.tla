---------------------------- MODULE RegisterForm ----------------------------
(* The form that registers a school.  While its user types, the slug is    *)
(* checked after a pause of 400 ms; nothing cancels a check on its way, so *)
(* answers about older slugs arrive among the newer.  The server registers *)
(* the school; others register theirs.                                     *)
EXTENDS Naturals

CONSTANTS Slugs,      \* what the user may type
          Invalid,    \* those of them that validSlug refuses
          NoSlug,     \* the empty field
          MaxChecks   \* bound: checks on their way

VARIABLES
  slug, touched,      \* the field, and whether it was edited by hand
  hint, timer,        \* slugStatus; the pause before a check
  checks,             \* checks on their way
  sent, wrong,        \* the registration on its way; an error is shown
  submitted,          \* the form has given way to the thanks
  schools,            \* server: slugs in use
  mine, lost,         \* ghost: slugs this form registered; those whose answer was lost
  newest, about       \* ghost: the last check started; the check the hint is from

regVars == <<slug, touched, hint, timer, checks, sent, wrong, submitted, schools, mine, lost, newest, about>>

Checks   == 1..MaxChecks
NoCheck  == [at |-> "free", slug |-> NoSlug, said |-> "idle"]
NotSent  == [at |-> "free", slug |-> NoSlug, ok |-> FALSE]
InFlight == {c \in Checks : checks[c].at # "free"}
FirstFreeCheck(c) == c \notin InFlight /\ \A d \in 1..(c - 1) : d \in InFlight

RegInit ==
  /\ slug = NoSlug /\ touched = FALSE /\ hint = "idle" /\ timer = FALSE
  /\ checks = [c \in Checks |-> NoCheck] /\ sent = NotSent
  /\ wrong = FALSE /\ submitted = FALSE
  /\ schools \in SUBSET (Slugs \ Invalid)
  /\ mine = {} /\ lost = {} /\ newest = 0 /\ about = 0
-----------------------------------------------------------------------------
\* The effect of a new slug: forget the pause that was running, start another
\* (mutant: only forget it).
SlugChangesOnly(s) ==
  /\ s # slug /\ ~submitted
  /\ slug' = s
  /\ timer' = FALSE
  /\ hint' = IF s = NoSlug THEN "idle" ELSE "checking"
  /\ newest' = 0 /\ about' = 0
  /\ UNCHANGED <<checks, sent, wrong, submitted, schools, mine, lost>>
SlugChanges(s) ==
  /\ s # slug /\ ~submitted
  /\ slug' = s
  /\ timer' = (s # NoSlug)
  /\ hint' = IF s = NoSlug THEN "idle" ELSE "checking"
  /\ newest' = 0 /\ about' = 0
  /\ UNCHANGED <<checks, sent, wrong, submitted, schools, mine, lost>>

\* The name of the school suggests a slug until the field is edited by hand.
SuggestSlug(s) == ~touched /\ SlugChanges(s) /\ UNCHANGED touched
TypeSlug(s)    == SlugChanges(s) /\ touched' = TRUE

CheckSlug ==
  /\ timer
  /\ \E c \in Checks : /\ FirstFreeCheck(c)
                       /\ checks' = [checks EXCEPT ![c] = [at |-> "sent", slug |-> slug, said |-> "idle"]]
                       /\ newest' = c
  /\ timer' = FALSE
  /\ UNCHANGED <<slug, touched, hint, sent, wrong, submitted, schools, mine, lost, about>>

\* checkSlug: a slug that cannot be one is not available either.
ServeCheck(c) ==
  /\ checks[c].at = "sent"
  /\ checks' = [checks EXCEPT ![c].at = "answered",
                  ![c].said = IF checks[c].slug \in schools \cup Invalid THEN "taken" ELSE "available"]
  /\ UNCHANGED <<slug, touched, hint, timer, sent, wrong, submitted, schools, mine, lost, newest, about>>

\* Whichever slug the answer is about, it becomes the hint of the field
\* (mutant: also the word of a check that was lost).
HintFromAny(c) ==
  IF submitted THEN UNCHANGED <<hint, about>>
  ELSE hint' = checks[c].at /\ about' = IF c = newest THEN c ELSE 0
HintFrom(c) ==
  IF submitted THEN UNCHANGED <<hint, about>>
  ELSE /\ hint' = IF checks[c].at = "answered" THEN checks[c].said ELSE "error"
       /\ about' = IF c = newest THEN c ELSE 0

CheckEnds(c) ==
  /\ checks[c].at # "free"
  /\ HintFrom(c)
  /\ newest' = IF c = newest THEN 0 ELSE newest
  /\ checks' = [checks EXCEPT ![c] = NoCheck]
  /\ UNCHANGED <<slug, touched, timer, sent, wrong, submitted, schools, mine, lost>>
-----------------------------------------------------------------------------
\* handleSubmit; the button is disabled while one is sent or the slug is taken.
Submit ==
  /\ ~submitted /\ slug # NoSlug /\ sent.at = "free" /\ hint # "taken"
  /\ sent' = [at |-> "sent", slug |-> slug, ok |-> FALSE]
  /\ wrong' = FALSE
  /\ UNCHANGED <<slug, touched, hint, timer, checks, submitted, schools, mine, lost, newest, about>>

\* registerSchool, or its refusal: also for what the other fields hold.
Register ==
  /\ sent.at = "sent" /\ sent.slug \notin schools \cup Invalid
  /\ schools' = schools \cup {sent.slug}
  /\ mine' = mine \cup {sent.slug}
  /\ sent' = [sent EXCEPT !.at = "answered", !.ok = TRUE]
  /\ UNCHANGED <<slug, touched, hint, timer, checks, wrong, submitted, lost, newest, about>>

Decline ==
  /\ sent.at = "sent"
  /\ sent' = [sent EXCEPT !.at = "answered"]
  /\ UNCHANGED <<slug, touched, hint, timer, checks, wrong, submitted, schools, mine, lost, newest, about>>

\* onSubmitted: the form gives way (mutant: it stays).
ThankAndStay ==
  /\ sent.at = "answered" /\ sent.ok
  /\ sent' = NotSent
  /\ UNCHANGED <<slug, touched, hint, timer, checks, wrong, submitted, schools, mine, lost, newest, about>>
Thank ==
  /\ sent.at = "answered" /\ sent.ok
  /\ submitted' = TRUE
  /\ sent' = NotSent
  /\ timer' = FALSE
  /\ UNCHANGED <<slug, touched, hint, checks, wrong, schools, mine, lost, newest, about>>

\* A refusal, or no answer at all, whatever the server did.
Complain ==
  /\ sent.at # "free"
  /\ wrong' = TRUE
  /\ sent' = NotSent
  /\ lost' = IF sent.ok THEN lost \cup {sent.slug} ELSE lost
  /\ UNCHANGED <<slug, touched, hint, timer, checks, submitted, schools, mine, newest, about>>

OthersRegister(s) ==
  /\ s \notin schools \cup Invalid
  /\ schools' = schools \cup {s}
  /\ about' = 0 /\ newest' = 0
  /\ UNCHANGED <<slug, touched, hint, timer, checks, sent, wrong, submitted, mine, lost>>

RegNext ==
  \/ \E s \in Slugs \cup {NoSlug} : SuggestSlug(s) \/ TypeSlug(s)
  \/ CheckSlug \/ Submit \/ Register \/ Decline \/ Thank \/ Complain
  \/ \E c \in Checks : ServeCheck(c) \/ CheckEnds(c)
  \/ \E s \in Slugs : OthersRegister(s)
-----------------------------------------------------------------------------
RegTypeOK ==
  /\ slug \in Slugs \cup {NoSlug} /\ {touched, timer, wrong, submitted} \subseteq BOOLEAN
  /\ hint \in {"idle", "checking", "available", "taken", "error"}
  /\ checks \in [Checks -> [at : {"free", "sent", "answered"}, slug : Slugs \cup {NoSlug},
                             said : {"idle", "available", "taken"}]]
  /\ sent \in [at : {"free", "sent", "answered"}, slug : Slugs \cup {NoSlug}, ok : BOOLEAN]
  /\ schools \subseteq Slugs /\ mine \subseteq schools /\ lost \subseteq mine
  /\ newest \in 0..MaxChecks /\ about \in 0..MaxChecks

\* The form registers a second school only after the answer to the first was
\* lost: the button waits, and the thanks take the form's place.
OneSchoolPerAnswer ==
  /\ submitted => \E s \in mine : mine \ {s} \subseteq lost
  /\ \E s \in Slugs : mine \ {s} \subseteq lost

\* "Checking" is shown only while the slug of the field is about to be asked
\* about or has been: the pause and its check are never both dropped.  While
\* the hint is the answer to the check that was started last, for the slug the
\* field still has, it is right until somebody registers, the form included.
\* Nothing is said of an answer to an older check: one that comes late becomes
\* the hint of a slug it is not about.
NewestHintIsRight ==
  /\ hint = "checking" /\ ~submitted => timer \/ \E c \in InFlight : checks[c].slug = slug
  /\ about # 0 /\ slug \notin mine /\ hint \in {"available", "taken"} =>
       (hint = "taken") = (slug \in schools \cup Invalid)
=============================================================================
