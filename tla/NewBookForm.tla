---------------------------- MODULE NewBookForm ----------------------------
(* The form that adds a book: one request for the book and then, all at    *)
(* once, one for each of its first copies, which get their codes from      *)
(* CopyCodes.  Other staff may add copies of the book, and delete copies,  *)
(* meanwhile.                                                              *)
EXTENDS CopyCodes

CONSTANT MaxErrors    \* bound: errors the user comes back from

VARIABLES
  stage,      \* "editing", "booking", "copying", "error" or "left" for the page of the book
  titled,     \* books there are: each submission makes one of its own
  book,       \* the book of the submission under way
  jobs,       \* jobs[p]: what became of the request that makes a copy
  errors,     \* ghost: errors shown so far
  asked       \* ghost: copies that the submission asked for

formVars == <<stage, titled, book, jobs, errors, asked>>
bookVars == <<vars, formVars>>
NoJobs   == [p \in Procs |-> "none"]
Jobs(w)  == {p \in Procs : jobs[p] = w}

BookInit ==
  /\ Init
  /\ stage = "editing" /\ titled = {} /\ book = None /\ jobs = NoJobs /\ errors = 0 /\ asked = 0
-----------------------------------------------------------------------------
\* handleSubmit: the button waits until everything is answered.  Bound: what an
\* earlier submission asked for has arrived or is lost.
SubmitBook ==
  /\ stage \in {"editing", "error"}
  /\ errors < MaxErrors /\ Jobs("due") = {}
  /\ stage' = "booking"
  /\ book' = None
  /\ jobs' = NoJobs
  /\ UNCHANGED <<vars, titled, errors, asked>>

\* createBook
MakeBook ==
  /\ stage = "booking" /\ book = None
  /\ \E b \in Books \ titled : book' = b /\ titled' = titled \cup {b}
  /\ UNCHANGED <<vars, stage, jobs, errors, asked>>

\* As many requests for copies as were typed, none of them after another.
AskCopies(S) ==
  /\ stage = "booking" /\ book # None
  /\ \A p \in S : req[p].step = "idle"
  /\ jobs' = [p \in Procs |-> IF p \in S THEN "due" ELSE "none"]
  /\ stage' = "copying"
  /\ asked' = Cardinality(S)
  /\ UNCHANGED <<vars, titled, book, errors>>

Finish(p, how) == jobs' = IF jobs[p] = "running" THEN [jobs EXCEPT ![p] = how] ELSE jobs

StartCopy(p) ==
  /\ jobs[p] = "due" /\ Start(p, book)
  /\ jobs' = [jobs EXCEPT ![p] = "running"]
  /\ UNCHANGED <<stage, titled, book, errors, asked>>

\* createCopy, to its answer: 201, or 409 when its attempts are spent
\* (mutant: any answer will do).
Ends(p) == req[p].step = "insert" /\ req'[p].step = "idle"
CreateAnyCopy(p) ==
  /\ Proceed(p)
  /\ IF Ends(p) THEN Finish(p, "done") ELSE UNCHANGED jobs
  /\ UNCHANGED <<stage, titled, book, errors, asked>>
CreateCopy(p) ==
  /\ Proceed(p)
  /\ IF Ends(p) THEN Finish(p, IF made' # made THEN "done" ELSE "refused") ELSE UNCHANGED jobs
  /\ UNCHANGED <<stage, titled, book, errors, asked>>

\* A request is lost before, or its answer after, the server did its work.
LoseCopy(p) ==
  /\ jobs[p] \in {"due", "running", "done"} /\ stage \in {"copying", "error"}
  /\ jobs' = [jobs EXCEPT ![p] = "lost"]
  /\ UNCHANGED <<vars, stage, titled, book, errors, asked>>

\* The book is refused, or its answer lost.
BookFails ==
  /\ stage = "booking"
  /\ stage' = "error" /\ errors' = errors + 1
  /\ UNCHANGED <<vars, titled, book, jobs, asked>>

\* Promise.all: the first failure is the end, the last success as well
\* (mutant: a failure is waited for in silence).
CopiesHang == stage = "copying" /\ Jobs("refused") \cup Jobs("lost") # {} /\ UNCHANGED bookVars
CopiesFail ==
  /\ stage = "copying" /\ Jobs("refused") \cup Jobs("lost") # {}
  /\ stage' = "error" /\ errors' = errors + 1
  /\ UNCHANGED <<vars, titled, book, jobs, asked>>

Leave ==
  /\ stage = "copying" /\ Jobs("due") \cup Jobs("running") \cup Jobs("refused") \cup Jobs("lost") = {}
  /\ stage' = "left"
  /\ UNCHANGED <<vars, titled, book, jobs, errors, asked>>

\* Another member of the staff adds a copy on the page of the book.
OthersAdd(p) ==
  /\ jobs[p] = "none"
  /\ \E b \in titled : Start(p, b)
  /\ UNCHANGED formVars

\* ... or deletes one.
OthersDelete == DeleteCopy /\ UNCHANGED formVars

BookNext ==
  \/ OthersDelete
  \/ SubmitBook \/ MakeBook \/ BookFails \/ CopiesFail \/ Leave
  \/ \E S \in SUBSET Procs : AskCopies(S)
  \/ \E p \in Procs : StartCopy(p) \/ CreateCopy(p) \/ LoseCopy(p) \/ OthersAdd(p)

\* Every request is answered or fails, and the script goes on with the answer.
BookFair ==
  /\ WF_bookVars(MakeBook \/ BookFails) /\ WF_bookVars(\E S \in SUBSET Procs : AskCopies(S))
  /\ WF_bookVars(CopiesFail \/ Leave)
  /\ \A p \in Procs : WF_bookVars(StartCopy(p) \/ LoseCopy(p)) /\ WF_bookVars(CreateCopy(p))
-----------------------------------------------------------------------------
BookTypeOK ==
  /\ TypeOK
  /\ stage \in {"editing", "booking", "copying", "error", "left"}
  /\ titled \subseteq Books /\ book \in titled \cup {None}
  /\ jobs \in [Procs -> {"none", "due", "running", "done", "refused", "lost"}]
  /\ errors \in 0..MaxErrors /\ asked \in 0..Cardinality(Procs)

\* The form leaves for the page of the book only when the book has had every
\* copy that was asked for, and it has made one book for each error it showed,
\* and one: a second book is never made behind the first without a word.
OneCompleteBook ==
  /\ stage = "left" => book \in titled /\ made[book] >= asked
  /\ Cardinality(titled) <= errors + 1

\* A copy is refused only of a book that has had as many copies, made and
\* deleted together, as createCopy has attempts: each collision is with a copy
\* of its own, or follows a deletion that led the count back to one it met
\* before, however a batch and other staff count, insert and delete.
FirstCopiesSucceed ==
  Jobs("refused") # {} => made[book] + (made[book] - Count(book)) >= Attempts

\* A submission ends, whatever becomes of its requests.
SubmissionEnds == stage \in {"booking", "copying"} ~> stage \in {"error", "left"}
=============================================================================
