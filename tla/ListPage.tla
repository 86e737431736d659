------------------------------ MODULE ListPage ------------------------------
(* One page of the client open in a browser, with the server behind it.    *)
(* The page keeps the rows of the last answer it got; a filter, a button   *)
(* or a form sends a request whose answer arrives later, and what runs     *)
(* then is a closure over the filter of the moment it was started.         *)
(* Nothing cancels a request and nothing compares an answer with the       *)
(* request that is the newest.                                             *)
EXTENDS Pages, Naturals, FiniteSets

CONSTANTS Rows,       \* rows the page can hold, fewer than the 20 of one answer
          MaxLoads,   \* bound: listings on their way
          Nobody,     \* no row, no slot
          Open,       \* the pages of this instance
          MaxActs,    \* bound: other requests on their way, for each of them
          Held,       \* bound: the rows each of them may come to hold
          Acting,     \* bound: the roles that go on to use each of them
          Loss        \* whether requests and answers get lost

ASSUME InstanceAssumption ==
  /\ MaxLoads \in Nat \ {0} /\ MaxActs \in [Open -> Nat]
  /\ Nobody \notin Rows /\ Nobody \notin Nat
  /\ Open \subseteq DOMAIN Tables /\ Held \in [Open -> SUBSET Rows] /\ Acting \in [Open -> SUBSET Roles]
  /\ Loss \in BOOLEAN

VARIABLES
  page, role,         \* the page and the role it is shown to
  status,             \* server: status of each row, None when there is none
  filter, timer,      \* the filter chosen; a delayed load waits for its 300 ms
  loading, error, shown, busy, form,   \* the state of the component
  loads, acts,        \* requests on their way
  newest,             \* ghost: the last listing asked for, until it is answered
  current, basis,     \* ghost: "shown" is its answer; the filter that went with it
  late, excused       \* ghost: rows changed behind that listing; behind "shown"

server == <<page, role, status>>
view   == <<filter, timer, loading, error, shown, busy, form>>
ghost  == <<newest, current, basis, late, excused>>
vars   == <<server, view, loads, acts, ghost>>

Loads    == 1..MaxLoads
Acts     == 1..MaxActs[page]
Page     == Tables[page]
Filters  == DOMAIN Page.lists
Op(n)    == Page.ops[n]
Ops      == DOMAIN Page.ops
Blank    == [r \in Rows |-> None]
NoForm   == [op |-> None, row |-> Nobody, seen |-> None, act |-> Nobody]
FreeLoad == [at |-> "free", filter |-> None, rows |-> Blank]
FreeAct  == [at |-> "free"]
\* The slot a new request takes.
FirstFree(slots, i) == slots[i].at = "free" /\ \A j \in 1..(i - 1) : slots[j].at # "free"

\* What the server lists under a filter.
Listed(f) == [r \in Rows |-> IF status[r] \in Page.lists[f] THEN status[r] ELSE None]

Flying   == {a \in Acts : acts[a].at # "free"}
Airborne == {l \in Loads : loads[l].at # "free"}

\* Bound: each request on its way and the timer keep a slot for the listing
\* they will ask for; a step of the user leaves them theirs.
Room == Cardinality(Airborne) + Cardinality(Flying) + (IF timer THEN 1 ELSE 0) < Cardinality(Loads)

Visible == ~loading /\ ~error
\* A form is a child of the page: replacing the page unmounts it.
Mounted == Page.whole => Visible
Fresh(fm) == IF Page.whole THEN [fm EXCEPT !.act = Nobody] ELSE fm
-----------------------------------------------------------------------------
\* load(): ask for the listing of the filter in the closure.
Ask(f) ==
  \E l \in Loads :
    /\ FirstFree(loads, l)
    /\ loads' = [loads EXCEPT ![l] = [at |-> "sent", filter |-> f, rows |-> Blank]]
    /\ loading' = TRUE
    /\ error' = FALSE
    /\ newest' = l
    /\ current' = FALSE
    /\ late' = {}

\* useEffect on the filters: at once, or after a pause of 300 ms.
SetFilter(f) ==
  /\ form.op = None /\ Room /\ f \in Filters \ {filter}
  /\ filter' = f
  /\ IF Page.delayed
       THEN timer' = TRUE /\ UNCHANGED <<loads, loading, error, newest, current, late>>
       ELSE Ask(f) /\ UNCHANGED timer
  /\ UNCHANGED <<server, shown, busy, form, acts, basis, excused>>

TimerFires ==
  /\ timer
  /\ timer' = FALSE
  /\ Ask(filter)
  /\ UNCHANGED <<server, filter, shown, busy, form, acts, basis, excused>>

\* The retry button of ErrorState.
Retry ==
  /\ ~loading /\ error /\ Room
  /\ form.op = None \/ Page.whole
  /\ Ask(filter)
  /\ form' = Fresh(form)
  /\ UNCHANGED <<server, filter, timer, shown, busy, acts, basis, excused>>

\* The handler of the listing; a filter the database does not know is an error.
ServeLoad(l) ==
  /\ loads[l].at = "sent"
  /\ loads[l].filter \in Page.understood
  /\ role \in Page.by
  /\ loads' = [loads EXCEPT ![l] = [at |-> "answered", filter |-> @.filter, rows |-> Listed(@.filter)]]
  /\ late' = IF newest = l THEN {} ELSE late
  /\ UNCHANGED <<server, view, acts, newest, current, basis, excused>>

\* .then(setX).finally(setLoading(false))
LoadAnswered(l) ==
  /\ loads[l].at = "answered"
  /\ shown' = loads[l].rows
  /\ loading' = FALSE
  /\ loads' = [loads EXCEPT ![l] = FreeLoad]
  /\ current' = (newest = l)
  /\ newest' = IF newest = l THEN Nobody ELSE newest
  /\ basis' = loads[l].filter
  /\ excused' = IF newest = l THEN late ELSE excused
  /\ UNCHANGED <<server, filter, timer, error, busy, form, acts, late>>

\* (mutant: a .then without .finally)
LoadFailedSpinning(l) ==
  /\ loads[l].at # "free"
  /\ Loss \/ loads[l].filter \notin Page.understood \/ role \notin Page.by
  /\ error' = TRUE
  /\ loads' = [loads EXCEPT ![l] = FreeLoad]
  /\ newest' = IF newest = l THEN Nobody ELSE newest
  /\ UNCHANGED <<server, filter, timer, loading, shown, busy, form, acts, current, basis, late, excused>>

\* .catch(setError).finally(setLoading(false))
LoadFailed(l) ==
  /\ loads[l].at # "free"
  /\ Loss \/ loads[l].filter \notin Page.understood \/ role \notin Page.by
  /\ error' = TRUE
  /\ loading' = FALSE
  /\ loads' = [loads EXCEPT ![l] = FreeLoad]
  /\ newest' = IF newest = l THEN Nobody ELSE newest
  /\ UNCHANGED <<server, filter, timer, shown, busy, form, acts, current, basis, late, excused>>
-----------------------------------------------------------------------------
Seen(r) == IF r = Nobody THEN None ELSE shown[r]

\* The button n can be pressed on row r (Nobody: not a button of a row).
Offered(n, r) ==
  /\ role \in Op(n).to
  /\ form.op = None /\ Mounted
  /\ CASE Op(n).on = "row"  -> r \in Rows /\ Visible /\ shown[r] \in Op(n).offered /\ (Op(n).busy => busy # r)
       [] Op(n).on = "new"  -> r = Nobody
       [] Op(n).on = "book" -> r = Nobody /\ \A x \in Rows : shown[x] \notin Op(n).absent

Send(a, n, r, seen) ==
  /\ Room
  /\ FirstFree(acts, a)
  /\ acts' = [acts EXCEPT ![a] = [at |-> "sent", op |-> n, row |-> r, filter |-> filter, seen |-> seen,
                                   met |-> None, done |-> FALSE, heard |-> None,
                                   back |-> IF Op(n).puts THEN shown ELSE Blank]]

\* A button that is the request itself: setBusyId(id), then the call.
Press(a, n, r) ==
  /\ Offered(n, r) /\ ~Op(n).form
  /\ Send(a, n, r, Seen(r))
  /\ busy' = IF Op(n).busy THEN r ELSE busy
  /\ UNCHANGED <<server, filter, timer, loading, error, shown, form, loads, ghost>>

OpenForm(n, r) ==
  /\ Offered(n, r) /\ Op(n).form
  /\ form' = [op |-> n, row |-> r, seen |-> Seen(r), act |-> Nobody]
  /\ UNCHANGED <<server, filter, timer, loading, error, shown, busy, loads, acts, ghost>>

\* handleSubmit of the open form; its button is disabled while one is sent.
Submit(a) ==
  /\ form.op # None /\ form.act = Nobody /\ Mounted
  /\ Send(a, form.op, form.row, form.seen)
  /\ form' = [form EXCEPT !.act = a]
  /\ UNCHANGED <<server, filter, timer, loading, error, shown, busy, loads, ghost>>

\* Escape, the backdrop or the cancel button, while a submission waits or not.
CloseForm ==
  /\ form.op # None /\ Mounted
  /\ form' = NoForm
  /\ UNCHANGED <<server, filter, timer, loading, error, shown, busy, loads, acts, ghost>>

\* The row a request is about, and whether the handler finds it as it must be:
\* any row that is not there yet for a form that makes one.
Target(a, r) == IF Op(acts[a].op).on = "new" THEN r \in Held[page] ELSE r = acts[a].row
Takes(a, r)  == r \in Rows => status[r] \in Op(acts[a].op).takes
NoCopyIn(S)  == \A x \in Rows : status[x] \notin S

Moved(c, to, row, met, done, heard) ==
  [at |-> to, op |-> c.op, row |-> row, filter |-> c.filter, seen |-> c.seen, met |-> met, done |-> done,
   heard |-> heard, back |-> c.back]
Answer(a, heard, met) ==
  acts' = [acts EXCEPT ![a] = Moved(@, "answered", @.row, met, @.done, heard)]

\* The handler refuses: what it was sent, who sent it, by a rule of its own, or
\* for the statuses it reads.  One that goes on after its 400 ends so too.
Refuse(a) ==
  LET op == Op(acts[a].op) IN
  /\ acts[a].at = "sent"
  /\ \/ op.garbled /\ (op.anyway => ~Takes(a, acts[a].row)) /\ Answer(a, "garbled", None)
     \/ role \notin op.by /\ Answer(a, "forbidden", None)
     \/ /\ ~op.garbled /\ role \in op.by
        /\ \/ op.picky /\ Answer(a, "rule", None)
           \/ /\ ~Takes(a, acts[a].row) \/ ~NoCopyIn(op.absent)
              /\ Answer(a, "no", IF acts[a].row = Nobody THEN None ELSE status[acts[a].row])
  /\ UNCHANGED <<server, view, loads, ghost>>

\* Handlers that read the status in one statement and write it in a later one.
Check(a) ==
  LET op == Op(acts[a].op) IN
  /\ acts[a].at = "sent" /\ op.split /\ ~op.garbled /\ role \in op.by
  /\ Takes(a, acts[a].row)
  /\ acts' = [acts EXCEPT ![a] = Moved(@, "checked", @.row, status[@.row], @.done, @.heard)]
  /\ UNCHANGED <<server, view, loads, ghost>>

\* The handler does what was asked, in one statement or one transaction.
Do(a, r) ==
  LET op == Op(acts[a].op) IN
  /\ acts[a].at \in {"sent", "checked"}
  /\ op.split = (acts[a].at = "checked")
  /\ IF op.split THEN r = acts[a].row
       ELSE role \in op.by /\ (op.garbled => op.anyway) /\ Target(a, r) /\ Takes(a, r) /\ NoCopyIn(op.absent)
  /\ IF op.gives = {} THEN UNCHANGED status
       ELSE \E t \in op.gives : status' = [status EXCEPT ![r] = t]
  /\ acts' = [acts EXCEPT ![a] = Moved(@, "answered", r, @.met, TRUE, IF op.garbled THEN "garbled" ELSE "yes")]
  /\ UNCHANGED <<page, role, view, loads, ghost>>

\* Other people's requests, made elsewhere, and time.
Others(r, t) ==
  /\ r \in Held[page]
  /\ <<status[r], t>> \in Page.drift
  /\ status' = [status EXCEPT ![r] = t]
  /\ late' = late \cup {r}
  /\ excused' = excused \cup {r}
  /\ UNCHANGED <<page, role, view, loads, acts, newest, current, basis>>
-----------------------------------------------------------------------------
\* setBusyId(null), in finally.
Rest(op) == busy' = IF op.busy /\ ~op.form THEN Nobody ELSE busy

\* The answer is success: close the form, load() with the filter of the
\* closure, or, for EditBookForm, put back the book it was rendered with.
Succeed(a) ==
  LET op == Op(acts[a].op) IN
  /\ acts[a].at = "answered" /\ acts[a].heard = "yes"
  /\ acts' = [acts EXCEPT ![a] = FreeAct]
  /\ Rest(op)
  /\ form' = IF op.form /\ form.op = acts[a].op THEN NoForm
             ELSE IF op.reload THEN Fresh(form) ELSE form
  /\ IF op.reload
       THEN Ask(acts[a].filter) /\ UNCHANGED shown
       ELSE /\ shown' = IF op.puts THEN acts[a].back ELSE shown
            /\ current' = (current /\ shown' = shown)
            /\ UNCHANGED <<loads, loading, error, newest, late>>
  /\ UNCHANGED <<server, filter, timer, basis, excused>>

\* The answer is a refusal, or none comes: the page says so, and no more.
Fail(a) ==
  LET op == Op(acts[a].op) IN
  /\ acts[a].at # "free"
  /\ \/ acts[a].at = "answered" /\ acts[a].heard # "yes"
     \/ acts[a].at \in {"sent", "answered"} /\ Loss
  /\ acts' = [acts EXCEPT ![a] = FreeAct]
  /\ Rest(op)
  /\ form' = IF form.act = a THEN [form EXCEPT !.act = Nobody] ELSE form
  /\ LET gone == IF acts[a].done /\ acts[a].row \in Rows THEN {acts[a].row} ELSE {}
     IN late' = late \cup gone /\ excused' = excused \cup gone
  /\ UNCHANGED <<server, filter, timer, loading, error, shown, loads, newest, current, basis>>
-----------------------------------------------------------------------------
\* The page is opened: by the menu, or by its address if the gate lets in.
Init ==
  /\ page \in Open /\ role \in Roles
  /\ page \in Menu(role) \/ role \in Page.roles
  /\ status \in [Rows -> Page.states \cup {None}]
  /\ \A r \in Rows \ Held[page] : status[r] = None
  /\ filter = Page.first
  /\ timer = Page.delayed
  /\ loading = TRUE /\ error = FALSE /\ shown = Blank /\ busy = Nobody /\ form = NoForm
  /\ acts = [a \in Acts |-> FreeAct]
  /\ current = FALSE /\ basis = None /\ late = {} /\ excused = {}
  /\ IF Page.delayed
       THEN loads = [l \in Loads |-> FreeLoad] /\ newest = Nobody
       ELSE /\ loads = [l \in Loads |-> IF l = 1 THEN [FreeLoad EXCEPT !.at = "sent", !.filter = filter] ELSE FreeLoad]
            /\ newest = 1

ClientStep ==
  \/ TimerFires \/ Retry \/ CloseForm
  \/ \E f \in Filters : SetFilter(f)
  \/ \E n \in Ops, r \in Rows \cup {Nobody} : OpenForm(n, r) \/ \E a \in Acts : Press(a, n, r)
  \/ \E a \in Acts : Submit(a)
AnswerStep ==
  \/ \E l \in Loads : LoadAnswered(l) \/ LoadFailed(l)
  \/ \E a \in Acts : Succeed(a) \/ Fail(a)
ServerStep ==
  \/ \E l \in Loads : ServeLoad(l)
  \/ \E a \in Acts : Refuse(a) \/ Check(a) \/ \E r \in Rows \cup {Nobody} : Do(a, r)
  \/ \E r \in Rows, t \in Page.states \cup {None} : Others(r, t)

Next == role \in Page.roles \cap Acting[page] /\ (ClientStep \/ AnswerStep \/ ServerStep)
Spec == Init /\ [][Next]_vars

-----------------------------------------------------------------------------
LoadType == [at : {"free", "sent", "answered"}, filter : Filters \cup {None},
             rows : [Rows -> Page.states \cup {None}]]
Heard    == {None, "yes", "no", "rule", "garbled", "forbidden"}
ActType  == {FreeAct} \cup
  [at : {"sent", "checked", "answered"}, op : Ops, row : Rows \cup {Nobody}, filter : Filters,
   seen : Page.states \cup {None}, met : Page.states \cup {None}, done : BOOLEAN,
   heard : Heard, back : [Rows -> Page.states \cup {None}]]

\* The state of the page, of its server and of the requests between them.
TypeOK ==
  /\ page \in Open /\ role \in Roles
  /\ status \in [Rows -> Page.states \cup {None}] /\ shown \in [Rows -> Page.states \cup {None}]
  /\ filter \in Filters /\ basis \in Filters \cup {None}
  /\ {timer, loading, error, current} \subseteq BOOLEAN
  /\ busy \in Rows \cup {Nobody}
  /\ form \in [op : Ops \cup {None}, row : Rows \cup {Nobody}, seen : Page.states \cup {None}, act : Acts \cup {Nobody}]
  /\ loads \in [Loads -> LoadType] /\ acts \in [Acts -> ActType]
  /\ newest \in Loads \cup {Nobody}
  /\ late \subseteq Rows /\ excused \subseteq Rows

\* The page never waits for nothing: a spinner has a listing on its way or
\* the pause before one (load's finally runs whatever the outcome), and a
\* disabled button of a row or of a form has the request it waits for.
WaitsHaveCause ==
  /\ loading => timer \/ Airborne # {}
  /\ busy # Nobody => \E a \in Flying : acts[a].row = busy /\ Op(acts[a].op).busy
  /\ form.act # Nobody => form.act \in Flying /\ acts[form.act].op = form.op

\* With none of its requests on their way, a page whose rows answer the last
\* listing it asked for, for the filter it shows, has every row as the server
\* has it, but for the excused: rows others touched, or that a request of the
\* page changed whose answer was lost or said 400 (the return of a loan does
\* that, and its row stays on the page as a loan).  The reload after each
\* success leaves none of the other changes of the page out.
ShowsTruth ==
  Flying = {} /\ current /\ basis = filter =>
    \A r \in Rows \ excused : shown[r] = Listed(filter)[r]

\* The menu, the gates, the buttons and the routes agree: a menu leads no role
\* to a page that is closed to it; no request is refused for the role; what a
\* button offers on a row is refused for the status of the row only when that
\* is no longer what the page showed, or the button is the renewal of a loan
\* shown as late; and no handler fails to understand what it is sent, but for
\* the three that always do.  Refusals by other rules are not spoken of.
OffersAreAccepted ==
  /\ role \in Page.roles /\ role \in Page.by
  /\ \A a \in Flying :
       /\ acts[a].heard # "forbidden"
       /\ acts[a].heard = "no" /\ acts[a].row \in Rows =>
            acts[a].met # acts[a].seen \/ <<page, acts[a].op, acts[a].seen>> \in RefusedAsShown
       /\ acts[a].heard = "garbled" => <<page, acts[a].op>> \in Misunderstood
=============================================================================
