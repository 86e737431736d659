------------------------------ MODULE Tenancy ------------------------------
(***************************************************************************)
(* Who may act in which school.  Schools are registered, approved,         *)
(* rejected, suspended and reactivated (school.go); people sign in and get *)
(* tokens that carry their role and their school until they expire         *)
(* (auth.go, internal/auth/auth.go); every request passes resolveSchool    *)
(* and requireAuth before its handler runs (middleware.go).  One step is   *)
(* one database statement with the computation around it; requests         *)
(* interleave between steps.                                               *)
(***************************************************************************)
EXTENDS Integers, FiniteSets

CONSTANTS
    Procs,                   \* requests that may run at the same time
    Schools, Opened,         \* slugs; those approved by the migration
    People, SchoolOf,        \* accounts; their school, None for super_admin
    FirstAdmin,              \* the account registerSchool creates
    Present,                 \* accounts that exist at the start
    None,
    Roles, Barred,           \* validRoles; statuses other than active
    Patches,                 \* bound: the rows that updateUser may leave
    Workloads,               \* bound: the mixes of requests to explore
    Visits,                  \* bound: <<account, school>>, who signs in where
    AccessTTL, RefreshTTL,   \* lifetimes of tokens, in ticks
    MaxTokens                \* bound: sign-ins start below it

SchoolStatus  == {"none", "pending", "approved", "rejected", "suspended"}
AccountStatus == {"none", "active"} \cup Barred
AnyRole       == Roles \cup {"super_admin"}
Transitions   == {"approve", "reject", "suspend", "reactivate"}
Ops           == {"login", "refresh", "logout", "user_patch", "user_create",
                   "super_login", "register"} \cup Transitions

ASSUME TenancyAssumption ==
    /\ Opened \subseteq Schools /\ None \notin Schools
    /\ SchoolOf \in [People -> Schools \cup {None}]
    /\ FirstAdmin \in [Schools -> People]
    /\ \A s \in Schools : SchoolOf[FirstAdmin[s]] = s
    /\ Present \subseteq People
    /\ \A u \in Present : SchoolOf[u] \in Opened \cup {None}
    /\ {"admin", "librarian", "student"} \subseteq Roles
    /\ "super_admin" \notin Roles
    /\ Barred \cap {"active", "none"} = {}
    /\ Visits \subseteq People \X Schools
    /\ \A w \in Workloads : w \subseteq Ops
    /\ Patches \subseteq [status : {"active"} \cup Barred, role : Roles]
    /\ AccessTTL \in Nat \ {0} /\ RefreshTTL \in Nat \ {0}

VARIABLES
    school,     \* rows of schools; status "none": the slug is free
    account,    \* rows of users; status "none": no such row
    tokens,     \* tokens that somebody holds and that have not expired
    req,        \* req[p]: what request p knows
    since,      \* history: ticks since the account last changed
    work        \* the mix of requests that comes; it never changes
vars == <<school, account, tokens, req, since, work>>

SchoolRow  == [status : SchoolStatus, approvedAt : BOOLEAN, reason : BOOLEAN]
AccountRow == [status : AccountStatus, role : AnyRole]
Token      == [kind : {"access"}, user : People, role : AnyRole, left : 1..AccessTTL]
       \cup [kind : {"refresh"}, user : People, role : AnyRole, left : 1..RefreshTTL]
Request    == [step : {"idle", "read", "issue", "handle", "check", "write"},
               op : Ops \cup {None}, school : Schools \cup {None},
               user : People \cup {None}, role : AnyRole \cup {None}]
Idle       == [step |-> "idle", op |-> None, school |-> None, user |-> None,
               role |-> None]

TypeOK ==
    /\ school  \in [Schools -> SchoolRow]
    /\ account \in [People -> AccountRow]
    /\ tokens  \subseteq Token
    /\ req     \in [Procs -> Request]
    /\ since   \in [People -> 0..AccessTTL]
    /\ work    \in Workloads

(* The migrations open one school; the seed adds its staff and the super   *)
(* admin.                                                                  *)
RoleAtStart(u) == IF SchoolOf[u] = None THEN "super_admin"
                  ELSE IF u = FirstAdmin[SchoolOf[u]] THEN "admin" ELSE "student"
Init ==
    /\ school = [s \in Schools |->
         [status |-> IF s \in Opened THEN "approved" ELSE "none",
          approvedAt |-> s \in Opened, reason |-> FALSE]]
    /\ account = [u \in People |->
         [status |-> IF u \in Present THEN "active" ELSE "none",
          role |-> RoleAtStart(u)]]
    /\ tokens = {}
    /\ req = [p \in Procs |-> Idle]
    /\ since = [u \in People |-> AccessTTL]
    /\ work \in Workloads
-----------------------------------------------------------------------------
(* Tokens as they are issued (mutant: an access token lives as long as a   *)
(* refresh token).                                                         *)
LongToken(u, r)    == [kind |-> "access",  user |-> u, role |-> r, left |-> RefreshTTL]
AccessToken(u, r)  == [kind |-> "access",  user |-> u, role |-> r, left |-> AccessTTL]
RefreshToken(u, r) == [kind |-> "refresh", user |-> u, role |-> r, left |-> RefreshTTL]

Begin(p, step, op, s, u, r) ==
    /\ op \in work
    /\ req[p].step = "idle"
    /\ req' = [req EXCEPT ![p] =
         [step |-> step, op |-> op, school |-> s, user |-> u, role |-> r]]
    /\ UNCHANGED <<school, account, tokens, since, work>>
End(p) == req' = [req EXCEPT ![p] = Idle]

(* resolveSchool (mutant: it finds the school and never looks further). *)
Registered(s) == school[s].status # "none"
Open(s)       == school[s].status = "approved"

(* requireAuth: the token tells the school and the role (mutant: it        *)
(* forgets to compare the school with the one in the URL).                 *)
AnySchool(t, s)    == TRUE
OfThisSchool(t, s) == SchoolOf[t.user] = s

(* What requireRole lets through, by the role in the token. *)
MayCall(op, role) == \/ role = "admin"
                     \/ op = "user_create" /\ role = "librarian"

(* POST /auth/login, up to resolveSchool; u is whose email was typed. *)
Login(p, s, u) ==
    /\ Cardinality(tokens) < MaxTokens
    /\ <<u, s>> \in Visits
    /\ Open(s)
    /\ Begin(p, "read", "login", s, u, None)
SuperLogin(p, u) ==
    /\ Cardinality(tokens) < MaxTokens
    /\ Begin(p, "read", "super_login", None, u, None)

(* POST /auth/refresh, up to the cookie's claims. *)
Refresh(p, s, t) ==
    /\ t.kind = "refresh"
    /\ Open(s) /\ OfThisSchool(t, s)
    /\ Begin(p, "read", "refresh", s, t.user, t.role)

(* POST /auth/logout clears the browser's refresh cookie of this school;   *)
(* an access token stays with whoever holds it until it expires.           *)
Logout(s, t) ==
    /\ "logout" \in work
    /\ t.kind = "refresh"
    /\ Open(s) /\ OfThisSchool(t, s)
    /\ tokens' = tokens \ {t}
    /\ UNCHANGED <<school, account, req, since, work>>

(* A request of staff passes resolveSchool, requireAuth and requireRole. *)
Admit(p, op, s, t) ==
    /\ t.kind = "access"
    /\ Open(s) /\ OfThisSchool(t, s) /\ MayCall(op, t.role)
    /\ Begin(p, "handle", op, s, t.user, t.role)

(* A request of the super admin passes requireSuperAdmin. *)
AdmitSuper(p, op, s, t) ==
    /\ t.kind = "access" /\ t.role = "super_admin"
    /\ Begin(p, "check", op, s, t.user, t.role)
-----------------------------------------------------------------------------
(* The account that login, refresh and superAdminLogin find and accept. *)
Found(p) == LET u == req[p].user IN
    /\ account[u].status # "none"
    /\ SchoolOf[u] = req[p].school
    /\ (account[u].role = "super_admin") = (req[p].op = "super_login")

(* They read the row once, refuse an account that is not active, and take  *)
(* its role of that moment (mutants: the refresh trusts the claims of its  *)
(* cookie instead; it asks only for the row).                              *)
ReadClaims(p) ==
    IF Found(p) /\ (account[req[p].user].status = "active" \/ req[p].op = "refresh")
    THEN req' = [req EXCEPT ![p].step = "issue", ![p].role =
                   IF req[p].op = "refresh" THEN @ ELSE account[req[p].user].role]
    ELSE End(p)
ReadAccount(p) ==
    IF Found(p) /\ account[req[p].user].status = "active"
    THEN req' = [req EXCEPT ![p].step = "issue",
                            ![p].role = account[req[p].user].role]
    ELSE End(p)

ReadUser(p) ==
    /\ req[p].step = "read"
    /\ ReadAccount(p)
    /\ UNCHANGED <<school, account, tokens, since, work>>

(* The super admin's refresh cookie is left out: no endpoint reads it. *)
IssueTokens(p) ==
    /\ req[p].step = "issue"
    /\ tokens' = tokens \cup {AccessToken(req[p].user, req[p].role)} \cup
         (IF req[p].op = "login" THEN {RefreshToken(req[p].user, req[p].role)} ELSE {})
    /\ End(p)
    /\ UNCHANGED <<school, account, since, work>>

(* Setting a row of users; the history starts over when it changes. *)
SetAccount(u, row) ==
    /\ account' = [account EXCEPT ![u] = row]
    /\ since' = IF row = account[u] THEN since ELSE [since EXCEPT ![u] = 0]

(* PATCH /users/{id}: any role and status, in the caller's school. *)
UpdateUser(p) ==
    /\ req[p].step = "handle" /\ req[p].op = "user_patch"
    /\ \E u \in People, row \in Patches :
         /\ SchoolOf[u] = req[p].school /\ account[u].status # "none"
         /\ SetAccount(u, row)
    /\ End(p)
    /\ UNCHANGED <<school, tokens, work>>

(* POST /users: librarians create only students and teachers (mutant:      *)
(* whatever role they ask for).                                            *)
CreatesAny(role)  == Roles
MayCreate(role)  == IF role = "librarian" THEN Roles \cap {"student", "teacher"} ELSE Roles
CreateUser(p) ==
    /\ req[p].step = "handle" /\ req[p].op = "user_create"
    /\ \E u \in People, r \in MayCreate(req[p].role) :
         /\ SchoolOf[u] = req[p].school /\ account[u].status = "none"
         /\ SetAccount(u, [status |-> "active", role |-> r])
    /\ End(p)
    /\ UNCHANGED <<school, tokens, work>>

(* A handler that finds no row, a taken email, or fails. *)
HandlerRefuses(p) ==
    /\ req[p].step = "handle"
    /\ End(p)
    /\ UNCHANGED <<school, account, tokens, since, work>>
-----------------------------------------------------------------------------
(* POST /schools/register: school and first admin in one transaction. *)
RegisterSchool(s) ==
    /\ "register" \in work
    /\ school[s].status = "none"
    /\ school' = [school EXCEPT ![s].status = "pending"]
    /\ SetAccount(FirstAdmin[s], [status |-> "active", role |-> "admin"])
    /\ UNCHANGED <<tokens, req, work>>

(* The statuses a transition starts from (mutant: reactivate and reject    *)
(* share the list of approve), and the row it leaves.                      *)
FromPending(op) == IF op = "suspend" THEN {"approved"}
                   ELSE {"pending", "rejected", "suspended"}
From(op) == CASE op = "approve"    -> {"pending", "rejected", "suspended"}
              [] op = "reject"     -> {"pending"}
              [] op = "suspend"    -> {"approved"}
              [] op = "reactivate" -> {"suspended"}
Result(op, row) ==
    CASE op = "approve"    -> [status |-> "approved", approvedAt |-> TRUE, reason |-> FALSE]
      [] op = "reject"     -> [row EXCEPT !.status = "rejected", !.reason = TRUE]
      [] op = "suspend"    -> [row EXCEPT !.status = "suspended"]
      [] op = "reactivate" -> [row EXCEPT !.status = "approved"]

(* transitionSchool reads the status, and writes it in a later statement. *)
CheckStatus(p) ==
    /\ req[p].step = "check"
    /\ IF school[req[p].school].status \in From(req[p].op)
       THEN req' = [req EXCEPT ![p].step = "write"]
       ELSE End(p)
    /\ UNCHANGED <<school, account, tokens, since, work>>

WriteStatus(p) ==
    /\ req[p].step = "write"
    /\ school' = [school EXCEPT ![req[p].school] = Result(req[p].op, @)]
    /\ End(p)
    /\ UNCHANGED <<account, tokens, since, work>>
-----------------------------------------------------------------------------
(* Time passes and tokens expire.  A request is shorter than a tick: none  *)
(* is between reading an account and issuing its tokens.                   *)
Tick ==
    /\ \A p \in Procs : req[p].step # "issue"
    /\ tokens' = {[t EXCEPT !.left = @ - 1] : t \in {x \in tokens : x.left > 1}}
    /\ since' = [u \in People |-> IF since[u] < AccessTTL THEN since[u] + 1 ELSE since[u]]
    /\ UNCHANGED <<school, account, req, work>>

Arrive(p) ==
    \/ \E u \in People : SuperLogin(p, u) \/ \E s \in Schools : Login(p, s, u)
    \/ \E t \in tokens, s \in Schools :
         \/ Refresh(p, s, t)
         \/ \E op \in {"user_patch", "user_create"} : Admit(p, op, s, t)
         \/ \E op \in Transitions : AdmitSuper(p, op, s, t)

Proceed(p) ==
    \/ ReadUser(p) \/ IssueTokens(p)
    \/ UpdateUser(p) \/ CreateUser(p) \/ HandlerRefuses(p)
    \/ CheckStatus(p) \/ WriteStatus(p)

Next == \/ \E p \in Procs : Arrive(p) \/ Proceed(p)
        \/ \E s \in Schools : RegisterSchool(s) \/ \E t \in tokens : Logout(s, t)
        \/ Tick
Spec == Init /\ [][Next]_vars
=============================================================================
