--------------------------- MODULE TenancyProofs ---------------------------
(***************************************************************************)
(* Proofs about schools, accounts and tokens, for any number of schools,   *)
(* people and overlapping requests, and any lifetimes of tokens.           *)
(***************************************************************************)
EXTENDS TenancyClaims, TLAPS

(* A process that does nothing knows nothing that could be wrong. *)
LEMMA IdleFits == Idle \in Request /\ RequestOK(Idle)
  BY DEF Idle, Request, RequestOK, TransitionOK, AdmittedOK, SignInOK, HandlerOK

(* Tokens have their type, and are in the set of tokens. *)
LEMMA TokenTypes ==
    ASSUME NEW u \in People, NEW r \in AnyRole
    PROVE  AccessToken(u, r) \in Token /\ RefreshToken(u, r) \in Token
<1>1. AccessTTL \in 1..AccessTTL /\ RefreshTTL \in 1..RefreshTTL
  BY TenancyAssumption
<1>2. QED
  BY <1>1 DEF AccessToken, RefreshToken, Token

(* Initially nobody holds a token and nothing is under way. *)
LEMMA InitIInv == Init => IInv
<1> SUFFICES ASSUME Init PROVE IInv
  OBVIOUS
<1>1. \A u \in People : RoleAtStart(u) \in AnyRole
  BY TenancyAssumption DEF RoleAtStart, AnyRole
<1>2. TypeOK
  <2>1. school \in [Schools -> SchoolRow]
    BY DEF Init, SchoolRow, SchoolStatus
  <2>2. account \in [People -> AccountRow]
    BY <1>1 DEF Init, AccountRow, AccountStatus
  <2>3. since \in [People -> 0..AccessTTL]
    BY TenancyAssumption DEF Init
  <2>4. QED
    BY <2>1, <2>2, <2>3, IdleFits DEF Init, TypeOK
<1>3. OpenWasApproved /\ TokensNeedApproval /\ StaleRightsExpire
  BY DEF Init, OpenWasApproved, TokensNeedApproval, StaleRightsExpire
<1>4. FreeSlugs
  <2> SUFFICES ASSUME NEW s \in Schools, school[s].status = "none"
               PROVE  /\ ~school[s].approvedAt
                      /\ \A u \in People : SchoolOf[u] = s => account[u].status = "none"
    BY DEF FreeSlugs
  <2>1. school[s].approvedAt = (s \in Opened) /\ s \notin Opened
    BY DEF Init
  <2>2. \A u \in People : SchoolOf[u] = s => u \notin Present
    BY <2>1, TenancyAssumption
  <2>3. QED
    BY <2>1, <2>2 DEF Init
<1>5. \A p \in Procs : RequestOK(req[p])
  BY IdleFits DEF Init
<1>6. QED
  BY <1>2, <1>3, <1>4, <1>5 DEF IInv

-----------------------------------------------------------------------------
(* A step of one request that changes no table keeps the invariant when    *)
(* what the request knows afterwards is right.                             *)
LEMMA Move ==
    ASSUME IInv, UNCHANGED <<school, account, tokens, since, work>>,
           NEW p \in Procs, NEW r \in Request, RequestOK(r),
           req' = [req EXCEPT ![p] = r]
    PROVE  IInv'
<1>1. TypeOK'
  BY DEF IInv, TypeOK
<1>2. (OpenWasApproved /\ TokensNeedApproval /\ StaleRightsExpire /\ FreeSlugs)'
  BY DEF IInv, OpenWasApproved, TokensNeedApproval, StaleRightsExpire, FreeSlugs
<1>3. \A q \in Procs : req'[q] = IF q = p THEN r ELSE req[q]
  BY DEF IInv, TypeOK
<1>4. \A q \in Procs : RequestOK(req[q])'
  BY <1>3 DEF IInv, RequestOK, TransitionOK, AdmittedOK, SignInOK, HandlerOK
<1>5. QED
  BY <1>1, <1>2, <1>4 DEF IInv

(* A request that ends changes nothing else. *)
LEMMA Ending ==
    ASSUME IInv, UNCHANGED <<school, account, tokens, since, work>>,
           NEW p \in Procs, End(p)
    PROVE  IInv'
  BY Move, IdleFits DEF End

(* Requests arrive with claims of a token that somebody holds. *)
LEMMA ArriveKeeps ==
    ASSUME IInv, NEW p \in Procs, Arrive(p)
    PROVE  IInv'
<1>1. ASSUME NEW step \in {"read", "handle", "check"}, NEW op \in Ops,
             NEW s \in Schools \cup {None}, NEW u \in People,
             NEW r \in AnyRole \cup {None},
             Begin(p, step, op, s, u, r),
             step = "check" => op \in Transitions /\ s \in Schools,
             step # "check" /\ s # None => school[s].approvedAt,
             step = "handle" => s \in Schools /\ SchoolOf[u] = s /\ MayCall(op, r)
      PROVE  IInv'
  <2> DEFINE q == [step |-> step, op |-> op, school |-> s, user |-> u, role |-> r]
  <2>1. q \in Request
    BY <1>1 DEF Request
  <2>2. RequestOK(q)
    BY <1>1 DEF RequestOK, TransitionOK, AdmittedOK, SignInOK, HandlerOK
  <2>3. QED
    BY <2>1, <2>2, <1>1, Move DEF Begin
<1>2. \A s \in Schools : Open(s) => school[s].approvedAt
  BY DEF IInv, OpenWasApproved, Open
<1>3. \A t \in tokens : t.user \in People /\ t.role \in AnyRole
  BY DEF IInv, TypeOK, Token
<1>4. ASSUME NEW u \in People, SuperLogin(p, u) PROVE IInv'
  BY <1>1, <1>4 DEF SuperLogin, Ops
<1>5. ASSUME NEW u \in People, NEW s \in Schools, Login(p, s, u) PROVE IInv'
  BY <1>1, <1>2, <1>5 DEF Login, Ops
<1>6. ASSUME NEW t \in tokens, NEW s \in Schools, Refresh(p, s, t) PROVE IInv'
  BY <1>1, <1>2, <1>3, <1>6 DEF Refresh, Ops
<1>7. ASSUME NEW t \in tokens, NEW s \in Schools,
             NEW op \in {"user_patch", "user_create"}, Admit(p, op, s, t)
      PROVE  IInv'
  BY <1>1, <1>2, <1>3, <1>7 DEF Admit, Ops, OfThisSchool
<1>8. ASSUME NEW t \in tokens, NEW s \in Schools, NEW op \in Transitions,
             AdmitSuper(p, op, s, t)
      PROVE  IInv'
  BY <1>1, <1>3, <1>8 DEF AdmitSuper, Ops
<1>9. QED
  BY <1>4, <1>5, <1>6, <1>7, <1>8 DEF Arrive

(* What a sign-in or a refresh reads is the account of that moment. *)
LEMMA ReadUserKeeps ==
    ASSUME IInv, NEW p \in Procs, ReadUser(p)
    PROVE  IInv'
<1>1. CASE End(p)
  BY <1>1, Ending DEF ReadUser
<1>2. CASE ~End(p)
  <2> DEFINE u == req[p].user
             r == [req[p] EXCEPT !.step = "issue", !.role = account[u].role]
  <2>1. req[p] \in Request /\ RequestOK(req[p]) /\ req[p].step = "read"
    BY DEF IInv, TypeOK, ReadUser
  <2>2. u \in People /\ account[u] \in AccountRow
    BY <2>1 DEF RequestOK, AdmittedOK, IInv, TypeOK
  <2>3. Found(p) /\ account[u].status = "active" /\ req' = [req EXCEPT ![p] = r]
    BY <1>2 DEF ReadUser, ReadAccount
  <2>4. r \in Request
    BY <2>1, <2>2 DEF Request, AccountRow
  <2>5. account[u] = [status |-> "active", role |-> r.role]
    BY <2>1, <2>2, <2>3 DEF AccountRow, Request
  <2>6. RequestOK(r)
    BY <2>1, <2>2, <2>3, <2>5
    DEF RequestOK, TransitionOK, AdmittedOK, SignInOK, HandlerOK, Found, AccountRow, Request
  <2>7. QED
    BY <2>3, <2>4, <2>6, Move DEF ReadUser
<1>3. QED
  BY <1>1, <1>2

(* A transition is checked against the status of that moment. *)
LEMMA CheckStatusKeeps ==
    ASSUME IInv, NEW p \in Procs, CheckStatus(p)
    PROVE  IInv'
<1>1. CASE End(p)
  BY <1>1, Ending DEF CheckStatus
<1>2. CASE ~End(p)
  <2> DEFINE r == [req[p] EXCEPT !.step = "write"]
  <2>1. req[p] \in Request /\ RequestOK(req[p]) /\ req[p].step = "check"
    BY DEF IInv, TypeOK, CheckStatus
  <2>2. school[req[p].school].status \in From(req[p].op) /\ req' = [req EXCEPT ![p] = r]
    BY <1>2 DEF CheckStatus
  <2>3. r \in Request
    BY <2>1 DEF Request
  <2>4. req[p].op \in Transitions /\ req[p].school \in Schools
    BY <2>1 DEF RequestOK, TransitionOK
  <2>5. req[p].op \in {"suspend", "reactivate"} => school[req[p].school].approvedAt
    BY <2>2, <2>4 DEF From, IInv, OpenWasApproved
  <2>6. RequestOK(r)
    BY <2>1, <2>4, <2>5
    DEF RequestOK, TransitionOK, AdmittedOK, SignInOK, HandlerOK, Request
  <2>7. QED
    BY <2>2, <2>3, <2>6, Move DEF CheckStatus
<1>3. QED
  BY <1>1, <1>2

(* Tokens are issued with the rights the account had when it was read, and *)
(* it can have changed since only within the tick.                         *)
LEMMA IssueTokensKeeps ==
    ASSUME IInv, NEW p \in Procs, IssueTokens(p)
    PROVE  IInv'
<1> DEFINE r == req[p]
<1>1. /\ r \in Request /\ r.user \in People /\ r.role \in AnyRole
      /\ SchoolOf[r.user] = r.school
      /\ r.school # None => school[r.school].approvedAt
      /\ \/ since[r.user] = 0
         \/ account[r.user] = [status |-> "active", role |-> r.role]
  BY DEF IInv, TypeOK, IssueTokens, RequestOK, AdmittedOK, SignInOK
<1>2. \A t \in tokens' : \/ t \in tokens
                         \/ t = AccessToken(r.user, r.role)
                         \/ t = RefreshToken(r.user, r.role)
  BY DEF IssueTokens
<1>3. TypeOK'
  <2>1. tokens' \subseteq Token
    BY <1>1, <1>2, TokenTypes DEF IInv, TypeOK
  <2>2. req' \in [Procs -> Request]
    BY IdleFits DEF IInv, TypeOK, IssueTokens, End
  <2>3. QED
    BY <2>1, <2>2 DEF IInv, TypeOK, IssueTokens
<1>4. OpenWasApproved' /\ FreeSlugs'
  BY DEF IInv, OpenWasApproved, FreeSlugs, IssueTokens
<1>5. TokensNeedApproval'
  BY <1>1, <1>2 DEF IInv, TokensNeedApproval, IssueTokens, AccessToken, RefreshToken
<1>6. StaleRightsExpire'
  <2> SUFFICES ASSUME NEW t \in tokens', t.kind = "access",
                      account[t.user].status # "active" \/ account[t.user].role # t.role
               PROVE  t.left + since[t.user] <= AccessTTL
    BY DEF StaleRightsExpire, IssueTokens
  <2>1. CASE t \in tokens
    BY <2>1 DEF IInv, StaleRightsExpire
  <2>2. CASE t = AccessToken(r.user, r.role)
    <3>1. since[r.user] = 0
      BY <1>1, <2>2 DEF AccessToken
    <3>2. QED
      BY <2>2, <3>1, TenancyAssumption DEF AccessToken
  <2>3. QED
    BY <1>2, <2>1, <2>2 DEF RefreshToken
<1>7. \A q \in Procs : RequestOK(req[q])'
  <2>1. \A q \in Procs : req'[q] = IF q = p THEN Idle ELSE req[q]
    BY DEF IInv, TypeOK, IssueTokens, End
  <2>2. QED
    BY <2>1, IdleFits
    DEF IInv, IssueTokens, RequestOK, TransitionOK, AdmittedOK, SignInOK, HandlerOK
<1>8. QED
  BY <1>3, <1>4, <1>5, <1>6, <1>7 DEF IInv

-----------------------------------------------------------------------------
(* Writing a row of users: whoever holds a token of that account, or is    *)
(* about to get one, has the tick of the change and AccessTTL from there.  *)
LEMMA SetAccountKeeps ==
    ASSUME IInv, NEW u \in People, NEW row \in AccountRow, SetAccount(u, row)
    PROVE  /\ account' \in [People -> AccountRow] /\ since' \in [People -> 0..AccessTTL]
           /\ \A v \in People : \/ since'[v] = 0
                                \/ account'[v] = account[v] /\ since'[v] = since[v]
           /\ \A v \in People : v # u => account'[v] = account[v]
           /\ account'[u] = row
<1>1. account \in [People -> AccountRow] /\ since \in [People -> 0..AccessTTL]
  BY DEF IInv, TypeOK
<1>2. account' = [account EXCEPT ![u] = row]
  BY DEF SetAccount
<1>3. (since' = since /\ row = account[u]) \/ since' = [since EXCEPT ![u] = 0]
  BY DEF SetAccount
<1>4. 0 \in 0..AccessTTL
  BY TenancyAssumption
<1>5. CASE since' = since /\ row = account[u]
  <2>1. account' = account
    BY <1>1, <1>2, <1>5
  <2>2. account' \in [People -> AccountRow] /\ since' \in [People -> 0..AccessTTL]
    BY <1>1, <1>5, <2>1
  <2>3. \A v \in People : account'[v] = account[v] /\ since'[v] = since[v]
    BY <1>5, <2>1
  <2>4. account'[u] = row
    BY <1>5, <2>1
  <2>5. QED
    BY <2>2, <2>3, <2>4
<1>6. CASE since' = [since EXCEPT ![u] = 0]
  BY <1>1, <1>2, <1>4, <1>6
<1>7. QED
  BY <1>3, <1>5, <1>6

(* Rights stay within their term when every account that changes starts    *)
(* its history over.                                                       *)
LEMMA StaleRightsKept ==
    ASSUME IInv, UNCHANGED <<tokens, work>>,
           \A v \in People : \/ since'[v] = 0
                             \/ account'[v] = account[v] /\ since'[v] = since[v]
    PROVE  StaleRightsExpire'
<1> SUFFICES ASSUME NEW t \in tokens, t.kind = "access",
                    account'[t.user].status # "active" \/ account'[t.user].role # t.role
             PROVE  t.left + since'[t.user] <= AccessTTL
  BY DEF StaleRightsExpire
<1>1. t.user \in People /\ t.left \in 1..AccessTTL
  BY DEF IInv, TypeOK, Token
<1>2. CASE since'[t.user] = 0
  BY <1>1, <1>2, TenancyAssumption
<1>3. CASE account'[t.user] = account[t.user] /\ since'[t.user] = since[t.user]
  BY <1>3 DEF IInv, StaleRightsExpire
<1>4. QED
  BY <1>1, <1>2, <1>3

(* A handler of staff that writes one row of users in its school. *)
LEMMA HandlerKeeps ==
    ASSUME IInv, NEW p \in Procs, req[p].step = "handle", End(p),
           NEW u \in People, NEW row \in AccountRow, SetAccount(u, row),
           SchoolOf[u] = req[p].school, UNCHANGED <<school, tokens, work>>
    PROVE  IInv'
<1>1. SchoolOf[u] \in Schools /\ school[SchoolOf[u]].approvedAt
  BY TenancyAssumption DEF IInv, RequestOK, AdmittedOK, HandlerOK
<1>2. /\ account' \in [People -> AccountRow] /\ since' \in [People -> 0..AccessTTL]
      /\ \A v \in People : \/ since'[v] = 0
                           \/ account'[v] = account[v] /\ since'[v] = since[v]
      /\ \A v \in People : v # u => account'[v] = account[v]
  BY SetAccountKeeps
<1>3. \A q \in Procs : req'[q] = IF q = p THEN Idle ELSE req[q]
  BY DEF IInv, TypeOK, End
<1>4. TypeOK'
  BY <1>2, IdleFits DEF IInv, TypeOK, End
<1>5. OpenWasApproved' /\ TokensNeedApproval'
  BY DEF IInv, OpenWasApproved, TokensNeedApproval
<1>6. StaleRightsExpire'
  BY <1>2, StaleRightsKept
<1>7. FreeSlugs'
  BY <1>1, <1>2 DEF IInv, FreeSlugs
<1>8. ASSUME NEW q \in Procs PROVE RequestOK(req[q])'
  <2>1. RequestOK(req[q]) /\ RequestOK(Idle)
    BY IdleFits DEF IInv
  <2>2. CASE q = p
    BY <2>2, <1>3 DEF Idle, RequestOK, TransitionOK, AdmittedOK, SignInOK, HandlerOK
  <2>3. CASE q # p
    BY <2>1, <2>3, <1>2, <1>3
    DEF RequestOK, TransitionOK, AdmittedOK, SignInOK, HandlerOK
  <2>4. QED
    BY <2>2, <2>3
<1>9. QED
  BY <1>4, <1>5, <1>6, <1>7, <1>8 DEF IInv

(* PATCH leaves a row that is an account's. *)
LEMMA UpdateUserKeeps ==
    ASSUME IInv, NEW p \in Procs, UpdateUser(p)
    PROVE  IInv'
<1>1. PICK u \in People, row \in Patches : SchoolOf[u] = req[p].school /\ SetAccount(u, row)
  BY DEF UpdateUser
<1>2. row \in AccountRow
  BY TenancyAssumption DEF AccountRow, AccountStatus, AnyRole
<1>3. QED
  BY <1>1, <1>2, HandlerKeeps DEF UpdateUser

(* So does the creation of an account. *)
LEMMA CreateUserKeeps ==
    ASSUME IInv, NEW p \in Procs, CreateUser(p)
    PROVE  IInv'
<1>1. PICK u \in People, r \in MayCreate(req[p].role) :
        /\ SchoolOf[u] = req[p].school
        /\ SetAccount(u, [status |-> "active", role |-> r])
  BY DEF CreateUser
<1>2. [status |-> "active", role |-> r] \in AccountRow
  BY DEF MayCreate, AccountRow, AccountStatus, AnyRole
<1>3. QED
  BY <1>1, <1>2, HandlerKeeps DEF CreateUser

-----------------------------------------------------------------------------
(* A slug that was free has no accounts, so the first admin's row is new. *)
LEMMA RegisterSchoolKeeps ==
    ASSUME IInv, NEW s \in Schools, RegisterSchool(s)
    PROVE  IInv'
<1> DEFINE u == FirstAdmin[s]
           row == [status |-> "active", role |-> "admin"]
<1>1. u \in People /\ SchoolOf[u] = s /\ row \in AccountRow
  BY TenancyAssumption DEF AccountRow, AccountStatus, AnyRole
<1>2. /\ account' \in [People -> AccountRow] /\ since' \in [People -> 0..AccessTTL]
      /\ \A v \in People : \/ since'[v] = 0
                           \/ account'[v] = account[v] /\ since'[v] = since[v]
      /\ \A v \in People : v # u => account'[v] = account[v]
  BY <1>1, SetAccountKeeps DEF RegisterSchool
<1>3. /\ school' \in [Schools -> SchoolRow]
      /\ \A x \in Schools : x # s => school'[x] = school[x]
      /\ school'[s].status = "pending" /\ school'[s].approvedAt = school[s].approvedAt
  BY DEF RegisterSchool, IInv, TypeOK, SchoolRow, SchoolStatus
<1>4. TypeOK'
  BY <1>2, <1>3 DEF IInv, TypeOK, RegisterSchool
<1>5. OpenWasApproved'
  BY <1>3 DEF IInv, OpenWasApproved
<1>6. TokensNeedApproval'
  BY <1>3, TenancyAssumption DEF IInv, TypeOK, Token, TokensNeedApproval, RegisterSchool
<1>7. StaleRightsExpire'
  BY <1>2, StaleRightsKept DEF RegisterSchool
<1>8. FreeSlugs'
  BY <1>1, <1>2, <1>3 DEF IInv, FreeSlugs
<1>9. ASSUME NEW q \in Procs PROVE RequestOK(req[q])'
  <2>1. RequestOK(req[q]) /\ req[q] \in Request /\ req' = req
    BY DEF IInv, TypeOK, RegisterSchool
  <2>2. TransitionOK(req[q])' /\ HandlerOK(req[q])'
    BY <2>1, <1>3 DEF RequestOK, TransitionOK, HandlerOK
  <2>3. AdmittedOK(req[q])'
    BY <2>1, <1>3 DEF RequestOK, AdmittedOK, Request
  <2>4. SignInOK(req[q])'
    BY <2>1, <1>2 DEF RequestOK, AdmittedOK, SignInOK
  <2>5. QED
    BY <2>2, <2>3, <2>4 DEF RequestOK
<1>10. QED
  BY <1>4, <1>5, <1>6, <1>7, <1>8, <1>9 DEF IInv

(* A transition never takes an approval back, however old the status is    *)
(* that it acts on.                                                        *)
LEMMA WriteStatusKeeps ==
    ASSUME IInv, NEW p \in Procs, WriteStatus(p)
    PROVE  IInv'
<1> DEFINE s == req[p].school
           op == req[p].op
<1>1. /\ s \in Schools /\ op \in Transitions
      /\ op \in {"suspend", "reactivate"} => school[s].approvedAt
  BY DEF IInv, RequestOK, TransitionOK, WriteStatus
<1>2. school[s] \in SchoolRow
  BY <1>1 DEF IInv, TypeOK
<1>3. /\ Result(op, school[s]) \in SchoolRow
      /\ Result(op, school[s]).status # "none"
      /\ school[s].approvedAt => Result(op, school[s]).approvedAt
      /\ Result(op, school[s]).status \in {"approved", "suspended"}
           => Result(op, school[s]).approvedAt
  BY <1>1, <1>2 DEF Result, Transitions, SchoolRow, SchoolStatus
<1>4. /\ school' \in [Schools -> SchoolRow]
      /\ \A x \in Schools : x # s => school'[x] = school[x]
      /\ school'[s] = Result(op, school[s])
  BY <1>1, <1>3 DEF WriteStatus, IInv, TypeOK
<1>5. \A x \in Schools : school[x].approvedAt => school'[x].approvedAt
  BY <1>3, <1>4
<1>6. \A q \in Procs : req'[q] = IF q = p THEN Idle ELSE req[q]
  BY DEF IInv, TypeOK, WriteStatus, End
<1>7. TypeOK'
  BY <1>4, IdleFits DEF IInv, TypeOK, WriteStatus, End
<1>8. OpenWasApproved' /\ FreeSlugs'
  BY <1>3, <1>4 DEF IInv, OpenWasApproved, FreeSlugs, WriteStatus
<1>9. TokensNeedApproval' /\ StaleRightsExpire'
  <2>1. \A t \in tokens : SchoolOf[t.user] # None => SchoolOf[t.user] \in Schools
    BY TenancyAssumption DEF IInv, TypeOK, Token
  <2>2. QED
    BY <2>1, <1>5 DEF IInv, TokensNeedApproval, StaleRightsExpire, WriteStatus
<1>10. ASSUME NEW q \in Procs PROVE RequestOK(req[q])'
  <2>1. RequestOK(req[q]) /\ req[q] \in Request
    BY DEF IInv, TypeOK
  <2>2. CASE q = p
    BY <2>2, <1>6 DEF Idle, RequestOK, TransitionOK, AdmittedOK, SignInOK, HandlerOK
  <2>3. CASE q # p
    BY <2>1, <2>3, <1>5, <1>6
    DEF RequestOK, TransitionOK, AdmittedOK, SignInOK, HandlerOK, Request, WriteStatus
  <2>4. QED
    BY <2>2, <2>3
<1>11. QED
  BY <1>7, <1>8, <1>9, <1>10 DEF IInv

(* With every tick a token loses what the change of its account gains. *)
LEMMA TickKeeps ==
    ASSUME IInv, Tick
    PROVE  IInv'
<1>1. \A u \in People : since[u] \in 0..AccessTTL
  BY DEF IInv, TypeOK
<1>2. \A u \in People :
        since'[u] = IF since[u] < AccessTTL THEN since[u] + 1 ELSE since[u]
  BY DEF Tick
<1>3. ASSUME NEW t \in tokens'
      PROVE  \E x \in tokens : /\ x.left > 1 /\ x \in Token
                               /\ t = [x EXCEPT !.left = @ - 1]
  BY <1>3 DEF Tick, IInv, TypeOK
<1>4. ASSUME NEW x \in Token, x.left > 1
      PROVE  LET t == [x EXCEPT !.left = @ - 1] IN
             /\ t \in Token /\ t.user = x.user /\ t.role = x.role /\ t.kind = x.kind
             /\ t.left = x.left - 1
  BY <1>4, TenancyAssumption DEF Token
<1>5. TypeOK'
  <2>1. tokens' \subseteq Token
    BY <1>3, <1>4
  <2>2. since' \in [People -> 0..AccessTTL]
    BY <1>1, <1>2, TenancyAssumption DEF Tick
  <2>3. QED
    BY <2>1, <2>2 DEF IInv, TypeOK, Tick
<1>6. OpenWasApproved' /\ FreeSlugs'
  BY DEF IInv, OpenWasApproved, FreeSlugs, Tick
<1>7. TokensNeedApproval'
  <2> SUFFICES ASSUME NEW t \in tokens', SchoolOf[t.user] # None
               PROVE  school[SchoolOf[t.user]].approvedAt
    BY DEF TokensNeedApproval, Tick
  <2>1. PICK x \in tokens : /\ x.left > 1 /\ x \in Token
                            /\ t = [x EXCEPT !.left = @ - 1]
    BY <1>3
  <2>2. t.user = x.user
    BY <1>4, <2>1
  <2>3. QED
    BY <2>2 DEF IInv, TokensNeedApproval
<1>8. StaleRightsExpire'
  <2> SUFFICES ASSUME NEW t \in tokens', t.kind = "access",
                      account[t.user].status # "active" \/ account[t.user].role # t.role
               PROVE  t.left + since'[t.user] <= AccessTTL
    BY DEF StaleRightsExpire, Tick
  <2>1. PICK x \in tokens : /\ x.left > 1 /\ x \in Token
                            /\ t = [x EXCEPT !.left = @ - 1]
    BY <1>3
  <2>2. /\ t.user = x.user /\ t.role = x.role /\ t.kind = x.kind
        /\ t.left = x.left - 1
    BY <1>4, <2>1
  <2>3. x.left + since[x.user] <= AccessTTL
    BY <2>2 DEF IInv, StaleRightsExpire
  <2>4. x.user \in People /\ x.left \in Int
    BY <2>1, TenancyAssumption DEF Token
  <2>5. QED
    BY <1>1, <1>2, <2>2, <2>3, <2>4, TenancyAssumption
<1>9. ASSUME NEW q \in Procs PROVE RequestOK(req[q])'
  <2>1. RequestOK(req[q]) /\ req' = req /\ req[q].step # "issue"
    BY DEF IInv, Tick
  <2>2. QED
    BY <2>1 DEF RequestOK, TransitionOK, AdmittedOK, SignInOK, HandlerOK, Tick
<1>10. QED
  BY <1>5, <1>6, <1>7, <1>8, <1>9 DEF IInv

(* A token that is given up breaks no promise about those that remain. *)
LEMMA LogoutKeeps ==
    ASSUME IInv, NEW s \in Schools, NEW t \in tokens, Logout(s, t)
    PROVE  IInv'
<1>1. tokens' \subseteq tokens /\ UNCHANGED <<school, account, req, since, work>>
  BY DEF Logout
<1>2. (TypeOK /\ OpenWasApproved /\ TokensNeedApproval /\ StaleRightsExpire /\ FreeSlugs)'
  BY <1>1 DEF IInv, TypeOK, OpenWasApproved, TokensNeedApproval, StaleRightsExpire, FreeSlugs
<1>3. ASSUME NEW p \in Procs PROVE RequestOK(req[p])'
  BY <1>1 DEF IInv, RequestOK, TransitionOK, AdmittedOK, SignInOK, HandlerOK
<1>4. QED
  BY <1>2, <1>3 DEF IInv

-----------------------------------------------------------------------------
(* Every step keeps the invariant. *)
LEMMA NextIInv == IInv /\ [Next]_vars => IInv'
<1> SUFFICES ASSUME IInv, [Next]_vars PROVE IInv'
  OBVIOUS
<1>1. ASSUME NEW p \in Procs, Arrive(p) PROVE IInv'
  BY <1>1, ArriveKeeps
<1>2. ASSUME NEW p \in Procs, ReadUser(p) PROVE IInv'
  BY <1>2, ReadUserKeeps
<1>3. ASSUME NEW p \in Procs, IssueTokens(p) PROVE IInv'
  BY <1>3, IssueTokensKeeps
<1>4. ASSUME NEW p \in Procs, UpdateUser(p) PROVE IInv'
  BY <1>4, UpdateUserKeeps
<1>5. ASSUME NEW p \in Procs, CreateUser(p) PROVE IInv'
  BY <1>5, CreateUserKeeps
<1>6. ASSUME NEW p \in Procs, HandlerRefuses(p) PROVE IInv'
  BY <1>6, Ending DEF HandlerRefuses
<1>7. ASSUME NEW p \in Procs, CheckStatus(p) PROVE IInv'
  BY <1>7, CheckStatusKeeps
<1>8. ASSUME NEW p \in Procs, WriteStatus(p) PROVE IInv'
  BY <1>8, WriteStatusKeeps
<1>9. ASSUME NEW s \in Schools, RegisterSchool(s) PROVE IInv'
  BY <1>9, RegisterSchoolKeeps
<1>10. CASE Tick
  BY <1>10, TickKeeps
<1>11. CASE UNCHANGED vars
  <2>1. (TypeOK /\ OpenWasApproved /\ TokensNeedApproval /\ StaleRightsExpire /\ FreeSlugs)'
    BY <1>11 DEF IInv, vars, TypeOK, OpenWasApproved, TokensNeedApproval,
                 StaleRightsExpire, FreeSlugs
  <2>2. \A p \in Procs : RequestOK(req[p])'
    BY <1>11 DEF IInv, vars, RequestOK, TransitionOK, AdmittedOK, SignInOK, HandlerOK
  <2>3. QED
    BY <2>1, <2>2 DEF IInv
<1>12. ASSUME NEW s \in Schools, NEW t \in tokens, Logout(s, t) PROVE IInv'
  BY <1>12, LogoutKeeps
<1>13. QED
  BY <1>1, <1>2, <1>3, <1>4, <1>5, <1>6, <1>7, <1>8, <1>9, <1>10, <1>11, <1>12
  DEF Next, Proceed

(* The inductive invariant: the parts below, and what each request under   *)
(* way has found out about its school and its caller.                      *)
THEOREM TenancyInvariant == Spec => []IInv
<1>1. Init => IInv
  BY InitIInv
<1>2. IInv /\ [Next]_vars => IInv'
  BY NextIInv
<1>3. QED
  BY <1>1, <1>2, PTL DEF Spec

(* Rows, tokens and requests keep their types. *)
THEOREM TenancyTypes == Spec => []TypeOK
<1>1. IInv => TypeOK
  BY DEF IInv
<1>2. QED
  BY <1>1, TenancyInvariant, PTL

(* No school is open, or can be reactivated, before it has been approved,  *)
(* whatever transitions race.                                              *)
THEOREM OpenWasApprovedHolds == Spec => []OpenWasApproved
<1>1. IInv => OpenWasApproved
  BY DEF IInv
<1>2. QED
  BY <1>1, TenancyInvariant, PTL

(* Nobody holds a token of a school that has never been approved. *)
THEOREM TokensNeedApprovalHolds == Spec => []TokensNeedApproval
<1>1. IInv => TokensNeedApproval
  BY DEF IInv
<1>2. QED
  BY <1>1, TenancyInvariant, PTL

(* Rights that an account has lost end AccessTTL after the loss. *)
THEOREM StaleRightsExpireHolds == Spec => []StaleRightsExpire
<1>1. IInv => StaleRightsExpire
  BY DEF IInv
<1>2. QED
  BY <1>1, TenancyInvariant, PTL

-----------------------------------------------------------------------------
(* Accounts change only by the hands of admins of their school, by         *)
(* librarians who create readers, and by the registration of a school.     *)
ByAdmins(u) ==
    \/ /\ account[u].status = "none"
       /\ school[SchoolOf[u]].status = "none" /\ u = FirstAdmin[SchoolOf[u]]
    \/ \E p \in Procs :
         /\ req[p].step = "handle" /\ req'[p].step = "idle"
         /\ SchoolOf[req[p].user] = SchoolOf[u]
         /\ \/ req[p].role = "admin"
            \/ /\ req[p].role = "librarian" /\ account[u].status = "none"
               /\ account'[u].role \notin Staff

(* Every step that changes an account is one of these. *)
LEMMA StepByAdmins ==
    ASSUME IInv, [Next]_vars, NEW u \in People, account'[u] # account[u]
    PROVE  ByAdmins(u)
<1>1. ASSUME NEW p \in Procs, UpdateUser(p) PROVE ByAdmins(u)
  <2>1. PICK v \in People, row \in Patches :
          SchoolOf[v] = req[p].school /\ SetAccount(v, row)
    BY <1>1 DEF UpdateUser
  <2>2. v = u
    BY <2>1 DEF SetAccount, IInv, TypeOK
  <2>3. SchoolOf[req[p].user] = req[p].school /\ req[p].role = "admin"
    BY <1>1 DEF IInv, RequestOK, HandlerOK, UpdateUser, MayCall
  <2>4. req[p].step = "handle" /\ req'[p].step = "idle"
    BY <1>1 DEF UpdateUser, End, Idle, IInv, TypeOK
  <2>5. QED
    BY <2>1, <2>2, <2>3, <2>4 DEF ByAdmins
<1>2. ASSUME NEW p \in Procs, CreateUser(p) PROVE ByAdmins(u)
  <2>1. PICK v \in People, r \in MayCreate(req[p].role) :
          /\ SchoolOf[v] = req[p].school /\ account[v].status = "none"
          /\ SetAccount(v, [status |-> "active", role |-> r])
    BY <1>2 DEF CreateUser
  <2>2. v = u
    BY <2>1 DEF SetAccount, IInv, TypeOK
  <2>3. account'[u].role = r
    BY <2>1, <2>2 DEF SetAccount, IInv, TypeOK
  <2>4. /\ SchoolOf[req[p].user] = req[p].school
        /\ req[p].role = "admin" \/ req[p].role = "librarian"
    BY <1>2 DEF IInv, RequestOK, HandlerOK, CreateUser, MayCall
  <2>5. req[p].role = "librarian" => r \notin Staff
    BY <2>1 DEF MayCreate, Staff
  <2>6. req[p].step = "handle" /\ req'[p].step = "idle"
    BY <1>2 DEF CreateUser, End, Idle, IInv, TypeOK
  <2>7. QED
    BY <2>1, <2>2, <2>3, <2>4, <2>5, <2>6 DEF ByAdmins
<1>3. ASSUME NEW s \in Schools, RegisterSchool(s) PROVE ByAdmins(u)
  <2>1. u = FirstAdmin[s]
    BY <1>3 DEF RegisterSchool, SetAccount, IInv, TypeOK
  <2>2. SchoolOf[u] = s /\ school[s].status = "none"
    BY <1>3, <2>1, TenancyAssumption DEF RegisterSchool
  <2>3. account[u].status = "none"
    BY <2>2 DEF IInv, FreeSlugs
  <2>4. QED
    BY <2>1, <2>2, <2>3 DEF ByAdmins
<1>4. ASSUME NEW p \in Procs, Arrive(p) PROVE account' = account
  BY <1>4 DEF Arrive, SuperLogin, Login, Refresh, Admit, AdmitSuper, Begin
<1>5. ASSUME NEW p \in Procs,
             ReadUser(p) \/ IssueTokens(p) \/ HandlerRefuses(p) \/ CheckStatus(p) \/ WriteStatus(p)
      PROVE  account' = account
  BY <1>5 DEF ReadUser, IssueTokens, HandlerRefuses, CheckStatus, WriteStatus
<1>6. Tick \/ UNCHANGED vars => account' = account
  BY DEF Tick, vars
<1>7. ASSUME NEW s \in Schools, NEW t \in tokens, Logout(s, t) PROVE account' = account
  BY <1>7 DEF Logout
<1>8. QED
  BY <1>1, <1>2, <1>3, <1>4, <1>5, <1>6, <1>7 DEF Next, Proceed

(* For every account and every step: nobody but an admin of the school, a   *)
(* librarian creating readers, or the registration changes it.             *)
THEOREM RightsComeFromAdminsHolds == Spec => RightsComeFromAdmins
<1>1. ASSUME IInv, [Next]_vars
      PROVE  [\A u \in People : account'[u] # account[u] => ByAdmins(u)]_vars
  BY <1>1, StepByAdmins
<1>2. RightsComeFromAdmins
        <=> [][\A u \in People : account'[u] # account[u] => ByAdmins(u)]_vars
  BY DEF RightsComeFromAdmins, ByAdmins
<1>3. QED
  BY <1>1, <1>2, TenancyInvariant, PTL DEF Spec
=============================================================================
