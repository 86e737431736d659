------------------------ MODULE ClientSessionProofs ------------------------
(* What the properties of ClientSession rest on, for any tabs, schools and *)
(* accounts: an invariant of each request and of each tab, kept by every   *)
(* step, whatever the other tabs do to the storage they share.             *)
EXTENDS ClientSession, TLAPS

\* A request of a page of site s.
CallOK(s, c) ==
  /\ c.at # "free" => s \in Sites
  /\ c.at # "free" /\ c.kind \in {"me", "logout"} => s \in Schools
  /\ c.done <= 1
  /\ c.at \in {"sent", "waiting"} \/ c.heard = "401" => c.done = 0
  /\ c.at = "answered" /\ c.heard = "ok" /\ c.kind \in {"me", "login"} => c.grant # None /\ HomeOf[c.grant] = s
  /\ c.tries = 2 => c.kind \in {"me", "work"} /\ c.heard # "403"
  /\ c.tries = 2 /\ c.at = "sent" => c.bearer # None /\ HomeOf[c.bearer] = s
  /\ c.at = "waiting" => c.kind \in {"me", "work"} /\ c.heard = "401" /\ c.tries = 1 /\ s \in Schools

\* A tab: nothing goes on before it has a page, and what it has heard of
\* accounts is about the site of the page.
TabOK(t) ==
  /\ screen[t] # "none" \/ chores[t] # <<>> => at[t] \in Sites
  /\ user[t] # None => HomeOf[user[t]] = at[t]
  /\ saved[t] # None => HomeOf[saved[t]] = Root
  /\ fetching[t].at # "idle" => at[t] \in Schools
  /\ fetching[t].grant # None => HomeOf[fetching[t].grant] = at[t]
  /\ loading[t] => Pending(t, "me")
  /\ \A k \in Slots : calls[t][k].at = "waiting" => fetching[t].at # "idle"
  /\ \A k \in Slots : CallOK(at[t], calls[t][k])

CookiesOK == \A s \in Schools : refresh[s] # None => HomeOf[refresh[s]] = s

Inv == TypeOK /\ CookiesOK /\ \A t \in Tabs : TabOK(t)

\* What a step of tab t leaves of the others.
Elsewhere(t) ==
  \A u \in Tabs \ {t} : /\ at'[u] = at[u] /\ screen'[u] = screen[u] /\ chores'[u] = chores[u]
                        /\ user'[u] = user[u] /\ saved'[u] = saved[u] /\ loading'[u] = loading[u]
                        /\ fetching'[u] = fetching[u] /\ calls'[u] = calls[u]
-----------------------------------------------------------------------------
\* Tabs that a step does not touch keep their invariant.
LEMMA OthersKeep ==
  ASSUME NEW t \in Tabs, \A u \in Tabs : TabOK(u), Elsewhere(t)
  PROVE  \A u \in Tabs \ {t} : TabOK(u)'
<1> SUFFICES ASSUME NEW u \in Tabs \ {t} PROVE TabOK(u)'
  OBVIOUS
<1>1. TabOK(u)
  OBVIOUS
<1> QED BY <1>1 DEF TabOK, Elsewhere, Pending, Busy

\* A step that keeps the types, the cookies and the tab it is of.
LEMMA TabStepKeeps ==
  ASSUME NEW t \in Tabs, Inv, TypeOK', CookiesOK', Elsewhere(t), TabOK(t)'
  PROVE  Inv'
BY OthersKeep DEF Inv

\* One request of one tab changes.
LEMMA OneCall ==
  ASSUME TypeOK, NEW t \in Tabs, NEW k \in Slots, NEW c \in CallType, calls' = [calls EXCEPT ![t][k] = c]
  PROVE  /\ calls' \in [Tabs -> [Slots -> CallType]]
         /\ calls'[t][k] = c
         /\ \A j \in Slots \ {k} : calls'[t][j] = calls[t][j]
         /\ \A u \in Tabs \ {t} : calls'[u] = calls[u]
BY DEF TypeOK

\* What a browser has stored is an account or nothing.
LEMMA TokenType ==
  ASSUME TypeOK, NEW s
  PROVE  GetToken(s) \in Account
BY DEF TypeOK, GetToken, Account

LEMMA FreeCallType == FreeCall \in CallType /\ \A s : CallOK(s, FreeCall)
<1>1. FreeCall \in CallType
  BY DEF FreeCall, CallType, Account
<1>2. ASSUME NEW s PROVE CallOK(s, FreeCall)
  BY DEF FreeCall, CallOK
<1> QED BY <1>1, <1>2

LEMMA NewCallType ==
  ASSUME NEW kind \in {"me", "login", "logout", "work"}, NEW b \in Account, NEW s \in Sites,
         kind \in {"me", "logout"} => s \in Schools
  PROVE  NewCall(kind, b) \in CallType /\ CallOK(s, NewCall(kind, b)) /\ NewCall(kind, b).at = "sent"
         /\ NewCall(kind, b).kind = kind
<1>1. NewCall(kind, b) \in CallType
  BY DEF NewCall, CallType, Account
<1>2. CallOK(s, NewCall(kind, b))
  BY DEF NewCall, CallOK
<1> QED BY <1>1, <1>2 DEF NewCall
-----------------------------------------------------------------------------
\* A request takes a new value that fits its page, and nothing else of its
\* tab changes.
LEMMA CallStep ==
  ASSUME Inv, NEW t \in Tabs, NEW k \in Slots, NEW c \in CallType,
         calls' = [calls EXCEPT ![t][k] = c], CallOK(at[t], c), c.at # "waiting",
         calls[t][k].kind = "me" /\ calls[t][k].at # "free" => c.kind = "me" /\ c.at # "free",
         UNCHANGED <<pages, chores, fetching>>
  PROVE  calls' \in [Tabs -> [Slots -> CallType]] /\ TabOK(t)' /\ Elsewhere(t)
<1>1. /\ calls' \in [Tabs -> [Slots -> CallType]]
      /\ calls'[t][k] = c
      /\ \A j \in Slots \ {k} : calls'[t][j] = calls[t][j]
      /\ \A u \in Tabs \ {t} : calls'[u] = calls[u]
  <2>1. TypeOK
    BY DEF Inv
  <2> QED BY <2>1, OneCall
<1>2. TabOK(t)
  BY DEF Inv
<1>3. Elsewhere(t)
  BY <1>1 DEF Elsewhere, pages
<1>4. loading[t] => Pending(t, "me")'
  <2> SUFFICES ASSUME loading[t] PROVE Pending(t, "me")'
    OBVIOUS
  <2>1. PICK j \in Slots : calls[t][j].at # "free" /\ calls[t][j].kind = "me"
    BY <1>2 DEF TabOK, Pending, Busy
  <2>2. calls'[t][j].at # "free" /\ calls'[t][j].kind = "me"
    BY <1>1, <2>1
  <2> QED BY <2>2 DEF Pending, Busy
<1>5. \A j \in Slots : calls'[t][j].at = "waiting" => fetching[t].at # "idle"
  BY <1>1, <1>2 DEF TabOK
<1>6. \A j \in Slots : CallOK(at[t], calls'[t][j])
  BY <1>1, <1>2 DEF TabOK
<1>7. TabOK(t)'
  BY <1>2, <1>4, <1>5, <1>6 DEF TabOK, pages
<1> QED BY <1>1, <1>3, <1>7

\* A request is started.
LEMMA StartKeeps ==
  ASSUME Inv, NEW t \in Tabs, NEW kind \in {"login", "work", "logout"}, at[t] \in Sites,
         kind = "logout" => at[t] \in Schools,
         Start(t, kind), UNCHANGED <<within, storage, pages, chores, fetching>>
  PROVE  Inv'
<1>1. TypeOK /\ None \in Account
  BY DEF Inv, Account
<1>2. PICK k \in Slots :
        /\ FirstFree(t, k)
        /\ calls' = [calls EXCEPT ![t][k] = NewCall(kind, IF kind = "login" THEN None ELSE GetToken(at[t]))]
  BY DEF Start
<1> DEFINE b == IF kind = "login" THEN None ELSE GetToken(at[t])
<1>3. b \in Account
  BY <1>1, TokenType
<1>4. /\ NewCall(kind, b) \in CallType /\ CallOK(at[t], NewCall(kind, b))
      /\ NewCall(kind, b).at = "sent"
  BY <1>3, NewCallType
<1>5. calls[t][k].at = "free"
  BY <1>2 DEF FirstFree, Busy
<1>6. calls' \in [Tabs -> [Slots -> CallType]] /\ TabOK(t)' /\ Elsewhere(t)
  <2> HIDE DEF b
  <2>1. calls' = [calls EXCEPT ![t][k] = NewCall(kind, b)]
    BY <1>2 DEF b
  <2> QED BY <2>1, <1>4, <1>5, CallStep
<1>7. TypeOK'
  BY <1>1, <1>6 DEF TypeOK, storage, pages
<1>8. CookiesOK'
  BY DEF Inv, CookiesOK, storage
<1> QED BY <1>6, <1>7, <1>8, TabStepKeeps

\* A request is answered, or comes back without an answer.
LEMMA AnsweredCall ==
  ASSUME NEW s, NEW c \in CallType, CallOK(s, c), c.at = "sent",
         NEW heard \in {"ok", "401", "403", "lost"}, NEW grant \in Account, NEW n \in {0, 1},
         heard = "ok" /\ c.kind \in {"me", "login"} => grant # None /\ HomeOf[grant] = s,
         heard = "403" => c.tries # 2,
         heard = "401" => n = 0
  PROVE  /\ Answered(c, heard, grant, n) \in CallType /\ CallOK(s, Answered(c, heard, grant, n))
         /\ Answered(c, heard, grant, n).at = "answered" /\ Answered(c, heard, grant, n).kind = c.kind
<1>1. c.done = 0
  BY DEF CallOK
<1>2. Answered(c, heard, grant, n) \in CallType
  BY <1>1 DEF CallType, Account, Answered
<1>3. CallOK(s, Answered(c, heard, grant, n))
  BY <1>1 DEF CallOK, Answered
<1> QED BY <1>2, <1>3 DEF Answered

LEMMA ServeKeeps ==
  ASSUME Inv, NEW t \in Tabs, NEW k \in Slots, Serve(t, k)
  PROVE  Inv'
<1> DEFINE c == calls[t][k]
           s == at[t]
<1>1. TypeOK /\ TabOK(t) /\ None \in Account /\ c \in CallType /\ CallOK(s, c) /\ c.at = "sent"
  BY DEF Inv, Account, TypeOK, TabOK, Serve
<1>2. UNCHANGED <<within, token, slug, rootToken, cookie, rootCookie, pages, chores, fetching>>
  BY DEF Serve
<1>3. SUFFICES ASSUME NEW heard \in {"ok", "401", "403", "lost"}, NEW grant \in Account,
                      Answer(t, k, heard, grant),
                      heard = "ok" /\ c.kind \in {"me", "login"} => grant # None /\ HomeOf[grant] = s,
                      heard = "403" => c.tries # 2,
                      refresh' \in [Schools -> Account] /\ CookiesOK'
               PROVE  Inv'
  <2>1. CASE c.kind = "login"
    <3>1. CASE Answer(t, k, "403", None) /\ UNCHANGED refresh
      <4>1. refresh' \in [Schools -> Account] /\ CookiesOK'
        BY <3>1, <1>1 DEF TypeOK, CookiesOK, Inv
      <4>2. c.tries # 2
        BY <2>1, <1>1 DEF CallOK
      <4> QED BY <4>1, <4>2, <3>1, <1>1, <1>3
    <3>2. CASE \E p \in People : /\ HomeOf[p] = s
                                 /\ Answer(t, k, "ok", p)
                                 /\ refresh' = IF s = Root THEN refresh ELSE [refresh EXCEPT ![s] = p]
      <4>1. PICK p \in People : /\ HomeOf[p] = s
                                /\ Answer(t, k, "ok", p)
                                /\ refresh' = IF s = Root THEN refresh ELSE [refresh EXCEPT ![s] = p]
        BY <3>2
      <4>2. p \in Account /\ p # None /\ s \in Sites
        BY <1>1, SessionAssumption DEF Account, CallOK
      <4>3. refresh' \in [Schools -> Account] /\ CookiesOK'
        BY <4>1, <4>2, <1>1 DEF TypeOK, CookiesOK, Inv, Sites
      <4> QED BY <4>1, <4>2, <4>3, <1>3
    <3> QED BY <2>1, <3>1, <3>2 DEF Serve
  <2>2. CASE c.kind = "logout"
    <3>1. Answer(t, k, "ok", None) /\ refresh' = [refresh EXCEPT ![s] = None]
      BY <2>2 DEF Serve
    <3>2. refresh' \in [Schools -> Account] /\ CookiesOK'
      BY <3>1, <1>1 DEF TypeOK, CookiesOK, Inv
    <3> QED BY <3>1, <3>2, <2>2, <1>1, <1>3
  <2>3. CASE c.kind \notin {"login", "logout"}
    <3>1. PICK v \in Verdicts(s, c.bearer) : Answer(t, k, v, IF v = "ok" /\ c.kind = "me" THEN c.bearer ELSE None)
      BY <2>3 DEF Serve
    <3>2. refresh' \in [Schools -> Account] /\ CookiesOK'
      <4>1. UNCHANGED refresh
        BY <2>3 DEF Serve
      <4> QED BY <4>1, <1>1 DEF TypeOK, CookiesOK, Inv
    <3>3. c.bearer \in Account
      BY <1>1 DEF CallType
    <3>4. /\ v \in {"ok", "401", "403", "lost"}
          /\ v = "ok" => c.bearer # None /\ HomeOf[c.bearer] = s
          /\ v = "403" => HomeOf[c.bearer] # s
      BY <3>1 DEF Verdicts
    <3>5. v = "403" => c.tries # 2
      BY <3>4, <1>1 DEF CallOK
    <3>6. c.kind # "login"
      BY <2>3
    <3> QED BY <3>1, <3>2, <3>3, <3>4, <3>5, <3>6, <1>1, <1>3
  <2> QED BY <2>1, <2>2, <2>3
<1>4. PICK n \in {0, 1} : n = IF heard = "ok" THEN 1 ELSE 0
  OBVIOUS
<1> DEFINE d == Answered(c, heard, grant, n)
<1>5. calls' = [calls EXCEPT ![t][k] = d]
  BY <1>3, <1>4 DEF Answer
<1>6. d \in CallType /\ CallOK(s, d) /\ d.at = "answered" /\ d.kind = c.kind
  <2>1. heard = "401" => n = 0
    BY <1>4
  <2> HIDE DEF c
  <2> QED BY <1>1, <1>3, <2>1, AnsweredCall DEF c
<1>7. calls' \in [Tabs -> [Slots -> CallType]] /\ TabOK(t)' /\ Elsewhere(t)
  <2> HIDE DEF d
  <2> QED BY <1>2, <1>5, <1>6, CallStep
<1>8. TypeOK'
  BY <1>1, <1>2, <1>3, <1>7 DEF TypeOK, pages
<1> QED BY <1>3, <1>7, <1>8, TabStepKeeps

LEMMA LoseKeeps ==
  ASSUME Inv, NEW t \in Tabs, NEW k \in Slots, Lose(t, k)
  PROVE  Inv'
<1> DEFINE c == calls[t][k]
           s == at[t]
<1>1. TypeOK /\ TabOK(t) /\ None \in Account /\ c \in CallType /\ CallOK(s, c) /\ c.at = "sent"
  BY DEF Inv, Account, TypeOK, TabOK, Lose
<1>2. UNCHANGED <<within, storage, pages, chores, fetching>>
  BY DEF Lose
<1>3. PICK n \in {0, 1} : calls' = [calls EXCEPT ![t][k] = Answered(c, "lost", None, n)]
  BY DEF Lose
<1> DEFINE d == Answered(c, "lost", None, n)
<1>4. d \in CallType /\ CallOK(s, d) /\ d.at = "answered" /\ d.kind = c.kind
  <2> HIDE DEF c
  <2> QED BY <1>1, AnsweredCall DEF c
<1>5. calls' \in [Tabs -> [Slots -> CallType]] /\ TabOK(t)' /\ Elsewhere(t)
  <2> HIDE DEF d
  <2>1. calls' = [calls EXCEPT ![t][k] = d]
    BY <1>3 DEF d
  <2> QED BY <1>2, <1>4, <2>1, CallStep
<1>6. TypeOK'
  BY <1>1, <1>2, <1>5 DEF TypeOK, storage, pages
<1>7. CookiesOK'
  BY <1>2 DEF Inv, CookiesOK, storage
<1> QED BY <1>5, <1>6, <1>7, TabStepKeeps

LEMMA ShownKeeps ==
  ASSUME Inv, NEW t \in Tabs, NEW k \in Slots, Shown(t, k)
  PROVE  Inv'
<1>1. TypeOK
  BY DEF Inv
<1>2. /\ calls' = [calls EXCEPT ![t][k] = FreeCall]
      /\ calls[t][k].kind # "me"
      /\ UNCHANGED <<within, storage, pages, chores, fetching>>
  BY DEF Shown, Drop
<1>3. FreeCall.at = "free"
  BY DEF FreeCall
<1>4. calls' \in [Tabs -> [Slots -> CallType]] /\ TabOK(t)' /\ Elsewhere(t)
  BY <1>2, <1>3, FreeCallType, CallStep
<1>5. TypeOK'
  BY <1>1, <1>2, <1>4 DEF TypeOK, storage, pages
<1>6. CookiesOK'
  BY <1>2 DEF Inv, CookiesOK, storage
<1> QED BY <1>4, <1>5, <1>6, TabStepKeeps

\* The three starts.
LEMMA SubmitLoginKeeps ==
  ASSUME Inv, NEW t \in Tabs, SubmitLogin(t)
  PROVE  Inv'
<1>1. at[t] \in Sites
  BY DEF Inv, TabOK, SubmitLogin
<1> QED BY <1>1, StartKeeps DEF SubmitLogin

LEMMA WorkKeeps ==
  ASSUME Inv, NEW t \in Tabs, Work(t)
  PROVE  Inv'
<1>1. at[t] \in Sites
  BY DEF Inv, TabOK, Work, Shell
<1> QED BY <1>1, StartKeeps DEF Work

LEMMA LogoutKeeps ==
  ASSUME Inv, NEW t \in Tabs, Logout(t)
  PROVE  Inv'
<1>1. at[t] \in Sites /\ at[t] # Root
  BY DEF Inv, TabOK, Logout, Shell
<1>2. at[t] \in Schools
  BY <1>1 DEF Sites
<1> QED BY <1>1, <1>2, StartKeeps DEF Logout

\* A page is loaded: it starts with at most a /me of its own.
LEMMA FullLoadKeeps ==
  ASSUME Inv, NEW t \in Tabs, NEW s \in Sites, FullLoad(t, s),
         UNCHANGED <<within, token, slug, rootToken, refresh, saved>>,
         chores' \in [Tabs -> Seq(ChoreType)],
         \A u \in Tabs \ {t} : chores'[u] = chores[u],
         cookie' \in Schools \cup {None}, rootCookie' \in {Root, None}
  PROVE  Inv'
<1> DEFINE known == s # Root /\ GetToken(s) # None
           fresh == [k \in Slots |-> IF known /\ k = 1 THEN NewCall("me", GetToken(s)) ELSE FreeCall]
<1>1. TypeOK /\ TabOK(t) /\ None \in Account
  BY DEF Inv, Account
<1>2. GetToken(s) \in Account
  BY <1>1, TokenType
<1>3. \A k \in Slots : fresh[k] \in CallType /\ CallOK(s, fresh[k]) /\ fresh[k].at # "waiting"
  <2> SUFFICES ASSUME NEW k \in Slots PROVE fresh[k] \in CallType /\ CallOK(s, fresh[k]) /\ fresh[k].at # "waiting"
    OBVIOUS
  <2>1. CASE known /\ k = 1
    <3>1. s \in Schools
      BY <2>1 DEF Sites
    <3>2. fresh[k] = NewCall("me", GetToken(s))
      BY <2>1
    <3>3. NewCall("me", GetToken(s)) \in CallType /\ CallOK(s, NewCall("me", GetToken(s))) /\ NewCall("me", GetToken(s)).at = "sent"
      BY <3>1, <1>2, NewCallType
    <3> QED BY <3>2, <3>3
  <2>2. CASE ~(known /\ k = 1)
    <3>1. fresh[k] = FreeCall
      BY <2>2
    <3> QED BY <3>1, FreeCallType DEF FreeCall
  <2> QED BY <2>1, <2>2
<1>4. calls' = [calls EXCEPT ![t] = fresh]
  BY DEF FullLoad
<1>5. calls'[t] = fresh /\ calls' \in [Tabs -> [Slots -> CallType]] /\ \A u \in Tabs \ {t} : calls'[u] = calls[u]
  <2> HIDE DEF known
  <2>1. fresh \in [Slots -> CallType]
    BY <1>3
  <2> HIDE DEF fresh
  <2> QED BY <2>1, <1>1, <1>4 DEF TypeOK
<1>6. at' = [at EXCEPT ![t] = s] /\ fetching' = [fetching EXCEPT ![t] = NoFetch] /\ loading' = [loading EXCEPT ![t] = known]
      /\ screen' = [screen EXCEPT ![t] = Gate(s)] /\ bounced' = [bounced EXCEPT ![t] = FALSE]
      /\ user' = [user EXCEPT ![t] = IF s = Root /\ rootToken # None THEN saved[t] ELSE None]
  BY DEF FullLoad
<1>7. TypeOK'
  <2>1. s \in Sites \cup {None} /\ Gate(s) \in {"none", "app", "login"} /\ known \in BOOLEAN
    BY DEF Gate
  <2>2. NoFetch \in [at : {"idle", "sent", "answered"}, grant : Account]
    BY <1>1 DEF NoFetch
  <2>3. (IF s = Root /\ rootToken # None THEN saved[t] ELSE None) \in Account
    BY <1>1 DEF TypeOK
  <2> HIDE DEF known, fresh
  <2> QED BY <1>1, <1>5, <1>6, <2>1, <2>2, <2>3 DEF TypeOK
<1>8. Elsewhere(t)
  <2> HIDE DEF known, fresh
  <2> QED BY <1>1, <1>5, <1>6 DEF Elsewhere, TypeOK
<1>9. TabOK(t)'
  <2>1. at'[t] = s /\ fetching'[t] = NoFetch /\ loading'[t] = known
        /\ user'[t] = (IF s = Root /\ rootToken # None THEN saved[t] ELSE None) /\ saved'[t] = saved[t]
    <3> HIDE DEF known, fresh
    <3> QED BY <1>1, <1>6 DEF TypeOK
  <2>2. loading'[t] => Pending(t, "me")'
    <3> SUFFICES ASSUME known PROVE Pending(t, "me")'
      BY <2>1
    <3>1. 1 \in Slots /\ fresh[1] = NewCall("me", GetToken(s))
      BY SessionAssumption DEF Slots
    <3>2. calls'[t][1].at = "sent" /\ calls'[t][1].kind = "me"
      BY <3>1, <1>5 DEF NewCall
    <3> QED BY <3>1, <3>2 DEF Pending, Busy
  <2>3. \A k \in Slots : CallOK(at'[t], calls'[t][k]) /\ calls'[t][k].at # "waiting"
    <3> HIDE DEF known
    <3> QED BY <1>3, <1>5, <2>1
  <2>4. user'[t] # None => HomeOf[user'[t]] = at'[t]
    BY <1>1, <2>1 DEF TabOK
  <2>5. saved'[t] # None => HomeOf[saved'[t]] = Root
    BY <1>1, <2>1 DEF TabOK
  <2>6. fetching'[t].at = "idle" /\ fetching'[t].grant = None
    BY <2>1 DEF NoFetch
  <2> HIDE DEF known, fresh
  <2> QED BY <2>1, <2>2, <2>3, <2>4, <2>5, <2>6 DEF TabOK
<1>10. CookiesOK'
  BY DEF Inv, CookiesOK
<1> QED BY <1>7, <1>8, <1>9, <1>10, TabStepKeeps

LEMMA VisitKeeps ==
  ASSUME Inv, NEW t \in Tabs, NEW s \in Sites, Visit(t, s)
  PROVE  Inv'
<1>1. TypeOK
  BY DEF Inv
<1>2. FullLoad(t, s) /\ UNCHANGED <<within, storage, saved, chores>>
  BY DEF Visit
<1> QED BY <1>1, <1>2, FullLoadKeeps DEF TypeOK, storage

LEMMA RedirectKeeps ==
  ASSUME Inv, NEW t \in Tabs, Redirect(t)
  PROVE  Inv'
<1>1. TypeOK /\ TabOK(t)
  BY DEF Inv
<1>2. /\ screen' = [screen EXCEPT ![t] = Gate(at[t])]
      /\ bounced' = [bounced EXCEPT ![t] = Gate(at[t]) = "app"]
      /\ UNCHANGED <<within, storage, saved, at, user, loading, chores, calls, fetching>>
      /\ screen[t] = "app"
  BY DEF Redirect
<1>3. TypeOK'
  <2>1. Gate(at[t]) \in {"none", "app", "login"}
    BY DEF Gate
  <2> QED BY <1>1, <1>2, <2>1 DEF TypeOK, storage
<1>4. Elsewhere(t)
  BY <1>1, <1>2 DEF Elsewhere, TypeOK
<1>5. TabOK(t)'
  BY <1>1, <1>2 DEF TabOK, Pending, Busy
<1>6. CookiesOK'
  BY <1>2 DEF Inv, CookiesOK, storage
<1> QED BY <1>3, <1>4, <1>5, <1>6, TabStepKeeps

\* What a script may leave to do.
LEMMA ChoreTypes ==
  /\ \A s \in Schools \cup {None} : Chore("slug", s) \in ChoreType /\ Chore("cookie", s) \in ChoreType
  /\ \A s \in {Root, None} : Chore("rootCookie", s) \in ChoreType
  /\ \A w \in {"go", "load", "resume"} : Chore(w, None) \in ChoreType
BY DEF Chore, ChoreType

LEMMA RootLogoutKeeps ==
  ASSUME Inv, NEW t \in Tabs, RootLogout(t)
  PROVE  Inv'
<1>1. TypeOK /\ TabOK(t) /\ None \in Account
  BY DEF Inv, Account
<1> DEFINE left == <<Chore("rootCookie", None), Chore("load", None)>>
<1>2. /\ rootToken' = None /\ chores' = [chores EXCEPT ![t] = left]
      /\ saved' = [saved EXCEPT ![t] = None] /\ user' = [user EXCEPT ![t] = None]
      /\ UNCHANGED <<within, token, slug, cookie, rootCookie, refresh, at, screen, loading, bounced, calls, fetching>>
      /\ at[t] \in Sites
  BY <1>1 DEF RootLogout, Shell, TabOK
<1>3. TypeOK'
  <2>1. left \in Seq(ChoreType)
    BY ChoreTypes
  <2> HIDE DEF left
  <2> QED BY <1>1, <1>2, <2>1 DEF TypeOK
<1>4. Elsewhere(t)
  <2> HIDE DEF left
  <2> QED BY <1>1, <1>2 DEF Elsewhere, TypeOK
<1>5. TabOK(t)'
  <2>1. user'[t] = None /\ saved'[t] = None
    BY <1>1, <1>2 DEF TypeOK
  <2> HIDE DEF left
  <2> QED BY <1>1, <1>2, <2>1 DEF TabOK, Pending, Busy
<1>6. CookiesOK'
  BY <1>2 DEF Inv, CookiesOK
<1> QED BY <1>3, <1>4, <1>5, <1>6, TabStepKeeps

LEMMA CookieLapsesKeeps ==
  ASSUME Inv, CookieLapses
  PROVE  Inv'
<1>1. cookie' = None /\ rootCookie' = None
      /\ UNCHANGED <<within, token, slug, rootToken, refresh, pages, chores, calls, fetching>>
  BY DEF CookieLapses
<1>2. TypeOK'
  BY <1>1 DEF Inv, TypeOK, pages
<1>3. CookiesOK'
  BY <1>1 DEF Inv, CookiesOK
<1>4. \A t \in Tabs : TabOK(t)'
  BY <1>1 DEF Inv, TabOK, pages, Pending, Busy
<1> QED BY <1>2, <1>3, <1>4 DEF Inv
-----------------------------------------------------------------------------
LEMMA AwaitRefreshKeeps ==
  ASSUME Inv, NEW t \in Tabs, NEW k \in Slots, AwaitRefresh(t, k)
  PROVE  Inv'
<1> DEFINE c == calls[t][k]
           d == [c EXCEPT !.at = "waiting"]
<1>1. TypeOK /\ TabOK(t) /\ c \in CallType /\ CallOK(at[t], c) /\ None \in Account
  BY DEF Inv, TypeOK, TabOK, Account
<1>2. /\ c.at = "answered" /\ c.heard = "401" /\ c.kind \in {"me", "work"} /\ at[t] # Root /\ c.tries = 1
      /\ calls' = [calls EXCEPT ![t][k] = d]
      /\ fetching' = IF fetching[t].at = "idle" THEN [fetching EXCEPT ![t].at = "sent"] ELSE fetching
      /\ UNCHANGED <<within, storage, pages, chores>>
  BY DEF AwaitRefresh, Refreshable
<1>3. at[t] \in Schools
  BY <1>1, <1>2 DEF CallOK, Sites
<1>4. d \in CallType /\ d.at = "waiting" /\ d.kind = c.kind /\ CallOK(at[t], d)
  BY <1>1, <1>2, <1>3 DEF CallType, CallOK
<1>5. /\ calls' \in [Tabs -> [Slots -> CallType]]
      /\ calls'[t][k] = d
      /\ \A j \in Slots \ {k} : calls'[t][j] = calls[t][j]
      /\ \A u \in Tabs \ {t} : calls'[u] = calls[u]
  <2> HIDE DEF d
  <2> QED BY <1>1, <1>2, <1>4, OneCall
<1>6. /\ fetching' \in [Tabs -> [at : {"idle", "sent", "answered"}, grant : Account]]
      /\ fetching'[t].at # "idle" /\ fetching'[t].grant = fetching[t].grant
      /\ \A u \in Tabs \ {t} : fetching'[u] = fetching[u]
  BY <1>1, <1>2 DEF TypeOK
<1>7. TypeOK'
  <2> HIDE DEF d
  <2> QED BY <1>1, <1>2, <1>5, <1>6 DEF TypeOK, storage, pages
<1>8. Elsewhere(t)
  BY <1>2, <1>5, <1>6 DEF Elsewhere, pages
<1>9. TabOK(t)'
  <2>1. loading[t] => Pending(t, "me")'
    <3> SUFFICES ASSUME loading[t] PROVE Pending(t, "me")'
      OBVIOUS
    <3>1. PICK j \in Slots : calls[t][j].at # "free" /\ calls[t][j].kind = "me"
      BY <1>1 DEF TabOK, Pending, Busy
    <3>2. calls'[t][j].at # "free" /\ calls'[t][j].kind = "me"
      <4> HIDE DEF d
      <4> QED BY <1>4, <1>5, <3>1
    <3> QED BY <3>2 DEF Pending, Busy
  <2>2. \A j \in Slots : CallOK(at[t], calls'[t][j])
    <3> HIDE DEF d
    <3> QED BY <1>1, <1>4, <1>5 DEF TabOK
  <2> HIDE DEF c, d
  <2> QED BY <1>1, <1>2, <1>3, <1>6, <2>1, <2>2 DEF TabOK, pages
<1>10. CookiesOK'
  BY <1>2 DEF Inv, CookiesOK, storage
<1> QED BY <1>7, <1>8, <1>9, <1>10, TabStepKeeps

LEMMA ServeRefreshKeeps ==
  ASSUME Inv, NEW t \in Tabs, ServeRefresh(t)
  PROVE  Inv'
<1>1. TypeOK /\ TabOK(t) /\ None \in Account
  BY DEF Inv, Account
<1>2. PICK p \in {refresh[at[t]], None} : fetching' = [fetching EXCEPT ![t] = [at |-> "answered", grant |-> p]]
  BY DEF ServeRefresh
<1>3. fetching[t].at = "sent" /\ UNCHANGED <<within, storage, pages, chores, calls>>
  BY DEF ServeRefresh
<1>4. at[t] \in Schools
  BY <1>1, <1>3 DEF TabOK
<1>5. p \in Account /\ (p # None => HomeOf[p] = at[t])
  BY <1>1, <1>2, <1>4 DEF Inv, CookiesOK, TypeOK
<1>6. /\ fetching' \in [Tabs -> [at : {"idle", "sent", "answered"}, grant : Account]]
      /\ fetching'[t] = [at |-> "answered", grant |-> p]
      /\ \A u \in Tabs \ {t} : fetching'[u] = fetching[u]
  BY <1>1, <1>2, <1>5 DEF TypeOK
<1>7. TypeOK'
  BY <1>1, <1>3, <1>6 DEF TypeOK, storage, pages
<1>8. Elsewhere(t)
  BY <1>3, <1>6 DEF Elsewhere, pages
<1>9. TabOK(t)'
  BY <1>1, <1>3, <1>4, <1>5, <1>6 DEF TabOK, pages, Pending, Busy
<1>10. CookiesOK'
  BY <1>3 DEF Inv, CookiesOK, storage
<1> QED BY <1>7, <1>8, <1>9, <1>10, TabStepKeeps

\* A request that waited is sent with the token of its own site, or given up.
LEMMA ResumedCall ==
  ASSUME NEW s, NEW c \in CallType, CallOK(s, c), NEW g \in Account, g # None => HomeOf[g] = s, None \in Account
  PROVE  /\ Resumed(c, g) \in CallType /\ CallOK(s, Resumed(c, g)) /\ Resumed(c, g).at # "waiting"
         /\ Resumed(c, g).kind = c.kind /\ (Resumed(c, g).at = "free" => c.at = "free")
<1>1. CASE c.at # "waiting"
  BY <1>1 DEF Resumed
<1>2. CASE c.at = "waiting" /\ g = None
  <2> DEFINE d == [at |-> "answered", kind |-> c.kind, bearer |-> None, heard |-> c.heard, grant |-> None,
                   tries |-> 2, done |-> c.done]
  <2>1. Resumed(c, g) = d
    BY <1>2 DEF Resumed, GivenUp
  <2>2. d \in CallType
    BY DEF CallType
  <2>3. CallOK(s, d)
    BY <1>2 DEF CallOK
  <2> QED BY <2>1, <2>2, <2>3
<1>3. CASE c.at = "waiting" /\ g # None
  <2>1. Resumed(c, g) = Again(c, g)
    BY <1>3 DEF Resumed
  <2>2. Again(c, g) \in CallType
    BY DEF CallType, Again, Account
  <2>3. CallOK(s, Again(c, g))
    BY <1>3, SessionAssumption DEF CallOK, Again
  <2> QED BY <1>3, <2>1, <2>2, <2>3 DEF Again
<1> QED BY <1>1, <1>2, <1>3

LEMMA ResumeStep ==
  ASSUME Inv, NEW t \in Tabs, Resume(t), UNCHANGED pages, chores' \in [Tabs -> Seq(ChoreType)],
         \A u \in Tabs \ {t} : chores'[u] = chores[u], chores'[t] # <<>> => chores[t] # <<>>
  PROVE  /\ calls' \in [Tabs -> [Slots -> CallType]]
         /\ fetching' \in [Tabs -> [at : {"idle", "sent", "answered"}, grant : Account]]
         /\ Elsewhere(t) /\ TabOK(t)'
<1>1. TypeOK /\ TabOK(t) /\ None \in Account
  BY DEF Inv, Account
<1> DEFINE g == fetching[t].grant
           new == [k \in Slots |-> Resumed(calls[t][k], g)]
<1>2. calls' = [calls EXCEPT ![t] = new] /\ fetching' = [fetching EXCEPT ![t] = NoFetch]
  BY DEF Resume
<1>3. \A k \in Slots : /\ new[k] \in CallType /\ CallOK(at[t], new[k]) /\ new[k].at # "waiting"
                       /\ new[k].kind = calls[t][k].kind /\ (new[k].at = "free" => calls[t][k].at = "free")
  <2> SUFFICES ASSUME NEW k \in Slots
               PROVE  /\ new[k] \in CallType /\ CallOK(at[t], new[k]) /\ new[k].at # "waiting"
                      /\ new[k].kind = calls[t][k].kind /\ (new[k].at = "free" => calls[t][k].at = "free")
    OBVIOUS
  <2>1. calls[t][k] \in CallType /\ CallOK(at[t], calls[t][k])
    BY <1>1 DEF TypeOK, TabOK
  <2>2. g \in Account /\ (g # None => HomeOf[g] = at[t])
    BY <1>1 DEF TypeOK, TabOK
  <2>3. new[k] = Resumed(calls[t][k], g)
    OBVIOUS
  <2> HIDE DEF g, new
  <2> QED BY <1>1, <2>1, <2>2, <2>3, ResumedCall
<1>4. NoFetch \in [at : {"idle", "sent", "answered"}, grant : Account] /\ NoFetch.at = "idle" /\ NoFetch.grant = None
  BY <1>1 DEF NoFetch
<1>5. /\ calls' \in [Tabs -> [Slots -> CallType]] /\ calls'[t] = new
      /\ \A u \in Tabs \ {t} : calls'[u] = calls[u]
  <2>1. new \in [Slots -> CallType]
    BY <1>3
  <2> HIDE DEF new
  <2> QED BY <2>1, <1>1, <1>2 DEF TypeOK
<1>6. /\ fetching' \in [Tabs -> [at : {"idle", "sent", "answered"}, grant : Account]] /\ fetching'[t] = NoFetch
      /\ \A u \in Tabs \ {t} : fetching'[u] = fetching[u]
  BY <1>1, <1>2, <1>4 DEF TypeOK
<1>7. Elsewhere(t)
  BY <1>5, <1>6 DEF Elsewhere, pages
<1>8. loading[t] => Pending(t, "me")'
  <2> SUFFICES ASSUME loading[t] PROVE Pending(t, "me")'
    OBVIOUS
  <2>1. PICK j \in Slots : calls[t][j].at # "free" /\ calls[t][j].kind = "me"
    BY <1>1 DEF TabOK, Pending, Busy
  <2>2. calls'[t][j].at # "free" /\ calls'[t][j].kind = "me"
    <3> HIDE DEF new
    <3> QED BY <1>3, <1>5, <2>1
  <2> QED BY <2>2 DEF Pending, Busy
<1>9. \A k \in Slots : CallOK(at[t], calls'[t][k]) /\ calls'[t][k].at # "waiting"
  <2> HIDE DEF new
  <2> QED BY <1>3, <1>5
<1>10. TabOK(t)'
  <2> HIDE DEF new, g
  <2> QED BY <1>1, <1>4, <1>6, <1>8, <1>9 DEF TabOK, pages
<1> QED BY <1>5, <1>6, <1>7, <1>10

LEMMA RefreshedKeeps ==
  ASSUME Inv, NEW t \in Tabs, Refreshed(t)
  PROVE  Inv'
<1>1. TypeOK /\ TabOK(t)
  BY DEF Inv
<1>2. fetching[t].at = "answered" /\ UNCHANGED <<within, slug, rootToken, cookie, rootCookie, refresh, pages>>
  BY DEF Refreshed
<1>3. CookiesOK'
  BY <1>2 DEF Inv, CookiesOK
<1>4. CASE Resume(t) /\ UNCHANGED <<token, chores>>
  <2>1. chores' \in [Tabs -> Seq(ChoreType)]
    BY <1>4, <1>1 DEF TypeOK
  <2>2. /\ calls' \in [Tabs -> [Slots -> CallType]]
        /\ fetching' \in [Tabs -> [at : {"idle", "sent", "answered"}, grant : Account]]
        /\ Elsewhere(t) /\ TabOK(t)'
    BY <1>2, <1>4, <2>1, ResumeStep
  <2>3. TypeOK'
    BY <1>1, <1>2, <1>4, <2>2 DEF TypeOK, pages
  <2> QED BY <1>3, <2>2, <2>3, TabStepKeeps
<1>5. CASE /\ token' = fetching[t].grant
           /\ chores' = [chores EXCEPT ![t] = <<Chore("slug", at[t]), Chore("resume", None)>>]
           /\ UNCHANGED <<calls, fetching>>
  <2> DEFINE left == <<Chore("slug", at[t]), Chore("resume", None)>>
  <2>1. at[t] \in Schools
    BY <1>1, <1>2 DEF TabOK
  <2>2. left \in Seq(ChoreType)
    BY <2>1, ChoreTypes
  <2>3. TypeOK'
    <3>1. token' \in Account
      BY <1>1, <1>5 DEF TypeOK
    <3> HIDE DEF left
    <3>2. chores' = [chores EXCEPT ![t] = left]
      BY <1>5 DEF left
    <3>3. chores \in [Tabs -> Seq(ChoreType)]
      BY <1>1 DEF TypeOK
    <3>4. chores' \in [Tabs -> Seq(ChoreType)]
      BY <2>2, <3>2, <3>3
    <3> QED BY <1>1, <1>2, <1>5, <3>1, <3>4 DEF TypeOK, pages
  <2>4. Elsewhere(t)
    BY <1>1, <1>2, <1>5 DEF Elsewhere, TypeOK, pages
  <2>5. TabOK(t)'
    <3>1. at[t] \in Sites
      BY <2>1 DEF Sites
    <3> QED BY <1>1, <1>2, <1>5, <3>1 DEF TabOK, pages, Pending, Busy
  <2> QED BY <1>3, <2>3, <2>4, <2>5, TabStepKeeps
<1> QED BY <1>4, <1>5 DEF Refreshed
-----------------------------------------------------------------------------
\* A request is over: its slot is free, the other requests are as they were.
LEMMA DropStep ==
  ASSUME Inv, NEW t \in Tabs, NEW k \in Slots, Drop(t, k)
  PROVE  /\ calls' \in [Tabs -> [Slots -> CallType]]
         /\ \A u \in Tabs \ {t} : calls'[u] = calls[u]
         /\ \A j \in Slots : CallOK(at[t], calls'[t][j])
         /\ \A j \in Slots : calls'[t][j].at = "waiting" => fetching[t].at # "idle"
         /\ loading[t] /\ calls[t][k].kind # "me" => Pending(t, "me")'
<1>1. TypeOK /\ TabOK(t)
  BY DEF Inv
<1>2. /\ calls' \in [Tabs -> [Slots -> CallType]]
      /\ calls'[t][k] = FreeCall
      /\ \A j \in Slots \ {k} : calls'[t][j] = calls[t][j]
      /\ \A u \in Tabs \ {t} : calls'[u] = calls[u]
  BY <1>1, FreeCallType, OneCall DEF Drop
<1>3. \A j \in Slots : CallOK(at[t], calls'[t][j])
  BY <1>1, <1>2, FreeCallType DEF TabOK
<1>4. \A j \in Slots : calls'[t][j].at = "waiting" => fetching[t].at # "idle"
  BY <1>1, <1>2 DEF TabOK, FreeCall
<1>5. ASSUME loading[t], calls[t][k].kind # "me" PROVE Pending(t, "me")'
  <2>1. PICK j \in Slots : calls[t][j].at # "free" /\ calls[t][j].kind = "me"
    BY <1>1, <1>5 DEF TabOK, Pending, Busy
  <2>2. calls'[t][j] = calls[t][j]
    BY <1>2, <1>5, <2>1
  <2> QED BY <2>1, <2>2 DEF Pending, Busy
<1> QED BY <1>2, <1>3, <1>4, <1>5

LEMMA LoadUserKeeps ==
  ASSUME Inv, NEW t \in Tabs, NEW k \in Slots, LoadUser(t, k)
  PROVE  Inv'
<1> DEFINE c == calls[t][k]
           left == <<Chore("slug", None), Chore("cookie", None)>>
<1>1. TypeOK /\ TabOK(t) /\ None \in Account /\ c \in CallType /\ CallOK(at[t], c)
  BY DEF Inv, Account, TypeOK, TabOK
<1>2. /\ c.at = "answered" /\ c.kind = "me" /\ Drop(t, k)
      /\ loading' = [loading EXCEPT ![t] = FALSE]
      /\ \/ /\ c.heard = "ok" /\ user' = [user EXCEPT ![t] = c.grant] /\ cookie' = at[t] /\ UNCHANGED <<token, chores>>
         \/ /\ user' = [user EXCEPT ![t] = None] /\ token' = None /\ UNCHANGED cookie
            /\ chores' = [chores EXCEPT ![t] = left]
      /\ UNCHANGED <<within, slug, rootToken, rootCookie, refresh, saved, at, screen, bounced, fetching>>
  BY DEF LoadUser, Settled
<1>3. at[t] \in Schools /\ at[t] \in Sites
  BY <1>1, <1>2 DEF CallOK
<1>4. c.grant \in Account /\ (c.heard = "ok" => HomeOf[c.grant] = at[t])
  BY <1>1, <1>2 DEF CallType, CallOK
<1>5. /\ calls' \in [Tabs -> [Slots -> CallType]]
      /\ \A u \in Tabs \ {t} : calls'[u] = calls[u]
      /\ \A j \in Slots : CallOK(at[t], calls'[t][j])
      /\ \A j \in Slots : calls'[t][j].at = "waiting" => fetching[t].at # "idle"
  BY <1>2, DropStep
<1>6. left \in Seq(ChoreType)
  BY ChoreTypes
<1>7. TypeOK'
  <2> HIDE DEF c, left
  <2>3. /\ user \in [Tabs -> Account] /\ token \in Account
        /\ chores \in [Tabs -> Seq(ChoreType)] /\ cookie \in Schools \cup {None}
    BY <1>1 DEF TypeOK
  <2>1. user' \in [Tabs -> Account] /\ token' \in Account
    <3>1. user' \in [Tabs -> Account]
      BY <1>1, <1>2, <1>4, <2>3
    <3>2. token' \in Account
      BY <1>1, <1>2, <2>3
    <3> QED BY <3>1, <3>2
  <2>2. chores' \in [Tabs -> Seq(ChoreType)] /\ cookie' \in Schools \cup {None}
    <3>1. chores' \in [Tabs -> Seq(ChoreType)]
      BY <1>2, <1>6, <2>3
    <3>2. cookie' \in Schools \cup {None}
      BY <1>2, <1>3, <2>3
    <3> QED BY <3>1, <3>2
  <2> QED BY <1>1, <1>2, <1>5, <2>1, <2>2 DEF TypeOK
<1>8. Elsewhere(t)
  <2> HIDE DEF c, left
  <2> QED BY <1>1, <1>2, <1>5 DEF Elsewhere, TypeOK
<1>9. TabOK(t)'
  <2>1. ~loading'[t]
    BY <1>1, <1>2 DEF TypeOK
  <2>2. user'[t] # None => HomeOf[user'[t]] = at[t]
    <3> HIDE DEF c, left
    <3> QED BY <1>1, <1>2, <1>4 DEF TypeOK
  <2> HIDE DEF c, left
  <2> QED BY <1>1, <1>2, <1>3, <1>5, <2>1, <2>2 DEF TabOK
<1>10. CookiesOK'
  BY <1>2 DEF Inv, CookiesOK
<1> QED BY <1>7, <1>8, <1>9, <1>10, TabStepKeeps

LEMMA LoggedOutKeeps ==
  ASSUME Inv, NEW t \in Tabs, NEW k \in Slots, LoggedOut(t, k)
  PROVE  Inv'
<1> DEFINE c == calls[t][k]
           left == <<Chore("slug", None), Chore("cookie", None), Chore("load", None)>>
<1>1. TypeOK /\ TabOK(t) /\ None \in Account /\ CallOK(at[t], c)
  BY DEF Inv, Account, TabOK
<1>2. /\ c.at = "answered" /\ c.kind = "logout" /\ Drop(t, k)
      /\ user' = [user EXCEPT ![t] = None] /\ token' = None
      /\ chores' = [chores EXCEPT ![t] = left]
      /\ UNCHANGED <<within, slug, rootToken, cookie, rootCookie, refresh, saved, at, screen, loading, bounced, fetching>>
  BY DEF LoggedOut, Settled
<1>3. at[t] \in Sites
  BY <1>1, <1>2 DEF CallOK
<1>4. /\ calls' \in [Tabs -> [Slots -> CallType]]
      /\ \A u \in Tabs \ {t} : calls'[u] = calls[u]
      /\ \A j \in Slots : CallOK(at[t], calls'[t][j])
      /\ \A j \in Slots : calls'[t][j].at = "waiting" => fetching[t].at # "idle"
      /\ loading[t] => Pending(t, "me")'
  BY <1>2, DropStep
<1>5. left \in Seq(ChoreType)
  BY ChoreTypes
<1>6. TypeOK'
  <2> HIDE DEF c, left
  <2> QED BY <1>1, <1>2, <1>4, <1>5 DEF TypeOK
<1>7. Elsewhere(t)
  <2> HIDE DEF c, left
  <2> QED BY <1>1, <1>2, <1>4 DEF Elsewhere, TypeOK
<1>8. TabOK(t)'
  <2>1. user'[t] = None
    BY <1>1, <1>2 DEF TypeOK
  <2> HIDE DEF c, left
  <2> QED BY <1>1, <1>2, <1>3, <1>4, <2>1 DEF TabOK
<1>9. CookiesOK'
  BY <1>2 DEF Inv, CookiesOK
<1> QED BY <1>6, <1>7, <1>8, <1>9, TabStepKeeps

LEMMA LoggedInKeeps ==
  ASSUME Inv, NEW t \in Tabs, NEW k \in Slots, LoggedIn(t, k)
  PROVE  Inv'
<1> DEFINE c == calls[t][k]
           ofRoot == <<Chore("rootCookie", Root), Chore("go", None)>>
           ofSchool == <<Chore("slug", at[t]), Chore("cookie", at[t]), Chore("go", None)>>
<1>1. TypeOK /\ TabOK(t) /\ c \in CallType /\ CallOK(at[t], c)
  BY DEF Inv, TypeOK, TabOK
<1>2. /\ c.at = "answered" /\ c.kind = "login" /\ c.heard = "ok" /\ Drop(t, k)
      /\ user' = [user EXCEPT ![t] = c.grant]
      /\ \/ /\ at[t] = Root /\ rootToken' = c.grant /\ saved' = [saved EXCEPT ![t] = c.grant]
            /\ chores' = [chores EXCEPT ![t] = ofRoot] /\ UNCHANGED token
         \/ /\ at[t] # Root /\ token' = c.grant /\ chores' = [chores EXCEPT ![t] = ofSchool]
            /\ UNCHANGED <<rootToken, saved>>
      /\ UNCHANGED <<within, slug, cookie, rootCookie, refresh, at, screen, loading, bounced, fetching>>
  BY DEF LoggedIn, Settled
<1>3. at[t] \in Sites /\ c.grant \in Account /\ HomeOf[c.grant] = at[t]
  BY <1>1, <1>2 DEF CallOK, CallType
<1>4. /\ calls' \in [Tabs -> [Slots -> CallType]]
      /\ \A u \in Tabs \ {t} : calls'[u] = calls[u]
      /\ \A j \in Slots : CallOK(at[t], calls'[t][j])
      /\ \A j \in Slots : calls'[t][j].at = "waiting" => fetching[t].at # "idle"
      /\ loading[t] => Pending(t, "me")'
  BY <1>2, DropStep
<1>5. ofRoot \in Seq(ChoreType)
  BY ChoreTypes
<1>6. at[t] # Root => ofSchool \in Seq(ChoreType)
  <2> SUFFICES ASSUME at[t] # Root PROVE ofSchool \in Seq(ChoreType)
    OBVIOUS
  <2>1. at[t] \in Schools
    BY <1>3 DEF Sites
  <2> QED BY <2>1, ChoreTypes
<1> HIDE DEF c, ofRoot, ofSchool
<1>7. TypeOK'
  <2>1. chores' \in [Tabs -> Seq(ChoreType)]
    BY <1>1, <1>2, <1>5, <1>6 DEF TypeOK
  <2>2. user' \in [Tabs -> Account] /\ saved' \in [Tabs -> Account] /\ {token', rootToken'} \subseteq Account
    BY <1>1, <1>2, <1>3 DEF TypeOK
  <2> QED BY <1>1, <1>2, <1>4, <2>1, <2>2 DEF TypeOK
<1>8. Elsewhere(t)
  BY <1>1, <1>2, <1>4 DEF Elsewhere, TypeOK
<1>9. TabOK(t)'
  <2>1. user'[t] = c.grant /\ (saved'[t] = saved[t] \/ (at[t] = Root /\ saved'[t] = c.grant))
    BY <1>1, <1>2 DEF TypeOK
  <2> QED BY <1>1, <1>2, <1>3, <1>4, <2>1 DEF TabOK
<1>10. CookiesOK'
  BY <1>2 DEF Inv, CookiesOK
<1> QED BY <1>7, <1>8, <1>9, <1>10, TabStepKeeps
-----------------------------------------------------------------------------
\* The first thing left to do is one that may be, and so is the rest.
LEMMA ChoreTaken ==
  ASSUME NEW q \in Seq(ChoreType), q # <<>>
  PROVE  Head(q) \in ChoreType /\ Tail(q) \in Seq(ChoreType)
OBVIOUS

LEMMA DoChoreKeeps ==
  ASSUME Inv, NEW t \in Tabs, DoChore(t)
  PROVE  Inv'
<1> DEFINE c == Head(chores[t])
<1>1. TypeOK /\ TabOK(t) /\ chores[t] # <<>> /\ at[t] \in Sites
  BY DEF Inv, TabOK, DoChore
<1>2. c \in ChoreType /\ Tail(chores[t]) \in Seq(ChoreType)
  BY <1>1, ChoreTaken DEF TypeOK
<1>3. /\ chores' \in [Tabs -> Seq(ChoreType)]
      /\ \A u \in Tabs \ {t} : chores'[u] = chores[u]
  BY <1>1, <1>2 DEF TypeOK, DoChore
<1>4. /\ slug'   = IF c.do = "slug" THEN c.arg ELSE slug
      /\ cookie' = IF c.do = "cookie" THEN c.arg ELSE cookie
      /\ rootCookie' = IF c.do = "rootCookie" THEN c.arg ELSE rootCookie
      /\ CASE c.do = "go" -> /\ screen' = [screen EXCEPT ![t] = Gate(at[t])]
                             /\ UNCHANGED <<at, user, loading, bounced, calls, fetching>>
           [] c.do = "load" -> FullLoad(t, at[t])
           [] c.do = "resume" -> Resume(t) /\ UNCHANGED <<at, screen, user, loading, bounced>>
           [] OTHER -> UNCHANGED <<at, screen, user, loading, bounced, calls, fetching>>
      /\ UNCHANGED <<within, token, rootToken, refresh, saved>>
  BY DEF DoChore
<1> HIDE DEF c
<1>5. {slug', cookie'} \subseteq Schools \cup {None} /\ rootCookie' \in {Root, None}
  BY <1>1, <1>2, <1>4 DEF TypeOK, ChoreType
<1>6. CookiesOK'
  BY <1>4 DEF Inv, CookiesOK
<1>7. CASE c.do = "go"
  <2>1. screen' = [screen EXCEPT ![t] = Gate(at[t])] /\ UNCHANGED <<at, user, loading, bounced, calls, fetching>>
    BY <1>4, <1>7
  <2>2. Gate(at[t]) \in {"none", "app", "login"}
    BY DEF Gate
  <2>3. TypeOK'
    BY <1>1, <1>3, <1>4, <1>5, <2>1, <2>2 DEF TypeOK
  <2>4. Elsewhere(t)
    BY <1>1, <1>3, <1>4, <2>1 DEF Elsewhere, TypeOK
  <2>5. TabOK(t)'
    BY <1>1, <1>4, <2>1 DEF TabOK, Pending, Busy
  <2> QED BY <1>6, <2>3, <2>4, <2>5, TabStepKeeps
<1>8. CASE c.do = "load"
  <2>1. FullLoad(t, at[t])
    BY <1>4, <1>8
  <2>2. UNCHANGED <<within, token, slug, rootToken, refresh, saved>>
    BY <1>4, <1>8
  <2> QED BY <1>1, <1>3, <1>5, <2>1, <2>2, FullLoadKeeps
<1>9. CASE c.do = "resume"
  <2>1. Resume(t) /\ UNCHANGED pages
    BY <1>4, <1>9 DEF pages
  <2>2. /\ calls' \in [Tabs -> [Slots -> CallType]]
        /\ fetching' \in [Tabs -> [at : {"idle", "sent", "answered"}, grant : Account]]
        /\ Elsewhere(t) /\ TabOK(t)'
    BY <1>1, <1>3, <2>1, ResumeStep
  <2>3. TypeOK'
    BY <1>1, <1>3, <1>4, <1>5, <2>1, <2>2 DEF TypeOK, pages
  <2> QED BY <1>6, <2>2, <2>3, TabStepKeeps
<1>10. CASE c.do \notin {"go", "load", "resume"}
  <2>1. UNCHANGED <<at, screen, user, loading, bounced, calls, fetching>>
    BY <1>4, <1>10
  <2>2. TypeOK'
    BY <1>1, <1>3, <1>4, <1>5, <2>1 DEF TypeOK
  <2>3. Elsewhere(t)
    BY <1>3, <1>4, <2>1 DEF Elsewhere
  <2>4. TabOK(t)'
    BY <1>1, <1>4, <2>1 DEF TabOK, Pending, Busy
  <2> QED BY <1>6, <2>2, <2>3, <2>4, TabStepKeeps
<1> QED BY <1>7, <1>8, <1>9, <1>10
-----------------------------------------------------------------------------
LEMMA InitInv ==
  ASSUME Init
  PROVE  Inv
<1>1. None \in Account
  BY DEF Account
<1>2. TypeOK
  <2>1. NoFetch \in [at : {"idle", "sent", "answered"}, grant : Account]
    BY <1>1 DEF NoFetch
  <2>2. <<>> \in Seq(ChoreType)
    OBVIOUS
  <2> QED BY <1>1, <2>1, <2>2, FreeCallType DEF Init, TypeOK
<1>3. CookiesOK
  BY DEF Init, CookiesOK
<1>4. ASSUME NEW t \in Tabs PROVE TabOK(t)
  <2>1. \A k \in Slots : CallOK(at[t], calls[t][k]) /\ calls[t][k].at = "free"
    BY FreeCallType DEF Init, FreeCall
  <2> QED BY <2>1 DEF Init, TabOK, NoFetch
<1> QED BY <1>2, <1>3, <1>4 DEF Inv

LEMMA NextKeeps ==
  ASSUME Inv, [Next]_vars
  PROVE  Inv'
<1>1. CASE CookieLapses
  BY <1>1, CookieLapsesKeeps
<1>2. ASSUME NEW t \in Tabs, UserStep(t) PROVE Inv'
  <2>1. ASSUME NEW s \in within[t].sites, Visit(t, s) PROVE Inv'
    <3>1. s \in Sites
      BY <2>1, SessionAssumption DEF Inv, TypeOK
    <3> QED BY <2>1, <3>1, VisitKeeps
  <2> QED BY <1>2, <2>1, SubmitLoginKeeps, WorkKeeps, LogoutKeeps, RootLogoutKeeps DEF UserStep
<1>3. ASSUME NEW t \in Tabs, NEW k \in Slots, CallEnds(t, k) PROVE Inv'
  BY <1>3, ServeKeeps, LoseKeeps, AwaitRefreshKeeps, LoadUserKeeps, LoggedInKeeps, LoggedOutKeeps, ShownKeeps
     DEF CallEnds
<1>4. ASSUME NEW t \in Tabs, TabStep(t) PROVE Inv'
  BY <1>2, <1>3, <1>4, RedirectKeeps, DoChoreKeeps, ServeRefreshKeeps, RefreshedKeeps DEF TabStep, RefreshEnds
<1>5. CASE UNCHANGED vars
  <2>1. TypeOK'
    BY <1>5 DEF Inv, TypeOK, vars, storage, pages
  <2>2. CookiesOK'
    BY <1>5 DEF Inv, CookiesOK, vars, storage
  <2>3. \A t \in Tabs : TabOK(t)'
    BY <1>5 DEF Inv, TabOK, vars, pages, Pending, Busy
  <2> QED BY <2>1, <2>2, <2>3 DEF Inv
<1> QED BY <1>1, <1>4, <1>5 DEF Next

LEMMA SessionInv == Spec => []Inv
BY InitInv, NextKeeps, PTL DEF Spec
-----------------------------------------------------------------------------
\* The browser, its tabs and their requests keep their types (lib/api.ts,
\* lib/auth-context.tsx).
THEOREM SessionTypes == Spec => []TypeOK
<1>1. Inv => TypeOK
  BY DEF Inv
<1> QED BY <1>1, SessionInv, PTL

\* coreFetch sends a request again after a 401 only, so that the server does
\* what the user asked for at most once.
THEOREM NothingTwice == Spec => []DoneOnce
<1>1. Inv => DoneOnce
  BY DEF Inv, TabOK, CallOK, DoneOnce
<1> QED BY <1>1, SessionInv, PTL

\* A request sent again bears the token of its own school, whatever other tabs
\* have stored while it waited for the refresh.
THEOREM RetriesAreOwn == Spec => []RetryIsOwn
<1>1. Inv => RetryIsOwn
  BY DEF Inv, TabOK, CallOK, RetryIsOwn
<1> QED BY <1>1, SessionInv, PTL

\* The account a page shows is of the school of the page, even where the
\* storage holds the token of one school and the slug of another (loadUser,
\* requireAuth).
THEOREM ShownIsOwn == Spec => []ShownIsOfSite
<1>1. Inv => ShownIsOfSite
  BY DEF Inv, TabOK, ShownIsOfSite
<1> QED BY <1>1, SessionInv, PTL

\* Neither "checking the session" nor a request waiting for a refresh waits for
\* nothing (refreshPromisesByPath and its finally).
THEOREM WaitsAreCaused == Spec => []WaitsHaveCause
<1>1. Inv => WaitsHaveCause
  BY DEF Inv, TabOK, WaitsHaveCause
<1> QED BY <1>1, SessionInv, PTL
-----------------------------------------------------------------------------
\* How far a request has come: sent, answered, waiting for the refresh, sent
\* again, answered again.
Stage(c) == IF c.at = "waiting" THEN 3
            ELSE 3 * (c.tries - 1) + (IF c.at = "answered" THEN 2 ELSE 1)
Advances(t, k) ==
  \/ calls'[t][k].at = "free"
  \/ Stage(calls'[t][k]) > Stage(calls[t][k])
  \/ \E s \in Sites : FullLoad(t, s)

\* A request never goes back: it is not sent a third time, nor does it wait
\* for a second refresh, whatever other requests and tabs do.
CallsAdvance ==
  [][\A t \in Tabs, k \in Slots :
       calls[t][k].at # "free" /\ calls'[t][k] # calls[t][k] => Advances(t, k)]_vars

\* What a step of tab t does to its requests when only request k changes.
LEMMA OneAdvances ==
  ASSUME TypeOK, NEW t \in Tabs, NEW k \in Slots, NEW c, calls' = [calls EXCEPT ![t][k] = c],
         calls[t][k].at = "free" \/ c.at = "free" \/ Stage(c) > Stage(calls[t][k])
  PROVE  \A u \in Tabs, j \in Slots :
           calls[u][j].at # "free" /\ calls'[u][j] # calls[u][j] => Advances(u, j)
<1>1. \A u \in Tabs, j \in Slots : (u = t /\ j = k) \/ calls'[u][j] = calls[u][j]
  BY DEF TypeOK
<1>2. calls'[t][k] = c
  BY DEF TypeOK
<1> QED BY <1>1, <1>2 DEF Advances

\* An outcome of the refresh takes each request that waits to its second try.
LEMMA ResumeAdvances ==
  ASSUME Inv, NEW t \in Tabs, Resume(t)
  PROVE  \A u \in Tabs, j \in Slots :
           calls[u][j].at # "free" /\ calls'[u][j] # calls[u][j] => Advances(u, j)
<1> SUFFICES ASSUME NEW u \in Tabs, NEW j \in Slots, calls[u][j].at # "free", calls'[u][j] # calls[u][j]
             PROVE  Stage(calls'[u][j]) > Stage(calls[u][j])
  BY DEF Advances
<1>1. u = t /\ calls'[t][j] = Resumed(calls[t][j], fetching[t].grant)
  BY DEF Resume, Inv, TypeOK
<1>2. calls[t][j].at = "waiting"
  BY <1>1 DEF Resumed
<1>3. Stage(calls[t][j]) = 3
  BY <1>2 DEF Stage
<1>4. \/ calls'[t][j] = GivenUp(calls[t][j])
      \/ calls'[t][j] = Again(calls[t][j], fetching[t].grant)
  BY <1>1, <1>2 DEF Resumed
<1>5. Stage(calls'[t][j]) \in {4, 5}
  BY <1>4 DEF Stage, GivenUp, Again
<1> QED BY <1>1, <1>3, <1>5

\* CallsSettle, as far as it is no matter of fairness: coreFetch never goes
\* back, whatever it shares a refresh with.
THEOREM CallsAdvanceHolds == Spec => CallsAdvance
<1> DEFINE Advance == \A t \in Tabs, k \in Slots :
                        calls[t][k].at # "free" /\ calls'[t][k] # calls[t][k] => Advances(t, k)
<1>1. ASSUME Inv, [Next]_vars PROVE Advance
  <2>1. TypeOK /\ \A t \in Tabs, k \in Slots : calls[t][k] \in CallType /\ CallOK(at[t], calls[t][k])
    BY <1>1 DEF Inv, TypeOK, TabOK
  <2>2. CASE UNCHANGED calls
    BY <2>2
  <2>3. ASSUME NEW t \in Tabs, NEW s \in Sites, FullLoad(t, s) PROVE Advance
    <3>1. \A u \in Tabs \ {t} : calls'[u] = calls[u]
      BY <2>1, <2>3 DEF FullLoad, TypeOK
    <3> QED BY <2>3, <3>1 DEF Advances
  <2>4. ASSUME NEW t \in Tabs, NEW kind, Start(t, kind) PROVE Advance
    <3>1. PICK k \in Slots :
            /\ calls[t][k].at = "free"
            /\ calls' = [calls EXCEPT ![t][k] = NewCall(kind, IF kind = "login" THEN None ELSE GetToken(at[t]))]
      BY <2>4 DEF Start, FirstFree, Busy
    <3> QED BY <2>1, <3>1, OneAdvances
  <2>5. ASSUME NEW t \in Tabs, NEW k \in Slots, NEW h, NEW g, NEW n, calls[t][k].at = "sent",
               calls' = [calls EXCEPT ![t][k] = Answered(calls[t][k], h, g, n)]
        PROVE  Advance
    <3>1. Stage(Answered(calls[t][k], h, g, n)) = 3 * (calls[t][k].tries - 1) + 2
      BY DEF Stage, Answered
    <3>2. Stage(calls[t][k]) = 3 * (calls[t][k].tries - 1) + 1 /\ calls[t][k].tries \in Nat
      BY <2>1, <2>5 DEF Stage, CallType
    <3>3. Stage(Answered(calls[t][k], h, g, n)) > Stage(calls[t][k])
      BY <3>1, <3>2
    <3> QED BY <2>1, <2>5, <3>3, OneAdvances
  <2>6. ASSUME NEW t \in Tabs, NEW k \in Slots, AwaitRefresh(t, k) PROVE Advance
    <3>1. /\ calls[t][k].at = "answered" /\ calls[t][k].tries = 1
          /\ calls' = [calls EXCEPT ![t][k] = [calls[t][k] EXCEPT !.at = "waiting"]]
      BY <2>1, <2>6 DEF AwaitRefresh, Refreshable, TypeOK
    <3>2. Stage(calls[t][k]) = 2
      BY <3>1 DEF Stage
    <3>3. Stage([calls[t][k] EXCEPT !.at = "waiting"]) = 3
      BY <2>1 DEF Stage, CallType
    <3>4. Stage([calls[t][k] EXCEPT !.at = "waiting"]) > Stage(calls[t][k])
      BY <3>2, <3>3
    <3> QED BY <2>1, <3>1, <3>4, OneAdvances
  <2>7. ASSUME NEW t \in Tabs, NEW k \in Slots, Drop(t, k) PROVE Advance
    BY <2>1, <2>7, OneAdvances DEF Drop, FreeCall
  <2>8. ASSUME NEW t \in Tabs, Resume(t) PROVE Advance
    BY <1>1, <2>8, ResumeAdvances
  <2>9. ASSUME NEW t \in Tabs, UserStep(t) PROVE Advance
    <3>1. ASSUME NEW s \in within[t].sites, Visit(t, s) PROVE Advance
      <4>1. s \in Sites
        BY <2>1, <3>1, SessionAssumption DEF TypeOK
      <4> QED BY <2>3, <3>1, <4>1 DEF Visit
    <3> QED BY <2>2, <2>4, <2>9, <3>1 DEF UserStep, SubmitLogin, Work, Logout, RootLogout
  <2>10. ASSUME NEW t \in Tabs, NEW k \in Slots, CallEnds(t, k) PROVE Advance
    <3>1. CASE Serve(t, k)
      <4>1. /\ calls[t][k].at = "sent"
            /\ \E h, g : Answer(t, k, h, g)
        BY <3>1 DEF Serve
      <4>2. PICK h, g : Answer(t, k, h, g)
        BY <4>1
      <4>3. calls' = [calls EXCEPT ![t][k] = Answered(calls[t][k], h, g, IF h = "ok" THEN 1 ELSE 0)]
        BY <2>1, <4>2 DEF Answer, TypeOK
      <4> QED BY <2>5, <4>1, <4>3
    <3>2. CASE Lose(t, k)
      <4>1. calls[t][k].at = "sent" /\ \E n : calls' = [calls EXCEPT ![t][k] = Answered(@, "lost", None, n)]
        BY <3>2 DEF Lose
      <4>2. PICK n : calls' = [calls EXCEPT ![t][k] = Answered(calls[t][k], "lost", None, n)]
        BY <2>1, <4>1 DEF TypeOK
      <4> QED BY <2>5, <4>1, <4>2
    <3>3. CASE LoadUser(t, k) \/ LoggedIn(t, k) \/ LoggedOut(t, k) \/ Shown(t, k)
      BY <2>7, <3>3 DEF LoadUser, LoggedIn, LoggedOut, Shown
    <3> QED BY <2>6, <2>10, <3>1, <3>2, <3>3 DEF CallEnds
  <2>11. ASSUME NEW t \in Tabs, DoChore(t) PROVE Advance
    <3>1. at[t] \in Sites
      BY <1>1, <2>11 DEF DoChore, Inv, TabOK
    <3>2. FullLoad(t, at[t]) \/ Resume(t) \/ UNCHANGED calls
      BY <2>11 DEF DoChore
    <3> QED BY <2>2, <2>3, <2>8, <3>1, <3>2
  <2>12. ASSUME NEW t \in Tabs, Redirect(t) \/ RefreshEnds(t) PROVE Advance
    BY <2>2, <2>8, <2>12 DEF Redirect, RefreshEnds, ServeRefresh, Refreshed
  <2>13. CASE CookieLapses \/ UNCHANGED vars
    BY <2>2, <2>13 DEF CookieLapses, vars
  <2> QED BY <1>1, <2>9, <2>10, <2>11, <2>12, <2>13 DEF Next, TabStep
<1>2. Inv /\ [Next]_vars => [Advance]_vars
  BY <1>1
<1>3. Spec => [][Advance]_vars
  <2> HIDE DEF Advance
  <2> QED BY <1>2, SessionInv, PTL DEF Spec
<1> QED BY <1>3 DEF CallsAdvance
=============================================================================
