--------------------------- MODULE ClientSession ---------------------------
(* Sessions in one browser.  Its tabs share localStorage and the cookies;  *)
(* each has its own page, its own AuthProvider and its own requests.  A    *)
(* school has a session of its own kind from the super administrator's,    *)
(* whose site is Root.  The JavaScript of a tab is interrupted by other    *)
(* tabs only between two writes to what they share: "chores" holds the     *)
(* writes that a tab has still to do.                                      *)
EXTENDS Naturals, Sequences

CONSTANTS Tabs, Schools, People, Root,
          HomeOf,     \* the site an account belongs to
          Trips,      \* bound: the sites each tab goes to and the requests it has on
                      \* their way at a time, in one instance or another
          MaxCalls,   \* the most requests of any trip
          None

Sites == Schools \cup {Root}
Slots == 1..MaxCalls

ASSUME SessionAssumption ==
  /\ Root \notin Schools /\ HomeOf \in [People -> Sites]
  /\ MaxCalls \in Nat \ {0}
  /\ Trips \subseteq [Tabs -> [sites : SUBSET Sites, calls : Slots]]
  /\ None \notin Sites \cup People \cup {"ok", "401", "403", "lost"}

VARIABLES
  within,                 \* bound: the trip of this instance
  token, slug,            \* localStorage: the account of lib_access_token, lib_access_token_slug
  rootToken,              \* localStorage: sa_access_token
  cookie, rootCookie,     \* cookies lib_session and sa_session
  refresh,                \* the HttpOnly refresh cookie of each school's path
  saved,                  \* sessionStorage of each tab: sa_user is there
  at, screen,             \* site and page of each tab
  user, loading,          \* state of its AuthProvider
  bounced,                \* the redirect of AppShell has led back to the page
  chores,                 \* writes and navigation still to do
  calls,                  \* requests on their way
  fetching                \* refreshPromisesByPath: the refresh on its way

storage == <<token, slug, rootToken, cookie, rootCookie, refresh>>
pages   == <<saved, at, screen, user, loading, bounced>>
vars    == <<within, storage, pages, chores, calls, fetching>>

FreeCall   == [at |-> "free", kind |-> "work", bearer |-> None, heard |-> None, grant |-> None,
               tries |-> 0, done |-> 0]
NoFetch    == [at |-> "idle", grant |-> None]
Busy(t)    == {k \in Slots : calls[t][k].at # "free"}
Ready(t)   == chores[t] = <<>>
FirstFree(t, k) == k <= within[t].calls /\ k \notin Busy(t) /\ \A j \in 1..(k - 1) : j \in Busy(t)
Chore(what, arg) == [do |-> what, arg |-> arg]

\* getTenantAccessToken, getSuperAdminAccessToken
GetToken(s) == IF s = Root THEN rootToken ELSE IF slug = s THEN token ELSE None

\* proxy: the page of a site that a navigation ends at, whichever it was for.
Admitted(s) == s = IF s = Root THEN rootCookie ELSE cookie
Gate(s)     == IF Admitted(s) THEN "app" ELSE "login"

NewCall(kind, bearer) == [at |-> "sent", kind |-> kind, bearer |-> bearer, heard |-> None, grant |-> None,
                          tries |-> 1, done |-> 0]
-----------------------------------------------------------------------------
\* A full load of a page: whatever the tab had in memory is gone, the proxy
\* chooses the page and the AuthProvider runs loadUser.
FullLoad(t, s) ==
  LET known == s # Root /\ GetToken(s) # None IN
  /\ at' = [at EXCEPT ![t] = s]
  /\ screen' = [screen EXCEPT ![t] = Gate(s)]
  /\ user' = [user EXCEPT ![t] = IF s = Root /\ rootToken # None THEN saved[t] ELSE None]
  /\ loading' = [loading EXCEPT ![t] = known]
  /\ bounced' = [bounced EXCEPT ![t] = FALSE]
  /\ calls' = [calls EXCEPT ![t] = [k \in Slots |-> IF known /\ k = 1 THEN NewCall("me", GetToken(s)) ELSE FreeCall]]
  /\ fetching' = [fetching EXCEPT ![t] = NoFetch]

Visit(t, s) ==
  /\ Ready(t)
  /\ FullLoad(t, s)
  /\ UNCHANGED <<within, storage, saved, chores>>

\* AppShell: no user and none to come, so router.replace to the login page,
\* which the proxy may turn round; the effect does not run again then.
Redirect(t) ==
  /\ Ready(t) /\ screen[t] = "app" /\ ~loading[t] /\ user[t] = None /\ ~bounced[t]
  /\ screen' = [screen EXCEPT ![t] = Gate(at[t])]
  /\ bounced' = [bounced EXCEPT ![t] = Gate(at[t]) = "app"]
  /\ UNCHANGED <<within, storage, saved, at, user, loading, chores, calls, fetching>>

Start(t, kind) ==
  \E k \in Slots :
    /\ FirstFree(t, k)
    /\ calls' = [calls EXCEPT ![t][k] = NewCall(kind, IF kind = "login" THEN None ELSE GetToken(at[t]))]

Pending(t, kind) == \E k \in Busy(t) : calls[t][k].kind = kind

\* The login form, whose button waits for the answer.
SubmitLogin(t) ==
  /\ Ready(t) /\ screen[t] = "login" /\ ~Pending(t, "login")
  /\ Start(t, "login")
  /\ UNCHANGED <<within, storage, pages, chores, fetching>>

Shell(t) == Ready(t) /\ screen[t] = "app" /\ user[t] # None

\* Anything the pages ask of the server.
Work(t) ==
  /\ Shell(t)
  /\ Start(t, "work")
  /\ UNCHANGED <<within, storage, pages, chores, fetching>>

\* logout of a school asks the server first ...
Logout(t) ==
  /\ Shell(t) /\ at[t] # Root
  /\ Start(t, "logout")
  /\ UNCHANGED <<within, storage, pages, chores, fetching>>

\* ... that of the super administrator does not.
RootLogout(t) ==
  /\ Shell(t) /\ at[t] = Root
  /\ rootToken' = None
  /\ chores' = [chores EXCEPT ![t] = <<Chore("rootCookie", None), Chore("load", None)>>]
  /\ saved' = [saved EXCEPT ![t] = None]
  /\ user' = [user EXCEPT ![t] = None]
  /\ UNCHANGED <<within, token, slug, cookie, rootCookie, refresh, at, screen, loading, bounced, calls, fetching>>
-----------------------------------------------------------------------------
\* requireAuth on the route of a site, requireSuperAdmin for Root.  Time is
\* not kept: the 15 minutes of any token may have passed.
\* (mutant: any school's token will do)
AnyTokenVerdicts(s, bearer) == {"401"} \cup IF bearer = None THEN {} ELSE {"ok"}
Verdicts(s, bearer) ==
  {"401"} \cup IF bearer = None THEN {} ELSE IF HomeOf[bearer] = s THEN {"ok"} ELSE {"403"}

Answered(c, heard, grant, n) ==
  [at |-> "answered", kind |-> c.kind, bearer |-> None, heard |-> heard, grant |-> grant,
   tries |-> c.tries, done |-> c.done + n]

Answer(t, k, heard, grant) ==
  calls' = [calls EXCEPT ![t][k] = Answered(@, heard, grant, IF heard = "ok" THEN 1 ELSE 0)]

\* The server answers, and the answer sets or clears the refresh cookie.
Serve(t, k) ==
  LET c == calls[t][k]  s == at[t] IN
  /\ c.at = "sent"
  /\ CASE c.kind = "login"  -> \/ Answer(t, k, "403", None) /\ UNCHANGED refresh
                               \/ \E p \in People :
                                    /\ HomeOf[p] = s
                                    /\ Answer(t, k, "ok", p)
                                    /\ refresh' = IF s = Root THEN refresh ELSE [refresh EXCEPT ![s] = p]
       [] c.kind = "logout" -> Answer(t, k, "ok", None) /\ refresh' = [refresh EXCEPT ![s] = None]
       [] OTHER             -> /\ \E v \in Verdicts(s, c.bearer) :
                                    Answer(t, k, v, IF v = "ok" /\ c.kind = "me" THEN c.bearer ELSE None)
                               /\ UNCHANGED refresh
  /\ UNCHANGED <<within, token, slug, rootToken, cookie, rootCookie, pages, chores, fetching>>

\* The request is lost, or its answer after the server has done what it asks:
\* fetch rejects.
Lose(t, k) ==
  LET c == calls[t][k] IN
  /\ c.at = "sent"
  /\ \E n \in {0} \cup (IF c.kind = "work" /\ "ok" \in Verdicts(at[t], c.bearer) THEN {1} ELSE {}) :
       calls' = [calls EXCEPT ![t][k] = Answered(@, "lost", None, n)]
  /\ UNCHANGED <<within, storage, pages, chores, fetching>>

\* coreFetch: a first 401 waits for the refresh of its path, and starts it
\* when none is on its way (mutant: a lost answer does so too).
LostRefreshable(t, c) == c.heard \in {"401", "lost"} /\ c.kind \in {"me", "work"} /\ at[t] # Root /\ c.tries = 1
Refreshable(t, c) == c.heard = "401" /\ c.kind \in {"me", "work"} /\ at[t] # Root /\ c.tries = 1

AwaitRefresh(t, k) ==
  /\ Ready(t) /\ calls[t][k].at = "answered" /\ Refreshable(t, calls[t][k])
  /\ calls' = [calls EXCEPT ![t][k] = [@ EXCEPT !.at = "waiting"]]
  /\ fetching' = IF fetching[t].at = "idle" THEN [fetching EXCEPT ![t].at = "sent"] ELSE fetching
  /\ UNCHANGED <<within, storage, pages, chores>>

\* The refresh brings a token of the account of the cookie, or, if the cookie
\* is missing or too old, the account disabled or the answer lost, nothing.
ServeRefresh(t) ==
  /\ fetching[t].at = "sent"
  /\ \E p \in {refresh[at[t]], None} : fetching' = [fetching EXCEPT ![t] = [at |-> "answered", grant |-> p]]
  /\ UNCHANGED <<within, storage, pages, chores, calls>>

\* What a waiting request does with the outcome of the refresh (mutants: it
\* sends what is stored; it hears only of a success).
Again(c, bearer) ==
  [at |-> "sent", kind |-> c.kind, bearer |-> bearer, heard |-> None, grant |-> None, tries |-> 2, done |-> c.done]
GivenUp(c) ==
  [at |-> "answered", kind |-> c.kind, bearer |-> None, heard |-> c.heard, grant |-> None, tries |-> 2, done |-> c.done]
ResumedWithStored(c, grant) ==
  IF c.at # "waiting" THEN c ELSE IF grant = None THEN GivenUp(c) ELSE Again(c, token)
ResumedIfGranted(c, grant) ==
  IF c.at # "waiting" \/ grant = None THEN c ELSE Again(c, grant)
Resumed(c, grant) ==
  IF c.at # "waiting" THEN c ELSE IF grant = None THEN GivenUp(c) ELSE Again(c, grant)

Resume(t) ==
  /\ calls' = [calls EXCEPT ![t] = [k \in Slots |-> Resumed(calls[t][k], fetching[t].grant)]]
  /\ fetching' = [fetching EXCEPT ![t] = NoFetch]

\* refreshToken: store the token, or null.
Refreshed(t) ==
  /\ Ready(t) /\ fetching[t].at = "answered"
  /\ IF fetching[t].grant = None
       THEN Resume(t) /\ UNCHANGED <<token, chores>>
       ELSE /\ token' = fetching[t].grant
            /\ chores' = [chores EXCEPT ![t] = <<Chore("slug", at[t]), Chore("resume", None)>>]
            /\ UNCHANGED <<calls, fetching>>
  /\ UNCHANGED <<within, slug, rootToken, cookie, rootCookie, refresh, pages>>
-----------------------------------------------------------------------------
Settled(t, k) == Ready(t) /\ calls[t][k].at = "answered" /\ ~Refreshable(t, calls[t][k])
Drop(t, k)    == calls' = [calls EXCEPT ![t][k] = FreeCall]

\* loadUser (mutant: only a success ends the loading)
LoadUserSpinning(t, k) ==
  /\ Settled(t, k) /\ calls[t][k].kind = "me"
  /\ Drop(t, k)
  /\ IF calls[t][k].heard = "ok"
       THEN /\ user' = [user EXCEPT ![t] = calls[t][k].grant]
            /\ loading' = [loading EXCEPT ![t] = FALSE]
            /\ cookie' = at[t]
            /\ UNCHANGED <<token, chores>>
       ELSE /\ token' = None
            /\ chores' = [chores EXCEPT ![t] = <<Chore("slug", None), Chore("cookie", None)>>]
            /\ UNCHANGED <<user, loading, cookie>>
  /\ UNCHANGED <<within, slug, rootToken, rootCookie, refresh, saved, at, screen, bounced, fetching>>
LoadUser(t, k) ==
  /\ Settled(t, k) /\ calls[t][k].kind = "me"
  /\ Drop(t, k)
  /\ loading' = [loading EXCEPT ![t] = FALSE]
  /\ IF calls[t][k].heard = "ok"
       THEN /\ user' = [user EXCEPT ![t] = calls[t][k].grant]
            /\ cookie' = at[t]
            /\ UNCHANGED <<token, chores>>
       ELSE /\ user' = [user EXCEPT ![t] = None]
            /\ token' = None
            /\ chores' = [chores EXCEPT ![t] = <<Chore("slug", None), Chore("cookie", None)>>]
            /\ UNCHANGED cookie
  /\ UNCHANGED <<within, slug, rootToken, rootCookie, refresh, saved, at, screen, bounced, fetching>>

\* login, and the navigation of the form that follows (mutant: the super
\* administrator's login writes the schools' session).
LoggedInAlike(t, k) ==
  LET c == calls[t][k] IN
  /\ Settled(t, k) /\ c.kind = "login" /\ c.heard = "ok"
  /\ Drop(t, k)
  /\ user' = [user EXCEPT ![t] = c.grant]
  /\ token' = c.grant
  /\ chores' = [chores EXCEPT ![t] = <<Chore("slug", at[t]), Chore("cookie", at[t]), Chore("go", None)>>]
  /\ UNCHANGED <<within, slug, rootToken, cookie, rootCookie, refresh, saved, at, screen, loading, bounced, fetching>>
LoggedIn(t, k) ==
  LET c == calls[t][k] IN
  /\ Settled(t, k) /\ c.kind = "login" /\ c.heard = "ok"
  /\ Drop(t, k)
  /\ user' = [user EXCEPT ![t] = c.grant]
  /\ IF at[t] = Root
       THEN /\ rootToken' = c.grant
            /\ saved' = [saved EXCEPT ![t] = c.grant]
            /\ chores' = [chores EXCEPT ![t] = <<Chore("rootCookie", Root), Chore("go", None)>>]
            /\ UNCHANGED token
       ELSE /\ token' = c.grant
            /\ chores' = [chores EXCEPT ![t] = <<Chore("slug", at[t]), Chore("cookie", at[t]), Chore("go", None)>>]
            /\ UNCHANGED <<rootToken, saved>>
  /\ UNCHANGED <<within, slug, cookie, rootCookie, refresh, at, screen, loading, bounced, fetching>>

\* logout clears the session whatever the server answered.
LoggedOut(t, k) ==
  /\ Settled(t, k) /\ calls[t][k].kind = "logout"
  /\ Drop(t, k)
  /\ user' = [user EXCEPT ![t] = None]
  /\ token' = None
  /\ chores' = [chores EXCEPT ![t] = <<Chore("slug", None), Chore("cookie", None), Chore("load", None)>>]
  /\ UNCHANGED <<within, slug, rootToken, cookie, rootCookie, refresh, saved, at, screen, loading, bounced, fetching>>

\* The page shows the result, or the message of the error.
Shown(t, k) ==
  /\ Settled(t, k)
  /\ calls[t][k].kind = "work" \/ (calls[t][k].kind = "login" /\ calls[t][k].heard # "ok")
  /\ Drop(t, k)
  /\ UNCHANGED <<within, storage, pages, chores, fetching>>

\* The next write, or navigation, of a tab in the middle of one of the above.
DoChore(t) ==
  /\ chores[t] # <<>>
  /\ LET c == Head(chores[t]) IN
     /\ chores' = [chores EXCEPT ![t] = Tail(chores[t])]
     /\ slug'   = IF c.do = "slug" THEN c.arg ELSE slug
     /\ cookie' = IF c.do = "cookie" THEN c.arg ELSE cookie
     /\ rootCookie' = IF c.do = "rootCookie" THEN c.arg ELSE rootCookie
     /\ CASE c.do = "go" -> /\ screen' = [screen EXCEPT ![t] = Gate(at[t])]
                            /\ UNCHANGED <<at, user, loading, bounced, calls, fetching>>
          [] c.do = "load" -> FullLoad(t, at[t])
          [] c.do = "resume" -> Resume(t) /\ UNCHANGED <<at, screen, user, loading, bounced>>
          [] OTHER -> UNCHANGED <<at, screen, user, loading, bounced, calls, fetching>>
  /\ UNCHANGED <<within, token, rootToken, refresh, saved>>
-----------------------------------------------------------------------------
\* 7 days without a word from the AuthProvider.
CookieLapses ==
  /\ <<cookie, rootCookie>> # <<None, None>>
  /\ cookie' = None /\ rootCookie' = None
  /\ UNCHANGED <<within, token, slug, rootToken, refresh, pages, chores, calls, fetching>>

Init ==
  /\ within \in Trips
  /\ token = None /\ slug = None /\ rootToken = None /\ cookie = None /\ rootCookie = None
  /\ refresh = [s \in Schools |-> None]
  /\ saved = [t \in Tabs |-> None] /\ at = [t \in Tabs |-> None] /\ screen = [t \in Tabs |-> "none"]
  /\ user = [t \in Tabs |-> None] /\ loading = [t \in Tabs |-> FALSE] /\ bounced = [t \in Tabs |-> FALSE]
  /\ chores = [t \in Tabs |-> <<>>]
  /\ calls = [t \in Tabs |-> [k \in Slots |-> FreeCall]]
  /\ fetching = [t \in Tabs |-> NoFetch]

CallEnds(t, k) == Serve(t, k) \/ Lose(t, k) \/ AwaitRefresh(t, k)
                    \/ LoadUser(t, k) \/ LoggedIn(t, k) \/ LoggedOut(t, k) \/ Shown(t, k)
RefreshEnds(t) == ServeRefresh(t) \/ Refreshed(t)
UserStep(t) == SubmitLogin(t) \/ Work(t) \/ Logout(t) \/ RootLogout(t)
                 \/ \E s \in within[t].sites : Visit(t, s)
TabStep(t) == UserStep(t) \/ Redirect(t) \/ DoChore(t) \/ RefreshEnds(t) \/ \E k \in Slots : CallEnds(t, k)

Next == CookieLapses \/ \E t \in Tabs : TabStep(t)
Spec == Init /\ [][Next]_vars

\* A request is answered or fails, a script that has begun goes on, and the
\* event loop of a tab runs every callback that is due, though other scripts
\* of the tab come before it again and again: strong fairness.
Onward(t, k) == CallEnds(t, k) \/ (calls[t][k].at = "waiting" /\ RefreshEnds(t))
FairSpec == /\ Spec
            /\ \A t \in Tabs : WF_vars(DoChore(t))
            /\ \A t \in Tabs, k \in Slots : SF_vars(Onward(t, k))
-----------------------------------------------------------------------------
Account  == People \cup {None}
CallType == [at : {"free", "sent", "answered", "waiting"}, kind : {"me", "login", "logout", "work"},
             bearer : Account, heard : {None, "ok", "401", "403", "lost"},
             grant : Account, tries : 0..2, done : 0..2]
ChoreType == [do : {"slug", "cookie"}, arg : Schools \cup {None}] \cup [do : {"rootCookie"}, arg : {Root, None}]
               \cup [do : {"go", "load", "resume"}, arg : {None}]

\* The browser, its tabs and their requests.
TypeOK ==
  /\ within \in Trips
  /\ {token, rootToken} \subseteq Account
  /\ {slug, cookie} \subseteq Schools \cup {None} /\ rootCookie \in {Root, None}
  /\ refresh \in [Schools -> Account]
  /\ saved \in [Tabs -> Account] /\ user \in [Tabs -> Account]
  /\ at \in [Tabs -> Sites \cup {None}] /\ screen \in [Tabs -> {"none", "app", "login"}]
  /\ loading \in [Tabs -> BOOLEAN] /\ bounced \in [Tabs -> BOOLEAN]
  /\ chores \in [Tabs -> Seq(ChoreType)]
  /\ calls \in [Tabs -> [Slots -> CallType]]
  /\ fetching \in [Tabs -> [at : {"idle", "sent", "answered"}, grant : Account]]

\* Sending a request again after a 401 never makes the server do twice what
\* the user asked for once (coreFetch).
DoneOnce == \A t \in Tabs, k \in Slots : calls[t][k].done <= 1

\* The token a refresh brings is of the school of the page that waits for it:
\* no retry is refused as another school's, whatever other tabs have stored in
\* between (coreFetch goes on with the answer and not with what is stored).
RetryIsOwn ==
  \A t \in Tabs, k \in Slots : calls[t][k].tries = 2 => calls[t][k].heard # "403"

\* A page shows the name and menu of an account of its own school, even when
\* tabs of two schools have mixed one's token with the other's slug: /me with
\* such a token is refused (requireAuth).
ShownIsOfSite == \A t \in Tabs : user[t] # None => HomeOf[user[t]] = at[t]

\* "Checking the session" has a /me on its way, and a request that waits for a
\* refresh has one: no request waits for a promise that was already settled.
WaitsHaveCause ==
  \A t \in Tabs :
    /\ loading[t] => Pending(t, "me")
    /\ (\E k \in Slots : calls[t][k].at = "waiting") => fetching[t].at # "idle"

\* Every request comes to an end, through the refresh it may have to wait for,
\* unless the user reloads the page again and again.
CallsSettle ==
  \A t \in Tabs, k \in Slots :
    []<>(calls[t][k].at = "free") \/ []<><<\E s \in Sites : Visit(t, s)>>_vars
=============================================================================
