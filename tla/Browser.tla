------------------------------- MODULE Browser -------------------------------
(***************************************************************************)
(* The two browser clients' keeping of tokens: the console's authFetch     *)
(* (src/utils/fetch.ts) and the example relying party's axios interceptors *)
(* and auth store (example/src/utils/http.ts, example/src/stores/auth.ts). *)
(*                                                                         *)
(* A client's tabs share localStorage; each has its own refresh.  A        *)
(* request that is answered 401 waits for the refresh of its tab or starts *)
(* one.  Between a request and its answer anything else may happen.  The   *)
(* server is here what the clients see of it: it accepts live access       *)
(* tokens, and exchanges the one refresh token that is not yet spent.      *)
(***************************************************************************)
EXTENDS FiniteSets, Naturals

CONSTANTS
    Request,       \* the calls a page has under way
    Console, Example, \* the tabs of the console and those of the relying party
    TabCases,      \* the tabs a behaviour opens: all of one client, one origin
    Crowd,         \* calls under way together
    MaxMinted,     \* token pairs the server hands out
    MaxLost        \* refresh answers that never arrive

Tab == Console \cup Example
None == 0
NoTab == "none"
Number == 0 .. MaxMinted

ASSUME BrowserAssumption ==
    /\ MaxMinted \in Nat \ {0} /\ MaxLost \in Nat
    /\ NoTab \notin Tab /\ TabCases \subseteq SUBSET Tab

VARIABLES
    tabs,          \* the open tabs
    store,         \* localStorage: the access and the refresh token
    page,          \* a tab: refreshing, leaving for /login, the token of its store
    request,       \* a call: its step, tab, kind, token and which attempt it is
    server,        \* the live access tokens, the unspent refresh token, pairs minted
    signedIn,      \* the user signed in and has since neither asked to sign out nor
                   \* had a check of the account (GET /auth/me) fail
    crossed,       \* tabs' refreshes overlapped, or a sign-in or sign-out something else
    lost           \* refresh answers lost

browserVars == <<tabs, store, page, request, server, signedIn, crossed, lost>>

Step == {"idle", "sent", "ok", "failed", "denied", "wait", "asked", "renewed", "refused", "signed"}
Rest == [step |-> "idle", tab |-> NoTab, kind |-> "data",
         token |-> None, attempt |-> "first"]
NoTokens == [access |-> None, refresh |-> None]
Pair(n) == [access |-> n, refresh |-> n]
Closed == [refreshing |-> FALSE, leaving |-> FALSE, got |-> None, token |-> None]

BrowserTypeOK ==
    /\ tabs \in TabCases
    /\ store \in [access : Number, refresh : Number]
    /\ page \in [Tab -> [refreshing : BOOLEAN, leaving : BOOLEAN, got : Number, token : Number]]
    /\ request \in [Request -> [step : Step, tab : Tab \cup {NoTab}, kind : {"data", "check", "logout", "login"},
                                token : Number, attempt : {"first", "owner", "again"}]]
    /\ server \in [live : SUBSET Number, grant : Number, minted : Number]
    /\ signedIn \in BOOLEAN /\ crossed \in BOOLEAN
    /\ lost \in 0 .. MaxLost

BrowserInit ==
    /\ tabs \in TabCases
    /\ store = Pair(1)
    /\ page = [t \in Tab |-> IF t \in tabs THEN [Closed EXCEPT !.token = 1] ELSE Closed]
    /\ request = [r \in Request |-> Rest]
    /\ server = [live |-> {1}, grant |-> 1, minted |-> 1]
    /\ signedIn = TRUE /\ crossed = FALSE /\ lost = 0

Refreshes == {r \in Request : request[r].step \in {"asked", "renewed", "refused"}}
Calls == {r \in Request : request[r].step # "idle"}
CallsOf(t) == {r \in Calls : request[r].tab = t}
Shown(t) == t \in Console => \A r \in CallsOf(t) : request[r].kind # "check"
Room == Cardinality(Calls) < Crowd
Switches == {r \in Calls : request[r].kind \in {"logout", "login"}}

--------------------------------------------------------------------------------
(* Calls and answers                                                         *)

\* authFetch and the request interceptor read the token when the call is made;
\* the relying party's logout() takes the one its store remembers.  A page
\* checks the account when it is loaded, the relying party's profile also later;
\* the console shows nothing until the check has ended.
Send(r, t, kind) ==
    /\ request[r].step = "idle" /\ Room /\ t \in tabs /\ ~page[t].leaving
    /\ store.access # None /\ Shown(t)
    /\ kind = "check" /\ t \in Console => CallsOf(t) = {}
    /\ request' = [request EXCEPT ![r] =
          [step |-> "sent", tab |-> t, kind |-> kind, attempt |-> "first",
           token |-> IF t \in Example /\ kind = "logout" THEN page[t].token ELSE store.access]]
    /\ signedIn' = (signedIn /\ kind # "logout")
    /\ crossed' = (crossed \/ (kind = "logout" /\ Refreshes # {}))
    /\ UNCHANGED <<tabs, store, page, server, lost>>

\* The server answers.  POST /api/auth/logout revokes the access token, and, as
\* the session id and the trusted devices have it, the refresh tokens or not.
Judge(r) ==
    /\ request[r].step = "sent"
    /\ IF request[r].token \in server.live
       THEN /\ request' = [request EXCEPT ![r].step = "ok"]
            /\ \/ request[r].kind = "data" /\ UNCHANGED server
               \/ request[r].kind = "check" /\ UNCHANGED server
               \/ /\ request[r].kind = "logout"
                  /\ \E grant \in {server.grant, None} :
                        server' = [server EXCEPT !.live = @ \ {request[r].token}, !.grant = grant]
       ELSE request' = [request EXCEPT ![r].step = "denied"] /\ UNCHANGED server
    /\ UNCHANGED <<tabs, store, page, signedIn, crossed, lost>>

\* A check may also end in 403, in a 500 or without an answer.  (Other calls
\* may as well, and leave the tokens alone.)
Fail(r) ==
    /\ request[r].step = "sent" /\ request[r].kind = "check"
    /\ request' = [request EXCEPT ![r].step = "failed"]
    /\ UNCHANGED <<tabs, store, page, server, signedIn, crossed, lost>>

\* The answer ends the call: 200, or a 401 to a call that is not tried again.
\* The relying party's waiters are (they lack _retry), its logout() is not.
Final(q) ==
    \/ q.step \in {"ok", "failed"}
    \/ q.step = "denied" /\ \/ q.attempt = "owner"
                            \/ q.attempt = "again" /\ q.tab \in Console
                            \/ q.kind = "logout" /\ q.tab \in Example

Failed(q) == q.kind = "check" /\ q.step # "ok"

\* The console's refresh lasts until the retry of the call that started it is
\* answered.
Ended(p, q) == [p EXCEPT !.refreshing = @ /\ ~(q.attempt = "owner" /\ q.tab \in Console),
                         !.got = IF q.attempt = "owner" THEN None ELSE @]

\* A logout empties localStorage whatever the answer was.
Settle(r) ==
    LET q == request[r]
        p == Ended(page[q.tab], q)
    IN  /\ Final(q) /\ ~Failed(q)
        /\ request' = [request EXCEPT ![r] = Rest]
        /\ store' = IF q.kind = "logout" THEN NoTokens ELSE store
        /\ page' = [page EXCEPT ![q.tab] = [p EXCEPT !.token = IF q.kind = "logout" THEN None ELSE @]]
        /\ UNCHANGED <<tabs, server, signedIn, crossed, lost>>

\* The catch of checkAuth is a logout() that is not awaited.
LogsOut(q) == q.kind = "check" /\ q.tab \in Example
After(q) == IF LogsOut(q)
            THEN [step |-> "sent", tab |-> q.tab, kind |-> "logout", attempt |-> "first",
                  token |-> page[q.tab].token]
            ELSE Rest

\* A check that failed: the relying party signs out, whatever the failure was;
\* the console forgets its tokens on 401 and 403 alone.
CheckFails(r) ==
    LET q == request[r]
    IN  /\ Final(q) /\ Failed(q)
        /\ request' = [request EXCEPT ![r] = After(q)]
        /\ page' = [page EXCEPT ![q.tab] = Ended(@, q)]
        /\ \/ /\ store' = IF LogsOut(q) THEN store ELSE NoTokens
              /\ signedIn' = FALSE
              /\ crossed' = (crossed \/ Refreshes \ {r} # {})
           \/ /\ ~LogsOut(q) /\ q.step = "failed"
              /\ UNCHANGED <<store, signedIn, crossed>>
        /\ UNCHANGED <<tabs, server, lost>>

Unauthorized(q) == q.step = "denied" /\ ~Final(q)

\* A 401 while the tab refreshes: wait for that refresh, or retry with what it brought.
Join(r) ==
    LET q == request[r]
        p == page[q.tab]
    IN  /\ Unauthorized(q) /\ p.refreshing
        /\ request' = [request EXCEPT ![r] =
              IF p.got = None THEN [q EXCEPT !.step = "wait"]
                              ELSE [q EXCEPT !.step = "sent", !.token = p.got, !.attempt = "again"]]
        /\ UNCHANGED <<tabs, store, page, server, signedIn, crossed, lost>>

\* For a mutant: no call looks whether the tab refreshes already.
RefreshAnyway(r) ==
    LET q == request[r]
    IN  /\ Unauthorized(q) /\ store.refresh # None
        /\ page' = [page EXCEPT ![q.tab].refreshing = TRUE]
        /\ request' = [request EXCEPT ![r].step = "asked", ![r].token = store.refresh,
                                      ![r].attempt = "owner"]
        /\ crossed' = (crossed \/ Switches \ {r} # {}
                               \/ \E o \in Refreshes : request[o].tab # q.tab)
        /\ UNCHANGED <<tabs, store, server, signedIn, lost>>

\* A 401 while the tab does not: refresh with the token localStorage has now.
StartRefresh(r) ==
    LET q == request[r]
    IN  /\ Unauthorized(q) /\ ~page[q.tab].refreshing /\ store.refresh # None
        /\ page' = [page EXCEPT ![q.tab].refreshing = TRUE]
        /\ request' = [request EXCEPT ![r].step = "asked", ![r].token = store.refresh,
                                      ![r].attempt = "owner"]
        /\ crossed' = (crossed \/ Switches \ {r} # {}
                               \/ \E o \in Refreshes : request[o].tab # q.tab)
        /\ UNCHANGED <<tabs, store, server, signedIn, lost>>

\* Nothing to refresh with: the tab forgets its tokens and leaves for /login.
\* The relying party returns before its finally, so its flag stays up.
GiveUp(r) ==
    LET q == request[r]
    IN  /\ Unauthorized(q) /\ ~page[q.tab].refreshing /\ store.refresh = None
        /\ store' = NoTokens
        /\ page' = [page EXCEPT ![q.tab].leaving = TRUE, ![q.tab].refreshing = q.tab \in Example]
        /\ request' = [request EXCEPT ![r] = After(q)]
        /\ signedIn' = (signedIn /\ ~LogsOut(q))
        /\ crossed' = (crossed \/ (LogsOut(q) /\ Refreshes # {}))
        /\ UNCHANGED <<tabs, server, lost>>

--------------------------------------------------------------------------------
(* The refresh                                                               *)

\* POST /api/auth/refresh spends the refresh token for a new pair.
Renew(r) ==
    /\ request[r].step = "asked"
    /\ \/ /\ request[r].token = server.grant /\ server.minted < MaxMinted
          /\ LET n == server.minted + 1
             IN  /\ server' = [live |-> server.live \cup {n}, grant |-> n, minted |-> n]
                 /\ request' = [request EXCEPT ![r].step = "renewed", ![r].token = n]
       \/ /\ request[r].token # server.grant
          /\ request' = [request EXCEPT ![r].step = "refused"]
          /\ UNCHANGED server
    /\ UNCHANGED <<tabs, store, page, signedIn, crossed, lost>>

\* The connection fails before or after the server spent the token: to the
\* client (catch) the same as a refusal.
LoseRefresh(r) ==
    /\ request[r].step \in {"asked", "renewed"} /\ lost < MaxLost
    /\ request' = [request EXCEPT ![r].step = "refused", ![r].token = None]
    /\ lost' = lost + 1
    /\ UNCHANGED <<tabs, store, page, server, signedIn, crossed>>

WaitersOf(t) == {r \in Request : request[r].step = "wait" /\ request[r].tab = t}

\* The new pair is stored, and the call and all that waited are made again.
LandRenewed(r) ==
    LET t == request[r].tab
        n == request[r].token
    IN  /\ request[r].step = "renewed"
        /\ store' = Pair(n)
        /\ request' = [q \in Request |->
              IF q = r THEN [request[q] EXCEPT !.step = "sent"]
              ELSE IF q \in WaitersOf(t)
                   THEN [request[q] EXCEPT !.step = "sent", !.token = n, !.attempt = "again"]
                   ELSE request[q]]
        /\ page' = IF t \in Console THEN [page EXCEPT ![t].got = n]
                                    ELSE [page EXCEPT ![t].refreshing = FALSE]
        /\ UNCHANGED <<tabs, server, signedIn, crossed, lost>>

\* The tokens are dropped, every waiting call fails, and the tab leaves for /login.
LandRefused(r) ==
    LET t == request[r].tab
        ended == WaitersOf(t) \cup {r}
        out == \E q \in ended : LogsOut(request[q])
    IN  /\ request[r].step = "refused"
        /\ store' = NoTokens
        /\ request' = [q \in Request |-> IF q \in ended THEN After(request[q]) ELSE request[q]]
        /\ page' = [page EXCEPT ![t].refreshing = FALSE, ![t].leaving = TRUE]
        /\ signedIn' = (signedIn /\ ~out)
        /\ crossed' = (crossed \/ (out /\ Refreshes \ {r} # {}))
        /\ UNCHANGED <<tabs, server, lost>>

\* window.location.href = '/login' loads the page anew: its calls are gone, and
\* the relying party's store reads localStorage again.
Reload(t) ==
    /\ page[t].leaving
    /\ page' = [page EXCEPT ![t] = [Closed EXCEPT !.token = store.access]]
    /\ request' = [r \in Request |-> IF request[r].tab = t THEN Rest ELSE request[r]]
    /\ UNCHANGED <<tabs, store, server, signedIn, crossed, lost>>

--------------------------------------------------------------------------------
(* Signing in, and what happens elsewhere                                    *)

\* A sign-in of any kind (password, second factor, code exchange, LDAP) mints a pair ...
SignIn(r, t) ==
    /\ request[r].step = "idle" /\ Room /\ t \in tabs /\ ~page[t].leaving
    /\ Shown(t) /\ store.access = None /\ server.minted < MaxMinted
    /\ LET n == server.minted + 1
       IN  /\ server' = [live |-> server.live \cup {n}, grant |-> n, minted |-> n]
           /\ request' = [request EXCEPT ![r] = [step |-> "signed", tab |-> t, kind |-> "login",
                                                 token |-> n, attempt |-> "first"]]
    /\ crossed' = (crossed \/ Calls # {})
    /\ UNCHANGED <<tabs, store, page, signedIn, lost>>

\* ... which finishLogin and applySuccessfulAuth store when it arrives.
FinishLogin(r) ==
    /\ request[r].step = "signed"
    /\ store' = Pair(request[r].token)
    /\ page' = [page EXCEPT ![request[r].tab].token = request[r].token]
    /\ request' = [request EXCEPT ![r] = Rest]
    /\ signedIn' = TRUE
    /\ UNCHANGED <<tabs, server, crossed, lost>>

\* Access tokens live minutes; an administrator or a ban ends the login.
Expire ==
    /\ server.live # {} /\ server.minted < MaxMinted
    /\ server' = [server EXCEPT !.live = {}]
    /\ UNCHANGED <<tabs, store, page, request, signedIn, crossed, lost>>

EndElsewhere ==
    /\ server.grant # None
    /\ server' = [server EXCEPT !.live = {}, !.grant = None]
    /\ UNCHANGED <<tabs, store, page, request, signedIn, crossed, lost>>

BrowserNext ==
    \/ \E r \in Request :
          \/ \E t \in Tab : SignIn(r, t) \/ \E kind \in {"data", "check", "logout"} : Send(r, t, kind)
          \/ Judge(r) \/ Fail(r) \/ Settle(r) \/ CheckFails(r) \/ Join(r) \/ StartRefresh(r) \/ GiveUp(r)
          \/ Renew(r) \/ LoseRefresh(r) \/ LandRenewed(r) \/ LandRefused(r) \/ FinishLogin(r)
    \/ \E t \in Tab : Reload(t)
    \/ Expire \/ EndElsewhere

BrowserSpec == BrowserInit /\ [][BrowserNext]_browserVars

--------------------------------------------------------------------------------
(* Properties                                                                *)

Quiet == Refreshes = {} /\ Switches = {} /\ ~crossed /\ lost = 0

\* However many calls of a tab are refused at once, and however late a refusal
\* comes, they spend the refresh token once and keep its successor: a user who
\* did not sign out, and whose account no check found amiss, stays signed in for
\* as long as the server would have it (src/utils/fetch.ts: isRefreshing;
\* example/src/utils/http.ts: failedQueue).
StaysSignedIn == Quiet /\ signedIn /\ server.grant # None => store.refresh = server.grant

\* A sign-out that nothing overlapped leaves no token in the browser, whether
\* the user asked for it or a check that failed brought it about.
StaysSignedOut == Quiet /\ ~signedIn => store = NoTokens

BrowserKeepsTokens == StaysSignedIn /\ StaysSignedOut
================================================================================
