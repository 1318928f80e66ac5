------------------------------ MODULE Sessions ------------------------------
(***************************************************************************)
(* The sessions of one account: AuthService on the server, the auth        *)
(* cookies of each browser, and lib/auth.ts in each of its tabs.           *)
(*                                                                         *)
(* A refresh token names its session row and is accepted while the row     *)
(* keeps its hash; the httpOnly cookie that holds it is shared by the tabs *)
(* of a browser, `currentAuth' and `refreshPromise' are a tab's own.       *)
(* `req[q]' is a request in flight, at the server or on its way back; an   *)
(* answer may be lost, and a page may be left before it arrives.  What is   *)
(* refused for its input (a wrong password, an inactive user) makes no     *)
(* step; the device claim never differs from the row that it was taken     *)
(* from, and neither the week of the cookie nor the quarter of an hour of  *)
(* the access token is counted: a request may be answered 401 at any time. *)
(***************************************************************************)
EXTENDS Naturals

CONSTANTS
    Browsers, Tabs, BrowserOf,
    Sessions,   \* session rows that may be created
    Serials,    \* bound: refresh tokens of one session that are in play at once
    Reqs,       \* HTTP requests in flight
    NoToken,    \* a cookie jar without a refresh token
    NoTab       \* the sender of a request that nobody waits for any more

ASSUME SessionsAssumption ==
    /\ BrowserOf \in [Tabs -> Browsers]
    /\ NoTab \notin Tabs
    /\ NoToken \notin [sid : Sessions, n : Nat]
    /\ Serials \subseteq Nat \ {0}

VARIABLES
    row,        \* the session rows
    jar,        \* each browser's refresh cookie
    marker,     \* each browser's tchuno_session_present cookie
    tab,        \* the module state of lib/auth.ts, and the form, in each tab
    req,        \* requests in flight
    ended,      \* sessions that a user or the reuse detection has ended (history)
    alarmed,    \* sessions that the reuse detection has ended (history)
    contended   \* sessions of which two requests were in flight at once, or
                \* whose latest token was lost on its way (history)

vars == <<row, jar, marker, tab, req, ended, alarmed, contended>>

NoRow == [revoked |-> "never"]
Idle  == [pc |-> "idle"]
Fresh == [auth |-> FALSE, refreshing |-> FALSE, form |-> "idle"]

\* A row that was just created has the hash of no token, which 0 stands for.
Unissued(s) == [sid |-> s, n |-> 0]

Exists(s)  == row[s] # NoRow
Current(k) == row[k.sid].hash = k.n
At(q, pc)  == req[q].pc = pc
Free(q)    == At(q, "idle")
Goto(q, step) == req' = [req EXCEPT ![q] = step]

Init ==
    /\ row = [s \in Sessions |-> NoRow]
    /\ jar = [b \in Browsers |-> NoToken]
    /\ marker = [b \in Browsers |-> FALSE]
    /\ tab = [t \in Tabs |-> Fresh]
    /\ req = [q \in Reqs |-> Idle]
    /\ ended = {} /\ alarmed = {} /\ contended = {}

\* A request that carries, or will bring back, a token of s.
Carries(q, s) == /\ ~Free(q)
                 /\ req[q].token # NoToken
                 /\ req[q].token.sid = s

\* Of the two requests of one tab only a refresh and a logout count: that it
\* never sends two refreshes at once is for lib/auth.ts to see to.
Overlaps(t, kind, s) ==
    \E q \in Reqs : Carries(q, s) /\ (req[q].tab # t \/ req[q].kind # kind)

Contending(t, kind, token) ==
    contended' = IF token # NoToken /\ Overlaps(t, kind, token.sid)
                 THEN contended \union {token.sid} ELSE contended

-----------------------------------------------------------------------------
(* What a tab sends. *)

Send(q, t, kind, pc) ==
    LET token == jar[BrowserOf[t]]
    IN  /\ Free(q)
        /\ Goto(q, [pc |-> pc, kind |-> kind, tab |-> t, browser |-> BrowserOf[t],
                    token |-> token])
        /\ Contending(t, kind, token)

\* Mutant: a caller does not wait for the refresh that is on its way.
RefreshAgain(q, t) ==
    /\ Send(q, t, "refresh", "read")
    /\ tab' = [tab EXCEPT ![t].refreshing = TRUE]
    /\ UNCHANGED <<row, jar, marker, ended, alarmed>>

\* One refresh for all who ask while it is on its way.
RefreshSession(q, t) ==
    /\ ~tab[t].refreshing
    /\ Send(q, t, "refresh", "read")
    /\ tab' = [tab EXCEPT ![t].refreshing = TRUE]
    /\ UNCHANGED <<row, jar, marker, ended, alarmed>>

\* A page that loads asks only if there is a trace of a session, but any
\* request that is answered 401 asks.
EnsureSession(q, t) == (tab[t].auth \/ marker[BrowserOf[t]]) /\ RefreshSession(q, t)
ApiFetch(q, t)      == RefreshSession(q, t)

Login(q, t) ==
    /\ tab[t].form = "idle"
    /\ Free(q)
    /\ Goto(q, [pc |-> "create", kind |-> "login", tab |-> t, browser |-> BrowserOf[t],
                token |-> NoToken])
    /\ tab' = [tab EXCEPT ![t].form = "login"]
    /\ UNCHANGED <<row, jar, marker, ended, alarmed, contended>>

HandleLogout(q, t) ==
    /\ tab[t].form = "idle"
    /\ Send(q, t, "logout", "end")
    /\ tab' = [tab EXCEPT ![t].form = "logout"]
    /\ UNCHANGED <<row, jar, marker, ended, alarmed>>

-----------------------------------------------------------------------------
(* What the server does with it.  A token that is issued differs from every *)
(* token of its session that somebody still holds.                          *)

InPlay(s, n) ==
    \/ row[s].hash = n
    \/ \E b \in Browsers : jar[b] = [sid |-> s, n |-> n]
    \/ \E q \in Reqs : ~Free(q) /\ req[q].token = [sid |-> s, n |-> n]

Issuable(s) == \E n \in Serials : ~InPlay(s, n)
NewToken(s) == [sid |-> s, n |-> CHOOSE n \in Serials : ~InPlay(s, n)]

Answer(q, token) ==
    Goto(q, [req[q] EXCEPT !.pc = "answer", !.token = token])

CreateSession(q) ==
    /\ At(q, "create")
    /\ \E s \in Sessions :
         /\ ~Exists(s)
         /\ row' = [row EXCEPT ![s] = [hash |-> 0, revoked |-> FALSE]]
         /\ Goto(q, [req[q] EXCEPT !.pc = "issue", !.token = Unissued(s)])
    /\ UNCHANGED <<jar, marker, tab, ended, alarmed, contended>>

\* The second half of issueTokens is an update by id: it writes the new hash,
\* and clears revokedAt, whatever the row has become.
Issued(s, token) == row' = [row EXCEPT ![s] = [hash |-> token.n, revoked |-> FALSE]]

\* For a login, and for a refresh that has read its session.
IssueTokens(q) ==
    LET s == req[q].token.sid
    IN  /\ At(q, "issue")
        /\ Issuable(s)
        /\ Issued(s, NewToken(s))
        /\ Answer(q, NewToken(s))
        /\ UNCHANGED <<jar, marker, tab, ended, alarmed, contended>>

\* Mutant: the read of a refresh does not look at revokedAt.
IsNeverRevoked(k) == FALSE

IsRevoked(k) == row[k.sid].revoked

\* The read of a refresh: no token or a revoked session, a token that was
\* rotated away, or the current one.
ReadSession(q) ==
    LET k == req[q].token
    IN  /\ At(q, "read")
        /\ \/ /\ k # NoToken => IsRevoked(k)
              /\ Answer(q, NoToken)
           \/ /\ k # NoToken /\ ~IsRevoked(k) /\ ~Current(k)
              /\ Goto(q, [req[q] EXCEPT !.pc = "revoke"])
           \/ /\ k # NoToken /\ ~IsRevoked(k) /\ Current(k)
              /\ Goto(q, [req[q] EXCEPT !.pc = "issue"])
        /\ UNCHANGED <<row, jar, marker, tab, ended, alarmed, contended>>

\* Ending sessions, and the refreshes that have read one of them before.
EndSessions(ids) ==
    /\ row' = [s \in Sessions |->
                 IF s \in ids /\ Exists(s) THEN [row[s] EXCEPT !.revoked = TRUE] ELSE row[s]]
    /\ ended' = ended \union {s \in ids : Exists(s)}

MetInFlight(ids, others) == {s \in ids : \E q \in others : Carries(q, s)}

RevokeSessionChain(q) ==
    LET s == req[q].token.sid
    IN  /\ At(q, "revoke")
        /\ EndSessions({s})
        /\ alarmed' = alarmed \union {s}
        /\ contended' = contended \union MetInFlight({s}, Reqs \ {q})
        /\ Answer(q, NoToken)
        /\ UNCHANGED <<jar, marker, tab>>

\* Logout finds its session by the hash of the token that it carries.
Logout(q) ==
    LET k == req[q].token
    IN  /\ At(q, "end")
        /\ IF k # NoToken /\ Current(k)
           THEN EndSessions({k.sid}) ELSE UNCHANGED <<row, ended>>
        /\ Answer(q, NoToken)
        /\ UNCHANGED <<jar, marker, tab, alarmed, contended>>

\* By its owner, from the list of sessions on any device.
RevokeSession(s) ==
    /\ Exists(s)
    /\ EndSessions({s})
    /\ contended' = contended \union MetInFlight({s}, Reqs)
    /\ UNCHANGED <<jar, marker, tab, req, alarmed>>

\* The answer clears the cookies of the browser that asked.
LogoutAll(b) ==
    /\ EndSessions(Sessions)
    /\ contended' = contended \union MetInFlight(Sessions, Reqs)
    /\ jar' = [jar EXCEPT ![b] = NoToken]
    /\ marker' = [marker EXCEPT ![b] = FALSE]
    /\ UNCHANGED <<tab, req, alarmed>>

-----------------------------------------------------------------------------
(* The answer: applyAuthCookies or clearAuthCookies, then the tab's own      *)
(* saveTokens or clearTokens.                                                *)

Cookies(b, token) ==
    /\ jar' = [jar EXCEPT ![b] = token]
    /\ marker' = [marker EXCEPT ![b] = token # NoToken]

\* The page is left, and nobody waits for its requests any more.
Left(t) == [tab EXCEPT ![t] = Fresh]
Orphaned(t) ==
    [q \in Reqs |-> IF ~Free(q) /\ req[q].tab = t THEN [req[q] EXCEPT !.tab = NoTab] ELSE req[q]]

\* Mutant: refreshPromise is reset only after a success.
SettledOnSuccess(t, ok) ==
    IF ok THEN [tab[t] EXCEPT !.auth = TRUE, !.refreshing = FALSE]
    ELSE [tab[t] EXCEPT !.auth = FALSE]

Settled(t, ok) == [tab[t] EXCEPT !.auth = ok, !.refreshing = FALSE]

RefreshAnswered(q) ==
    /\ At(q, "answer") /\ req[q].kind = "refresh" /\ req[q].tab # NoTab
    /\ Cookies(req[q].browser, req[q].token)
    /\ tab' = [tab EXCEPT ![req[q].tab] = Settled(req[q].tab, req[q].token # NoToken)]
    /\ Goto(q, Idle)
    /\ UNCHANGED <<row, ended, alarmed, contended>>

LoginAnswered(q) ==
    /\ At(q, "answer") /\ req[q].kind = "login" /\ req[q].tab # NoTab
    /\ Cookies(req[q].browser, req[q].token)
    /\ tab' = [tab EXCEPT ![req[q].tab].auth = TRUE, ![req[q].tab].form = "idle"]
    /\ Goto(q, Idle)
    /\ UNCHANGED <<row, ended, alarmed, contended>>

\* The logout button goes on to the login page, answered or not.
LogoutAnswered(q) ==
    /\ At(q, "answer") /\ req[q].kind = "logout" /\ req[q].tab # NoTab
    /\ Cookies(req[q].browser, NoToken)
    /\ tab' = Left(req[q].tab)
    /\ req' = [Orphaned(req[q].tab) EXCEPT ![q] = Idle]
    /\ UNCHANGED <<row, ended, alarmed, contended>>

\* The fetch of a waiting tab throws: the request may have been lost, may
\* still be served, or may have been answered.
GiveUp(q) ==
    LET t == req[q].tab
    IN  /\ ~Free(q) /\ t # NoTab
        /\ \/ /\ req[q].kind = "refresh"
              /\ tab' = [tab EXCEPT ![t] = Settled(t, FALSE)]
              /\ marker' = [marker EXCEPT ![BrowserOf[t]] = FALSE]
              /\ Goto(q, [req[q] EXCEPT !.tab = NoTab])
           \/ /\ req[q].kind = "login"
              /\ tab' = [tab EXCEPT ![t].form = "idle"]
              /\ Goto(q, [req[q] EXCEPT !.tab = NoTab])
              /\ UNCHANGED marker
           \/ /\ req[q].kind = "logout"
              /\ tab' = Left(t)
              /\ marker' = [marker EXCEPT ![BrowserOf[t]] = FALSE]
              /\ req' = Orphaned(t)
        /\ UNCHANGED <<row, jar, ended, alarmed, contended>>

\* An answer that nobody waits for: its cookies are taken, or it is dropped;
\* so is a request that never arrived.
LateAnswer(q) ==
    /\ At(q, "answer") /\ req[q].tab = NoTab
    /\ Cookies(req[q].browser, req[q].token)
    /\ Goto(q, Idle)
    /\ UNCHANGED <<row, tab, ended, alarmed, contended>>

Drop(q) ==
    /\ req[q].pc \in {"read", "create", "end", "answer"} /\ req[q].tab = NoTab
    /\ contended' = IF At(q, "answer") /\ req[q].token # NoToken
                    THEN contended \union {req[q].token.sid} ELSE contended
    /\ Goto(q, Idle)
    /\ UNCHANGED <<row, jar, marker, tab, ended, alarmed>>

\* The tab is closed, reloaded or navigated.
Reload(t) ==
    /\ tab' = Left(t)
    /\ req' = Orphaned(t)
    /\ UNCHANGED <<row, jar, marker, ended, alarmed, contended>>

-----------------------------------------------------------------------------
Serve(q) == \/ CreateSession(q) \/ IssueTokens(q) \/ ReadSession(q)
            \/ RevokeSessionChain(q) \/ Logout(q)

Arrive(q) == \/ RefreshAnswered(q) \/ LoginAnswered(q) \/ LogoutAnswered(q)
             \/ GiveUp(q) \/ LateAnswer(q) \/ Drop(q)

Next ==
    \/ \E q \in Reqs : \/ Serve(q) \/ Arrive(q)
                       \/ \E t \in Tabs : \/ EnsureSession(q, t) \/ ApiFetch(q, t)
                                            \/ Login(q, t) \/ HandleLogout(q, t)
    \/ \E s \in Sessions : RevokeSession(s)
    \/ \E b \in Browsers : LogoutAll(b)
    \/ \E t \in Tabs : Reload(t)

Spec == Init /\ [][Next]_vars

\* The server works on what it has received, and a fetch ends, with an answer
\* or with an error.
Fairness == \A q \in Reqs : WF_vars(Serve(q)) /\ WF_vars(Arrive(q))

FairSpec == Spec /\ Fairness

-----------------------------------------------------------------------------
\* The reuse detection never ends a session over the rotation of an honest
\* client: that takes two tabs at once, a logout in the middle of a refresh,
\* or an answer that got lost.
NoFalseAlarm == alarmed \subseteq contended

\* A session that was ended is not refreshed any more, by whatever cookies are
\* still around: only a refresh that was under way may bring it back.
RevocationSticks == \A s \in ended \ contended : row[s].revoked

\* Whoever waits for refreshPromise gets an answer: it is reset however the
\* refresh ends.
RefreshEnds == \A t \in Tabs : tab[t].refreshing ~> ~tab[t].refreshing
=============================================================================
