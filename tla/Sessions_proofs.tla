--------------------------- MODULE Sessions_proofs ---------------------------
(***************************************************************************)
(* That no rotation of an honest client sets off the reuse detection and   *)
(* that a session that was ended stays so, for any number of browsers,     *)
(* tabs, sessions and requests.                                            *)
(*                                                                         *)
(* Both are about a session that is not contended.  Of such a session at   *)
(* most one request is in flight, and the token that a browser holds is    *)
(* the current one unless the answer with the next is on its way to it.    *)
(***************************************************************************)
EXTENDS Sessions, TLAPS

USE SessionsAssumption

Tokens == [sid : Sessions, n : Nat]
Rows   == [hash : Nat, revoked : BOOLEAN]
Calls  == [pc : {"create", "issue", "read", "revoke", "end", "answer"},
           kind : {"refresh", "login", "logout"},
           tab : Tabs \union {NoTab}, browser : Browsers, token : Tokens \union {NoToken}]
TabStates == [auth : BOOLEAN, refreshing : BOOLEAN, form : {"idle", "login", "logout"}]

Typed ==
    /\ row \in [Sessions -> Rows \union {NoRow}]
    /\ jar \in [Browsers -> Tokens \union {NoToken}]
    /\ tab \in [Tabs -> TabStates]
    /\ req \in [Reqs -> Calls \union {Idle}]
    /\ ended \subseteq Sessions /\ alarmed \subseteq Sessions

\* What each step has in hand.
StepFits(q) ==
    /\ At(q, "create") => req[q].kind = "login" /\ req[q].token = NoToken
    /\ At(q, "read")   => req[q].kind = "refresh"
    /\ At(q, "issue")  => req[q].kind # "logout" /\ req[q].token # NoToken
    /\ At(q, "revoke") => req[q].token # NoToken
    /\ At(q, "answer") /\ req[q].kind = "logout" => req[q].token = NoToken

StepsFit == \A q \in Reqs : StepFits(q)

\* A tab waits for one refresh, and for what its form has sent.
Awaits(t, kind) == IF kind = "refresh" THEN tab[t].refreshing ELSE tab[t].form = kind
Waiting(q, t)   == ~Free(q) /\ req[q].tab = t

TabsWait ==
    \A t \in Tabs :
        /\ \A q \in Reqs : Waiting(q, t) => Awaits(t, req[q].kind)
        /\ \A q, p \in Reqs : Waiting(q, t) /\ Waiting(p, t) /\ req[q].kind = req[p].kind => q = p

\* Tokens name sessions that exist, as do the histories.
Holds(b, s) == jar[b] # NoToken /\ jar[b].sid = s

SessionsExist ==
    /\ \A s \in ended : Exists(s)
    /\ \A s \in Sessions : /\ \A b \in Browsers : Holds(b, s) => Exists(s)
                           /\ \A q \in Reqs : Carries(q, s) => Exists(s)

\* A session of which one request at most is in flight.
Quiet(s) ==
    /\ \A q, p \in Reqs : Carries(q, s) /\ Carries(p, s) => q = p
    /\ \A b, c \in Browsers : Holds(b, s) /\ Holds(c, s) => b = c
    /\ \A b \in Browsers, q \in Reqs : Holds(b, s) /\ Carries(q, s) => req[q].browser = b
    /\ \A b \in Browsers : Holds(b, s) =>
         Current(jar[b]) \/ \E q \in Reqs : Carries(q, s) /\ At(q, "answer")
    /\ \A q \in Reqs : Carries(q, s) =>
         /\ ~At(q, "revoke")
         /\ req[q].pc \in {"read", "answer"} => Current(req[q].token)
         /\ At(q, "issue") => s \notin ended
    /\ s \in ended => row[s].revoked

QuietUnlessContended == \A s \in Sessions \ contended : Quiet(s)

IndInv == Typed /\ StepsFit /\ TabsWait /\ SessionsExist /\ QuietUnlessContended /\ NoFalseAlarm

-----------------------------------------------------------------------------
(* Types. *)

LEMMA CallsTyped ==
    ASSUME Typed, NEW q \in Reqs
    PROVE  /\ Free(q) <=> req[q] = Idle
           /\ ~Free(q) <=> req[q] \in Calls
  BY DEF Typed, Free, At, Idle, Calls

LEMMA RowsTyped ==
    ASSUME Typed, NEW s \in Sessions
    PROVE  Exists(s) <=> row[s] \in Rows
<1>1. NoRow \notin Rows
  <2> SUFFICES ASSUME NoRow \in Rows PROVE FALSE
    OBVIOUS
  <2> QED
    BY DEF NoRow, Rows
<1> QED
  BY <1>1 DEF Typed, Exists

\* The next thing in hand of a request that is in flight.
LEMMA CallsMove ==
    ASSUME NEW call \in Calls
    PROVE  /\ \A pc \in {"issue", "revoke"} : [call EXCEPT !.pc = pc] \in Calls
           /\ \A token \in Tokens \union {NoToken} :
                [call EXCEPT !.pc = "answer", !.token = token] \in Calls
           /\ \A token \in Tokens : [call EXCEPT !.pc = "issue", !.token = token] \in Calls
           /\ [call EXCEPT !.tab = NoTab] \in Calls
  BY DEF Calls

LEMMA GotoTyped ==
    ASSUME Typed, NEW q \in Reqs, NEW step \in Calls \union {Idle}, Goto(q, step)
    PROVE  /\ req' \in [Reqs -> Calls \union {Idle}]
           /\ req'[q] = step
           /\ \A p \in Reqs \ {q} : req'[p] = req[p]
  BY DEF Typed, Goto

\* Where a request is decides whether it is in flight.
LEMMA InFlight ==
    ASSUME Typed, NEW q \in Reqs, NEW pc \in {"create", "issue", "read", "revoke", "end", "answer"},
           At(q, pc)
    PROVE  ~Free(q) /\ req[q] \in Calls
<1>1. ~Free(q)
  BY DEF At, Free
<1> QED
  BY <1>1, CallsTyped

\* Orphaned takes nothing but the tab from what it changes.
LEMMA OrphanedKeeps ==
    ASSUME Typed, NEW t \in Tabs
    PROVE  /\ Orphaned(t) \in [Reqs -> Calls \union {Idle}]
           /\ \A q \in Reqs :
                /\ Free(q) => Orphaned(t)[q] = Idle
                /\ ~Free(q) =>
                     /\ Orphaned(t)[q] \in Calls
                     /\ Orphaned(t)[q].pc = req[q].pc
                     /\ Orphaned(t)[q].kind = req[q].kind
                     /\ Orphaned(t)[q].browser = req[q].browser
                     /\ Orphaned(t)[q].token = req[q].token
                     /\ Orphaned(t)[q].tab = IF req[q].tab = t THEN NoTab ELSE req[q].tab
<1>1. ASSUME NEW q \in Reqs, Free(q) PROVE Orphaned(t)[q] = Idle
  BY <1>1, CallsTyped DEF Orphaned
<1>2. ASSUME NEW q \in Reqs, ~Free(q)
      PROVE  /\ Orphaned(t)[q] \in Calls
             /\ Orphaned(t)[q].pc = req[q].pc
             /\ Orphaned(t)[q].kind = req[q].kind
             /\ Orphaned(t)[q].browser = req[q].browser
             /\ Orphaned(t)[q].token = req[q].token
             /\ Orphaned(t)[q].tab = IF req[q].tab = t THEN NoTab ELSE req[q].tab
  <2>1. req[q] \in Calls
    BY <1>2, CallsTyped
  <2>2. CASE req[q].tab = t
    <3>1. Orphaned(t)[q] = [req[q] EXCEPT !.tab = NoTab]
      BY <1>2, <2>2 DEF Orphaned
    <3> QED
      BY <2>1, <2>2, <3>1 DEF Calls
  <2>3. CASE req[q].tab # t
    <3>1. Orphaned(t)[q] = req[q]
      BY <1>2, <2>3 DEF Orphaned
    <3> QED
      BY <2>1, <2>3, <3>1
  <2> QED
    BY <2>2, <2>3
<1>3. Orphaned(t) = [q \in Reqs |-> Orphaned(t)[q]]
  BY DEF Orphaned
<1> QED
  BY <1>1, <1>2, <1>3

LEMMA TokenIssued ==
    ASSUME NEW s \in Sessions, Issuable(s)
    PROVE  NewToken(s) \in Tokens /\ NewToken(s).sid = s
<1>1. (CHOOSE n \in Serials : ~InPlay(s, n)) \in Nat
  BY DEF Issuable
<1> QED
  BY <1>1 DEF NewToken, Tokens

LEMMA InitTyped == Init => Typed
  BY DEF Init, Typed, Fresh, TabStates

\* A request that is sent, for all that a tab sends.
LEMMA SentTyped ==
    ASSUME Typed, NEW q \in Reqs, NEW t \in Tabs, NEW kind \in {"refresh", "logout"},
           NEW pc \in {"read", "end"}, Send(q, t, kind, pc)
    PROVE  /\ req' \in [Reqs -> Calls \union {Idle}]
           /\ req'[q].pc = pc /\ req'[q].kind = kind /\ req'[q].tab = t
           /\ req'[q].browser = BrowserOf[t] /\ req'[q].token = jar[BrowserOf[t]]
           /\ \A p \in Reqs \ {q} : req'[p] = req[p]
<1> DEFINE step == [pc |-> pc, kind |-> kind, tab |-> t, browser |-> BrowserOf[t],
                    token |-> jar[BrowserOf[t]]]
<1>1. step \in Calls
  BY DEF Typed, Calls
<1>2. Goto(q, step)
  BY DEF Send
<1>3. /\ req' \in [Reqs -> Calls \union {Idle}] /\ req'[q] = step
      /\ \A p \in Reqs \ {q} : req'[p] = req[p]
  BY <1>1, <1>2, GotoTyped
<1> QED
  BY <1>3

\* One request goes on, and has in hand what its step needs.
LEMMA OneFits ==
    ASSUME StepsFit, NEW q \in Reqs, StepFits(q)', \A p \in Reqs \ {q} : req'[p] = req[p]
    PROVE  StepsFit'
<1> SUFFICES ASSUME NEW p \in Reqs, p # q PROVE StepFits(p)'
  BY DEF StepsFit
<1> QED
  BY DEF StepsFit, StepFits, At

LEMMA TabActionTyped ==
    ASSUME Typed, StepsFit, NEW q \in Reqs, NEW t \in Tabs,
           EnsureSession(q, t) \/ ApiFetch(q, t) \/ Login(q, t) \/ HandleLogout(q, t)
    PROVE  Typed' /\ StepsFit'
<1>1. CASE RefreshSession(q, t)
  <2>1. Send(q, t, "refresh", "read")
    BY <1>1 DEF RefreshSession
  <2>2. /\ req' \in [Reqs -> Calls \union {Idle}]
        /\ req'[q].pc = "read" /\ req'[q].kind = "refresh"
        /\ \A p \in Reqs \ {q} : req'[p] = req[p]
    BY <2>1, SentTyped
  <2>3. Typed'
    BY <1>1, <2>2 DEF RefreshSession, Typed, TabStates
  <2>4. StepFits(q)'
    BY <2>2 DEF StepFits, At
  <2> QED
    BY <2>2, <2>3, <2>4, OneFits
<1>2. CASE Login(q, t)
  <2> DEFINE step == [pc |-> "create", kind |-> "login", tab |-> t,
                      browser |-> BrowserOf[t], token |-> NoToken]
  <2>1. step \in Calls /\ Goto(q, step)
    BY <1>2 DEF Login, Calls
  <2>2. req' \in [Reqs -> Calls \union {Idle}] /\ req'[q] = step
        /\ \A p \in Reqs \ {q} : req'[p] = req[p]
    BY <2>1, GotoTyped
  <2>3. Typed'
    BY <1>2, <2>2 DEF Login, Typed, TabStates
  <2>4. StepFits(q)'
    BY <2>2 DEF StepFits, At
  <2> QED
    BY <2>2, <2>3, <2>4, OneFits
<1>3. CASE HandleLogout(q, t)
  <2>1. Send(q, t, "logout", "end")
    BY <1>3 DEF HandleLogout
  <2>2. /\ req' \in [Reqs -> Calls \union {Idle}]
        /\ req'[q].pc = "end" /\ req'[q].kind = "logout"
        /\ \A p \in Reqs \ {q} : req'[p] = req[p]
    BY <2>1, SentTyped
  <2>3. Typed'
    BY <1>3, <2>2 DEF HandleLogout, Typed, TabStates
  <2>4. StepFits(q)'
    BY <2>2 DEF StepFits, At
  <2> QED
    BY <2>2, <2>3, <2>4, OneFits
<1> QED
  BY <1>1, <1>2, <1>3 DEF EnsureSession, ApiFetch

\* Answer leaves everything of the request but its step and its token.
LEMMA AnswerTyped ==
    ASSUME Typed, NEW q \in Reqs, ~Free(q), NEW token \in Tokens \union {NoToken}, Answer(q, token)
    PROVE  /\ req' \in [Reqs -> Calls \union {Idle}]
           /\ req'[q] = [req[q] EXCEPT !.pc = "answer", !.token = token]
           /\ \A p \in Reqs \ {q} : req'[p] = req[p]
  BY CallsTyped, CallsMove, GotoTyped DEF Answer

LEMMA EndedTyped ==
    ASSUME Typed, NEW ids \in SUBSET Sessions, EndSessions(ids)
    PROVE  /\ row' \in [Sessions -> Rows \union {NoRow}]
           /\ ended' \subseteq Sessions
           /\ \A s \in Sessions : /\ Exists(s)' <=> Exists(s)
                                  /\ row'[s].hash = row[s].hash
                                  /\ s \in ended' <=> s \in ended \/ (s \in ids /\ Exists(s))
                                  /\ s \in ids /\ Exists(s) => row'[s].revoked
                                  /\ s \notin ids => row'[s] = row[s]
<1>1. ASSUME NEW s \in Sessions
      PROVE  /\ row'[s] \in Rows \union {NoRow}
             /\ Exists(s)' <=> Exists(s)
             /\ row'[s].hash = row[s].hash
             /\ s \in ids /\ Exists(s) => row'[s].revoked
             /\ s \notin ids => row'[s] = row[s]
  <2>1. CASE s \in ids /\ Exists(s)
    <3>1. row'[s] = [row[s] EXCEPT !.revoked = TRUE] /\ row[s] \in Rows
      BY <2>1, RowsTyped DEF EndSessions
    <3>2. row'[s] \in Rows /\ row'[s].hash = row[s].hash /\ row'[s].revoked
      BY <3>1 DEF Rows
    <3>3. row'[s] # NoRow
      BY <3>2 DEF NoRow, Rows
    <3> QED
      BY <2>1, <3>2, <3>3 DEF Exists
  <2>2. CASE ~(s \in ids /\ Exists(s))
    <3>1. row'[s] = row[s]
      BY <2>2 DEF EndSessions
    <3> QED
      BY <2>2, <3>1 DEF Typed, Exists
  <2> QED
    BY <2>1, <2>2
<1>2. row' = [s \in Sessions |-> row'[s]]
  BY DEF EndSessions
<1> QED
  BY <1>1, <1>2 DEF EndSessions, Typed

\* The server answers.
LEMMA AnswerFits ==
    ASSUME Typed, StepsFit, NEW q \in Reqs, ~Free(q), NEW token \in Tokens \union {NoToken},
           token = NoToken \/ req[q].kind # "logout", Answer(q, token)
    PROVE  req' \in [Reqs -> Calls \union {Idle}] /\ StepsFit'
<1>1. /\ req' \in [Reqs -> Calls \union {Idle}]
      /\ req'[q] = [req[q] EXCEPT !.pc = "answer", !.token = token]
      /\ \A p \in Reqs \ {q} : req'[p] = req[p]
  BY AnswerTyped
<1>2. req[q] \in Calls
  BY CallsTyped
<1>3. req'[q].pc = "answer" /\ req'[q].token = token /\ req'[q].kind = req[q].kind
  BY <1>1, <1>2 DEF Calls
<1>4. StepFits(q)'
  BY <1>3 DEF StepFits, At
<1> QED
  BY <1>1, <1>4, OneFits

LEMMA ServeTyped ==
    ASSUME Typed, StepsFit, NEW q \in Reqs, Serve(q)
    PROVE  Typed' /\ StepsFit'
<1>0. StepFits(q)
  BY DEF StepsFit
<1>1. CASE CreateSession(q)
  <2>1. ~Free(q) /\ req[q] \in Calls
    BY <1>1, InFlight DEF CreateSession
  <2>2. PICK s \in Sessions :
          /\ row' = [row EXCEPT ![s] = [hash |-> 0, revoked |-> FALSE]]
          /\ Goto(q, [req[q] EXCEPT !.pc = "issue", !.token = Unissued(s)])
    BY <1>1 DEF CreateSession
  <2>3. Unissued(s) \in Tokens
    BY DEF Unissued, Tokens
  <2>4. [req[q] EXCEPT !.pc = "issue", !.token = Unissued(s)] \in Calls
    BY <2>1, <2>3, CallsMove
  <2>5. /\ req' \in [Reqs -> Calls \union {Idle}]
        /\ req'[q] = [req[q] EXCEPT !.pc = "issue", !.token = Unissued(s)]
        /\ \A p \in Reqs \ {q} : req'[p] = req[p]
    BY <2>2, <2>4, GotoTyped
  <2>6. req'[q].pc = "issue" /\ req'[q].token # NoToken /\ req'[q].kind = "login"
    BY <1>0, <1>1, <2>1, <2>3, <2>5 DEF CreateSession, StepFits, Calls, Tokens
  <2>7. StepFits(q)'
    BY <2>6 DEF StepFits, At
  <2>8. [hash |-> 0, revoked |-> FALSE] \in Rows
    BY DEF Rows
  <2>9. row' \in [Sessions -> Rows \union {NoRow}]
    BY <2>2, <2>8 DEF Typed
  <2> QED
    BY <1>1, <2>5, <2>7, <2>9, OneFits DEF CreateSession, Typed
<1>2. CASE IssueTokens(q)
  <2> DEFINE s == req[q].token.sid
  <2>1. ~Free(q) /\ req[q] \in Calls /\ At(q, "issue")
    BY <1>2, InFlight DEF IssueTokens
  <2>2. req[q].token \in Tokens /\ s \in Sessions /\ req[q].kind # "logout"
    BY <1>0, <2>1 DEF StepFits, Calls, Tokens
  <2>3. NewToken(s) \in Tokens /\ Issued(s, NewToken(s)) /\ Answer(q, NewToken(s))
    BY <1>2, <2>2, TokenIssued DEF IssueTokens
  <2>4. req' \in [Reqs -> Calls \union {Idle}] /\ StepsFit'
    BY <2>1, <2>2, <2>3, AnswerFits
  <2>5. [hash |-> NewToken(s).n, revoked |-> FALSE] \in Rows
    BY <2>3 DEF Tokens, Rows
  <2>6. row' \in [Sessions -> Rows \union {NoRow}]
    BY <2>2, <2>3, <2>5 DEF Issued, Typed
  <2> QED
    BY <1>2, <2>4, <2>6 DEF IssueTokens, Typed
<1>3. CASE ReadSession(q)
  <2>1. ~Free(q) /\ req[q] \in Calls /\ At(q, "read")
    BY <1>3, InFlight DEF ReadSession
  <2>2. req' \in [Reqs -> Calls \union {Idle}] /\ StepsFit'
    <3>1. CASE Answer(q, NoToken)
      BY <2>1, <3>1, AnswerFits
    <3>2. ASSUME NEW pc \in {"issue", "revoke"}, req[q].token # NoToken,
                 Goto(q, [req[q] EXCEPT !.pc = pc])
          PROVE  req' \in [Reqs -> Calls \union {Idle}] /\ StepsFit'
      <4>1. /\ req' \in [Reqs -> Calls \union {Idle}]
            /\ req'[q] = [req[q] EXCEPT !.pc = pc]
            /\ \A p \in Reqs \ {q} : req'[p] = req[p]
        BY <2>1, <3>2, CallsMove, GotoTyped
      <4>2. req'[q].pc = pc /\ req'[q].token # NoToken /\ req'[q].kind = "refresh"
        BY <1>0, <2>1, <3>2, <4>1 DEF StepFits, Calls
      <4>3. StepFits(q)'
        BY <4>2 DEF StepFits, At
      <4> QED
        BY <4>1, <4>3, OneFits
    <3> QED
      BY <1>3, <3>1, <3>2 DEF ReadSession
  <2> QED
    BY <1>3, <2>2 DEF ReadSession, Typed
<1>4. CASE RevokeSessionChain(q)
  <2>1. ~Free(q) /\ req[q] \in Calls /\ At(q, "revoke")
    BY <1>4, InFlight DEF RevokeSessionChain
  <2>2. req[q].token.sid \in Sessions
    BY <1>0, <2>1 DEF StepFits, Calls, Tokens
  <2>3. req' \in [Reqs -> Calls \union {Idle}] /\ StepsFit'
    BY <1>4, <2>1, AnswerFits DEF RevokeSessionChain
  <2>4. row' \in [Sessions -> Rows \union {NoRow}] /\ ended' \subseteq Sessions
    BY <1>4, <2>2, EndedTyped DEF RevokeSessionChain
  <2> QED
    BY <1>4, <2>2, <2>3, <2>4 DEF RevokeSessionChain, Typed
<1>5. CASE Logout(q)
  <2>1. ~Free(q) /\ req[q] \in Calls
    BY <1>5, InFlight DEF Logout
  <2>2. req' \in [Reqs -> Calls \union {Idle}] /\ StepsFit'
    BY <1>5, <2>1, AnswerFits DEF Logout
  <2>3. row' \in [Sessions -> Rows \union {NoRow}] /\ ended' \subseteq Sessions
    <3>1. CASE req[q].token # NoToken /\ Current(req[q].token)
      <4>1. req[q].token.sid \in Sessions
        BY <2>1, <3>1 DEF Calls, Tokens
      <4> QED
        BY <1>5, <3>1, <4>1, EndedTyped DEF Logout
    <3>2. CASE ~(req[q].token # NoToken /\ Current(req[q].token))
      BY <1>5, <3>2 DEF Logout, Typed
    <3> QED
      BY <3>1, <3>2
  <2> QED
    BY <1>5, <2>2, <2>3 DEF Logout, Typed
<1> QED
  BY <1>1, <1>2, <1>3, <1>4, <1>5 DEF Serve

LEMMA OrphanedFits ==
    ASSUME Typed, StepsFit, NEW t \in Tabs,
           req' = Orphaned(t) \/ \E q \in Reqs : req' = [Orphaned(t) EXCEPT ![q] = Idle]
    PROVE  req' \in [Reqs -> Calls \union {Idle}] /\ StepsFit'
<1>1. req' \in [Reqs -> Calls \union {Idle}]
  BY OrphanedKeeps
<1>2. ASSUME NEW p \in Reqs PROVE StepFits(p)'
  <2>1. CASE req'[p] = Idle
    BY <2>1 DEF StepFits, At, Idle
  <2>2. CASE req'[p] # Idle
    <3>1. req'[p] = Orphaned(t)[p]
      BY <2>2, OrphanedKeeps
    <3>2. ~Free(p) /\ StepFits(p)
      BY <2>2, <3>1, OrphanedKeeps DEF StepsFit
    <3>3. /\ req'[p].pc = req[p].pc /\ req'[p].kind = req[p].kind
          /\ req'[p].token = req[p].token
      BY <3>1, <3>2, OrphanedKeeps
    <3> QED
      BY <3>2, <3>3 DEF StepFits, At
  <2> QED
    BY <2>1, <2>2
<1> QED
  BY <1>1, <1>2 DEF StepsFit

\* A request ends: it is free, or nobody waits for it any more.
LEMMA ArriveTyped ==
    ASSUME Typed, StepsFit, NEW q \in Reqs, Arrive(q)
    PROVE  Typed' /\ StepsFit'
<1>0. StepFits(q) /\ Idle \in Calls \union {Idle}
  BY DEF StepsFit
<1>1. ASSUME Goto(q, Idle) PROVE req' \in [Reqs -> Calls \union {Idle}] /\ StepsFit'
  <2>1. req' \in [Reqs -> Calls \union {Idle}] /\ req'[q] = Idle
        /\ \A p \in Reqs \ {q} : req'[p] = req[p]
    BY <1>0, <1>1, GotoTyped
  <2>2. StepFits(q)'
    BY <2>1 DEF StepFits, At, Idle
  <2> QED
    BY <2>1, <2>2, OneFits
<1>2. ASSUME ~Free(q), Goto(q, [req[q] EXCEPT !.tab = NoTab])
      PROVE  req' \in [Reqs -> Calls \union {Idle}] /\ StepsFit'
  <2>1. req[q] \in Calls
    BY <1>2, CallsTyped
  <2>2. [req[q] EXCEPT !.tab = NoTab] \in Calls
    BY <2>1, CallsMove
  <2>3. req' \in [Reqs -> Calls \union {Idle}] /\ req'[q] = [req[q] EXCEPT !.tab = NoTab]
        /\ \A p \in Reqs \ {q} : req'[p] = req[p]
    BY <1>2, <2>2, GotoTyped
  <2>4. req'[q].pc = req[q].pc /\ req'[q].kind = req[q].kind /\ req'[q].token = req[q].token
    BY <2>1, <2>3 DEF Calls
  <2>5. StepFits(q)'
    BY <1>0, <2>4 DEF StepFits, At
  <2> QED
    BY <2>3, <2>5, OneFits
<1>3. ASSUME NEW t \in Tabs, req' = Orphaned(t)
      PROVE  req' \in [Reqs -> Calls \union {Idle}] /\ StepsFit'
  BY <1>3, OrphanedFits
<1>4. ASSUME NEW t \in Tabs, tab' = [tab EXCEPT ![t] = Fresh]
      PROVE  tab' \in [Tabs -> TabStates]
  BY <1>4 DEF Typed, TabStates, Fresh
<1>5. ASSUME NEW b \in Browsers, NEW token \in Tokens \union {NoToken}, Cookies(b, token)
      PROVE  jar' \in [Browsers -> Tokens \union {NoToken}]
  BY <1>5 DEF Typed, Cookies
<1>6. ASSUME NEW t \in Tabs, NEW ok \in BOOLEAN, tab' = [tab EXCEPT ![t] = Settled(t, ok)]
      PROVE  tab' \in [Tabs -> TabStates]
  BY <1>6 DEF Typed, TabStates, Settled
<1>7. ASSUME ~Free(q)
      PROVE  /\ req[q].tab \in Tabs \union {NoTab}
             /\ req[q].browser \in Browsers
             /\ req[q].token \in Tokens \union {NoToken}
  BY <1>7, CallsTyped DEF Calls
<1>8. At(q, "answer") => ~Free(q)
  BY InFlight
<1>9. CASE RefreshAnswered(q)
  <2>1. /\ jar' \in [Browsers -> Tokens \union {NoToken}]
        /\ tab' \in [Tabs -> TabStates]
    BY <1>5, <1>6, <1>7, <1>8, <1>9 DEF RefreshAnswered
  <2> QED
    BY <1>1, <1>9, <2>1 DEF RefreshAnswered, Typed
<1>10. CASE LoginAnswered(q)
  <2>1. jar' \in [Browsers -> Tokens \union {NoToken}] /\ req[q].tab \in Tabs
    BY <1>5, <1>7, <1>8, <1>10 DEF LoginAnswered
  <2>2. tab' \in [Tabs -> TabStates]
    BY <1>10, <2>1 DEF LoginAnswered, Typed, TabStates
  <2> QED
    BY <1>1, <1>10, <2>1, <2>2 DEF LoginAnswered, Typed
<1>11. CASE LogoutAnswered(q)
  <2>1. jar' \in [Browsers -> Tokens \union {NoToken}] /\ req[q].tab \in Tabs
    BY <1>5, <1>7, <1>8, <1>11 DEF LogoutAnswered
  <2>2. tab' \in [Tabs -> TabStates]
    BY <1>4, <1>11, <2>1 DEF LogoutAnswered, Left
  <2>3. req' \in [Reqs -> Calls \union {Idle}] /\ StepsFit'
    BY <1>11, <2>1, OrphanedFits DEF LogoutAnswered
  <2> QED
    BY <1>11, <2>1, <2>2, <2>3 DEF LogoutAnswered, Typed
<1>12. CASE GiveUp(q)
  <2>1. ~Free(q) /\ req[q].tab \in Tabs
    BY <1>7, <1>12 DEF GiveUp
  <2>2. tab' \in [Tabs -> TabStates]
    <3>1. CASE tab' = [tab EXCEPT ![req[q].tab] = Settled(req[q].tab, FALSE)]
      BY <1>6, <2>1, <3>1
    <3>2. CASE tab' = [tab EXCEPT ![req[q].tab].form = "idle"]
      BY <2>1, <3>2 DEF Typed, TabStates
    <3>3. CASE tab' = Left(req[q].tab)
      BY <1>4, <2>1, <3>3 DEF Left
    <3> QED
      BY <1>12, <3>1, <3>2, <3>3 DEF GiveUp
  <2>3. req' \in [Reqs -> Calls \union {Idle}] /\ StepsFit'
    BY <1>2, <1>3, <1>12, <2>1 DEF GiveUp
  <2> QED
    BY <1>12, <2>2, <2>3 DEF GiveUp, Typed
<1>13. CASE LateAnswer(q)
  BY <1>1, <1>5, <1>7, <1>8, <1>13 DEF LateAnswer, Typed
<1>14. CASE Drop(q)
  BY <1>1, <1>14 DEF Drop, Typed
<1> QED
  BY <1>9, <1>10, <1>11, <1>12, <1>13, <1>14 DEF Arrive

LEMMA TypedNext == Typed /\ StepsFit /\ [Next]_vars => Typed' /\ StepsFit'
<1> SUFFICES ASSUME Typed, StepsFit, [Next]_vars PROVE Typed' /\ StepsFit'
  OBVIOUS
<1>1. ASSUME NEW s \in Sessions, RevokeSession(s) PROVE Typed' /\ StepsFit'
  <2>1. row' \in [Sessions -> Rows \union {NoRow}] /\ ended' \subseteq Sessions
    BY <1>1, EndedTyped DEF RevokeSession
  <2> QED
    BY <1>1, <2>1 DEF RevokeSession, Typed, StepsFit, StepFits, At
<1>2. ASSUME NEW b \in Browsers, LogoutAll(b) PROVE Typed' /\ StepsFit'
  <2>1. row' \in [Sessions -> Rows \union {NoRow}] /\ ended' \subseteq Sessions
    BY <1>2, EndedTyped DEF LogoutAll
  <2> QED
    BY <1>2, <2>1 DEF LogoutAll, Typed, StepsFit, StepFits, At
<1>3. ASSUME NEW t \in Tabs, Reload(t) PROVE Typed' /\ StepsFit'
  <2>1. req' \in [Reqs -> Calls \union {Idle}] /\ StepsFit'
    BY <1>3, OrphanedFits DEF Reload
  <2> QED
    BY <1>3, <2>1 DEF Reload, Left, Fresh, Typed, TabStates
<1>4. CASE UNCHANGED vars
  BY <1>4 DEF vars, Typed, StepsFit, StepFits, At
<1> QED
  BY <1>1, <1>2, <1>3, <1>4, TabActionTyped, ServeTyped, ArriveTyped DEF Next

-----------------------------------------------------------------------------
(* Tabs and their requests. *)

LEMMA WaitKept ==
    ASSUME TabsWait,
           \A t \in Tabs, q \in Reqs : Waiting(q, t)' =>
               Waiting(q, t) /\ req'[q].kind = req[q].kind /\ Awaits(t, req[q].kind)'
    PROVE  TabsWait'
<1>1. ASSUME NEW t \in Tabs, NEW q \in Reqs, NEW p \in Reqs, Waiting(q, t)', Waiting(p, t)',
             req'[q].kind = req'[p].kind
      PROVE  q = p
  <2>1. Waiting(q, t) /\ Waiting(p, t) /\ req[q].kind = req[p].kind
    BY <1>1
  <2> QED
    BY <2>1 DEF TabsWait
<1> QED
  BY <1>1 DEF TabsWait

\* A request that is sent is the first of its kind.
LEMMA SentWaits ==
    ASSUME Typed, TabsWait, NEW q \in Reqs, NEW t \in Tabs,
           NEW kind \in {"refresh", "login", "logout"},
           ~Awaits(t, kind),
           req'[q].tab = t, req'[q].kind = kind,
           \A p \in Reqs \ {q} : req'[p] = req[p],
           tab' = [tab EXCEPT ![t] = IF kind = "refresh"
                                     THEN [@ EXCEPT !.refreshing = TRUE] ELSE [@ EXCEPT !.form = kind]],
           kind # "refresh" => tab[t].form = "idle"
    PROVE  TabsWait'
<1>1. ASSUME NEW p \in Reqs, p # q, NEW u \in Tabs
      PROVE  Waiting(p, u)' <=> Waiting(p, u)
  BY <1>1 DEF Waiting, Free, At
<1>2. ASSUME NEW u \in Tabs, Waiting(q, u)' PROVE u = t
  BY <1>2 DEF Waiting
<1>3. \A p \in Reqs : Waiting(p, t) => req[p].kind # kind
  BY DEF TabsWait
<1>4. /\ kind = "refresh" => tab'[t].refreshing /\ tab'[t].form = tab[t].form
      /\ kind # "refresh" => tab'[t].form = kind /\ tab'[t].refreshing = tab[t].refreshing
      /\ \A u \in Tabs \ {t} : tab'[u] = tab[u]
  BY DEF Typed, TabStates
<1>5. ASSUME NEW u \in Tabs, NEW p \in Reqs, Waiting(p, u)' PROVE Awaits(u, req[p].kind)'
  <2>1. CASE p = q
    BY <1>2, <1>4, <1>5, <2>1 DEF Awaits
  <2>2. CASE p # q
    <3>1. req'[p].kind = req[p].kind /\ Waiting(p, u)
      BY <1>1, <1>5, <2>2
    <3>2. Awaits(u, req[p].kind)
      BY <3>1 DEF TabsWait
    <3>3. req[p].kind \in {"refresh", "login", "logout"}
      BY <3>1, CallsTyped DEF Waiting, Calls
    <3>4. CASE u = t
      BY <1>4, <3>1, <3>2, <3>3, <3>4 DEF Awaits
    <3>5. CASE u # t
      BY <1>4, <3>1, <3>2, <3>5 DEF Awaits
    <3> QED
      BY <3>4, <3>5
  <2> QED
    BY <2>1, <2>2
<1>6. ASSUME NEW u \in Tabs, NEW p \in Reqs, NEW r \in Reqs, Waiting(p, u)', Waiting(r, u)',
             req'[p].kind = req'[r].kind
      PROVE  p = r
  <2>1. CASE p # q /\ r # q
    BY <1>1, <1>6, <2>1 DEF TabsWait
  <2>2. CASE p = q /\ r # q
    BY <1>1, <1>2, <1>3, <1>6, <2>2
  <2>3. CASE p # q /\ r = q
    BY <1>1, <1>2, <1>3, <1>6, <2>3
  <2> QED
    BY <2>1, <2>2, <2>3
<1> QED
  BY <1>5, <1>6 DEF TabsWait

\* The server changes neither who asked nor what for.
LEMMA ServeKeeps ==
    ASSUME Typed, StepsFit, NEW q \in Reqs, Serve(q)
    PROVE  /\ ~Free(q) /\ req'[q].kind = req[q].kind /\ req'[q].tab = req[q].tab
           /\ \A p \in Reqs \ {q} : req'[p] = req[p]
           /\ tab' = tab
<1>1. ~Free(q) /\ req[q] \in Calls
  BY InFlight DEF Serve, CreateSession, IssueTokens, ReadSession, RevokeSessionChain, Logout
<1>2. tab' = tab
  BY DEF Serve, CreateSession, IssueTokens, ReadSession, RevokeSessionChain, Logout
<1>3. PICK step : Goto(q, step) /\ step.kind = req[q].kind /\ step.tab = req[q].tab
  <2>1. \A pc : LET step == [req[q] EXCEPT !.pc = pc]
                IN  step.kind = req[q].kind /\ step.tab = req[q].tab
    BY <1>1 DEF Calls
  <2>2. \A pc, token :
          LET step == [req[q] EXCEPT !.pc = pc, !.token = token]
          IN  step.kind = req[q].kind /\ step.tab = req[q].tab
    BY <1>1 DEF Calls
  <2>3. CASE \E pc : Goto(q, [req[q] EXCEPT !.pc = pc])
    BY <2>1, <2>3
  <2>4. CASE \E pc, token : Goto(q, [req[q] EXCEPT !.pc = pc, !.token = token])
    <3>1. PICK pc, token : Goto(q, [req[q] EXCEPT !.pc = pc, !.token = token])
      BY <2>4
    <3> DEFINE step == [req[q] EXCEPT !.pc = pc, !.token = token]
    <3>2. Goto(q, step) /\ step.kind = req[q].kind /\ step.tab = req[q].tab
      BY <2>2, <3>1
    <3> QED
      BY <3>2
  <2> QED
    BY <2>3, <2>4 DEF Serve, CreateSession, IssueTokens, ReadSession, RevokeSessionChain,
                      Logout, Answer
<1>4. req'[q] = step /\ \A p \in Reqs \ {q} : req'[p] = req[p]
  BY <1>3 DEF Goto, Typed
<1> QED
  BY <1>1, <1>2, <1>3, <1>4

\* A request that its tab waited for is over, and only that.
LEMMA WaitEnds ==
    ASSUME Typed, TabsWait, NEW q \in Reqs, NEW t \in Tabs, Waiting(q, t),
           \A u \in Tabs : ~Waiting(q, u)',
           \A p \in Reqs \ {q} : req'[p] = req[p],
           \A u \in Tabs \ {t} : tab'[u] = tab[u],
           \/ req[q].kind = "refresh" /\ tab'[t].form = tab[t].form
           \/ req[q].kind = "login" /\ tab'[t].refreshing = tab[t].refreshing
    PROVE  TabsWait'
<1> SUFFICES ASSUME NEW u \in Tabs, NEW p \in Reqs, Waiting(p, u)'
             PROVE  Waiting(p, u) /\ req'[p].kind = req[p].kind /\ Awaits(u, req[p].kind)'
  BY WaitKept
<1>1. p # q /\ req'[p] = req[p]
  OBVIOUS
<1>2. Waiting(p, u)
  BY <1>1 DEF Waiting, Free, At
<1>3. req[p].kind \in {"refresh", "login", "logout"} /\ Awaits(u, req[p].kind)
  BY <1>2, CallsTyped DEF Waiting, Calls, TabsWait
<1>4. CASE u # t
  BY <1>1, <1>2, <1>3, <1>4 DEF Awaits
<1>5. CASE u = t
  <2>1. req[p].kind # req[q].kind
    BY <1>1, <1>2, <1>5 DEF TabsWait
  <2>2. Awaits(t, req[q].kind)
    BY DEF TabsWait
  <2> QED
    BY <1>1, <1>2, <1>3, <1>5, <2>1, <2>2 DEF Awaits
<1> QED
  BY <1>4, <1>5

\* The tab is left, and waits for nothing.
LEMMA WaitLeft ==
    ASSUME Typed, TabsWait, NEW t \in Tabs, tab' = Left(t),
           req' = Orphaned(t) \/ \E q \in Reqs : req' = [Orphaned(t) EXCEPT ![q] = Idle]
    PROVE  TabsWait'
<1> SUFFICES ASSUME NEW u \in Tabs, NEW p \in Reqs, Waiting(p, u)'
             PROVE  Waiting(p, u) /\ req'[p].kind = req[p].kind /\ Awaits(u, req[p].kind)'
  BY WaitKept
<1>1. req'[p] # Idle
  BY DEF Waiting, Free, At, Idle
<1>2. req'[p] = Orphaned(t)[p]
  BY <1>1, OrphanedKeeps
<1>3. ~Free(p)
  BY <1>1, <1>2, OrphanedKeeps
<1>4. /\ req'[p].kind = req[p].kind
      /\ req'[p].tab = IF req[p].tab = t THEN NoTab ELSE req[p].tab
  BY <1>2, <1>3, OrphanedKeeps
<1>5. u # t /\ Waiting(p, u)
  BY <1>3, <1>4 DEF Waiting
<1>6. tab'[u] = tab[u] /\ Awaits(u, req[p].kind)
  BY <1>5 DEF Left, Typed, TabsWait
<1> QED
  BY <1>4, <1>5, <1>6 DEF Awaits

LEMMA ArriveWaits ==
    ASSUME Typed, StepsFit, TabsWait, NEW q \in Reqs, Arrive(q)
    PROVE  TabsWait'
<1>1. ASSUME Goto(q, Idle)
      PROVE  (\A u \in Tabs : ~Waiting(q, u)') /\ \A p \in Reqs \ {q} : req'[p] = req[p]
  BY <1>1 DEF Goto, Typed, Waiting, Free, At, Idle
<1>2. ASSUME ~Free(q), Goto(q, [req[q] EXCEPT !.tab = NoTab])
      PROVE  (\A u \in Tabs : ~Waiting(q, u)') /\ \A p \in Reqs \ {q} : req'[p] = req[p]
  <2>1. req[q] \in Calls
    BY <1>2, CallsTyped
  <2>2. req'[q] = [req[q] EXCEPT !.tab = NoTab] /\ \A p \in Reqs \ {q} : req'[p] = req[p]
    BY <1>2 DEF Goto, Typed
  <2>3. req'[q].tab = NoTab
    BY <2>1, <2>2 DEF Calls
  <2> QED
    BY <2>2, <2>3 DEF Waiting
<1>3. ASSUME ~Free(q), req[q].tab # NoTab
      PROVE  req[q].tab \in Tabs /\ Waiting(q, req[q].tab)
  BY <1>3, CallsTyped DEF Calls, Waiting
<1>4. At(q, "answer") => ~Free(q)
  BY InFlight
<1>5. ASSUME NEW t \in Tabs, NEW ok \in BOOLEAN, tab' = [tab EXCEPT ![t] = Settled(t, ok)]
      PROVE  tab'[t].form = tab[t].form /\ \A u \in Tabs \ {t} : tab'[u] = tab[u]
  BY <1>5 DEF Typed, TabStates, Settled
<1>6. CASE RefreshAnswered(q)
  BY <1>1, <1>3, <1>4, <1>5, <1>6, WaitEnds DEF RefreshAnswered
<1>7. CASE LoginAnswered(q)
  <2>1. /\ req[q].tab \in Tabs /\ Waiting(q, req[q].tab)
        /\ req[q].kind = "login"
    BY <1>3, <1>4, <1>7 DEF LoginAnswered
  <2>2. /\ tab'[req[q].tab].refreshing = tab[req[q].tab].refreshing
        /\ \A u \in Tabs \ {req[q].tab} : tab'[u] = tab[u]
    BY <1>7, <2>1 DEF LoginAnswered, Typed, TabStates
  <2> QED
    BY <1>1, <1>7, <2>1, <2>2, WaitEnds DEF LoginAnswered
<1>8. CASE LogoutAnswered(q)
  BY <1>3, <1>4, <1>8, WaitLeft DEF LogoutAnswered
<1>9. CASE GiveUp(q)
  <2> DEFINE t == req[q].tab
  <2>1. ~Free(q) /\ t \in Tabs /\ Waiting(q, t)
    BY <1>3, <1>9 DEF GiveUp
  <2>2. CASE /\ req[q].kind = "refresh"
             /\ tab' = [tab EXCEPT ![t] = Settled(t, FALSE)]
             /\ Goto(q, [req[q] EXCEPT !.tab = NoTab])
    BY <1>2, <1>5, <2>1, <2>2, WaitEnds
  <2>3. CASE /\ req[q].kind = "login"
             /\ tab' = [tab EXCEPT ![t].form = "idle"]
             /\ Goto(q, [req[q] EXCEPT !.tab = NoTab])
    <3>1. tab'[t].refreshing = tab[t].refreshing /\ \A u \in Tabs \ {t} : tab'[u] = tab[u]
      BY <2>1, <2>3 DEF Typed, TabStates
    <3> QED
      BY <1>2, <2>1, <2>3, <3>1, WaitEnds
  <2>4. CASE tab' = Left(t) /\ req' = Orphaned(t)
    BY <2>1, <2>4, WaitLeft
  <2> QED
    BY <1>9, <2>2, <2>3, <2>4 DEF GiveUp
<1>10. CASE LateAnswer(q) \/ Drop(q)
  <2>1. tab' = tab /\ Goto(q, Idle)
    BY <1>10 DEF LateAnswer, Drop
  <2> QED
    BY <1>1, <2>1, WaitKept DEF Waiting, Free, At, TabsWait, Awaits
<1> QED
  BY <1>6, <1>7, <1>8, <1>9, <1>10 DEF Arrive

LEMMA TabsWaitNext == Typed /\ StepsFit /\ TabsWait /\ [Next]_vars => TabsWait'
<1> SUFFICES ASSUME Typed, StepsFit, TabsWait, [Next]_vars PROVE TabsWait'
  OBVIOUS
<1>1. ASSUME NEW q \in Reqs, NEW t \in Tabs, RefreshSession(q, t) PROVE TabsWait'
  <2>1. Send(q, t, "refresh", "read")
    BY <1>1 DEF RefreshSession
  <2>2. /\ req'[q].tab = t /\ req'[q].kind = "refresh"
        /\ \A p \in Reqs \ {q} : req'[p] = req[p]
    BY <2>1, SentTyped
  <2>3. ~Awaits(t, "refresh")
    BY <1>1 DEF RefreshSession, Awaits
  <2> QED
    BY <1>1, <2>2, <2>3, SentWaits DEF RefreshSession
<1>2. ASSUME NEW q \in Reqs, NEW t \in Tabs, Login(q, t) PROVE TabsWait'
  <2>1. /\ req'[q].tab = t /\ req'[q].kind = "login"
        /\ \A p \in Reqs \ {q} : req'[p] = req[p]
    BY <1>2 DEF Login, Goto, Typed
  <2>2. ~Awaits(t, "login") /\ tab[t].form = "idle"
    BY <1>2 DEF Login, Awaits
  <2> QED
    BY <1>2, <2>1, <2>2, SentWaits DEF Login
<1>3. ASSUME NEW q \in Reqs, NEW t \in Tabs, HandleLogout(q, t) PROVE TabsWait'
  <2>1. Send(q, t, "logout", "end")
    BY <1>3 DEF HandleLogout
  <2>2. /\ req'[q].tab = t /\ req'[q].kind = "logout"
        /\ \A p \in Reqs \ {q} : req'[p] = req[p]
    BY <2>1, SentTyped
  <2>3. ~Awaits(t, "logout") /\ tab[t].form = "idle"
    BY <1>3 DEF HandleLogout, Awaits
  <2> QED
    BY <1>3, <2>2, <2>3, SentWaits DEF HandleLogout
<1>4. ASSUME NEW q \in Reqs, Serve(q) PROVE TabsWait'
  <2>1. /\ ~Free(q) /\ req'[q].kind = req[q].kind /\ req'[q].tab = req[q].tab
        /\ \A p \in Reqs \ {q} : req'[p] = req[p]
        /\ tab' = tab
    BY <1>4, ServeKeeps
  <2> SUFFICES ASSUME NEW u \in Tabs, NEW p \in Reqs, Waiting(p, u)'
               PROVE  Waiting(p, u) /\ req'[p].kind = req[p].kind /\ Awaits(u, req[p].kind)'
    BY WaitKept
  <2>2. Waiting(p, u) /\ req'[p].kind = req[p].kind
    BY <2>1 DEF Waiting, Free, At
  <2> QED
    BY <2>1, <2>2 DEF TabsWait, Awaits
<1>5. ASSUME NEW t \in Tabs, Reload(t) PROVE TabsWait'
  BY <1>5, WaitLeft DEF Reload
<1>6. CASE \/ \E s \in Sessions : RevokeSession(s)
           \/ \E b \in Browsers : LogoutAll(b)
           \/ UNCHANGED vars
  <2>1. req' = req /\ tab' = tab
    BY <1>6 DEF RevokeSession, LogoutAll, vars
  <2> QED
    BY <2>1 DEF TabsWait, Waiting, Awaits, Free, At
<1> QED
  BY <1>1, <1>2, <1>3, <1>4, <1>5, <1>6, ArriveWaits DEF Next, EnsureSession, ApiFetch

-----------------------------------------------------------------------------
(* Sessions and their tokens. *)

SameCall(q) == /\ req'[q].pc = req[q].pc
               /\ req'[q].browser = req[q].browser
               /\ req'[q].token = req[q].token

\* Nothing comes to the session: its tokens only become fewer.
LEMMA QuietKept ==
    ASSUME NEW s \in Sessions, Quiet(s),
           \A q \in Reqs : Carries(q, s)' => Carries(q, s) /\ SameCall(q),
           row'[s].hash = row[s].hash,
           s \in ended' => /\ row'[s].revoked
                           /\ s \in ended \/ \A q \in Reqs : ~Carries(q, s)',
           \A b \in Browsers : Holds(b, s)' => Holds(b, s) /\ jar'[b] = jar[b],
           \A q \in Reqs, b \in Browsers :
               Carries(q, s) /\ At(q, "answer") /\ Holds(b, s)' => Carries(q, s)'
    PROVE  Quiet(s)'
<1>1. ASSUME NEW q \in Reqs, NEW p \in Reqs, Carries(q, s)', Carries(p, s)' PROVE q = p
  BY <1>1 DEF Quiet
<1>2. ASSUME NEW b \in Browsers, NEW c \in Browsers, Holds(b, s)', Holds(c, s)' PROVE b = c
  BY <1>2 DEF Quiet
<1>3. ASSUME NEW b \in Browsers, NEW q \in Reqs, Holds(b, s)', Carries(q, s)'
      PROVE  req'[q].browser = b
  BY <1>3 DEF Quiet, SameCall
<1>4. ASSUME NEW b \in Browsers, Holds(b, s)'
      PROVE  Current(jar[b])' \/ \E q \in Reqs : Carries(q, s)' /\ At(q, "answer")'
  <2>1. Holds(b, s) /\ jar'[b] = jar[b] /\ jar[b].sid = s
    BY <1>4 DEF Holds
  <2>2. CASE Current(jar[b])
    BY <2>1, <2>2 DEF Current
  <2>3. ASSUME NEW q \in Reqs, Carries(q, s), At(q, "answer")
        PROVE  Carries(q, s)' /\ At(q, "answer")'
    BY <1>4, <2>3 DEF SameCall, At
  <2> QED
    BY <2>1, <2>2, <2>3 DEF Quiet
<1>5. ASSUME NEW q \in Reqs, Carries(q, s)'
      PROVE  /\ ~At(q, "revoke")'
             /\ req'[q].pc \in {"read", "answer"} => Current(req[q].token)'
             /\ At(q, "issue")' => s \notin ended'
  <2>1. Carries(q, s) /\ SameCall(q) /\ req[q].token.sid = s
    BY <1>5 DEF Carries
  <2>2. ~At(q, "revoke")'
    BY <2>1 DEF Quiet, SameCall, At
  <2>3. req'[q].pc \in {"read", "answer"} => Current(req[q].token)'
    BY <2>1 DEF Quiet, SameCall, Current
  <2>4. At(q, "issue")' => s \notin ended'
    BY <1>5, <2>1 DEF Quiet, SameCall, At
  <2> QED
    BY <2>2, <2>3, <2>4
<1>6. s \in ended' => row'[s].revoked
  OBVIOUS
<1> QED
  BY <1>1, <1>2, <1>3, <1>4, <1>5, <1>6 DEF Quiet

\* A request that a step leaves alone.
LEMMA LeftAlone ==
    ASSUME NEW q \in Reqs, req'[q] = req[q], NEW s \in Sessions
    PROVE  (Carries(q, s)' <=> Carries(q, s)) /\ SameCall(q)
  BY DEF Carries, SameCall, Free, At

\* A tab sends what its browser holds: of a session that this does not contend
\* there was no request under way.
LEMMA SentQuiet ==
    ASSUME Typed, TabsWait, SessionsExist, QuietUnlessContended,
           NEW q \in Reqs, NEW t \in Tabs, NEW kind \in {"refresh", "logout"},
           NEW pc \in {"read", "end"}, Send(q, t, kind, pc), ~Awaits(t, kind),
           UNCHANGED <<row, jar, ended>>
    PROVE  SessionsExist' /\ QuietUnlessContended'
<1> DEFINE b == BrowserOf[t]
<1>1. /\ b \in Browsers
      /\ req'[q].pc = pc /\ req'[q].browser = b /\ req'[q].token = jar[b]
      /\ \A p \in Reqs \ {q} : req'[p] = req[p]
  BY SentTyped
<1>2. ASSUME NEW s \in Sessions PROVE Carries(q, s)' <=> Holds(b, s)
  BY <1>1 DEF Carries, Holds, Free, At
<1>3. ASSUME NEW s \in Sessions, NEW p \in Reqs, p # q
      PROVE  (Carries(p, s)' <=> Carries(p, s)) /\ SameCall(p)
  BY <1>1, <1>3, LeftAlone
<1>4. ASSUME NEW s \in Sessions PROVE ~Carries(q, s)
  BY DEF Send, Carries
<1>5. SessionsExist'
  BY <1>1, <1>2, <1>3 DEF SessionsExist, Exists, Holds
<1>6. ASSUME NEW s \in Sessions, s \notin contended' PROVE Quiet(s)'
  <2>1. s \notin contended /\ Quiet(s)
    BY <1>6 DEF Send, Contending, QuietUnlessContended
  <2>2. CASE Holds(b, s)
    <3>1. \A p \in Reqs : ~Carries(p, s)
      <4> SUFFICES ASSUME NEW p \in Reqs, Carries(p, s) PROVE FALSE
        OBVIOUS
      <4>1. req[p].tab = t /\ req[p].kind = kind
        BY <1>6, <2>2 DEF Send, Contending, Overlaps, Holds
      <4> QED
        BY <4>1 DEF TabsWait, Waiting, Carries
    <3>2. \A p \in Reqs : Carries(p, s)' => p = q
      BY <1>3, <3>1
    <3>3. Current(jar[b])
      BY <2>1, <2>2, <3>1 DEF Quiet
    <3>4. \A c \in Browsers : Holds(c, s)' => c = b
      BY <1>1, <2>1, <2>2 DEF Quiet, Holds
    <3>5. Current(jar[b])' /\ Current(req[q].token)'
      BY <1>1, <3>3 DEF Current
    <3> QED
      BY <1>1, <2>1, <3>2, <3>4, <3>5 DEF Quiet, At
  <2>3. CASE ~Holds(b, s)
    <3>1. \A p \in Reqs : (Carries(p, s)' <=> Carries(p, s)) /\ (Carries(p, s)' => SameCall(p))
      BY <1>2, <1>3, <1>4, <2>3
    <3> QED
      BY <2>1, <3>1, QuietKept DEF Holds, Quiet
  <2> QED
    BY <2>2, <2>3
<1> QED
  BY <1>5, <1>6 DEF QuietUnlessContended

\* One request changes, and carries nothing that it did not carry before; of
\* the rows, the cookies and the histories nothing changes.
LEMMA OneQuiet ==
    ASSUME SessionsExist, QuietUnlessContended, NEW q \in Reqs,
           \A p \in Reqs \ {q} : req'[p] = req[p],
           \A s \in Sessions : Carries(q, s)' => Carries(q, s) /\ SameCall(q),
           \A s \in Sessions \ contended' :
               Carries(q, s) /\ At(q, "answer") => Carries(q, s)',
           UNCHANGED <<row, jar, ended>>, contended \subseteq contended'
    PROVE  SessionsExist' /\ QuietUnlessContended'
<1>1. \A s \in Sessions, p \in Reqs : Carries(p, s)' => Carries(p, s) /\ SameCall(p)
  BY LeftAlone
<1>2. SessionsExist'
  BY <1>1 DEF SessionsExist, Exists, Holds
<1>3. ASSUME NEW s \in Sessions, s \notin contended' PROVE Quiet(s)'
  <2>1. Quiet(s)
    BY <1>3 DEF QuietUnlessContended
  <2>2. \A p \in Reqs : Carries(p, s) /\ At(p, "answer") => Carries(p, s)'
    BY <1>3, LeftAlone
  <2>3. s \in ended' => row'[s].revoked /\ s \in ended
    BY <2>1 DEF Quiet
  <2>4. \A b \in Browsers : Holds(b, s)' => Holds(b, s) /\ jar'[b] = jar[b]
    BY DEF Holds
  <2> QED
    BY <1>1, <2>1, <2>2, <2>3, <2>4, QuietKept
<1> QED
  BY <1>2, <1>3 DEF QuietUnlessContended

\* A new session is held by nobody.
LEMMA CreateQuiet ==
    ASSUME Typed, StepsFit, SessionsExist, QuietUnlessContended,
           NEW q \in Reqs, CreateSession(q)
    PROVE  SessionsExist' /\ QuietUnlessContended'
<1>1. ~Free(q) /\ req[q] \in Calls /\ At(q, "create")
  BY InFlight DEF CreateSession
<1>2. \A s \in Sessions : ~Carries(q, s)
  BY <1>1 DEF StepsFit, StepFits, Carries
<1>3. PICK s \in Sessions :
        /\ ~Exists(s)
        /\ row' = [row EXCEPT ![s] = [hash |-> 0, revoked |-> FALSE]]
        /\ Goto(q, [req[q] EXCEPT !.pc = "issue", !.token = Unissued(s)])
  BY DEF CreateSession
<1>4. /\ req'[q] = [req[q] EXCEPT !.pc = "issue", !.token = Unissued(s)]
      /\ \A p \in Reqs \ {q} : req'[p] = req[p]
  BY <1>3 DEF Goto, Typed
<1>5. req'[q].pc = "issue" /\ req'[q].token = Unissued(s)
  BY <1>1, <1>4 DEF Calls
<1>6. \A u \in Sessions : Carries(q, u)' => u = s
  BY <1>5 DEF Carries, Unissued
<1>7. row'[s] = [hash |-> 0, revoked |-> FALSE] /\ \A u \in Sessions \ {s} : row'[u] = row[u]
  BY <1>3 DEF Typed
<1>8. row'[s] # NoRow
  BY <1>7 DEF NoRow
<1>9. \A u \in Sessions : Exists(u) => Exists(u)'
  BY <1>7, <1>8 DEF Exists
<1>10. Exists(s)' /\ jar' = jar /\ ended' = ended /\ contended' = contended
  BY <1>8 DEF Exists, CreateSession
<1>11. \A u \in Sessions, p \in Reqs \ {q} : (Carries(p, u)' <=> Carries(p, u)) /\ SameCall(p)
  BY <1>4, LeftAlone
<1>12. SessionsExist'
  <2>1. \A u \in ended' : Exists(u)'
    BY <1>9, <1>10 DEF SessionsExist, Typed
  <2>2. \A u \in Sessions, b \in Browsers : Holds(b, u)' => Exists(u)'
    BY <1>9, <1>10 DEF SessionsExist, Holds
  <2>3. \A u \in Sessions, p \in Reqs : Carries(p, u)' => Exists(u)'
    BY <1>6, <1>9, <1>10, <1>11 DEF SessionsExist
  <2> QED
    BY <2>1, <2>2, <2>3 DEF SessionsExist
<1>13. ASSUME NEW u \in Sessions \ contended' PROVE Quiet(u)'
  <2>1. Quiet(u)
    BY <1>10, <1>13 DEF QuietUnlessContended
  <2>2. CASE u = s
    <3>1. /\ \A b \in Browsers : ~Holds(b, s)'
          /\ \A p \in Reqs : Carries(p, s)' => p = q
          /\ s \notin ended'
      BY <1>3, <1>10, <1>11 DEF SessionsExist, Holds
    <3> QED
      BY <1>5, <2>2, <3>1 DEF Quiet, At
  <2>3. CASE u # s
    <3>1. \A p \in Reqs : Carries(p, u)' => Carries(p, u) /\ SameCall(p)
      BY <1>6, <1>11, <2>3
    <3>2. \A p \in Reqs : Carries(p, u) => Carries(p, u)'
      BY <1>2, <1>11
    <3>3. row'[u].hash = row[u].hash /\ (u \in ended' => row'[u].revoked /\ u \in ended)
      BY <1>7, <1>10, <2>1, <2>3 DEF Quiet
    <3>4. \A b \in Browsers : Holds(b, u)' => Holds(b, u) /\ jar'[b] = jar[b]
      BY <1>10 DEF Holds
    <3> QED
      BY <2>1, <3>1, <3>2, <3>3, <3>4, QuietKept
  <2> QED
    BY <2>2, <2>3
<1> QED
  BY <1>12, <1>13 DEF QuietUnlessContended

\* The answer with the new token is on its way to the one browser that holds
\* an older one.
LEMMA IssueQuiet ==
    ASSUME Typed, StepsFit, SessionsExist, QuietUnlessContended,
           NEW q \in Reqs, IssueTokens(q)
    PROVE  SessionsExist' /\ QuietUnlessContended'
<1>0. PICK s : s = req[q].token.sid
  OBVIOUS
<1>1. ~Free(q) /\ req[q] \in Calls /\ At(q, "issue")
  BY InFlight DEF IssueTokens
<1>2. req[q].token \in Tokens /\ s \in Sessions /\ Carries(q, s)
  BY <1>0, <1>1 DEF StepsFit, StepFits, Calls, Tokens, Carries
<1>3. PICK k : k = NewToken(s)
  OBVIOUS
<1>4. k \in Tokens /\ k.sid = s /\ Issued(s, k) /\ Answer(q, k)
  BY <1>0, <1>2, <1>3, TokenIssued DEF IssueTokens
<1>5. /\ req'[q] = [req[q] EXCEPT !.pc = "answer", !.token = k]
      /\ \A p \in Reqs \ {q} : req'[p] = req[p]
  BY <1>1, <1>4, AnswerTyped
<1>6. req'[q].pc = "answer" /\ req'[q].token = k /\ req'[q].browser = req[q].browser
  BY <1>1, <1>5 DEF Calls
<1>7. \A u \in Sessions : (Carries(q, u)' <=> u = s) /\ (Carries(q, u) <=> u = s)
  BY <1>0, <1>1, <1>2, <1>4, <1>6 DEF Carries, Free, At, Tokens
<1>8. row'[s] = [hash |-> k.n, revoked |-> FALSE] /\ \A u \in Sessions \ {s} : row'[u] = row[u]
  BY <1>2, <1>4 DEF Issued, Typed
<1>9. row'[s] # NoRow
  BY <1>8 DEF NoRow
<1>10. \A u \in Sessions : Exists(u) => Exists(u)'
  BY <1>8, <1>9 DEF Exists
<1>11. jar' = jar /\ ended' = ended /\ contended' = contended
  BY DEF IssueTokens
<1>12. \A u \in Sessions, p \in Reqs \ {q} : (Carries(p, u)' <=> Carries(p, u)) /\ SameCall(p)
  BY <1>5, LeftAlone
<1>13. SessionsExist'
  <2>1. \A u \in ended' : Exists(u)'
    BY <1>10, <1>11 DEF SessionsExist, Typed
  <2>2. \A u \in Sessions, b \in Browsers : Holds(b, u)' => Exists(u)'
    BY <1>10, <1>11 DEF SessionsExist, Holds
  <2>3. \A u \in Sessions, p \in Reqs : Carries(p, u)' => Exists(u)'
    BY <1>7, <1>10, <1>12 DEF SessionsExist
  <2> QED
    BY <2>1, <2>2, <2>3 DEF SessionsExist
<1>14. ASSUME NEW u \in Sessions \ contended' PROVE Quiet(u)'
  <2>1. Quiet(u)
    BY <1>11, <1>14 DEF QuietUnlessContended
  <2>2. CASE u = s
    <3>1. \A p \in Reqs : Carries(p, s)' => p = q
      BY <1>2, <1>12, <2>1, <2>2 DEF Quiet
    <3>2. Current(req[q].token)' /\ s \notin ended'
      BY <1>1, <1>2, <1>4, <1>6, <1>8, <1>11, <2>1, <2>2 DEF Current, Quiet
    <3>3. \A b \in Browsers : Holds(b, s)' <=> Holds(b, s)
      BY <1>11 DEF Holds
    <3>4. /\ \A b, c \in Browsers : Holds(b, s)' /\ Holds(c, s)' => b = c
          /\ \A b \in Browsers : Holds(b, s)' => req'[q].browser = b
      BY <1>2, <1>6, <2>1, <2>2, <3>3 DEF Quiet
    <3>5. Carries(q, s)' /\ At(q, "answer")' /\ ~At(q, "revoke")' /\ ~At(q, "issue")'
      BY <1>2, <1>6, <1>7 DEF At
    <3> QED
      BY <2>2, <3>1, <3>2, <3>4, <3>5 DEF Quiet
  <2>3. CASE u # s
    <3>1. \A p \in Reqs : Carries(p, u)' => Carries(p, u) /\ SameCall(p)
      BY <1>7, <1>12, <2>3
    <3>2. \A p \in Reqs : Carries(p, u) => Carries(p, u)'
      BY <1>7, <1>12
    <3>3. row'[u].hash = row[u].hash /\ (u \in ended' => row'[u].revoked /\ u \in ended)
      BY <1>8, <1>11, <2>1, <2>3 DEF Quiet
    <3>4. \A b \in Browsers : Holds(b, u)' => Holds(b, u) /\ jar'[b] = jar[b]
      BY <1>11 DEF Holds
    <3> QED
      BY <2>1, <3>1, <3>2, <3>3, <3>4, QuietKept
  <2> QED
    BY <2>2, <2>3
<1> QED
  BY <1>13, <1>14 DEF QuietUnlessContended

\* A refresh goes on with a session only if it is neither ended nor rotated.
LEMMA ReadQuiet ==
    ASSUME Typed, StepsFit, SessionsExist, QuietUnlessContended,
           NEW q \in Reqs, ReadSession(q)
    PROVE  SessionsExist' /\ QuietUnlessContended'
<1>1. ~Free(q) /\ req[q] \in Calls /\ At(q, "read") /\ ~At(q, "answer")
  BY InFlight DEF ReadSession, At
<1>2. PICK k : k = req[q].token
  OBVIOUS
<1>3. UNCHANGED <<row, jar, ended, contended>>
  BY DEF ReadSession
<1>4. CASE Answer(q, NoToken)
  <2>1. /\ req'[q] = [req[q] EXCEPT !.pc = "answer", !.token = NoToken]
        /\ \A p \in Reqs \ {q} : req'[p] = req[p]
    BY <1>1, <1>4, AnswerTyped
  <2>2. req'[q].token = NoToken
    BY <1>1, <2>1 DEF Calls
  <2>3. \A s \in Sessions : ~Carries(q, s)'
    BY <2>2 DEF Carries
  <2> QED
    BY <1>1, <1>3, <2>1, <2>3, OneQuiet
<1>5. ASSUME NEW pc \in {"issue", "revoke"}, Goto(q, [req[q] EXCEPT !.pc = pc]),
             k # NoToken, ~IsRevoked(k), pc = "issue" \/ ~Current(k)
      PROVE  SessionsExist' /\ QuietUnlessContended'
  <2>1. /\ req'[q] = [req[q] EXCEPT !.pc = pc]
        /\ \A p \in Reqs \ {q} : req'[p] = req[p]
    BY <1>5 DEF Goto, Typed
  <2>2. req'[q].pc = pc /\ req'[q].token = k /\ req'[q].browser = req[q].browser
    BY <1>1, <1>2, <2>1 DEF Calls
  <2>3. \A s \in Sessions, p \in Reqs : Carries(p, s)' <=> Carries(p, s)
    <3>1. \A s \in Sessions : Carries(q, s)' <=> Carries(q, s)
      BY <1>1, <1>2, <2>2 DEF Carries, Free, At
    <3> QED
      BY <2>1, <3>1, LeftAlone
  <2>4. \A s \in Sessions, p \in Reqs \ {q} : SameCall(p)
    BY <2>1, LeftAlone
  <2>5. \A s \in Sessions, b \in Browsers : Holds(b, s)' <=> Holds(b, s)
    BY <1>3 DEF Holds
  <2>6. SessionsExist'
    BY <1>3, <2>3, <2>5 DEF SessionsExist, Exists
  <2>7. ASSUME NEW s \in Sessions \ contended' PROVE Quiet(s)'
    <3>1. Quiet(s)
      BY <1>3, <2>7 DEF QuietUnlessContended
    <3>2. CASE Carries(q, s)
      <4>1. k.sid = s /\ Current(k)
        BY <1>1, <1>2, <3>1, <3>2 DEF Carries, Quiet, At
      <4>2. pc = "issue" /\ s \notin ended
        BY <1>5, <3>1, <4>1 DEF IsRevoked, Quiet
      <4>3. \A p \in Reqs : Carries(p, s)' => p = q
        BY <2>3, <3>1, <3>2 DEF Quiet
      <4>4. \A b \in Browsers : Holds(b, s)' => jar'[b] = jar[b] /\ Current(jar[b])
        <5> SUFFICES ASSUME NEW b \in Browsers, Holds(b, s) PROVE Current(jar[b])
          BY <1>3, <2>5
        <5>1. \A p \in Reqs : Carries(p, s) => ~At(p, "answer")
          BY <1>1, <3>1, <3>2 DEF Quiet
        <5> QED
          BY <3>1, <5>1 DEF Quiet
      <4>5. \A b \in Browsers : Holds(b, s)' => Current(jar[b])'
        BY <1>3, <4>4 DEF Current
      <4>6. /\ \A b, c \in Browsers : Holds(b, s)' /\ Holds(c, s)' => b = c
            /\ \A b \in Browsers : Holds(b, s)' => req'[q].browser = b
        BY <2>2, <2>5, <3>1, <3>2 DEF Quiet
      <4>7. ~At(q, "revoke")' /\ req'[q].pc \notin {"read", "answer"} /\ s \notin ended'
        BY <1>3, <2>2, <4>2 DEF At
      <4> QED
        BY <4>3, <4>5, <4>6, <4>7 DEF Quiet
    <3>3. CASE ~Carries(q, s)
      <4>1. \A p \in Reqs : Carries(p, s)' => Carries(p, s) /\ SameCall(p)
        BY <2>3, <2>4, <3>3
      <4>2. row'[s].hash = row[s].hash /\ (s \in ended' => row'[s].revoked /\ s \in ended)
        BY <1>3, <3>1 DEF Quiet
      <4>3. \A b \in Browsers : Holds(b, s)' => Holds(b, s) /\ jar'[b] = jar[b]
        BY <1>3, <2>5
      <4> QED
        BY <2>3, <3>1, <4>1, <4>2, <4>3, QuietKept
    <3> QED
      BY <3>2, <3>3
  <2> QED
    BY <2>6, <2>7 DEF QuietUnlessContended
<1> QED
  BY <1>2, <1>4, <1>5 DEF ReadSession

\* Sessions are ended of which no request is under way, or that are contended.
LEMMA EndQuiet ==
    ASSUME Typed, SessionsExist, QuietUnlessContended,
           NEW ids \in SUBSET Sessions, EndSessions(ids),
           \A s \in Sessions, q \in Reqs : Carries(q, s)' => Carries(q, s) /\ SameCall(q),
           \A s \in Sessions, q \in Reqs :
               Carries(q, s) /\ At(q, "answer") => Carries(q, s)',
           \A s \in ids \ contended', q \in Reqs : ~Carries(q, s)',
           \A s \in Sessions, b \in Browsers : Holds(b, s)' => Holds(b, s) /\ jar'[b] = jar[b],
           contended \subseteq contended'
    PROVE  SessionsExist' /\ QuietUnlessContended'
<1>1. ended' \subseteq Sessions
      /\ \A s \in Sessions : /\ Exists(s)' <=> Exists(s)
                             /\ row'[s].hash = row[s].hash
                             /\ s \in ended' <=> s \in ended \/ (s \in ids /\ Exists(s))
                             /\ s \in ids /\ Exists(s) => row'[s].revoked
                             /\ s \notin ids => row'[s] = row[s]
  BY EndedTyped
<1>2. SessionsExist'
  <2>1. \A s \in ended' : Exists(s)'
    BY <1>1 DEF SessionsExist
  <2> QED
    BY <1>1, <2>1 DEF SessionsExist
<1>3. ASSUME NEW s \in Sessions, s \notin contended' PROVE Quiet(s)'
  <2>1. Quiet(s)
    BY <1>3 DEF QuietUnlessContended
  <2>2. s \in ended' => /\ row'[s].revoked
                        /\ s \in ended \/ \A q \in Reqs : ~Carries(q, s)'
    <3>1. CASE s \in ids
      BY <1>1, <1>3, <3>1 DEF SessionsExist
    <3>2. CASE s \notin ids
      BY <1>1, <2>1, <3>2 DEF Quiet
    <3> QED
      BY <3>1, <3>2
  <2> QED
    BY <1>1, <2>1, <2>2, QuietKept
<1> QED
  BY <1>2, <1>3 DEF QuietUnlessContended

LEMMA ChainQuiet ==
    ASSUME Typed, StepsFit, SessionsExist, QuietUnlessContended, NoFalseAlarm,
           NEW q \in Reqs, RevokeSessionChain(q)
    PROVE  SessionsExist' /\ QuietUnlessContended' /\ NoFalseAlarm'
<1>1. ~Free(q) /\ req[q] \in Calls /\ At(q, "revoke") /\ ~At(q, "answer")
  BY InFlight DEF RevokeSessionChain, At
<1>2. PICK s : s = req[q].token.sid
  OBVIOUS
<1>3. s \in Sessions /\ Carries(q, s)
  BY <1>1, <1>2 DEF StepsFit, StepFits, Calls, Tokens, Carries
<1>4. s \in contended
  BY <1>1, <1>3 DEF QuietUnlessContended, Quiet
<1>5. /\ req'[q] = [req[q] EXCEPT !.pc = "answer", !.token = NoToken]
      /\ \A p \in Reqs \ {q} : req'[p] = req[p]
  BY <1>1, AnswerTyped DEF RevokeSessionChain
<1>6. req'[q].token = NoToken
  BY <1>1, <1>5 DEF Calls
<1>7. \A u \in Sessions : ~Carries(q, u)'
  BY <1>6 DEF Carries
<1>8. \A u \in Sessions, p \in Reqs \ {q} : (Carries(p, u)' <=> Carries(p, u)) /\ SameCall(p)
  BY <1>5, LeftAlone
<1>9. /\ EndSessions({s}) /\ jar' = jar /\ contended \subseteq contended'
      /\ alarmed' = alarmed \union {s}
  BY <1>2 DEF RevokeSessionChain
<1>10. SessionsExist' /\ QuietUnlessContended'
  <2>1. \A u \in Sessions, b \in Browsers : Holds(b, u)' => Holds(b, u) /\ jar'[b] = jar[b]
    BY <1>9 DEF Holds
  <2>2. \A u \in Sessions, p \in Reqs : Carries(p, u)' => Carries(p, u) /\ SameCall(p)
    BY <1>7, <1>8
  <2>3. \A u \in Sessions, p \in Reqs : Carries(p, u) /\ At(p, "answer") => Carries(p, u)'
    BY <1>1, <1>8
  <2> QED
    BY <1>3, <1>4, <1>9, <2>1, <2>2, <2>3, EndQuiet
<1> QED
  BY <1>4, <1>9, <1>10 DEF NoFalseAlarm

LEMMA LogoutQuiet ==
    ASSUME Typed, StepsFit, SessionsExist, QuietUnlessContended, NEW q \in Reqs, Logout(q)
    PROVE  SessionsExist' /\ QuietUnlessContended'
<1>1. ~Free(q) /\ req[q] \in Calls /\ At(q, "end") /\ ~At(q, "answer")
  BY InFlight DEF Logout, At
<1>2. PICK k : k = req[q].token
  OBVIOUS
<1>3. /\ req'[q] = [req[q] EXCEPT !.pc = "answer", !.token = NoToken]
      /\ \A p \in Reqs \ {q} : req'[p] = req[p]
  BY <1>1, AnswerTyped DEF Logout
<1>4. req'[q].token = NoToken
  BY <1>1, <1>3 DEF Calls
<1>5. \A u \in Sessions : ~Carries(q, u)'
  BY <1>4 DEF Carries
<1>6. \A u \in Sessions, p \in Reqs \ {q} : (Carries(p, u)' <=> Carries(p, u)) /\ SameCall(p)
  BY <1>3, LeftAlone
<1>7. jar' = jar /\ contended' = contended
  BY DEF Logout
<1>8. CASE k # NoToken /\ Current(k)
  <2>1. PICK s : s = k.sid
    OBVIOUS
  <2>2. s \in Sessions /\ Carries(q, s) /\ EndSessions({s})
    BY <1>1, <1>2, <1>8, <2>1 DEF Calls, Tokens, Carries, Logout
  <2>3. \A p \in Reqs : s \notin contended' => ~Carries(p, s)'
    BY <1>5, <1>6, <1>7, <2>2 DEF QuietUnlessContended, Quiet
  <2>4. \A u \in Sessions, b \in Browsers : Holds(b, u)' => Holds(b, u) /\ jar'[b] = jar[b]
    BY <1>7 DEF Holds
  <2>5. \A u \in Sessions, p \in Reqs : Carries(p, u)' => Carries(p, u) /\ SameCall(p)
    BY <1>5, <1>6
  <2>6. \A u \in Sessions, p \in Reqs : Carries(p, u) /\ At(p, "answer") => Carries(p, u)'
    BY <1>1, <1>6
  <2> QED
    BY <1>7, <2>2, <2>3, <2>4, <2>5, <2>6, EndQuiet
<1>9. CASE ~(k # NoToken /\ Current(k))
  <2>1. UNCHANGED <<row, ended>>
    BY <1>2, <1>9 DEF Logout
  <2> QED
    BY <1>1, <1>3, <1>5, <1>7, <2>1, OneQuiet
<1> QED
  BY <1>8, <1>9

\* By the owner: what is under way then contends the session.
LEMMA RevokeQuiet ==
    ASSUME Typed, SessionsExist, QuietUnlessContended,
           \/ \E s \in Sessions : RevokeSession(s)
           \/ \E b \in Browsers : LogoutAll(b)
    PROVE  SessionsExist' /\ QuietUnlessContended'
<1>1. PICK ids \in SUBSET Sessions :
        /\ EndSessions(ids)
        /\ contended' = contended \union MetInFlight(ids, Reqs)
        /\ req' = req
        /\ \A b \in Browsers : jar'[b] = jar[b] \/ jar'[b] = NoToken
  <2>1. ASSUME NEW s \in Sessions, RevokeSession(s)
        PROVE  /\ EndSessions({s}) /\ contended' = contended \union MetInFlight({s}, Reqs)
               /\ req' = req /\ jar' = jar
    BY <2>1 DEF RevokeSession
  <2>2. ASSUME NEW b \in Browsers, LogoutAll(b)
        PROVE  /\ EndSessions(Sessions)
               /\ contended' = contended \union MetInFlight(Sessions, Reqs)
               /\ req' = req /\ \A c \in Browsers : jar'[c] = jar[c] \/ jar'[c] = NoToken
    BY <2>2 DEF LogoutAll, Typed
  <2> QED
    BY <2>1, <2>2
<1>2. \A u \in Sessions, p \in Reqs : (Carries(p, u)' <=> Carries(p, u)) /\ SameCall(p)
  BY <1>1, LeftAlone
<1>3. \A u \in Sessions, b \in Browsers : Holds(b, u)' => Holds(b, u) /\ jar'[b] = jar[b]
  BY <1>1 DEF Holds
<1>4. \A u \in ids \ contended', p \in Reqs : ~Carries(p, u)'
  BY <1>1, <1>2 DEF MetInFlight
<1> QED
  BY <1>1, <1>2, <1>3, <1>4, EndQuiet

\* What changes at most who waits, and what a browser forgets.
LEMMA StillQuiet ==
    ASSUME SessionsExist, QuietUnlessContended,
           \A s \in Sessions, q \in Reqs : /\ Carries(q, s)' <=> Carries(q, s)
                                           /\ Carries(q, s) => SameCall(q),
           \A b \in Browsers : jar'[b] = jar[b] \/ jar'[b] = NoToken,
           UNCHANGED <<row, ended, contended>>
    PROVE  SessionsExist' /\ QuietUnlessContended'
<1>1. \A s \in Sessions, b \in Browsers : Holds(b, s)' => Holds(b, s) /\ jar'[b] = jar[b]
  BY DEF Holds
<1>2. SessionsExist'
  BY <1>1 DEF SessionsExist, Exists
<1>3. ASSUME NEW s \in Sessions, s \notin contended' PROVE Quiet(s)'
  <2>1. Quiet(s)
    BY <1>3 DEF QuietUnlessContended
  <2>2. s \in ended' => row'[s].revoked /\ s \in ended
    BY <2>1 DEF Quiet
  <2> QED
    BY <1>1, <2>1, <2>2, QuietKept
<1> QED
  BY <1>2, <1>3 DEF QuietUnlessContended

\* The cookies of an answer replace what their browser held.
LEMMA AnsweredQuiet ==
    ASSUME Typed, SessionsExist, QuietUnlessContended, NEW q \in Reqs,
           At(q, "answer"), Cookies(req[q].browser, req[q].token), Goto(q, Idle),
           UNCHANGED <<row, ended, contended>>
    PROVE  SessionsExist' /\ QuietUnlessContended'
<1>1. ~Free(q) /\ req[q] \in Calls
  BY InFlight
<1>2. PICK b \in Browsers, k \in Tokens \union {NoToken} : b = req[q].browser /\ k = req[q].token
  BY <1>1 DEF Calls
<1>3. jar'[b] = k /\ \A c \in Browsers \ {b} : jar'[c] = jar[c]
  BY <1>2 DEF Cookies, Typed
<1>4. req'[q] = Idle /\ \A p \in Reqs \ {q} : req'[p] = req[p]
  BY DEF Goto, Typed
<1>5. \A u \in Sessions : ~Carries(q, u)'
  BY <1>4 DEF Carries, Free, At, Idle
<1>6. \A u \in Sessions, p \in Reqs \ {q} : (Carries(p, u)' <=> Carries(p, u)) /\ SameCall(p)
  BY <1>4, LeftAlone
<1>7. \A u \in Sessions : Holds(b, u)' <=> Carries(q, u)
  BY <1>1, <1>2, <1>3 DEF Holds, Carries
<1>8. \A u \in Sessions, c \in Browsers \ {b} : Holds(c, u)' <=> Holds(c, u)
  BY <1>3 DEF Holds
<1>9. SessionsExist'
  BY <1>5, <1>6, <1>7, <1>8 DEF SessionsExist, Exists
<1>10. ASSUME NEW s \in Sessions, s \notin contended' PROVE Quiet(s)'
  <2>1. Quiet(s)
    BY <1>10 DEF QuietUnlessContended
  <2>2. CASE Carries(q, s)
    <3>1. \A p \in Reqs : ~Carries(p, s)'
      BY <1>5, <1>6, <2>1, <2>2 DEF Quiet
    <3>2. \A c \in Browsers : Holds(c, s)' => c = b
      BY <1>2, <1>8, <2>1, <2>2 DEF Quiet
    <3>3. k.sid = s /\ Current(k)
      BY <1>2, <2>1, <2>2 DEF Quiet, Carries, At
    <3>4. \A c \in Browsers : Holds(c, s)' => Current(jar[c])'
      BY <1>3, <3>2, <3>3 DEF Current
    <3>5. s \in ended' => row'[s].revoked
      BY <2>1 DEF Quiet
    <3> QED
      BY <3>1, <3>2, <3>4, <3>5 DEF Quiet
  <2>3. CASE ~Carries(q, s)
    <3>1. \A p \in Reqs : /\ Carries(p, s)' => Carries(p, s) /\ SameCall(p)
                          /\ Carries(p, s) => Carries(p, s)'
      BY <1>5, <1>6, <2>3
    <3>2. \A c \in Browsers : Holds(c, s)' => Holds(c, s) /\ jar'[c] = jar[c]
      BY <1>3, <1>7, <1>8, <2>3
    <3>3. s \in ended' => row'[s].revoked /\ s \in ended
      BY <2>1 DEF Quiet
    <3> QED
      BY <2>1, <3>1, <3>2, <3>3, QuietKept
  <2> QED
    BY <2>2, <2>3
<1> QED
  BY <1>9, <1>10 DEF QuietUnlessContended

LEMMA OrphanedSame ==
    ASSUME Typed, NEW t \in Tabs, NEW q \in Reqs, NEW s \in Sessions, req'[q] = Orphaned(t)[q]
    PROVE  (Carries(q, s)' <=> Carries(q, s)) /\ (Carries(q, s) => SameCall(q))
<1>1. CASE Free(q)
  BY <1>1, OrphanedKeeps DEF Carries, Free, At, Idle
<1>2. CASE ~Free(q)
  <2>1. /\ req'[q].pc = req[q].pc /\ req'[q].browser = req[q].browser
        /\ req'[q].token = req[q].token
    BY <1>2, OrphanedKeeps
  <2> QED
    BY <2>1 DEF Carries, SameCall, Free, At
<1> QED
  BY <1>1, <1>2

LEMMA ArriveQuiet ==
    ASSUME Typed, StepsFit, SessionsExist, QuietUnlessContended, NEW q \in Reqs, Arrive(q)
    PROVE  SessionsExist' /\ QuietUnlessContended'
<1>1. CASE RefreshAnswered(q) \/ LoginAnswered(q) \/ LateAnswer(q)
  <2>1. /\ At(q, "answer") /\ Cookies(req[q].browser, req[q].token) /\ Goto(q, Idle)
        /\ UNCHANGED <<row, ended, contended>>
    BY <1>1 DEF RefreshAnswered, LoginAnswered, LateAnswer
  <2> QED
    BY <2>1, AnsweredQuiet
<1>2. CASE LogoutAnswered(q)
  <2>1. ~Free(q) /\ req[q] \in Calls /\ req[q].token = NoToken
    BY <1>2, InFlight DEF LogoutAnswered, StepsFit, StepFits
  <2>2. req[q].tab \in Tabs
    BY <1>2, <2>1 DEF LogoutAnswered, Calls
  <2>3. req'[q] = Idle /\ \A p \in Reqs \ {q} : req'[p] = Orphaned(req[q].tab)[p]
    BY <1>2, <2>2, OrphanedKeeps DEF LogoutAnswered
  <2>4. \A s \in Sessions : ~Carries(q, s)' /\ ~Carries(q, s)
    BY <2>1, <2>3 DEF Carries, Free, At, Idle
  <2>5. \A s \in Sessions, p \in Reqs : /\ Carries(p, s)' <=> Carries(p, s)
                                        /\ Carries(p, s) => SameCall(p)
    BY <2>2, <2>3, <2>4, OrphanedSame
  <2>6. \A b \in Browsers : jar'[b] = jar[b] \/ jar'[b] = NoToken
    BY <1>2 DEF LogoutAnswered, Cookies, Typed
  <2> QED
    BY <1>2, <2>5, <2>6, StillQuiet DEF LogoutAnswered
<1>3. CASE GiveUp(q)
  <2>1. ~Free(q) /\ req[q] \in Calls /\ req[q].tab \in Tabs
    BY <1>3, CallsTyped DEF GiveUp, Calls
  <2>2. CASE Goto(q, [req[q] EXCEPT !.tab = NoTab])
    <3>1. /\ req'[q] = [req[q] EXCEPT !.tab = NoTab]
          /\ \A p \in Reqs \ {q} : req'[p] = req[p]
      BY <2>2 DEF Goto, Typed
    <3>2. /\ req'[q].pc = req[q].pc /\ req'[q].browser = req[q].browser
          /\ req'[q].token = req[q].token
      BY <2>1, <3>1 DEF Calls
    <3>3. \A s \in Sessions : (Carries(q, s)' <=> Carries(q, s)) /\ SameCall(q)
      BY <3>2 DEF Carries, SameCall, Free, At
    <3>4. \A s \in Sessions, p \in Reqs : /\ Carries(p, s)' <=> Carries(p, s)
                                          /\ Carries(p, s) => SameCall(p)
      BY <3>1, <3>3, LeftAlone
    <3> QED
      BY <1>3, <3>4, StillQuiet DEF GiveUp
  <2>3. CASE req' = Orphaned(req[q].tab)
    <3>1. \A s \in Sessions, p \in Reqs : /\ Carries(p, s)' <=> Carries(p, s)
                                          /\ Carries(p, s) => SameCall(p)
      BY <2>1, <2>3, OrphanedSame
    <3> QED
      BY <1>3, <3>1, StillQuiet DEF GiveUp
  <2> QED
    BY <1>3, <2>2, <2>3 DEF GiveUp
<1>4. CASE Drop(q)
  <2>1. req'[q] = Idle /\ \A p \in Reqs \ {q} : req'[p] = req[p]
    BY <1>4 DEF Drop, Goto, Typed
  <2>2. \A s \in Sessions : ~Carries(q, s)'
    BY <2>1 DEF Carries, Free, At, Idle
  <2>3. \A s \in Sessions \ contended' : ~(Carries(q, s) /\ At(q, "answer"))
    BY <1>4 DEF Drop, Carries
  <2>4. UNCHANGED <<row, jar, ended>> /\ contended \subseteq contended'
    BY <1>4 DEF Drop
  <2> QED
    BY <2>1, <2>2, <2>3, <2>4, OneQuiet
<1> QED
  BY <1>1, <1>2, <1>3, <1>4 DEF Arrive

LEMMA QuietNext == IndInv /\ [Next]_vars => SessionsExist' /\ QuietUnlessContended' /\ NoFalseAlarm'
<1> SUFFICES ASSUME IndInv, [Next]_vars
             PROVE  SessionsExist' /\ QuietUnlessContended' /\ NoFalseAlarm'
  OBVIOUS
<1> USE DEF IndInv
<1>1. ASSUME alarmed' = alarmed, contended \subseteq contended' PROVE NoFalseAlarm'
  BY <1>1 DEF NoFalseAlarm
<1>2. ASSUME NEW q \in Reqs, NEW t \in Tabs, RefreshSession(q, t)
      PROVE  SessionsExist' /\ QuietUnlessContended' /\ NoFalseAlarm'
  <2>1. Send(q, t, "refresh", "read") /\ ~Awaits(t, "refresh")
    BY <1>2 DEF RefreshSession, Awaits
  <2>2. SessionsExist' /\ QuietUnlessContended'
    BY <1>2, <2>1, SentQuiet DEF RefreshSession
  <2> QED
    BY <1>1, <1>2, <2>1, <2>2 DEF RefreshSession, Send, Contending
<1>3. ASSUME NEW q \in Reqs, NEW t \in Tabs, Login(q, t)
      PROVE  SessionsExist' /\ QuietUnlessContended' /\ NoFalseAlarm'
  <2>1. req'[q].token = NoToken /\ \A p \in Reqs \ {q} : req'[p] = req[p]
    BY <1>3 DEF Login, Goto, Typed
  <2>2. \A s \in Sessions : ~Carries(q, s)' /\ ~Carries(q, s)
    BY <1>3, <2>1 DEF Carries, Login
  <2>3. SessionsExist' /\ QuietUnlessContended'
    BY <1>3, <2>1, <2>2, OneQuiet DEF Login
  <2> QED
    BY <1>1, <1>3, <2>3 DEF Login
<1>4. ASSUME NEW q \in Reqs, NEW t \in Tabs, HandleLogout(q, t)
      PROVE  SessionsExist' /\ QuietUnlessContended' /\ NoFalseAlarm'
  <2>1. Send(q, t, "logout", "end") /\ ~Awaits(t, "logout")
    BY <1>4 DEF HandleLogout, Awaits
  <2>2. SessionsExist' /\ QuietUnlessContended'
    BY <1>4, <2>1, SentQuiet DEF HandleLogout
  <2> QED
    BY <1>1, <1>4, <2>1, <2>2 DEF HandleLogout, Send, Contending
<1>5. ASSUME NEW q \in Reqs, Serve(q)
      PROVE  SessionsExist' /\ QuietUnlessContended' /\ NoFalseAlarm'
  <2>1. CASE CreateSession(q)
    BY <1>1, <2>1, CreateQuiet DEF CreateSession
  <2>2. CASE IssueTokens(q)
    BY <1>1, <2>2, IssueQuiet DEF IssueTokens
  <2>3. CASE ReadSession(q)
    BY <1>1, <2>3, ReadQuiet DEF ReadSession
  <2>4. CASE RevokeSessionChain(q)
    BY <2>4, ChainQuiet
  <2>5. CASE Logout(q)
    BY <1>1, <2>5, LogoutQuiet DEF Logout
  <2> QED
    BY <1>5, <2>1, <2>2, <2>3, <2>4, <2>5 DEF Serve
<1>6. ASSUME NEW q \in Reqs, Arrive(q)
      PROVE  SessionsExist' /\ QuietUnlessContended' /\ NoFalseAlarm'
  <2>1. alarmed' = alarmed /\ contended \subseteq contended'
    BY <1>6 DEF Arrive, RefreshAnswered, LoginAnswered, LogoutAnswered, GiveUp, LateAnswer, Drop
  <2> QED
    BY <1>1, <1>6, <2>1, ArriveQuiet
<1>7. CASE (\E s \in Sessions : RevokeSession(s)) \/ \E b \in Browsers : LogoutAll(b)
  <2>1. alarmed' = alarmed /\ contended \subseteq contended'
    BY <1>7 DEF RevokeSession, LogoutAll
  <2> QED
    BY <1>1, <1>7, <2>1, RevokeQuiet
<1>8. ASSUME NEW t \in Tabs, Reload(t)
      PROVE  SessionsExist' /\ QuietUnlessContended' /\ NoFalseAlarm'
  <2>1. \A s \in Sessions, p \in Reqs : /\ Carries(p, s)' <=> Carries(p, s)
                                        /\ Carries(p, s) => SameCall(p)
    BY <1>8, OrphanedSame DEF Reload
  <2>2. SessionsExist' /\ QuietUnlessContended'
    BY <1>8, <2>1, StillQuiet DEF Reload
  <2> QED
    BY <1>1, <1>8, <2>2 DEF Reload
<1>9. CASE UNCHANGED vars
  <2>1. \A s \in Sessions, p \in Reqs : (Carries(p, s)' <=> Carries(p, s)) /\ SameCall(p)
    BY <1>9, LeftAlone DEF vars
  <2>2. SessionsExist' /\ QuietUnlessContended'
    BY <1>9, <2>1, StillQuiet DEF vars
  <2> QED
    BY <1>1, <1>9, <2>2 DEF vars
<1> QED
  BY <1>2, <1>3, <1>4, <1>5, <1>6, <1>7, <1>8, <1>9 DEF Next, EnsureSession, ApiFetch

LEMMA InitIndInv == Init => IndInv
<1> SUFFICES ASSUME Init PROVE IndInv
  OBVIOUS
<1>1. \A q \in Reqs : Free(q) /\ req[q] = Idle
  BY DEF Init, Free, At, Idle
<1>2. \A s \in Sessions : /\ \A q \in Reqs : ~Carries(q, s)
                          /\ \A b \in Browsers : ~Holds(b, s)
  BY <1>1 DEF Init, Carries, Holds
<1>3. StepsFit /\ TabsWait
  BY <1>1 DEF StepsFit, StepFits, TabsWait, Waiting, At, Idle
<1>4. SessionsExist /\ QuietUnlessContended /\ NoFalseAlarm
  BY <1>2 DEF Init, SessionsExist, QuietUnlessContended, Quiet, NoFalseAlarm
<1> QED
  BY <1>3, <1>4, InitTyped DEF IndInv

LEMMA NextIndInv == IndInv /\ [Next]_vars => IndInv'
  BY TypedNext, TabsWaitNext, QuietNext DEF IndInv

\* Every reachable state has the shape the code gives it, and refreshes of a
\* session that is not contended follow one another: the rotation by issueTokens
\* and the answer that carries its token are never overtaken by a second request.
THEOREM SessionsInvariant == Spec => []IndInv
  BY InitIndInv, NextIndInv, PTL DEF Spec

-----------------------------------------------------------------------------
\* However many browsers, tabs and requests there are: revokeSessionChain is
\* reached with an honest client's token only if two requests of the session
\* were under way at once or an answer got lost.
THEOREM SessionsNoFalseAlarm == Spec => []NoFalseAlarm
  BY SessionsInvariant, PTL DEF IndInv

\* A session that logout, the list of sessions or the reuse detection has ended
\* stays revoked, although issueTokens clears revokedAt without looking: of an
\* uncontended session no refresh is between its read and that update.
THEOREM SessionsRevocationSticks == Spec => []RevocationSticks
<1>1. IndInv => RevocationSticks
  BY DEF IndInv, Typed, QuietUnlessContended, Quiet, RevocationSticks
<1> QED
  BY <1>1, SessionsInvariant, PTL
=============================================================================
