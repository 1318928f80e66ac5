---------------------------- MODULE Market_proofs ----------------------------
(***************************************************************************)
(* Where customers and providers meet: the conversation in the API, and    *)
(* the pages of a request, its suggested workers, the provider's requests  *)
(* and the conversations.  The parts share no state, and each has an       *)
(* invariant of its own.                                                   *)
(***************************************************************************)
EXTENDS Conversations, OrderPage, Suggestions, InboxPage, Workspace,
        SequenceTheorems, FiniteSetTheorems, TLAPS
\* A message, an intervention, and the places of a request that sends.
Message == [from : Users, read : BOOLEAN, shown : BOOLEAN, leaks : BOOLEAN, missed : BOOLEAN]
Measure == [actor : Users, recent : BOOLEAN, decision : {"none", "CLEARED", "ENFORCED"},
            action : {"WARNING", "TEMP_BLOCK"}, status : Blocking \union {"LOGGED", "CLEARED"},
            live : BOOLEAN]
Sending == {"check", "count", "intervene", "store"}
Opening == [pc : {"open"}, user : Users, listed : BOOLEAN, marked : BOOLEAN]

\* A request that is about to store a contact has seen it unlocked, and one that
\* has listed the conversation has left no message behind that was not shown.
MayStore(w) ==
    /\ w.pc \in Sending => w.user \in Users
    /\ w.pc = "store" /\ Detected(w.content) => job.unlocked
    /\ w.pc = "open" =>
           /\ w \in Opening
           /\ w.listed /\ ~w.marked =>
                  \A k \in DOMAIN messages :
                      To(w.user, messages[k]) => messages[k].shown \/ messages[k].missed

MessagesInv ==
    /\ job \in [canceled : BOOLEAN, unlocked : BOOLEAN]
    /\ messages \in Seq(Message) /\ DOMAIN call = Calls
    /\ \A c \in Calls : MayStore(call[c])
    /\ ContactStaysLocked /\ ReadWasShown

\* What a request has counted still holds, or the user has met themselves.
Counts(w) ==
    /\ w.pc \in Sending => w.user \in Users
    /\ w.pc = "intervene" =>
           /\ w.previous \in Nat
           /\ w.previous = 0 => w.user \in overlapped \/ Attempts(w.user) = {}
           /\ w.previous > 0 => \E n \in DOMAIN interventions : interventions[n].actor = w.user
    /\ w.pc = "open" => w \in Opening
    /\ w.pc \in {"appeal", "review"} => w.k \in DOMAIN interventions
    /\ w.pc = "review" => w.decision \in {"CLEARED", "ENFORCED"}

Together(v, w) ==
    v.pc \in Sending /\ w.pc \in Sending /\ v.user = w.user => v.user \in overlapped

\* Whoever has an intervention was warned by then.
Warned ==
    \A k \in DOMAIN interventions :
        \E n \in 1 .. k : /\ interventions[n].actor = interventions[k].actor
                          /\ interventions[n].action = "WARNING"

WarnedOnce ==
    \A u \in Users \ overlapped : \A k, n \in Attempts(u) :
        interventions[k].action = "WARNING" /\ interventions[n].action = "WARNING" => k = n

ClearedIsOver ==
    \A k \in DOMAIN interventions : interventions[k].decision = "CLEARED" => ~interventions[k].live

InterventionsInv ==
    /\ interventions \in Seq(Measure) /\ DOMAIN call = Calls
    /\ \A c \in Calls : Counts(call[c])
    /\ \A c, d \in Calls : c # d => Together(call[c], call[d])
    /\ Warned /\ WarnedOnce /\ ClearedIsOver

-----------------------------------------------------------------------------
(* The two participants. *)

LEMMA TwoUsers ==
    /\ \A u \in Users : Counterpart(u) \in Users /\ Counterpart(u) # u
    /\ \A u, v \in Users : u # v => v = Counterpart(u)
  <1>1. \A u \in Users : \E v \in Users : v # u
    <2> SUFFICES ASSUME NEW u \in Users, \A v \in Users : v = u PROVE FALSE
      OBVIOUS
    <2>1. Users = {u}
      OBVIOUS
    <2>2. Cardinality({u}) = 1
      BY FS_Singleton
    <2> QED BY <2>1, <2>2, ConversationsAssumption
  <1>2. \A u, v, w \in Users : u # v /\ u # w => v = w
    <2> SUFFICES ASSUME NEW u \in Users, NEW v \in Users, NEW w \in Users,
                        u # v, u # w, v # w PROVE FALSE
      OBVIOUS
    <2>1. IsFiniteSet(Users) /\ Cardinality(Users) = 2
      BY ConversationsAssumption
    <2>2. IsFiniteSet(Users \ {u}) /\ Cardinality(Users \ {u}) = 1
      BY <2>1, FS_RemoveElement
    <2>3. Cardinality((Users \ {u}) \ {v}) = 0 /\ IsFiniteSet((Users \ {u}) \ {v})
      BY <2>2, FS_RemoveElement
    <2>4. (Users \ {u}) \ {v} = {}
      BY <2>3, FS_EmptySet
    <2> QED BY <2>4
  <1>3. \A u \in Users : Counterpart(u) \in Users /\ Counterpart(u) # u
    BY <1>1 DEF Counterpart
  <1> QED BY <1>2, <1>3

-----------------------------------------------------------------------------
(* The messages of a conversation. *)

\* The messages are those of before, one by one.
SameButFor(new, field) ==
    /\ new \in Seq(Message) /\ DOMAIN new = DOMAIN messages
    /\ \A k \in DOMAIN messages :
           /\ new[k].from = messages[k].from /\ new[k].leaks = messages[k].leaks
           /\ field # "read" => new[k].read = messages[k].read
           /\ field # "shown" => new[k].shown = messages[k].shown
           /\ field # "missed" => new[k].missed = messages[k].missed

\* A request goes on and the messages stay, or one of them is marked in a field.
LEMMA MessagesTurn ==
    ASSUME MessagesInv, NEW c \in Calls, NEW step, Goto(c, step),
           UNCHANGED <<messages, job>>, MayStore(step)',
           ~At(c, "open")
    PROVE  MessagesInv'
  <1>1. DOMAIN call' = Calls /\ \A d \in Calls : call'[d] = IF d = c THEN step ELSE call[d]
    BY DEF Goto, MessagesInv
  <1>2. \A d \in Calls : MayStore(call[d])'
    <2>1. ASSUME NEW d \in Calls, d # c PROVE MayStore(call[d])'
      <3>1. MayStore(call[d]) /\ call'[d] = call[d]
        BY <1>1, <2>1 DEF MessagesInv
      <3> QED BY <3>1 DEF MayStore
    <2>2. MayStore(call[c])'
      BY <1>1 DEF MayStore
    <2> QED BY <2>1, <2>2
  <1>3. \A u : HalfOpen(u, "marked", "listed") => HalfOpen(u, "marked", "listed")'
    BY <1>1 DEF HalfOpen, At
  <1>4. ContactStaysLocked' /\ ReadWasShown'
    BY <1>3 DEF MessagesInv, ContactStaysLocked, ReadWasShown
  <1> QED BY <1>1, <1>2, <1>4 DEF MessagesInv

LEMMA MessagesInitInv == ConversationsInit => MessagesInv
  BY DEF ConversationsInit, MessagesInv, MayStore, Sending, Idle, ContactStaysLocked, ReadWasShown

LEMMA StoreMessageInv ==
    ASSUME MessagesInv, NEW c \in Calls, StoreMessage(c)
    PROVE  MessagesInv'
  <1>1. PICK new : new = [from |-> call[c].user, read |-> FALSE, shown |-> FALSE,
            leaks |-> Detected(call[c].content) /\ ~job.unlocked,
            missed |-> HalfOpen(Counterpart(call[c].user), "listed", "marked")]
    OBVIOUS
  <1>2. /\ messages' = Append(messages, new) /\ Goto(c, Idle) /\ call[c].pc = "store"
        /\ MayStore(call[c]) /\ UNCHANGED job
    BY <1>1 DEF StoreMessage, MessagesInv, Return, At
  <1>3. /\ new.from \in Users /\ new.from = call[c].user /\ new.read = FALSE /\ new.leaks = FALSE
        /\ new.missed = HalfOpen(Counterpart(call[c].user), "listed", "marked")
    <2>1. call[c].user \in Users /\ (Detected(call[c].content) => job.unlocked)
      BY <1>2 DEF MayStore, Sending
    <2> QED BY <1>1, <2>1, Zenon
  <1>4. new \in Message
    <2>1. HalfOpen(Counterpart(call[c].user), "listed", "marked") \in BOOLEAN
      BY DEF HalfOpen
    <2> QED BY <1>1, <1>3, <2>1, Zenon DEF Message
  <1>5. /\ messages' \in Seq(Message) /\ DOMAIN messages' = DOMAIN messages \union {Len(messages) + 1}
        /\ messages'[Len(messages) + 1] = new
        /\ \A k \in DOMAIN messages : messages'[k] = messages[k] /\ k # Len(messages) + 1
    BY <1>2, <1>4 DEF MessagesInv
  <1>6. DOMAIN call' = Calls /\ \A d \in Calls : call'[d] = IF d = c THEN Idle ELSE call[d]
    BY <1>2 DEF Goto, MessagesInv
  <1>7. \A d \in Calls : MayStore(call[d])'
    <2> SUFFICES ASSUME NEW d \in Calls PROVE MayStore(call[d])'
      OBVIOUS
    <2>1. CASE d = c
      BY <1>6, <2>1 DEF MayStore, Idle, Sending
    <2>2. CASE d # c
      <3>1. MayStore(call[d]) /\ call'[d] = call[d]
        BY <1>6, <2>2 DEF MessagesInv
      <3>2. ASSUME call[d].pc = "open", call[d].listed, ~call[d].marked,
                   NEW k \in DOMAIN messages', To(call[d].user, messages'[k])
            PROVE  messages'[k].shown \/ messages'[k].missed
        <4>1. CASE k \in DOMAIN messages
          BY <1>5, <3>1, <3>2, <4>1 DEF MayStore
        <4>2. CASE k = Len(messages) + 1
          <5>1. new.from # call[d].user /\ call[d].user \in Users
            BY <1>5, <3>1, <3>2, <4>2 DEF To, MayStore, Opening
          <5>2. call[d].user = Counterpart(call[c].user)
            BY <1>3, <5>1, TwoUsers
          <5>3. HalfOpen(Counterpart(call[c].user), "listed", "marked")
            BY <3>2, <5>2 DEF HalfOpen, At
          <5> QED BY <1>3, <1>5, <4>2, <5>3
        <4> QED BY <1>5, <4>1, <4>2
      <3> QED BY <1>2, <3>1, <3>2 DEF MayStore, To
    <2> QED BY <2>1, <2>2
  <1>8. ContactStaysLocked'
    BY <1>3, <1>5 DEF MessagesInv, ContactStaysLocked
  <1>9. ReadWasShown'
    <2>1. \A u : HalfOpen(u, "marked", "listed") => HalfOpen(u, "marked", "listed")'
      BY <1>2, <1>6 DEF HalfOpen, At
    <2> SUFFICES ASSUME NEW k \in DOMAIN messages', messages'[k].read
                 PROVE  \/ messages'[k].shown \/ messages'[k].missed
                        \/ HalfOpen(Counterpart(messages[k].from), "marked", "listed")'
      BY DEF ReadWasShown
    <2>2. k \in DOMAIN messages /\ messages'[k] = messages[k]
      BY <1>3, <1>5
    <2> QED BY <2>1, <2>2 DEF MessagesInv, ReadWasShown
  <1> QED BY <1>2, <1>5, <1>6, <1>7, <1>8, <1>9 DEF MessagesInv

\* What an open makes of the messages: field by field nothing gets worse, and what
\* no longer counts as half open was shown or is known to be missed.
LEMMA MessagesMarked ==
    ASSUME MessagesInv, NEW c \in Calls, NEW step, Goto(c, step), UNCHANGED job,
           NEW field, SameButFor(messages', field),
           \A k \in DOMAIN messages :
               /\ messages[k].shown => messages'[k].shown
               /\ messages[k].missed => messages'[k].missed,
           MayStore(step)',
           \A k \in DOMAIN messages :
               messages'[k].read =>
                   \/ messages'[k].shown \/ messages'[k].missed
                   \/ /\ step.pc = "open" /\ step.user = Counterpart(messages[k].from)
                      /\ step.marked /\ ~step.listed
                   \/ \E d \in Calls \ {c} :
                          /\ call[d].pc = "open" /\ call[d].user = Counterpart(messages[k].from)
                          /\ call[d].marked /\ ~call[d].listed
    PROVE  MessagesInv'
  <1>1. DOMAIN call' = Calls /\ \A d \in Calls : call'[d] = IF d = c THEN step ELSE call[d]
    BY DEF Goto, MessagesInv
  <1>2. \A d \in Calls : MayStore(call[d])'
    <2>1. ASSUME NEW d \in Calls, d # c PROVE MayStore(call[d])'
      <3>1. MayStore(call[d]) /\ call'[d] = call[d]
        BY <1>1, <2>1 DEF MessagesInv
      <3> QED BY <3>1 DEF MayStore, SameButFor, To
    <2>2. MayStore(call[c])'
      BY <1>1 DEF MayStore
    <2> QED BY <2>1, <2>2
  <1>3. ContactStaysLocked'
    BY DEF MessagesInv, ContactStaysLocked, SameButFor
  <1>4. ReadWasShown'
    <2> SUFFICES ASSUME NEW k \in DOMAIN messages, messages'[k].read,
                        ~messages'[k].shown, ~messages'[k].missed
                 PROVE  HalfOpen(Counterpart(messages[k].from), "marked", "listed")'
      BY DEF ReadWasShown, SameButFor
    <2>1. messages'[k].from = messages[k].from
      BY DEF SameButFor
    <2>2. PICK d \in Calls : /\ call'[d].pc = "open"
                             /\ call'[d].user = Counterpart(messages[k].from)
                             /\ call'[d].marked /\ ~call'[d].listed
      BY <1>1
    <2> QED BY <2>1, <2>2 DEF HalfOpen, At
  <1> QED BY <1>1, <1>2, <1>3, <1>4 DEF MessagesInv, SameButFor

\* An answer of an open: the request goes on, or is over once it has both.
LEMMA AfterOpenStep ==
    ASSUME NEW c \in Calls, call[c] \in Opening, NEW field \in {"listed", "marked"},
           AfterOpen(c, field)
    PROVE  \E step : /\ Goto(c, step)
                     /\ \/ step = Idle /\ call[c][IF field = "listed" THEN "marked" ELSE "listed"]
                        \/ /\ step \in Opening /\ step.user = call[c].user
                           /\ ~call[c][IF field = "listed" THEN "marked" ELSE "listed"]
                           /\ step.listed = (field = "listed" \/ call[c].listed)
                           /\ step.marked = (field = "marked" \/ call[c].marked)
  <1>1. PICK next : next = [call[c] EXCEPT ![field] = TRUE]
    OBVIOUS
  <1>2. Goto(c, IF next.listed /\ next.marked THEN Idle ELSE next)
    BY <1>1 DEF AfterOpen
  <1>3. next \in Opening /\ next.user = call[c].user
    BY <1>1 DEF Opening
  <1>4. CASE field = "listed"
    <2>1. next.listed /\ (next.marked <=> call[c].marked)
      BY <1>1, <1>4 DEF Opening
    <2>2. CASE call[c].marked
      <3>1. Goto(c, Idle)
        BY <1>2, <2>1, <2>2
      <3> QED BY <1>4, <2>2, <3>1
    <2>3. CASE ~call[c].marked
      <3>1. Goto(c, next)
        BY <1>2, <2>1, <2>3
      <3>2. next.listed = TRUE /\ next.marked = FALSE /\ call[c].marked = FALSE
        BY <1>3, <2>1, <2>3 DEF Opening
      <3> QED BY <1>3, <1>4, <2>3, <3>1, <3>2
    <2> QED BY <2>2, <2>3
  <1>5. CASE field = "marked"
    <2>1. next.marked /\ (next.listed <=> call[c].listed)
      BY <1>1, <1>5 DEF Opening
    <2>2. CASE call[c].listed
      <3>1. Goto(c, Idle)
        BY <1>2, <2>1, <2>2
      <3> QED BY <1>5, <2>2, <3>1
    <2>3. CASE ~call[c].listed
      <3>1. Goto(c, next)
        BY <1>2, <2>1, <2>3
      <3>2. next.marked = TRUE /\ next.listed = FALSE /\ call[c].listed = FALSE
        BY <1>3, <2>1, <2>3 DEF Opening
      <3> QED BY <1>3, <1>5, <2>3, <3>1, <3>2
    <2> QED BY <2>2, <2>3
  <1> QED BY <1>4, <1>5

LEMMA ListByJobInv ==
    ASSUME MessagesInv, NEW c \in Calls, ListByJob(c)
    PROVE  MessagesInv'
  <1>1. call[c] \in Opening /\ call[c].pc = "open" /\ MayStore(call[c]) /\ ~call[c].listed
    BY DEF MessagesInv, MayStore, ListByJob, At
  <1>2. PICK step : /\ Goto(c, step)
                    /\ \/ step = Idle /\ call[c].marked
                       \/ /\ step \in Opening /\ step.user = call[c].user /\ ~call[c].marked
                          /\ step.listed /\ ~step.marked
    <2>1. AfterOpen(c, "listed")
      BY DEF ListByJob
    <2> QED BY <1>1, <2>1, AfterOpenStep
  <1>3. /\ DOMAIN messages' = DOMAIN messages /\ UNCHANGED job
        /\ \A k \in DOMAIN messages : messages'[k] =
               [messages[k] EXCEPT !.shown = messages[k].shown \/ To(call[c].user, messages[k])]
    BY DEF ListByJob
  <1>4. \A k \in DOMAIN messages :
            /\ messages'[k] \in Message /\ messages'[k].from = messages[k].from
            /\ messages'[k].leaks = messages[k].leaks /\ messages'[k].read = messages[k].read
            /\ messages'[k].missed = messages[k].missed
            /\ messages'[k].shown <=> messages[k].shown \/ To(call[c].user, messages[k])
    <2> SUFFICES ASSUME NEW k \in DOMAIN messages
                 PROVE  /\ messages'[k] \in Message /\ messages'[k].from = messages[k].from
                        /\ messages'[k].leaks = messages[k].leaks
                        /\ messages'[k].read = messages[k].read
                        /\ messages'[k].missed = messages[k].missed
                        /\ messages'[k].shown <=> messages[k].shown \/ To(call[c].user, messages[k])
      OBVIOUS
    <2>1. PICK b : b = (messages[k].shown \/ To(call[c].user, messages[k]))
      OBVIOUS
    <2>2. b \in BOOLEAN /\ messages[k] \in Message
      BY <2>1 DEF MessagesInv
    <2>3. messages'[k] = [messages[k] EXCEPT !.shown = b]
      BY <1>3, <2>1, Zenon
    <2>5. PICK m : m = messages[k]
      OBVIOUS
    <2>6. m \in Message /\ messages'[k] = [m EXCEPT !.shown = b]
      BY <2>2, <2>3, <2>5
    <2>7. /\ [m EXCEPT !.shown = b] \in Message
          /\ [m EXCEPT !.shown = b].from = m.from
          /\ [m EXCEPT !.shown = b].leaks = m.leaks
          /\ [m EXCEPT !.shown = b].shown = b
          /\ [m EXCEPT !.shown = b].read = m.read
          /\ [m EXCEPT !.shown = b].missed = m.missed
      <3>1. /\ m.from \in Users /\ m.read \in BOOLEAN /\ m.shown \in BOOLEAN
            /\ m.leaks \in BOOLEAN /\ m.missed \in BOOLEAN
        BY <2>6 DEF Message
      <3>2. [m EXCEPT !.shown = b] = [from |-> m.from, read |-> m.read, shown |-> b, leaks |-> m.leaks, missed |-> m.missed]
        BY <2>6 DEF Message
      <3> QED BY <2>2, <3>1, <3>2, Zenon DEF Message
    <2>4. /\ messages'[k] \in Message /\ messages'[k].from = messages[k].from
          /\ messages'[k].leaks = messages[k].leaks /\ messages'[k].shown = b
          /\ messages'[k].read = messages[k].read /\ messages'[k].missed = messages[k].missed
      BY <2>5, <2>6, <2>7, Zenon
    <2> QED BY <2>1, <2>4, Zenon
  <1>5. SameButFor(messages', "shown")
    <2>1. messages' = [k \in 1 .. Len(messages) |-> messages'[k]] /\ Len(messages) \in Nat
      BY <1>3 DEF MessagesInv, ListByJob
    <2>2. messages' \in Seq(Message)
      BY <1>3, <1>4, <2>1 DEF MessagesInv
    <2> QED BY <1>3, <1>4, <2>2 DEF SameButFor
  <1>6. MayStore(step)'
    <2>1. CASE step = Idle
      BY <2>1 DEF MayStore, Idle, Sending
    <2>2. CASE step \in Opening /\ step.user = call[c].user
      <3>1. step.pc = "open"
        BY <2>2 DEF Opening
      <3> QED BY <1>3, <1>4, <2>2, <3>1 DEF MayStore, To, Sending
    <2> QED BY <1>2, <2>1, <2>2
  <1>7. \A k \in DOMAIN messages :
            messages'[k].read =>
                \/ messages'[k].shown \/ messages'[k].missed
                \/ \E d \in Calls \ {c} :
                       /\ call[d].pc = "open" /\ call[d].user = Counterpart(messages[k].from)
                       /\ call[d].marked /\ ~call[d].listed
    <2> SUFFICES ASSUME NEW k \in DOMAIN messages, messages'[k].read,
                        ~messages'[k].shown, ~messages'[k].missed
                 PROVE  \E d \in Calls \ {c} :
                            /\ call[d].pc = "open" /\ call[d].user = Counterpart(messages[k].from)
                            /\ call[d].marked /\ ~call[d].listed
      OBVIOUS
    <2>1. HalfOpen(Counterpart(messages[k].from), "marked", "listed")
      BY <1>4 DEF MessagesInv, ReadWasShown
    <2>2. call[c].user # Counterpart(messages[k].from)
      <3>1. messages[k].from \in Users
        <4>1. messages[k] \in Message
          BY DEF MessagesInv
        <4> QED BY <4>1 DEF Message
      <3>2. ~To(call[c].user, messages[k])
        BY <1>4
      <3> QED BY <3>1, <3>2, TwoUsers DEF To
    <2> QED BY <2>1, <2>2 DEF HalfOpen, At
  <1> QED BY <1>2, <1>3, <1>4, <1>5, <1>6, <1>7, MessagesMarked

LEMMA MarkJobReadInv ==
    ASSUME MessagesInv, NEW c \in Calls, MarkJobRead(c)
    PROVE  MessagesInv'
  <1>1. call[c] \in Opening /\ call[c].pc = "open" /\ MayStore(call[c]) /\ ~call[c].marked
    BY DEF MessagesInv, MayStore, MarkJobRead, At
  <1>2. PICK step : /\ Goto(c, step)
                    /\ \/ step = Idle /\ call[c].listed
                       \/ /\ step \in Opening /\ step.user = call[c].user /\ ~call[c].listed
                          /\ step.marked /\ ~step.listed
    <2>1. AfterOpen(c, "marked")
      BY DEF MarkJobRead
    <2> QED BY <1>1, <2>1, AfterOpenStep
  <1>3. /\ DOMAIN messages' = DOMAIN messages /\ UNCHANGED job
        /\ \A k \in DOMAIN messages : messages'[k] =
               [messages[k] EXCEPT !.read = messages[k].read \/ To(call[c].user, messages[k])]
    BY DEF MarkJobRead
  <1>4. \A k \in DOMAIN messages :
            /\ messages'[k] \in Message /\ messages'[k].from = messages[k].from
            /\ messages'[k].leaks = messages[k].leaks /\ messages'[k].shown = messages[k].shown
            /\ messages'[k].missed = messages[k].missed
            /\ messages'[k].read <=> messages[k].read \/ To(call[c].user, messages[k])
    <2> SUFFICES ASSUME NEW k \in DOMAIN messages
                 PROVE  /\ messages'[k] \in Message /\ messages'[k].from = messages[k].from
                        /\ messages'[k].leaks = messages[k].leaks
                        /\ messages'[k].shown = messages[k].shown
                        /\ messages'[k].missed = messages[k].missed
                        /\ messages'[k].read <=> messages[k].read \/ To(call[c].user, messages[k])
      OBVIOUS
    <2>1. PICK b : b = (messages[k].read \/ To(call[c].user, messages[k]))
      OBVIOUS
    <2>2. b \in BOOLEAN /\ messages[k] \in Message
      BY <2>1 DEF MessagesInv
    <2>3. messages'[k] = [messages[k] EXCEPT !.read = b]
      BY <1>3, <2>1, Zenon
    <2>5. PICK m : m = messages[k]
      OBVIOUS
    <2>6. m \in Message /\ messages'[k] = [m EXCEPT !.read = b]
      BY <2>2, <2>3, <2>5
    <2>7. /\ [m EXCEPT !.read = b] \in Message
          /\ [m EXCEPT !.read = b].from = m.from
          /\ [m EXCEPT !.read = b].leaks = m.leaks
          /\ [m EXCEPT !.read = b].read = b
          /\ [m EXCEPT !.read = b].shown = m.shown
          /\ [m EXCEPT !.read = b].missed = m.missed
      <3>1. /\ m.from \in Users /\ m.read \in BOOLEAN /\ m.shown \in BOOLEAN
            /\ m.leaks \in BOOLEAN /\ m.missed \in BOOLEAN
        BY <2>6 DEF Message
      <3>2. [m EXCEPT !.read = b] = [from |-> m.from, read |-> b, shown |-> m.shown, leaks |-> m.leaks, missed |-> m.missed]
        BY <2>6 DEF Message
      <3> QED BY <2>2, <3>1, <3>2, Zenon DEF Message
    <2>4. /\ messages'[k] \in Message /\ messages'[k].from = messages[k].from
          /\ messages'[k].leaks = messages[k].leaks /\ messages'[k].read = b
          /\ messages'[k].shown = messages[k].shown /\ messages'[k].missed = messages[k].missed
      BY <2>5, <2>6, <2>7, Zenon
    <2> QED BY <2>1, <2>4, Zenon
  <1>5. SameButFor(messages', "read")
    <2>1. messages' = [k \in 1 .. Len(messages) |-> messages'[k]] /\ Len(messages) \in Nat
      BY <1>3 DEF MessagesInv, MarkJobRead
    <2>2. messages' \in Seq(Message)
      BY <1>3, <1>4, <2>1 DEF MessagesInv
    <2> QED BY <1>3, <1>4, <2>2 DEF SameButFor
  <1>6. MayStore(step)'
    <2>1. CASE step = Idle
      BY <2>1 DEF MayStore, Idle, Sending
    <2>2. CASE step \in Opening /\ step.marked
      <3>1. step.pc = "open"
        BY <2>2 DEF Opening
      <3> QED BY <2>2, <3>1 DEF MayStore, Sending
    <2> QED BY <1>2, <2>1, <2>2
  <1>7. \A k \in DOMAIN messages :
            messages'[k].read =>
                \/ messages'[k].shown \/ messages'[k].missed
                \/ /\ step.pc = "open" /\ step.user = Counterpart(messages[k].from)
                   /\ step.marked /\ ~step.listed
                \/ \E d \in Calls \ {c} :
                       /\ call[d].pc = "open" /\ call[d].user = Counterpart(messages[k].from)
                       /\ call[d].marked /\ ~call[d].listed
    <2> SUFFICES ASSUME NEW k \in DOMAIN messages, messages'[k].read,
                        ~messages'[k].shown, ~messages'[k].missed
                 PROVE  \/ /\ step.pc = "open" /\ step.user = Counterpart(messages[k].from)
                           /\ step.marked /\ ~step.listed
                        \/ \E d \in Calls \ {c} :
                               /\ call[d].pc = "open"
                               /\ call[d].user = Counterpart(messages[k].from)
                               /\ call[d].marked /\ ~call[d].listed
      OBVIOUS
    <2>1. CASE messages[k].read
      <3>1. HalfOpen(Counterpart(messages[k].from), "marked", "listed")
        BY <1>4, <2>1 DEF MessagesInv, ReadWasShown
      <3> QED BY <1>1, <3>1 DEF HalfOpen, At
    <2>2. CASE ~messages[k].read
      <3>1. To(call[c].user, messages[k])
        BY <1>4, <2>2
      <3>2. ~call[c].listed
        BY <1>1, <1>4, <3>1 DEF MayStore
      <3>3. messages[k].from \in Users /\ call[c].user \in Users
        <4>1. messages[k] \in Message
          BY DEF MessagesInv
        <4> QED BY <1>1, <4>1 DEF Message, Opening
      <3>4. call[c].user = Counterpart(messages[k].from)
        BY <3>1, <3>3, TwoUsers DEF To
      <3>5. step.pc = "open"
        BY <1>2, <3>2 DEF Opening
      <3> QED BY <1>2, <3>2, <3>4, <3>5
    <2> QED BY <2>1, <2>2
  <1> QED BY <1>2, <1>3, <1>4, <1>5, <1>6, <1>7, MessagesMarked

LEMMA AbortInv ==
    ASSUME MessagesInv, NEW c \in Calls, Abort(c)
    PROVE  MessagesInv'
  <1>1. Goto(c, Idle) /\ UNCHANGED job /\ MayStore(call[c])
    BY DEF Abort, Return, MessagesInv
  <1>2. /\ DOMAIN messages' = DOMAIN messages
        /\ \A k \in DOMAIN messages : messages'[k] =
               [messages[k] EXCEPT !.missed = messages[k].missed \/
                   (/\ At(c, "open") /\ call[c].marked
                    /\ messages[k].from # call[c].user /\ ~messages[k].shown)]
    BY DEF Abort
  <1>3. \A k \in DOMAIN messages :
            /\ messages'[k] \in Message /\ messages'[k].from = messages[k].from
            /\ messages'[k].leaks = messages[k].leaks /\ messages'[k].shown = messages[k].shown
            /\ messages'[k].read = messages[k].read
            /\ messages'[k].missed <=>
                   \/ messages[k].missed
                   \/ /\ At(c, "open") /\ call[c].marked
                      /\ messages[k].from # call[c].user /\ ~messages[k].shown
    <2> SUFFICES ASSUME NEW k \in DOMAIN messages
                 PROVE  /\ messages'[k] \in Message /\ messages'[k].from = messages[k].from
                        /\ messages'[k].leaks = messages[k].leaks
                        /\ messages'[k].shown = messages[k].shown
                        /\ messages'[k].read = messages[k].read
                        /\ messages'[k].missed <=>
                               \/ messages[k].missed
                               \/ /\ At(c, "open") /\ call[c].marked
                                  /\ messages[k].from # call[c].user /\ ~messages[k].shown
      OBVIOUS
    <2>1. PICK b : b = (messages[k].missed \/
                   (/\ At(c, "open") /\ call[c].marked
                    /\ messages[k].from # call[c].user /\ ~messages[k].shown))
      OBVIOUS
    <2>2. b \in BOOLEAN /\ messages[k] \in Message
      BY <2>1 DEF MessagesInv
    <2>3. messages'[k] = [messages[k] EXCEPT !.missed = b]
      BY <1>2, <2>1, Zenon
    <2>5. PICK m : m = messages[k]
      OBVIOUS
    <2>6. m \in Message /\ messages'[k] = [m EXCEPT !.missed = b]
      BY <2>2, <2>3, <2>5
    <2>7. /\ [m EXCEPT !.missed = b] \in Message
          /\ [m EXCEPT !.missed = b].from = m.from
          /\ [m EXCEPT !.missed = b].leaks = m.leaks
          /\ [m EXCEPT !.missed = b].missed = b
          /\ [m EXCEPT !.missed = b].shown = m.shown
          /\ [m EXCEPT !.missed = b].read = m.read
      <3>1. /\ m.from \in Users /\ m.read \in BOOLEAN /\ m.shown \in BOOLEAN
            /\ m.leaks \in BOOLEAN /\ m.missed \in BOOLEAN
        BY <2>6 DEF Message
      <3>2. [m EXCEPT !.missed = b] = [from |-> m.from, read |-> m.read, shown |-> m.shown, leaks |-> m.leaks, missed |-> b]
        BY <2>6 DEF Message
      <3> QED BY <2>2, <3>1, <3>2, Zenon DEF Message
    <2>4. /\ messages'[k] \in Message /\ messages'[k].from = messages[k].from
          /\ messages'[k].leaks = messages[k].leaks /\ messages'[k].missed = b
          /\ messages'[k].shown = messages[k].shown /\ messages'[k].read = messages[k].read
      BY <2>5, <2>6, <2>7, Zenon
    <2> QED BY <2>1, <2>4, Zenon
  <1>4. SameButFor(messages', "missed")
    <2>1. messages' = [k \in 1 .. Len(messages) |-> messages'[k]] /\ Len(messages) \in Nat
      BY <1>2 DEF MessagesInv, Abort
    <2>2. messages' \in Seq(Message)
      BY <1>2, <1>3, <2>1 DEF MessagesInv
    <2> QED BY <1>2, <1>3, <2>2 DEF SameButFor
  <1>5. MayStore(Idle)'
    BY DEF MayStore, Idle, Sending
  <1>6. \A k \in DOMAIN messages :
            messages'[k].read =>
                \/ messages'[k].shown \/ messages'[k].missed
                \/ \E d \in Calls \ {c} :
                       /\ call[d].pc = "open" /\ call[d].user = Counterpart(messages[k].from)
                       /\ call[d].marked /\ ~call[d].listed
    <2> SUFFICES ASSUME NEW k \in DOMAIN messages, messages'[k].read,
                        ~messages'[k].shown, ~messages'[k].missed
                 PROVE  \E d \in Calls \ {c} :
                            /\ call[d].pc = "open" /\ call[d].user = Counterpart(messages[k].from)
                            /\ call[d].marked /\ ~call[d].listed
      OBVIOUS
    <2>1. PICK d \in Calls : /\ At(d, "open") /\ call[d].user = Counterpart(messages[k].from)
                             /\ call[d].marked /\ ~call[d].listed
      BY <1>3 DEF MessagesInv, ReadWasShown, HalfOpen
    <2>2. d # c
      <3>1. messages[k].from \in Users
        <4>1. messages[k] \in Message
          BY DEF MessagesInv
        <4> QED BY <4>1 DEF Message
      <3> QED BY <1>3, <2>1, <3>1, TwoUsers
    <2> QED BY <2>1, <2>2 DEF At
  <1> QED BY <1>1, <1>3, <1>4, <1>5, <1>6, MessagesMarked

\* Steps that touch neither a request nor a message.
LEMMA MessagesAside ==
    ASSUME MessagesInv, UNCHANGED <<messages, call>>, job.unlocked => job'.unlocked,
           job' \in [canceled : BOOLEAN, unlocked : BOOLEAN]
    PROVE  MessagesInv'
  BY DEF MessagesInv, MayStore, To, ContactStaysLocked, ReadWasShown, HalfOpen, At

LEMMA MessagesStep == MessagesInv /\ [ConversationsNext]_conversationVars => MessagesInv'
  <1> SUFFICES ASSUME MessagesInv, [ConversationsNext]_conversationVars PROVE MessagesInv'
    OBVIOUS
  <1>0. ASSUME NEW c \in Calls, Return(c), UNCHANGED <<messages, job>>, ~At(c, "open")
        PROVE  MessagesInv'
    <2>1. MayStore(Idle)'
      BY DEF MayStore, Idle, Sending
    <2> QED BY <1>0, <2>1, MessagesTurn DEF Return
  <1>1. ASSUME NEW c \in Calls, NEW u \in Users, NEW content \in Contents, Send(c, u, content)
        PROVE  MessagesInv'
    <2>1. PICK step : step = [pc |-> IF job.unlocked THEN "store" ELSE "check",
                              user |-> u, content |-> content]
      OBVIOUS
    <2>2. MayStore(step)'
      BY <1>1, <2>1 DEF MayStore, Sending, Send
    <2> QED BY <1>1, <2>1, <2>2, MessagesTurn DEF Send, At
  <1>2. ASSUME NEW c \in Calls, NEW u \in Users, OpenConversation(c, u) PROVE MessagesInv'
    <2>1. PICK step : step = [pc |-> "open", user |-> u, listed |-> FALSE, marked |-> FALSE]
      OBVIOUS
    <2>2. MayStore(step)'
      BY <2>1 DEF MayStore, Sending, Opening
    <2> QED BY <1>2, <2>1, <2>2, MessagesTurn DEF OpenConversation, At
  <1>3. ASSUME NEW c \in Calls, CheckRestriction(c) PROVE MessagesInv'
    <2>0. call[c].pc = "check" /\ MayStore(call[c]) /\ ~At(c, "open")
      BY <1>3 DEF CheckRestriction, At, MessagesInv
    <2>1. CASE Return(c)
      BY <1>0, <1>3, <2>0, <2>1 DEF CheckRestriction
    <2>2. CASE Proceed(c, IF Detected(call[c].content) THEN "count" ELSE "store")
      <3>1. PICK pc : pc = IF Detected(call[c].content) THEN "count" ELSE "store"
        OBVIOUS
      <3>2. PICK step : step = [call[c] EXCEPT !.pc = pc]
        OBVIOUS
      <3>3. step.user = call[c].user /\ step.content = call[c].content /\ (step.pc = pc \/ step.pc = "check")
        BY <2>0, <3>2
      <3>4. MayStore(step)'
        BY <1>3, <2>0, <3>1, <3>3 DEF MayStore, Sending, CheckRestriction
      <3> QED BY <1>3, <2>0, <2>2, <3>1, <3>2, <3>4, MessagesTurn DEF Proceed, CheckRestriction
    <2> QED BY <1>3, <2>1, <2>2 DEF CheckRestriction
  <1>4. ASSUME NEW c \in Calls, CountAttempts(c) PROVE MessagesInv'
    <2>1. PICK step : step = [pc |-> "intervene", user |-> call[c].user,
                              content |-> call[c].content,
                              previous |-> Cardinality(Attempts(call[c].user))]
      OBVIOUS
    <2>2. call[c].user \in Users /\ ~At(c, "open")
      BY <1>4 DEF CountAttempts, At, MessagesInv, MayStore, Sending
    <2>3. MayStore(step)'
      BY <2>1, <2>2 DEF MayStore, Sending
    <2> QED BY <1>4, <2>1, <2>2, <2>3, MessagesTurn DEF CountAttempts
  <1>5. ASSUME NEW c \in Calls, Intervene(c) PROVE MessagesInv'
    BY <1>0, <1>5 DEF Intervene, At
  <1>6. ASSUME NEW c \in Calls, StoreMessage(c) PROVE MessagesInv'
    BY <1>6, StoreMessageInv
  <1>7. ASSUME NEW c \in Calls, Abort(c) PROVE MessagesInv'
    BY <1>7, AbortInv
  <1>8. ASSUME NEW c \in Calls, ListByJob(c) \/ MarkJobRead(c) PROVE MessagesInv'
    BY <1>8, ListByJobInv, MarkJobReadInv
  <1>9. ASSUME NEW c \in Calls, NEW k, NEW decision,
               ReadForAppeal(c, k) \/ ReadForReview(c, k, decision)
        PROVE  MessagesInv'
    <2>1. PICK step : Goto(c, step) /\ step.pc \in {"appeal", "review"}
      BY <1>9 DEF ReadForAppeal, ReadForReview
    <2>2. MayStore(step)'
      BY <2>1 DEF MayStore, Sending
    <2> QED BY <1>9, <2>1, <2>2, MessagesTurn DEF ReadForAppeal, ReadForReview, At
  <1>10. ASSUME NEW c \in Calls, AppealIntervention(c) \/ ReviewIntervention(c) PROVE MessagesInv'
    BY <1>0, <1>10 DEF AppealIntervention, ReviewIntervention, At
  <1>11. CASE Unlock \/ Cancel
    <2>1. (job.unlocked => job'.unlocked) /\ job' \in [canceled : BOOLEAN, unlocked : BOOLEAN]
      BY <1>11 DEF Unlock, Cancel, MessagesInv
    <2> QED BY <1>11, <2>1, MessagesAside DEF Unlock, Cancel
  <1>12. ASSUME NEW k, BlockRunsOut(k) \/ DayPasses(k) PROVE MessagesInv'
    BY <1>12, MessagesAside DEF BlockRunsOut, DayPasses, MessagesInv
  <1>13. CASE UNCHANGED conversationVars
    BY <1>13, MessagesAside DEF conversationVars, MessagesInv
  <1> QED
    BY <1>1, <1>2, <1>3, <1>4, <1>5, <1>6, <1>7, <1>8, <1>9, <1>10, <1>11, <1>12, <1>13
    DEF ConversationsNext

\* A message that the detection would have stopped is not stored before the payment
\* (MessagesService.send reads the job before anything else).
THEOREM ContactIsKept == ConversationsSpec => []ContactStaysLocked
  <1>1. ConversationsSpec => []MessagesInv
    BY MessagesInitInv, MessagesStep, PTL DEF ConversationsSpec
  <1>2. MessagesInv => ContactStaysLocked
    BY DEF MessagesInv
  <1> QED BY <1>1, <1>2, PTL

\* A message loses its unread badge only for a reader who was shown it or is about to
\* be, or whose open it slipped through (MessagesService.listByJob reads the messages
\* and markJobRead marks all there are, each in a query of its own).
THEOREM BadgeMeansSeen == ConversationsSpec => []ReadWasShown
  <1>1. ConversationsSpec => []MessagesInv
    BY MessagesInitInv, MessagesStep, PTL DEF ConversationsSpec
  <1>2. MessagesInv => ReadWasShown
    BY DEF MessagesInv
  <1> QED BY <1>1, <1>2, PTL

-----------------------------------------------------------------------------
(* The interventions.                                                       *)

\* The attempts of a user, and what counting them tells.
LEMMA AttemptsCounted ==
    ASSUME interventions \in Seq(Measure), NEW u
    PROVE  /\ Cardinality(Attempts(u)) \in Nat
           /\ Cardinality(Attempts(u)) = 0 => Attempts(u) = {}
           /\ Cardinality(Attempts(u)) > 0 =>
                  \E n \in DOMAIN interventions : interventions[n].actor = u
  <1>1. Attempts(u) \subseteq 1 .. Len(interventions) /\ Len(interventions) \in Nat
    BY DEF Attempts
  <1>2. IsFiniteSet(Attempts(u))
    <2>1. 1 \in Int /\ Len(interventions) \in Int
      BY <1>1
    <2>2. IsFiniteSet(1 .. Len(interventions))
      BY <2>1, FS_Interval
    <2> QED BY <1>1, <2>2, FS_Subset
  <1>3. Cardinality(Attempts(u)) \in Nat /\ (Cardinality(Attempts(u)) = 0 <=> Attempts(u) = {})
    BY <1>2, FS_CardinalityType, FS_EmptySet
  <1>4. Attempts(u) # {} => \E n \in DOMAIN interventions : interventions[n].actor = u
    BY DEF Attempts
  <1> QED BY <1>3, <1>4

\* A request goes on while the interventions stay.
LEMMA InterventionsTurn ==
    ASSUME InterventionsInv, NEW c \in Calls, NEW step, Goto(c, step),
           UNCHANGED interventions, overlapped \subseteq overlapped', Counts(step)',
           \A d \in Calls \ {c} :
               step.pc \in Sending /\ call[d].pc \in Sending /\ call[d].user = step.user
                   => step.user \in overlapped'
    PROVE  InterventionsInv'
  <1>1. DOMAIN call' = Calls /\ \A d \in Calls : call'[d] = IF d = c THEN step ELSE call[d]
    BY DEF Goto, InterventionsInv
  <1>2. \A u : Attempts(u)' = Attempts(u)
    BY DEF Attempts
  <1>3. \A d \in Calls : Counts(call[d])'
    <2>1. ASSUME NEW d \in Calls, d # c PROVE Counts(call[d])'
      <3>1. Counts(call[d]) /\ call'[d] = call[d]
        BY <1>1, <2>1 DEF InterventionsInv
      <3> QED BY <1>2, <3>1 DEF Counts
    <2>2. Counts(call[c])'
      BY <1>1 DEF Counts, Attempts
    <2> QED BY <2>1, <2>2
  <1>4. \A d, e \in Calls : d # e => Together(call[d], call[e])'
    BY <1>1 DEF InterventionsInv, Together
  <1>5. Warned' /\ WarnedOnce' /\ ClearedIsOver'
    BY <1>2 DEF InterventionsInv, Warned, WarnedOnce, ClearedIsOver
  <1> QED BY <1>1, <1>3, <1>4, <1>5 DEF InterventionsInv

\* The same for a request that does not begin to send here.
LEMMA InterventionsGoOn ==
    ASSUME InterventionsInv, NEW c \in Calls, NEW step, Goto(c, step),
           UNCHANGED <<interventions, overlapped>>, Counts(step)',
           step.pc \in Sending => call[c].pc \in Sending /\ step.user = call[c].user
    PROVE  InterventionsInv'
  <1>1. \A d \in Calls \ {c} : step.pc \in Sending /\ call[d].pc \in Sending
                                   /\ call[d].user = step.user => step.user \in overlapped'
    BY DEF InterventionsInv, Together
  <1> QED BY <1>1, InterventionsTurn

LEMMA InterventionsReturn ==
    ASSUME InterventionsInv, NEW c \in Calls, Return(c), UNCHANGED <<interventions, overlapped>>
    PROVE  InterventionsInv'
  <1>1. Goto(c, Idle) /\ Counts(Idle)' /\ Idle.pc \notin Sending
    BY DEF Return, Counts, Idle, Sending
  <1> QED BY <1>1, InterventionsGoOn

\* An intervention is written again: whose it is and what it did stays, and requests
\* end or go on as they were.
LEMMA InterventionRewritten ==
    ASSUME InterventionsInv, NEW k \in DOMAIN interventions, NEW i \in Measure,
           interventions' = [interventions EXCEPT ![k] = i], UNCHANGED overlapped,
           i.actor = interventions[k].actor, i.action = interventions[k].action,
           i.recent => interventions[k].recent, i.decision = "CLEARED" => ~i.live,
           DOMAIN call' = Calls, \A d \in Calls : call'[d] = call[d] \/ call'[d] = Idle
    PROVE  InterventionsInv'
  <1>1. /\ interventions' \in Seq(Measure) /\ DOMAIN interventions' = DOMAIN interventions
        /\ interventions'[k] = i
        /\ \A n \in DOMAIN interventions : n # k => interventions'[n] = interventions[n]
    BY DEF InterventionsInv
  <1>2. \A n \in DOMAIN interventions :
            /\ interventions'[n].actor = interventions[n].actor
            /\ interventions'[n].action = interventions[n].action
            /\ interventions'[n].recent => interventions[n].recent
    BY <1>1
  <1>3. \A u : Attempts(u)' \subseteq Attempts(u)
    BY <1>1, <1>2 DEF Attempts
  <1>4. \A d \in Calls : Counts(call[d])'
    <2> SUFFICES ASSUME NEW d \in Calls PROVE Counts(call[d])'
      OBVIOUS
    <2>1. CASE call'[d] = call[d]
      <3>1. Counts(call[d])
        BY DEF InterventionsInv
      <3> QED BY <1>1, <1>2, <1>3, <2>1, <3>1 DEF Counts
    <2>2. CASE call'[d] = Idle
      BY <2>2 DEF Counts, Idle, Sending
    <2> QED BY <2>1, <2>2
  <1>5. \A d, e \in Calls : d # e => Together(call[d], call[e])'
    <2>1. Idle.pc \notin Sending
      BY DEF Idle, Sending
    <2> QED BY <2>1 DEF InterventionsInv, Together
  <1>6. Warned'
    BY <1>1, <1>2 DEF InterventionsInv, Warned
  <1>7. WarnedOnce'
    <2> SUFFICES ASSUME NEW u \in Users \ overlapped, NEW m \in Attempts(u)', NEW n \in Attempts(u)',
                        interventions'[m].action = "WARNING", interventions'[n].action = "WARNING"
                 PROVE  m = n
      BY DEF WarnedOnce
    <2>1. m \in Attempts(u) /\ n \in Attempts(u)
      BY <1>3
    <2>2. m \in DOMAIN interventions /\ n \in DOMAIN interventions
      BY <2>1 DEF Attempts
    <2> QED BY <1>2, <2>1, <2>2 DEF InterventionsInv, WarnedOnce
  <1>8. ClearedIsOver'
    BY <1>1 DEF InterventionsInv, ClearedIsOver
  <1> QED BY <1>1, <1>4, <1>5, <1>6, <1>7, <1>8 DEF InterventionsInv

LEMMA InterveneInv ==
    ASSUME InterventionsInv, NEW c \in Calls, Intervene(c)
    PROVE  InterventionsInv'
  <1>1. PICK w : w = call[c]
    OBVIOUS
  <1>2. PICK i : i = Intervention(w)
    OBVIOUS
  <1>3. Counts(w) /\ w.pc = "intervene"
    BY <1>1 DEF InterventionsInv, Intervene, At
  <1>4. w.user \in Users /\ w.previous \in Nat
    BY <1>3 DEF Counts, Sending
  <1>5. /\ i.actor = w.user /\ i.recent = TRUE /\ i.decision = "none"
        /\ i.action = IF w.previous = 0 THEN "WARNING" ELSE "TEMP_BLOCK"
    BY <1>2 DEF Intervention
  <1>6. i \in Measure
    <2>1. PICK live : live = (w.previous > 0)
      OBVIOUS
    <2>2. live \in BOOLEAN
      BY <1>4, <2>1
    <2>3. PICK action : action = IF w.previous = 0 THEN "WARNING" ELSE "TEMP_BLOCK"
      OBVIOUS
    <2>4. PICK entered : entered = IF w.previous = 0 THEN "LOGGED" ELSE "OPEN"
      OBVIOUS
    <2>5. i = [actor |-> w.user, recent |-> TRUE, decision |-> "none", action |-> action,
               status |-> entered, live |-> live]
      BY <1>2, <2>1, <2>3, <2>4, Zenon DEF Intervention
    <2>6. action \in {"WARNING", "TEMP_BLOCK"} /\ entered \in Blocking \union {"LOGGED", "CLEARED"}
      BY <2>3, <2>4 DEF Blocking
    <2> QED BY <1>4, <2>2, <2>5, <2>6 DEF Measure
  <1>7. PICK N \in Nat : N = Len(interventions) + 1
    BY DEF InterventionsInv
  <1>8. /\ interventions' \in Seq(Measure) /\ DOMAIN interventions' = DOMAIN interventions \union {N}
        /\ DOMAIN interventions = 1 .. N - 1 /\ N \in 1 .. N
        /\ interventions'[N] = i
        /\ \A n \in DOMAIN interventions : interventions'[n] = interventions[n] /\ n # N
    BY <1>1, <1>2, <1>6, <1>7 DEF InterventionsInv, Intervene
  <1>9. DOMAIN call' = Calls /\ \A d \in Calls : call'[d] = IF d = c THEN Idle ELSE call[d]
    BY DEF InterventionsInv, Intervene, Return, Goto
  <1>10. \A u : u # w.user => Attempts(u)' = Attempts(u)
    BY <1>5, <1>8 DEF Attempts
  <1>11. UNCHANGED overlapped
    BY DEF Intervene
  <1>12. \A d \in Calls : Counts(call[d])'
    <2> SUFFICES ASSUME NEW d \in Calls PROVE Counts(call[d])'
      OBVIOUS
    <2>1. CASE d = c
      BY <1>9, <2>1 DEF Counts, Idle, Sending
    <2>2. CASE d # c
      <3>1. Counts(call[d]) /\ call'[d] = call[d]
        BY <1>9, <2>2 DEF InterventionsInv
      <3>2. ASSUME call[d].pc = "intervene", call[d].previous = 0
            PROVE  call[d].user \in overlapped \/ Attempts(call[d].user)' = {}
        <4>1. CASE call[d].user = w.user
          BY <1>1, <1>3, <2>2, <3>2, <4>1 DEF InterventionsInv, Together, Sending
        <4>2. CASE call[d].user # w.user
          BY <1>10, <3>1, <3>2, <4>2 DEF Counts
        <4> QED BY <4>1, <4>2
      <3>3. ASSUME call[d].pc = "intervene", call[d].previous > 0
            PROVE  \E n \in DOMAIN interventions' : interventions'[n].actor = call[d].user
        BY <1>8, <3>1, <3>3 DEF Counts
      <3> QED BY <1>8, <1>11, <3>1, <3>2, <3>3 DEF Counts
    <2> QED BY <2>1, <2>2
  <1>13. \A d, e \in Calls : d # e => Together(call[d], call[e])'
    <2>1. Idle.pc \notin Sending
      BY DEF Idle, Sending
    <2> QED BY <1>9, <1>11, <2>1 DEF InterventionsInv, Together
  <1>14. Warned'
    <2> SUFFICES ASSUME NEW k \in DOMAIN interventions'
                 PROVE  \E n \in 1 .. k : /\ interventions'[n].actor = interventions'[k].actor
                                          /\ interventions'[n].action = "WARNING"
      BY DEF Warned
    <2>1. CASE k \in DOMAIN interventions
      <3>1. PICK n \in 1 .. k : /\ interventions[n].actor = interventions[k].actor
                                /\ interventions[n].action = "WARNING"
        BY <2>1 DEF InterventionsInv, Warned
      <3>2. n \in DOMAIN interventions
        BY <1>8, <2>1, <3>1
      <3> QED BY <1>8, <2>1, <3>1, <3>2
    <2>2. CASE k = N /\ w.previous = 0
      BY <1>5, <1>8, <2>2
    <2>3. CASE k = N /\ w.previous # 0
      <3>1. PICK m \in DOMAIN interventions : interventions[m].actor = w.user
        BY <1>3, <1>4, <2>3 DEF Counts
      <3>2. PICK n \in 1 .. m : /\ interventions[n].actor = interventions[m].actor
                                /\ interventions[n].action = "WARNING"
        BY <3>1 DEF InterventionsInv, Warned
      <3>3. n \in DOMAIN interventions /\ n \in 1 .. k
        BY <1>8, <2>3, <3>1, <3>2
      <3> QED BY <1>5, <1>8, <2>3, <3>1, <3>2, <3>3
    <2> QED BY <1>8, <2>1, <2>2, <2>3
  <1>15. WarnedOnce'
    <2> SUFFICES ASSUME NEW u \in Users \ overlapped, NEW k \in Attempts(u)', NEW n \in Attempts(u)',
                        interventions'[k].action = "WARNING", interventions'[n].action = "WARNING"
                 PROVE  k = n
      BY <1>11 DEF WarnedOnce
    <2>1. CASE u # w.user
      <3>1. k \in Attempts(u) /\ n \in Attempts(u)
        BY <1>10, <2>1
      <3>2. interventions'[k] = interventions[k] /\ interventions'[n] = interventions[n]
        BY <1>8, <3>1 DEF Attempts
      <3> QED BY <3>1, <3>2 DEF InterventionsInv, WarnedOnce
    <2>2. CASE u = w.user /\ w.previous = 0
      <3>1. Attempts(u) = {}
        BY <1>3, <2>2 DEF Counts
      <3>2. k = N /\ n = N
        BY <1>8, <3>1 DEF Attempts
      <3> QED BY <3>2
    <2>3. CASE u = w.user /\ w.previous # 0
      <3>1. k # N /\ n # N
        BY <1>5, <1>8, <2>3
      <3>2. k \in DOMAIN interventions /\ n \in DOMAIN interventions
        BY <1>8, <3>1 DEF Attempts
      <3>3. k \in Attempts(u) /\ n \in Attempts(u)
        BY <1>8, <3>2 DEF Attempts
      <3> QED BY <1>8, <3>2, <3>3 DEF InterventionsInv, WarnedOnce
    <2> QED BY <2>1, <2>2, <2>3
  <1>16. ClearedIsOver'
    BY <1>5, <1>8 DEF InterventionsInv, ClearedIsOver
  <1> QED BY <1>8, <1>9, <1>12, <1>13, <1>14, <1>15, <1>16 DEF InterventionsInv

LEMMA InterventionsInitInv == ConversationsInit => InterventionsInv
  BY DEF ConversationsInit, InterventionsInv, Counts, Together, Sending, Idle, Warned, WarnedOnce,
         Attempts, ClearedIsOver

LEMMA InterventionsStep == InterventionsInv /\ [ConversationsNext]_conversationVars => InterventionsInv'
  <1> SUFFICES ASSUME InterventionsInv, [ConversationsNext]_conversationVars PROVE InterventionsInv'
    OBVIOUS
  <1>1. ASSUME NEW c \in Calls, NEW u \in Users, NEW content \in Contents, Send(c, u, content)
        PROVE  InterventionsInv'
    <2>1. PICK step : step = [pc |-> IF job.unlocked THEN "store" ELSE "check",
                              user |-> u, content |-> content]
      OBVIOUS
    <2>2. Goto(c, step) /\ UNCHANGED interventions /\ overlapped \subseteq overlapped'
      BY <1>1, <2>1 DEF Send
    <2>3. Counts(step)'
      BY <2>1 DEF Counts, Sending
    <2>4. \A d \in Calls \ {c} :
              step.pc \in Sending /\ call[d].pc \in Sending /\ call[d].user = step.user
                   => step.user \in overlapped'
      BY <1>1, <2>1 DEF Send, Evaluating, Sending
    <2> QED BY <2>2, <2>3, <2>4, InterventionsTurn
  <1>2. ASSUME NEW c \in Calls, NEW u \in Users, OpenConversation(c, u) PROVE InterventionsInv'
    <2>1. PICK step : step = [pc |-> "open", user |-> u, listed |-> FALSE, marked |-> FALSE]
      OBVIOUS
    <2>2. Counts(step)' /\ step.pc \notin Sending
      BY <2>1 DEF Counts, Sending, Opening
    <2> QED BY <1>2, <2>1, <2>2, InterventionsGoOn DEF OpenConversation
  <1>3. ASSUME NEW c \in Calls, CheckRestriction(c) PROVE InterventionsInv'
    <2>0. call[c].pc = "check" /\ Counts(call[c])
      BY <1>3 DEF CheckRestriction, At, InterventionsInv
    <2>1. CASE Return(c)
      BY <1>3, <2>1, InterventionsReturn DEF CheckRestriction
    <2>2. CASE Proceed(c, IF Detected(call[c].content) THEN "count" ELSE "store")
      <3>1. PICK pc : pc = IF Detected(call[c].content) THEN "count" ELSE "store"
        OBVIOUS
      <3>2. PICK step : step = [call[c] EXCEPT !.pc = pc]
        OBVIOUS
      <3>3. step.user = call[c].user /\ (step.pc = pc \/ step.pc = "check")
        BY <2>0, <3>2
      <3>4. Counts(step)'
        BY <2>0, <3>1, <3>3 DEF Counts, Sending
      <3>5. call[c].pc \in Sending
        BY <2>0 DEF Sending
      <3> QED BY <1>3, <2>2, <3>1, <3>2, <3>3, <3>4, <3>5, InterventionsGoOn
              DEF Proceed, CheckRestriction
    <2> QED BY <1>3, <2>1, <2>2 DEF CheckRestriction
  <1>4. ASSUME NEW c \in Calls, CountAttempts(c) PROVE InterventionsInv'
    <2>1. PICK n : n = Cardinality(Attempts(call[c].user))
      OBVIOUS
    <2>2. PICK step : step = [pc |-> "intervene", user |-> call[c].user,
                              content |-> call[c].content, previous |-> n]
      OBVIOUS
    <2>3. call[c].user \in Users /\ call[c].pc \in Sending /\ UNCHANGED <<interventions, overlapped>>
      BY <1>4 DEF CountAttempts, At, InterventionsInv, Counts, Sending
    <2>4. /\ n \in Nat /\ (n = 0 => Attempts(call[c].user) = {})
          /\ n > 0 => \E k \in DOMAIN interventions : interventions[k].actor = call[c].user
      BY <2>1, AttemptsCounted DEF InterventionsInv
    <2>5. Attempts(call[c].user) = {} => Attempts(step.user)' = {}
      BY <2>2, <2>3 DEF Attempts
    <2>6. Counts(step)'
      BY <2>2, <2>3, <2>4, <2>5 DEF Counts
    <2>7. Goto(c, step) /\ step.user = call[c].user
      BY <1>4, <2>1, <2>2 DEF CountAttempts
    <2> QED BY <2>3, <2>6, <2>7, InterventionsGoOn
  <1>5. ASSUME NEW c \in Calls, Intervene(c) PROVE InterventionsInv'
    BY <1>5, InterveneInv
  <1>6. ASSUME NEW c \in Calls, StoreMessage(c) \/ Abort(c) PROVE InterventionsInv'
    BY <1>6, InterventionsReturn DEF StoreMessage, Abort
  <1>7. ASSUME NEW c \in Calls, ListByJob(c) \/ MarkJobRead(c) PROVE InterventionsInv'
    <2>1. /\ call[c] \in Opening /\ UNCHANGED <<interventions, overlapped>>
          /\ \E field \in {"listed", "marked"} : AfterOpen(c, field)
      BY <1>7 DEF ListByJob, MarkJobRead, At, InterventionsInv, Counts
    <2>2. PICK field \in {"listed", "marked"} : AfterOpen(c, field)
      BY <2>1
    <2>3. PICK next : next = [call[c] EXCEPT ![field] = TRUE]
      OBVIOUS
    <2>4. next \in Opening /\ next.pc = "open"
      BY <2>1, <2>3 DEF Opening
    <2>5. Goto(c, Idle) \/ Goto(c, next)
      BY <2>2, <2>3 DEF AfterOpen
    <2>6. CASE Goto(c, Idle)
      BY <2>1, <2>6, InterventionsReturn DEF Return
    <2>7. CASE Goto(c, next)
      <3>1. Counts(next)' /\ next.pc \notin Sending
        BY <2>4 DEF Counts, Sending
      <3> QED BY <2>1, <2>7, <3>1, InterventionsGoOn
    <2> QED BY <2>5, <2>6, <2>7
  <1>8. ASSUME NEW c \in Calls, NEW k \in DOMAIN interventions, ReadForAppeal(c, k)
        PROVE  InterventionsInv'
    <2>1. PICK step : step = [pc |-> "appeal", k |-> k]
      OBVIOUS
    <2>2. Counts(step)' /\ step.pc \notin Sending
      BY <1>8, <2>1 DEF Counts, Sending, ReadForAppeal
    <2> QED BY <1>8, <2>1, <2>2, InterventionsGoOn DEF ReadForAppeal
  <1>9. ASSUME NEW c \in Calls, NEW k \in DOMAIN interventions,
               NEW decision \in {"CLEARED", "ENFORCED"}, ReadForReview(c, k, decision)
        PROVE  InterventionsInv'
    <2>1. PICK step : step = [pc |-> "review", k |-> k, decision |-> decision]
      OBVIOUS
    <2>2. Counts(step)' /\ step.pc \notin Sending
      BY <1>9, <2>1 DEF Counts, Sending, ReadForReview
    <2> QED BY <1>9, <2>1, <2>2, InterventionsGoOn DEF ReadForReview
  <1>10. ASSUME NEW c \in Calls, AppealIntervention(c) PROVE InterventionsInv'
    <2>1. PICK k : k = call[c].k
      OBVIOUS
    <2>2. k \in DOMAIN interventions
      BY <1>10, <2>1 DEF AppealIntervention, At, InterventionsInv, Counts
    <2>3. PICK i : i = interventions[k]
      OBVIOUS
    <2>4. i \in Measure
      BY <2>2, <2>3 DEF InterventionsInv
    <2>5. PICK j : j = [i EXCEPT !.status = "APPEALED"]
      OBVIOUS
    <2>6. j = [actor |-> i.actor, recent |-> i.recent, decision |-> i.decision,
               action |-> i.action, status |-> "APPEALED", live |-> i.live]
      BY <2>4, <2>5 DEF Measure
    <2>7. "APPEALED" \in Blocking \union {"LOGGED", "CLEARED"}
      BY DEF Blocking
    <2>8. /\ j \in Measure /\ j.actor = i.actor /\ j.recent = i.recent
          /\ j.decision = i.decision /\ j.action = i.action /\ j.live = i.live
      <3>1. /\ i.actor \in Users /\ i.recent \in BOOLEAN /\ i.live \in BOOLEAN
            /\ i.decision \in {"none", "CLEARED", "ENFORCED"}
            /\ i.action \in {"WARNING", "TEMP_BLOCK"}
            /\ i.status \in Blocking \union {"LOGGED", "CLEARED"}
        BY <2>4 DEF Measure
      <3> QED BY <3>1, <2>6, <2>7, Zenon DEF Measure
    <2>9. i.decision = "CLEARED" => ~i.live
      BY <2>2, <2>3 DEF InterventionsInv, ClearedIsOver
    <2>10. /\ interventions' = [interventions EXCEPT ![k] = j] /\ UNCHANGED overlapped
           /\ DOMAIN call' = Calls /\ \A d \in Calls : call'[d] = call[d] \/ call'[d] = Idle
      BY <1>10, <2>1, <2>3, <2>5 DEF AppealIntervention, Return, Goto, InterventionsInv
    <2> QED BY <2>2, <2>3, <2>8, <2>9, <2>10, InterventionRewritten
  <1>11. ASSUME NEW c \in Calls, ReviewIntervention(c) PROVE InterventionsInv'
    <2>1. PICK k : k = call[c].k
      OBVIOUS
    <2>2. PICK decision : decision = call[c].decision
      OBVIOUS
    <2>3. k \in DOMAIN interventions /\ decision \in {"CLEARED", "ENFORCED"}
      BY <1>11, <2>1, <2>2 DEF ReviewIntervention, At, InterventionsInv, Counts
    <2>4. PICK i : i = interventions[k]
      OBVIOUS
    <2>5. i \in Measure
      BY <2>3, <2>4 DEF InterventionsInv
    <2>6. PICK live : live = (decision = "ENFORCED")
      OBVIOUS
    <2>7. PICK j : j = [i EXCEPT !.status = decision, !.decision = decision, !.live = live]
      OBVIOUS
    <2>8. j = [actor |-> i.actor, recent |-> i.recent, decision |-> decision,
               action |-> i.action, status |-> decision, live |-> live]
      BY <2>5, <2>7 DEF Measure
    <2>9. live \in BOOLEAN /\ decision \in Blocking \union {"LOGGED", "CLEARED"}
      BY <2>3, <2>6 DEF Blocking
    <2>10. decision \in {"none", "CLEARED", "ENFORCED"}
      BY <2>3
    <2>11. /\ j \in Measure /\ j.actor = i.actor /\ j.recent = i.recent
           /\ j.decision = decision /\ j.action = i.action /\ j.live = live
      <3>1. /\ i.actor \in Users /\ i.recent \in BOOLEAN /\ i.live \in BOOLEAN
            /\ i.decision \in {"none", "CLEARED", "ENFORCED"}
            /\ i.action \in {"WARNING", "TEMP_BLOCK"}
            /\ i.status \in Blocking \union {"LOGGED", "CLEARED"}
        BY <2>5 DEF Measure
      <3> QED BY <3>1, <2>8, <2>9, <2>10, Zenon DEF Measure
    <2>12. j.decision = "CLEARED" => ~j.live
      BY <2>3, <2>6, <2>11, Zenon
    <2>13. interventions' = [interventions EXCEPT ![k] = j]
      <3>1. interventions' = [interventions EXCEPT ![k] = Reviewed(interventions[k], decision)]
        BY <1>11, <2>1, <2>2 DEF ReviewIntervention
      <3>2. j = Reviewed(interventions[k], decision)
        BY <2>4, <2>6, <2>7, Zenon DEF Reviewed
      <3> QED BY <3>1, <3>2
    <2>14. /\ UNCHANGED overlapped
           /\ DOMAIN call' = Calls /\ \A d \in Calls : call'[d] = call[d] \/ call'[d] = Idle
      BY <1>11 DEF ReviewIntervention, Return, Goto, InterventionsInv
    <2> QED BY <2>3, <2>4, <2>11, <2>12, <2>13, <2>14, InterventionRewritten
  <1>12. CASE Unlock \/ Cancel \/ UNCHANGED conversationVars
    <2>1. UNCHANGED <<interventions, call, overlapped>>
      BY <1>12 DEF Unlock, Cancel, conversationVars
    <2> QED BY <2>1 DEF InterventionsInv, Counts, Together, Warned, WarnedOnce, Attempts, ClearedIsOver
  <1>13. ASSUME NEW k \in DOMAIN interventions, BlockRunsOut(k) PROVE InterventionsInv'
    <2>1. PICK i : i = interventions[k]
      OBVIOUS
    <2>2. i \in Measure
      BY <2>1 DEF InterventionsInv
    <2>3. PICK j : j = [i EXCEPT !.live = FALSE]
      OBVIOUS
    <2>4. j = [actor |-> i.actor, recent |-> i.recent, decision |-> i.decision,
               action |-> i.action, status |-> i.status, live |-> FALSE]
      BY <2>2, <2>3 DEF Measure
    <2>5. /\ j \in Measure /\ j.actor = i.actor /\ j.recent = i.recent
          /\ j.decision = i.decision /\ j.action = i.action /\ j.live = FALSE
      <3>1. /\ i.actor \in Users /\ i.recent \in BOOLEAN /\ i.live \in BOOLEAN
            /\ i.decision \in {"none", "CLEARED", "ENFORCED"}
            /\ i.action \in {"WARNING", "TEMP_BLOCK"}
            /\ i.status \in Blocking \union {"LOGGED", "CLEARED"}
        BY <2>2 DEF Measure
      <3> QED BY <3>1, <2>4, Zenon DEF Measure
    <2>6. /\ interventions' = [interventions EXCEPT ![k] = j] /\ UNCHANGED overlapped
          /\ DOMAIN call' = Calls /\ \A d \in Calls : call'[d] = call[d] \/ call'[d] = Idle
      BY <1>13, <2>1, <2>3 DEF BlockRunsOut, InterventionsInv
    <2> QED BY <2>1, <2>5, <2>6, InterventionRewritten
  <1>14. ASSUME NEW k \in DOMAIN interventions, DayPasses(k) PROVE InterventionsInv'
    <2>1. PICK i : i = interventions[k]
      OBVIOUS
    <2>2. i \in Measure
      BY <2>1 DEF InterventionsInv
    <2>3. PICK j : j = [i EXCEPT !.recent = FALSE]
      OBVIOUS
    <2>4. j = [actor |-> i.actor, recent |-> FALSE, decision |-> i.decision,
               action |-> i.action, status |-> i.status, live |-> i.live]
      BY <2>2, <2>3 DEF Measure
    <2>5. /\ j \in Measure /\ j.actor = i.actor /\ j.recent = FALSE
          /\ j.decision = i.decision /\ j.action = i.action /\ j.live = i.live
      <3>1. /\ i.actor \in Users /\ i.recent \in BOOLEAN /\ i.live \in BOOLEAN
            /\ i.decision \in {"none", "CLEARED", "ENFORCED"}
            /\ i.action \in {"WARNING", "TEMP_BLOCK"}
            /\ i.status \in Blocking \union {"LOGGED", "CLEARED"}
        BY <2>2 DEF Measure
      <3> QED BY <3>1, <2>4, Zenon DEF Measure
    <2>6. i.decision = "CLEARED" => ~i.live
      BY <2>1 DEF InterventionsInv, ClearedIsOver
    <2>7. /\ interventions' = [interventions EXCEPT ![k] = j] /\ UNCHANGED overlapped
          /\ DOMAIN call' = Calls /\ \A d \in Calls : call'[d] = call[d] \/ call'[d] = Idle
      BY <1>14, <2>1, <2>3 DEF DayPasses, InterventionsInv
    <2> QED BY <2>1, <2>5, <2>6, <2>7, InterventionRewritten
  <1> QED
    BY <1>1, <1>2, <1>3, <1>4, <1>5, <1>6, <1>7, <1>8, <1>9, <1>10, <1>11, <1>12, <1>13, <1>14
    DEF ConversationsNext

\* A first attempt to share a contact is answered with a warning and only a further
\* one with a block; two warnings in a day need two messages that are evaluated side
\* by side (evaluateMessageAttempt counts before it writes).
THEOREM WarnedBeforeBlocked == ConversationsSpec => []WarnedOnceThenBlocked
  <1>1. ConversationsSpec => []InterventionsInv
    BY InterventionsInitInv, InterventionsStep, PTL DEF ConversationsSpec
  <1>2. InterventionsInv => WarnedOnceThenBlocked
    <2> SUFFICES ASSUME InterventionsInv PROVE WarnedOnceThenBlocked
      OBVIOUS
    <2>1. ASSUME NEW k \in DOMAIN interventions, interventions[k].action = "TEMP_BLOCK"
          PROVE  \E n \in 1 .. k - 1 : /\ interventions[n].actor = interventions[k].actor
                                       /\ interventions[n].action = "WARNING"
      <3>1. PICK n \in 1 .. k : /\ interventions[n].actor = interventions[k].actor
                                /\ interventions[n].action = "WARNING"
        BY DEF InterventionsInv, Warned
      <3>2. k \in Nat /\ n # k
        BY <2>1, <3>1 DEF InterventionsInv
      <3>3. n \in 1 .. k - 1
        BY <3>2
      <3> QED BY <3>1, <3>3
    <2>2. ASSUME NEW u \in Users, u \notin overlapped
          PROVE  ~(Cardinality({k \in Attempts(u) : interventions[k].action = "WARNING"}) > 1)
      <3>1. PICK S : S = {k \in Attempts(u) : interventions[k].action = "WARNING"}
        OBVIOUS
      <3>2. \A k, n \in S : k = n
        BY <2>2, <3>1 DEF InterventionsInv, WarnedOnce
      <3>3. S = {} \/ \E k : S = {k}
        BY <3>2
      <3>4. Cardinality(S) = 0 \/ Cardinality(S) = 1
        BY <3>3, FS_EmptySet, FS_Singleton
      <3> QED BY <3>1, <3>4
    <2> QED BY <2>1, <2>2 DEF WarnedOnceThenBlocked
  <1> QED BY <1>1, <1>2, PTL

\* A block that the team has cleared does not come back with an appeal that was on
\* its way (TrustSafetyService.appealIntervention writes the status it judged before).
THEOREM ClearedStaysClear == ConversationsSpec => []ClearedNeverBlocks
  <1>1. ConversationsSpec => []InterventionsInv
    BY InterventionsInitInv, InterventionsStep, PTL DEF ConversationsSpec
  <1>2. InterventionsInv => ClearedNeverBlocks
    BY DEF InterventionsInv, ClearedIsOver, ClearedNeverBlocks, IsBlocking
  <1> QED BY <1>1, <1>2, PTL

-----------------------------------------------------------------------------
(* The order behind the page of a request.                                  *)

Order == [request : {"OPEN", "EXPIRED", "CLOSED"}, overdue : BOOLEAN,
          offer : [Sellers -> {"none", "SUBMITTED", "SELECTED", "REJECTED"}],
          invited : [Sellers -> {"none", "SENT", "ACCEPTED", "DECLINED", "EXPIRED"}],
          job : {"none", "REQUESTED", "RUNNING", "COMPLETED", "CANCELED"},
          deposit : Payable \union {"none", "PAID_PARTIAL", "CANCELED"},
          charged : BOOLEAN, unlocked : BOOLEAN,
          refund : {"none", "PENDING", "PROCESSING", "DECIDED", "CANCELED"},
          mine : BOOLEAN, refundable : BOOLEAN, reviewed : BOOLEAN]

\* A request, its job and the job's money belong together.
IsWhole(s) ==
    /\ s \in Order
    /\ s.job = "none" <=> s.request # "CLOSED"
    /\ s.job = "none" <=> s.deposit = "none"
    /\ s.request = "OPEN" => \A p \in Sellers : s.offer[p] \in {"none", "SUBMITTED"}
    /\ IsPaid(s) => s.unlocked
    /\ s.deposit = "CANCELED" => s.job = "CANCELED"
    /\ s.reviewed => s.job = "COMPLETED"
    /\ s.charged \/ s.unlocked => s.job # "none"

OrderInv == IsWhole(order)

\* Functions of the page.
IsPage(g) == g = [open |-> g.open, request |-> g.request, money |-> g.money, seen |-> g.seen,
                  flags |-> g.flags, inviting |-> g.inviting]
IsFunction(f) == f = [todo |-> f.todo, op |-> f.op, to |-> f.to, copy |-> f.copy, seen |-> f.seen]

Beginning == {<<"load">>, <<"recreate">>, <<"cancel", "refund", "load", "load">>}
             \union {<<op, "load">> : op \in Operations \ {"recreate"}}
Owing == {<<"load">>, <<"load", "load">>, <<"refund", "load", "load">>,
          <<"show", "load">>, <<"readMoney", "load">>, <<"showMoney", "load">>}
Ending == {<<>>, <<"show">>, <<"readMoney">>, <<"showMoney">>}

SomeoneOwes == \E t \in Threads : thread[t].todo \in Owing
Gathered(t) == Doing(t, "show") /\ thread[t].seen = acts

ThreadTypes ==
    /\ IsPage(page) /\ DOMAIN thread = Threads
    /\ \A t \in Threads :
          /\ IsFunction(thread[t]) /\ thread[t].todo \in Beginning \union Owing \union Ending
          /\ thread[t].todo \in {<<"refund", "load", "load">>, <<"cancel", "refund", "load", "load">>}
                => thread[t].op = "cancelAndRefund"

Covered ==
    page.open /\ ~met /\ ~lost =>
        /\ page.seen = acts \/ SomeoneOwes \/ \E t \in Threads : Gathered(t)
        /\ \A t \in Threads : Doing(t, "show") => Gathered(t) \/ SomeoneOwes
        /\ \A t, u \in Threads : IsLoading(t) /\ IsLoading(u) => t = u

ThreadsInv == ThreadTypes /\ Covered

\* What the operations of the API make of a whole request is whole.
LEMMA RefreshedWhole == ASSUME NEW s, IsWhole(s) PROVE IsWhole(Refreshed(s))
  <1>1. CASE s.request = "OPEN" /\ s.overdue
    <2>1. Expired(s) \in Order
      BY DEF IsWhole, Order, Expired
    <2>2. /\ Expired(s).request = "EXPIRED" /\ Expired(s).job = s.job
          /\ Expired(s).deposit = s.deposit
          /\ Expired(s).reviewed = s.reviewed
          /\ Expired(s).charged = s.charged /\ Expired(s).unlocked = s.unlocked
      BY DEF IsWhole, Order, Expired
    <2>3. IsWhole(Expired(s))
      BY <1>1, <2>1, <2>2 DEF IsWhole, IsPaid
    <2> QED BY <1>1, <2>3 DEF Refreshed
  <1>2. CASE ~(s.request = "OPEN" /\ s.overdue)
    BY <1>2 DEF Refreshed
  <1> QED BY <1>1, <1>2

LEMMA SelectedWhole ==
    ASSUME NEW s, IsWhole(s), s.request = "OPEN", NEW p
    PROVE  IsWhole(Selected(s, p))
  <1>1. Selected(s, p) \in Order
    BY DEF IsWhole, Order, Selected, Payable
  <1>2. /\ Selected(s, p).request = "CLOSED" /\ Selected(s, p).job = "REQUESTED"
        /\ Selected(s, p).deposit = "AWAITING_PAYMENT"
        /\ Selected(s, p).reviewed = s.reviewed
    BY DEF IsWhole, Order, Selected
  <1> QED BY <1>1, <1>2 DEF IsWhole, IsPaid

LEMMA CanceledWhole ==
    ASSUME NEW s, IsWhole(s), s.job \in {"REQUESTED", "RUNNING"}
    PROVE  IsWhole(Canceled(s))
  <1>1. Canceled(s) \in Order
    BY DEF IsWhole, Order, Canceled, Payable
  <1>2. /\ Canceled(s).request = s.request /\ Canceled(s).job = "CANCELED"
        /\ Canceled(s).deposit \in {s.deposit, "CANCELED"}
        /\ Canceled(s).reviewed = s.reviewed
        /\ Canceled(s).charged = s.charged /\ Canceled(s).unlocked = s.unlocked
        /\ Canceled(s).offer = s.offer
        /\ s.deposit # "none" => Canceled(s).deposit # "none"
    BY DEF IsWhole, Order, Canceled
  <1> QED BY <1>1, <1>2 DEF IsWhole, IsPaid

\* The money, the job or the review of a selected request changes.
LEMMA JobWhole ==
    ASSUME NEW s, IsWhole(s), NEW r \in Order, s.job # "none",
           r.request = s.request, r.offer = s.offer,
           r.job # "none", r.deposit \notin {"none", "CANCELED"} \/ (r.deposit = s.deposit /\ r.job = s.job),
           IsPaid(r) => r.unlocked, r.reviewed => r.job = "COMPLETED"
    PROVE  IsWhole(r)
  BY DEF IsWhole

\* The invitations and the offers of an open request change.
LEMMA TradeWhole ==
    ASSUME NEW s, IsWhole(s), NEW r \in Order, r.request = s.request,
           r.job = s.job, r.deposit = s.deposit, r.reviewed = s.reviewed,
           r.charged = s.charged, r.unlocked = s.unlocked,
           r.request = "OPEN" =>  \A p \in Sellers : r.offer[p] \in {"none", "SUBMITTED", s.offer[p]}
    PROVE  IsWhole(r)
  BY DEF IsWhole, IsPaid

\* What the gateway says of the deposit of a job, paid or not.
LEMMA GatewayWhole ==
    ASSUME NEW s, IsWhole(s), s.job # "none", NEW d \in GatewaySays
    PROVE  IsWhole(GatewayTells(s, d))
  <1>1. PICK b \in BOOLEAN : b <=> s.unlocked \/ d = "PAID_PARTIAL"
    OBVIOUS
  <1>2. PICK r : r = [s EXCEPT !.deposit = d, !.charged = TRUE, !.unlocked = b]
    OBVIOUS
  <1>3. s \in Order /\ s.unlocked \in BOOLEAN
    BY DEF IsWhole, Order
  <1>4. GatewayTells(s, d) = r
    BY <1>1, <1>2, <1>3 DEF GatewayTells
  <1>5. /\ r \in Order /\ r.request = s.request /\ r.offer = s.offer /\ r.job = s.job
        /\ r.deposit = d /\ r.reviewed = s.reviewed /\ r.unlocked = b
    BY <1>2, <1>3 DEF Order, Payable, GatewaySays
  <1>6. d \notin {"none", "CANCELED"} /\ (IsPaid(r) => r.unlocked)
    BY <1>1, <1>5 DEF GatewaySays, IsPaid
  <1>7. r.reviewed => r.job = "COMPLETED"
    BY <1>5 DEF IsWhole
  <1>8. IsWhole(r)
    BY <1>5, <1>6, <1>7, JobWhole
  <1> QED BY <1>4, <1>8

\* A refund is asked for, by the customer or by others.
LEMMA RefundWhole ==
    ASSUME NEW s, IsWhole(s), NEW mine \in BOOLEAN, NEW r \in CreateRefundRequest(s, mine)
    PROVE  IsWhole(r)
  <1>1. s \in Order /\ r = [s EXCEPT !.refund = "PENDING", !.mine = mine]
    BY DEF CreateRefundRequest, IsWhole
  <1>2. /\ r \in Order /\ r.request = s.request /\ r.offer = s.offer /\ r.job = s.job
        /\ r.deposit = s.deposit /\ r.reviewed = s.reviewed
        /\ r.charged = s.charged /\ r.unlocked = s.unlocked
    BY <1>1 DEF Order
  <1> QED BY <1>2, TradeWhole

LEMMA OutcomeWhole ==
    ASSUME NEW s, IsWhole(s), NEW op \in Operations, NEW p, NEW r \in Outcomes(s, op, p)
    PROVE  IsWhole(r)
  <1>1. s \in Order
    BY DEF IsWhole
  <1>2. CASE op = "invite"
    <2>1. r = [s EXCEPT !.invited[p] = "SENT"]
      BY <1>2 DEF Outcomes, CreateInvitation
    <2>2. /\ r \in Order /\ r.request = s.request /\ r.offer = s.offer /\ r.job = s.job
          /\ r.deposit = s.deposit /\ r.reviewed = s.reviewed
          /\ r.charged = s.charged /\ r.unlocked = s.unlocked
      BY <1>1, <2>1 DEF Order
    <2> QED BY <2>2, TradeWhole
  <1>3. CASE op = "select"
    BY <1>3, SelectedWhole DEF Outcomes, SelectProposal, IsTaking
  <1>4. CASE op \in {"update", "recreate"}
    BY <1>4 DEF Outcomes, UpdateRequest, RecreateExpired
  <1>5. CASE op = "pay"
    <2>1. CASE s.deposit \in Payable
      <3>1. s.job # "none"
        BY <2>1 DEF IsWhole, Payable
      <3>2. PICK d \in GatewaySays : r = GatewayTells(s, d)
        BY <1>5, <2>1 DEF Outcomes, PayDeposit
      <3> QED BY <3>1, <3>2, GatewayWhole
    <2>2. CASE s.deposit \notin Payable
      BY <1>5, <2>2 DEF Outcomes, PayDeposit
    <2> QED BY <2>1, <2>2
  <1>6. CASE op = "review"
    <2>1. r = [s EXCEPT !.reviewed = TRUE] /\ s.job = "COMPLETED"
      BY <1>6 DEF Outcomes, CreateReview
    <2>2. /\ r \in Order /\ r.request = s.request /\ r.offer = s.offer /\ r.job = s.job
          /\ r.deposit = s.deposit /\ r.unlocked = s.unlocked
      BY <1>1, <2>1 DEF Order
    <2> QED BY <2>1, <2>2, JobWhole DEF IsWhole, IsPaid
  <1>7. CASE op = "cancel"
    BY <1>7, CanceledWhole DEF Outcomes, CancelJob
  <1>8. CASE op = "refund"
    BY <1>8, RefundWhole DEF Outcomes
  <1>9. CASE op = "withdraw"
    <2>1. r = [s EXCEPT !.refund = "CANCELED"]
      BY <1>9 DEF Outcomes, CancelRefundRequest
    <2>2. /\ r \in Order /\ r.request = s.request /\ r.offer = s.offer /\ r.job = s.job
          /\ r.deposit = s.deposit /\ r.reviewed = s.reviewed
          /\ r.charged = s.charged /\ r.unlocked = s.unlocked
      BY <1>1, <2>1 DEF Order
    <2> QED BY <2>2, TradeWhole
  <1> QED BY <1>2, <1>3, <1>4, <1>5, <1>6, <1>7, <1>8, <1>9 DEF Operations

LEMMA AcceptedWhole == ASSUME IsWhole(order), NEW t \in Threads, Accepted(t) PROVE IsWhole(order')
  <1>1. PICK op \in Operations : order' \in Outcomes(order, op, thread[t].to)
    BY DEF Accepted
  <1> QED BY <1>1, OutcomeWhole

LEMMA SubmitWhole ==
    ASSUME NEW s, IsWhole(s), NEW p \in Sellers, IsTaking(s)
    PROVE  IsWhole(Submit(s, p))
  <1>1. s \in Order
    BY DEF IsWhole
  <1>2. PICK offer, invited : /\ offer = [s.offer EXCEPT ![p] = "SUBMITTED"]
                              /\ invited = [s.invited EXCEPT ![p] = IF @ = "SENT" THEN "ACCEPTED" ELSE @]
    OBVIOUS
  <1>3. PICK r : r = [s EXCEPT !.offer = offer, !.invited = invited]
    OBVIOUS
  <1>4. Submit(s, p) = r
    BY <1>2, <1>3 DEF Submit
  <1>5. /\ offer \in [Sellers -> {"none", "SUBMITTED", "SELECTED", "REJECTED"}]
        /\ invited \in [Sellers -> {"none", "SENT", "ACCEPTED", "DECLINED", "EXPIRED"}]
        /\ \A q \in Sellers : offer[q] \in {"SUBMITTED", s.offer[q]}
    BY <1>1, <1>2 DEF Order
  <1>6. /\ r \in Order /\ r.request = s.request /\ r.offer = offer
        /\ r.job = s.job /\ r.deposit = s.deposit
        /\ r.reviewed = s.reviewed /\ r.charged = s.charged /\ r.unlocked = s.unlocked
    BY <1>1, <1>3, <1>5 DEF Order
  <1>7. IsWhole(r)
    BY <1>5, <1>6, TradeWhole
  <1> QED BY <1>4, <1>7

LEMMA OthersWhole == IsWhole(order) /\ OthersAct => IsWhole(order')
  <1> SUFFICES ASSUME IsWhole(order), OthersAct PROVE IsWhole(order')
    OBVIOUS
  <1>1. order \in Order
    BY DEF IsWhole
  <1>2. ASSUME NEW p \in Sellers, IsTaking(order), order' = Submit(order, p)
        PROVE  IsWhole(order')
    BY <1>2, SubmitWhole
  <1>3. ASSUME NEW p \in Sellers, order' = Decline(order, p)
        PROVE  IsWhole(order')
    <2>1. /\ order' \in Order /\ order'.request = order.request /\ order'.offer = order.offer
          /\ order'.job = order.job /\ order'.deposit = order.deposit
          /\ order'.reviewed = order.reviewed /\ order'.charged = order.charged
          /\ order'.unlocked = order.unlocked
      BY <1>1, <1>3 DEF Order, Decline
    <2> QED BY <2>1, TradeWhole
  <1>4. CASE order' = [order EXCEPT !.overdue = TRUE]
    <2>1. /\ order' \in Order /\ order'.request = order.request /\ order'.offer = order.offer
          /\ order'.job = order.job /\ order'.deposit = order.deposit
          /\ order'.reviewed = order.reviewed /\ order'.charged = order.charged
          /\ order'.unlocked = order.unlocked
      BY <1>1, <1>4 DEF Order
    <2> QED BY <2>1, TradeWhole
  <1>5. CASE order' = Refreshed(order)
    BY <1>5, RefreshedWhole
  <1>6. ASSUME NEW next \in {"RUNNING", "COMPLETED"}, order.job \in {"REQUESTED", "RUNNING"},
               IsPaid(order), order' = [order EXCEPT !.job = next]
        PROVE  IsWhole(order')
    <2>1. /\ order' \in Order /\ order'.request = order.request /\ order'.offer = order.offer
          /\ order'.job = next /\ order'.deposit = order.deposit
          /\ order'.reviewed = order.reviewed /\ order'.unlocked = order.unlocked
      BY <1>1, <1>6 DEF Order
    <2> QED BY <1>6, <2>1, JobWhole DEF IsWhole, IsPaid
  <1>7. CASE order.job \in {"REQUESTED", "RUNNING"} /\ order' = Canceled(order)
    BY <1>7, CanceledWhole
  <1>8. ASSUME NEW d \in GatewaySays, order.charged, order' = GatewayTells(order, d)
        PROVE  IsWhole(order')
    <2>1. order.job # "none"
      BY <1>8 DEF IsWhole
    <2> QED BY <1>8, <2>1, GatewayWhole
  <1>9. CASE order' \in CreateRefundRequest(order, FALSE)
    BY <1>9, RefundWhole
  <1>10. CASE order' = [order EXCEPT !.refund = "PROCESSING"]
    <2>1. /\ order' \in Order /\ order'.request = order.request /\ order'.offer = order.offer
          /\ order'.job = order.job /\ order'.deposit = order.deposit
          /\ order'.reviewed = order.reviewed /\ order'.charged = order.charged
          /\ order'.unlocked = order.unlocked
      BY <1>1, <1>10 DEF Order
    <2> QED BY <2>1, TradeWhole
  <1>11. ASSUME NEW left \in BOOLEAN, order' = [order EXCEPT !.refund = "DECIDED", !.refundable = left]
         PROVE  IsWhole(order')
    <2>1. /\ order' \in Order /\ order'.request = order.request /\ order'.offer = order.offer
          /\ order'.job = order.job /\ order'.deposit = order.deposit
          /\ order'.reviewed = order.reviewed /\ order'.charged = order.charged
          /\ order'.unlocked = order.unlocked
      BY <1>1, <1>11 DEF Order
    <2> QED BY <2>1, TradeWhole
  <1> QED
    BY <1>2, <1>3, <1>4, <1>5, <1>6, <1>7, <1>8, <1>9, <1>10, <1>11 DEF OthersAct

LEMMA NewOrderWhole == IsWhole(NewOrder)
  <1>1. NewOrder \in Order
    BY DEF NewOrder, Order
  <1> QED BY <1>1 DEF NewOrder, IsWhole, IsPaid

LEMMA OrderInitWhole == OrderInit => IsWhole(order)
  <1> SUFFICES ASSUME OrderInit PROVE IsWhole(order)
    OBVIOUS
  <1>1. CASE order = NewOrder
    BY <1>1, NewOrderWhole
  <1>2. ASSUME NEW p \in Sellers,
               order = GatewayTells(Selected(Submit(NewOrder, p), p), "PAID_PARTIAL")
        PROVE  IsWhole(order)
    <2>1. IsTaking(NewOrder)
      BY DEF IsTaking, NewOrder
    <2>2. PICK s : s = Submit(NewOrder, p)
      OBVIOUS
    <2>3. IsWhole(s)
      BY <2>1, <2>2, NewOrderWhole, SubmitWhole
    <2>4. s.request = "OPEN"
      BY <2>2 DEF Submit, NewOrder
    <2>5. s \in Order
      BY <2>3 DEF IsWhole
    <2>6. PICK r : r = Selected(s, p)
      OBVIOUS
    <2>7. IsWhole(r)
      BY <2>3, <2>4, <2>6, SelectedWhole
    <2>9. r.job = "REQUESTED"
      BY <2>5, <2>6 DEF Selected, Order
    <2>8. "PAID_PARTIAL" \in GatewaySays
      BY DEF GatewaySays
    <2> QED BY <1>2, <2>2, <2>6, <2>7, <2>8, <2>9, GatewayWhole
  <1> QED BY <1>1, <1>2 DEF OrderInit

LEMMA OrderWhole == IsWhole(order) /\ [OrderNext]_orderVars => IsWhole(order')
  <1> SUFFICES ASSUME IsWhole(order), [OrderNext]_orderVars PROVE IsWhole(order')
    OBVIOUS
  <1>1. CASE UNCHANGED order
    BY <1>1
  <1>2. CASE OthersAct
    BY <1>2, OthersWhole
  <1>3. ASSUME NEW t \in Threads, Accepted(t) PROVE IsWhole(order')
    BY <1>3, AcceptedWhole
  <1>4. ASSUME NEW t \in Threads, Refused(t) \/ ReadRequest(t) PROVE IsWhole(order')
    BY <1>4, RefreshedWhole DEF Refused, ReadRequest
  <1>5. ASSUME NEW t \in Threads, \/ Open(t) \/ ShowRequest(t) \/ ReadMoney(t) \/ ShowMoney(t)
                                  \/ LoadFails(t)
                                  \/ \E op \in Operations \union {"cancelAndRefund"}, p \in Sellers :
                                        Click(t, op, p)
        PROVE  UNCHANGED order
    BY <1>5 DEF Open, ShowRequest, ReadMoney, ShowMoney, LoadFails, Click
  <1> QED BY <1>1, <1>2, <1>3, <1>4, <1>5 DEF OrderNext, orderVars

\* A current page carries what the order is like.
LEMMA CurrentPage ==
    ASSUME IsWhole(order), IsCurrent
    PROVE  /\ page.request.request = order.request /\ page.request.job = order.job
           /\ page.request.offers = {p \in Sellers : order.offer[p] # "none"}
           /\ page.request.invited = {p \in Sellers : order.invited[p] # "none"}
           /\ page.request.reviewed <=> order.reviewed
           /\ page.request.unlocked <=> order.unlocked
           /\ page.money.unlocked <=> order.unlocked
           /\ page.money.deposit = order.deposit
           /\ page.money.canCancelJob <=> order.job # "none" /\ ~JobIsOver(order)
           /\ page.money.canRequestRefund <=> IsPaid(order) /\ order.refundable /\ ~RefundIsActive(order)
  <1>1. /\ page.request = RequestView(order)
        /\ page.money = IF order.job = "none" THEN NoMoney ELSE MoneyView(order)
    BY DEF IsCurrent
  <1>2. /\ page.request.request = order.request /\ page.request.job = order.job
        /\ page.request.offers = {p \in Sellers : order.offer[p] # "none"}
        /\ page.request.invited = {p \in Sellers : order.invited[p] # "none"}
    BY <1>1 DEF RequestView
  <1>3. (page.request.reviewed <=> order.reviewed) /\ (page.request.unlocked <=> order.unlocked)
    BY <1>1 DEF RequestView
  <1>4. CASE order.job = "none"
    <2>1. page.money = NoMoney /\ order.deposit = "none"
      BY <1>1, <1>4 DEF IsWhole
    <2>2. page.money.deposit = "none" /\ ~page.money.canCancelJob /\ ~page.money.canRequestRefund
          /\ ~page.money.unlocked
      BY <2>1 DEF NoMoney
    <2>3. ~IsPaid(order) /\ ~order.unlocked
      BY <1>4, <2>1 DEF IsPaid, IsWhole
    <2> QED BY <1>2, <1>3, <1>4, <2>1, <2>2, <2>3
  <1>5. CASE order.job # "none"
    <2>1. page.money = MoneyView(order)
      BY <1>1, <1>5
    <2>2. PICK may, refund \in BOOLEAN :
              /\ may <=> ~JobIsOver(order)
              /\ refund <=> IsPaid(order) /\ order.refundable /\ ~RefundIsActive(order)
      OBVIOUS
    <2>3. PICK pending, free \in BOOLEAN :
              /\ pending <=> order.refund = "PENDING" /\ order.mine
              /\ free <=> order.unlocked \/ IsPaid(order)
      OBVIOUS
    <2>4. page.money = [deposit |-> order.deposit, canCancelJob |-> may,
                        canRequestRefund |-> refund, unlocked |-> free, myPending |-> pending]
      BY <2>1, <2>2, <2>3 DEF MoneyView
    <2>5. /\ page.money.deposit = order.deposit
          /\ page.money.canCancelJob = may /\ page.money.canRequestRefund = refund
          /\ page.money.unlocked = free
      BY <2>4
    <2>6. free <=> order.unlocked
      BY <2>3 DEF IsWhole
    <2> QED BY <1>2, <1>3, <1>5, <2>2, <2>5, <2>6
  <1> QED BY <1>4, <1>5

\* The buttons of a current page are those that the API takes.
LEMMA ButtonsMatch ==
    ASSUME IsWhole(order), IsCurrent, NEW op \in Operations \ {"withdraw"}, NEW p \in Sellers
    PROVE  /\ Offers(op, p) => Outcomes(order, op, p) # {}
           /\ Outcomes(order, op, p) # {} =>
                 Offers(op, p) \/ (op = "pay" /\ (IsPaid(order) \/ CanReview))
  <1> USE CurrentPage
  <1>1. ~order.overdue /\ order \in Order
    BY DEF IsCurrent, IsWhole
  <1>2. CASE op = "invite"
    BY <1>1, <1>2 DEF Offers, OffersInvite, Outcomes, CreateInvitation, IsTaking
  <1>3. CASE op = "select"
    <2>1. OffersSelect(p) <=> IsTaking(order) /\ order.offer[p] # "none"
      BY <1>1 DEF OffersSelect, IsTaking
    <2>2. order.request = "OPEN" => order.offer[p] \in {"none", "SUBMITTED"}
      BY DEF IsWhole
    <2> QED BY <1>3, <2>1, <2>2 DEF Offers, Outcomes, SelectProposal, IsTaking
  <1>4. CASE op = "update"
    BY <1>1, <1>4 DEF Offers, OffersUpdate, Outcomes, UpdateRequest, IsTaking, IsWhole
  <1>5. CASE op = "recreate"
    BY <1>5 DEF Offers, OffersRecreate, Outcomes, RecreateExpired
  <1>6. CASE op = "pay"
    <2>1. OffersPay <=> order.deposit \in Payable /\ ~CanReview
      BY <1>1 DEF OffersPay, OffersRecreate, IsWhole, Payable
    <2>2. order.deposit \in Payable => Outcomes(order, "pay", p) # {}
      <3> SUFFICES ASSUME order.deposit \in Payable PROVE Outcomes(order, "pay", p) # {}
        OBVIOUS
      <3>1. GatewayTells(order, "FAILED") \in Outcomes(order, "pay", p)
        BY DEF Outcomes, PayDeposit, GatewaySays
      <3> QED BY <3>1
    <2>3. order.deposit \notin Payable /\ ~IsPaid(order) => Outcomes(order, "pay", p) = {}
      BY DEF Outcomes, PayDeposit
    <2> QED BY <1>6, <2>1, <2>2, <2>3 DEF Offers
  <1>7. CASE op = "review"
    BY <1>7 DEF Offers, CanReview, Outcomes, CreateReview
  <1>8. CASE op = "cancel"
    BY <1>1, <1>8 DEF Offers, OffersCancel, Outcomes, CancelJob, JobIsOver, Order
  <1>9. CASE op = "refund"
    <2>1. IsPaid(order) => order.job # "none"
      BY DEF IsWhole, IsPaid
    <2> QED BY <1>9, <2>1 DEF Offers, OffersRefund, Outcomes, CreateRefundRequest
  <1> QED BY <1>2, <1>3, <1>4, <1>5, <1>6, <1>7, <1>8, <1>9 DEF Operations

\* The main action is offered, and the label over the order agrees with it.
LEMMA HeadingMatches ==
    ASSUME IsWhole(order), IsCurrent
    PROVE  /\ order.job # "CANCELED" =>
                 /\ PrimaryAction # "none" => \E p \in Sellers : Offers(PrimaryAction, p)
                 /\ PrimaryAction = "select" => FlowState = "toChoose"
           /\ FlowState = "EXPIRED" <=> OffersRecreate
           /\ FlowState = "toPay" => OffersPay /\ ~IsPaid(order)
           /\ FlowState = "toChoose" => PrimaryAction = "select"
  <1> USE CurrentPage
  <1>1. /\ order.request \in {"OPEN", "EXPIRED", "CLOSED"} /\ ~order.overdue
        /\ order.job \in {"none", "REQUESTED", "RUNNING", "COMPLETED", "CANCELED"}
        /\ order.deposit \in Payable \union {"none", "PAID_PARTIAL", "CANCELED"}
    BY DEF IsCurrent, IsWhole, Order
  <1>2. /\ order.job = "none" <=> order.request # "CLOSED"
        /\ order.job = "none" <=> order.deposit = "none"
        /\ IsPaid(order) => order.unlocked
        /\ order.unlocked => order.job # "none"
        /\ order.deposit = "CANCELED" => order.job = "CANCELED"
        /\ order.reviewed => order.job = "COMPLETED"
    BY DEF IsWhole
  <1>3. CanReview <=> order.job = "COMPLETED" /\ ~order.reviewed
    BY DEF CanReview
  <1>4. PICK seller : seller \in Sellers
    BY SellersAssumption
  <1>5. ASSUME order.job # "CANCELED"
        PROVE  /\ PrimaryAction # "none" => \E p \in Sellers : Offers(PrimaryAction, p)
               /\ PrimaryAction = "select" => FlowState = "toChoose"
    <2>1. CASE order.request = "CLOSED"
      <3>1. PrimaryAction \in {"none", "review", "pay"}
        BY <1>1, <1>2, <1>5, <2>1 DEF PrimaryAction, IsPaid
      <3>2. PrimaryAction = "review" => Offers("review", seller)
        BY DEF PrimaryAction, Offers
      <3>3. PrimaryAction = "pay" => Offers("pay", seller)
        BY <2>1 DEF PrimaryAction, Offers, OffersPay, OffersRecreate
      <3> QED BY <1>4, <3>1, <3>2, <3>3
    <2>2. CASE order.request = "EXPIRED"
      <3>1. PrimaryAction = "recreate"
        BY <1>2, <1>3, <2>2 DEF PrimaryAction
      <3>2. Offers("recreate", seller)
        BY <2>2 DEF Offers, OffersRecreate
      <3> QED BY <1>4, <3>1, <3>2
    <2>3. CASE order.request = "OPEN"
      <3>1. /\ order.job = "none" /\ order.deposit = "none" /\ ~order.reviewed
            /\ ~CanReview /\ ~order.unlocked
        BY <1>2, <1>3, <2>3
      <3>2. PrimaryAction = IF page.request.offers # {} THEN "select" ELSE "none"
        BY <2>3, <3>1 DEF PrimaryAction, Payable
      <3>3. page.request.offers # {} => \E p \in Sellers : Offers("select", p)
        BY <2>3 DEF Offers, OffersSelect
      <3>4. page.request.offers # {} => FlowState = "toChoose"
        BY <2>3, <3>1 DEF FlowState, JobIsOver, IsPaid, Payable
      <3> QED BY <3>2, <3>3, <3>4
    <2> QED BY <1>1, <2>1, <2>2, <2>3
  <1>6. FlowState = "EXPIRED" <=> OffersRecreate
    BY <1>1 DEF FlowState, OffersRecreate
  <1>7. FlowState = "toPay" => OffersPay /\ ~IsPaid(order)
    <2> SUFFICES ASSUME FlowState = "toPay" PROVE OffersPay /\ ~IsPaid(order)
      OBVIOUS
    <2>1. /\ order.request \in {"OPEN", "CLOSED"} /\ order.job \notin {"COMPLETED", "CANCELED"}
          /\ ~order.unlocked /\ (order.deposit \in Payable \/ order.job # "none")
      BY <1>1 DEF FlowState, JobIsOver
    <2>2. order.deposit \in Payable
      BY <1>1, <1>2, <2>1 DEF IsPaid
    <2>3. ~IsPaid(order)
      BY <1>2, <2>1
    <2> QED BY <1>3, <2>1, <2>2, <2>3 DEF OffersPay, OffersRecreate
  <1>8. FlowState = "toChoose" => PrimaryAction = "select"
    <2> SUFFICES ASSUME FlowState = "toChoose" PROVE PrimaryAction = "select"
      OBVIOUS
    <2>1. /\ order.request \in {"OPEN", "CLOSED"} /\ order.job = "none"
          /\ ~order.unlocked /\ order.deposit \notin Payable /\ page.request.offers # {}
      BY <1>1 DEF FlowState, JobIsOver
    <2> QED BY <1>2, <1>3, <2>1 DEF PrimaryAction
  <1> QED BY <1>5, <1>6, <1>7, <1>8

\* The page's conditions for a button, written over what the API told, are those of
\* the API's operation (OrderDetailsPage and JobProtectionPanel against
\* ServiceRequestsService, JobsService, ReviewsService and PaymentsService), and its
\* main action and its label (resolveFlowVisualState) agree with both.
THEOREM ButtonsAreHonest == OrderSpec => []OffersMatchApi
  <1>1. OrderInit => OrderInv
    BY OrderInitWhole DEF OrderInv
  <1>2. OrderInv /\ [OrderNext]_orderVars => OrderInv'
    BY OrderWhole DEF OrderInv
  <1>3. OrderSpec => []OrderInv
    BY <1>1, <1>2, PTL DEF OrderSpec
  <1>4. OrderInv => OffersMatchApi
    <2> SUFFICES ASSUME IsWhole(order), IsCurrent PROVE OffersMatchApi
      BY DEF OffersMatchApi, OrderInv
    <2>1. OffersPay => ~IsPaid(order)
      BY CurrentPage DEF OffersPay, IsPaid, Payable
    <2> QED BY <2>1, ButtonsMatch, HeadingMatches DEF OffersMatchApi
  <1> QED BY <1>3, <1>4, PTL

-----------------------------------------------------------------------------
(* The functions of that page.                                              *)

LEMMA TupleParts ==
    ASSUME NEW a, NEW b, NEW c, NEW d
    PROVE  /\ Head(<<a>>) = a /\ Tail(<<a>>) = <<>> /\ <<a>> # <<>>
           /\ Head(<<a, b>>) = a /\ Tail(<<a, b>>) = <<b>> /\ <<a, b>> # <<>>
           /\ Head(<<a, b, c>>) = a /\ Tail(<<a, b, c>>) = <<b, c>> /\ <<a, b, c>> # <<>>
           /\ Head(<<a, b, c, d>>) = a /\ Tail(<<a, b, c, d>>) = <<b, c, d>> /\ <<a, b, c, d>> # <<>>
  <1>1. Head(<<a>>) = a /\ Tail(<<a>>) = <<>> /\ <<a>> # <<>>
    OBVIOUS
  <1>2. Head(<<a, b>>) = a /\ Tail(<<a, b>>) = <<b>> /\ <<a, b>> # <<>>
    OBVIOUS
  <1>3. Head(<<a, b, c>>) = a /\ Tail(<<a, b, c>>) = <<b, c>> /\ <<a, b, c>> # <<>>
    OBVIOUS
  <1>4. Head(<<a, b, c, d>>) = a /\ Tail(<<a, b, c, d>>) = <<b, c, d>> /\ <<a, b, c, d>> # <<>>
    OBVIOUS
  <1> QED BY <1>1, <1>2, <1>3, <1>4

LEMMA TuplesJoined ==
    ASSUME NEW a, NEW b
    PROVE  <<a>> \o <<>> = <<a>> /\ <<a>> \o <<b>> = <<a, b>>
  <1>1. <<a>> \o <<>> = <<a>>
    OBVIOUS
  <1>2. <<a>> \o <<b>> = <<a, b>>
    <2>1. <<a>> \in Seq({a, b}) /\ <<b>> \in Seq({a, b}) /\ <<a, b>> \in Seq({a, b})
      OBVIOUS
    <2>2. Len(<<a>>) = 1 /\ Len(<<b>>) = 1 /\ Len(<<a, b>>) = 2
      OBVIOUS
    <2>3. /\ <<a>> \o <<b>> \in Seq({a, b}) /\ Len(<<a>> \o <<b>>) = 2
          /\ \A i \in 1 .. 2 : (<<a>> \o <<b>>)[i] = IF i <= 1 THEN <<a>>[i] ELSE <<b>>[i - 1]
      BY <2>1, <2>2, ConcatProperties
    <2>4. \A i \in 1 .. 2 : (<<a>> \o <<b>>)[i] = <<a, b>>[i]
      BY <2>3
    <2> QED BY <2>1, <2>2, <2>3, <2>4, SeqEqual
  <1> QED BY <1>1, <1>2

\* What a thread that is about to do something still has to do.
LEMMA RestOf ==
    ASSUME ThreadTypes, NEW t \in Threads
    PROVE  /\ Doing(t, "load") => thread[t].todo \in {<<"load">>, <<"load", "load">>}
           /\ Doing(t, "show") => thread[t].todo \in {<<"show">>, <<"show", "load">>}
           /\ Doing(t, "readMoney") => thread[t].todo \in {<<"readMoney">>, <<"readMoney", "load">>}
           /\ Doing(t, "showMoney") => thread[t].todo \in {<<"showMoney">>, <<"showMoney", "load">>}
           /\ \A op \in Operations : Doing(t, op) =>
                 \/ thread[t].todo = <<op, "load">> /\ op # "recreate"
                 \/ thread[t].todo = <<op>> /\ op = "recreate"
                 \/ thread[t].todo = <<"cancel", "refund", "load", "load">> /\ op = "cancel"
                 \/ thread[t].todo = <<"refund", "load", "load">> /\ op = "refund"
  <1>1. thread[t].todo \in Beginning \union Owing \union Ending
    BY DEF ThreadTypes
  <1>2. CASE thread[t].todo \in Owing
    BY <1>2, TupleParts DEF Owing, Doing, Operations
  <1>3. CASE thread[t].todo \in Ending
    BY <1>3, TupleParts DEF Ending, Doing, Operations
  <1>4. CASE thread[t].todo \in Beginning
    BY <1>4, TupleParts DEF Beginning, Doing, Operations
  <1> QED BY <1>1, <1>2, <1>3, <1>4

LEMMA PageKept ==
    ASSUME ThreadTypes, NEW t, NEW rest, NEW g, IsPage(g)
    PROVE  /\ IsPage(Lowered(g, t, rest)) /\ Lowered(g, t, rest).open = g.open
           /\ Lowered(g, t, rest).seen = g.seen
  <1>1. PICK flags, inviting :
            Lowered(g, t, rest) = [g EXCEPT !.flags = flags, !.inviting = inviting]
    BY DEF Lowered
  <1>2. Lowered(g, t, rest) = [open |-> g.open, request |-> g.request, money |-> g.money,
                               seen |-> g.seen, flags |-> flags, inviting |-> inviting]
    BY <1>1 DEF IsPage
  <1> QED BY <1>2 DEF IsPage

\* A thread goes on with what is left of its work.
LEMMA ThreadTurn ==
    ASSUME ThreadTypes, NEW t \in Threads, NEW rest, NEW g, IsPage(g), GoesOn(t, rest, g),
           rest \in {<<>>, <<"load">>, <<"load", "load">>, <<"refund", "load", "load">>,
                    <<"readMoney">>, <<"readMoney", "load">>},
           rest = <<"refund", "load", "load">> => thread[t].op = "cancelAndRefund"
    PROVE  /\ ThreadTypes'
           /\ thread'[t].todo = rest /\ \A u \in Threads \ {t} : thread'[u] = thread[u]
           /\ page'.open => page.open /\ g.open /\ page'.seen = g.seen
  <1>1. NoFunction.todo = <<>> /\ IsFunction(NoFunction)
    BY DEF NoFunction, IsFunction
  <1>2. PICK f : f = IF rest = <<>> THEN NoFunction
                     ELSE [thread[t] EXCEPT !.todo = rest, !.copy = NoRequest, !.seen = 0]
    OBVIOUS
  <1>3. thread' = [thread EXCEPT ![t] = f]
    BY <1>2 DEF GoesOn
  <1>4. f.todo = rest /\ IsFunction(f) /\ (rest # <<>> => f.op = thread[t].op)
    <2>1. CASE rest = <<>>
      BY <1>1, <1>2, <2>1
    <2>2. CASE rest # <<>>
      <3>1. IsFunction(thread[t])
        BY DEF ThreadTypes
      <3>2. f = [todo |-> rest, op |-> thread[t].op, to |-> thread[t].to,
                 copy |-> NoRequest, seen |-> 0]
        BY <1>2, <2>2, <3>1 DEF IsFunction
      <3> QED BY <3>2 DEF IsFunction
    <2> QED BY <2>1, <2>2
  <1>5. DOMAIN thread' = Threads /\ thread'[t] = f /\ \A u \in Threads \ {t} : thread'[u] = thread[u]
    BY <1>3 DEF ThreadTypes
  <1>6. IsPage(page') /\ (page'.open => page.open /\ g.open /\ page'.seen = g.seen)
    BY PageKept DEF GoesOn, ThreadTypes
  <1>7. rest \in Owing \union Ending \union Beginning
    BY DEF Owing, Ending
  <1>8. rest # <<"cancel", "refund", "load", "load">>
    BY TupleParts
  <1>9. rest \in {<<"refund", "load", "load">>, <<"cancel", "refund", "load", "load">>}
           => f.op = "cancelAndRefund"
    BY <1>4, <1>8, TupleParts
  <1>10. ThreadTypes'
    BY <1>4, <1>5, <1>6, <1>7, <1>9 DEF ThreadTypes
  <1> QED BY <1>4, <1>5, <1>6, <1>10

LEMMA OwingIs ==
    /\ <<"load">> \in Owing /\ <<"load", "load">> \in Owing /\ <<"refund", "load", "load">> \in Owing
    /\ <<"readMoney", "load">> \in Owing /\ <<"show", "load">> \in Owing
    /\ <<"showMoney", "load">> \in Owing
  BY DEF Owing

LEMMA OpenCovered == ASSUME ThreadsInv, NEW t \in Threads, Open(t) PROVE ThreadsInv'
  <1>1. PICK f : f = [NoFunction EXCEPT !.todo = Steps("open"), !.op = "open"]
    OBVIOUS
  <1>2. f.todo = <<"load">> /\ IsFunction(f)
    BY <1>1 DEF NoFunction, Steps, IsFunction
  <1>3. /\ DOMAIN thread' = Threads /\ thread'[t] = f
        /\ \A u \in Threads \ {t} : thread'[u] = thread[u] /\ thread[u].todo = <<>>
    BY <1>1 DEF Open, AtRest, ThreadsInv, ThreadTypes
  <1>4. IsPage(page')
    BY DEF Open, Blank, IsPage
  <1>5. <<"load">> \notin {<<"refund", "load", "load">>, <<"cancel", "refund", "load", "load">>}
    BY TupleParts
  <1>6. ThreadTypes'
    BY <1>2, <1>3, <1>4, <1>5, OwingIs DEF ThreadsInv, ThreadTypes
  <1>7. SomeoneOwes'
    BY <1>2, <1>3, OwingIs DEF SomeoneOwes
  <1>8. \A u \in Threads : ~IsLoading(u)' \/ u = t
    BY <1>3 DEF IsLoading, Doing
  <1>9. Covered'
    BY <1>7, <1>8 DEF Covered
  <1> QED BY <1>6, <1>9 DEF ThreadsInv

\* A handler begins, which is neither loading nor owing a load.
LEMMA ClickCovered ==
    ASSUME ThreadsInv, NEW t \in Threads, NEW op \in Operations \union {"cancelAndRefund"},
           NEW p \in Sellers, Click(t, op, p)
    PROVE  ThreadsInv'
  <1>1. PICK f : f = [NoFunction EXCEPT !.todo = Steps(op), !.op = op,
                                        !.to = IF op \in {"invite", "select"} THEN p ELSE NoSeller]
    OBVIOUS
  <1>2. f.todo = Steps(op) /\ f.op = op /\ IsFunction(f)
    BY <1>1 DEF NoFunction, IsFunction
  <1>3. /\ DOMAIN thread' = Threads /\ thread'[t] = f /\ thread[t].todo = <<>>
        /\ \A u \in Threads \ {t} : thread'[u] = thread[u]
    BY <1>1 DEF Click, ThreadsInv, ThreadTypes
  <1>4. IsPage(page') /\ (page'.open <=> page.open) /\ page'.seen = page.seen
    <2>1. PICK flags, inviting : page' = [page EXCEPT !.flags = flags, !.inviting = inviting]
      BY DEF Click
    <2>2. page' = [open |-> page.open, request |-> page.request, money |-> page.money,
                   seen |-> page.seen, flags |-> flags, inviting |-> inviting]
      BY <2>1 DEF ThreadsInv, ThreadTypes, IsPage
    <2> QED BY <2>2 DEF IsPage
  <1>5. \/ op = "cancelAndRefund" /\ Steps(op) = <<"cancel", "refund", "load", "load">>
        \/ op = "recreate" /\ Steps(op) = <<op>>
        \/ op \in Operations \ {"recreate"} /\ Steps(op) = <<op, "load">>
    BY DEF Steps, Operations
  <1>6. /\ Steps(op) \in Beginning
        /\ Steps(op) \in {<<"refund", "load", "load">>, <<"cancel", "refund", "load", "load">>}
              => op = "cancelAndRefund"
    <2>1. Len(<<op>>) = 1 /\ Len(<<op, "load">>) = 2
      OBVIOUS
    <2>2. Len(<<"refund", "load", "load">>) = 3 /\ Len(<<"cancel", "refund", "load", "load">>) = 4
      OBVIOUS
    <2>3. Steps(op) \in Beginning
      BY <1>5 DEF Beginning
    <2>4. CASE op = "cancelAndRefund"
      BY <2>3, <2>4
    <2>5. CASE op # "cancelAndRefund"
      <3>1. Len(Steps(op)) \in {1, 2}
        BY <1>5, <2>1, <2>5
      <3>2. Len(Steps(op)) \notin {3, 4}
        BY <3>1
      <3>3. Steps(op) \notin {<<"refund", "load", "load">>, <<"cancel", "refund", "load", "load">>}
        BY <2>2, <3>2
      <3> QED BY <2>3, <3>3
    <2> QED BY <2>4, <2>5
  <1>7. ThreadTypes'
    BY <1>2, <1>3, <1>4, <1>6 DEF ThreadsInv, ThreadTypes
  <1>8. ~\E step \in {"load", "show", "readMoney", "showMoney"} : Doing(t, step)'
    BY <1>2, <1>3, <1>5, TupleParts DEF Doing, Operations
  <1>9. SomeoneOwes => SomeoneOwes'
    <2>1. <<>> \notin Owing
      BY TupleParts DEF Owing
    <2> QED BY <1>3, <2>1 DEF SomeoneOwes
  <1>10. \A u \in Threads :
            /\ IsLoading(u)' => IsLoading(u) /\ u # t
            /\ Doing(u, "show")' => Doing(u, "show") /\ u # t
            /\ Gathered(u) => Gathered(u)'
    BY <1>3, <1>8 DEF IsLoading, Doing, Gathered, Click
  <1>11. page'.open /\ ~met' /\ ~lost' => page.open /\ ~met /\ ~lost
    BY <1>4 DEF Click
  <1>12. Covered'
    BY <1>4, <1>9, <1>10, <1>11 DEF Covered, ThreadsInv, Click
  <1> QED BY <1>7, <1>12 DEF ThreadsInv

\* What one thread does apart from loads leaves the other threads' loads alone.
LEMMA OthersCovered ==
    ASSUME Covered, NEW t \in Threads, acts' = acts, page'.open /\ ~met' /\ ~lost' => page.open /\ ~met /\ ~lost,
           page'.open => page'.seen = page.seen,
           SomeoneOwes => SomeoneOwes', ~Doing(t, "show"), ~Doing(t, "show")',
           IsLoading(t)' => IsLoading(t),
           \A u \in Threads \ {t} : thread'[u] = thread[u]
    PROVE  Covered'
  <1>1. \A u \in Threads :
            /\ IsLoading(u)' => IsLoading(u)
            /\ Doing(u, "show")' => Doing(u, "show") /\ u # t
            /\ Gathered(u) => Gathered(u)'
    BY DEF IsLoading, Doing, Gathered
  <1> QED BY <1>1 DEF Covered

LEMMA AcceptedCovered == ASSUME ThreadsInv, NEW t \in Threads, Accepted(t) PROVE ThreadsInv'
  <1>1. ThreadTypes /\ Covered /\ met' = met
    BY DEF ThreadsInv, Accepted
  <1>2. PICK op \in Operations, answered \in BOOLEAN :
            /\ Doing(t, op) /\ lost' = (lost \/ ~answered)
            /\ IF answered
               THEN LET rest == Tail(thread[t].todo)
                    IN GoesOn(t, rest, IF op = "recreate" THEN Blank
                                       ELSE IF rest # <<>> /\ Head(rest) = "refund"
                                       THEN [page EXCEPT !.flags = @ \union {"refund"}] ELSE page)
               ELSE GoesOn(t, IF op = "refund" /\ thread[t].op = "cancelAndRefund"
                              THEN <<"load">> ELSE <<>>, page)
    BY DEF Accepted
  <1>3. /\ Doing(t, op)
        /\ \/ thread[t].todo = <<op, "load">> /\ op # "recreate"
           \/ thread[t].todo = <<op>> /\ op = "recreate"
           \/ thread[t].todo = <<"cancel", "refund", "load", "load">> /\ op = "cancel"
           \/ thread[t].todo = <<"refund", "load", "load">> /\ op = "refund"
    BY <1>1, <1>2, RestOf
  <1>4. CASE ~answered
    <2>1. PICK rest \in {<<>>, <<"load">>} : GoesOn(t, rest, page)
      BY <1>2, <1>4
    <2>2. IsPage(page) /\ rest # <<"refund", "load", "load">>
      BY <1>1, <2>1, TupleParts DEF ThreadTypes
    <2>3. ThreadTypes'
      BY <1>1, <2>1, <2>2, ThreadTurn
    <2>4. Covered'
      BY <1>2, <1>4 DEF Covered
    <2> QED BY <2>3, <2>4 DEF ThreadsInv
  <1>5. CASE answered /\ op = "recreate"
    <2>1. GoesOn(t, <<>>, Blank) /\ IsPage(Blank) /\ ~Blank.open
      BY <1>2, <1>3, <1>5, TupleParts DEF Blank, IsPage
    <2>2. ThreadTypes' /\ ~page'.open
      BY <1>1, <2>1, ThreadTurn, TupleParts
    <2>3. Covered'
      BY <2>2 DEF Covered
    <2> QED BY <2>2, <2>3 DEF ThreadsInv
  <1>6. CASE answered /\ op # "recreate"
    <2>1. PICK g : g = IF Tail(thread[t].todo) # <<>> /\ Head(Tail(thread[t].todo)) = "refund"
                       THEN [page EXCEPT !.flags = @ \union {"refund"}] ELSE page
      OBVIOUS
    <2>2. PICK rest : rest = Tail(thread[t].todo)
      OBVIOUS
    <2>3. /\ rest \in {<<"load">>, <<"load", "load">>, <<"refund", "load", "load">>}
          /\ rest = <<"refund", "load", "load">> => thread[t].op = "cancelAndRefund"
      <3>1. CASE thread[t].todo = <<op, "load">>
        BY <2>2, <3>1, TupleParts
      <3>2. CASE thread[t].todo = <<"cancel", "refund", "load", "load">>
        <4>1. rest = <<"refund", "load", "load">>
          BY <2>2, <3>2, TupleParts
        <4>2. thread[t].op = "cancelAndRefund"
          BY <1>1, <3>2 DEF ThreadTypes
        <4> QED BY <4>1, <4>2
      <3>3. CASE thread[t].todo = <<"refund", "load", "load">>
        BY <2>2, <3>3, TupleParts
      <3> QED BY <1>3, <1>6, <3>1, <3>2, <3>3
    <2>4. IsPage(g)
      <3>1. PICK flags : g = page \/ g = [page EXCEPT !.flags = flags]
        BY <2>1
      <3>2. IsPage([page EXCEPT !.flags = flags])
        BY <1>1 DEF ThreadTypes, IsPage
      <3> QED BY <1>1, <3>1, <3>2 DEF ThreadTypes
    <2>5. GoesOn(t, rest, g)
      BY <1>2, <1>6, <2>1, <2>2
    <2>6. ThreadTypes' /\ thread'[t].todo = rest /\ \A u \in Threads \ {t} : thread'[u] = thread[u]
      BY <1>1, <2>3, <2>4, <2>5, ThreadTurn
    <2>7. SomeoneOwes'
      BY <2>3, <2>6, OwingIs DEF SomeoneOwes
    <2>8. ~\E step \in {"show", "readMoney", "showMoney"} : Doing(t, step)'
      BY <2>3, <2>6, TupleParts DEF Doing
    <2>9. \A u \in Threads : IsLoading(u)' => IsLoading(u)
      BY <2>6, <2>8 DEF IsLoading, Doing
    <2>10. page'.open /\ ~lost' => page.open /\ ~lost
      BY <1>1, <1>2, <2>3, <2>4, <2>5, ThreadTurn
    <2>11. Covered'
      BY <1>1, <2>7, <2>9, <2>10 DEF Covered
    <2> QED BY <2>6, <2>11 DEF ThreadsInv
  <1> QED BY <1>4, <1>5, <1>6

LEMMA RefusedCovered == ASSUME ThreadsInv, NEW t \in Threads, Refused(t) PROVE ThreadsInv'
  <1>1. ThreadTypes /\ Covered /\ UNCHANGED <<acts, met, lost>>
    BY DEF ThreadsInv, Refused
  <1>2. PICK op \in Operations :
            /\ Doing(t, op)
            /\ GoesOn(t, IF op = "refund" /\ thread[t].op = "cancelAndRefund"
                         THEN <<"load">> ELSE <<>>, page)
    BY DEF Refused
  <1>3. PICK rest \in {<<>>, <<"load">>} :
            /\ rest = IF op = "refund" /\ thread[t].op = "cancelAndRefund" THEN <<"load">> ELSE <<>>
            /\ GoesOn(t, rest, page)
    BY <1>2
  <1>4. IsPage(page) /\ rest # <<"refund", "load", "load">>
    BY <1>1, <1>3, TupleParts DEF ThreadTypes
  <1>5. /\ ThreadTypes' /\ thread'[t].todo = rest
        /\ \A u \in Threads \ {t} : thread'[u] = thread[u]
        /\ page'.open => page.open /\ page'.seen = page.seen
    BY <1>1, <1>3, <1>4, ThreadTurn
  <1>6. SomeoneOwes => SomeoneOwes'
    <2>1. CASE thread[t].todo \in Owing
      <3>1. thread[t].todo = <<"refund", "load", "load">> /\ op = "refund"
        BY <1>2, <2>1, TupleParts DEF Owing, Doing, Operations
      <3>2. thread[t].op = "cancelAndRefund"
        BY <1>1, <3>1 DEF ThreadTypes
      <3> QED BY <1>3, <1>5, <3>1, <3>2, OwingIs DEF SomeoneOwes
    <2>2. CASE thread[t].todo \notin Owing
      BY <1>5, <2>2 DEF SomeoneOwes
    <2> QED BY <2>1, <2>2
  <1>7. ~\E step \in {"show", "readMoney", "showMoney"} : Doing(t, step) \/ Doing(t, step)'
    BY <1>2, <1>3, <1>5, TupleParts DEF Doing, Operations
  <1>8. ~Doing(t, "show") /\ ~Doing(t, "show")' /\ ~IsLoading(t)'
    BY <1>7 DEF IsLoading
  <1>9. Covered'
    BY <1>1, <1>5, <1>6, <1>8, OthersCovered
  <1> QED BY <1>5, <1>9 DEF ThreadsInv

\* A thread that loads goes on without owing less.
LEMMA StillOwed ==
    ASSUME NEW t \in Threads, SomeoneOwes, thread[t].todo \in Owing => thread'[t].todo \in Owing,
           \A u \in Threads \ {t} : thread'[u] = thread[u]
    PROVE  SomeoneOwes'
  BY DEF SomeoneOwes

LEMMA ReadRequestCovered == ASSUME ThreadsInv, NEW t \in Threads, ReadRequest(t) PROVE ThreadsInv'
  <1>1. ThreadTypes /\ Doing(t, "load") /\ UNCHANGED <<page, acts, lost>>
    BY DEF ThreadsInv, ReadRequest
  <1>2. PICK copy : copy = RequestView(Refreshed(order))
    OBVIOUS
  <1>3. PICK todo : todo = <<"show">> \o Tail(thread[t].todo)
    OBVIOUS
  <1>4. todo \in {<<"show">>, <<"show", "load">>}
    <2>1. thread[t].todo \in {<<"load">>, <<"load", "load">>}
      BY <1>1, RestOf
    <2>2. Tail(thread[t].todo) \in {<<>>, <<"load">>}
      <3>1. CASE thread[t].todo = <<"load">>
        BY <3>1, TupleParts
      <3>2. CASE thread[t].todo = <<"load", "load">>
        BY <3>2, TupleParts
      <3> QED BY <2>1, <3>1, <3>2
    <2> QED BY <1>3, <2>2, TuplesJoined
  <1>5. PICK f : f = [thread[t] EXCEPT !.todo = todo, !.seen = acts, !.copy = copy]
    OBVIOUS
  <1>6. thread' = [thread EXCEPT ![t] = f]
    BY <1>2, <1>3, <1>5 DEF ReadRequest
  <1>7. f = [todo |-> todo, op |-> thread[t].op, to |-> thread[t].to, copy |-> copy, seen |-> acts]
    <2>1. IsFunction(thread[t])
      BY <1>1 DEF ThreadTypes
    <2> QED BY <1>5, <2>1 DEF IsFunction
  <1>8. /\ DOMAIN thread' = Threads /\ thread'[t] = f
        /\ \A u \in Threads \ {t} : thread'[u] = thread[u]
    BY <1>1, <1>6 DEF ThreadTypes
  <1>9. /\ IsFunction(f) /\ f.todo \in Owing \union Ending
        /\ f.todo \notin {<<"refund", "load", "load">>, <<"cancel", "refund", "load", "load">>}
    BY <1>4, <1>7, TupleParts DEF IsFunction, Owing, Ending
  <1>10. ThreadTypes'
    BY <1>1, <1>8, <1>9 DEF ThreadTypes
  <1>11. Doing(t, "show")' /\ Gathered(t)'
    BY <1>1, <1>4, <1>7, <1>8, TupleParts DEF Doing, Gathered
  <1>12. ~met' => ~met /\ \A u \in Threads \ {t} : ~IsLoading(u) /\ ~IsLoading(u)'
    BY <1>8 DEF ReadRequest, IsLoading, Doing
  <1>13. \A u \in Threads : Doing(u, "show")' => IsLoading(u)'
    BY DEF IsLoading
  <1>14. Covered'
    BY <1>11, <1>12, <1>13 DEF Covered
  <1> QED BY <1>10, <1>14 DEF ThreadsInv

LEMMA ReadMoneyCovered == ASSUME ThreadsInv, NEW t \in Threads, ReadMoney(t) PROVE ThreadsInv'
  <1>1. ThreadTypes /\ Covered /\ Doing(t, "readMoney") /\ UNCHANGED <<page, acts, met, lost>>
    BY DEF ThreadsInv, ReadMoney
  <1>2. PICK copy : copy = MoneyView(order)
    OBVIOUS
  <1>3. PICK todo : todo = <<"showMoney">> \o Tail(thread[t].todo)
    OBVIOUS
  <1>4. /\ todo \in {<<"showMoney">>, <<"showMoney", "load">>}
        /\ thread[t].todo \in Owing => todo \in Owing
    <2>1. CASE thread[t].todo = <<"readMoney">>
      <3>1. todo = <<"showMoney">>
        BY <1>3, <2>1, TupleParts, TuplesJoined
      <3>2. Len(<<"readMoney">>) = 1 /\ Head(<<"readMoney">>) = "readMoney"
        OBVIOUS
      <3>3. Len(<<"load">>) = 1 /\ Len(<<"readMoney", "load">>) = 2 /\ Head(<<"load">>) = "load"
        OBVIOUS
      <3>4. <<"readMoney">> \notin Owing
        BY <3>2, <3>3, TupleParts DEF Owing
      <3> QED BY <2>1, <3>1, <3>4
    <2>2. CASE thread[t].todo = <<"readMoney", "load">>
      <3>1. Tail(thread[t].todo) = <<"load">>
        BY <2>2, TupleParts
      <3>2. todo = <<"showMoney", "load">>
        BY <1>3, <3>1, TuplesJoined
      <3> QED BY <3>2, OwingIs
    <2> QED BY <1>1, <2>1, <2>2, RestOf
  <1>5. PICK f : f = [thread[t] EXCEPT !.todo = todo, !.copy = copy]
    OBVIOUS
  <1>6. thread' = [thread EXCEPT ![t] = f]
    BY <1>2, <1>3, <1>5 DEF ReadMoney
  <1>7. f = [todo |-> todo, op |-> thread[t].op, to |-> thread[t].to, copy |-> copy,
             seen |-> thread[t].seen]
    <2>1. IsFunction(thread[t])
      BY <1>1 DEF ThreadTypes
    <2> QED BY <1>5, <2>1 DEF IsFunction
  <1>8. /\ DOMAIN thread' = Threads /\ thread'[t] = f
        /\ \A u \in Threads \ {t} : thread'[u] = thread[u]
    BY <1>1, <1>6 DEF ThreadTypes
  <1>9. /\ IsFunction(f) /\ f.todo \in Owing \union Ending
        /\ f.todo \notin {<<"refund", "load", "load">>, <<"cancel", "refund", "load", "load">>}
    BY <1>4, <1>7, TupleParts DEF IsFunction, Owing, Ending
  <1>10. ThreadTypes'
    BY <1>1, <1>8, <1>9 DEF ThreadTypes
  <1>11. SomeoneOwes => SomeoneOwes'
    BY <1>4, <1>7, <1>8, StillOwed
  <1>12. ~Doing(t, "show") /\ ~Doing(t, "show")' /\ IsLoading(t)
    BY <1>1, <1>4, <1>7, <1>8, TupleParts DEF Doing, IsLoading
  <1>13. Covered'
    BY <1>1, <1>8, <1>11, <1>12, OthersCovered
  <1> QED BY <1>10, <1>13 DEF ThreadsInv

LEMMA ShowRequestCovered == ASSUME ThreadsInv, NEW t \in Threads, ShowRequest(t) PROVE ThreadsInv'
  <1>1. ThreadTypes /\ Covered /\ Doing(t, "show") /\ UNCHANGED <<acts, met, lost>>
    BY DEF ThreadsInv, ShowRequest
  <1>2. thread[t].todo \in {<<"show">>, <<"show", "load">>}
    BY <1>1, RestOf
  <1>3. PICK displayed : displayed = [page EXCEPT !.request = thread[t].copy, !.seen = thread[t].seen]
    OBVIOUS
  <1>4. PICK rest, g :
            /\ rest = Tail(thread[t].todo) \/ rest = <<"readMoney">> \o Tail(thread[t].todo)
            /\ GoesOn(t, rest, g)
            /\ IsPage(g) /\ g.open = page.open /\ g.seen = thread[t].seen
    <2>1. IsPage(displayed) /\ displayed.open = page.open /\ displayed.seen = thread[t].seen
      <3>1. IsPage(page)
        BY <1>1 DEF ThreadTypes
      <3>2. displayed = [open |-> page.open, request |-> thread[t].copy, money |-> page.money,
                     seen |-> thread[t].seen, flags |-> page.flags, inviting |-> page.inviting]
        BY <1>3, <3>1 DEF IsPage
      <3> QED BY <3>2 DEF IsPage
    <2>2. CASE thread[t].copy.job = "none"
      <3>1. PICK rest, g : rest = Tail(thread[t].todo) /\ g = [displayed EXCEPT !.money = NoMoney]
        OBVIOUS
      <3>2. GoesOn(t, rest, g)
        BY <1>3, <2>2, <3>1 DEF ShowRequest
      <3>3. g = [open |-> displayed.open, request |-> displayed.request, money |-> NoMoney,
                 seen |-> displayed.seen, flags |-> displayed.flags, inviting |-> displayed.inviting]
        BY <2>1, <3>1 DEF IsPage
      <3>4. IsPage(g) /\ g.open = page.open /\ g.seen = thread[t].seen
        BY <2>1, <3>3 DEF IsPage
      <3> QED BY <3>1, <3>2, <3>4
    <2>3. CASE thread[t].copy.job # "none"
      <3>1. PICK rest : rest = <<"readMoney">> \o Tail(thread[t].todo)
        OBVIOUS
      <3>2. GoesOn(t, rest, displayed)
        BY <1>3, <2>3, <3>1 DEF ShowRequest
      <3> QED BY <2>1, <3>1, <3>2
    <2> QED BY <2>2, <2>3
  <1>5. /\ rest \in {<<>>, <<"load">>, <<"readMoney">>, <<"readMoney", "load">>}
        /\ thread[t].todo \in Owing => rest \in Owing
    <2>1. CASE thread[t].todo = <<"show">>
      <3>1. <<"show">> \notin Owing
        <4>1. Len(<<"show">>) = 1 /\ Len(<<"show", "load">>) = 2
          OBVIOUS
        <4> QED BY <4>1, TupleParts DEF Owing
      <3> QED BY <1>4, <2>1, <3>1, TupleParts, TuplesJoined
    <2>2. CASE thread[t].todo = <<"show", "load">>
      BY <1>4, <2>2, TupleParts, TuplesJoined, OwingIs
    <2> QED BY <1>2, <2>1, <2>2
  <1>6. rest # <<"refund", "load", "load">>
    BY <1>5, TupleParts
  <1>7. /\ ThreadTypes' /\ thread'[t].todo = rest
        /\ \A u \in Threads \ {t} : thread'[u] = thread[u]
        /\ page'.open => page.open /\ page'.seen = thread[t].seen
    BY <1>1, <1>4, <1>5, <1>6, ThreadTurn
  <1>8. SomeoneOwes => SomeoneOwes'
    BY <1>5, <1>7, StillOwed
  <1>9. ~Doing(t, "show")' /\ IsLoading(t)
    BY <1>1, <1>5, <1>7, TupleParts DEF Doing, IsLoading
  <1>10. \A u \in Threads :
            /\ IsLoading(u)' => IsLoading(u)
            /\ Doing(u, "show")' => Doing(u, "show") /\ u # t
            /\ Doing(u, "show") => IsLoading(u)
    BY <1>7, <1>9 DEF IsLoading, Doing
  <1>11. ASSUME page'.open, ~met', ~lost'
         PROVE  /\ page'.seen = acts' \/ SomeoneOwes'
                /\ \A u \in Threads : ~Doing(u, "show")'
                /\ \A u, v \in Threads : IsLoading(u)' /\ IsLoading(v)' => u = v
    <2>1. /\ Gathered(t) \/ SomeoneOwes
          /\ \A u, v \in Threads : IsLoading(u) /\ IsLoading(v) => u = v
      BY <1>1, <1>7, <1>11 DEF Covered
    <2>2. page'.seen = acts' \/ SomeoneOwes'
      BY <1>1, <1>7, <1>8, <1>11, <2>1 DEF Gathered
    <2>3. \A u \in Threads : ~Doing(u, "show")'
      <3> SUFFICES ASSUME NEW u \in Threads, Doing(u, "show")' PROVE FALSE
        OBVIOUS
      <3>1. u # t /\ IsLoading(u)
        BY <1>10
      <3> QED BY <1>9, <2>1, <3>1
    <2>4. \A u, v \in Threads : IsLoading(u)' /\ IsLoading(v)' => u = v
      BY <1>10, <2>1
    <2> QED BY <2>2, <2>3, <2>4
  <1>12. Covered'
    BY <1>11 DEF Covered
  <1> QED BY <1>7, <1>12 DEF ThreadsInv

LEMMA ShowMoneyCovered == ASSUME ThreadsInv, NEW t \in Threads, ShowMoney(t) PROVE ThreadsInv'
  <1>1. ThreadTypes /\ Covered /\ Doing(t, "showMoney") /\ UNCHANGED <<acts, met, lost>>
    BY DEF ThreadsInv, ShowMoney
  <1>2. PICK rest, g : /\ rest = Tail(thread[t].todo) /\ g = [page EXCEPT !.money = thread[t].copy]
                       /\ GoesOn(t, rest, g)
    BY DEF ShowMoney
  <1>3. IsPage(g) /\ g.open = page.open /\ g.seen = page.seen
    <2>1. g = [open |-> page.open, request |-> page.request, money |-> thread[t].copy,
               seen |-> page.seen, flags |-> page.flags, inviting |-> page.inviting]
      BY <1>1, <1>2 DEF ThreadTypes, IsPage
    <2> QED BY <2>1 DEF IsPage
  <1>4. /\ rest \in {<<>>, <<"load">>}
        /\ thread[t].todo \in Owing => rest \in Owing
    <2>1. CASE thread[t].todo = <<"showMoney">>
      <3>1. <<"showMoney">> \notin Owing
        <4>1. Len(<<"showMoney">>) = 1 /\ Len(<<"showMoney", "load">>) = 2
          OBVIOUS
        <4> QED BY <4>1, TupleParts DEF Owing
      <3> QED BY <1>2, <2>1, <3>1, TupleParts
    <2>2. CASE thread[t].todo = <<"showMoney", "load">>
      BY <1>2, <2>2, TupleParts, OwingIs
    <2> QED BY <1>1, <2>1, <2>2, RestOf
  <1>5. rest # <<"refund", "load", "load">>
    BY <1>4, TupleParts
  <1>6. /\ ThreadTypes' /\ thread'[t].todo = rest
        /\ \A u \in Threads \ {t} : thread'[u] = thread[u]
        /\ page'.open => page.open /\ page'.seen = page.seen
    BY <1>1, <1>2, <1>3, <1>4, <1>5, ThreadTurn
  <1>7. SomeoneOwes => SomeoneOwes'
    BY <1>4, <1>6, StillOwed
  <1>8. ~Doing(t, "show") /\ ~Doing(t, "show")' /\ IsLoading(t)
    BY <1>1, <1>4, <1>6, TupleParts DEF Doing, IsLoading
  <1>9. Covered'
    BY <1>1, <1>6, <1>7, <1>8, OthersCovered
  <1> QED BY <1>6, <1>9 DEF ThreadsInv

LEMMA LoadFailsCovered == ASSUME ThreadsInv, NEW t \in Threads, LoadFails(t) PROVE ThreadsInv'
  <1>1. ThreadTypes /\ (Doing(t, "load") \/ Doing(t, "readMoney")) /\ lost' = TRUE
    BY DEF ThreadsInv, LoadFails
  <1>2. PICK rest, g : /\ rest = Tail(thread[t].todo)
                       /\ g = [page EXCEPT !.request = NoRequest, !.money = NoMoney]
                       /\ GoesOn(t, rest, g)
    BY DEF LoadFails
  <1>3. IsPage(g)
    <2>1. g = [open |-> page.open, request |-> NoRequest, money |-> NoMoney,
               seen |-> page.seen, flags |-> page.flags, inviting |-> page.inviting]
      BY <1>1, <1>2 DEF ThreadTypes, IsPage
    <2> QED BY <2>1 DEF IsPage
  <1>4. rest \in {<<>>, <<"load">>}
    <2>1. thread[t].todo \in {<<"load">>, <<"load", "load">>, <<"readMoney">>, <<"readMoney", "load">>}
      BY <1>1, RestOf
    <2>2. ASSUME NEW a, thread[t].todo = <<a>> PROVE rest = <<>>
      BY <1>2, <2>2, TupleParts
    <2>3. ASSUME NEW a, thread[t].todo = <<a, "load">> PROVE rest = <<"load">>
      BY <1>2, <2>3, TupleParts
    <2> QED BY <2>1, <2>2, <2>3
  <1>5. rest # <<"refund", "load", "load">>
    BY <1>4, TupleParts
  <1>6. ThreadTypes'
    BY <1>1, <1>2, <1>3, <1>4, <1>5, ThreadTurn
  <1>7. Covered'
    BY <1>1 DEF Covered
  <1> QED BY <1>6, <1>7 DEF ThreadsInv

LEMMA ThreadsInitInv == OrderInit => ThreadsInv
  <1> SUFFICES ASSUME OrderInit PROVE ThreadsInv
    OBVIOUS
  <1>1. /\ NoFunction.todo = <<>> /\ IsFunction(NoFunction)
        /\ <<>> \notin {<<"refund", "load", "load">>, <<"cancel", "refund", "load", "load">>}
    BY TupleParts DEF NoFunction, IsFunction
  <1>2. ThreadTypes
    BY <1>1 DEF OrderInit, ThreadTypes, Blank, IsPage, Ending
  <1>3. Covered
    BY DEF OrderInit, Covered, Blank
  <1> QED BY <1>2, <1>3 DEF ThreadsInv

LEMMA ThreadsStep == ThreadsInv /\ [OrderNext]_orderVars => ThreadsInv'
  <1> SUFFICES ASSUME ThreadsInv, [OrderNext]_orderVars PROVE ThreadsInv'
    OBVIOUS
  <1>1. CASE UNCHANGED <<page, thread, acts, met, lost>>
    BY <1>1
    DEF ThreadsInv, ThreadTypes, Covered, SomeoneOwes, Gathered, Doing, IsLoading
  <1>2. UNCHANGED orderVars \/ OthersAct => UNCHANGED <<page, thread, acts, met, lost>>
    BY DEF orderVars, OthersAct
  <1>3. ASSUME NEW t \in Threads, Open(t) \/ Accepted(t) \/ Refused(t) PROVE ThreadsInv'
    BY <1>3, OpenCovered, AcceptedCovered, RefusedCovered
  <1>4. ASSUME NEW t \in Threads, ReadRequest(t) \/ ShowRequest(t) \/ ReadMoney(t) \/ ShowMoney(t) \/ LoadFails(t)
        PROVE  ThreadsInv'
    BY <1>4, ReadRequestCovered, ShowRequestCovered, ReadMoneyCovered, ShowMoneyCovered,
       LoadFailsCovered
  <1>5. ASSUME NEW t \in Threads, NEW op \in Operations \union {"cancelAndRefund"},
               NEW p \in Sellers, Click(t, op, p)
        PROVE  ThreadsInv'
    BY <1>5, ClickCovered
  <1> QED BY <1>1, <1>2, <1>3, <1>4, <1>5 DEF OrderNext

\* What the page did itself it also shows once it rests: each handler loads the page
\* after the API has accepted, or the handler that comes later does (the handlers of
\* OrderDetailsPage and JobProtectionPanel with loadDetails; two loads at once are the
\* exception the property names).
THEOREM PageShowsItsActs == OrderSpec => []ActedIsShown
  <1>1. OrderSpec => []ThreadsInv
    BY ThreadsInitInv, ThreadsStep, PTL DEF OrderSpec
  <1>2. ThreadsInv => ActedIsShown
    <2> SUFFICES ASSUME ThreadsInv, AtRest, page.open, ~met, ~lost PROVE page.seen = acts
      BY DEF ActedIsShown
    <2>1. \A t \in Threads : thread[t].todo = <<>>
      BY DEF AtRest
    <2>2. <<>> \notin Owing
      BY TupleParts DEF Owing
    <2> QED BY <2>1, <2>2 DEF ThreadsInv, Covered, SomeoneOwes, Gathered, Doing
  <1> QED BY <1>1, <1>2, PTL

-----------------------------------------------------------------------------
(* The suggested workers.                                                   *)

IsSearch(s) == s = [for |-> s.for, copy |-> s.copy, active |-> s.active]

SuggestionsInv ==
    /\ wanted.place \in Places \union {Nowhere}
    /\ \A s \in search : IsSearch(s) /\ (s.active => s.for = wanted /\ wanted.open)
    /\ SuggestionsFit

LEMMA ProximityIsNatural ==
    ASSUME NEW a \in Places \union {Nowhere}, NEW b \in Places \union {Nowhere}
    PROVE  Proximity(a, b) \in Nat
  <1> DEFINE shared == Cardinality(Words(a) \intersect Words(b))
  <1>1. CASE a = Nowhere \/ b = Nowhere
    BY <1>1 DEF Proximity
  <1>2. CASE ~(a = Nowhere \/ b = Nowhere)
    <2>1. IsFiniteSet(Words(a))
      BY <1>2, PlacesAssumption
    <2>2. IsFiniteSet(Words(a) \intersect Words(b))
      BY <2>1, FS_Subset
    <2>3. shared \in Nat
      BY <2>2, FS_CardinalityType
    <2>4. Proximity(a, b) \in {0, 2, 3, 4, shared}
      BY <1>2 DEF Proximity
    <2> QED BY <2>3, <2>4
  <1> QED BY <1>1, <1>2

LEMMA PoolPlaces ==
    ASSUME NEW pool \in Pools, NEW w \in pool
    PROVE  w.place \in Places \union {Nowhere}
  <1>1. PICK some \in SUBSET Workers : \E f \in [some -> Candidates] :
            pool = {[who |-> x, place |-> f[x].place, rating |-> f[x].rating, fits |-> f[x].fits] : x \in some}
    BY DEF Pools
  <1>2. PICK f \in [some -> Candidates] :
            pool = {[who |-> x, place |-> f[x].place, rating |-> f[x].rating, fits |-> f[x].fits] : x \in some}
    BY <1>1
  <1>3. PICK x \in some : w = [who |-> x, place |-> f[x].place, rating |-> f[x].rating, fits |-> f[x].fits]
    BY <1>2
  <1>4. f[x] \in Candidates /\ w.place = f[x].place
    BY <1>3
  <1> QED BY <1>4 DEF Candidates

\* The candidates of a request, taken from those that fit it if there are any.
LEMMA EligibleOnes ==
    ASSUME NEW request, NEW pool, NEW candidates,
           candidates = IF \E w \in pool : w.fits THEN {w \in pool : w.fits} ELSE pool
    PROVE  Eligible(request, candidates) =
               {w \in pool : w.who \notin request.proposed /\ (w.fits \/ \A v \in pool : ~v.fits)}
  <1>1. CASE \E w \in pool : w.fits
    <2>1. candidates = {w \in pool : w.fits}
      BY <1>1
    <2>2. {w \in candidates : w.fits} = candidates /\ candidates # {}
      BY <1>1, <2>1
    <2>3. Eligible(request, candidates) = {w \in candidates : w.who \notin request.proposed}
      BY <2>2 DEF Eligible
    <2> QED BY <1>1, <2>1, <2>3
  <1>2. CASE ~\E w \in pool : w.fits
    <2>1. candidates = pool
      BY <1>2
    <2>2. {w \in candidates : w.fits} = {}
      BY <1>2, <2>1
    <2>3. Eligible(request, candidates) = {w \in candidates : w.who \notin request.proposed}
      BY <2>2 DEF Eligible
    <2> QED BY <1>2, <2>1, <2>3
  <1> QED BY <1>1, <1>2

\* Whoever the stage leaves out is farther away than whoever is in it.
LEMMA StageIsNearest ==
    ASSUME NEW request, request.place \in Places \union {Nowhere},
           NEW eligible, \A w \in eligible : w.place \in Places \union {Nowhere},
           NEW w \in Stage(request, eligible), NEW v \in eligible \ Stage(request, eligible)
    PROVE  Proximity(request.place, v.place) <= Proximity(request.place, w.place)
  <1> DEFINE near(x) == Proximity(request.place, x.place)
             within(n) == {x \in eligible : near(x) >= n}
  <1>1. \A x \in eligible : near(x) \in Nat
    BY ProximityIsNatural
  <1>2. PICK n \in {2, 3} : Stage(request, eligible) = within(n)
    BY DEF Stage
  <1>3. w \in eligible /\ near(w) >= n /\ ~(near(v) >= n)
    BY <1>2
  <1>4. near(w) \in Nat /\ near(v) \in Nat
    BY <1>1, <1>3
  <1> HIDE DEF near
  <1>5. near(v) <= near(w)
    BY <1>3, <1>4
  <1> QED BY <1>5 DEF near

\* The suggestions for a request fit it.
LEMMA SuggestedFit ==
    ASSUME NEW request, request.place \in Places \union {Nowhere}, NEW pool \in Pools,
           NEW some \in Suggested(request, IF \E w \in pool : w.fits
                                           THEN {w \in pool : w.fits} ELSE pool),
           NEW w \in some
    PROVE  /\ w.who \notin request.proposed
           /\ w.fits \/ \A v \in pool : ~v.fits
           /\ \A v \in pool \ some :
                 v.who \notin request.proposed /\ (v.fits \/ \A x \in pool : ~x.fits)
                     => Proximity(request.place, v.place) <= Proximity(request.place, w.place)
  <1>1. PICK eligible : eligible = {x \in pool : x.who \notin request.proposed
                                                  /\ (x.fits \/ \A v \in pool : ~v.fits)}
    OBVIOUS
  <1>2. PICK candidates : candidates = IF \E x \in pool : x.fits THEN {x \in pool : x.fits} ELSE pool
    OBVIOUS
  <1>3. Eligible(request, candidates) = eligible
    BY <1>1, <1>2, EligibleOnes
  <1>4. PICK stage : stage = Stage(request, eligible)
    OBVIOUS
  <1>5. stage \subseteq eligible
    BY <1>4 DEF Stage
  <1>6. some \in Suggested(request, candidates)
    BY <1>2
  <1>7. some \in SUBSET stage /\ \A v \in stage \ some, x \in some : ~Before(request, v, x)
    BY <1>3, <1>4, <1>6 DEF Suggested
  <1>8. w \in stage /\ w \in eligible
    BY <1>5, <1>7
  <1>9. \A x \in eligible : x.place \in Places \union {Nowhere}
    BY <1>1, PoolPlaces
  <1>10. ASSUME NEW v \in eligible \ some
         PROVE  Proximity(request.place, v.place) <= Proximity(request.place, w.place)
    <2>1. CASE v \in stage
      <3>1. ~(Proximity(request.place, v.place) > Proximity(request.place, w.place))
        BY <1>7, <2>1 DEF Before
      <3>2. PICK m, n \in Nat : /\ m = Proximity(request.place, v.place)
                                /\ n = Proximity(request.place, w.place)
        BY <1>8, <1>9, ProximityIsNatural
      <3>3. ~(m > n) => m <= n
        OBVIOUS
      <3> QED BY <3>1, <3>2, <3>3
    <2>2. CASE v \notin stage
      BY <1>4, <1>8, <1>9, <2>2, StageIsNearest
    <2> QED BY <2>1, <2>2
  <1> QED BY <1>1, <1>8, <1>10

\* The searches of earlier copies are turned off.
LEMMA TurnedOff ==
    ASSUME NEW s, IsSearch(s)
    PROVE  IsSearch([s EXCEPT !.active = FALSE]) /\ ~[s EXCEPT !.active = FALSE].active
  <1>1. PICK for, copy, active, b : /\ s = [for |-> for, copy |-> copy, active |-> active]
                                    /\ b = FALSE
    BY DEF IsSearch
  <1>2. PICK off : off = [s EXCEPT !.active = b]
    OBVIOUS
  <1>3. off = [for |-> for, copy |-> copy, active |-> b]
    BY <1>1, <1>2
  <1>4. off.for = for /\ off.copy = copy /\ off.active = b
    BY <1>3
  <1>5. IsSearch(off) /\ ~off.active
    BY <1>1, <1>3, <1>4 DEF IsSearch
  <1>6. off = [s EXCEPT !.active = FALSE]
    BY <1>1, <1>2
  <1> QED BY <1>5, <1>6

LEMMA NobodyFits == ASSUME shown = Nobody PROVE SuggestionsFit
  BY DEF Nobody, SuggestionsFit

LEMMA ShowCopyInv ==
    ASSUME SuggestionsInv, NEW place \in Places \union {Nowhere}, NEW proposed, NEW open \in BOOLEAN,
           ShowCopy(place, proposed, open)
    PROVE  SuggestionsInv'
  <1>1. PICK old : old = {[s EXCEPT !.active = FALSE] : s \in search}
    OBVIOUS
  <1>2. \A s \in old : IsSearch(s) /\ ~s.active
    BY <1>1, TurnedOff DEF SuggestionsInv
  <1>3. wanted' = [place |-> place, proposed |-> proposed, open |-> open]
    BY DEF ShowCopy
  <1>4. wanted'.place \in Places \union {Nowhere} /\ (wanted'.open <=> open)
    BY <1>3
  <1>5. CASE open
    <2>1. PICK new : new = [for |-> wanted', copy |-> copies', active |-> TRUE]
      OBVIOUS
    <2>2. search' = old \union {new}
      BY <1>1, <1>5, <2>1 DEF ShowCopy
    <2>3. IsSearch(new) /\ new.active /\ new.for = wanted'
      <3>1. new.active /\ new.for = wanted' /\ new.copy = copies'
        BY <2>1
      <3>2. IsSearch(new)
        BY <2>1 DEF IsSearch
      <3> QED BY <3>1, <3>2
    <2>4. \A s \in search' : IsSearch(s) /\ (s.active => s.for = wanted' /\ wanted'.open)
      BY <1>2, <1>4, <1>5, <2>2, <2>3
    <2>5. SuggestionsFit'
      BY <2>2, <2>3 DEF SuggestionsFit
    <2> QED BY <1>4, <2>4, <2>5 DEF SuggestionsInv
  <1>6. CASE ~open
    <2>1. search' = old /\ shown' = Nobody
      BY <1>1, <1>6 DEF ShowCopy
    <2>2. SuggestionsFit'
      BY <2>1 DEF Nobody, SuggestionsFit
    <2> QED BY <1>2, <1>4, <2>1, <2>2 DEF SuggestionsInv
  <1> QED BY <1>5, <1>6

LEMMA AnsweredInv == ASSUME SuggestionsInv, NEW s \in search, Answered(s) PROVE SuggestionsInv'
  <1>1. search' = search \ {s} /\ wanted' = wanted
    BY DEF Answered
  <1>2. CASE s.active
    <2>1. s.for = wanted /\ wanted.open /\ wanted.place \in Places \union {Nowhere}
      BY <1>2 DEF SuggestionsInv
    <2>2. PICK pool \in Pools :
              \E some \in Suggested(wanted, IF \E w \in pool : w.fits
                                             THEN {w \in pool : w.fits} ELSE pool) :
                  shown' = [some |-> some, of |-> pool]
      BY <1>2, <2>1 DEF Answered, IsWanted
    <2>3. PICK some \in Suggested(wanted, IF \E w \in pool : w.fits
                                          THEN {w \in pool : w.fits} ELSE pool) :
              shown' = [some |-> some, of |-> pool]
      BY <2>2
    <2>4. shown'.some = some /\ shown'.of = pool
      BY <2>3
    <2>5. \A w \in some :
             /\ w.who \notin wanted.proposed
             /\ w.fits \/ \A v \in pool : ~v.fits
             /\ \A v \in pool \ some :
                   v.who \notin wanted.proposed /\ (v.fits \/ \A x \in pool : ~x.fits)
                       => Proximity(wanted.place, v.place) <= Proximity(wanted.place, w.place)
      BY <2>1, SuggestedFit
    <2>6. SuggestionsFit'
      BY <1>1, <2>1, <2>4, <2>5 DEF SuggestionsFit
    <2> QED BY <1>1, <2>6 DEF SuggestionsInv
  <1>3. CASE ~s.active
    <2>1. shown' = shown
      BY <1>3 DEF Answered, IsWanted
    <2>2. SuggestionsFit'
      BY <1>1, <1>3, <2>1 DEF SuggestionsFit, SuggestionsInv
    <2> QED BY <1>1, <2>2 DEF SuggestionsInv
  <1> QED BY <1>2, <1>3

LEMMA FailsInv == ASSUME SuggestionsInv, NEW s \in search, Fails(s) PROVE SuggestionsInv'
  <1>1. search' = search \ {s} /\ wanted' = wanted
    BY DEF Fails
  <1>2. SuggestionsFit'
    <2>1. CASE s.active
      BY <2>1 DEF Fails, IsWanted, SuggestionsFit, Nobody
    <2>2. CASE ~s.active
      BY <1>1, <2>2 DEF Fails, IsWanted, SuggestionsFit, SuggestionsInv
    <2> QED BY <2>1, <2>2
  <1> QED BY <1>1, <1>2 DEF SuggestionsInv

LEMMA SuggestionsStep == SuggestionsInv /\ [SuggestionsNext]_suggestionVars => SuggestionsInv'
  <1> SUFFICES ASSUME SuggestionsInv, [SuggestionsNext]_suggestionVars PROVE SuggestionsInv'
    OBVIOUS
  <1>1. CASE UNCHANGED suggestionVars
    BY <1>1 DEF suggestionVars, SuggestionsInv, SuggestionsFit
  <1>2. ASSUME NEW place \in Places \union {Nowhere}, NEW proposed \in SUBSET Workers,
               NEW open \in BOOLEAN, ShowCopy(place, proposed, open)
        PROVE  SuggestionsInv'
    BY <1>2, ShowCopyInv
  <1>3. ASSUME NEW s \in search, Answered(s) \/ Fails(s) PROVE SuggestionsInv'
    BY <1>3, AnsweredInv, FailsInv
  <1> QED BY <1>1, <1>2, <1>3 DEF SuggestionsNext

LEMMA SuggestionsInitInv == SuggestionsInit => SuggestionsInv
  BY DEF SuggestionsInit, SuggestionsInv, SuggestionsFit, Nobody

\* However late the answers come, the suggested workers are for the request on the
\* page: none who has proposed, none outside the category while it has one, none
\* farther away than one left out (the flag `active` of loadRecommendedWorkers, and
\* the sort and the cut of buildRequestWorkerRecommendations).
THEOREM SuggestionsAreForTheRequest == SuggestionsSpec => []SuggestionsFit
  <1>1. SuggestionsSpec => []SuggestionsInv
    BY SuggestionsInitInv, SuggestionsStep, PTL DEF SuggestionsSpec
  <1>2. SuggestionsInv => SuggestionsFit
    BY DEF SuggestionsInv
  <1> QED BY <1>1, <1>2, PTL

-----------------------------------------------------------------------------
(* The page of the provider's requests.                                     *)

Request    == [proposed : BOOLEAN]
Invitation == [status : {"SENT", "ACCEPTED", "DECLINED", "EXPIRED"}, open : BOOLEAN]
Box == [requests : SUBSET Request, invitations : SUBSET Invitation,
        status : Statuses \union {"none"}]
Function == [todo : {"nothing", "read", "submit", "decline"}, left : SUBSET Lists,
             got : Box, first : BOOLEAN]
Demand == [request : {"none", "OPEN", "OVERDUE", "EXPIRED", "CLOSED"},
           invited : {"none", "SENT", "ACCEPTED", "DECLINED", "EXPIRED"},
           offer : {"none", "SUBMITTED", "SELECTED", "REJECTED"}]

InboxTypes ==
    /\ traits \in Traits /\ demand \in Demand /\ status \in Statuses
    /\ inbox \in Box /\ tab \in [Tabs -> Function]

Waits(d) == d.request \in {"OPEN", "OVERDUE"} /\ d.offer = "none"

\* What a list says of a request that waits, and of one that is not published.
Tells(b) == (\A q \in b.requests : ~q.proposed) /\ (\A i \in b.invitations : i.open)
HasNothing(b) == b.requests = {} /\ b.invitations = {}

ListsTell ==
    Waits(demand) => Tells(inbox) /\ \A t \in Tabs : Tells(tab[t].got)

NothingYet ==
    demand.request = "none" =>
        /\ demand.invited = "none" /\ demand.offer = "none" /\ HasNothing(inbox)
        /\ \A t \in Tabs : HasNothing(tab[t].got) /\ tab[t].todo \in {"nothing", "read"}

InboxInv == InboxTypes /\ ListsTell /\ NothingYet

\* A request no longer waits once it was answered, chosen from or closed.
LEMMA StillWaited ==
    ASSUME demand \in Demand
    PROVE  /\ Swept(demand) \in Demand
           /\ Waits(Swept(demand)) => Waits(demand) /\ Swept(demand).request = "OPEN"
           /\ demand.request = "none" => Swept(demand) = demand
           /\ Swept(demand).request = "none" => demand.request = "none"
  <1>1. CASE demand.request = "OVERDUE"
    <2>1. Swept(demand).request = "EXPIRED"
      BY <1>1 DEF Swept, Demand
    <2>2. Swept(demand) \in Demand
      BY <1>1 DEF Swept, Demand
    <2> QED BY <1>1, <2>1, <2>2 DEF Waits
  <1>2. CASE demand.request # "OVERDUE"
    BY <1>2 DEF Swept, Waits
  <1> QED BY <1>1, <1>2

\* One function of the page goes on; the page shows what it did or something that
\* tells as much.
LEMMA InboxTurn ==
    ASSUME InboxInv, NEW t \in Tabs, NEW f \in Function, tab' = [tab EXCEPT ![t] = f],
           demand' \in Demand, Waits(demand') => Waits(demand),
           UNCHANGED <<traits, status>>, inbox' \in Box,
           Waits(demand') => Tells(inbox') /\ Tells(f.got),
           demand'.request = "none" =>
               /\ demand.request = "none" /\ demand' = demand
               /\ HasNothing(inbox') /\ HasNothing(f.got) /\ f.todo \in {"nothing", "read"}
    PROVE  InboxInv'
  <1>1. InboxTypes'
    BY DEF InboxInv, InboxTypes
  <1>2. tab'[t] = f /\ \A u \in Tabs \ {t} : tab'[u] = tab[u]
    BY DEF InboxInv, InboxTypes
  <1>3. ListsTell'
    BY <1>2 DEF InboxInv, ListsTell
  <1>4. NothingYet'
    BY <1>2 DEF InboxInv, NothingYet
  <1> QED BY <1>1, <1>3, <1>4 DEF InboxInv

LEMMA EmptyIsBox == Empty \in Box /\ Tells(Empty) /\ HasNothing(Empty)
  BY DEF Empty, Box, Tells, HasNothing

LEMMA AsleepIsFunction ==
    Asleep \in Function /\ Asleep.todo = "nothing" /\ Tells(Asleep.got) /\ HasNothing(Asleep.got)
  BY EmptyIsBox DEF Asleep, Function

LEMMA ReadingIsFunction ==
    ASSUME NEW first \in BOOLEAN
    PROVE  /\ Reading(first) \in Function /\ Reading(first).todo = "read"
           /\ Tells(Reading(first).got) /\ HasNothing(Reading(first).got)
  <1>1. Reading(first).got = Empty
    BY DEF Reading, Asleep
  <1>2. Reading(first) \in Function /\ Reading(first).todo = "read"
    BY EmptyIsBox DEF Reading, Asleep, Function
  <1> QED BY <1>1, <1>2, EmptyIsBox

LEMMA OpenPageInv == ASSUME InboxInv, NEW t \in Tabs, OpenPage(t) PROVE InboxInv'
  <1>1. /\ tab' = [tab EXCEPT ![t] = Reading(TRUE)] /\ inbox' = Empty
        /\ UNCHANGED <<traits, demand, status>>
    BY DEF OpenPage
  <1> QED BY <1>1, EmptyIsBox, ReadingIsFunction, InboxTurn DEF InboxInv, InboxTypes

\* A load takes an answer that tells of the request what there is to tell.
LEMMA TakesInv ==
    ASSUME InboxInv, NEW t \in Tabs, NEW list \in Lists, NEW g \in Box, Takes(t, list, g),
           demand' \in {demand, Swept(demand)},
           Waits(demand') /\ Tells(tab[t].got) => Tells(g),
           demand.request = "none" /\ HasNothing(tab[t].got) => HasNothing(g)
    PROVE  InboxInv'
  <1>1. PICK f : f = [tab[t] EXCEPT !.left = @ \ {list}, !.got = g]
    OBVIOUS
  <1>2. tab[t] \in Function /\ tab[t].todo = "read"
    BY DEF Takes, InboxInv, InboxTypes
  <1>3. f \in Function /\ f.todo = "read" /\ f.got = g
    BY <1>1, <1>2 DEF Function
  <1>4. tab' = [tab EXCEPT ![t] = f] /\ UNCHANGED <<traits, status, inbox>>
    BY <1>1 DEF Takes
  <1>5. /\ demand' \in Demand /\ (Waits(demand') => Waits(demand))
        /\ (demand.request = "none" => demand' = demand)
        /\ (demand'.request = "none" => demand.request = "none")
    BY StillWaited DEF InboxInv, InboxTypes
  <1>6. Waits(demand') => Tells(inbox') /\ Tells(f.got)
    BY <1>3, <1>4, <1>5 DEF InboxInv, ListsTell
  <1>7. demand'.request = "none" =>
            /\ demand.request = "none" /\ demand' = demand
            /\ HasNothing(inbox') /\ HasNothing(f.got) /\ f.todo \in {"nothing", "read"}
    BY <1>3, <1>4, <1>5 DEF InboxInv, NothingYet
  <1>8. inbox' \in Box
    BY <1>4 DEF InboxInv, InboxTypes
  <1> QED BY <1>3, <1>4, <1>5, <1>6, <1>7, <1>8, InboxTurn

LEMMA ReadRequestsInv == ASSUME InboxInv, NEW t \in Tabs, ReadRequests(t) PROVE InboxInv'
  <1>1. demand \in Demand /\ tab[t].got \in Box
    BY DEF InboxInv, InboxTypes, Function
  <1>2. PICK d : d = Swept(demand)
    OBVIOUS
  <1>3. PICK some \in RequestsRead(d) : Takes(t, "requests", [tab[t].got EXCEPT !.requests = some])
    BY <1>2 DEF ReadRequests
  <1>4. PICK g : g = [tab[t].got EXCEPT !.requests = some]
    OBVIOUS
  <1>5. PICK b \in BOOLEAN : b <=> (d.offer # "none")
    OBVIOUS
  <1>6. some \in SUBSET Request /\ \A q \in some : q.proposed = b /\ d.request = "OPEN"
    BY <1>3, <1>5 DEF RequestsRead, Request
  <1>7. g \in Box /\ g.requests = some /\ g.invitations = tab[t].got.invitations
    BY <1>1, <1>4, <1>6 DEF Box
  <1>8. demand' = d
    BY <1>2 DEF ReadRequests
  <1>9. Waits(demand') /\ Tells(tab[t].got) => Tells(g)
    BY <1>5, <1>6, <1>7, <1>8 DEF Waits, Tells
  <1>10. demand.request = "none" /\ HasNothing(tab[t].got) => HasNothing(g)
    <2>1. demand.request = "none" => d.request = "none"
      BY <1>1, <1>2, StillWaited
    <2> QED BY <1>6, <1>7, <2>1 DEF HasNothing
  <1> QED BY <1>2, <1>3, <1>4, <1>7, <1>8, <1>9, <1>10, TakesInv DEF Lists

LEMMA ReadInvitationsInv == ASSUME InboxInv, NEW t \in Tabs, ReadInvitations(t) PROVE InboxInv'
  <1>1. demand \in Demand /\ tab[t].got \in Box
    BY DEF InboxInv, InboxTypes, Function
  <1>2. PICK d : d = Swept(demand)
    OBVIOUS
  <1>3. PICK some : some = InvitationsRead(d)
    OBVIOUS
  <1>4. PICK g : g = [tab[t].got EXCEPT !.invitations = some]
    OBVIOUS
  <1>5. PICK b \in BOOLEAN : b <=> d.request = "OPEN"
    OBVIOUS
  <1>6. d \in Demand
    BY <1>1, <1>2, StillWaited
  <1>7. /\ some \in SUBSET Invitation
        /\ \A i \in some : i.open = b
        /\ d.invited = "none" => some = {}
    BY <1>3, <1>5, <1>6 DEF InvitationsRead, Invitation, Demand
  <1>8. g \in Box /\ g.invitations = some /\ g.requests = tab[t].got.requests
    BY <1>1, <1>4, <1>7 DEF Box
  <1>9. demand' = d /\ Takes(t, "invitations", g)
    BY <1>2, <1>3, <1>4 DEF ReadInvitations
  <1>10. Waits(demand') /\ Tells(tab[t].got) => Tells(g)
    <2>1. Waits(d) => d.request = "OPEN"
      BY <1>1, <1>2, StillWaited
    <2> QED BY <1>5, <1>7, <1>8, <1>9, <2>1 DEF Tells
  <1>11. demand.request = "none" /\ HasNothing(tab[t].got) => HasNothing(g)
    <2>1. demand.request = "none" => d = demand /\ demand.invited = "none"
      BY <1>1, <1>2, StillWaited DEF InboxInv, NothingYet
    <2> QED BY <1>7, <1>8, <2>1 DEF HasNothing
  <1> QED BY <1>2, <1>8, <1>9, <1>10, <1>11, TakesInv DEF Lists

LEMMA ReadProfileInv == ASSUME InboxInv, NEW t \in Tabs, ReadProfile(t) PROVE InboxInv'
  <1>1. tab[t].got \in Box /\ status \in Statuses
    BY DEF InboxInv, InboxTypes, Function
  <1>2. PICK g : g = [tab[t].got EXCEPT !.status = status]
    OBVIOUS
  <1>3. /\ g \in Box /\ g.requests = tab[t].got.requests
        /\ g.invitations = tab[t].got.invitations
    BY <1>1, <1>2 DEF Box
  <1>4. demand' = demand /\ Takes(t, "profile", g)
    BY <1>2 DEF ReadProfile
  <1> QED BY <1>3, <1>4, TakesInv DEF Lists, Tells, HasNothing

LEMMA ShowInv == ASSUME InboxInv, NEW t \in Tabs, Show(t) PROVE InboxInv'
  <1>1. /\ inbox' = tab[t].got /\ tab[t].got \in Box
        /\ tab' = [tab EXCEPT ![t] = Asleep] /\ UNCHANGED <<traits, demand, status>>
    BY DEF Show, InboxInv, InboxTypes, Function
  <1>2. Waits(demand') => Tells(inbox')
    BY <1>1 DEF InboxInv, ListsTell
  <1>3. demand.request = "none" => HasNothing(inbox')
    BY <1>1 DEF InboxInv, NothingYet
  <1> QED BY <1>1, <1>2, <1>3, AsleepIsFunction, InboxTurn DEF InboxInv, InboxTypes

LEMMA ReadFailsInv == ASSUME InboxInv, NEW t \in Tabs, ReadFails(t) PROVE InboxInv'
  <1>1. /\ inbox' \in {Empty, inbox} /\ tab' = [tab EXCEPT ![t] = Asleep]
        /\ UNCHANGED <<traits, demand, status>>
    BY DEF ReadFails
  <1>2. inbox' \in Box
    BY <1>1, EmptyIsBox DEF InboxInv, InboxTypes
  <1>3. Waits(demand') => Tells(inbox')
    BY <1>1, EmptyIsBox DEF InboxInv, ListsTell
  <1>4. demand.request = "none" => HasNothing(inbox')
    BY <1>1, EmptyIsBox DEF InboxInv, NothingYet
  <1> QED BY <1>1, <1>2, <1>3, <1>4, AsleepIsFunction, InboxTurn DEF InboxInv, InboxTypes

\* A function can only be started for a request that a list has.
LEMMA PressInv ==
    ASSUME InboxInv, NEW t \in Tabs, NEW act \in {"submit", "decline"}, Press(t, act)
    PROVE  InboxInv'
  <1>1. PICK f : f = [tab[t] EXCEPT !.todo = act]
    OBVIOUS
  <1>2. f \in Function /\ f.todo = act /\ f.got = tab[t].got
    BY <1>1 DEF InboxInv, InboxTypes, Function
  <1>3. tab' = [tab EXCEPT ![t] = f] /\ UNCHANGED <<traits, demand, status, inbox>>
    BY <1>1 DEF Press
  <1>4. ~HasNothing(inbox)
    BY DEF Press, OffersProposal, OffersDecline, InMarket, ProposeByInvitation, Listed, HasNothing
  <1>5. demand.request # "none"
    BY <1>4 DEF InboxInv, NothingYet
  <1>6. Waits(demand) => Tells(inbox) /\ Tells(f.got)
    BY <1>2 DEF InboxInv, ListsTell
  <1> QED BY <1>2, <1>3, <1>5, <1>6, InboxTurn DEF InboxInv, InboxTypes

\* A handler ends, or goes on with a load.
LEMMA HandlerInv ==
    ASSUME InboxInv, NEW t \in Tabs, tab[t].todo \in {"submit", "decline"},
           NEW f \in {Asleep, Reading(FALSE)}, tab' = [tab EXCEPT ![t] = f],
           demand' \in Demand, Waits(demand') => Waits(demand), UNCHANGED <<traits, status, inbox>>,
           demand'.request = "none" => demand.request = "none"
    PROVE  InboxInv'
  <1>1. demand.request # "none"
    BY DEF InboxInv, NothingYet
  <1>2. f \in Function /\ Tells(f.got)
    BY AsleepIsFunction, ReadingIsFunction
  <1>3. Waits(demand') => Tells(inbox')
    BY DEF InboxInv, ListsTell
  <1>4. inbox' \in Box
    BY DEF InboxInv, InboxTypes
  <1> QED BY <1>1, <1>2, <1>3, <1>4, InboxTurn

LEMMA SubmitProposalInv ==
    ASSUME InboxInv, NEW t \in Tabs, SubmitProposal(t)
    PROVE  InboxInv'
  <1>1. PICK f \in {Asleep, Reading(FALSE)} : tab' = [tab EXCEPT ![t] = f]
    BY DEF SubmitProposal
  <1>2. /\ demand' \in Demand /\ (Waits(demand') => Waits(demand))
        /\ (demand'.request = "none" => demand.request = "none")
    <2>1. CASE MayPropose(demand)
      BY <2>1 DEF SubmitProposal, Demand, Waits, InboxInv, InboxTypes
    <2>2. CASE ~MayPropose(demand)
      BY <2>2, StillWaited DEF SubmitProposal, InboxInv, InboxTypes
    <2> QED BY <2>1, <2>2
  <1>3. tab[t].todo = "submit" /\ UNCHANGED <<traits, status, inbox>>
    BY DEF SubmitProposal
  <1> QED BY <1>1, <1>2, <1>3, HandlerInv

LEMMA DeclineInvitationInv ==
    ASSUME InboxInv, NEW t \in Tabs, DeclineInvitation(t)
    PROVE  InboxInv'
  <1>1. PICK f \in {Asleep, Reading(FALSE)} : tab' = [tab EXCEPT ![t] = f]
    BY DEF DeclineInvitation
  <1>2. /\ demand' \in Demand /\ (Waits(demand') => Waits(demand))
        /\ (demand'.request = "none" => demand.request = "none")
    <2>1. demand \in Demand /\ Swept(demand) \in Demand
      BY StillWaited DEF InboxInv, InboxTypes
    <2>2. PICK s : s = Swept(demand)
      OBVIOUS
    <2>3. /\ [s EXCEPT !.invited = "EXPIRED"] \in Demand
          /\ Waits([s EXCEPT !.invited = "EXPIRED"]) => Waits(s)
          /\ [s EXCEPT !.invited = "EXPIRED"].request = s.request
      BY <2>1, <2>2 DEF Demand, Waits
    <2>4. /\ [demand EXCEPT !.invited = "DECLINED"] \in Demand
          /\ Waits([demand EXCEPT !.invited = "DECLINED"]) => Waits(demand)
          /\ [demand EXCEPT !.invited = "DECLINED"].request = demand.request
      BY <2>1 DEF Demand, Waits
    <2>5. (Waits(s) => Waits(demand)) /\ (s.request = "none" => demand.request = "none")
      BY <2>1, <2>2, StillWaited
    <2>6. demand' \in {demand, [demand EXCEPT !.invited = "DECLINED"], [s EXCEPT !.invited = "EXPIRED"]}
      BY <2>2 DEF DeclineInvitation
    <2> QED BY <2>1, <2>3, <2>4, <2>5, <2>6
  <1>3. tab[t].todo = "decline" /\ UNCHANGED <<traits, status, inbox>>
    BY DEF DeclineInvitation
  <1> QED BY <1>1, <1>2, <1>3, HandlerInv

\* Only the request, or the provider's status, changes.
LEMMA InboxAside ==
    ASSUME InboxInv, demand' \in Demand, Waits(demand') => Waits(demand),
           demand'.request = "none" => demand' = demand,
           status' \in Statuses, UNCHANGED <<traits, inbox, tab>>
    PROVE  InboxInv'
  <1>1. InboxTypes'
    BY DEF InboxInv, InboxTypes
  <1>2. ListsTell' /\ NothingYet'
    BY DEF InboxInv, ListsTell, NothingYet
  <1> QED BY <1>1, <1>2 DEF InboxInv

LEMMA ElsewhereInv == InboxInv /\ Elsewhere => InboxInv'
  <1> SUFFICES ASSUME InboxInv, Elsewhere PROVE InboxInv'
    OBVIOUS
  <1>1. demand \in Demand /\ status \in Statuses /\ UNCHANGED <<traits, inbox, tab>>
    BY DEF Elsewhere, InboxInv, InboxTypes
  <1>0. CASE demand.request = "none" /\ demand' = [demand EXCEPT !.request = "OPEN"]
             /\ UNCHANGED status
    <2>1. demand' \in Demand /\ demand'.request = "OPEN"
      BY <1>0, <1>1 DEF Demand
    <2>2. InboxTypes'
      BY <1>0, <1>1, <2>1 DEF InboxInv, InboxTypes
    <2>3. ListsTell'
      BY <1>0, <1>1 DEF InboxInv, NothingYet, ListsTell, Tells, HasNothing
    <2>4. NothingYet'
      BY <2>1 DEF NothingYet
    <2> QED BY <2>2, <2>3, <2>4 DEF InboxInv
  <1>2. CASE UNCHANGED demand /\ status' \in Statuses
    BY <1>1, <1>2, InboxAside
  <1>3. CASE demand.request = "OPEN" /\ demand.offer = "none"
             /\ demand' = [demand EXCEPT !.invited = "SENT"] /\ UNCHANGED status
    BY <1>1, <1>3, InboxAside DEF Demand, Waits
  <1>4. CASE demand.request = "OPEN" /\ demand' = [demand EXCEPT !.request = "OVERDUE"] /\ UNCHANGED status
    BY <1>1, <1>4, InboxAside DEF Demand, Waits
  <1>5. CASE demand' = Swept(demand) /\ UNCHANGED status
    BY <1>1, <1>5, InboxAside, StillWaited
  <1>6. ASSUME NEW chosen \in BOOLEAN,
               demand' = [request |-> "CLOSED",
                          invited |-> IF demand.invited = "SENT" THEN "EXPIRED" ELSE demand.invited,
                          offer |-> IF demand.offer = "none" THEN "none"
                                    ELSE IF chosen THEN "SELECTED" ELSE "REJECTED"],
               UNCHANGED status
        PROVE  InboxInv'
    <2>1. demand' \in Demand /\ ~Waits(demand') /\ demand'.request = "CLOSED"
      BY <1>1, <1>6 DEF Demand, Waits
    <2> QED BY <1>1, <1>6, <2>1, InboxAside
  <1> QED BY <1>0, <1>1, <1>2, <1>3, <1>4, <1>5, <1>6 DEF Elsewhere

LEMMA InboxInitInv == InboxInit => InboxInv
  <1> SUFFICES ASSUME InboxInit PROVE InboxInv
    OBVIOUS
  <1>1. InboxTypes
    BY EmptyIsBox, AsleepIsFunction DEF InboxInit, InboxTypes, Demand
  <1>2. ListsTell /\ NothingYet
    BY EmptyIsBox, AsleepIsFunction DEF InboxInit, ListsTell, NothingYet, Waits
  <1> QED BY <1>1, <1>2 DEF InboxInv

LEMMA InboxStep == InboxInv /\ [InboxNext]_inboxVars => InboxInv'
  <1> SUFFICES ASSUME InboxInv, [InboxNext]_inboxVars PROVE InboxInv'
    OBVIOUS
  <1>1. CASE UNCHANGED inboxVars
    BY <1>1, InboxAside DEF inboxVars, InboxInv, InboxTypes
  <1>2. CASE Elsewhere
    BY <1>2, ElsewhereInv
  <1>3. ASSUME NEW t \in Tabs, OpenPage(t) \/ Show(t) \/ ReadFails(t) PROVE InboxInv'
    BY <1>3, OpenPageInv, ShowInv, ReadFailsInv
  <1>4. ASSUME NEW t \in Tabs, SubmitProposal(t) \/ DeclineInvitation(t) PROVE InboxInv'
    BY <1>4, SubmitProposalInv, DeclineInvitationInv
  <1>5. ASSUME NEW t \in Tabs, ReadRequests(t) \/ ReadInvitations(t) \/ ReadProfile(t) PROVE InboxInv'
    BY <1>5, ReadRequestsInv, ReadInvitationsInv, ReadProfileInv
  <1>6. ASSUME NEW t \in Tabs, NEW act \in {"submit", "decline"}, Press(t, act) PROVE InboxInv'
    BY <1>6, PressInv
  <1> QED BY <1>1, <1>2, <1>3, <1>4, <1>5, <1>6 DEF InboxNext

\* A request of the market earns too few points to be urgent for an unavailable provider.
LEMMA UnavailableIsNotUrgent ==
    ASSUME traits \in Traits
    PROVE  Priority("UNAVAILABLE", FALSE) # "high"
  <1>1. traits \in [own : BOOLEAN, category : {-2, 0, 4}, near : 0..4,
                    record : {0, 1, 3, 4}, left : {"day", "days", "later"}]
    BY TraitsAssumption
  <1>2. /\ traits.category \in {-2, 0, 4} /\ traits.near \in 0..4
        /\ traits.record \in {0, 1, 3, 4}
    BY <1>1
  <1>3. AvailabilityFit("UNAVAILABLE") = -4
    BY DEF AvailabilityFit
  <1>4. PICK urgent : urgent = (IF traits.left = "day" THEN 1 ELSE 0)
    OBVIOUS
  <1>5. Score("UNAVAILABLE", FALSE) = traits.category + traits.near + (-4) + traits.record + 0 + urgent
    BY <1>3, <1>4 DEF Score
  <1>6. PICK c, n, r : c = traits.category /\ n = traits.near /\ r = traits.record
    OBVIOUS
  <1>7. c + n + (-4) + r + 0 + urgent < 12
    <2>1. c \in Int /\ c <= 4 /\ n \in Int /\ n <= 4 /\ r \in Int /\ r <= 4
      BY <1>2, <1>6
    <2>2. urgent \in Int /\ urgent <= 1
      BY <1>4
    <2> QED BY <2>1, <2>2
  <1>8. PICK k \in Int : k = c + n + (-4) + r + 0 + urgent
    BY <1>2, <1>4, <1>6
  <1>9. ~(k >= 12)
    BY <1>7, <1>8
  <1>10. Score("UNAVAILABLE", FALSE) = k
    BY <1>5, <1>6, <1>8
  <1> QED BY <1>9, <1>10 DEF Priority

\* However old its lists are, the page offers every request that still waits for the
\* provider and that one of them has (load and reloadRequests read them at once and shows them
\* together; the API sweeps the overdue before each), in one of two places
\* (buildProviderInboxModel), and calls none of the market urgent for who is
\* unavailable (buildRequestFit).
THEOREM InboxOffersEach == InboxSpec => []EachRequestIsOffered
  <1>1. InboxSpec => []InboxInv
    BY InboxInitInv, InboxStep, PTL DEF InboxSpec
  <1>2. InboxInv => EachRequestIsOffered
    <2> SUFFICES ASSUME InboxInv PROVE EachRequestIsOffered
      OBVIOUS
    <2>1. ~(InMarket /\ ProposeByInvitation)
      BY DEF InMarket, ProposeByInvitation, Listed
    <2>2. ASSUME Waits(demand), inbox.requests # {} \/ inbox.invitations # {}
          PROVE  OffersProposal
      <3>1. Tells(inbox)
        BY <2>2 DEF InboxInv, ListsTell
      <3> QED BY <2>2, <3>1 DEF Tells, OffersProposal, InMarket, ProposeByInvitation, Listed
    <2>3. inbox.status = "UNAVAILABLE" => Priority(inbox.status, FALSE) # "high"
      BY UnavailableIsNotUrgent DEF InboxInv, InboxTypes
    <2> QED BY <2>1, <2>2, <2>3 DEF EachRequestIsOffered, Waits
  <1> QED BY <1>1, <1>2, PTL

-----------------------------------------------------------------------------
(* The page of the conversations.                                           *)

\* A load, or a handler's part of one.
Task == [at : {"idle", "thread", "list", "post", "refresh"},
         on : Chats \union {NoChat}, from : SUBSET Chats]

WorkspaceTypes ==
    /\ made \in SUBSET Chats /\ listed \in SUBSET made
    /\ selected \in Chats \union {NoChat} /\ opened \in Chats \union {NoChat}
    /\ load \in Task /\ hand \in [Handlers -> Task]
    /\ overtaken \in BOOLEAN /\ failed \in BOOLEAN

\* As long as there is no list there is nothing; then there is a selection, and a
\* load is for it.
SelectedIsListed ==
    /\ listed = {} => /\ selected = NoChat /\ opened = NoChat /\ load.at # "thread"
                      /\ \A op \in Handlers : hand[op] = Nothing
    /\ listed # {} => selected \in listed
    /\ address \in listed => selected = address

LoadIsSelected ==
    /\ load.at \in {"idle", "thread", "list"} /\ (load.at = "idle" => load = Nothing)
    /\ load.at = "thread" => load.on = selected
    /\ load.at = "list" /\ listed # {} => load.from # {} /\ opened # NoChat

HandIsBusy ==
    \A op \in Handlers :
        hand[op] # Nothing => hand[op].on \in Chats /\ (hand[op].at = "refresh" => hand[op].from # {})

OpenedIsSelected ==
    /\ listed # {} /\ load.at # "thread" /\ ~overtaken =>
           opened \in {NoChat, selected} /\ (notice \in {NoChat, selected} \/ failed)
    /\ listed # {} /\ load = Nothing /\ opened = NoChat => failed

WorkspaceInv ==
    /\ WorkspaceTypes /\ SelectedIsListed /\ LoadIsSelected /\ HandIsBusy /\ OpenedIsSelected

\* Settling on a list selects one of it, the one that the address names if it is
\* there, and begins to load it unless it was selected before.
LEMMA SettledOn ==
    ASSUME WorkspaceInv, NEW list \in SUBSET made', made' \in SUBSET Chats, list # {},
           NEW there, NEW now, NEW left, Settle(list, there, now, left)
    PROVE  /\ listed' = list /\ address' = there /\ selected' \in list
           /\ there \in list => selected' = there
           /\ \/ load' = left /\ selected' = selected
              \/ load' \in Task /\ load'.at = "thread" /\ load'.on = selected'
  <1>1. PICK chosen \in Chosen(list, there, now) :
            /\ listed' = list /\ address' = there /\ selected' = chosen
            /\ \/ chosen = selected /\ load' = left
               \/ load' = [at |-> "thread", on |-> chosen, from |-> {}]
    BY DEF Settle
  <1>2. chosen \in list /\ (there \in list => chosen = there)
    BY DEF Chosen
  <1> QED BY <1>1, <1>2 DEF Task

\* The task of loading the conversation that was just selected.
LEMMA NewLoad ==
    ASSUME WorkspaceTypes, listed' # {}, listed' \in SUBSET made', made' \in SUBSET Chats,
           selected' \in listed', address' \in listed' => selected' = address',
           load' \in Task, load'.at = "thread", load'.on = selected',
           opened' \in Chats \union {NoChat}, overtaken' \in BOOLEAN, failed' \in BOOLEAN,
           hand' \in [Handlers -> Task], HandIsBusy'
    PROVE  WorkspaceInv'
  <1>1. WorkspaceTypes'
    BY DEF WorkspaceTypes
  <1>2. SelectedIsListed'
    BY DEF SelectedIsListed
  <1>3. LoadIsSelected'
    BY DEF LoadIsSelected
  <1>4. OpenedIsSelected'
    BY DEF OpenedIsSelected, Nothing
  <1> QED BY <1>1, <1>2, <1>3, <1>4 DEF WorkspaceInv

LEMMA NothingIsTask == Nothing \in Task
  BY DEF Nothing, Task

LEMMA ListChatsInv == WorkspaceInv /\ ListChats => WorkspaceInv'
  <1> SUFFICES ASSUME WorkspaceInv, ListChats PROVE WorkspaceInv'
    OBVIOUS
  <1> USE DEF ListChats
  <1>1. HandIsBusy' /\ hand' \in [Handlers -> Task]
    BY DEF WorkspaceInv, HandIsBusy, WorkspaceTypes
  <1>2. CASE made # {} /\ Settle(made, address, NoChat, Nothing)
    <2>1. /\ listed' = made /\ address' = address /\ selected' \in made
          /\ address \in made => selected' = address
          /\ \/ load' = Nothing /\ selected' = selected
             \/ load' \in Task /\ load'.at = "thread" /\ load'.on = selected'
      BY <1>2, SettledOn DEF WorkspaceInv, WorkspaceTypes
    <2>2. selected' # selected
      BY <2>1, NoChatAssumption DEF WorkspaceInv, WorkspaceTypes, SelectedIsListed
    <2> QED BY <1>1, <1>2, <2>1, <2>2, NewLoad DEF WorkspaceInv, WorkspaceTypes
  <1>3. CASE load' = Nothing /\ UNCHANGED <<listed, selected, address, late>>
    <2>1. WorkspaceTypes'
      BY <1>1, <1>3, NothingIsTask DEF WorkspaceInv, WorkspaceTypes
    <2>2. SelectedIsListed' /\ LoadIsSelected' /\ OpenedIsSelected'
      BY <1>3 DEF WorkspaceInv, SelectedIsListed, LoadIsSelected, OpenedIsSelected, Nothing
    <2> QED BY <1>1, <2>1, <2>2 DEF WorkspaceInv
  <1> QED BY <1>2, <1>3

LEMMA ThreadLoadedInv == WorkspaceInv /\ ThreadLoaded => WorkspaceInv'
  <1> SUFFICES ASSUME WorkspaceInv, ThreadLoaded PROVE WorkspaceInv'
    OBVIOUS
  <1> USE DEF ThreadLoaded
  <1>1. HandIsBusy' /\ hand' \in [Handlers -> Task]
    BY DEF WorkspaceInv, HandIsBusy, WorkspaceTypes
  <1>2. /\ load.on = selected /\ listed # {} /\ selected \in listed /\ selected \in Chats
        /\ made # {} /\ selected # NoChat
    BY NoChatAssumption
    DEF WorkspaceInv, WorkspaceTypes, LoadIsSelected, SelectedIsListed
  <1>3. CASE /\ opened' = load.on /\ notice' = NoChat
             /\ load' = [load EXCEPT !.at = "list", !.from = made]
             /\ overtaken' = FALSE /\ failed' = FALSE
    <2>1. load' \in Task /\ load'.at = "list" /\ load'.from = made
      BY <1>3 DEF WorkspaceInv, WorkspaceTypes, Task
    <2>2. WorkspaceTypes'
      BY <1>1, <1>2, <1>3, <2>1 DEF WorkspaceInv, WorkspaceTypes
    <2>3. SelectedIsListed'
      BY <1>2, <1>3 DEF WorkspaceInv, SelectedIsListed
    <2>4. LoadIsSelected' /\ OpenedIsSelected'
      BY <1>2, <1>3, <2>1 DEF WorkspaceInv, LoadIsSelected, OpenedIsSelected, Nothing
    <2> QED BY <1>1, <2>2, <2>3, <2>4 DEF WorkspaceInv
  <1>4. CASE /\ opened' = NoChat /\ load' = Nothing /\ failed' = TRUE
             /\ UNCHANGED <<notice, overtaken>>
    <2>1. WorkspaceTypes'
      BY <1>1, <1>4, NothingIsTask DEF WorkspaceInv, WorkspaceTypes
    <2>2. SelectedIsListed' /\ LoadIsSelected' /\ OpenedIsSelected'
      BY <1>2, <1>4 DEF WorkspaceInv, SelectedIsListed, LoadIsSelected, OpenedIsSelected, Nothing
    <2> QED BY <1>1, <2>1, <2>2 DEF WorkspaceInv
  <1> QED BY <1>3, <1>4

LEMMA ListLoadedInv == WorkspaceInv /\ ListLoaded => WorkspaceInv'
  <1> SUFFICES ASSUME WorkspaceInv, ListLoaded PROVE WorkspaceInv'
    OBVIOUS
  <1> USE DEF ListLoaded
  <1>1. HandIsBusy' /\ hand' \in [Handlers -> Task]
    BY DEF WorkspaceInv, HandIsBusy, WorkspaceTypes
  <1>2. load.from # {} /\ opened # NoChat
    BY DEF WorkspaceInv, LoadIsSelected
  <1>3. CASE /\ \E list \in ListsSince(load.from) : Settle(list, address, selected, Nothing)
             /\ UNCHANGED <<opened, failed>>
    <2>1. PICK list \in ListsSince(load.from) : Settle(list, address, selected, Nothing)
      BY <1>3
    <2>2. list \in SUBSET made /\ list # {} /\ made' = made /\ made \in SUBSET Chats
      BY <1>2 DEF ListsSince, WorkspaceInv, WorkspaceTypes
    <2>3. /\ listed' = list /\ address' = address /\ selected' \in list
          /\ address \in list => selected' = address
          /\ \/ load' = Nothing /\ selected' = selected
             \/ load' \in Task /\ load'.at = "thread" /\ load'.on = selected'
      BY <2>1, <2>2, SettledOn
    <2>4. CASE load' = Nothing /\ selected' = selected
      <3>1. WorkspaceTypes'
        BY <1>1, <1>3, <2>2, <2>3, <2>4, NothingIsTask DEF WorkspaceInv, WorkspaceTypes
      <3>2. SelectedIsListed' /\ LoadIsSelected' /\ OpenedIsSelected'
        BY <1>2, <1>3, <2>2, <2>3, <2>4
        DEF WorkspaceInv, SelectedIsListed, LoadIsSelected, OpenedIsSelected, Nothing
      <3> QED BY <1>1, <3>1, <3>2 DEF WorkspaceInv
    <2>5. CASE load' \in Task /\ load'.at = "thread" /\ load'.on = selected'
      BY <1>1, <1>3, <2>2, <2>3, <2>5, NewLoad DEF WorkspaceInv, WorkspaceTypes
    <2> QED BY <2>3, <2>4, <2>5
  <1>4. CASE /\ opened' = NoChat /\ load' = Nothing /\ failed' = TRUE
             /\ UNCHANGED <<listed, selected, address, late>>
    <2>1. WorkspaceTypes'
      BY <1>1, <1>4, NothingIsTask DEF WorkspaceInv, WorkspaceTypes
    <2>2. SelectedIsListed' /\ LoadIsSelected' /\ OpenedIsSelected'
      BY <1>4 DEF WorkspaceInv, SelectedIsListed, LoadIsSelected, OpenedIsSelected, Nothing
    <2> QED BY <1>1, <2>1, <2>2 DEF WorkspaceInv
  <1> QED BY <1>3, <1>4

\* The selection changes or not, and all else that is shown stays.
LEMMA SelectionInv ==
    ASSUME WorkspaceInv, NEW there, NEW now, listed # {}, Settle(listed, there, now, load),
           UNCHANGED <<made, opened, notice, hand, overtaken, failed>>
    PROVE  WorkspaceInv'
  <1>1. HandIsBusy' /\ hand' \in [Handlers -> Task]
    BY DEF WorkspaceInv, HandIsBusy, WorkspaceTypes
  <1>2. listed \in SUBSET made' /\ made' \in SUBSET Chats
    BY DEF WorkspaceInv, WorkspaceTypes
  <1>3. /\ listed' = listed /\ address' = there /\ selected' \in listed
        /\ there \in listed => selected' = there
        /\ \/ load' = load /\ selected' = selected
           \/ load' \in Task /\ load'.at = "thread" /\ load'.on = selected'
    BY <1>2, SettledOn
  <1>4. CASE load' = load /\ selected' = selected
    <2>1. WorkspaceTypes'
      BY <1>1, <1>2, <1>3, <1>4 DEF WorkspaceInv, WorkspaceTypes
    <2>2. SelectedIsListed' /\ LoadIsSelected' /\ OpenedIsSelected'
      BY <1>3, <1>4
      DEF WorkspaceInv, SelectedIsListed, LoadIsSelected, OpenedIsSelected
    <2> QED BY <1>1, <2>1, <2>2 DEF WorkspaceInv
  <1>5. CASE load' \in Task /\ load'.at = "thread" /\ load'.on = selected'
    BY <1>1, <1>2, <1>3, <1>5, NewLoad DEF WorkspaceInv, WorkspaceTypes
  <1> QED BY <1>3, <1>4, <1>5

LEMMA SelectInv == ASSUME WorkspaceInv, NEW j \in Chats, Select(j) PROVE WorkspaceInv'
  <1>1. listed # {} /\ Settle(listed, address, j, load)
    BY DEF Select
  <1> QED BY <1>1, SelectionInv DEF Select

LEMMA AddressFollowsInv == WorkspaceInv /\ AddressFollows => WorkspaceInv'
  <1> SUFFICES ASSUME WorkspaceInv, AddressFollows PROVE WorkspaceInv'
    OBVIOUS
  <1>1. CASE listed = {}
    <2>1. UNCHANGED <<made, listed, selected, opened, notice, load, hand, overtaken, failed>>
      BY <1>1 DEF AddressFollows
    <2>2. WorkspaceTypes'
      BY <2>1 DEF WorkspaceInv, WorkspaceTypes
    <2>3. SelectedIsListed' /\ LoadIsSelected' /\ OpenedIsSelected' /\ HandIsBusy'
      BY <1>1, <2>1
      DEF WorkspaceInv, SelectedIsListed, LoadIsSelected, OpenedIsSelected, HandIsBusy
    <2> QED BY <2>2, <2>3 DEF WorkspaceInv
  <1>2. CASE listed # {}
    BY <1>2, SelectionInv DEF AddressFollows
  <1> QED BY <1>1, <1>2

\* Handlers begin only where something is shown, and so there is a list.
LEMMA ListWhileBusy ==
    ASSUME WorkspaceInv, NEW op \in Handlers, hand[op] # Nothing
    PROVE  listed # {}
  BY DEF WorkspaceInv, SelectedIsListed

\* A handler goes on, and nothing else of the page changes but the notice.
LEMMA HandInv ==
    ASSUME WorkspaceInv, listed # {},
           UNCHANGED <<made, listed, selected, address, opened, load, failed>>,
           NEW op \in Handlers, NEW task \in Task, hand' = [hand EXCEPT ![op] = task],
           task # Nothing => task.on \in Chats /\ (task.at = "refresh" => task.from # {}),
           overtaken' \in BOOLEAN,
           ~overtaken' => ~overtaken /\ notice' \in {NoChat, selected, notice}
    PROVE  WorkspaceInv'
  <1>1. hand' \in [Handlers -> Task] /\ HandIsBusy'
    BY DEF WorkspaceInv, WorkspaceTypes, HandIsBusy
  <1>2. WorkspaceTypes'
    BY <1>1 DEF WorkspaceInv, WorkspaceTypes
  <1>3. SelectedIsListed' /\ LoadIsSelected' /\ OpenedIsSelected'
    BY DEF WorkspaceInv, SelectedIsListed, LoadIsSelected, OpenedIsSelected
  <1> QED BY <1>1, <1>2, <1>3 DEF WorkspaceInv

LEMMA BeginInv == ASSUME WorkspaceInv, NEW op \in Handlers, Begin(op) PROVE WorkspaceInv'
  <1> DEFINE task == [at |-> "post", from |-> {}, on |-> IF op = "send" THEN selected ELSE opened]
  <1>1. listed # {} /\ task.on \in Chats /\ task.at = "post"
    BY DEF Begin, IsShown, WorkspaceInv, WorkspaceTypes
  <1>2. task \in Task
    BY <1>1 DEF Task
  <1>3. hand' = [hand EXCEPT ![op] = task]
    BY DEF Begin
  <1> HIDE DEF task
  <1> QED BY <1>1, <1>2, <1>3, HandInv DEF Begin, WorkspaceInv, WorkspaceTypes

LEMMA PostedInv == ASSUME WorkspaceInv, NEW op \in Handlers, Posted(op) PROVE WorkspaceInv'
  <1>1. PICK task : task = [hand[op] EXCEPT !.at = "refresh", !.from = made]
    OBVIOUS
  <1>2. hand[op] \in Task /\ hand[op].at = "post"
    BY DEF Posted, WorkspaceInv, WorkspaceTypes
  <1>3. hand[op] # Nothing
    BY <1>2 DEF Nothing
  <1>4. listed # {} /\ made # {} /\ made \in SUBSET Chats /\ hand[op].on \in Chats
    BY <1>3, ListWhileBusy DEF WorkspaceInv, WorkspaceTypes, HandIsBusy
  <1>5. task \in Task /\ task.on = hand[op].on /\ task.from = made
    BY <1>1, <1>2, <1>4 DEF Task
  <1>6. hand' = [hand EXCEPT ![op] = task]
    BY <1>1 DEF Posted
  <1>7. /\ overtaken' \in BOOLEAN
        /\ ~overtaken' => ~overtaken /\ notice' \in {NoChat, selected, notice}
    BY DEF Posted, WorkspaceInv, WorkspaceTypes
  <1> QED BY <1>4, <1>5, <1>6, <1>7, HandInv DEF Posted

LEMMA HandFailsInv == ASSUME WorkspaceInv, NEW op \in Handlers, HandFails(op) PROVE WorkspaceInv'
  <1>1. listed # {}
    BY ListWhileBusy DEF HandFails
  <1> QED BY <1>1, NothingIsTask, HandInv DEF HandFails, WorkspaceInv, WorkspaceTypes

LEMMA ReadAnewInv == ASSUME WorkspaceInv, NEW op \in Handlers, ReadAnew(op) PROVE WorkspaceInv'
  <1>1. hand[op].at = "refresh" /\ made' = made /\ made \in SUBSET Chats
    BY DEF ReadAnew, WorkspaceInv, WorkspaceTypes
  <1>2. hand[op] # Nothing
    BY <1>1 DEF Nothing
  <1>3. hand[op].on \in Chats /\ hand[op].from # {} /\ listed # {}
    BY <1>1, <1>2, ListWhileBusy DEF WorkspaceInv, HandIsBusy
  <1>4. PICK list \in ListsSince(hand[op].from) : Settle(list, address, selected, load)
    BY DEF ReadAnew
  <1>5. list \in SUBSET made' /\ list # {}
    BY <1>1, <1>3 DEF ListsSince
  <1>6. /\ listed' = list /\ address' = address /\ selected' \in list
        /\ address \in list => selected' = address
        /\ \/ load' = load /\ selected' = selected
           \/ load' \in Task /\ load'.at = "thread" /\ load'.on = selected'
    BY <1>1, <1>4, <1>5, SettledOn
  <1>7. hand' \in [Handlers -> Task] /\ HandIsBusy'
    BY NothingIsTask DEF WorkspaceInv, WorkspaceTypes, HandIsBusy, ReadAnew
  <1>8. /\ opened' = hand[op].on /\ overtaken' \in BOOLEAN /\ UNCHANGED <<notice, failed>>
        /\ ~overtaken' => ~overtaken /\ hand[op].on = selected
    BY DEF ReadAnew, WorkspaceInv, WorkspaceTypes
  <1>9. CASE load' = load /\ selected' = selected
    <2>1. WorkspaceTypes'
      BY <1>1, <1>3, <1>5, <1>6, <1>7, <1>8, <1>9 DEF WorkspaceInv, WorkspaceTypes
    <2>2. SelectedIsListed' /\ LoadIsSelected' /\ OpenedIsSelected'
      BY <1>3, <1>5, <1>6, <1>8, <1>9, NoChatAssumption
      DEF WorkspaceInv, SelectedIsListed, LoadIsSelected, OpenedIsSelected
    <2> QED BY <1>7, <2>1, <2>2 DEF WorkspaceInv
  <1>10. CASE load' \in Task /\ load'.at = "thread" /\ load'.on = selected'
    BY <1>1, <1>3, <1>5, <1>6, <1>7, <1>8, <1>10, NewLoad DEF WorkspaceInv, WorkspaceTypes
  <1> QED BY <1>6, <1>9, <1>10

\* A link is followed, a late answer comes, a conversation is begun: what the page
\* shows stays.
LEMMA WorkspaceAside ==
    ASSUME WorkspaceInv, made \subseteq made', made' \in SUBSET Chats,
           UNCHANGED <<listed, selected, address, opened, notice, load, hand, overtaken, failed>>
    PROVE  WorkspaceInv'
  <1>1. WorkspaceTypes'
    BY DEF WorkspaceInv, WorkspaceTypes
  <1>2. SelectedIsListed' /\ LoadIsSelected' /\ OpenedIsSelected' /\ HandIsBusy'
    BY DEF WorkspaceInv, SelectedIsListed, LoadIsSelected, OpenedIsSelected, HandIsBusy
  <1> QED BY <1>1, <1>2 DEF WorkspaceInv

LEMMA WorkspaceInitInv == WorkspaceInit => WorkspaceInv
  <1> SUFFICES ASSUME WorkspaceInit PROVE WorkspaceInv
    OBVIOUS
  <1>1. load \in Task /\ load.at = "list"
    BY DEF WorkspaceInit, Nothing, Task
  <1>2. WorkspaceTypes
    BY <1>1, NothingIsTask DEF WorkspaceInit, WorkspaceTypes
  <1>3. SelectedIsListed /\ LoadIsSelected /\ OpenedIsSelected /\ HandIsBusy
    BY <1>1
    DEF WorkspaceInit, SelectedIsListed, LoadIsSelected, OpenedIsSelected, HandIsBusy
  <1> QED BY <1>2, <1>3 DEF WorkspaceInv

LEMMA WorkspaceStep == WorkspaceInv /\ [WorkspaceNext]_workspaceVars => WorkspaceInv'
  <1> SUFFICES ASSUME WorkspaceInv, [WorkspaceNext]_workspaceVars PROVE WorkspaceInv'
    OBVIOUS
  <1> USE DEF WorkspaceInv, WorkspaceTypes
  <1>1. CASE UNCHANGED workspaceVars
    BY <1>1, WorkspaceAside DEF workspaceVars
  <1>2. CASE ListChats \/ ThreadLoaded \/ ListLoaded \/ AddressFollows
    BY <1>2, ListChatsInv, ThreadLoadedInv, ListLoadedInv, AddressFollowsInv
  <1>3. ASSUME NEW j \in Chats, LateLoad(j) \/ FollowLink(j) \/ NewChat(j) PROVE WorkspaceInv'
    BY <1>3, WorkspaceAside DEF LateLoad, FollowLink, NewChat
  <1>4. ASSUME NEW j \in Chats, Select(j) PROVE WorkspaceInv'
    BY <1>4, SelectInv
  <1>5. ASSUME NEW op \in Handlers, Begin(op) \/ Posted(op) \/ ReadAnew(op) \/ HandFails(op)
        PROVE  WorkspaceInv'
    BY <1>5, BeginInv, PostedInv, ReadAnewInv, HandFailsInv
  <1> QED BY <1>1, <1>2, <1>3, <1>4, <1>5 DEF WorkspaceNext

\* The conversation on the page, its form and its notice are those of the selected
\* one whatever clicks, links, late answers and handlers do meanwhile
\* (JobMessagesWorkspace: the effects on the address, on the selection and the
\* clean-up of loadThread; refreshSelectedWorkspace is the exception it names).
THEOREM PageShowsSelected == WorkspaceSpec => []ShownIsSelected
  <1>1. WorkspaceSpec => []WorkspaceInv
    BY WorkspaceInitInv, WorkspaceStep, PTL DEF WorkspaceSpec
  <1>2. WorkspaceInv => ShownIsSelected
    <2> SUFFICES ASSUME WorkspaceInv PROVE ShownIsSelected
      OBVIOUS
    <2>1. IsShown /\ ~overtaken => opened = selected /\ (notice \in {NoChat, selected} \/ failed)
      BY DEF WorkspaceInv, OpenedIsSelected, IsShown, Nothing
    <2> QED BY <2>1 DEF WorkspaceInv, OpenedIsSelected, SelectedIsListed, ShownIsSelected
  <1> QED BY <1>1, <1>2, PTL
=============================================================================
