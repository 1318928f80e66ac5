--------------------------- MODULE Conversations ---------------------------
(***************************************************************************)
(* The conversation of one job: MessagesService, the moderation of         *)
(* TrustSafetyService that every message passes while the contact is       *)
(* locked, and the appeals and reviews of its interventions.               *)
(*                                                                         *)
(* `call[c]' is a request that the API is working on; each of its steps is *)
(* one query or one transaction, and a process may end between two.  Of a  *)
(* message only what the detection makes of it is kept.  Time is kept in   *)
(* two bits of an intervention: `live' while its blockedUntil is in the    *)
(* future, `recent' for the 24 hours in which it counts as an attempt.     *)
(* Attachments, the notification of a message and the wording of what is   *)
(* answered are left out.                                                  *)
(***************************************************************************)
EXTENDS Naturals, Sequences, FiniteSets

CONSTANTS
    Users,             \* the customer and the provider of the job
    Calls,             \* requests in progress
    MaxMessages,       \* bound: messages of the conversation
    MaxInterventions   \* bound: interventions of the conversation

ASSUME ConversationsAssumption == IsFiniteSet(Users) /\ Cardinality(Users) = 2

VARIABLES
    job,            \* its status and contactUnlockedAt, as far as they matter here
    messages,       \* the rows of JobMessage in the order of their creation, with
                    \* what became of them (leaks, shown, missed: history)
    interventions,  \* the rows of TrustSafetyIntervention, likewise
    call,
    overlapped      \* users two of whose messages were evaluated at once (history)

conversationVars == <<job, messages, interventions, call, overlapped>>

Counterpart(u) == CHOOSE v \in Users : v # u

\* What detectContactSharing makes of a message: nothing, or a contact or a word
\* that hints at one.
Contents == {"clean", "contact"}
Detected(content) == content # "clean"

Blocking == {"OPEN", "APPEALED", "ENFORCED"}
IsBlocking(i) == i.action = "TEMP_BLOCK" /\ i.status \in Blocking /\ i.live

Idle == [pc |-> "idle"]
At(c, pc) == call[c].pc = pc
Goto(c, step) == call' = [call EXCEPT ![c] = step]
Proceed(c, pc) == Goto(c, [call[c] EXCEPT !.pc = pc])
Return(c) == Goto(c, Idle)

ConversationsInit ==
    /\ job = [canceled |-> FALSE, unlocked |-> FALSE]
    /\ messages = <<>> /\ interventions = <<>>
    /\ call = [c \in Calls |-> Idle]
    /\ overlapped = {}

-----------------------------------------------------------------------------
(* Sending a message. *)

Evaluating(u) ==
    {c \in Calls : call[c].pc \in {"check", "count", "intervene", "store"} /\ call[c].user = u}

\* send reads the job once; what it read decides, whatever becomes of the job.
Send(c, u, content) ==
    /\ At(c, "idle")
    /\ ~job.canceled
    /\ Goto(c, [pc |-> IF job.unlocked THEN "store" ELSE "check",
                user |-> u, content |-> content])
    /\ overlapped' = overlapped \union (IF Evaluating(u) = {} THEN {} ELSE {u})
    /\ UNCHANGED <<job, messages, interventions>>

\* A user who is blocked gets no further, whatever the message says.
CheckRestriction(c) ==
    /\ At(c, "check")
    /\ LET m == call[c]
       IN  IF \E k \in DOMAIN interventions :
                interventions[k].actor = m.user /\ IsBlocking(interventions[k])
           THEN Return(c)
           ELSE Proceed(c, IF Detected(m.content) THEN "count" ELSE "store")
    /\ UNCHANGED <<job, messages, interventions, overlapped>>

\* Mutant: the attempts of the other participant count too.
AttemptsOfJob(u) == {k \in DOMAIN interventions : interventions[k].recent}

Attempts(u) ==
    {k \in DOMAIN interventions : interventions[k].actor = u /\ interventions[k].recent}

CountAttempts(c) ==
    /\ At(c, "count")
    /\ Goto(c, [pc |-> "intervene", user |-> call[c].user, content |-> call[c].content,
                previous |-> Cardinality(Attempts(call[c].user))])
    /\ UNCHANGED <<job, messages, interventions, overlapped>>

\* The first attempt in a day is answered with a warning, the next one blocks.
Intervention(m) ==
    [actor |-> m.user, recent |-> TRUE, decision |-> "none",
     action |-> IF m.previous = 0 THEN "WARNING" ELSE "TEMP_BLOCK",
     status |-> IF m.previous = 0 THEN "LOGGED" ELSE "OPEN",
     live   |-> m.previous > 0]

\* Mutant: only a block keeps the message back.
InterveneOnBlock(c) ==
    /\ At(c, "intervene")
    /\ Len(interventions) < MaxInterventions
    /\ interventions' = Append(interventions, Intervention(call[c]))
    /\ IF call[c].previous = 0 THEN Proceed(c, "store") ELSE Return(c)
    /\ UNCHANGED <<job, messages, overlapped>>

Intervene(c) ==
    /\ At(c, "intervene")
    /\ Len(interventions) < MaxInterventions
    /\ interventions' = Append(interventions, Intervention(call[c]))
    /\ Return(c)
    /\ UNCHANGED <<job, messages, overlapped>>

\* The conversation has been asked for, and one of the two answers is missing.
HalfOpen(u, done, missing) ==
    \E c \in Calls : At(c, "open") /\ call[c].user = u /\ call[c][done] /\ ~call[c][missing]

StoreMessage(c) ==
    /\ At(c, "store")
    /\ Len(messages) < MaxMessages
    /\ messages' = Append(messages,
           [from |-> call[c].user, read |-> FALSE, shown |-> FALSE,
            leaks |-> Detected(call[c].content) /\ ~job.unlocked,
            missed |-> HalfOpen(Counterpart(call[c].user), "listed", "marked")])
    /\ Return(c)
    /\ UNCHANGED <<job, interventions, overlapped>>

\* The process ends, or a query fails: what was written stays.
Abort(c) ==
    /\ ~At(c, "idle")
    /\ Return(c)
    /\ messages' = [k \in DOMAIN messages |-> [messages[k] EXCEPT !.missed =
           @ \/ /\ At(c, "open") /\ call[c].marked
                /\ messages[k].from # call[c].user /\ ~messages[k].shown]]
    /\ UNCHANGED <<job, interventions, overlapped>>

-----------------------------------------------------------------------------
(* Opening the conversation: the page asks for the messages and, beside it, *)
(* has them marked as read.                                                *)

OpenConversation(c, u) ==
    /\ At(c, "idle")
    /\ Goto(c, [pc |-> "open", user |-> u, listed |-> FALSE, marked |-> FALSE])
    /\ UNCHANGED <<job, messages, interventions, overlapped>>

To(u, message) == message.from # u

AfterOpen(c, field) ==
    LET next == [call[c] EXCEPT ![field] = TRUE]
    IN  Goto(c, IF next.listed /\ next.marked THEN Idle ELSE next)

ListByJob(c) ==
    /\ At(c, "open") /\ ~call[c].listed
    /\ messages' = [k \in DOMAIN messages |->
           [messages[k] EXCEPT !.shown = @ \/ To(call[c].user, messages[k])]]
    /\ AfterOpen(c, "listed")
    /\ UNCHANGED <<job, interventions, overlapped>>

\* Mutant: whoever opens the conversation marks all of it.
MarkAllRead(c) ==
    /\ At(c, "open") /\ ~call[c].marked
    /\ messages' = [k \in DOMAIN messages |-> [messages[k] EXCEPT !.read = TRUE]]
    /\ AfterOpen(c, "marked")
    /\ UNCHANGED <<job, interventions, overlapped>>

MarkJobRead(c) ==
    /\ At(c, "open") /\ ~call[c].marked
    /\ messages' = [k \in DOMAIN messages |->
           [messages[k] EXCEPT !.read = @ \/ To(call[c].user, messages[k])]]
    /\ AfterOpen(c, "marked")
    /\ UNCHANGED <<job, interventions, overlapped>>

-----------------------------------------------------------------------------
(* Appeals and reviews: an intervention is read, judged by its status, and   *)
(* written whatever it has become since.                                     *)

ReadForAppeal(c, k) ==
    /\ At(c, "idle")
    /\ interventions[k].status \in {"OPEN", "ENFORCED"}
    /\ Goto(c, [pc |-> "appeal", k |-> k])
    /\ UNCHANGED <<job, messages, interventions, overlapped>>

AppealIntervention(c) ==
    /\ At(c, "appeal")
    /\ interventions' = [interventions EXCEPT ![call[c].k].status = "APPEALED"]
    /\ Return(c)
    /\ UNCHANGED <<job, messages, overlapped>>

ReadForReview(c, k, decision) ==
    /\ At(c, "idle")
    /\ interventions[k].status \in Blocking
    /\ Goto(c, [pc |-> "review", k |-> k, decision |-> decision])
    /\ UNCHANGED <<job, messages, interventions, overlapped>>

\* Mutant: a review leaves blockedUntil alone.
ReviewedStatus(i, decision) == [i EXCEPT !.status = decision, !.decision = decision]

\* blockedUntil: now, or what it was, or a day from now if that has passed.
Reviewed(i, decision) ==
    [i EXCEPT !.status = decision, !.decision = decision, !.live = decision = "ENFORCED"]

ReviewIntervention(c) ==
    /\ At(c, "review")
    /\ interventions' = [interventions EXCEPT ![call[c].k] = Reviewed(@, call[c].decision)]
    /\ Return(c)
    /\ UNCHANGED <<job, messages, overlapped>>

-----------------------------------------------------------------------------
(* Around the conversation. *)

\* A payment unlocks the contact, for good; a job is canceled.
Unlock ==
    /\ ~job.unlocked /\ ~job.canceled
    /\ job' = [job EXCEPT !.unlocked = TRUE]
    /\ UNCHANGED <<messages, interventions, call, overlapped>>

Cancel ==
    /\ ~job.canceled
    /\ job' = [job EXCEPT !.canceled = TRUE]
    /\ UNCHANGED <<messages, interventions, call, overlapped>>

\* A block runs out; a day after the attempt it no longer counts.  A block of
\* the detection lasts hours, only one that a review renewed outlasts the day.
BlockRunsOut(k) ==
    /\ interventions[k].live
    /\ interventions' = [interventions EXCEPT ![k].live = FALSE]
    /\ UNCHANGED <<job, messages, call, overlapped>>

DayPasses(k) ==
    /\ interventions[k].recent
    /\ interventions[k].live => interventions[k].decision = "ENFORCED"
    /\ \A n \in 1 .. k - 1 : ~interventions[n].recent
    /\ interventions' = [interventions EXCEPT ![k].recent = FALSE]
    /\ UNCHANGED <<job, messages, call, overlapped>>

ConversationsNext ==
    \/ \E c \in Calls :
        \/ \E u \in Users : (\E content \in Contents : Send(c, u, content)) \/ OpenConversation(c, u)
        \/ CheckRestriction(c) \/ CountAttempts(c) \/ Intervene(c)
        \/ StoreMessage(c) \/ Abort(c)
        \/ ListByJob(c) \/ MarkJobRead(c)
        \/ \E k \in DOMAIN interventions :
            \/ ReadForAppeal(c, k)
            \/ \E decision \in {"CLEARED", "ENFORCED"} : ReadForReview(c, k, decision)
        \/ AppealIntervention(c) \/ ReviewIntervention(c)
    \/ Unlock \/ Cancel
    \/ \E k \in DOMAIN interventions : BlockRunsOut(k) \/ DayPasses(k)

ConversationsSpec == ConversationsInit /\ [][ConversationsNext]_conversationVars

-----------------------------------------------------------------------------
(* Properties. *)

\* A message that the detection would have stopped was stored only after the
\* contact had been unlocked, however long the sending took and whoever was
\* blocked, cleared or unlocked meanwhile.
ContactStaysLocked ==
    \A k \in DOMAIN messages : ~messages[k].leaks

\* Nobody is blocked before being warned, and nobody is warned twice in a day
\* unless two messages of theirs were looked at side by side.
WarnedOnceThenBlocked ==
    /\ \A k \in DOMAIN interventions :
        interventions[k].action = "TEMP_BLOCK" =>
            \E n \in 1 .. k - 1 : /\ interventions[n].actor = interventions[k].actor
                                  /\ interventions[n].action = "WARNING"
    /\ \A u \in Users :
        Cardinality({k \in Attempts(u) : interventions[k].action = "WARNING"}) > 1
            => u \in overlapped

\* What the team has cleared does not block again, not even when an appeal that
\* was on its way overwrites the status; only another decision makes it block.
ClearedNeverBlocks ==
    \A k \in DOMAIN interventions :
        interventions[k].decision = "CLEARED" => ~IsBlocking(interventions[k])

\* The unread badge goes away only for messages that were shown or are about to
\* be, or that slipped through an open of their reader: they arrived between its
\* two queries, or it marked them and broke off.
ReadWasShown ==
    \A k \in DOMAIN messages :
        messages[k].read =>
            \/ messages[k].shown \/ messages[k].missed
            \/ HalfOpen(Counterpart(messages[k].from), "marked", "listed")
=============================================================================
