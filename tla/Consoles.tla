------------------------------ MODULE Consoles ------------------------------
(***************************************************************************)
(* An administrator at one of the two consoles that decide about money:    *)
(* the page of payments (AdminPaymentsPage) and that of support            *)
(* (AdminSupportPage), in front of the API.                                *)
(*                                                                         *)
(* A critical action is sent, refused for want of a recent confirmation of *)
(* the password, confirmed by the administrator and sent once more with    *)
(* the one-time challenge (runCriticalAdminAction).  The page of payments  *)
(* has one flag for its critical actions and one for reconciling; that of  *)
(* support remembers only the action that was started last.  A prompt      *)
(* stops the whole page, so it belongs to the step it follows.             *)
(***************************************************************************)
EXTENDS Naturals, FiniteSets

CONSTANTS
    Refunds,     \* refund requests, which both consoles decide
    Payouts,     \* payouts, which that of payments carries out
    Clicks,      \* bound: functions of the page that run at once
    NoClick

VARIABLES
    console,     \* which of the pages it is
    filed,       \* the status of each in the database
    keyed,       \* payouts with a transaction under their idempotency key
    shown,       \* and on the page, as far as it offers something for it
    ticket,      \* whose challenge is the open one of the administrator
    running,     \* what the page remembers as running
    click

consoleVars == <<console, filed, keyed, shown, ticket, running, click>>

Items == Refunds \union Payouts

\* The status that an action needs and those it leads to: the gateway may settle a
\* refund or a payout at once, later, or not.
Takes == [approve |-> "PENDING", reject |-> "PENDING",
          authorize |-> "PENDING", process |-> "APPROVED"]
Makes == [approve |-> {"SUCCEEDED", "PROCESSING", "FAILED"}, reject |-> {"FAILED"},
          authorize |-> {"APPROVED"}, process |-> {"PAID", "PROCESSING", "FAILED"}]
Concerns(op, i) == IF i \in Refunds THEN op \in {"approve", "reject"}
                   ELSE op \in {"authorize", "process"}

\* Both pages decide refunds; what else they start concerns no row they show:
\* `create' a refund, a payout or a release; `case' an incident or a ticket.
Critical == DOMAIN Takes \union {"create"}
ActionsOf == [payments |-> Critical \union {"reconcile"},
              support  |-> {"approve", "reject", "case"}]

\* `ran': how often the API did what the click asks for; `spared': it answered with a
\* payout that had been carried out before; `unheard': an answer was lost.
Idle == [at |-> "idle", op |-> "none", on |-> "none", ran |-> 0, spared |-> FALSE,
         unheard |-> FALSE, told |-> "nothing"]
At(k, stage) == click[k].at = stage

\* The state `runningCriticalAction', `runningReconcile' or `runningId'.
FlagOf(op, i) ==
    IF console = "support" THEN <<op, i>>
    ELSE <<IF op \in Critical THEN "critical" ELSE "reconcile", "all">>

IsOffered(op, i) ==
    /\ op \in DOMAIN Takes => Concerns(op, i) /\ shown[i] = Takes[op]
    /\ FlagOf(op, i) \notin running
    /\ op = "reconcile" => running = {}

\* What is created and what is reconciled is no row that the console decides on.
RowOf(op, i) == IF op \in {"create", "reconcile"} THEN "none" ELSE i

Start(k, op, i) ==
    /\ At(k, "idle") /\ op \in ActionsOf[console] /\ IsOffered(op, i)
    /\ click' = [click EXCEPT ![k] = [Idle EXCEPT !.at = "first", !.op = op, !.on = RowOf(op, i)]]
    /\ UNCHANGED <<console, filed, keyed, shown, ticket>>

\* The page of payments raises one flag of two; that of support names the action
\* in place of whatever was running.
PressOnPayments(k, op, i) ==
    console = "payments" /\ Start(k, op, i) /\ running' = running \union {FlagOf(op, i)}
PressOnSupport(k, op, i) ==
    console = "support" /\ Start(k, op, i) /\ running' = {FlagOf(op, i)}

\* The function is over: its message, and the flag that it takes back.
Say(k, c, told) ==
    /\ click' = [click EXCEPT ![k] = [Idle EXCEPT !.ran = c.ran, !.spared = c.spared,
                                                  !.unheard = c.unheard, !.told = told]]
    /\ running' = IF console = "support" THEN {} ELSE running \ {FlagOf(c.op, c.on)}

\* Mutant: whatever went wrong, the password is asked for and the action sent again.
AskAgain(k, c) ==
    /\ click' = [click EXCEPT ![k] = [c EXCEPT !.at = "confirm"]]
    /\ UNCHANGED running

\* An error that is no request to confirm the password ends the function.
GiveUp(k, c) == Say(k, c, "failure")

\* An error of the network before the request arrived, or of an answer.
Breaks(k) ==
    /\ click[k].at \in {"first", "confirm", "again"}
    /\ GiveUp(k, click[k])
    /\ UNCHANGED <<console, filed, keyed, shown, ticket>>

\* The answer arrives, or is lost.
Answered(k, c) ==
    \/ click' = [click EXCEPT ![k] = [c EXCEPT !.at = "load"]] /\ UNCHANGED running
    \/ GiveUp(k, [c EXCEPT !.unheard = TRUE])

\* What a decision writes: its status and, for a payout that is processed, its key.
Decide(op, i) ==
    /\ \E status \in Makes[op] : filed' = [filed EXCEPT ![i] = status]
    /\ keyed' = IF op = "process" THEN keyed \union {i} ELSE keyed

\* The API refuses: the row is no longer as it must be, or the money is not there.
Refuse(k) == GiveUp(k, click[k]) /\ UNCHANGED <<filed, keyed>>

\* The API does what was asked for; a payout that has its transaction is answered
\* as it is.
Accept(k) ==
    LET c == click[k]
        decides == c.op \in DOMAIN Takes
        before  == c.op = "process" /\ c.on \in keyed
    IN  /\ decides => filed[c.on] = Takes[c.op]
        /\ IF decides /\ ~before THEN Decide(c.op, c.on) ELSE UNCHANGED <<filed, keyed>>
        /\ Answered(k, IF before THEN [c EXCEPT !.spared = TRUE] ELSE [c EXCEPT !.ran = @ + 1])

Run(k) == Refuse(k) \/ Accept(k)

\* The first attempt carries no challenge: the guard refuses a critical action,
\* and the administrator enters the password or cancels.
FirstCall(k) ==
    /\ At(k, "first")
    /\ IF click[k].op \in Critical
       THEN /\ \/ click' = [click EXCEPT ![k].at = "confirm"] /\ UNCHANGED running
               \/ Say(k, click[k], "failure")
            /\ UNCHANGED <<filed, keyed>>
       ELSE Run(k)
    /\ UNCHANGED <<console, shown, ticket>>

\* confirmReauth closes the challenge that is open and opens another.
Confirm(k) ==
    /\ At(k, "confirm")
    /\ ticket' = k
    /\ click' = [click EXCEPT ![k].at = "again"]
    /\ UNCHANGED <<console, filed, keyed, shown, running>>

\* The guard takes the challenge before the handler runs; a challenge that was
\* closed is refused, and the second attempt is the last.
SecondCall(k) ==
    /\ At(k, "again")
    /\ IF ticket = k
       THEN ticket' = NoClick /\ Run(k)
       ELSE Say(k, click[k], "failure") /\ UNCHANGED <<filed, keyed, ticket>>
    /\ UNCHANGED <<console, shown>>

\* The challenge runs out, or is closed by a confirmation in another window.
TicketCloses == ticket # NoClick /\ ticket' = NoClick
                /\ UNCHANGED <<console, filed, keyed, shown, running, click>>

\* What the page keeps of the rows it loads, and of a load that failed.
Loaded == [i \in Items |->
              IF console = "support" /\ i \in Payouts THEN "none"
              ELSE IF filed[i] \in {"PENDING", "APPROVED"} THEN filed[i] ELSE "none"]
Emptied == [i \in Items |-> "none"]

\* The page of payments reports first and swallows an error of the load, which
\* empties its lists; that of support takes such an error for one of the action.
Load(k) ==
    /\ At(k, "load")
    /\ \/ shown' = Loaded /\ Say(k, click[k], "success")
       \/ console = "payments" /\ shown' = Emptied /\ Say(k, click[k], "success")
       \/ console = "support" /\ UNCHANGED shown
          /\ Say(k, [click[k] EXCEPT !.unheard = TRUE], "failure")
    /\ UNCHANGED <<console, filed, keyed, ticket>>

\* Customers ask for refunds and withdraw them, other administrators decide or
\* create; an approval that had read its payout before is written by id, whatever
\* the payout has become.  The page is loaded anew by a visit or, on that of
\* payments, by its button.
ElsewhereDecided ==
    /\ \E i \in Items :
          \/ filed[i] = "none" /\ filed' = [filed EXCEPT ![i] = "PENDING"] /\ UNCHANGED keyed
          \/ \E op \in DOMAIN Takes :
                /\ Concerns(op, i) /\ filed[i] = Takes[op]
                /\ op = "process" => i \notin keyed
                /\ Decide(op, i)
          \/ /\ i \in Refunds /\ filed[i] = "PENDING"
             /\ filed' = [filed EXCEPT ![i] = "CANCELED"] /\ UNCHANGED keyed
          \/ /\ i \in keyed
             /\ filed' = [filed EXCEPT ![i] = "APPROVED"] /\ UNCHANGED keyed
    /\ UNCHANGED <<console, shown, ticket, running, click>>

Reload ==
    /\ shown # Loaded /\ \A f \in running : f[1] # "critical"
    /\ shown' = Loaded
    /\ UNCHANGED <<console, filed, keyed, ticket, running, click>>

ConsolesInit ==
    /\ console \in {"payments", "support"}
    /\ filed \in [Items -> {"none", "PENDING"}] /\ keyed = {}
    /\ shown = Loaded
    /\ ticket = NoClick /\ running = {}
    /\ click = [k \in Clicks |-> Idle]

ConsolesNext ==
    \/ ElsewhereDecided \/ Reload \/ TicketCloses
    \/ \E k \in Clicks :
          \/ \E op \in Critical \union {"reconcile", "case"}, i \in Items :
                PressOnPayments(k, op, i) \/ PressOnSupport(k, op, i)
          \/ FirstCall(k) \/ Confirm(k) \/ SecondCall(k) \/ Load(k) \/ Breaks(k)

ConsolesSpec == ConsolesInit /\ [][ConsolesNext]_consoleVars

-----------------------------------------------------------------------------
\* A click sends its action up to twice and its answers may get lost, while
\* another click takes over the open challenge and the flag.  Yet the API does
\* what was asked for at most once, success is reported of what it did, and failure
\* of what it did not, unless the page could not learn it.  There is one exception:
\* `processado' is also said of a payout whose transaction had been made before and
\* which an older approval has put back (adminProcessPayout answers with the row).
\* And success means that the API took the action, not that the gateway settled it:
\* the page does not look at the status in the answer.
ClickRunsOnce ==
    \A k \in Clicks :
        /\ click[k].ran <= 1 /\ (click[k].spared => click[k].ran = 0 /\ keyed # {})
        /\ click[k].told = "success" => click[k].ran = 1 \/ click[k].spared
        /\ click[k].told = "failure" => click[k].ran = 0 \/ click[k].unheard
=============================================================================
