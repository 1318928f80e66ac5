------------------------------ MODULE Recovery ------------------------------
(***************************************************************************)
(* Assisted password recovery: the tickets of one address, which its owner *)
(* asks for without being logged in and which administrators take and      *)
(* close (AuthService).  `asker[c]' is a request of either between what it *)
(* has read and what it writes.                                            *)
(***************************************************************************)
EXTENDS Naturals, Sequences, FiniteSets

CONSTANTS
    Askers,       \* requests in progress
    MaxTickets    \* bound: tickets

VARIABLES
    tickets,      \* the rows of PasswordRecoveryRequest in the order of creation
    asker

recoveryVars == <<tickets, asker>>

RecoveryInit == tickets = <<>> /\ asker = [c \in Askers |-> [pc |-> "idle"]]

Turn(c, step) == asker' = [asker EXCEPT ![c] = step]

TicketClosed(status) == status \in {"RESOLVED", "CANCELED"}
OpenTickets == {k \in DOMAIN tickets : ~TicketClosed(tickets[k].status)}

\* Mutant: only a ticket that nobody has taken counts as existing.
ReadUntaken(c) ==
    /\ asker[c].pc = "idle"
    /\ IF \E k \in OpenTickets : tickets[k].status = "OPEN"
       THEN UNCHANGED asker ELSE Turn(c, [pc |-> "ask", seen |-> Len(tickets)])
    /\ UNCHANGED tickets

ReadTickets(c) ==
    /\ asker[c].pc = "idle"
    /\ IF OpenTickets # {} THEN UNCHANGED asker ELSE Turn(c, [pc |-> "ask", seen |-> Len(tickets)])
    /\ UNCHANGED tickets

\* `beside': another one was asked for in between; `closings': how often it was
\* closed; `met': it was written after another administrator had (history).
RequestPasswordRecovery(c) ==
    /\ asker[c].pc = "ask" /\ Len(tickets) < MaxTickets
    /\ tickets' = Append(tickets,
           [status |-> "OPEN", closings |-> 0, met |-> FALSE,
            beside |-> Len(tickets) > asker[c].seen])
    /\ Turn(c, [pc |-> "idle"])

ReadTicket(c, k, status) ==
    /\ asker[c].pc = "idle" /\ ~TicketClosed(tickets[k].status)
    /\ Turn(c, [pc |-> "recover", k |-> k, read |-> tickets[k].status, status |-> status])
    /\ UNCHANGED tickets

UpdatePasswordRecoveryRequest(c) ==
    /\ asker[c].pc = "recover"
    /\ LET w == asker[c]
           t == tickets[w.k]
       IN  tickets' = [tickets EXCEPT ![w.k] =
               [t EXCEPT !.status = w.status,
                         !.closings = IF TicketClosed(w.status) /\ @ < 2 THEN @ + 1 ELSE @,
                         !.met = @ \/ t.status # w.read]]
    /\ Turn(c, [pc |-> "idle"])

\* The process ends, or a query fails.
LeaveTicket(c) ==
    /\ asker[c].pc # "idle"
    /\ Turn(c, [pc |-> "idle"])
    /\ UNCHANGED tickets

RecoveryNext ==
    \E c \in Askers :
        \/ ReadTickets(c) \/ RequestPasswordRecovery(c)
        \/ \E k \in DOMAIN tickets, status \in {"IN_PROGRESS", "RESOLVED", "CANCELED"} :
            ReadTicket(c, k, status)
        \/ UpdatePasswordRecoveryRequest(c) \/ LeaveTicket(c)

RecoverySpec == RecoveryInit /\ [][RecoveryNext]_recoveryVars

-----------------------------------------------------------------------------
(* Properties. *)

\* One address has one ticket in the queue, and a ticket is closed once, unless
\* two requests had read the queue, or the ticket, before either wrote.
OneTicketClosedOnce ==
    /\ \A k, n \in OpenTickets : k < n => tickets[n].beside \/ tickets[k].met
    /\ \A k \in DOMAIN tickets : tickets[k].closings > 1 => tickets[k].met
=============================================================================
