-------------------------------- MODULE Desk --------------------------------
(***************************************************************************)
(* The operational cases of SupportOpsService, among them the disputes that *)
(* PaymentsService opens and closes with a refund request.                 *)
(*                                                                         *)
(* A case is read, judged and then written by id, in a transaction that    *)
(* locks nothing on reading: `clerk[c]' is a request between the two.  Of  *)
(* a case's timeline the last entry about its status is kept, and the last *)
(* one that its participants see.  Owner, SLA, evidence, severity and      *)
(* texts are left out.                                                     *)
(***************************************************************************)
EXTENDS Naturals, Sequences, FiniteSets

CONSTANTS
    Clerks,        \* requests of administrators and users in progress
    CaseStates,    \* the statuses that updates ask for
    MaxCases       \* bound: cases

ASSUME DeskAssumption ==
    /\ {"OPEN", "RESOLVED"} \subseteq CaseStates
    /\ CaseStates \subseteq {"OPEN", "INVESTIGATING", "MITIGATING", "MONITORING", "RESOLVED", "CANCELED"}
    /\ MaxCases \in Nat

VARIABLES
    refund,        \* the refund request: not made yet, waiting or decided
    cases,         \* the rows of OperationalIncident in the order of creation
    clerk

deskVars == <<refund, cases, clerk>>

CaseClosed(status) == status \in {"RESOLVED", "CANCELED"}
Free == [pc |-> "idle"]
Busy(c, pc) == clerk[c].pc = pc
Take(c, step) == clerk' = [clerk EXCEPT ![c] = step]
Release(c) == Take(c, Free)

DeskInit ==
    /\ refund = "none"
    /\ cases = <<>>
    /\ clerk = [c \in Clerks |-> Free]

-----------------------------------------------------------------------------
(* Cases. *)

\* `trail': the last internal entry about the status; `told': what participants
\* saw last; `met': written on an outdated reading since the last change of the
\* status that was not (history).
NewCase(ofRefund, told) ==
    [refund |-> ofRefund, status |-> "OPEN", resolved |-> FALSE, trail |-> "OPEN",
     told |-> told, met |-> FALSE]

\* An administrator opens a case, for a refund or not; participants of a refund
\* are told only if it is opened as a dispute.
CreateIncident(ofRefund, asDispute) ==
    /\ Len(cases) < MaxCases
    /\ ofRefund => refund # "none"
    /\ cases' = Append(cases, NewCase(ofRefund, IF ofRefund /\ asDispute THEN "open" ELSE "nothing"))
    /\ UNCHANGED <<refund, clerk>>

\* A refund request and its dispute are created in one transaction.
EnsureRefundDisputeCase ==
    /\ refund = "none" /\ Len(cases) < MaxCases
    /\ refund' = "pending"
    /\ cases' = Append(cases, NewCase(TRUE, "open"))
    /\ UNCHANGED clerk

\* An update that names no status has something else to write.
ReadIncident(c, k, status) ==
    /\ Busy(c, "idle")
    /\ Take(c, [pc |-> "update", k |-> k, status |-> status,
                read |-> [status |-> cases[k].status, resolved |-> cases[k].resolved]])
    /\ UNCHANGED <<refund, cases>>

\* The status is written even when none was asked for, as it was read.
NextStatus(w) == IF w.status = "same" THEN w.read.status ELSE w.status

ResolvedAt(w) == CaseClosed(NextStatus(w)) \/ (NextStatus(w) = w.read.status /\ w.read.resolved)

\* buildParticipantStatusEvent says of any status it does not know, OPEN among
\* them, that the case is closed.
ToldOf(status) == IF status \in {"INVESTIGATING", "MITIGATING", "MONITORING"} THEN "open" ELSE "closed"

\* Mutant: what is judged is the status asked for, not the one written.
TrailOfRequest(case, w) == IF w.status # w.read.status THEN w.status ELSE case.trail

TrailOf(case, w) == IF NextStatus(w) # w.read.status THEN NextStatus(w) ELSE case.trail

Told(case, w) ==
    IF case.refund /\ (NextStatus(w) # w.read.status)
    THEN ToldOf(NextStatus(w)) ELSE case.told

Updated(case, w) ==
    [case EXCEPT !.status = NextStatus(w), !.resolved = ResolvedAt(w),
                 !.trail = TrailOf(case, w), !.told = Told(case, w),
                 !.met = \/ case.status # w.read.status
                         \/ @ /\ NextStatus(w) = w.read.status]

UpdateIncident(c) ==
    /\ Busy(c, "update")
    /\ cases' = [cases EXCEPT ![clerk[c].k] = Updated(@, clerk[c])]
    /\ Release(c)
    /\ UNCHANGED refund

-----------------------------------------------------------------------------
(* The decision of a refund closes the newest of its cases. *)

ReadRefund(c, decision) ==
    /\ Busy(c, "idle") /\ refund = "pending"
    /\ Take(c, [pc |-> "decide", decision |-> decision])
    /\ UNCHANGED <<refund, cases>>

RefundCases == {k \in DOMAIN cases : cases[k].refund}
Latest == CHOOSE k \in RefundCases : \A n \in RefundCases : n <= k

\* The refund is written first, which keeps other decisions waiting; an approval
\* alone looks at its status again.
FindCase(c) ==
    /\ Busy(c, "decide")
    /\ \A d \in Clerks : ~Busy(d, "sync")
    /\ IF clerk[c].decision = "approve" /\ refund # "pending"
       THEN Release(c)
       ELSE Take(c, [pc |-> "sync", decision |-> clerk[c].decision, k |-> Latest])
    /\ UNCHANGED <<refund, cases>>

Decided(case, decision) ==
    LET status == IF decision = "cancel" THEN "CANCELED" ELSE "RESOLVED"
    IN  [case EXCEPT !.status = status, !.resolved = TRUE, !.trail = status, !.told = "closed",
                     !.met = FALSE]

SyncRefundCaseDecision(c) ==
    /\ Busy(c, "sync")
    /\ refund' = "decided"
    /\ cases' = [cases EXCEPT ![clerk[c].k] = Decided(@, clerk[c].decision)]
    /\ Release(c)

-----------------------------------------------------------------------------

\* The process ends, or a query fails: a transaction leaves nothing behind.
RollBack(c) ==
    /\ ~Busy(c, "idle")
    /\ Release(c)
    /\ UNCHANGED <<refund, cases>>

DeskNext ==
    \/ \E c \in Clerks :
        \/ \E k \in DOMAIN cases, status \in CaseStates \union {"same"} : ReadIncident(c, k, status)
        \/ UpdateIncident(c)
        \/ \E decision \in {"approve", "reject", "cancel"} : ReadRefund(c, decision)
        \/ FindCase(c) \/ SyncRefundCaseDecision(c)
        \/ RollBack(c)
    \/ EnsureRefundDisputeCase
    \/ \E ofRefund, asDispute \in BOOLEAN : CreateIncident(ofRefund, asDispute)

DeskSpec == DeskInit /\ [][DeskNext]_deskVars

-----------------------------------------------------------------------------
(* Properties. *)

\* However updates and decisions overwrite each other, a case has a time of
\* resolution exactly while it is closed.  Its timeline ends with the status that
\* it has, unless that was last written by one who had read it before another's
\* change.  Participants who are told of their dispute at all know whether it is
\* closed, with the same exception and one more: a case set back to OPEN is
\* announced to them as closed.
CaseFileAgrees ==
    \A k \in DOMAIN cases :
        LET case == cases[k]
        IN  /\ case.resolved = CaseClosed(case.status)
            /\ case.met \/ case.trail = case.status
            /\ \/ case.met \/ case.told = "nothing" \/ case.status = "OPEN"
               \/ case.told = IF CaseClosed(case.status) THEN "closed" ELSE "open"
=============================================================================
