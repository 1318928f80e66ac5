------------------------------- MODULE MCJobs -------------------------------
(***************************************************************************)
(* What the two jobs that the API schedules for itself get done: the cycle *)
(* of the payments (Charges) and the sweep of overdue requests             *)
(* (ServiceRequests).  They share no row, so a behaviour is about one of   *)
(* the two, and the other part stays as it begins; neither scheduled job   *)
(* has anything to do there.                                               *)
(***************************************************************************)
EXTENDS MCCharges

CONSTANTS Asked, Providers, Nobody, Prices, Percents, Extensions, FeeBps, Lifetime,
          Calls, Timer, MaxNow

VARIABLES part, request, proposal, invitation, deal, offered, told, call, now

sweepVars == <<request, proposal, invitation, deal, offered, told, call, now>>

Sweep == INSTANCE ServiceRequests WITH Requests <- Asked, job <- deal

JobsInit == Init /\ Sweep!Init /\ part \in {"charge", "request"}

JobsNext == \/ part = "charge" /\ Next /\ UNCHANGED <<sweepVars, part>>
            \/ part = "request" /\ Sweep!Next /\ UNCHANGED <<vars, part>>

JobsSpec == /\ JobsInit /\ [][JobsNext]_<<vars, sweepVars, part>>
            /\ Fairness /\ Sweep!Fairness

\* A request does not stay open beyond its expiry while the sweep is scheduled
\* (onModuleInit of ServiceRequestsService): see ServiceRequests.
OverdueCloses == Sweep!OverdueCloses
=============================================================================
