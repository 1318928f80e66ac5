------------------------------- MODULE Deals -------------------------------
(***************************************************************************)
(* What the request marketplace promises its users, whatever its handlers  *)
(* interleave: a published request gathers offers until it lapses, and at  *)
(* most one of the offers becomes the deal, once and for good.             *)
(*                                                                         *)
(* A request that lapses while its owner is choosing may still be dealt:   *)
(* selectProposal does not look at the status again when it writes.        *)
(***************************************************************************)
CONSTANTS Requests, Providers, Prices, NoDeal

VARIABLES
    phase,   \* what the request's status tells its owner
    offers,  \* every price a provider has asked for a request
    deal     \* the offer that was taken

vars == <<phase, offers, deal>>

Offers == [request : Requests, provider : Providers, price : Prices]

Init ==
    /\ phase = [r \in Requests |-> "absent"]
    /\ offers = {}
    /\ deal = [r \in Requests |-> NoDeal]

Publish(r) ==
    /\ phase[r] = "absent"
    /\ phase' = [phase EXCEPT ![r] = "OPEN"]
    /\ UNCHANGED <<offers, deal>>

Offer(o) ==
    /\ phase[o.request] # "absent"
    /\ offers' = offers \union {o}
    /\ UNCHANGED <<phase, deal>>

\* Any number of open requests lapse together.
Lapse(lapsing) ==
    /\ \A r \in lapsing : phase[r] = "OPEN"
    /\ phase' = [r \in Requests |-> IF r \in lapsing THEN "EXPIRED" ELSE phase[r]]
    /\ UNCHANGED <<offers, deal>>

Strike(o) ==
    /\ o \in offers
    /\ phase[o.request] \in {"OPEN", "EXPIRED"}
    /\ phase' = [phase EXCEPT ![o.request] = "CLOSED"]
    /\ deal' = [deal EXCEPT ![o.request] = o]
    /\ UNCHANGED offers

Next == \/ \E r \in Requests : Publish(r)
        \/ \E o \in Offers : Offer(o) \/ Strike(o)
        \/ \E lapsing \in SUBSET Requests : Lapse(lapsing)

Spec == Init /\ [][Next]_vars
=============================================================================
