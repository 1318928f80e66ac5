----------------------------- MODULE MCReports -----------------------------
(***************************************************************************)
(* How one charge comes to be reported many times, and one job to be       *)
(* charged more than once.  A behaviour is of one of three kinds, chosen   *)
(* at the start.  In `copies' the provider reports one charge over and     *)
(* over, and two at a time of the requests and the runner have it in hand; *)
(* in `attempts' one request at a time makes further charges, which the    *)
(* runner follows up, and no webhook arrives; in `notices' one charge is   *)
(* reported by INTERNAL notifications as well.                             *)
(***************************************************************************)
EXTENDS MCCharges

VARIABLE part

partVars == <<vars, part>>

Charged == {f \in Refs : gw[f] # "none"}
Busy    == {r \in Reqs : ~At(r, "idle")}

\* Keys that a row or a request has taken.
Taken == {k \in Keys : HasTxn(k)}
         \union {req[r].key : r \in {q \in Busy : At(q, "pay") \/ Applying(q)}}

PartInit == Init /\ part \in {"copies", "attempts", "notices"}

PartNext ==
    /\ Next
    /\ UNCHANGED part
    /\ part # "attempts" => Cardinality(Charged') <= 1 /\ Cardinality(Taken') <= 1
    /\ part = "copies" => Cardinality({h \in Handlers : req'[h].pc # "idle"}) <= 2
    /\ part = "attempts" => /\ sent' = {}
                            /\ \A f \in Refs : "FAILED" \in said[f]' => "PENDING" \in said[f]'
    /\ part # "copies" => Cardinality(Busy') <= 1 /\ sent' = {}
    /\ part # "notices" => UNCHANGED noticed

PartSpec == PartInit /\ [][PartNext]_partVars
=============================================================================
