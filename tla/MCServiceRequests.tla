------------------------- MODULE MCServiceRequests -------------------------
(* Instances of ServiceRequests for TLC. *)
EXTENDS ServiceRequests, TLC

\* The bound of the run: a second request is looked at where it appears and not
\* followed any further (the run `jobs' follows two), and the providers ask for
\* three different prices between them.
Bounded ==
    /\ \A r \in Requests : Exists(request[r]) => r = CHOOSE q \in Requests : TRUE
    /\ Cardinality(offered) <= 3

Interchangeable == Permutations(Calls) \union Permutations(Providers)
=============================================================================
