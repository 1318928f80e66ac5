---------------------------- MODULE Suggestions ----------------------------
(***************************************************************************)
(* The workers that the customer's page suggests for a request, and the    *)
(* comparison of two places on which the suggestions and the provider's    *)
(* inbox rest (request-worker-recommendations, loadRecommendedWorkers).    *)
(*                                                                         *)
(* Each new copy of the request starts a search of its own and turns its   *)
(* predecessors off; the answers of the API come in any order.  A place is *)
(* the sequence of its segments, each a sequence of words, with the words  *)
(* the parser throws away left out already.  A name of a municipality is   *)
(* one word.                                                               *)
(***************************************************************************)
EXTENDS Naturals, Sequences, FiniteSets, SequencesExt

CONSTANTS
    Workers,     \* the providers; an available one may be suggested
    Places,      \* the places of requests and of workers
    Nowhere,     \* a place that was not given
    Region,      \* the known municipalities, each with its region
    NoRegion,    \* the region of those that belong to none
    MaxShown,    \* how many workers are suggested (6 in the code)
    MaxCopies    \* bound: copies of the request that the page shows

VARIABLES
    wanted,      \* the request as the page shows it
    search,      \* the searches under way
    shown,       \* the suggestions, and the candidates they were taken from
    copies       \* how many copies of the request the page has shown

suggestionVars == <<wanted, search, shown, copies>>

-----------------------------------------------------------------------------
(* Places.                                                                  *)

Text(place) == FlattenSeq(place)
City(place) == IF Text(place)[1] \in DOMAIN Region THEN {Text(place)[1]} ELSE {}
Zone(place) ==
    IF Len(place) > 1 THEN FlattenSeq(Tail(place))
    ELSE IF City(place) # {} THEN Tail(Text(place)) ELSE <<>>
Words(place) == ToSet(Text(place))

\* A place is a text that somebody wrote.
ASSUME PlacesAssumption == \A place \in Places : IsFiniteSet(Words(place))

\* buildLocationMatch: 4 in the same zone, 3 in the same town, 2 near, 1 perhaps.
Proximity(a, b) ==
    LET shared == Cardinality(Words(a) \intersect Words(b))
        towns  == City(a) \X City(b)
    IN  IF a = Nowhere \/ b = Nowhere THEN 0
        ELSE IF Text(a) = Text(b) THEN 4
        ELSE IF \E t \in towns : t[1] = t[2]
             THEN IF Zone(a) = Zone(b) /\ Zone(a) # <<>> THEN 4 ELSE 3
        ELSE IF \E t \in towns : Region[t[1]] = Region[t[2]] /\ Region[t[1]] # NoRegion
             THEN 2
        ELSE IF shared >= 2 THEN 2 ELSE shared

-----------------------------------------------------------------------------
(* The choice among the candidates `pool', each with a place, a rating and  *)
(* whether the category fits.                                               *)

Before(request, v, w) ==
    LET near(x) == Proximity(request.place, x.place)
    IN \/ near(v) > near(w)
       \/ near(v) = near(w) /\ v.rating > w.rating

Eligible(request, pool) ==
    LET fitting == {w \in pool : w.fits}
        base == IF fitting # {} THEN fitting ELSE pool
    IN {w \in base : w.who \notin request.proposed}

\* Only near workers if there are any, else those of the region, else all.
Stage(request, eligible) ==
    LET within(n) == {w \in eligible : Proximity(request.place, w.place) >= n}
    IN IF request.place = Nowhere THEN eligible
       ELSE IF within(3) # {} THEN within(3)
       ELSE IF within(2) # {} THEN within(2) ELSE eligible

\* The suggestions: equal candidates keep the order of the answer, any order here.
Suggested(request, pool) ==
    LET stage == Stage(request, Eligible(request, pool))
        size == IF Cardinality(stage) < MaxShown THEN Cardinality(stage) ELSE MaxShown
    IN {some \in SUBSET stage :
           /\ Cardinality(some) = size
           /\ \A v \in stage \ some, w \in some : ~Before(request, v, w)}

-----------------------------------------------------------------------------
(* The searches.                                                            *)

Nobody == [some |-> {}, of |-> {}]

Candidates == [place : Places \union {Nowhere}, rating : 0..1, fits : BOOLEAN]
Pools ==
    UNION {{{[who |-> w, place |-> f[w].place, rating |-> f[w].rating, fits |-> f[w].fits] : w \in some}
               : f \in [some -> Candidates]} : some \in SUBSET Workers}

\* Mutant: a search that was turned off still shows its result.
StillWanted(s) == TRUE
IsWanted(s) == s.active

\* The page shows another copy of the request, still open or no longer.
ShowCopy(place, proposed, open) ==
    /\ copies < MaxCopies
    /\ copies' = copies + 1
    /\ wanted' = [place |-> place, proposed |-> proposed, open |-> open]
    /\ LET old == {[s EXCEPT !.active = FALSE] : s \in search}
       IN IF open
          THEN /\ search' = old \union {[for |-> wanted', copy |-> copies', active |-> TRUE]}
               /\ UNCHANGED shown
          ELSE search' = old /\ shown' = Nobody

\* A search is answered: the available workers of the category, or, if there is
\* none, those of the catalogue.
Answered(s) ==
    /\ search' = search \ {s}
    /\ IF IsWanted(s)
       THEN \E pool \in Pools :
               LET candidates == IF \E w \in pool : w.fits THEN {w \in pool : w.fits} ELSE pool
               IN \E some \in Suggested(s.for, candidates) :
                     shown' = [some |-> some, of |-> pool]
       ELSE UNCHANGED shown
    /\ UNCHANGED <<wanted, copies>>

Fails(s) ==
    /\ search' = search \ {s}
    /\ shown' = IF IsWanted(s) THEN Nobody ELSE shown
    /\ UNCHANGED <<wanted, copies>>

SuggestionsInit ==
    /\ wanted = [place |-> Nowhere, proposed |-> {}, open |-> FALSE]
    /\ search = {} /\ shown = Nobody /\ copies = 0

SuggestionsNext ==
    \/ \E place \in Places \union {Nowhere}, proposed \in SUBSET Workers, open \in BOOLEAN :
          ShowCopy(place, proposed, open)
    \/ \E s \in search : Answered(s) \/ Fails(s)

SuggestionsSpec == SuggestionsInit /\ [][SuggestionsNext]_suggestionVars

-----------------------------------------------------------------------------
\* The filter by stages, the sort and the cut are written apart, and answers
\* of earlier searches may arrive last.  Once no search is on, the suggestions
\* are taken for the request that the page shows: nobody who has proposed,
\* nobody from outside the category while it has a worker, and nobody farther
\* away than a worker who is left out.
SuggestionsFit ==
    (\A s \in search : ~s.active) =>
        LET left == {w \in shown.of \ shown.some :
                        /\ w.who \notin wanted.proposed
                        /\ w.fits \/ \A v \in shown.of : ~v.fits}
        IN \A w \in shown.some :
              /\ wanted.open /\ w.who \notin wanted.proposed
              /\ w.fits \/ \A v \in shown.of : ~v.fits
              /\ \A v \in left : Proximity(wanted.place, v.place)
                                     <= Proximity(wanted.place, w.place)
=============================================================================
