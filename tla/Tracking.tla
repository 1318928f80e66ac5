------------------------------ MODULE Tracking ------------------------------
(***************************************************************************)
(* What visitors do, on its way to the ranking of workers: lib/tracking.ts *)
(* in each open page, the requests that carry its batches, the in-memory   *)
(* queue of TrackingService and its aggregates; and, beside it, the        *)
(* history that a browser keeps of what its pages saw.                     *)
(*                                                                         *)
(* A page's queue and counters live as long as the page, the history in    *)
(* localStorage is shared by the pages of a browser, the server's queue    *)
(* lives as long as its process.  An event is a name and what it is about: *)
(* a worker or a category (the code keeps the two in separate but equal    *)
(* maps).  Only the names that the pages report are told apart, so of the  *)
(* counters of a worker the clicks remain, and with them the interactions. *)
(***************************************************************************)
EXTENDS Naturals, FiniteSets, Sequences, SequencesExt, Bags

CONSTANTS
    Pages,        \* pages that share one localStorage
    Subjects,     \* workers and categories
    MaxIngest,    \* MAX_INGEST_EVENTS and the ArrayMaxSize of the payload: 200
    MaxQueue,     \* MAX_IN_MEMORY_QUEUE: 3000
    MaxCounter,   \* the cap of normalizeCounter: 10000
    RatingCounts, \* numbers of ratings a worker may have
    Decays,       \* percentages that a decay multiplier may be
    Stamps,       \* moments, as the clocks of the visitors tell them
    Events,       \* bound: events that are reported
    NoStore

ASSUME TrackingAssumption ==
    /\ {MaxIngest, MaxQueue, MaxCounter, Events} \subseteq Nat \ {0}
    /\ RatingCounts \subseteq Nat /\ Decays \subseteq 0 .. 100
    /\ Stamps \subseteq Nat \ {0}
    /\ NoStore \notin [Subjects -> Nat] /\ IsFiniteSet(Pages)

VARIABLES
    page,    \* the module state of lib/tracking.ts in each page
    store,   \* the history in localStorage
    post,    \* the batches on their way to the API
    server,  \* the queue, the flags and the batch of TrackingService
    db,      \* interactions of each subject in the aggregate tables
    latest,  \* lastEventAt of each subject there, 0 where there is no row
    clicks,  \* what was reported of each subject (history)
    lost,    \* what a failure lost of each subject (history)
    left     \* bound: events that may still be reported

vars == <<page, store, post, server, db, latest, clicks, lost, left>>

Zero == [s \in Subjects |-> 0]
Plus(f, g) == [s \in Subjects |-> f[s] + g[s]]

\* A click on a worker's card and the choice of a category are forwarded to
\* the API, with the time of the visitor's clock; a search is not.
Event  == [name : {"click"}, subject : Subjects, at : Stamps] \union {[name |-> "search"]}
Search == [name |-> "search"]
ShouldForward(e) == e # Search
Mine(s, batch) == {i \in DOMAIN batch : ShouldForward(batch[i]) /\ batch[i].subject = s}
Of(s, batch)  == Cardinality(Mine(s, batch))
Deltas(batch) == [s \in Subjects |-> Of(s, batch)]

NewPage == [queue |-> <<>>, scheduled |-> FALSE, timers |-> 0, index |-> 0,
            hydrated |-> FALSE, persisting |-> FALSE,
            history |-> Zero, session |-> Zero, last |-> Zero]
NewServer == [queue |-> <<>>, scheduled |-> FALSE, inProgress |-> FALSE, batch |-> <<>>]

Init ==
    /\ page = [p \in Pages |-> NewPage]
    /\ store = NoStore
    /\ post = EmptyBag
    /\ server = NewServer
    /\ db = Zero /\ latest = Zero /\ clicks = Zero /\ lost = Zero /\ left = Events

-----------------------------------------------------------------------------
(* A page. *)

Cap(n) == IF n > MaxCounter THEN MaxCounter ELSE n

\* The first event of a page adds what the browser remembers, and what was
\* found there is soon written back.
Hydrated(pg) ==
    IF pg.hydrated THEN pg
    ELSE [pg EXCEPT !.hydrated = TRUE,
                    !.history = IF store = NoStore THEN @
                                ELSE [s \in Subjects |-> @[s] + Cap(store[s])],
                    !.persisting = @ \/ store \notin {NoStore, Zero}]

\* updateBehaviorAggregation.
Counted(pg, e) ==
    IF e = Search THEN pg
    ELSE [pg EXCEPT !.session[e.subject] = @ + 1, !.last[e.subject] = pg.index,
                    !.persisting = TRUE]

\* scheduleTrackingFlush: one timer while flushScheduled, but a flush that
\* did not wait for its timer clears the flag and leaves the timer.
Queued(pg, e) ==
    [pg EXCEPT !.queue = Append(@, e), !.scheduled = TRUE,
               !.timers = IF pg.scheduled THEN @ ELSE @ + 1]

TrackEvent(p, e) ==
    LET indexed == [page[p] EXCEPT !.index = @ + 1]
    IN  page' = [page EXCEPT ![p] = Queued(Counted(Hydrated(indexed), e), e)]

Track(p, e) ==
    /\ left > 0
    /\ left' = left - 1
    /\ TrackEvent(p, e)
    /\ clicks' = Plus(clicks, Deltas(<<e>>))
    /\ UNCHANGED <<store, post, server, db, latest, lost>>

\* The filter of forwardTrackingEventsToBackend.
Forwarded(batch, e) == IF ShouldForward(e) THEN Append(batch, e) ELSE batch

\* flushTrackingQueue empties the queue and hands the batch to the transport,
\* which posts the events that the API knows, if there are any, and forgets.
FlushTrackingQueue(pg) ==
    LET batch == FoldLeft(Forwarded, <<>>, pg.queue)
    IN  /\ post' = IF batch = <<>> THEN post ELSE post (+) SetToBag({batch})
        /\ UNCHANGED <<left, store, server, db, latest, clicks, lost>>

Flushed(pg) == [pg EXCEPT !.queue = <<>>, !.scheduled = FALSE]

FlushTimer(p) ==
    /\ page[p].timers > 0
    /\ FlushTrackingQueue(page[p])
    /\ page' = [page EXCEPT ![p] = [Flushed(page[p]) EXCEPT !.timers = @ - 1]]

\* visibilitychange.
Hide(p) ==
    /\ page[p].queue # <<>>
    /\ FlushTrackingQueue(page[p])
    /\ page' = [page EXCEPT ![p] = Flushed(page[p])]

\* beforeunload: the batch leaves (keepalive), everything else of the page
\* goes with it, a history that was still to be written too.
Unload(p) ==
    /\ page[p].index > 0
    /\ FlushTrackingQueue(page[p])
    /\ page' = [page EXCEPT ![p] = NewPage]

\* persistBehaviorAggregation, 150 ms later: the last page to write wins.
PersistBehavior(p) ==
    /\ page[p].persisting
    /\ page' = [page EXCEPT ![p].persisting = FALSE]
    /\ store' = [s \in Subjects |-> Cap(page[p].history[s] + page[p].session[s])]
    /\ UNCHANGED <<left, post, server, db, latest, clicks, lost>>

\* The history is a week old, or of an unknown version, or storage is cleared.
Forget ==
    /\ store # NoStore
    /\ store' = NoStore
    /\ UNCHANGED <<left, page, post, server, db, latest, clicks, lost>>

-----------------------------------------------------------------------------
(* The API. *)

Sent == BagToSet(post)

Lose(batch) == lost' = Plus(lost, Deltas(batch))

\* The network, or the rate limit, or a payload of too many events.
PostFails(batch) ==
    /\ post' = post (-) SetToBag({batch})
    /\ Lose(batch)
    /\ UNCHANGED <<left, page, store, server, db, latest, clicks>>

Scheduled(sv) == [sv EXCEPT !.scheduled = TRUE]

\* What fits into the queue is accepted, the rest is dropped.
IngestEvents(batch) ==
    LET room     == MaxQueue - Len(server.queue)
        accepted == SubSeq(batch, 1, IF Len(batch) < room THEN Len(batch) ELSE room)
    IN  /\ Len(batch) =< MaxIngest
        /\ post' = post (-) SetToBag({batch})
        /\ server' = Scheduled([server EXCEPT !.queue = @ \o accepted])
        /\ Lose(SubSeq(batch, Len(accepted) + 1, Len(batch)))
        /\ UNCHANGED <<left, page, store, db, latest, clicks>>

\* Mutant: the batch is copied and stays in the queue.
FlushQueueCopy ==
    /\ server.scheduled /\ ~server.inProgress /\ server.queue # <<>>
    /\ server' = [server EXCEPT !.scheduled = FALSE, !.inProgress = TRUE,
                                !.batch = server.queue]
    /\ UNCHANGED <<page, store, post, db, latest, clicks, lost, left>>

\* One flush at a time: the timer of another is set again.
FlushQueue ==
    /\ server.scheduled
    /\ server' = IF server.inProgress THEN server
                 ELSE IF server.queue = <<>> THEN [server EXCEPT !.scheduled = FALSE]
                 ELSE [queue |-> <<>>, scheduled |-> FALSE,
                       inProgress |-> TRUE, batch |-> server.queue]
    /\ UNCHANGED <<left, page, store, post, db, latest, clicks, lost>>

\* Mutant: inProgress is cleared only where the transaction committed.
FinallyOnSuccess(failed) ==
    server' = [server EXCEPT !.inProgress = failed, !.batch = <<>>,
                             !.scheduled = @ \/ server.queue # <<>>]

Finally(failed) ==
    server' = [server EXCEPT !.inProgress = FALSE, !.batch = <<>>,
                             !.scheduled = @ \/ server.queue # <<>>]

\* The stamp that a batch leaves: that of its last event of the subject, be it
\* earlier or later than the one that is there.
LastEventAt(s, batch) ==
    IF Mine(s, batch) = {} THEN latest[s] ELSE batch[Max(Mine(s, batch))].at

\* persistDeltas is one transaction; a batch that fails is not kept.
PersistDeltas ==
    /\ server.batch # <<>>
    /\ Finally(FALSE)
    /\ db' = Plus(db, Deltas(server.batch))
    /\ latest' = [s \in Subjects |-> LastEventAt(s, server.batch)]
    /\ UNCHANGED <<left, page, store, post, clicks, lost>>

PersistFails ==
    /\ server.batch # <<>>
    /\ Finally(TRUE)
    /\ Lose(server.batch)
    /\ UNCHANGED <<left, page, store, post, db, latest, clicks>>

\* The process ends before or, with PersistDeltas, after its transaction.
Restart ==
    /\ server # NewServer
    /\ server' = NewServer
    /\ Lose(server.queue \o server.batch)
    /\ UNCHANGED <<left, page, store, post, db, latest, clicks>>

-----------------------------------------------------------------------------
(* The score of a worker on a page: quality + behaviour * stability * guard. *)

AtMost(n, m) == IF n < m THEN n ELSE m

\* Hundredths of a ten-thousandth: a click of an earlier session counts 55% of
\* its decayed weight, one of this session loses up to 45% of its weight while
\* the visitor does other things (RECENCY_EVENT_WINDOW), no more than 24 count.
Recency(pg, s) ==
    IF pg.last[s] = 0 THEN 3500 ELSE 3500 - 45 * AtMost(pg.index - pg.last[s], 35)
Behavior(pg, s, decay) ==
    42 * (20 * AtMost(pg.session[s], 24) * Recency(pg, s)
          + 7 * AtMost(55 * decay * pg.history[s], 240000))

Interactions(pg, s, decay) == 10000 * pg.session[s] + 55 * decay * pg.history[s]

Stability(pg, s, decay, ratings) ==
    45 * 1200000 + 55 * AtMost(100000 * AtMost(ratings, 20) + 11 * Interactions(pg, s, decay),
                               1200000)

\* Mutant: the two floors of the guard are swapped.
GuardSwapped(pg, s, decay, ratings) ==
    IF Interactions(pg, s, decay) < 15000 /\ ratings < 2 THEN 72
    ELSE IF Interactions(pg, s, decay) < 30000 /\ ratings < 4 THEN 52
    ELSE 100

Guard(pg, s, decay, ratings) ==
    IF Interactions(pg, s, decay) < 15000 /\ ratings < 2 THEN 52
    ELSE IF Interactions(pg, s, decay) < 30000 /\ ratings < 4 THEN 72
    ELSE 100

\* What resolveDecayMultiplier may make of the stamps at one moment: the later
\* the stamp, the more, and all there is for one that lies in the future.
Moments     == Stamps \union {0}
Multipliers ==
    {decay \in [Moments -> Decays] : \A t, u \in Moments : t =< u => decay[t] =< decay[u]}

\* The same in listWorkerRanking, in hundredths of a click's weight and in
\* hundredths of a twelfth of the evidence that is asked for.
RankBehavior(s, decay)    == 42 * db[s] * decay[latest[s]]
RankStability(s, ratings) == 45 * 120 + 55 * AtMost(10 * AtMost(ratings, 20) + 11 * db[s], 120)
RankGuard(s, ratings)     == IF db[s] < 3 /\ ratings < 4 THEN 72 ELSE 100

-----------------------------------------------------------------------------
Next ==
    \/ \E p \in Pages :
        \/ \E e \in Event : Track(p, e)
        \/ FlushTimer(p) \/ Hide(p) \/ Unload(p) \/ PersistBehavior(p)
    \/ Forget
    \/ \E batch \in Sent : PostFails(batch) \/ IngestEvents(batch)
    \/ FlushQueue \/ PersistDeltas \/ PersistFails \/ Restart

Spec == Init /\ [][Next]_vars

\* Timers fire and a transaction ends, one way or the other; visitors and the
\* network promise nothing.
FairSpec ==
    /\ Spec
    /\ \A p \in Pages : WF_vars(FlushTimer(p))
    /\ WF_vars(FlushQueue)
    /\ WF_vars(PersistDeltas \/ PersistFails)

-----------------------------------------------------------------------------
(* Properties. *)

OnPages(s)  == SumFunction([p \in Pages |-> Of(s, page[p].queue)])
OnTheWay(s) ==
    SumFunction([batch \in Sent |-> post[batch] * Of(s, batch)])

\* A click is in one place: still on its page, on its way, in the server's
\* memory or in the aggregates, unless a failure lost it.  It never counts
\* twice in the ranking, and nothing that the ranking counts was not clicked.
\* Nor does it count twice in what a browser remembers: however often pages are
\* opened, left and reloaded, no page adds up a history that already holds its
\* own clicks.
EveryClickCountsOnce ==
    \A s \in Subjects :
        /\ clicks[s] = OnPages(s) + OnTheWay(s) + Of(s, server.queue) + Of(s, server.batch)
                       + db[s] + lost[s]
        /\ store # NoStore => store[s] =< clicks[s]
        /\ \A p \in Pages : page[p].history[s] + page[p].session[s] =< clicks[s]

\* What a step may do to the factors of a worker's score: on the page where it
\* happens a click lowers none, and those that the API ranks by fall only when
\* the aggregate's lastEventAt moves back, the clicks then counting as older.
FactorsHold(s) ==
    /\ \A p \in Pages, decay \in Decays :
          (page'[p].session[s] = page[p].session[s] + 1 /\ page[p].hydrated) =>
              /\ Behavior(page[p], s, decay) =< Behavior(page'[p], s, decay)
              /\ \A ratings \in RatingCounts :
                  /\ Stability(page[p], s, decay, ratings)
                       =< Stability(page'[p], s, decay, ratings)
                  /\ Guard(page[p], s, decay, ratings)
                       =< Guard(page'[p], s, decay, ratings)
    /\ latest[s] =< latest'[s] =>
          \A decay \in Multipliers : RankBehavior(s, decay) =< RankBehavior(s, decay)'
    /\ \A ratings \in RatingCounts :
        /\ RankStability(s, ratings) =< RankStability(s, ratings)'
        /\ RankGuard(s, ratings) =< RankGuard(s, ratings)'

\* On the page where it happens a click never counts against its worker:
\* neither the behaviour, nor the trust in the evidence, nor the guard against
\* small samples falls with it, so the score does not.  Nor does a flush lower a
\* factor of the score that the API ranks by, as long as it does not put an
\* earlier lastEventAt in the place of a later one: with a batch that comes late
\* or from a slow clock it may, and the decay then weighs all the worker's
\* clicks as older ones (persistDeltas overwrites the stamp).
ClickNeverHurts == [][\A s \in Subjects : FactorsHold(s)]_vars

\* What reached the server's memory does not stay there, and the events of a
\* page do not stay on the page, whatever fails and restarts on the way.
EventsMoveOn ==
    /\ (server.queue # <<>> \/ server.inProgress)
         ~> (server.queue = <<>> /\ ~server.inProgress)
    /\ \A p \in Pages : page[p].queue # <<>> ~> page[p].queue = <<>>
=============================================================================
