------------------------------ MODULE Charges ------------------------------
(***************************************************************************)
(* How a customer's payment is charged, confirmed and booked.              *)
(*                                                                         *)
(* PaymentsService.createIntent, payIntent, handleWebhook and              *)
(* reconcileTransaction with the applyGatewayStatus they share, the        *)
(* reconciliation runner, and the part of JobsService that depends on      *)
(* payments: updateStatus, which asks for a paid intent before the work    *)
(* goes on and cancels the open intents of a cancelled job.                *)
(*                                                                         *)
(* Every handler runs as a request of its own, and an `await' between what *)
(* it reads and what it writes is a step boundary: `req[r]' is what        *)
(* request r has in hand there.  A `$transaction' locks the payment row it *)
(* updates first (READ COMMITTED), reads, and writes everything when it    *)
(* commits, or is aborted and writes nothing.                              *)
(***************************************************************************)
EXTENDS PaymentPolicy, FiniteSets

CONSTANTS
    Jobs,          \* jobs created by a selected proposal
    Intents,       \* ids of payment intents
    DepositOf,     \* the deposit intent created together with each job
    Keys,          \* idempotency keys: one payment transaction row each
    Refs,          \* provider references: one charge at the gateway each
    Events,        \* external event ids of the provider's webhooks
    NoEvent,       \* what a status that no webhook brought carries instead
    Reqs,          \* HTTP requests in flight
    Runner,        \* the request of the reconciliation runner
    ChargeAnswers, \* what requestCharge may answer
    Forced,        \* answers an operator's `simulate' option may force
    Notices,       \* statuses that INTERNAL notifications may bring
    MaxRestarts,   \* bound: restarts of the API process
    MaxAborts      \* bound: database transactions that are aborted

ASSUME ChargesAssumption ==
    /\ DepositOf \in [Jobs -> Intents]
    /\ \A j, k \in Jobs : DepositOf[j] = DepositOf[k] => j = k
    /\ Runner \notin Reqs
    /\ NoEvent \notin Events
    /\ ChargeAnswers \subseteq GatewayStatus
    /\ Forced \subseteq GatewayStatus
    /\ Notices \subseteq GatewayStatus
    /\ MaxRestarts \in Nat
    /\ MaxAborts \in Nat

JobStatus == {"REQUESTED", "ACCEPTED", "IN_PROGRESS", "COMPLETED", "CANCELED"}
Started   == {"ACCEPTED", "IN_PROGRESS", "COMPLETED"}
OpenOrPaid == {"AWAITING_PAYMENT", "PENDING_CONFIRMATION"} \union PaidStatus
Payable    == {"AWAITING_PAYMENT", "PENDING_CONFIRMATION", "FAILED"}

NoRow    == [status |-> "absent"]
Handlers == Reqs \union {Runner}

VARIABLES
    job,      \* the job rows: status and whether contact is unlocked
    intent,   \* the payment intent rows
    txn,      \* the payment transaction rows (type CHARGE), by idempotency key
    charges,  \* CUSTOMER_CHARGE ledger groups booked for each transaction
    gw,       \* the provider's own state of each charge
    known,    \* charges the adapter's in-memory map still knows
    said,     \* everything the gateway has answered or notified, by charge
    sent,     \* webhooks the provider has sent and may deliver again
    noticed,  \* what INTERNAL notifications have said of each transaction
    events,   \* payment event rows, unique by external id
    applied,  \* how often each event's status was applied (history)
    req,      \* what each request in flight has in hand
    queue,    \* transactions the runner's current cycle still has to visit
    restarts, aborts

vars == <<job, intent, txn, charges, gw, known, said, sent, noticed, events,
          applied, req, queue, restarts, aborts>>

database == <<job, intent, txn, charges, events, applied>>
provider == <<gw, known, said, sent, noticed>>
limits   == <<restarts, aborts>>

Idle == [pc |-> "idle"]

IntentRow  == [job : Jobs, deposit : BOOLEAN, status : IntentStatus]
TxnRow     == [intent : Intents, ref : Refs, status : TxStatus]
Apply      == [pc : {"insert", "ready", "locked", "checked"},
               key : Keys, intent : Intents, ref : Refs,
               status : GatewayStatus, event : Events \union {NoEvent},
               write : BOOLEAN, book : BOOLEAN]

HasIntent(i) == intent[i].status # "absent"
HasTxn(k)    == txn[k].status # "absent"
Paid(i)      == intent[i].status \in PaidStatus

\* The deposit row that selectProposal creates along with the job.
DepositRow(j) == [job |-> j, deposit |-> TRUE, status |-> "AWAITING_PAYMENT"]

Init ==
    /\ job = [j \in Jobs |-> [status |-> "REQUESTED", unlocked |-> FALSE]]
    /\ intent = [i \in Intents |->
                   IF \E j \in Jobs : DepositOf[j] = i
                   THEN DepositRow(CHOOSE j \in Jobs : DepositOf[j] = i)
                   ELSE NoRow]
    /\ txn = [k \in Keys |-> NoRow]
    /\ charges = [k \in Keys |-> 0]
    /\ gw = [f \in Refs |-> "none"]
    /\ known = {}
    /\ said = [f \in Refs |-> {}]
    /\ sent = {}
    /\ noticed = [k \in Keys |-> {}]
    /\ events = [e \in Events |-> "none"]
    /\ applied = [e \in Events |-> 0]
    /\ req = [r \in Handlers |-> Idle]
    /\ queue = {}
    /\ restarts = 0
    /\ aborts = 0

Goto(r, step) == req' = [req EXCEPT ![r] = step]
At(r, pc)     == req[r].pc = pc

-----------------------------------------------------------------------------
(* PaymentsService.createIntent: check, await, create. *)

HasOpenOrPaid(j) == \E i \in Intents : HasIntent(i) /\ intent[i].job = j
                                        /\ intent[i].status \in OpenOrPaid

\* An open or paid intent of the job is returned as it is.
CreateIntentCheck(r, j) ==
    /\ At(r, "idle")
    /\ ~HasOpenOrPaid(j)
    /\ Goto(r, [pc |-> "create", job |-> j])
    /\ UNCHANGED <<database, provider, queue, limits>>

CreateIntent(r) ==
    /\ At(r, "create")
    /\ \E i \in Intents :
         /\ ~HasIntent(i)
         /\ intent' = [intent EXCEPT ![i] =
              [job |-> req[r].job, deposit |-> FALSE, status |-> "AWAITING_PAYMENT"]]
    /\ Goto(r, Idle)
    /\ UNCHANGED <<job, txn, charges, events, applied, provider, queue, limits>>

-----------------------------------------------------------------------------
(* PaymentsService.payIntent: read the intent, ask the gateway outside any  *)
(* transaction, then record the outcome inside one.                         *)

IsPayable(i) == intent[i].status \in Payable

PayIntent(r, i, k) ==
    /\ At(r, "idle")
    /\ IsPayable(i)
    /\ Goto(r, [pc |-> "pay", intent |-> i, key |-> k])
    /\ UNCHANGED <<database, provider, queue, limits>>

\* The key was used for this intent before: the intent is returned as it is.
KeyAlreadyUsed(k, i) == HasTxn(k) /\ txn[k].intent = i

PayReturnExisting(r) ==
    /\ At(r, "pay")
    /\ KeyAlreadyUsed(req[r].key, req[r].intent)
    /\ Goto(r, Idle)
    /\ UNCHANGED <<database, provider, queue, limits>>

\* requestCharge: the adapter makes a new provider reference on every call,
\* whatever the idempotency key.
RequestCharge(r) ==
    /\ At(r, "pay")
    /\ ~KeyAlreadyUsed(req[r].key, req[r].intent)
    /\ \E f \in Refs, s \in ChargeAnswers :
         /\ gw[f] = "none"
         /\ gw' = [gw EXCEPT ![f] = s]
         /\ known' = known \union {f}
         /\ said' = [said EXCEPT ![f] = @ \union {s}]
         /\ Goto(r, [pc |-> "insert", key |-> req[r].key, ref |-> f, status |-> s,
                     intent |-> req[r].intent, event |-> NoEvent,
                     write |-> FALSE, book |-> FALSE])
    /\ UNCHANGED <<database, sent, noticed, queue, limits>>

\* Mutant of RowLocked: no row lock, as if the ledger were checked before the
\* first update.
RowNeverLocked(k) == FALSE

\* Another transaction holds the row: it has written it and not committed.
RowLocked(k) == \E q \in Handlers : /\ req[q].pc \in {"locked", "checked"}
                                    /\ req[q].key = k

\* The transaction inserts the payment row under its unique key ...
InsertTransaction(r) ==
    /\ At(r, "insert")
    /\ ~HasTxn(req[r].key)
    /\ ~RowLocked(req[r].key)
    /\ Goto(r, [req[r] EXCEPT !.pc = "locked"])
    /\ UNCHANGED <<database, provider, queue, limits>>

\* ... and the unique index rejects a key that is taken: payIntent throws.
InsertConflict(r) ==
    /\ At(r, "insert")
    /\ HasTxn(req[r].key)
    /\ Goto(r, Idle)
    /\ UNCHANGED <<database, provider, queue, limits>>

-----------------------------------------------------------------------------
(* applyGatewayStatus, shared by pay, webhook and reconcile.  Its first     *)
(* statement updates the payment row and so locks it until the commit.      *)

LockTransaction(r) ==
    /\ At(r, "ready")
    /\ ~RowLocked(req[r].key)
    /\ Goto(r, [req[r] EXCEPT !.pc = "locked"])
    /\ UNCHANGED <<database, provider, queue, limits>>

\* Mutants of MustBook: an accepted charge booked as if confirmed; entries
\* looked for by intent instead of by transaction.
MustBookAccepted(k, s) == s \in {"SUCCEEDED", "PENDING"} /\ charges[k] = 0
MustBookForIntent(k, s) ==
    s = "SUCCEEDED" /\ \A l \in Keys : charges[l] > 0 => txn[l].intent # txn[k].intent

\* ensureChargeLedgerEntries looks for entries of this transaction.
MustBook(k, s) == s = "SUCCEEDED" /\ charges[k] = 0

\* What a status makes of an intent.
NextIntentStatus(i, s) == IntentStatusOf(s, intent[i].deposit)

\* The intent is read before the ledger is, and left alone when it already
\* reads what it should; both decisions are carried out at the commit.
EnsureCharge(r) ==
    LET a == req[r]
    IN  /\ At(r, "locked")
        /\ Goto(r, [a EXCEPT
              !.pc    = "checked",
              !.write = (intent[a.intent].status # NextIntentStatus(a.intent, a.status)),
              !.book  = MustBook(a.key, a.status)])
        /\ UNCHANGED <<database, provider, queue, limits>>

\* Mutant of Unlocks: contact opened by an accepted charge.
UnlocksWhenAccepted(s) == s # "FAILED"

\* A status that sets contactUnlockedAt.
Unlocks(s) == s = "SUCCEEDED"

AfterCommit(event) == IF event = NoEvent THEN Idle
                      ELSE [pc |-> "mark", event |-> event]

CommitStatus(r) ==
    LET a == req[r]
    IN  /\ At(r, "checked")
        /\ txn' = [txn EXCEPT ![a.key] = [intent |-> a.intent, ref |-> a.ref,
                                          status |-> TxStatusOf(a.status)]]
        /\ intent' = IF a.write
                     THEN [intent EXCEPT ![a.intent].status =
                             NextIntentStatus(a.intent, a.status)]
                     ELSE intent
        /\ charges' = [charges EXCEPT ![a.key] = IF a.book THEN @ + 1 ELSE @]
        /\ job' = IF Unlocks(a.status)
                  THEN [job EXCEPT ![intent[a.intent].job].unlocked = TRUE]
                  ELSE job
        /\ applied' = [e \in Events |-> IF e = a.event THEN applied[e] + 1
                                        ELSE applied[e]]
        /\ Goto(r, AfterCommit(a.event))
        /\ UNCHANGED <<events, provider, queue, limits>>

\* A deadlock, a timeout or a lost connection aborts the transaction; the
\* handler rethrows and the row is as it was.
Abort(r) ==
    /\ req[r].pc \in {"locked", "checked", "updateJob"}
    /\ aborts < MaxAborts
    /\ aborts' = aborts + 1
    /\ Goto(r, Idle)
    /\ UNCHANGED <<database, provider, queue, restarts>>

-----------------------------------------------------------------------------
(* PaymentsService.handleWebhook: look for the event, store it, find the    *)
(* transaction, apply the status, mark the event processed.                 *)

EventIsNew(e) == events[e] = "none"

WebhookLookup(r) ==
    /\ At(r, "idle")
    /\ \E m \in sent :
         /\ EventIsNew(m.event)
         /\ Goto(r, [pc |-> "store", event |-> m.event, ref |-> m.ref,
                     status |-> m.status])
    /\ UNCHANGED <<database, provider, queue, limits>>

\* Mutant of StoreEvent: no unique index on the event id.
StoreAnyEvent(r) ==
    /\ At(r, "store")
    /\ events' = [events EXCEPT ![req[r].event] = "stored"]
    /\ Goto(r, [req[r] EXCEPT !.pc = "find"])
    /\ UNCHANGED <<job, intent, txn, charges, applied, provider, queue, limits>>

StoreEvent(r) ==
    /\ At(r, "store")
    /\ EventIsNew(req[r].event)
    /\ events' = [events EXCEPT ![req[r].event] = "stored"]
    /\ Goto(r, [req[r] EXCEPT !.pc = "find"])
    /\ UNCHANGED <<job, intent, txn, charges, applied, provider, queue, limits>>

\* The unique index on (provider, externalEventId) rejects a second copy.
StoreConflict(r) ==
    /\ At(r, "store")
    /\ ~EventIsNew(req[r].event)
    /\ Goto(r, Idle)
    /\ UNCHANGED <<database, provider, queue, limits>>

ReadyToApply(k, s, e) ==
    [pc |-> "ready", key |-> k, ref |-> txn[k].ref, intent |-> txn[k].intent,
     status |-> s, event |-> e, write |-> FALSE, book |-> FALSE]

FindTransaction(r) ==
    /\ At(r, "find")
    /\ \E k \in Keys :
         /\ HasTxn(k)
         /\ txn[k].ref = req[r].ref
         /\ Goto(r, ReadyToApply(k, req[r].status, req[r].event))
    /\ UNCHANGED <<database, provider, queue, limits>>

\* Nothing to apply it to: the event stays unprocessed.
TransactionNotFound(r) ==
    /\ At(r, "find")
    /\ \A k \in Keys : ~(HasTxn(k) /\ txn[k].ref = req[r].ref)
    /\ Goto(r, Idle)
    /\ UNCHANGED <<database, provider, queue, limits>>

MarkProcessed(r) ==
    /\ At(r, "mark")
    /\ events' = [events EXCEPT ![req[r].event] = "processed"]
    /\ Goto(r, Idle)
    /\ UNCHANGED <<job, intent, txn, charges, applied, provider, queue, limits>>

\* A notification of the provider INTERNAL: handleWebhook asks it for neither a
\* signature nor an event id, and finds the transaction by the id it names,
\* whichever provider the transaction is of.  Without an event id no two
\* copies of it are told apart, and the transaction it found never goes away.
InternalWebhook(r, k, s) ==
    /\ At(r, "idle")
    /\ HasTxn(k)
    /\ noticed' = [noticed EXCEPT ![k] = @ \union {s}]
    /\ Goto(r, ReadyToApply(k, s, NoEvent))
    /\ UNCHANGED <<database, gw, known, said, sent, queue, limits>>

-----------------------------------------------------------------------------
(* reconcileTransaction: read the row, query the gateway, apply the answer. *)

\* The adapter answers from its map; a charge it does not know is PENDING.
QueryStatus(f) == IF f \in known THEN gw[f] ELSE "PENDING"

Query(r, k, s) ==
    /\ s \in {QueryStatus(txn[k].ref)} \union Forced
    /\ said' = [said EXCEPT ![txn[k].ref] = @ \union {s}]
    /\ Goto(r, ReadyToApply(k, s, NoEvent))

ReconcileTransaction(r, k) ==
    /\ At(r, "idle")
    /\ HasTxn(k)
    /\ \E s \in GatewayStatus : Query(r, k, s)
    /\ UNCHANGED <<database, gw, known, sent, noticed, queue, limits>>

\* Mutant of IsPendingCharge: the gateway's word for the status, not the row's.
IsPendingAnswer(k) == txn[k].status = "PENDING"

\* What the runner's query selects.  The rows of one cycle fit in its limit,
\* and the minimum age has passed.
IsPendingCharge(k) == txn[k].status = "PROCESSING"

\* The runner's cycle: the pending charges of the moment, one by one.  It
\* starts no cycle while one runs, and the query for pending rows is not
\* repeated before the rows are visited.
RunnerScan ==
    /\ At(Runner, "idle")
    /\ queue = {}
    /\ queue' = {k \in Keys : IsPendingCharge(k)}
    /\ queue' # {}
    /\ UNCHANGED <<database, provider, req, limits>>

RunnerVisit ==
    /\ At(Runner, "idle")
    /\ \E k \in queue : /\ Query(Runner, k, QueryStatus(txn[k].ref))
                        /\ queue' = queue \ {k}
    /\ UNCHANGED <<database, gw, known, sent, noticed, limits>>

-----------------------------------------------------------------------------
(* JobsService.updateStatus: read the job, check the payment, write.        *)

IsTransitionAllowed(current, next, role) ==
    /\ current \notin {"COMPLETED", "CANCELED"}
    /\ \/ next = "CANCELED"
       \/ /\ role = "worker"
          /\ <<current, next>> \in {<<"REQUESTED", "ACCEPTED">>,
                                    <<"ACCEPTED", "IN_PROGRESS">>,
                                    <<"IN_PROGRESS", "COMPLETED">>}

ReadJob(r, j) ==
    /\ At(r, "idle")
    /\ Goto(r, [pc |-> "checkJob", job |-> j, current |-> job[j].status])
    /\ UNCHANGED <<database, provider, queue, limits>>

\* Mutant of PaymentReady: an open intent is enough.
PaymentOpen(j, next) ==
    next \in Started => \E i \in Intents : /\ intent[i].status \in OpenOrPaid
                                          /\ intent[i].job = j

PaymentReady(j, next) ==
    next \in Started => \E i \in Intents : Paid(i) /\ intent[i].job = j

CheckJob(r) ==
    /\ At(r, "checkJob")
    /\ \E next \in JobStatus, role \in {"client", "worker"} :
         /\ PaymentReady(req[r].job, next)
         /\ IsTransitionAllowed(req[r].current, next, role)
         /\ Goto(r, [pc |-> "updateJob", job |-> req[r].job, next |-> next])
    /\ UNCHANGED <<database, provider, queue, limits>>

\* No payment yet, or not this actor's transition: updateStatus throws.
RejectJob(r) ==
    /\ At(r, "checkJob")
    /\ \E next \in JobStatus, role \in {"client", "worker"} :
         ~(/\ PaymentReady(req[r].job, next)
           /\ IsTransitionAllowed(req[r].current, next, role))
    /\ Goto(r, Idle)
    /\ UNCHANGED <<database, provider, queue, limits>>

\* updateMany over the intents that a cancelled job leaves open.
CancelOpenIntents(j) ==
    [i \in Intents |->
        IF /\ HasIntent(i) /\ intent[i].job = j
           /\ intent[i].status \in {"AWAITING_PAYMENT", "PENDING_CONFIRMATION"}
        THEN [intent[i] EXCEPT !.status = "CANCELED"]
        ELSE intent[i]]

UpdateJob(r) ==
    LET u == req[r]
    IN  /\ At(r, "updateJob")
        /\ job' = [job EXCEPT ![u.job].status = u.next]
        /\ intent' = IF u.next = "CANCELED" THEN CancelOpenIntents(u.job)
                     ELSE intent
        /\ Goto(r, Idle)
        /\ UNCHANGED <<txn, charges, events, applied, provider, queue, limits>>

-----------------------------------------------------------------------------
(* The payment provider, and restarts of the API process.                   *)

\* A charge settles, or a settled one is reversed, at the provider.
ProviderSettles(f) ==
    /\ \E s \in GatewayStatus :
         /\ <<gw[f], s>> \in {<<"PENDING", "SUCCEEDED">>, <<"PENDING", "FAILED">>,
                              <<"SUCCEEDED", "REVERSED">>}
         /\ gw' = [gw EXCEPT ![f] = s]
    /\ UNCHANGED <<database, known, said, sent, noticed, req, queue, limits>>

\* The provider announces a charge's state; the webhook may arrive late,
\* more than once, or never.
ProviderNotifies(f, e) ==
    /\ gw[f] # "none"
    /\ \A m \in sent : m.event # e
    /\ sent' = sent \union {[event |-> e, ref |-> f, status |-> gw[f]]}
    /\ said' = [said EXCEPT ![f] = @ \union {gw[f]}]
    /\ UNCHANGED <<database, gw, known, noticed, req, queue, limits>>

\* Requests in flight are lost, open database transactions roll back, and
\* the adapters' maps start empty.
Restart ==
    /\ restarts < MaxRestarts
    /\ restarts' = restarts + 1
    /\ req' = [r \in Handlers |-> Idle]
    /\ queue' = {}
    /\ known' = {}
    /\ UNCHANGED <<database, gw, said, sent, noticed, aborts>>

-----------------------------------------------------------------------------
\* The steps that every status takes once it is to be applied.
ApplyStep(r) == LockTransaction(r) \/ EnsureCharge(r) \/ CommitStatus(r)

PayStep(r) == \/ PayReturnExisting(r) \/ RequestCharge(r)
              \/ InsertTransaction(r) \/ InsertConflict(r)

WebhookStep(r) == \/ StoreEvent(r) \/ StoreConflict(r) \/ FindTransaction(r)
                  \/ TransactionNotFound(r) \/ MarkProcessed(r)

Arrive(r) == \/ \E j \in Jobs : CreateIntentCheck(r, j) \/ ReadJob(r, j)
             \/ \E i \in Intents, k \in Keys : PayIntent(r, i, k)
             \/ WebhookLookup(r)
             \/ \E k \in Keys : \/ ReconcileTransaction(r, k)
                               \/ \E s \in Notices : InternalWebhook(r, k, s)

Continue(r) == \/ CreateIntent(r) \/ CheckJob(r) \/ RejectJob(r)
               \/ UpdateJob(r)
               \/ PayStep(r) \/ WebhookStep(r) \/ ApplyStep(r)

Provider == \E f \in Refs : \/ ProviderSettles(f)
                            \/ \E e \in Events : ProviderNotifies(f, e)

Next == \/ \E r \in Reqs : Arrive(r) \/ Continue(r)
        \/ RunnerScan \/ RunnerVisit \/ ApplyStep(Runner)
        \/ \E r \in Handlers : Abort(r)
        \/ Provider
        \/ Restart

Spec == Init /\ [][Next]_vars

\* Once a status is being applied, its transaction goes on to the end; the
\* row lock is granted in the order it was asked for; the runner's timer
\* starts a cycle again and again.  Nothing is assumed of the requests that
\* have not reached the database, nor of the provider.
Fairness ==
    /\ WF_vars(RunnerScan)
    /\ WF_vars(RunnerVisit)
    /\ SF_vars(LockTransaction(Runner))
    /\ \A r \in Handlers : WF_vars(EnsureCharge(r)) /\ WF_vars(CommitStatus(r))

FairSpec == Spec /\ Fairness

-----------------------------------------------------------------------------
(* What the handlers carry and the rows hold. *)

Requests ==
    {Idle} \union Apply
    \union [pc : {"create"}, job : Jobs]
    \union [pc : {"pay"}, intent : Intents, key : Keys]
    \union [pc : {"store", "find"}, event : Events, ref : Refs,
            status : GatewayStatus]
    \union [pc : {"mark"}, event : Events]
    \union [pc : {"checkJob"}, job : Jobs, current : JobStatus]
    \union [pc : {"updateJob"}, job : Jobs, next : JobStatus]

\* Every row, message and request in flight has the shape the code gives it.
TypeOK ==
    /\ job \in [Jobs -> [status : JobStatus, unlocked : BOOLEAN]]
    /\ intent \in [Intents -> IntentRow \union {NoRow}]
    /\ txn \in [Keys -> TxnRow \union {NoRow}]
    /\ charges \in [Keys -> Nat]
    /\ gw \in [Refs -> GatewayStatus \union {"none"}]
    /\ known \subseteq Refs
    /\ said \in [Refs -> SUBSET GatewayStatus]
    /\ sent \subseteq [event : Events, ref : Refs, status : GatewayStatus]
    /\ noticed \in [Keys -> SUBSET Notices]
    /\ events \in [Events -> {"none", "stored", "processed"}]
    /\ applied \in [Events -> Nat]
    /\ req \in [Handlers -> Requests]
    /\ queue \subseteq Keys
    /\ restarts \in 0..MaxRestarts
    /\ aborts \in 0..MaxAborts

-----------------------------------------------------------------------------
(* What the component promises. *)

IsBooked(k) == charges[k] > 0

\* However many webhooks, reconciliations and payment requests report one
\* transaction's success, and however they interleave, its charge is booked
\* in the ledger once: ensureChargeLedgerEntries under the row lock that
\* applyGatewayStatus takes with its first statement.
BookedOnce == \A k \in Keys : charges[k] <= 1

\* All that the program has been told of a charge.
Told(k, f) == said[f] \union noticed[k]

\* The ledger shows a customer charge only for a transaction whose success
\* was reported of that very transaction: by the gateway that was charged, in
\* an answer or in a webhook, or by an INTERNAL notification naming it.  A
\* success of another charge, or an answer that is not yet a success, books
\* nothing.  That an INTERNAL notification is enough, with no word of the
\* gateway, is what handleWebhook does; docs/PAYMENTS_SECURITY.md ("Fake
\* client-side `payment success' claims", "backend-confirmed payment state")
\* promises more.
BookedWasConfirmed ==
    \A k \in Keys : IsBooked(k) => HasTxn(k) /\ "SUCCEEDED" \in Told(k, txn[k].ref)

\* A transaction row that reads SUCCEEDED has its charge in the ledger: the
\* status and the entries are committed together or not at all.
SucceededIsBooked == \A k \in Keys : txn[k].status = "SUCCEEDED" => IsBooked(k)

\* The money of an intent that reads paid is in the ledger, although the
\* intent's status is written by every transaction of the intent and by the
\* cancellation of its job.
PaidIsBooked ==
    \A i \in Intents : Paid(i) => \E k \in Keys : IsBooked(k) /\ txn[k].intent = i

HasBookedPayment(j) ==
    \E k \in Keys : IsBooked(k) /\ intent[txn[k].intent].job = j

\* Contact between customer and provider is opened only by a payment that is
\* in the ledger (applyGatewayStatus sets contactUnlockedAt).
UnlockedIsPaid == \A j \in Jobs : job[j].unlocked => HasBookedPayment(j)

\* No provider works unpaid: a job accepted, in progress or completed has a
\* payment in the ledger, although updateStatus checks the intent long
\* before it writes the job and intents change status in between.
StartedIsPaid == \A j \in Jobs : job[j].status \in Started => HasBookedPayment(j)

\* A webhook event, delivered any number of times at once, is applied once:
\* handleWebhook's lookup may be passed by several copies, the unique index
\* by one.
EventAppliedOnce == \A e \in Events : applied[e] <= 1

-----------------------------------------------------------------------------
(* Why they hold: the inductive invariant. *)

InTransaction(r) == req[r].pc \in {"locked", "checked"}
Applying(r)      == req[r].pc \in {"insert", "ready", "locked", "checked"}
Delivering(r)    == req[r].pc \in {"store", "find"}

\* Requests and rows refer to intents that exist; rows are never deleted.
IntentsExist ==
    /\ \A r \in Handlers : At(r, "pay") \/ Applying(r) => HasIntent(req[r].intent)
    /\ \A k \in Keys : HasTxn(k) => HasIntent(txn[k].intent)
    /\ \A k \in Keys : IsBooked(k) \/ k \in queue => HasTxn(k)

\* A request that applies a status found the row, or holds the lock on the
\* key that it inserts, and the row's intent and reference never change.
SameRow ==
    \A r \in Handlers :
        /\ At(r, "ready") => HasTxn(req[r].key)
        /\ req[r].pc \in {"ready", "locked", "checked"} /\ HasTxn(req[r].key)
             => /\ txn[req[r].key].intent = req[r].intent
                /\ txn[req[r].key].ref = req[r].ref

\* Every status on its way into the database was reported by the gateway, or
\* by an INTERNAL notification of that transaction.
Heard ==
    /\ \A f \in known : gw[f] # "none"
    /\ \A w \in sent : w.status \in said[w.ref]
    /\ \A r \in Handlers : Applying(r) => req[r].status \in Told(req[r].key, req[r].ref)
    /\ \A r \in Handlers : Delivering(r) => req[r].status \in said[req[r].ref]

\* No two transactions are open on one payment row ...
OneWriter ==
    \A q, r \in Handlers : InTransaction(q) /\ InTransaction(r) /\ req[q].key = req[r].key
                           => q = r

\* ... so what one has found in the ledger stays true until it commits.
Decided ==
    \A r \in Handlers : At(r, "checked") => req[r].book = MustBook(req[r].key, req[r].status)

\* A job update on its way has seen a payment, and payments stay booked.
PaidBefore ==
    \A r \in Handlers : At(r, "updateJob") /\ req[r].next \in Started
                        => HasBookedPayment(req[r].job)

\* An event is in one request's hands, after its row was stored and before
\* its status was applied.
Carries(r, e) == (At(r, "find") \/ Applying(r)) /\ req[r].event = e

EventsOnce ==
    /\ \A e \in Events, r \in Handlers : Carries(r, e) => events[e] # "none" /\ applied[e] = 0
    /\ \A e \in Events, q, r \in Handlers : Carries(q, e) /\ Carries(r, e) => q = r
    /\ \A e \in Events : events[e] = "none" => applied[e] = 0

IndInv ==
    /\ TypeOK
    /\ IntentsExist /\ SameRow /\ Heard
    /\ OneWriter /\ Decided /\ BookedOnce /\ SucceededIsBooked
    /\ BookedWasConfirmed /\ PaidIsBooked
    /\ UnlockedIsPaid /\ PaidBefore /\ StartedIsPaid
    /\ EventsOnce /\ EventAppliedOnce

-----------------------------------------------------------------------------
(* What the repository's documents say and this code does not do. *)

\* "Double processing of transactions" is a threat addressed: an intent is
\* charged once.
ChargedOnce ==
    \A k, l \in Keys : IsBooked(k) /\ IsBooked(l) /\ txn[k].intent = txn[l].intent
                       => k = l

-----------------------------------------------------------------------------
\* A charge that succeeded at the provider is booked in the end, whether or
\* not its webhooks arrive, unless the provider reverses it first: the
\* runner finds the pending row and asks.  An INTERNAL notification that calls
\* it failed would take it out of the runner's sight, and is left out here.
ConfirmedIsBooked ==
    \A k \in Keys : \A f \in Refs :
        (HasTxn(k) /\ txn[k].ref = f /\ gw[f] = "SUCCEEDED")
            ~> (IsBooked(k) \/ gw[f] = "REVERSED")
=============================================================================
