--------------------------- MODULE Charges_proofs ---------------------------
(***************************************************************************)
(* That the safety invariants of Charges hold for any number of jobs,      *)
(* intents, charges, requests and webhooks.                                *)
(***************************************************************************)
EXTENDS Charges, TLAPS

USE ChargesAssumption

\* The statuses written by applyGatewayStatus are row statuses.
LEMMA StatusMaps ==
    ASSUME NEW g \in GatewayStatus, NEW d \in BOOLEAN
    PROVE  /\ TxStatusOf(g) \in TxStatus
           /\ IntentStatusOf(g, d) \in IntentStatus
           /\ TxStatusOf(g) = "SUCCEEDED" <=> g = "SUCCEEDED"
           /\ IntentStatusOf(g, d) \in PaidStatus <=> g = "SUCCEEDED"
  BY DEF GatewayStatus, TxStatus, IntentStatus, PaidStatus, TxStatusOf, IntentStatusOf

\* A row that is not absent has the fields of a row.
LEMMA RowsTyped ==
    ASSUME TypeOK
    PROVE  /\ \A i \in Intents : HasIntent(i) <=> intent[i] \in IntentRow
           /\ \A k \in Keys : HasTxn(k) <=> txn[k] \in TxnRow
  BY DEF TypeOK, HasIntent, HasTxn, IntentRow, TxnRow, NoRow, IntentStatus, TxStatus

\* What is in hand at each step of a handler.
LEMMA InHand ==
    ASSUME TypeOK, NEW r \in Handlers
    PROVE  /\ At(r, "create") => req[r] \in [pc : {"create"}, job : Jobs]
           /\ At(r, "pay") => req[r] \in [pc : {"pay"}, intent : Intents, key : Keys]
           /\ req[r].pc \in {"insert", "ready", "locked", "checked"} => req[r] \in Apply
           /\ req[r].pc \in {"store", "find"} =>
                req[r] \in [pc : {"store", "find"}, event : Events, ref : Refs,
                            status : GatewayStatus]
           /\ At(r, "mark") => req[r] \in [pc : {"mark"}, event : Events]
           /\ At(r, "checkJob") =>
                req[r] \in [pc : {"checkJob"}, job : Jobs, current : JobStatus]
           /\ At(r, "updateJob") =>
                req[r] \in [pc : {"updateJob"}, job : Jobs, next : JobStatus]
<1>1. req[r] \in Requests
  BY DEF TypeOK
<1> QED
  BY <1>1 DEF At, Requests, Idle, Apply

-----------------------------------------------------------------------------
LEMMA InitTypeOK == Init => TypeOK
<1> SUFFICES ASSUME Init PROVE TypeOK
  OBVIOUS
<1>1. \A i \in Intents : (\E j \in Jobs : DepositOf[j] = i)
        => (CHOOSE j \in Jobs : DepositOf[j] = i) \in Jobs
  OBVIOUS
<1>2. \A j \in Jobs : DepositRow(j) \in IntentRow
  BY DEF DepositRow, IntentRow, IntentStatus
<1>3. intent \in [Intents -> IntentRow \union {NoRow}]
  BY <1>1, <1>2 DEF Init
<1> QED
  BY <1>3 DEF Init, TypeOK, JobStatus, Requests

\* The steps that only move a request on.
LEMMA GotoTypeOK ==
    ASSUME TypeOK, NEW r \in Handlers, NEW s \in Requests, Goto(r, s),
           UNCHANGED <<database, provider, queue, limits>>
    PROVE  TypeOK'
  BY DEF TypeOK, Goto, database, provider, limits

\* What a row to be applied again carries, and what the gateway may say of it.
LEMMA QueryTyped ==
    ASSUME TypeOK, Heard, NEW r \in Handlers, NEW k \in Keys, HasTxn(k), NEW s, Query(r, k, s)
    PROVE  /\ txn[k] \in TxnRow
           /\ s \in GatewayStatus
           /\ ReadyToApply(k, s, NoEvent) \in Apply
<1>1. txn[k] \in TxnRow
  BY RowsTyped
<1>2. QueryStatus(txn[k].ref) \in GatewayStatus
  BY <1>1 DEF QueryStatus, TypeOK, TxnRow, GatewayStatus, Heard
<1>3. s \in GatewayStatus
  BY <1>2 DEF Query
<1> QED
  BY <1>1, <1>3 DEF ReadyToApply, TxnRow, Apply

\* What an INTERNAL notification makes of a row.
LEMMA NoticeTyped ==
    ASSUME TypeOK, NEW k \in Keys, HasTxn(k), NEW s \in Notices
    PROVE  ReadyToApply(k, s, NoEvent) \in Apply /\ txn[k] \in TxnRow
<1>1. txn[k] \in TxnRow /\ s \in GatewayStatus
  BY RowsTyped, ChargesAssumption
<1> QED
  BY <1>1 DEF ReadyToApply, TxnRow, Apply

LEMMA NextTypeOK == TypeOK /\ IntentsExist /\ Heard /\ [Next]_vars => TypeOK'
<1> SUFFICES ASSUME TypeOK, IntentsExist, Heard, [Next]_vars PROVE TypeOK'
  OBVIOUS
<1> USE DEF Requests
<1>1. ASSUME NEW r \in Reqs, NEW j \in Jobs, CreateIntentCheck(r, j) PROVE TypeOK'
  BY <1>1, GotoTypeOK DEF CreateIntentCheck, Handlers
<1>2. ASSUME NEW r \in Reqs, NEW j \in Jobs, ReadJob(r, j) PROVE TypeOK'
  <2>1. job[j].status \in JobStatus
    BY DEF TypeOK
  <2> QED
    BY <1>2, <2>1, GotoTypeOK DEF ReadJob, Handlers
<1>3. ASSUME NEW r \in Reqs, NEW i \in Intents, NEW k \in Keys, PayIntent(r, i, k)
      PROVE  TypeOK'
  BY <1>3, GotoTypeOK DEF PayIntent, Handlers
<1>4. ASSUME NEW r \in Reqs, WebhookLookup(r) PROVE TypeOK'
  <2>1. PICK w \in sent : Goto(r, [pc |-> "store", event |-> w.event,
                                  ref |-> w.ref, status |-> w.status])
    BY <1>4 DEF WebhookLookup
  <2>2. w \in [event : Events, ref : Refs, status : GatewayStatus]
    BY DEF TypeOK
  <2> QED
    BY <1>4, <2>1, <2>2, GotoTypeOK DEF WebhookLookup, Handlers
<1>5. ASSUME NEW r \in Handlers, NEW k \in Keys, HasTxn(k), NEW s, Query(r, k, s),
             UNCHANGED <<database, gw, known, sent, noticed, limits>>, queue' \subseteq Keys
      PROVE  TypeOK'
  <2>1. ReadyToApply(k, s, NoEvent) \in Requests /\ txn[k] \in TxnRow /\ s \in GatewayStatus
    BY <1>5, QueryTyped
  <2> QED
    BY <1>5, <2>1 DEF Query, Goto, TypeOK, TxnRow, database, limits
<1>6. ASSUME NEW r \in Reqs, CreateIntent(r) PROVE TypeOK'
  <2>1. req[r].job \in Jobs
    BY <1>6, InHand DEF CreateIntent, Handlers
  <2>2. PICK i \in Intents : intent' = [intent EXCEPT ![i] =
           [job |-> req[r].job, deposit |-> FALSE, status |-> "AWAITING_PAYMENT"]]
    BY <1>6 DEF CreateIntent
  <2>3. [job |-> req[r].job, deposit |-> FALSE, status |-> "AWAITING_PAYMENT"] \in IntentRow
    BY <2>1 DEF IntentRow, IntentStatus
  <2> QED
    BY <1>6, <2>2, <2>3 DEF CreateIntent, Goto, TypeOK, Handlers, provider, limits
<1>7. ASSUME NEW r \in Reqs, RequestCharge(r) PROVE TypeOK'
  <2>1. PICK f \in Refs, s \in ChargeAnswers :
          /\ gw' = [gw EXCEPT ![f] = s]
          /\ known' = known \union {f}
          /\ said' = [said EXCEPT ![f] = @ \union {s}]
          /\ Goto(r, [pc |-> "insert", key |-> req[r].key, ref |-> f, status |-> s,
                      intent |-> req[r].intent, event |-> NoEvent, write |-> FALSE, book |-> FALSE])
    BY <1>7 DEF RequestCharge
  <2>2. req[r].key \in Keys /\ req[r].intent \in Intents
    BY <1>7, InHand DEF RequestCharge, Handlers
  <2>3. [pc |-> "insert", key |-> req[r].key, ref |-> f, status |-> s,
         intent |-> req[r].intent, event |-> NoEvent, write |-> FALSE, book |-> FALSE] \in Apply
    BY <2>2 DEF Apply
  <2> QED
    <3>1. gw' \in [Refs -> GatewayStatus \union {"none"}] /\ known' \subseteq Refs
      BY <2>1, ChargesAssumption DEF TypeOK
    <3>2. said' \in [Refs -> SUBSET GatewayStatus]
      BY <2>1, ChargesAssumption DEF TypeOK
    <3>3. req' \in [Handlers -> Requests]
      BY <2>1, <2>3 DEF Goto, TypeOK, Requests, Handlers
    <3>4. UNCHANGED <<database, sent, noticed, queue, limits>>
      BY <1>7 DEF RequestCharge
    <3> QED
      BY <3>1, <3>2, <3>3, <3>4 DEF TypeOK, database, limits
<1>8. ASSUME NEW r \in Handlers, CommitStatus(r) PROVE TypeOK'
  <2> DEFINE c == req[r]
  <2>1. c \in Apply
    BY <1>8, InHand DEF CommitStatus, At
  <2>2. [intent |-> c.intent, ref |-> c.ref, status |-> TxStatusOf(c.status)] \in TxnRow
    BY <2>1, StatusMaps DEF Apply, TxnRow
  <2>3. AfterCommit(c.event) \in Requests
    BY <2>1 DEF AfterCommit, Apply
  <2>4. intent[c.intent] \in IntentRow
    BY <1>8, <2>1, RowsTyped DEF IntentsExist, Applying, CommitStatus, At, Apply
  <2>5. IntentStatusOf(c.status, intent[c.intent].deposit) \in IntentStatus
    BY <2>1, <2>4, StatusMaps DEF Apply, IntentRow
  <2>6. intent' \in [Intents -> IntentRow \union {NoRow}]
    BY <1>8, <2>4, <2>5 DEF CommitStatus, TypeOK, IntentRow, NextIntentStatus
  <2>7. job' \in [Jobs -> [status : JobStatus, unlocked : BOOLEAN]]
    <3> DEFINE n == intent[c.intent].job
    <3>1. n \in Jobs /\ job' \in {job, [job EXCEPT ![n].unlocked = TRUE]}
      BY <1>8, <2>4 DEF CommitStatus, IntentRow
    <3>2. job \in [Jobs -> [status : JobStatus, unlocked : BOOLEAN]]
      BY DEF TypeOK
    <3> HIDE DEF n
    <3>3. job[n] \in [status : JobStatus, unlocked : BOOLEAN]
      BY <3>1, <3>2
    <3>4. [job[n] EXCEPT !.unlocked = TRUE] \in [status : JobStatus, unlocked : BOOLEAN]
      BY <3>3
    <3> QED
      BY <3>1, <3>2, <3>4
  <2> QED
    BY <1>8, <2>1, <2>2, <2>3, <2>6, <2>7 DEF CommitStatus, Goto, TypeOK, Apply, provider, limits
<1>9. ASSUME NEW r \in Reqs, PayStep(r), ~RequestCharge(r) PROVE TypeOK'
  <2>1. At(r, "insert") => [req[r] EXCEPT !.pc = "locked"] \in Requests
    BY InHand DEF Handlers, At, Apply
  <2> QED
    BY <1>9, <2>1, GotoTypeOK
       DEF PayStep, PayReturnExisting, InsertTransaction, InsertConflict, Handlers
<1>10. ASSUME NEW r \in Handlers, LockTransaction(r) \/ EnsureCharge(r) PROVE TypeOK'
  <2>1. MustBook(req[r].key, req[r].status) \in BOOLEAN
    BY DEF MustBook
  <2>2. Applying(r) => /\ [req[r] EXCEPT !.pc = "locked"] \in Requests
                       /\ \A w \in BOOLEAN :
                            [req[r] EXCEPT !.pc = "checked", !.write = w,
                               !.book = MustBook(req[r].key, req[r].status)] \in Requests
    BY <2>1, InHand DEF Apply, Applying
  <2> QED
    BY <1>10, <2>2, GotoTypeOK DEF LockTransaction, EnsureCharge, Applying, At
<1>11. ASSUME NEW r \in Handlers, Abort(r) PROVE TypeOK'
  BY <1>11 DEF Abort, Goto, TypeOK, database, provider
<1>12. ASSUME NEW r \in Reqs, WebhookStep(r) PROVE TypeOK'
  <2>1. At(r, "store") \/ At(r, "find") =>
          /\ req[r].event \in Events /\ req[r].status \in GatewayStatus
          /\ [req[r] EXCEPT !.pc = "find"] \in Requests
    BY InHand DEF Handlers, At
  <2>2. CASE StoreEvent(r)
    BY <2>1, <2>2 DEF StoreEvent, Goto, TypeOK, Handlers, provider, limits
  <2>3. CASE StoreConflict(r) \/ TransactionNotFound(r)
    BY <2>3, GotoTypeOK DEF StoreConflict, TransactionNotFound, Handlers
  <2>4. CASE FindTransaction(r)
    <3>1. PICK k \in Keys : /\ HasTxn(k)
                            /\ Goto(r, ReadyToApply(k, req[r].status, req[r].event))
      BY <2>4 DEF FindTransaction
    <3>2. ReadyToApply(k, req[r].status, req[r].event) \in Requests
      BY <2>1, <2>4, <3>1, RowsTyped DEF ReadyToApply, FindTransaction, TxnRow, Apply
    <3> QED
      BY <2>4, <3>1, <3>2, GotoTypeOK DEF FindTransaction, Handlers
  <2>5. CASE MarkProcessed(r)
    BY <2>5, InHand DEF MarkProcessed, Goto, TypeOK, Handlers, provider, limits
  <2> QED
    BY <1>12, <2>2, <2>3, <2>4, <2>5 DEF WebhookStep
<1>13. ASSUME NEW r \in Reqs, NEW k \in Keys, ReconcileTransaction(r, k) PROVE TypeOK'
  <2>1. queue' \subseteq Keys /\ UNCHANGED <<database, gw, known, sent, noticed, limits>>
    BY <1>13 DEF ReconcileTransaction, TypeOK
  <2> QED
    BY <1>5, <1>13, <2>1 DEF ReconcileTransaction, Handlers
<1>21. ASSUME NEW r \in Reqs, NEW k \in Keys, NEW s \in Notices, InternalWebhook(r, k, s)
       PROVE  TypeOK'
  <2>1. ReadyToApply(k, s, NoEvent) \in Requests
    BY <1>21, NoticeTyped DEF InternalWebhook, Requests
  <2> QED
    BY <1>21, <2>1 DEF InternalWebhook, Goto, TypeOK, Handlers, database, limits
<1>14. CASE RunnerScan
  BY <1>14 DEF RunnerScan, TypeOK, database, provider, limits
<1>15. CASE RunnerVisit
  <2>1. PICK k \in queue : Query(Runner, k, QueryStatus(txn[k].ref)) /\ queue' = queue \ {k}
    BY <1>15 DEF RunnerVisit
  <2>2. k \in Keys /\ HasTxn(k) /\ queue' \subseteq Keys /\ Runner \in Handlers
    BY <2>1 DEF TypeOK, IntentsExist, Handlers
  <2> QED
    BY <1>5, <1>15, <2>1, <2>2 DEF RunnerVisit
<1>16. ASSUME NEW r \in Reqs, CheckJob(r) \/ RejectJob(r) PROVE TypeOK'
  <2>1. At(r, "checkJob") => req[r].job \in Jobs
    BY InHand DEF Handlers
  <2> QED
    BY <1>16, <2>1, GotoTypeOK DEF CheckJob, RejectJob, Handlers
<1>17. ASSUME NEW r \in Reqs, UpdateJob(r) PROVE TypeOK'
  <2>1. req[r].job \in Jobs /\ req[r].next \in JobStatus
    BY <1>17, InHand DEF UpdateJob, Handlers
  <2>2. \A j \in Jobs : CancelOpenIntents(j) \in [Intents -> IntentRow \union {NoRow}]
    BY RowsTyped DEF CancelOpenIntents, TypeOK, IntentRow, IntentStatus
  <2> QED
    BY <1>17, <2>1, <2>2 DEF UpdateJob, Goto, TypeOK, Handlers, provider, limits
<1>18. CASE Provider
  BY <1>18, SMTT(30) DEF Provider, ProviderSettles, ProviderNotifies, TypeOK, database, limits, GatewayStatus
<1>19. CASE Restart
  BY <1>19 DEF Restart, TypeOK, database
<1>20. CASE UNCHANGED vars
  BY <1>20 DEF vars, TypeOK
<1> QED
  BY <1>1, <1>2, <1>3, <1>4, <1>6, <1>7, <1>8, <1>9, <1>10, <1>11, <1>12, <1>13, <1>14,
     <1>15, <1>16, <1>17, <1>18, <1>19, <1>20, <1>21
     DEF Next, Arrive, Continue, ApplyStep, Handlers

-----------------------------------------------------------------------------
(* The rest of the inductive invariant. *)

ApplyPcs == {"insert", "ready", "locked", "checked"}

\* What the invariant asks of a request that comes to have s in hand.
Fits(r, s) ==
    /\ s.pc \in {"pay"} \union ApplyPcs => HasIntent(s.intent)
    /\ s.pc = "ready" => HasTxn(s.key)
    /\ s.pc \in {"ready", "locked", "checked"} /\ HasTxn(s.key)
         => txn[s.key].intent = s.intent /\ txn[s.key].ref = s.ref
    /\ s.pc \in {"store", "find"} => s.status \in said'[s.ref]
    /\ s.pc \in ApplyPcs => s.status \in Told(s.key, s.ref)'
    /\ s.pc \in {"locked", "checked"} =>
         \A q \in Handlers \ {r} : InTransaction(q) => req[q].key # s.key
    /\ s.pc = "checked" => s.book = MustBook(s.key, s.status)
    /\ s.pc = "updateJob" /\ s.next \in Started => HasBookedPayment(s.job)
    /\ s.pc \in {"find"} \union ApplyPcs /\ s.event \in Events => Carries(r, s.event)

\* A step that writes no row: it moves one request on, and may hear more of
\* the gateway or queue rows for the runner.
LEMMA MoveOn ==
    ASSUME IndInv, TypeOK', NEW r \in Handlers, NEW s \in Requests, Goto(r, s), Fits(r, s),
           UNCHANGED database,
           \A f \in known' : gw'[f] # "none",
           \A w \in sent' : w.status \in said'[w.ref],
           \A f \in Refs : said[f] \subseteq said'[f],
           \A k \in Keys : noticed[k] \subseteq noticed'[k],
           \A k \in queue' : HasTxn(k)
    PROVE  IndInv'
<1> USE DEF IndInv, database
<1>1. req' = [req EXCEPT ![r] = s] /\ req \in [Handlers -> Requests]
  BY DEF Goto, TypeOK
<1>2. /\ req'[r] = s
      /\ \A q \in Handlers : q # r => req'[q] = req[q]
  BY <1>1
<1>3. IntentsExist'
  BY <1>2 DEF IntentsExist, At, Applying, Fits, ApplyPcs, HasIntent, HasTxn, IsBooked, TypeOK
<1>4. SameRow'
  BY <1>2 DEF SameRow, At, Fits, HasTxn
<1>5. Heard'
  <2>1. \A q \in Handlers : Delivering(q)' => req'[q].status \in said'[req'[q].ref]
    <3>1. ASSUME NEW q \in Handlers, q # r, Delivering(q)'
          PROVE  req'[q].status \in said'[req'[q].ref]
      <4>1. Delivering(q)
        BY <1>2, <3>1 DEF Delivering
      <4>2. req[q].ref \in Refs
        BY <4>1, InHand DEF Delivering
      <4> QED
        BY <1>2, <3>1, <4>1, <4>2 DEF Heard
    <3> QED
      BY <1>2, <3>1 DEF Delivering, Fits
  <2>2. \A q \in Handlers : Applying(q)' => req'[q].status \in Told(req[q].key, req[q].ref)'
    <3>1. ASSUME NEW q \in Handlers, q # r, Applying(q)'
          PROVE  req'[q].status \in (said'[req'[q].ref] \union noticed'[req'[q].key])
      <4>1. Applying(q)
        BY <1>2, <3>1 DEF Applying
      <4>2. req[q].ref \in Refs /\ req[q].key \in Keys
        BY <4>1, InHand DEF Applying, Apply
      <4>3. req[q].status \in said[req[q].ref] \union noticed[req[q].key]
        BY <4>1 DEF Heard, Told
      <4> QED
        BY <1>2, <3>1, <4>2, <4>3
    <3> QED
      BY <1>2, <3>1 DEF Applying, Fits, ApplyPcs, Told
  <2> QED
    BY <2>1, <2>2 DEF Heard
<1>6. OneWriter'
  BY <1>2 DEF OneWriter, InTransaction, Fits
<1>7. Decided'
  BY <1>2 DEF Decided, At, MustBook, Fits
<1>8. PaidBefore'
  BY <1>2 DEF PaidBefore, HasBookedPayment, IsBooked, At, Fits
<1>9. EventsOnce'
  BY <1>2 DEF EventsOnce, Carries, At, Applying, Fits, ApplyPcs
<1>10. /\ BookedOnce' /\ SucceededIsBooked' /\ PaidIsBooked' /\ UnlockedIsPaid'
       /\ StartedIsPaid' /\ EventAppliedOnce'
  BY DEF BookedOnce, SucceededIsBooked, PaidIsBooked, Paid, UnlockedIsPaid, StartedIsPaid,
         EventAppliedOnce, HasBookedPayment, IsBooked
<1>11. BookedWasConfirmed'
  <2>1. \A k \in Keys : IsBooked(k) => txn[k].ref \in Refs
    BY RowsTyped DEF BookedWasConfirmed, TxnRow
  <2> QED
    BY <2>1 DEF BookedWasConfirmed, Told, IsBooked, HasTxn
<1> QED
  BY <1>3, <1>4, <1>5, <1>6, <1>7, <1>8, <1>9, <1>10, <1>11

\* Requests that are not on their way to the database carry nothing.
LEMMA FitsTrivially ==
    ASSUME NEW r \in Handlers, NEW s, s.pc \in {"idle", "create", "checkJob", "mark"}
    PROVE  Fits(r, s)
  BY DEF Fits, ApplyPcs

LEMMA InitIndInv == Init => IndInv
<1> SUFFICES ASSUME Init PROVE IndInv
  OBVIOUS
<1>1. TypeOK
  BY InitTypeOK
<1>2. \A r \in Handlers : req[r].pc = "idle"
  BY DEF Init, Idle
<1>3. \A k \in Keys : ~HasTxn(k) /\ ~IsBooked(k)
  BY DEF Init, HasTxn, IsBooked, NoRow
<1>4. \A i \in Intents : ~Paid(i)
  BY DEF Init, Paid, PaidStatus, NoRow, DepositRow
<1>5. \A j \in Jobs : ~job[j].unlocked /\ job[j].status \notin Started
  BY DEF Init, Started
<1>6. /\ queue = {} /\ known = {} /\ sent = {}
      /\ charges = [k \in Keys |-> 0] /\ txn = [k \in Keys |-> NoRow]
      /\ applied = [e \in Events |-> 0]
  BY DEF Init
<1>7. IntentsExist /\ SameRow /\ Heard /\ OneWriter /\ Decided /\ PaidBefore /\ EventsOnce
  BY <1>2, <1>3, <1>6
     DEF IntentsExist, SameRow, Heard, OneWriter, Decided, PaidBefore, EventsOnce, At,
         Applying, Delivering, InTransaction, Carries
<1>8. BookedOnce /\ SucceededIsBooked /\ BookedWasConfirmed /\ EventAppliedOnce
  BY <1>3, <1>6 DEF BookedOnce, SucceededIsBooked, BookedWasConfirmed, EventAppliedOnce, NoRow
<1>9. PaidIsBooked /\ UnlockedIsPaid /\ StartedIsPaid
  BY <1>4, <1>5 DEF PaidIsBooked, UnlockedIsPaid, StartedIsPaid
<1> QED
  BY <1>1, <1>7, <1>8, <1>9 DEF IndInv

\* What applying the status that c carries leaves in the rows and the ledger.
Written(c) ==
    /\ c \in Apply /\ c.key \in Keys /\ c.status \in GatewayStatus
    /\ HasIntent(c.intent)
    /\ \A k \in Keys : HasTxn(k) => /\ HasTxn(k)'
                                    /\ txn'[k].intent = txn[k].intent
                                    /\ txn'[k].ref = txn[k].ref
    /\ HasTxn(c.key)'
    /\ txn'[c.key] = [intent |-> c.intent, ref |-> c.ref,
                      status |-> TxStatusOf(c.status)]
    /\ \A k \in Keys : k # c.key => txn'[k] = txn[k]
    /\ \A i \in Intents : HasIntent(i) =>
           HasIntent(i)' /\ intent'[i].job = intent[i].job
    /\ intent'[c.intent].status \in PaidStatus => c.status = "SUCCEEDED" \/ Paid(c.intent)
    /\ \A i \in Intents : i # c.intent => intent'[i] = intent[i]
    /\ \A k \in Keys : charges'[k] <= 1 /\ (IsBooked(k) => IsBooked(k)')
    /\ c.status = "SUCCEEDED" => IsBooked(c.key)'
    /\ \A k \in Keys : IsBooked(k)' => IsBooked(k) \/ (k = c.key /\ c.status = "SUCCEEDED")

\* Applying a status: the one step that writes payment, intent and ledger.
LEMMA CommitWrites ==
    ASSUME IndInv, NEW r \in Handlers, CommitStatus(r), NEW c, c = req[r]
    PROVE  Written(c)
<1> USE DEF IndInv
<1>1. /\ c \in Apply /\ c.pc = "checked"
      /\ HasIntent(c.intent) /\ intent[c.intent] \in IntentRow
  BY InHand, RowsTyped DEF CommitStatus, At, IntentsExist, Applying, Apply
<1>2. c.book = (c.status = "SUCCEEDED" /\ charges[c.key] = 0)
  BY <1>1 DEF Decided, MustBook, At
<1>3. /\ c.key \in Keys /\ c.intent \in Intents /\ c.ref \in Refs
      /\ c.status \in GatewayStatus
  BY <1>1 DEF Apply
<1>4. /\ txn' = [txn EXCEPT ![c.key] = [intent |-> c.intent, ref |-> c.ref,
                                       status |-> TxStatusOf(c.status)]]
      /\ charges' = [charges EXCEPT ![c.key] = IF c.book THEN @ + 1 ELSE @]
      /\ intent' = IF c.write
                   THEN [intent EXCEPT ![c.intent].status =
                           IntentStatusOf(c.status, intent[c.intent].deposit)]
                   ELSE intent
  BY DEF CommitStatus, NextIntentStatus
<1>5. /\ txn \in [Keys -> TxnRow \union {NoRow}]
      /\ intent \in [Intents -> IntentRow \union {NoRow}]
      /\ charges \in [Keys -> Nat] /\ \A k \in Keys : charges[k] <= 1
  BY DEF TypeOK, BookedOnce
<1>6. HasTxn(c.key) => txn[c.key].intent = c.intent /\ txn[c.key].ref = c.ref
  BY <1>1 DEF SameRow, At
<1>7. /\ intent[c.intent].deposit \in BOOLEAN
      /\ TxStatusOf(c.status) # "absent"
      /\ IntentStatusOf(c.status, intent[c.intent].deposit) # "absent"
      /\ IntentStatusOf(c.status, intent[c.intent].deposit) \in PaidStatus
           <=> c.status = "SUCCEEDED"
  BY <1>1, <1>3, StatusMaps DEF TxStatus, IntentStatus, IntentRow
<1> HIDE DEF IndInv
<1>8. /\ txn'[c.key] = [intent |-> c.intent, ref |-> c.ref, status |-> TxStatusOf(c.status)]
      /\ \A k \in Keys : k # c.key => txn'[k] = txn[k]
  BY <1>3, <1>4, <1>5
<1>9. HasTxn(c.key)'
  BY <1>7, <1>8 DEF HasTxn
<1>10. \A k \in Keys : HasTxn(k) => /\ HasTxn(k)'
                                    /\ txn'[k].intent = txn[k].intent
                                    /\ txn'[k].ref = txn[k].ref
  <2> SUFFICES ASSUME NEW k \in Keys, HasTxn(k)
               PROVE  HasTxn(k)' /\ txn'[k].intent = txn[k].intent /\ txn'[k].ref = txn[k].ref
    OBVIOUS
  <2>1. CASE k = c.key
    BY <1>6, <1>8, <1>9, <2>1
  <2>2. CASE k # c.key
    BY <1>8, <2>2 DEF HasTxn
  <2> QED
    BY <2>1, <2>2
<1>11. /\ intent'[c.intent] \in
              {intent[c.intent],
               [intent[c.intent] EXCEPT !.status =
                  IntentStatusOf(c.status, intent[c.intent].deposit)]}
       /\ \A i \in Intents : i # c.intent => intent'[i] = intent[i]
  BY <1>3, <1>4, <1>5
<1>12. /\ intent'[c.intent].status \in
              {intent[c.intent].status,
               IntentStatusOf(c.status, intent[c.intent].deposit)}
       /\ intent'[c.intent].job = intent[c.intent].job
  BY <1>1, <1>11 DEF IntentRow
<1>13. \A i \in Intents : HasIntent(i) => HasIntent(i)' /\ intent'[i].job = intent[i].job
  <2> SUFFICES ASSUME NEW i \in Intents, HasIntent(i)
               PROVE  HasIntent(i)' /\ intent'[i].job = intent[i].job
    OBVIOUS
  <2>1. CASE i = c.intent
    BY <1>1, <1>7, <1>12, <2>1 DEF HasIntent
  <2>2. CASE i # c.intent
    BY <1>11, <2>2 DEF HasIntent
  <2> QED
    BY <2>1, <2>2
<1>14. /\ \A k \in Keys : k # c.key => charges'[k] = charges[k]
       /\ c.book => charges'[c.key] = charges[c.key] + 1
       /\ ~c.book => charges'[c.key] = charges[c.key]
  BY <1>3, <1>4, <1>5
<1>15. c.status = "SUCCEEDED" /\ charges[c.key] = 0 <=> c.book
  BY <1>2
<1>16. charges[c.key] \in {0, 1}
  BY <1>3, <1>5
<1>17. /\ charges'[c.key] \in {0, 1}
       /\ charges[c.key] > 0 => charges'[c.key] > 0
       /\ c.status = "SUCCEEDED" => charges'[c.key] > 0
       /\ charges'[c.key] > 0 => charges[c.key] > 0 \/ c.status = "SUCCEEDED"
  BY <1>14, <1>15, <1>16
<1>18. /\ \A k \in Keys : charges'[k] <= 1 /\ (IsBooked(k) => IsBooked(k)')
       /\ c.status = "SUCCEEDED" => IsBooked(c.key)'
       /\ \A k \in Keys : IsBooked(k)' => IsBooked(k) \/ (k = c.key /\ c.status = "SUCCEEDED")
  <2>1. \A k \in Keys \ {c.key} : charges'[k] <= 1 /\ (IsBooked(k)' <=> IsBooked(k))
    BY <1>5, <1>14 DEF IsBooked
  <2> QED
    BY <1>17, <2>1 DEF IsBooked
<1> QED
  BY <1>1, <1>3, <1>7, <1>8, <1>9, <1>10, <1>11, <1>12, <1>13, <1>18 DEF Written, Paid

LEMMA CommitIndInv ==
    ASSUME IndInv, TypeOK', NEW r \in Handlers, CommitStatus(r)
    PROVE  IndInv'
<1>0. PICK c : c = req[r]
  OBVIOUS
<1>w. Written(c)
  BY <1>0, CommitWrites
<1>1. /\ c \in Apply /\ c.pc = "checked" /\ At(r, "checked")
      /\ c.key \in Keys /\ c.status \in GatewayStatus
      /\ c.intent \in Intents /\ c.ref \in Refs /\ HasIntent(c.intent)
  BY <1>0, <1>w DEF Written, CommitStatus, At, Apply
<1>2. /\ \A k \in Keys : HasTxn(k) => /\ HasTxn(k)'
                                     /\ txn'[k].intent = txn[k].intent
                                     /\ txn'[k].ref = txn[k].ref
      /\ HasTxn(c.key)' /\ txn'[c.key].intent = c.intent /\ txn'[c.key].ref = c.ref
      /\ txn'[c.key].status = TxStatusOf(c.status)
      /\ \A k \in Keys : k # c.key => txn'[k] = txn[k]
  BY <1>w DEF Written
<1>3. /\ \A i \in Intents : HasIntent(i) =>
             HasIntent(i)' /\ intent'[i].job = intent[i].job
      /\ intent'[c.intent].status \in PaidStatus => c.status = "SUCCEEDED" \/ Paid(c.intent)
      /\ \A i \in Intents : i # c.intent => intent'[i] = intent[i]
  BY <1>w DEF Written
<1>4. /\ \A k \in Keys : charges'[k] <= 1 /\ (IsBooked(k) => IsBooked(k)')
      /\ c.status = "SUCCEEDED" => IsBooked(c.key)'
      /\ \A k \in Keys : IsBooked(k)' => IsBooked(k) \/ (k = c.key /\ c.status = "SUCCEEDED")
  BY <1>w DEF Written
<1>5. /\ req'[r] = AfterCommit(c.event)
      /\ \A q \in Handlers : q # r => req'[q] = req[q]
      /\ UNCHANGED <<events, gw, known, said, sent, noticed, queue>>
  BY <1>0 DEF CommitStatus, Goto, provider, IndInv, TypeOK
<1>6. req'[r].pc \in {"idle", "mark"}
  BY <1>5 DEF AfterCommit, Idle
<1>7. /\ job' = IF Unlocks(c.status)
                THEN [job EXCEPT ![intent[c.intent].job].unlocked = TRUE]
                ELSE job
      /\ applied' = [e \in Events |-> IF e = c.event THEN applied[e] + 1 ELSE applied[e]]
  BY <1>0 DEF CommitStatus
<1>8. \A k \in Keys : HasTxn(k) => txn[k].intent \in Intents /\ txn[k].ref \in Refs
  BY RowsTyped DEF IndInv, TxnRow
<1>9. \A j \in Jobs : HasBookedPayment(j) => HasBookedPayment(j)'
  <2> SUFFICES ASSUME NEW j \in Jobs, HasBookedPayment(j) PROVE HasBookedPayment(j)'
    OBVIOUS
  <2>1. PICK k \in Keys : IsBooked(k) /\ intent[txn[k].intent].job = j
    BY DEF HasBookedPayment
  <2>2. HasTxn(k) /\ HasIntent(txn[k].intent) /\ txn[k].intent \in Intents
    BY <1>8, <2>1 DEF IndInv, IntentsExist
  <2>3. IsBooked(k)' /\ intent'[txn'[k].intent].job = j
    BY <1>2, <1>3, <1>4, <2>1, <2>2
  <2> QED
    BY <2>3 DEF HasBookedPayment
\* What another request has in hand.
<1>10. ASSUME NEW q \in Handlers, q # r, Applying(q)
       PROVE  req[q].key \in Keys /\ req[q].intent \in Intents
  BY <1>10, InHand DEF IndInv, Applying, Apply
<1>11. ASSUME NEW q \in Handlers, q # r, InTransaction(q)
       PROVE  req[q].key # c.key
  BY <1>0, <1>1, <1>11 DEF IndInv, OneWriter, InTransaction
<1>12. IntentsExist'
  <2>1. ASSUME NEW q \in Handlers, (At(q, "pay") \/ Applying(q))' PROVE HasIntent(req[q].intent)'
    <3>1. q # r /\ (At(q, "pay") \/ Applying(q)) /\ req'[q] = req[q]
      BY <1>5, <1>6, <2>1 DEF At, Applying
    <3>2. HasIntent(req[q].intent) /\ req[q].intent \in Intents
      BY <3>1, <1>10, InHand DEF IndInv, IntentsExist
    <3> QED
      BY <1>3, <3>1, <3>2 DEF HasIntent
  <2>2. ASSUME NEW k \in Keys, HasTxn(k)' PROVE HasIntent(txn[k].intent)'
    <3>1. CASE k = c.key
      BY <1>1, <1>2, <1>3, <3>1 DEF HasIntent
    <3>2. CASE k # c.key
      <4>1. HasTxn(k) /\ txn'[k] = txn[k]
        BY <1>2, <2>2, <3>2 DEF HasTxn
      <4> QED
        BY <1>3, <1>8, <4>1 DEF IndInv, IntentsExist, HasIntent
    <3> QED
      BY <3>1, <3>2
  <2>3. ASSUME NEW k \in Keys, IsBooked(k)' \/ k \in queue' PROVE HasTxn(k)'
    BY <1>2, <1>4, <1>5, <2>3 DEF IndInv, IntentsExist
  <2> QED
    BY <2>1, <2>2, <2>3 DEF IntentsExist
<1>13. SameRow'
  <2> SUFFICES ASSUME NEW q \in Handlers, (req[q].pc \in {"ready", "locked", "checked"})'
               PROVE  /\ At(q, "ready")' => HasTxn(req[q].key)'
                      /\ HasTxn(req[q].key)' => /\ txn'[req'[q].key].intent = req'[q].intent
                                                 /\ txn'[req'[q].key].ref = req'[q].ref
    BY DEF SameRow, At
  <2>1. q # r /\ req'[q] = req[q] /\ Applying(q) /\ req[q].pc \in {"ready", "locked", "checked"}
    BY <1>5, <1>6 DEF Applying
  <2>2. req[q].key \in Keys
    BY <1>10, <2>1
  <2>3. /\ At(q, "ready") => HasTxn(req[q].key)
        /\ HasTxn(req[q].key) => /\ txn[req[q].key].intent = req[q].intent
                                 /\ txn[req[q].key].ref = req[q].ref
    BY <2>1 DEF IndInv, SameRow
  <2>4. HasTxn(req[q].key)' => HasTxn(req[q].key)
    <3>1. CASE At(q, "ready")
      BY <2>3, <3>1
    <3>2. CASE InTransaction(q)
      BY <1>2, <1>11, <2>1, <2>2, <3>2 DEF HasTxn
    <3> QED
      BY <2>1, <3>1, <3>2 DEF At, InTransaction
  <2> QED
    BY <1>2, <2>1, <2>2, <2>3, <2>4 DEF At
<1>14. Heard'
  BY <1>5, <1>6 DEF IndInv, Heard, Told, Applying, Delivering
<1>15. OneWriter'
  BY <1>5, <1>6 DEF IndInv, OneWriter, InTransaction
<1>16. Decided'
  <2> SUFFICES ASSUME NEW q \in Handlers, At(q, "checked")'
               PROVE  req'[q].book = MustBook(req[q].key, req[q].status)'
    BY DEF Decided
  <2>1. q # r /\ req'[q] = req[q] /\ At(q, "checked") /\ InTransaction(q) /\ Applying(q)
    BY <1>5, <1>6 DEF At, InTransaction, Applying
  <2>2. req[q].key \in Keys /\ req[q].key # c.key
    BY <1>10, <1>11, <2>1
  <2>3. charges'[req[q].key] = charges[req[q].key]
    BY <1>0, <1>1, <2>2 DEF CommitStatus, IndInv, TypeOK
  <2>4. req[q].book = MustBook(req[q].key, req[q].status)
    BY <2>1 DEF IndInv, Decided
  <2> QED
    BY <2>1, <2>3, <2>4 DEF MustBook
<1>17. BookedOnce'
  BY <1>4 DEF BookedOnce
<1>18. SucceededIsBooked'
  <2> SUFFICES ASSUME NEW k \in Keys, txn'[k].status = "SUCCEEDED" PROVE IsBooked(k)'
    BY DEF SucceededIsBooked
  <2>1. CASE k = c.key
    BY <1>1, <1>2, <1>4, <2>1, StatusMaps DEF TxStatusOf
  <2>2. CASE k # c.key
    BY <1>2, <1>4, <2>2 DEF IndInv, SucceededIsBooked
  <2> QED
    BY <2>1, <2>2
<1>19. BookedWasConfirmed'
  <2> SUFFICES ASSUME NEW k \in Keys, IsBooked(k)'
               PROVE  HasTxn(k)' /\ "SUCCEEDED" \in (said'[txn'[k].ref] \union noticed'[k])
    BY DEF BookedWasConfirmed, Told
  <2>1. CASE IsBooked(k)
    <3>1. HasTxn(k) /\ "SUCCEEDED" \in said[txn[k].ref] \union noticed[k]
      BY <2>1 DEF IndInv, BookedWasConfirmed, Told
    <3> QED
      BY <1>2, <1>5, <3>1
  <2>2. CASE k = c.key /\ c.status = "SUCCEEDED"
    <3>1. "SUCCEEDED" \in said[c.ref] \union noticed[c.key]
      BY <1>0, <1>1, <2>2 DEF IndInv, Heard, Told, Applying
    <3> QED
      BY <1>2, <1>5, <2>2, <3>1
  <2> QED
    BY <1>4, <2>1, <2>2
<1>20. PaidIsBooked'
  <2> SUFFICES ASSUME NEW i \in Intents, Paid(i)'
               PROVE  \E k \in Keys : IsBooked(k)' /\ txn'[k].intent = i
    BY DEF PaidIsBooked
  <2>1. CASE i = c.intent /\ c.status = "SUCCEEDED"
    BY <1>1, <1>2, <1>4, <2>1
  <2>2. CASE i # c.intent \/ c.status # "SUCCEEDED"
    <3>1. PICK k \in Keys : IsBooked(k) /\ txn[k].intent = i
      BY <1>3, <2>2 DEF Paid, IndInv, PaidIsBooked
    <3>2. HasTxn(k)
      BY <3>1 DEF IndInv, IntentsExist
    <3> QED
      BY <1>2, <1>4, <3>1, <3>2
  <2> QED
    BY <2>1, <2>2
\* The job of a confirmed intent now has a payment.
<1>21. \A j \in Jobs : c.status = "SUCCEEDED" /\ j = intent[c.intent].job
                         => HasBookedPayment(j)'
  <2> SUFFICES ASSUME NEW j \in Jobs, c.status = "SUCCEEDED", j = intent[c.intent].job
               PROVE  HasBookedPayment(j)'
    OBVIOUS
  <2>1. IsBooked(c.key)' /\ intent'[txn'[c.key].intent].job = j
    BY <1>1, <1>2, <1>3, <1>4
  <2> QED
    BY <1>1, <2>1 DEF HasBookedPayment
<1>22. \A j \in Jobs : /\ job'[j].status = job[j].status
                       /\ job'[j].unlocked => job[j].unlocked
                            \/ (c.status = "SUCCEEDED" /\ j = intent[c.intent].job)
  <2>1. job \in [Jobs -> [status : JobStatus, unlocked : BOOLEAN]]
    BY DEF IndInv, TypeOK
  <2>2. CASE c.status = "SUCCEEDED"
    <3> DEFINE n == intent[c.intent].job
    <3>1. job' = [job EXCEPT ![n].unlocked = TRUE]
      BY <1>7, <2>2 DEF Unlocks
    <3> HIDE DEF n
    <3>2. \A j \in Jobs : j # n => job'[j] = job[j]
      BY <2>1, <3>1
    <3>3. n \in Jobs => job'[n] = [job[n] EXCEPT !.unlocked = TRUE]
      BY <2>1, <3>1
    <3>4. n \in Jobs => job'[n].status = job[n].status
      BY <2>1, <3>3
    <3> QED
      BY <2>2, <3>2, <3>4 DEF n
  <2>3. CASE c.status # "SUCCEEDED"
    BY <1>7, <2>3 DEF Unlocks
  <2> QED
    BY <2>2, <2>3
<1>23. UnlockedIsPaid'
  BY <1>9, <1>21, <1>22 DEF IndInv, UnlockedIsPaid
<1>24. StartedIsPaid'
  BY <1>9, <1>22 DEF IndInv, StartedIsPaid
<1>25. PaidBefore'
  <2> SUFFICES ASSUME NEW q \in Handlers, At(q, "updateJob")', req'[q].next \in Started
               PROVE  HasBookedPayment(req[q].job)'
    BY DEF PaidBefore
  <2>1. q # r /\ req'[q] = req[q] /\ At(q, "updateJob")
    BY <1>5, <1>6 DEF At
  <2>2. HasBookedPayment(req[q].job) /\ req[q].job \in Jobs
    BY <2>1, InHand DEF IndInv, PaidBefore
  <2> QED
    BY <1>9, <2>1, <2>2
\* The event that was applied leaves the hands of its one request.
<1>26. \A e \in Events : applied'[e] # applied[e] =>
           Carries(r, e) /\ applied[e] = 0 /\ applied'[e] = 1
  <2> SUFFICES ASSUME NEW e \in Events, applied'[e] # applied[e]
               PROVE  Carries(r, e) /\ applied[e] = 0 /\ applied'[e] = 1
    OBVIOUS
  <2>1. e = c.event /\ applied'[e] = applied[e] + 1
    BY <1>7
  <2>2. Carries(r, e)
    BY <1>0, <1>1, <2>1 DEF Carries, Applying
  <2> QED
    BY <2>1, <2>2 DEF IndInv, EventsOnce
<1>27. \A e \in Events, q \in Handlers : Carries(q, e)' => Carries(q, e) /\ q # r
  BY <1>5, <1>6 DEF Carries, At, Applying
<1>28. EventsOnce'
  <2>1. ASSUME NEW e \in Events, NEW q \in Handlers, Carries(q, e)'
        PROVE  events'[e] # "none" /\ applied'[e] = 0
    BY <1>5, <1>26, <1>27, <2>1 DEF IndInv, EventsOnce
  <2>2. ASSUME NEW e \in Events, events'[e] = "none" PROVE applied'[e] = 0
    BY <1>5, <1>26, <2>2 DEF IndInv, EventsOnce
  <2> QED
    BY <1>27, <2>1, <2>2 DEF IndInv, EventsOnce
<1>29. EventAppliedOnce'
  BY <1>26 DEF IndInv, EventAppliedOnce
<1> QED
  BY <1>12, <1>13, <1>14, <1>15, <1>16, <1>17, <1>18, <1>19, <1>20, <1>23, <1>24, <1>25,
     <1>28, <1>29 DEF IndInv

-----------------------------------------------------------------------------
\* A step that only moves a request on.
LEMMA PassOn ==
    ASSUME IndInv, TypeOK', NEW r \in Handlers, NEW s \in Requests, Goto(r, s), Fits(r, s),
           UNCHANGED <<database, provider, queue>>
    PROVE  IndInv'
  BY MoveOn DEF IndInv, Heard, IntentsExist, TypeOK, provider

\* A step of the world around the handlers.
LEMMA StandStill ==
    ASSUME IndInv, TypeOK', UNCHANGED <<database, req>>,
           \A f \in known' : gw'[f] # "none",
           \A w \in sent' : w.status \in said'[w.ref],
           \A f \in Refs : said[f] \subseteq said'[f],
           \A k \in Keys : noticed[k] \subseteq noticed'[k],
           \A k \in queue' : HasTxn(k)
    PROVE  IndInv'
<1>1. PICK s : s = req[Runner]
  OBVIOUS
<1>2. Runner \in Handlers /\ s \in Requests /\ Goto(Runner, s)
  BY <1>1 DEF IndInv, TypeOK, Handlers, Goto
<1>3. /\ s.pc \in {"pay"} \union ApplyPcs => HasIntent(s.intent)
      /\ s.pc = "ready" => HasTxn(s.key)
      /\ s.pc \in {"ready", "locked", "checked"} /\ HasTxn(s.key)
           => txn[s.key].intent = s.intent /\ txn[s.key].ref = s.ref
      /\ s.pc = "checked" => s.book = MustBook(s.key, s.status)
      /\ s.pc = "updateJob" /\ s.next \in Started => HasBookedPayment(s.job)
  BY <1>1, <1>2
     DEF IndInv, IntentsExist, SameRow, Decided, PaidBefore, At, Applying, ApplyPcs
<1>4. /\ s.pc \in {"store", "find"} => s.status \in said'[s.ref]
      /\ s.pc \in ApplyPcs => s.status \in Told(s.key, s.ref)'
  <2>1. ASSUME s.pc \in {"store", "find"} PROVE s.ref \in Refs /\ s.status \in said[s.ref]
    BY <1>1, <1>2, <2>1, InHand DEF IndInv, Heard, Delivering
  <2>2. ASSUME s.pc \in ApplyPcs
        PROVE  /\ s.ref \in Refs /\ s.key \in Keys
               /\ s.status \in said[s.ref] \union noticed[s.key]
    BY <1>1, <1>2, <2>2, InHand DEF IndInv, Heard, Told, Applying, Apply, ApplyPcs
  <2> QED
    BY <2>1, <2>2 DEF Told
<1>5. s.pc \in {"locked", "checked"} =>
        \A q \in Handlers \ {Runner} : InTransaction(q) => req[q].key # s.key
  BY <1>1, <1>2 DEF IndInv, OneWriter, InTransaction
<1>6. s.pc \in {"find"} \union ApplyPcs /\ s.event \in Events => Carries(Runner, s.event)
  BY <1>1 DEF Carries, At, Applying, ApplyPcs
<1> QED
  BY <1>2, <1>3, <1>4, <1>5, <1>6, MoveOn DEF Fits

\* A request that drops what it has in hand.
LEMMA DropIndInv ==
    ASSUME IndInv, TypeOK', NEW r \in Handlers, Goto(r, Idle),
           UNCHANGED <<database, provider, queue>>
    PROVE  IndInv'
<1>1. Idle \in Requests /\ Fits(r, Idle)
  BY FitsTrivially DEF Requests, Idle
<1> QED
  BY <1>1, PassOn

LEMMA WaitIndInv ==
    ASSUME IndInv, TypeOK', NEW r \in Handlers, LockTransaction(r) \/ InsertTransaction(r)
    PROVE  IndInv'
<1>1. PICK s : s = [req[r] EXCEPT !.pc = "locked"]
  OBVIOUS
<1>2. /\ req[r] \in Apply /\ Applying(r) /\ s \in Apply /\ s.pc = "locked"
      /\ s.key = req[r].key /\ s.intent = req[r].intent /\ s.ref = req[r].ref
      /\ s.status = req[r].status /\ s.event = req[r].event
  BY <1>1, InHand DEF IndInv, LockTransaction, InsertTransaction, At, Applying, Apply
<1>3. s \in Requests /\ Goto(r, s) /\ UNCHANGED <<database, provider, queue>>
  BY <1>1, <1>2 DEF LockTransaction, InsertTransaction, Requests
<1>4. HasIntent(s.intent)
  BY <1>2 DEF IndInv, IntentsExist
<1>5. HasTxn(s.key) => txn[s.key].intent = s.intent /\ txn[s.key].ref = s.ref
  BY <1>2 DEF IndInv, SameRow, LockTransaction, InsertTransaction, At
<1>6. s.status \in Told(s.key, s.ref)'
  BY <1>2, <1>3 DEF IndInv, Heard, Told, provider
<1>7. \A q \in Handlers \ {r} : InTransaction(q) => req[q].key # s.key
  BY <1>2 DEF LockTransaction, InsertTransaction, RowLocked, InTransaction
<1>8. s.event \in Events => Carries(r, s.event)
  BY <1>2 DEF Carries
<1>9. Fits(r, s)
  BY <1>2, <1>4, <1>5, <1>6, <1>7, <1>8 DEF Fits, ApplyPcs
<1> QED
  BY <1>3, <1>9, PassOn

LEMMA EnsureIndInv ==
    ASSUME IndInv, TypeOK', NEW r \in Handlers, EnsureCharge(r)
    PROVE  IndInv'
<1>0. PICK w \in BOOLEAN :
        Goto(r, [req[r] EXCEPT !.pc = "checked", !.write = w,
                               !.book = MustBook(req[r].key, req[r].status)])
  BY DEF EnsureCharge
<1>1. PICK s : s = [req[r] EXCEPT !.pc = "checked", !.write = w,
                                  !.book = MustBook(req[r].key, req[r].status)]
  OBVIOUS
<1>2. MustBook(req[r].key, req[r].status) \in BOOLEAN
  BY DEF MustBook
<1>3. /\ req[r] \in Apply /\ req[r].pc = "locked" /\ s \in Apply /\ s.pc = "checked"
      /\ s.key = req[r].key /\ s.intent = req[r].intent /\ s.ref = req[r].ref
      /\ s.status = req[r].status /\ s.event = req[r].event
      /\ s.book = MustBook(req[r].key, req[r].status)
  BY <1>1, <1>2, InHand DEF IndInv, EnsureCharge, At, Apply
<1>4. s \in Requests /\ Goto(r, s) /\ UNCHANGED <<database, provider, queue>>
  BY <1>0, <1>1, <1>3 DEF EnsureCharge, Requests
<1>5. HasIntent(s.intent)
  BY <1>3 DEF IndInv, IntentsExist, Applying
<1>6. HasTxn(s.key) => txn[s.key].intent = s.intent /\ txn[s.key].ref = s.ref
  BY <1>3 DEF IndInv, SameRow
<1>7. s.status \in Told(s.key, s.ref)'
  BY <1>3, <1>4 DEF IndInv, Heard, Told, Applying, provider
<1>8. \A q \in Handlers \ {r} : InTransaction(q) => req[q].key # s.key
  BY <1>3 DEF IndInv, OneWriter, InTransaction
<1>9. s.event \in Events => Carries(r, s.event)
  BY <1>3 DEF Carries, Applying
<1>10. s.book = MustBook(s.key, s.status)
  BY <1>3
<1>11. Fits(r, s)
  BY <1>3, <1>5, <1>6, <1>7, <1>8, <1>9, <1>10 DEF Fits, ApplyPcs
<1> QED
  BY <1>4, <1>11, PassOn

\* A row found again, by the reference of a webhook or for a query.
LEMMA ReadyIndInv ==
    ASSUME IndInv, TypeOK', NEW r \in Handlers, NEW k \in Keys, HasTxn(k), NEW s, NEW e,
           Goto(r, ReadyToApply(k, s, e)), ReadyToApply(k, s, e) \in Apply,
           s \in Told(k, txn[k].ref)', e \in Events => Carries(r, e),
           UNCHANGED <<database, gw, known, sent>>,
           \A f \in Refs : said[f] \subseteq said'[f],
           \A l \in Keys : noticed[l] \subseteq noticed'[l],
           queue' \subseteq queue
    PROVE  IndInv'
<1>1. PICK a : a = ReadyToApply(k, s, e)
  OBVIOUS
<1>2. /\ a \in Requests /\ Goto(r, a) /\ a.pc = "ready" /\ a.key = k /\ a.status = s
      /\ a.event = e /\ a.intent = txn[k].intent /\ a.ref = txn[k].ref
  BY <1>1 DEF ReadyToApply, Requests
<1>3. HasIntent(a.intent)
  BY <1>2 DEF IndInv, IntentsExist
<1>4. Fits(r, a)
  BY <1>2, <1>3 DEF Fits, ApplyPcs, Told, database
<1>5. \A w \in sent' : w.status \in said'[w.ref]
  BY DEF IndInv, Heard, TypeOK
<1>6. (\A f \in known' : gw'[f] # "none") /\ \A l \in queue' : HasTxn(l)
  BY DEF IndInv, Heard, IntentsExist, TypeOK
<1> QED
  BY <1>2, <1>4, <1>5, <1>6, MoveOn

LEMMA QueryIndInv ==
    ASSUME IndInv, TypeOK', NEW r \in Handlers, NEW k \in Keys, HasTxn(k), NEW s,
           Query(r, k, s), UNCHANGED <<database, gw, known, sent, noticed>>,
           queue' \subseteq queue
    PROVE  IndInv'
<1>1. /\ txn[k] \in TxnRow /\ txn[k].ref \in Refs
      /\ ReadyToApply(k, s, NoEvent) \in Apply
  BY QueryTyped DEF IndInv, TxnRow
<1>2. said' = [said EXCEPT ![txn[k].ref] = @ \union {s}] /\ said \in [Refs -> SUBSET GatewayStatus]
  BY DEF Query, IndInv, TypeOK
<1>3. s \in Told(k, txn[k].ref)' /\ \A f \in Refs : said[f] \subseteq said'[f]
  BY <1>1, <1>2 DEF database, Told
<1> QED
  BY <1>1, <1>3, ReadyIndInv DEF Query

LEMMA ArriveIndInv ==
    ASSUME IndInv, TypeOK', NEW r \in Reqs, Arrive(r)
    PROVE  IndInv'
<1> USE DEF Handlers
<1>1. ASSUME NEW j \in Jobs, CreateIntentCheck(r, j) PROVE IndInv'
  <2>1. PICK s : s = [pc |-> "create", job |-> j]
    OBVIOUS
  <2>2. s \in Requests /\ Fits(r, s)
    BY <2>1, FitsTrivially DEF Requests
  <2> QED
    BY <1>1, <2>1, <2>2, PassOn DEF CreateIntentCheck
<1>2. ASSUME NEW j \in Jobs, ReadJob(r, j) PROVE IndInv'
  <2>1. PICK s : s = [pc |-> "checkJob", job |-> j, current |-> job[j].status]
    OBVIOUS
  <2>2. job[j].status \in JobStatus
    BY DEF IndInv, TypeOK
  <2>3. s \in Requests /\ Fits(r, s)
    BY <2>1, <2>2, FitsTrivially DEF Requests
  <2> QED
    BY <1>2, <2>1, <2>3, PassOn DEF ReadJob
<1>3. ASSUME NEW i \in Intents, NEW k \in Keys, PayIntent(r, i, k) PROVE IndInv'
  <2>1. PICK s : s = [pc |-> "pay", intent |-> i, key |-> k]
    OBVIOUS
  <2>2. HasIntent(i)
    BY <1>3 DEF PayIntent, IsPayable, Payable, HasIntent
  <2>3. s \in Requests /\ Fits(r, s)
    BY <2>1, <2>2 DEF Requests, Fits, ApplyPcs
  <2> QED
    BY <1>3, <2>1, <2>3, PassOn DEF PayIntent
<1>4. ASSUME WebhookLookup(r) PROVE IndInv'
  <2>1. PICK w \in sent : Goto(r, [pc |-> "store", event |-> w.event,
                                  ref |-> w.ref, status |-> w.status])
    BY <1>4 DEF WebhookLookup
  <2>2. PICK s : s = [pc |-> "store", event |-> w.event, ref |-> w.ref, status |-> w.status]
    OBVIOUS
  <2>3. w \in [event : Events, ref : Refs, status : GatewayStatus]
    BY DEF IndInv, TypeOK
  <2>4. s.status \in said'[s.ref]
    BY <1>4, <2>2 DEF IndInv, Heard, WebhookLookup, provider
  <2>5. s \in Requests /\ Fits(r, s)
    BY <2>2, <2>3, <2>4 DEF Requests, Fits, ApplyPcs
  <2> QED
    BY <1>4, <2>1, <2>2, <2>5, PassOn DEF WebhookLookup
<1>5. ASSUME NEW k \in Keys, ReconcileTransaction(r, k) PROVE IndInv'
  <2>1. PICK s \in GatewayStatus : Query(r, k, s)
    BY <1>5 DEF ReconcileTransaction
  <2> QED
    BY <1>5, <2>1, QueryIndInv DEF ReconcileTransaction
<1>6. ASSUME NEW k \in Keys, NEW s \in Notices, InternalWebhook(r, k, s) PROVE IndInv'
  <2>1. ReadyToApply(k, s, NoEvent) \in Apply /\ txn[k] \in TxnRow
    BY <1>6, NoticeTyped DEF IndInv, InternalWebhook
  <2>2. s \in Told(k, txn[k].ref)' /\ \A l \in Keys : noticed[l] \subseteq noticed'[l]
    <3>1. noticed' = [noticed EXCEPT ![k] = @ \union {s}] /\ UNCHANGED txn
      BY <1>6 DEF InternalWebhook, database
    <3>2. noticed \in [Keys -> SUBSET Notices]
      BY DEF IndInv, TypeOK
    <3> QED
      BY <3>1, <3>2 DEF Told
  <2>3. /\ HasTxn(k) /\ Goto(r, ReadyToApply(k, s, NoEvent))
        /\ UNCHANGED <<database, gw, known, said, sent, queue>>
    BY <1>6 DEF InternalWebhook
  <2>4. NoEvent \in Events => Carries(r, NoEvent)
    BY ChargesAssumption
  <2>5. \A f \in Refs : said[f] \subseteq said'[f]
    BY <2>3
  <2>6. UNCHANGED <<database, gw, known, sent>> /\ queue' \subseteq queue
    BY <2>3
  <2> QED
    BY <2>1, <2>2, <2>3, <2>4, <2>5, <2>6, ReadyIndInv
<1> QED
  BY <1>1, <1>2, <1>3, <1>4, <1>5, <1>6 DEF Arrive

LEMMA ChargeIndInv ==
    ASSUME IndInv, TypeOK', NEW r \in Reqs, RequestCharge(r)
    PROVE  IndInv'
<1>1. PICK f \in Refs, g \in ChargeAnswers :
        /\ gw' = [gw EXCEPT ![f] = g]
        /\ known' = known \union {f}
        /\ said' = [said EXCEPT ![f] = @ \union {g}]
        /\ Goto(r, [pc |-> "insert", key |-> req[r].key, ref |-> f, status |-> g,
                    intent |-> req[r].intent, event |-> NoEvent, write |-> FALSE, book |-> FALSE])
  BY DEF RequestCharge
<1>2. PICK s : s = [pc |-> "insert", key |-> req[r].key, ref |-> f, status |-> g,
                    intent |-> req[r].intent, event |-> NoEvent, write |-> FALSE, book |-> FALSE]
  OBVIOUS
<1>3. req[r].key \in Keys /\ req[r].intent \in Intents /\ HasIntent(req[r].intent) /\ r \in Handlers
  BY InHand DEF IndInv, IntentsExist, RequestCharge, Handlers
<1>4. s \in Requests
  BY <1>2, <1>3 DEF Requests, Apply
<1>5. /\ \A h \in Refs : said[h] \subseteq said'[h]
      /\ g \in said'[f]
  BY <1>1 DEF IndInv, TypeOK
<1>6. Fits(r, s)
  BY <1>2, <1>3, <1>5 DEF Fits, ApplyPcs, Told
<1>7. \A h \in known' : gw'[h] # "none"
  BY <1>1 DEF IndInv, Heard, TypeOK, GatewayStatus
<1>8. \A w \in sent' : w.status \in said'[w.ref]
  BY <1>5 DEF RequestCharge, IndInv, Heard, TypeOK
<1>9. \A k \in queue' : HasTxn(k)
  BY DEF RequestCharge, IndInv, IntentsExist, TypeOK
<1> QED
  BY <1>1, <1>2, <1>3, <1>4, <1>5, <1>6, <1>7, <1>8, <1>9, MoveOn DEF RequestCharge

LEMMA WebhookIndInv ==
    ASSUME IndInv, TypeOK', NEW r \in Reqs, WebhookStep(r)
    PROVE  IndInv'
<1>0. r \in Handlers
  BY DEF Handlers
<1>1. CASE StoreEvent(r)
  <2>1. PICK e : e = req[r].event
    OBVIOUS
  <2>2. /\ req[r] \in [pc : {"store", "find"}, event : Events, ref : Refs, status : GatewayStatus]
        /\ req[r].pc = "store" /\ e \in Events /\ events[e] = "none"
    BY <1>0, <1>1, <2>1, InHand DEF IndInv, StoreEvent, At, EventIsNew
  <2>3. PICK s : s = [req[r] EXCEPT !.pc = "find"]
    OBVIOUS
  <2>4. s.pc = "find" /\ s.event = e /\ s.ref = req[r].ref /\ s.status = req[r].status
    BY <2>1, <2>2, <2>3
  <2>5. /\ req'[r] = s /\ \A q \in Handlers : q # r => req'[q] = req[q]
        /\ UNCHANGED <<job, intent, txn, charges, applied, gw, known, said, sent, noticed, queue>>
    BY <1>0, <1>1, <2>3 DEF StoreEvent, Goto, IndInv, TypeOK, provider
  <2>6. events'[e] = "stored" /\ \A d \in Events : d # e => events'[d] = events[d]
    BY <1>1, <2>1, <2>2 DEF StoreEvent, IndInv, TypeOK
  <2>7. \A d \in Events, q \in Handlers : Carries(q, d)' => (q = r /\ d = e) \/ (q # r /\ Carries(q, d))
    BY <2>4, <2>5 DEF Carries, At, Applying
  <2>8. EventsOnce'
    <3>1. applied[e] = 0 /\ \A q \in Handlers : ~Carries(q, e)
      BY <2>2 DEF IndInv, EventsOnce
    <3>2. \A d \in Events, q \in Handlers : Carries(q, d)' => events'[d] # "none" /\ applied'[d] = 0
      BY <2>5, <2>6, <2>7, <3>1 DEF IndInv, EventsOnce
    <3>3. \A d \in Events, p, q \in Handlers : Carries(p, d)' /\ Carries(q, d)' => p = q
      BY <2>7, <3>1 DEF IndInv, EventsOnce
    <3>4. \A d \in Events : events'[d] = "none" => applied'[d] = 0
      BY <2>5, <2>6 DEF IndInv, EventsOnce
    <3> QED
      BY <3>2, <3>3, <3>4 DEF EventsOnce
  <2>9. IntentsExist' /\ SameRow' /\ Heard' /\ OneWriter' /\ Decided' /\ PaidBefore'
    BY <2>2, <2>4, <2>5
       DEF IndInv, IntentsExist, SameRow, Heard, Told, OneWriter, Decided, PaidBefore, At, Applying,
           Delivering, InTransaction, HasIntent, HasTxn, IsBooked, MustBook, HasBookedPayment
  <2>10. /\ BookedOnce' /\ SucceededIsBooked' /\ BookedWasConfirmed' /\ PaidIsBooked'
         /\ UnlockedIsPaid' /\ StartedIsPaid' /\ EventAppliedOnce'
    BY <2>5 DEF IndInv, BookedOnce, SucceededIsBooked, BookedWasConfirmed, Told, PaidIsBooked, Paid,
                UnlockedIsPaid, StartedIsPaid, EventAppliedOnce, HasBookedPayment, IsBooked, HasTxn
  <2> QED
    BY <2>8, <2>9, <2>10 DEF IndInv
<1>2. CASE StoreConflict(r) \/ TransactionNotFound(r)
  BY <1>0, <1>2, DropIndInv DEF StoreConflict, TransactionNotFound
<1>3. CASE FindTransaction(r)
  <2>1. PICK s, e : s = req[r].status /\ e = req[r].event
    OBVIOUS
  <2>2. PICK k \in Keys : /\ HasTxn(k) /\ txn[k].ref = req[r].ref
                          /\ Goto(r, ReadyToApply(k, s, e))
    BY <1>3, <2>1 DEF FindTransaction
  <2>3. s \in GatewayStatus /\ e \in Events /\ At(r, "find")
    BY <1>0, <1>3, <2>1, InHand DEF IndInv, FindTransaction, At
  <2>4. ReadyToApply(k, s, e) \in Apply
    BY <2>2, <2>3, RowsTyped DEF IndInv, ReadyToApply, TxnRow, Apply
  <2>5. s \in Told(k, txn[k].ref)'
    BY <1>0, <1>3, <2>1, <2>2, <2>3
       DEF IndInv, Heard, Told, Delivering, At, FindTransaction, database, provider
  <2>6. Carries(r, e)
    BY <2>1, <2>3 DEF Carries
  <2>7. UNCHANGED <<database, provider, queue>> /\ UNCHANGED <<gw, known, said, sent, noticed>>
    BY <1>3 DEF FindTransaction, provider
  <2> QED
    BY <1>0, <2>2, <2>4, <2>5, <2>6, <2>7, ReadyIndInv
<1>4. CASE MarkProcessed(r)
  <2>1. /\ req'[r] = Idle /\ \A q \in Handlers : q # r => req'[q] = req[q]
        /\ UNCHANGED <<job, intent, txn, charges, applied, gw, known, said, sent, noticed, queue>>
        /\ \A e \in Events : events'[e] = "none" => events[e] = "none"
    BY <1>0, <1>4 DEF MarkProcessed, Goto, IndInv, TypeOK, provider
  <2>2. Idle.pc = "idle"
    BY DEF Idle
  <2>3. EventsOnce'
    <3>1. \A e \in Events, q \in Handlers : Carries(q, e)' => Carries(q, e)
      BY <2>1, <2>2 DEF Carries, At, Applying
    <3>2. \A e \in Events : events[e] # "none" => events'[e] # "none"
      BY <2>1
    <3> QED
      BY <2>1, <3>1, <3>2 DEF IndInv, EventsOnce
  <2>4. IntentsExist' /\ SameRow' /\ Heard' /\ OneWriter' /\ Decided' /\ PaidBefore'
    BY <2>1, <2>2
       DEF IndInv, IntentsExist, SameRow, Heard, Told, OneWriter, Decided, PaidBefore, At, Applying,
           Delivering, InTransaction, HasIntent, HasTxn, IsBooked, MustBook, HasBookedPayment
  <2>5. /\ BookedOnce' /\ SucceededIsBooked' /\ BookedWasConfirmed' /\ PaidIsBooked'
        /\ UnlockedIsPaid' /\ StartedIsPaid' /\ EventAppliedOnce'
    BY <2>1 DEF IndInv, BookedOnce, SucceededIsBooked, BookedWasConfirmed, Told, PaidIsBooked, Paid,
                UnlockedIsPaid, StartedIsPaid, EventAppliedOnce, HasBookedPayment, IsBooked, HasTxn
  <2> QED
    BY <2>3, <2>4, <2>5 DEF IndInv
<1> QED
  BY <1>1, <1>2, <1>3, <1>4 DEF WebhookStep

\* Intents come, or change their status to one that is not paid, while their
\* jobs stay the same and no payment row or ledger entry is touched; one
\* request drops what it had in hand.
LEMMA RewriteIntents ==
    ASSUME IndInv, TypeOK', NEW r \in Handlers, Goto(r, Idle),
           \A i \in Intents : HasIntent(i) => HasIntent(i)' /\ intent'[i].job = intent[i].job,
           \A i \in Intents : Paid(i)' => Paid(i),
           \A j \in Jobs : job'[j].unlocked => job[j].unlocked,
           \A j \in Jobs : job'[j].status \in Started => HasBookedPayment(j),
           UNCHANGED <<txn, charges, events, applied, provider, queue>>
    PROVE  IndInv'
<1>1. /\ req'[r] = Idle /\ Idle.pc = "idle"
      /\ \A q \in Handlers : q # r => req'[q] = req[q]
      /\ UNCHANGED <<gw, known, said, sent, noticed>>
  BY DEF Goto, IndInv, TypeOK, Idle, provider
<1>2. \A k \in Keys : HasTxn(k) => txn[k].intent \in Intents
  BY RowsTyped DEF IndInv, TxnRow
<1>3. \A j \in Jobs : HasBookedPayment(j) => HasBookedPayment(j)'
  <2> SUFFICES ASSUME NEW j \in Jobs, HasBookedPayment(j) PROVE HasBookedPayment(j)'
    OBVIOUS
  <2>1. PICK k \in Keys : IsBooked(k) /\ intent[txn[k].intent].job = j
    BY DEF HasBookedPayment
  <2>2. HasIntent(txn[k].intent) /\ txn[k].intent \in Intents
    BY <1>2, <2>1 DEF IndInv, IntentsExist
  <2>3. intent'[txn'[k].intent].job = j
    BY <2>1, <2>2
  <2> QED
    BY <2>1, <2>3 DEF HasBookedPayment, IsBooked
<1>4. IntentsExist'
  <2>1. ASSUME NEW q \in Handlers, (At(q, "pay") \/ Applying(q))' PROVE HasIntent(req[q].intent)'
    <3>1. q # r /\ (At(q, "pay") \/ Applying(q)) /\ req'[q] = req[q]
      BY <1>1, <2>1 DEF At, Applying
    <3>2. HasIntent(req[q].intent) /\ req[q].intent \in Intents
      BY <3>1, InHand DEF IndInv, IntentsExist, Applying, Apply
    <3> QED
      BY <3>1, <3>2 DEF HasIntent
  <2>2. ASSUME NEW k \in Keys, HasTxn(k)' PROVE HasIntent(txn[k].intent)'
    BY <1>2, <2>2 DEF IndInv, IntentsExist, HasIntent, HasTxn
  <2>3. ASSUME NEW k \in Keys, IsBooked(k)' \/ k \in queue' PROVE HasTxn(k)'
    BY <2>3 DEF IndInv, IntentsExist, HasTxn, IsBooked
  <2> QED
    BY <2>1, <2>2, <2>3 DEF IntentsExist
<1>5. SameRow' /\ Heard' /\ OneWriter' /\ Decided' /\ EventsOnce'
  BY <1>1 DEF IndInv, SameRow, Heard, Told, OneWriter, Decided, EventsOnce, At, Applying, Delivering,
              InTransaction, HasTxn, MustBook, Carries
<1>6. /\ BookedOnce' /\ SucceededIsBooked' /\ BookedWasConfirmed' /\ PaidIsBooked'
      /\ EventAppliedOnce'
  BY <1>1 DEF IndInv, BookedOnce, SucceededIsBooked, BookedWasConfirmed, Told, PaidIsBooked,
              EventAppliedOnce, IsBooked, HasTxn
<1>7. UnlockedIsPaid' /\ StartedIsPaid'
  BY <1>3 DEF IndInv, UnlockedIsPaid, StartedIsPaid
<1>8. PaidBefore'
  <2> SUFFICES ASSUME NEW q \in Handlers, At(q, "updateJob")', req'[q].next \in Started
               PROVE  HasBookedPayment(req[q].job)'
    BY DEF PaidBefore
  <2>1. q # r /\ req'[q] = req[q] /\ At(q, "updateJob")
    BY <1>1 DEF At
  <2>2. PICK j \in Jobs : j = req[q].job
    BY <2>1, InHand DEF IndInv
  <2>3. HasBookedPayment(j)
    BY <2>1, <2>2 DEF IndInv, PaidBefore
  <2>4. HasBookedPayment(j)' /\ j = req'[q].job
    BY <1>3, <2>1, <2>2, <2>3
  <2> QED
    BY <2>4 DEF HasBookedPayment
<1> QED
  BY <1>4, <1>5, <1>6, <1>7, <1>8 DEF IndInv

LEMMA CreateIntentIndInv ==
    ASSUME IndInv, TypeOK', NEW r \in Reqs, CreateIntent(r)
    PROVE  IndInv'
<1>1. PICK n, j : /\ n \in Intents /\ ~HasIntent(n)
                  /\ intent' = [intent EXCEPT ![n] =
                        [job |-> j, deposit |-> FALSE, status |-> "AWAITING_PAYMENT"]]
  BY DEF CreateIntent
<1>2. /\ intent'[n].status = "AWAITING_PAYMENT"
      /\ \A i \in Intents : i # n => intent'[i] = intent[i]
  BY <1>1 DEF IndInv, TypeOK
<1>3. \A i \in Intents : HasIntent(i) => HasIntent(i)' /\ intent'[i].job = intent[i].job
  BY <1>1, <1>2 DEF HasIntent
<1>4. \A i \in Intents : Paid(i)' => Paid(i)
  BY <1>2 DEF Paid, PaidStatus
<1>5. r \in Handlers /\ Goto(r, Idle) /\ UNCHANGED <<job, txn, charges, events, applied, provider, queue>>
  BY DEF CreateIntent, Handlers
<1> QED
  BY <1>3, <1>4, <1>5, RewriteIntents DEF IndInv, StartedIsPaid

LEMMA UpdateJobIndInv ==
    ASSUME IndInv, TypeOK', NEW r \in Reqs, UpdateJob(r)
    PROVE  IndInv'
<1>1. PICK u : u = req[r]
  OBVIOUS
<1>2. /\ u \in [pc : {"updateJob"}, job : Jobs, next : JobStatus]
      /\ u.job \in Jobs /\ r \in Handlers /\ At(r, "updateJob")
  BY <1>1, InHand DEF IndInv, UpdateJob, Handlers
<1>3. /\ job' = [job EXCEPT ![u.job].status = u.next]
      /\ intent' = IF u.next = "CANCELED" THEN CancelOpenIntents(u.job) ELSE intent
      /\ Goto(r, Idle) /\ UNCHANGED <<txn, charges, events, applied, provider, queue>>
  BY <1>1 DEF UpdateJob
<1>4. \A i \in Intents : HasIntent(i) => HasIntent(i)' /\ intent'[i].job = intent[i].job
  <2> SUFFICES ASSUME NEW i \in Intents, HasIntent(i)
               PROVE  intent'[i].status # "absent" /\ intent'[i].job = intent[i].job
    BY DEF HasIntent
  <2>1. intent[i] \in IntentRow
    BY RowsTyped DEF IndInv
  <2>2. intent'[i] \in {intent[i], [intent[i] EXCEPT !.status = "CANCELED"]}
    BY <1>3 DEF CancelOpenIntents
  <2> QED
    BY <2>1, <2>2 DEF IntentRow, HasIntent
<1>5. \A i \in Intents : Paid(i)' => Paid(i)
  <2> SUFFICES ASSUME NEW i \in Intents, intent'[i].status \in PaidStatus, intent'[i] # intent[i]
               PROVE  FALSE
    BY DEF Paid
  <2>1. HasIntent(i) /\ intent'[i] = [intent[i] EXCEPT !.status = "CANCELED"]
    BY <1>3 DEF CancelOpenIntents
  <2>2. intent[i] \in IntentRow
    BY <2>1, RowsTyped DEF IndInv
  <2>3. intent'[i].status = "CANCELED"
    BY <2>1, <2>2 DEF IntentRow
  <2> QED
    BY <2>3 DEF PaidStatus
<1>6. \A j \in Jobs : /\ job'[j].unlocked = job[j].unlocked
                      /\ j # u.job => job'[j].status = job[j].status
                      /\ j = u.job => job'[j].status = u.next
  BY <1>2, <1>3 DEF IndInv, TypeOK
<1>7. u.next \in Started => HasBookedPayment(u.job)
  BY <1>1, <1>2 DEF IndInv, PaidBefore
<1>8. \A j \in Jobs : job'[j].status \in Started => HasBookedPayment(j)
  BY <1>6, <1>7 DEF IndInv, StartedIsPaid
<1> QED
  BY <1>2, <1>3, <1>4, <1>5, <1>6, <1>8, RewriteIntents

LEMMA CheckJobIndInv ==
    ASSUME IndInv, TypeOK', NEW r \in Reqs, CheckJob(r) \/ RejectJob(r)
    PROVE  IndInv'
<1>0. r \in Handlers
  BY DEF Handlers
<1>1. CASE CheckJob(r)
  <2>1. PICK j \in Jobs : j = req[r].job
    BY <1>0, <1>1, InHand DEF IndInv, CheckJob
  <2>2. PICK next \in JobStatus : /\ PaymentReady(j, next)
                                  /\ Goto(r, [pc |-> "updateJob", job |-> j, next |-> next])
    BY <1>1, <2>1 DEF CheckJob
  <2>3. PICK s : s = [pc |-> "updateJob", job |-> j, next |-> next]
    OBVIOUS
  <2>4. next \in Started => HasBookedPayment(j)
    <3> SUFFICES ASSUME next \in Started PROVE HasBookedPayment(j)
      OBVIOUS
    <3>1. PICK i \in Intents : Paid(i) /\ intent[i].job = j
      BY <2>2 DEF PaymentReady
    <3> QED
      BY <3>1 DEF IndInv, PaidIsBooked, HasBookedPayment
  <2>5. s \in Requests /\ Fits(r, s)
    BY <2>3, <2>4 DEF Requests, Fits, ApplyPcs
  <2> QED
    BY <1>0, <1>1, <2>2, <2>3, <2>5, PassOn DEF CheckJob
<1>2. CASE RejectJob(r)
  BY <1>0, <1>2, DropIndInv DEF RejectJob
<1> QED
  BY <1>1, <1>2

LEMMA WorldIndInv ==
    ASSUME IndInv, TypeOK', RunnerScan \/ Provider \/ UNCHANGED vars
    PROVE  IndInv'
<1>1. CASE RunnerScan
  <2>1. \A k \in queue' : HasTxn(k)
    BY <1>1 DEF RunnerScan, IsPendingCharge, HasTxn, IndInv, TypeOK
  <2> QED
    BY <1>1, <2>1, StandStill DEF RunnerScan, provider, IndInv, Heard
<1>2. CASE Provider
  <2>1. PICK f \in Refs : ProviderSettles(f) \/ \E e \in Events : ProviderNotifies(f, e)
    BY <1>2 DEF Provider
  <2>2. UNCHANGED <<database, req, known, noticed, queue>>
    BY <2>1 DEF ProviderSettles, ProviderNotifies
  <2>3. (\A g \in Refs : said[g] \subseteq said'[g]) /\ \A g \in known' : gw'[g] # "none"
    BY <2>1, <2>2, SMTT(30) DEF ProviderSettles, ProviderNotifies, IndInv, TypeOK, Heard, GatewayStatus
  <2>4. \A w \in sent' : w.status \in said'[w.ref]
    <3>1. \A w \in sent : w.status \in said'[w.ref]
      BY <2>3 DEF IndInv, Heard, TypeOK
    <3>2. \A w \in sent' : w \in sent \/ (w.ref = f /\ w.status \in said'[f])
      BY <2>1 DEF ProviderSettles, ProviderNotifies, IndInv, TypeOK
    <3> QED
      BY <3>1, <3>2
  <2> QED
    BY <2>2, <2>3, <2>4, StandStill DEF IndInv, IntentsExist, TypeOK
<1>3. CASE UNCHANGED vars
  BY <1>3, StandStill DEF vars, database, IndInv, Heard, IntentsExist, TypeOK
<1> QED
  BY <1>1, <1>2, <1>3

LEMMA RestartIndInv ==
    ASSUME IndInv, TypeOK', Restart
    PROVE  IndInv'
<1>1. /\ \A q \in Handlers : req'[q].pc = "idle"
      /\ known' = {} /\ queue' = {}
      /\ UNCHANGED <<job, intent, txn, charges, events, applied, gw, said, sent, noticed>>
  BY DEF Restart, Idle, database
<1>2. IntentsExist' /\ SameRow' /\ Heard' /\ OneWriter' /\ Decided' /\ PaidBefore' /\ EventsOnce'
  BY <1>1 DEF IndInv, IntentsExist, SameRow, Heard, Told, OneWriter, Decided, PaidBefore, EventsOnce,
              At, Applying, Delivering, InTransaction, Carries, HasIntent, HasTxn, IsBooked
<1>3. /\ BookedOnce' /\ SucceededIsBooked' /\ BookedWasConfirmed' /\ PaidIsBooked'
      /\ UnlockedIsPaid' /\ StartedIsPaid' /\ EventAppliedOnce'
  BY <1>1 DEF IndInv, BookedOnce, SucceededIsBooked, BookedWasConfirmed, Told, PaidIsBooked, Paid,
              UnlockedIsPaid, StartedIsPaid, EventAppliedOnce, HasBookedPayment, IsBooked, HasTxn
<1> QED
  BY <1>2, <1>3 DEF IndInv

LEMMA NextIndInv == IndInv /\ [Next]_vars => IndInv'
<1> SUFFICES ASSUME IndInv, [Next]_vars PROVE IndInv'
  OBVIOUS
<1>1. TypeOK'
  BY NextTypeOK DEF IndInv
<1>2. ASSUME NEW r \in Reqs, Arrive(r) PROVE IndInv'
  BY <1>1, <1>2, ArriveIndInv
<1>3. ASSUME NEW r \in Reqs, PayStep(r) PROVE IndInv'
  <2>1. CASE PayReturnExisting(r) \/ InsertConflict(r)
    BY <1>1, <2>1, DropIndInv DEF PayReturnExisting, InsertConflict, Handlers
  <2> QED
    BY <1>1, <1>3, <2>1, ChargeIndInv, WaitIndInv DEF PayStep, Handlers
<1>4. ASSUME NEW r \in Handlers, ApplyStep(r) PROVE IndInv'
  BY <1>1, <1>4, WaitIndInv, EnsureIndInv, CommitIndInv DEF ApplyStep
<1>5. ASSUME NEW r \in Reqs, Continue(r) PROVE IndInv'
  BY <1>1, <1>3, <1>4, <1>5, CreateIntentIndInv, CheckJobIndInv, UpdateJobIndInv, WebhookIndInv
     DEF Continue, Handlers
<1>6. CASE RunnerVisit
  <2>1. PICK k \in queue : Query(Runner, k, QueryStatus(txn[k].ref)) /\ queue' = queue \ {k}
    BY <1>6 DEF RunnerVisit
  <2>2. PICK s : s = QueryStatus(txn[k].ref)
    OBVIOUS
  <2>3. k \in Keys /\ HasTxn(k) /\ Runner \in Handlers /\ queue' \subseteq queue
    BY <2>1 DEF IndInv, IntentsExist, TypeOK, Handlers
  <2> QED
    BY <1>1, <1>6, <2>1, <2>2, <2>3, QueryIndInv DEF RunnerVisit
<1>7. ASSUME NEW r \in Handlers, Abort(r) PROVE IndInv'
  BY <1>1, <1>7, DropIndInv DEF Abort
<1>8. CASE Restart
  BY <1>1, <1>8, RestartIndInv
<1>9. CASE RunnerScan \/ Provider \/ UNCHANGED vars
  BY <1>1, <1>9, WorldIndInv
<1> QED
  BY <1>2, <1>4, <1>5, <1>6, <1>7, <1>8, <1>9 DEF Next, Handlers

-----------------------------------------------------------------------------
(* What holds of every behaviour. *)

LEMMA Invariant == Spec => []IndInv
  BY InitIndInv, NextIndInv, PTL DEF Spec

\* Every row, message and request in flight has the shape the code gives it,
\* for any number of jobs, intents, charges and requests.
THEOREM TypeCorrect == Spec => []TypeOK
<1>1. IndInv => TypeOK
  BY DEF IndInv
<1> QED
  BY <1>1, Invariant, PTL

\* applyGatewayStatus books one transaction's charge at most once, however
\* many payments, webhooks and reconciliations report its success.
THEOREM NoDoubleBooking == Spec => []BookedOnce
<1>1. IndInv => BookedOnce
  BY DEF IndInv
<1> QED
  BY <1>1, Invariant, PTL

\* A charge is in the ledger only if its success was reported of that very
\* charge, by the gateway or by an INTERNAL notification: handleWebhook and
\* reconcileTransaction never carry the status of one transaction to another,
\* and an accepted charge is not a paid one.  INTERNAL notifications are
\* taken as they come, so the theorem does not say that the gateway spoke.
THEOREM LedgerFollowsGateway == Spec => []BookedWasConfirmed
<1>1. IndInv => BookedWasConfirmed
  BY DEF IndInv
<1> QED
  BY <1>1, Invariant, PTL

\* A transaction reads SUCCEEDED only with its entries in the ledger:
\* applyGatewayStatus writes both in one database transaction, and no late
\* status takes the place of SUCCEEDED without them.
THEOREM SuccessIsBooked == Spec => []SucceededIsBooked
<1>1. IndInv => SucceededIsBooked
  BY DEF IndInv
<1> QED
  BY <1>1, Invariant, PTL

\* The money of an intent that reads paid is in the ledger, whichever order the
\* statuses of its charges arrive in.
THEOREM PaidMeansBooked == Spec => []PaidIsBooked
<1>1. IndInv => PaidIsBooked
  BY DEF IndInv
<1> QED
  BY <1>1, Invariant, PTL

\* So is a payment for every job whose contact applyGatewayStatus has opened.
THEOREM UnlockedMeansPaid == Spec => []UnlockedIsPaid
<1>1. IndInv => UnlockedIsPaid
  BY DEF IndInv
<1> QED
  BY <1>1, Invariant, PTL

\* JobsService.updateStatus lets no job be accepted, started or completed
\* without a payment in the ledger.
THEOREM NoUnpaidWork == Spec => []StartedIsPaid
<1>1. IndInv => StartedIsPaid
  BY DEF IndInv
<1> QED
  BY <1>1, Invariant, PTL

\* handleWebhook applies an event at most once, however often and however
\* concurrently it is delivered.
THEOREM WebhooksApplyOnce == Spec => []EventAppliedOnce
<1>1. IndInv => EventAppliedOnce
  BY DEF IndInv
<1> QED
  BY <1>1, Invariant, PTL
=============================================================================
