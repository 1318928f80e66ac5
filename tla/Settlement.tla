----------------------------- MODULE Settlement -----------------------------
(***************************************************************************)
(* What happens to the money of one paid intent: refunds, the release of   *)
(* the provider's part after the job, and payouts.                         *)
(*                                                                         *)
(* PaymentsService: createJobRefundRequest, cancelRefundRequest and the    *)
(* admin operations on refunds, payouts and releases, with the webhook or  *)
(* query that reports what became of a refund or a payout.                 *)
(*                                                                         *)
(* Each request takes its reads, its call to the gateway and its commit in *)
(* steps of their own; reads that follow each other are one step.  A       *)
(* `$transaction' is READ COMMITTED: a row or a unique key it has written  *)
(* is locked until it commits, a row it has only read is not.              *)
(***************************************************************************)
EXTENDS Ledger, FiniteSets, Functions

CONSTANTS
    Refunds, Payouts,  \* ids of refund requests and of payouts
    Operators,         \* requests in flight
    Asks,              \* the amounts asked for
    RefundAnswers,     \* what requestRefund may answer
    PayoutAnswers,     \* what requestPayout may answer
    Confirmations,     \* what a webhook or a query may report later
    MaxAborts          \* bound: database transactions that are aborted

ASSUME SettlementAssumption ==
    /\ Refunds \intersect Payouts = {}
    /\ IsFiniteSet(Refunds) /\ IsFiniteSet(Payouts)
    /\ Asks \subseteq Nat \ {0}
    /\ RefundAnswers \union PayoutAnswers \union Confirmations \subseteq GatewayStatus
    /\ MaxAborts \in Nat

ActiveRefund == {"PENDING", "PROCESSING"}
ActivePayout == {"PENDING", "APPROVED", "PROCESSING"}

Moves == Refunds \union Payouts
NoRow == [status |-> "absent"]

VARIABLES
    stage,    \* how far the job has come
    due,      \* whether the release delay after its completion is over
    intent,   \* the status of the intent
    refund, payout,  \* the rows
    txn,      \* the transaction rows, keyed by `refund-<id>' and `payout-<id>'
    minted,   \* refunds and payouts whose transaction has CUSTOMER_CHARGE entries
    answered, \* what the gateway has said of each refund and payout (history)
    settled,  \* refunds and payouts whose entries were committed (history)
    req,      \* what each request has in hand
    aborts

rows == <<intent, refund, payout, txn, minted, answered, settled, books>>
world == <<stage, due>>
vars == <<rows, world, req, aborts>>

Idle == [pc |-> "idle"]

Init ==
    /\ books = Charge
    /\ stage = "PRE_START"
    /\ due = FALSE
    /\ intent = "PAID_PARTIAL"
    /\ refund = [x \in Refunds |-> NoRow]
    /\ payout = [p \in Payouts |-> NoRow]
    /\ txn = [m \in Moves |-> "none"]
    /\ minted = {}
    /\ answered = [m \in Moves |-> {}]
    /\ settled = {}
    /\ req = [r \in Operators |-> Idle]
    /\ aborts = 0

At(r, pc) == req[r].pc = pc
Goto(r, step) == req' = [req EXCEPT ![r] = step]
\* A step that reads and decides, and writes nothing.
Hold(r, step) == Goto(r, step) /\ UNCHANGED <<rows, world, aborts>>

IsPaid == intent \in PaidStatus

-----------------------------------------------------------------------------
(* Refund requests. *)

\* The `_sum' of the amounts of some rows.
AmountSum(rowsOf, S) == SumFunctionOnSet([m \in S |-> rowsOf[m].amount], S)

RefundedTotal == AmountSum(refund, {x \in Refunds : refund[x].status = "SUCCEEDED"})

Refundable == Remaining(Amount, RefundedTotal)

HasActiveRefund == \E x \in Refunds : refund[x].status \in ActiveRefund

Suggested == SuggestedRefund(Refundable, stage # "PRE_START", stage = "COMPLETED")

\* createJobRefundRequest, up to its transaction.
RequestRefund(r) ==
    /\ At(r, "idle")
    /\ IsPaid /\ ~HasActiveRefund /\ Refundable > 0
    /\ \E amount \in Asks \union {Suggested} :
         /\ amount <= Refundable
         /\ Hold(r, [pc |-> "createRefund", amount |-> amount, then |-> "wait"])

\* adminCreateRefund, up to the create; it goes on to processRefundRequest.
AdminRequestRefund(r) ==
    /\ At(r, "idle")
    /\ IsPaid /\ Refundable > 0
    /\ \E amount \in Asks \union {Refundable} :
         /\ amount <= Refundable
         /\ Hold(r, [pc |-> "createRefund", amount |-> amount, then |-> "process"])

CreateRefund(r) ==
    /\ At(r, "createRefund")
    /\ \E x \in Refunds :
         /\ refund[x] = NoRow
         /\ refund' = [refund EXCEPT ![x] = [status |-> "PENDING", amount |-> req[r].amount]]
         /\ Goto(r, IF req[r].then = "process" THEN [pc |-> "process", item |-> x] ELSE Idle)
    /\ UNCHANGED <<intent, payout, txn, minted, answered, settled, books, world, aborts>>

\* adminApproveRefund reads the request, and processRefundRequest reads it again.
ApproveRefund(r, x) ==
    /\ At(r, "idle")
    /\ refund[x].status = "PENDING"
    /\ Hold(r, [pc |-> "process", item |-> x])

CanProcess(x) == /\ refund[x].status = "PENDING"
                 /\ IsPaid
                 /\ refund[x].amount <= Refundable

CheckRefund(r) ==
    /\ At(r, "process")
    /\ Hold(r, IF CanProcess(req[r].item) THEN [req[r] EXCEPT !.pc = "recheck"] ELSE Idle)

\* The transaction reads the row once more, without a lock ...
RecheckRefund(r) ==
    /\ At(r, "recheck")
    /\ Hold(r, IF refund[req[r].item].status = "PENDING"
               THEN [req[r] EXCEPT !.pc = "approve"] ELSE Idle)

\* ... and its first update waits for whoever has written the row.
RowFree(m) ==
    \A q \in Operators : req[q].pc \in {"askRefund", "settle", "commitRefund", "commitPayout"}
                         => req[q].item # m

LockRefund(r) ==
    /\ At(r, "approve")
    /\ RowFree(req[r].item)
    /\ Hold(r, [req[r] EXCEPT !.pc = "askRefund"])

\* Mutant of KeyFree: no unique index.
KeyAlwaysFree(m) == TRUE

\* The unique index on the idempotency key.
KeyFree(m) == txn[m] = "none"

Answer(m, s) == answered' = [answered EXCEPT ![m] = @ \union {s}]

\* The gateway is asked inside the transaction, before the transaction row is
\* inserted and before any balance is looked at.
AskRefund(r) ==
    LET x == req[r].item
    IN  /\ At(r, "askRefund")
        /\ \E s \in RefundAnswers :
             /\ Answer(x, s)
             /\ Goto(r, IF KeyFree(x) THEN [pc |-> "settle", item |-> x, status |-> s] ELSE Idle)
        /\ UNCHANGED <<intent, refund, payout, txn, minted, settled, books, world, aborts>>

PartOf(x) == PlatformPart(refund[x].amount, Split.fee, Amount)

\* Mutant of CanRefund: the gateway's success is enough.
NeverShort(x) == TRUE

\* Enough in the three buckets: appendRefundLedgerEntries, else it throws.
CanRefund(x) ==
    /\ PartOf(x) <= books["PLATFORM_RESERVED"]
    /\ refund[x].amount - PartOf(x) <= books["PROVIDER_HELD"] + books["PROVIDER_AVAILABLE"]

\* Mutant of HeldDebit: the provider's whole part, held or not.
HeldDebitAll(x) == refund[x].amount - PartOf(x)

\* What the transaction will take from HELD, as it reads it now.
HeldDebit(x) == Least(books["PROVIDER_HELD"], refund[x].amount - PartOf(x))

SettleRefund(r) ==
    LET x == req[r].item
    IN  /\ At(r, "settle")
        /\ Hold(r, IF req[r].status # "SUCCEEDED"
                   THEN [pc |-> "commitRefund", item |-> x, status |-> req[r].status, held |-> 0]
                   ELSE IF CanRefund(x)
                   THEN [pc |-> "commitRefund", item |-> x, status |-> "SUCCEEDED",
                         held |-> HeldDebit(x)]
                   ELSE Idle)

RefundStatusOf(s) == IF s \in {"SUCCEEDED", "FAILED"} THEN s ELSE "PROCESSING"

CommitRefund(r) ==
    LET x == req[r].item
        s == req[r].status
    IN  /\ At(r, "commitRefund")
        /\ refund' = [refund EXCEPT ![x].status = RefundStatusOf(s)]
        /\ txn' = [txn EXCEPT ![x] = TxStatusOf(s)]
        /\ IF s = "SUCCEEDED"
           THEN /\ Post(Refund(refund[x].amount, PartOf(x), req[r].held))
                /\ settled' = settled \union {x}
           ELSE UNCHANGED <<books, settled>>
        /\ Goto(r, Idle)
        /\ UNCHANGED <<intent, payout, minted, answered, world, aborts>>

\* cancelRefundRequest and adminRejectRefund: read the row, then write it.
CloseRefund(r, x) ==
    /\ At(r, "idle")
    /\ refund[x].status = "PENDING"
    /\ \E next \in {"CANCELED", "FAILED"} :
         Hold(r, [pc |-> "closeRefund", item |-> x, next |-> next])

WriteClosed(r) ==
    /\ At(r, "closeRefund")
    /\ RowFree(req[r].item)
    /\ refund' = [refund EXCEPT ![req[r].item].status = req[r].next]
    /\ Goto(r, Idle)
    /\ UNCHANGED <<intent, payout, txn, minted, answered, settled, books, world, aborts>>

-----------------------------------------------------------------------------
(* Payouts. *)

\* adminCreatePayout reads the balance, then what is reserved, then creates.
ReadAvailable(r) ==
    /\ At(r, "idle")
    /\ Hold(r, [pc |-> "reserve", available |-> books["PROVIDER_AVAILABLE"]])

Reserved == AmountSum(payout, {p \in Payouts : payout[p].status \in ActivePayout})

CheckPayout(r) ==
    /\ At(r, "reserve")
    /\ \E amount \in Asks :
         Hold(r, IF amount <= req[r].available - Reserved
                 THEN [pc |-> "createPayout", amount |-> amount] ELSE Idle)

CreatePayout(r) ==
    /\ At(r, "createPayout")
    /\ \E p \in Payouts :
         /\ payout[p] = NoRow
         /\ payout' = [payout EXCEPT ![p] = [status |-> "PENDING", amount |-> req[r].amount]]
    /\ Goto(r, Idle)
    /\ UNCHANGED <<intent, refund, txn, minted, answered, settled, books, world, aborts>>

ApprovePayout(r, p) ==
    /\ At(r, "idle")
    /\ payout[p].status = "PENDING"
    /\ Hold(r, [pc |-> "approvePayout", item |-> p])

WriteApproval(r) ==
    /\ At(r, "approvePayout")
    /\ RowFree(req[r].item)
    /\ payout' = [payout EXCEPT ![req[r].item].status = "APPROVED"]
    /\ Goto(r, Idle)
    /\ UNCHANGED <<intent, refund, txn, minted, answered, settled, books, world, aborts>>

\* adminProcessPayout asks the gateway before its transaction; a payout whose
\* key is taken is returned as it is.
ProcessPayout(r, p) ==
    /\ At(r, "idle")
    /\ payout[p].status = "APPROVED"
    /\ KeyFree(p)
    /\ Hold(r, [pc |-> "askPayout", item |-> p])

AskPayout(r) ==
    /\ At(r, "askPayout")
    /\ \E s \in PayoutAnswers :
         /\ Answer(req[r].item, s)
         /\ Goto(r, [pc |-> "recheckPayout", item |-> req[r].item, status |-> s])
    /\ UNCHANGED <<intent, refund, payout, txn, minted, settled, books, world, aborts>>

RecheckPayout(r) ==
    /\ At(r, "recheckPayout")
    /\ Hold(r, IF payout[req[r].item].status = "APPROVED" /\ KeyFree(req[r].item)
               THEN [req[r] EXCEPT !.pc = "insertPayout"] ELSE Idle)

\* The insert waits for an uncommitted row with its key and then fails; once
\* inserted, a paid payout must be covered by what is available.
InsertPayout(r) ==
    LET p == req[r].item
        covered == req[r].status = "SUCCEEDED" =>
                       payout[p].amount <= books["PROVIDER_AVAILABLE"]
    IN  /\ At(r, "insertPayout")
        /\ RowFree(p)
        /\ Hold(r, IF KeyFree(p) /\ covered
                   THEN [req[r] EXCEPT !.pc = "commitPayout"] ELSE Idle)

\* Mutant of PayoutStatusOf: a payout that was only accepted counts as paid.
PaidWhenAccepted(s) == IF s = "FAILED" THEN "FAILED" ELSE "PAID"

PayoutStatusOf(s) == IF s = "SUCCEEDED" THEN "PAID"
                     ELSE IF s = "FAILED" THEN "FAILED" ELSE "PROCESSING"

CommitPayout(r) ==
    LET p == req[r].item
        s == req[r].status
    IN  /\ At(r, "commitPayout")
        /\ payout' = [payout EXCEPT ![p].status = PayoutStatusOf(s)]
        /\ txn' = [txn EXCEPT ![p] = TxStatusOf(s)]
        /\ IF s = "SUCCEEDED"
           THEN Post(PayOut(payout[p].amount)) /\ settled' = settled \union {p}
           ELSE UNCHANGED <<books, settled>>
        /\ Goto(r, Idle)
        /\ UNCHANGED <<intent, refund, minted, answered, world, aborts>>

-----------------------------------------------------------------------------
(* adminReleaseProviderFunds. *)

ReleaseFunds(r) ==
    /\ At(r, "idle")
    /\ stage = "COMPLETED" /\ due /\ IsPaid
    /\ Hold(r, [pc |-> "release"])

ReadHeld(r) ==
    /\ At(r, "release")
    /\ Hold(r, IF books["PROVIDER_HELD"] > 0
               THEN [pc |-> "commitRelease", held |-> books["PROVIDER_HELD"]] ELSE Idle)

CommitRelease(r) ==
    /\ At(r, "commitRelease")
    /\ Post(Release(req[r].held))
    /\ Goto(r, Idle)
    /\ UNCHANGED <<intent, refund, payout, txn, minted, answered, settled, world, aborts>>

-----------------------------------------------------------------------------
(* The rest of the world. *)

\* A webhook or a query reports what became of a refund or a payout, and
\* applyGatewayStatus treats its transaction as it treats a charge's.  It is
\* one step here; Charges takes it apart.
Confirm(m, s) ==
    /\ txn[m] # "none"
    /\ Answer(m, s)
    /\ txn' = [txn EXCEPT ![m] = TxStatusOf(s)]
    /\ intent' = IntentStatusOf(s, TRUE)
    /\ IF s = "SUCCEEDED" /\ m \notin minted
       THEN Post(Charge) /\ minted' = minted \union {m}
       ELSE UNCHANGED <<books, minted>>
    /\ UNCHANGED <<refund, payout, settled, world, req, aborts>>

\* A transaction is aborted, or the request is lost with its process.
Abort(r) ==
    /\ req[r].pc # "idle"
    /\ aborts < MaxAborts
    /\ aborts' = aborts + 1
    /\ Goto(r, Idle)
    /\ UNCHANGED <<rows, world>>

JobMovesOn ==
    /\ stage # "COMPLETED"
    /\ stage' = IF stage = "PRE_START" THEN "IN_PROGRESS" ELSE "COMPLETED"
    /\ UNCHANGED <<rows, due, req, aborts>>

DelayElapses ==
    /\ stage = "COMPLETED" /\ ~due
    /\ due' = TRUE
    /\ UNCHANGED <<rows, stage, req, aborts>>

RefundStep(r) == \/ CreateRefund(r) \/ CheckRefund(r) \/ RecheckRefund(r) \/ LockRefund(r)
                 \/ AskRefund(r) \/ SettleRefund(r) \/ CommitRefund(r) \/ WriteClosed(r)

PayoutStep(r) == \/ CheckPayout(r) \/ CreatePayout(r) \/ WriteApproval(r) \/ AskPayout(r)
                 \/ RecheckPayout(r) \/ InsertPayout(r) \/ CommitPayout(r)

ReleaseStep(r) == ReadHeld(r) \/ CommitRelease(r)

Arrive(r) == \/ RequestRefund(r) \/ AdminRequestRefund(r)
             \/ \E x \in Refunds : ApproveRefund(r, x) \/ CloseRefund(r, x)
             \/ ReadAvailable(r) \/ ReleaseFunds(r)
             \/ \E p \in Payouts : ApprovePayout(r, p) \/ ProcessPayout(r, p)

Next == \/ \E r \in Operators : \/ Arrive(r) \/ RefundStep(r) \/ PayoutStep(r)
                                \/ ReleaseStep(r) \/ Abort(r)
        \/ \E m \in Moves, s \in Confirmations : Confirm(m, s)
        \/ JobMovesOn \/ DelayElapses

Spec == Init /\ [][Next]_vars

-----------------------------------------------------------------------------
Settled(rowsOf, S) == AmountSum(rowsOf, settled \intersect S)

\* What the entries of type CUSTOMER_CHARGE have taken from the customer: the
\* intent's own charge, and one for every refund or payout that was confirmed
\* late, which applyGatewayStatus books as it books a charge.
ChargedInAll == Amount * (1 + Cardinality(minted))

\* Every refund that was settled gave its amount back once, and every payout
\* paid the provider once, whatever approvals of one request or calls of
\* adminProcessPayout overlap: by the row lock and the unique keys, not by the
\* status checks.  This is about the entries of refunds and payouts; that a
\* late confirmation of a refund books a charge instead is the business of
\* RefundedIsCredited, which fails.
MovesOnce ==
    /\ books["CUSTOMER_EXTERNAL"] + ChargedInAll = Settled(refund, Refunds)
    /\ books["PROVIDER_PAID_OUT"] = Settled(payout, Payouts)

\* "On success ledger entries debit platform/provider buckets and credit
\* customer refund" (docs/PAYMENTS_FLOW.md): the transaction of a refund reads
\* SUCCEEDED only once its entries are committed.  A success reported late,
\* by a webhook or by reconcileTransaction, sets the status alone.
RefundedIsCredited == \A x \in Refunds : txn[x] = "SUCCEEDED" => x \in settled

\* "Only gateway-confirmed results can set PAID": neither a payout nor a
\* refund shows success that the gateway has not reported, although an
\* approval or a cancellation may overwrite the row in between.
PaidWasConfirmed ==
    /\ \A p \in Payouts : payout[p].status = "PAID" => "SUCCEEDED" \in answered[p]
    /\ \A x \in Refunds : refund[x].status = "SUCCEEDED" => "SUCCEEDED" \in answered[x]

E == INSTANCE Escrow

\* Requests that do not overlap keep the ledger's promise, as long as no
\* success of a refund or a payout is reported after its request is over: the
\* bounds of the run, and the assumptions of the theorem, are one request at a
\* time and late reports other than SUCCEEDED.
KeepsEscrow == E!Spec
=============================================================================
