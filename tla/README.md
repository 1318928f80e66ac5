# Verification of Tchuno

Tchuno is a marketplace for home services: a customer publishes a request, providers
propose, the customer selects a proposal and pays a deposit, the job is done, the
provider is paid out. The API (`src/apps/api`, NestJS with Prisma on PostgreSQL) runs every
HTTP request, webhook and timer as an asynchronous handler, so two handlers interleave at
every `await`; only what a database transaction locks, and what a unique index refuses, is
serialised. The web application (`src/apps/web`, Next.js) has the same shape: functions of a
page run between their awaits, beside each other, over copies of what they have read.
These modules say what both keep true under such interleavings, and where they do not
keep what their documents promise.

- [Inventory](#inventory): the parts of the system, their state, and what makes each correct
- [Modules](#modules): what is modelled, how state and actions correspond to the code
- [Runs](#runs): what TLC checks, with which bounds, and what each run shows
- [Findings](#findings): where the code departs from its documents
- [Proofs](#proofs): what is proved for every value of the constants, and how
- [Observations](#observations): behaviour met while modelling that the properties except
- [Not modelled](#not-modelled) and the [plan](#plan)

## Inventory

Paths are relative to `src/apps/api/src`, or to `src/apps/web/src` for the pages. "Correct"
names the property, not a claim that it holds.

| Component | State | Operations | Hard behaviours | Correct means |
| --- | --- | --- | --- | --- |
| Payments: charges (`payments/payments.service.ts`) | `PaymentIntent`, `PaymentTransaction`, `PaymentEvent`, ledger entries | `createIntent`, `payIntent`, `handleWebhook`, `reconcileTransaction`, `applyGatewayStatus` | webhooks duplicated, late or lost; pay, webhook, query and runner reporting one charge at once; aborts; restarts | one charge booked once, only when confirmed; paid means booked; a settled charge is booked in the end |
| Payments: reconciliation (`payments-reconciliation.runner.ts`) | the running cycle | `runCycle`, `reconcilePendingTransactions` | races the webhooks, one cycle at a time | every pending charge is asked about again |
| Payments: refunds, releases, payouts (`payments.service.ts`) | `RefundRequest`, `Payout`, their transactions and ledger entries | request, create, approve, reject and cancel a refund; create, approve and process a payout; release held funds | operators at once; the gateway asked before or inside a transaction; checks on unlocked rows; rounding | no balance overdrawn; nothing moved twice; success only when confirmed |
| Payments: ledger (`payments/ledger.service.ts`) | `LedgerEntry` | append, sum a bucket | sums read before another's append | balanced, and never overdrawn |
| Payments: policy (`payments/payment-policy.service.ts`) | none | fee split, rounding | half-up rounding | the parts add up to the amount |
| Gateway adapters (`payments/gateway`) | in-memory map of operations | request and query charges, refunds and payouts | the map is lost with the process | answers only what was settled |
| Jobs (`jobs/jobs.service.ts`) | `Job` | `updateStatus` | the job and its payment are read before they are relied on; cancelling closes intents | no unpaid work |
| Service requests (`service-requests`) | `ServiceRequest`, `Proposal`, `RequestInvitation`, `Job` | publish, update, recreate, invite, decline, propose, select, expire | two selections; a proposal edited while another is selected; expiry at the same time | a request is closed with one job, of the selected proposal, for good |
| Sessions (`auth/auth.service.ts`, `lib/auth.ts`) | `Session`, cookies, the module state of each tab | login, refresh, rotation, reuse detection, logout, revocation | two tabs; a refresh racing a revocation; lost answers | an ended session stays ended; no honest client is taken for a thief; nobody waits for ever |
| Password recovery (`auth/auth.service.ts`) | `PasswordRecoveryRequest` | ask, take, close | read before write, unlocked | one open ticket for an address, closed once |
| Accounts, re-authentication, audit (`admin-ops`, `auth/reauth.service.ts`, `auth/guards`, `auth/security-audit.service.ts`) | `User`, `ReauthChallenge`, `Session`, `AuditLog` | change a role, suspend, reactivate, delete, behind guard and challenge | guard, challenge, write, revocation and entry are separate statements | a challenge is used once; an administrator remains; a change ends sessions and is logged |
| Support operations (`support-ops`) | `OperationalIncident`, its timeline | open, update, close by a refund decision | manual update against automatic close | status, resolution, timeline and what participants are told agree |
| Messages, trust and safety (`messages`, `trust-safety`) | `JobMessage`, `TrustSafetyIntervention` | send with evaluation, list, mark as read, appeal, review | two messages counted at once; appeal against review; a message between two queries | contact stays locked; warnings escalate; cleared is cleared; read was shown |
| Profiles (`worker-profile`, `categories`, `reviews`) | `WorkerProfile`, its categories and rating, `Category`, `Review` | upsert, update, remove a category, review | two saves or two reviews at once | the profile is of one piece; the rating counts the reviews |
| Tracking (`lib/tracking.ts`, `tracking`) | queues and counters of pages, `localStorage`, the service's queue, aggregates | report, flush, ingest, persist, rank | lost batches; a flush during a flush; pages sharing a store | a click counts once, never against its worker, and moves on |
| Page of an order (`app/app/pedidos/[id]/page.tsx`, `job-protection-panel.tsx`) | copies of request and money, flags | load, nine operations of the customer | overlapping functions over old copies | offers what the API takes; shows what it did |
| Suggested providers (`lib/request-worker-recommendations.ts`) | the suggestions | search for each copy of the request | late answers; places given as texts | the nearest that fit, for the request on the page |
| Requests for a provider (`app/pro/pedidos/page.tsx`, `lib/provider-inbox.ts`) | three lists | load, propose, decline | lists read at different moments | no request falls between them |
| Page of conversations (`job-messages-workspace.tsx`) | list, selection, thread | select, load, send, appeal | superseded loads, late refreshes, the address | what is shown is what is selected |
| Consoles of administrators (`app/admin/payments`, `app/admin/support`) | copies, flags, challenge | critical actions with confirmation | lost answers, retries, clicks that overlap | a click has its effect at most once and is reported truly |
| Notifications, realtime, storage | rows, sockets, files | fan-out, mark as read | fire and forget | - |
| Observability, configuration, common, scripts | counters, environment | parsing, metrics | none | - |

How they interact: `selectProposal` creates the job together with its deposit intent;
`updateStatus` asks the intents for a payment and cancels the open ones; the webhook, the
customer's payment, an operator's query and the runner all end in `applyGatewayStatus`,
which writes the transaction, the intent, the ledger and the job's `contactUnlockedAt` in
one database transaction; that unlocks the conversation, whose messages are otherwise
evaluated; refunds, releases and payouts draw on the balances that the charge has left in
the ledger, and a refund opens and closes a dispute of the support desk; a completed job
may be reviewed, which changes the profile that searches and the inbox are made of. Critical
actions of administrators pass the guard and consume a challenge. Interaction is by
shared rows and direct calls; there is no message queue, and the only callbacks are
the provider's webhooks and the timers.

`PROJECT.json` lists every component with its status and every hazard at the line where it
bites, with the properties that would catch it.

## Modules

```
PaymentPolicy  <- Charges          <- MCCharges,  Charges_proofs
                                      MCCharges <- MCReports, MCJobs
                                      (MCJobs INSTANCEs ServiceRequests)
               <- Ledger           <- Escrow
                                   <- Settlement  <- MCSettlement, Settlement_proofs
                                                            (Settlement INSTANCEs Escrow)
               <- ServiceRequests  <- MCServiceRequests, ServiceRequests_proofs
                                                            (ServiceRequests INSTANCEs Deals)
               <- Arithmetic_proofs  (rounding and sums, for Settlement_proofs,
                                      ServiceRequests_proofs and Tracking_proofs)
Sessions       <- MCSessions, Sessions_proofs
Tracking       <- MCTracking, Tracking_proofs
Accounts, Profiles, Desk, Recovery, Consoles                <- MCAdministration, Administration_proofs
Conversations, OrderPage, Suggestions, InboxPage, Workspace <- MCMarket, Market_proofs
```

The modules that `MCAdministration` or `MCMarket` puts together share no state: a behaviour runs one of
them, chosen in the initial state, which lets one instance check all. `MCReports` divides the
behaviours of `Charges` in the same way, by how a charge comes to be reported, and `MCJobs` has the two
jobs that the API schedules for itself, that of `Charges` and that of `ServiceRequests`.

A handler is modelled the same way everywhere. A record per request in flight (`req[r]`,
`call[c]`, `work[c]`, `clerk[c]`, `click[k]`, ...) holds the place of the `await` it has come to
(`pc`) and what it has read so far; each action is what happens between two awaits, or one
statement of the database. A transaction's writes become visible at once, when it commits,
and it holds the rows it has written until then; isolation is PostgreSQL's default, READ
COMMITTED. A process may end between any two steps. What is refused for its input makes no
step unless the refusal changes something.

**PaymentPolicy.** The arithmetic (`computeSplit`, `Math.round` half up, the split of a
refund, the suggested refund, the deposit) and the maps between the gateway's statuses and
those of the rows. Operators only, no recursion.

**Charges.** `job`, `intent`, `txn`, `events` and `charges` (how many groups of
CUSTOMER_CHARGE entries a transaction has) are the database; `gw` is the provider's own state,
`known` the adapter's map, `sent` the webhooks, `said` everything the gateway has answered and `noticed` what
INTERNAL notifications have said of a transaction. `applied` is a history variable.

| In the code | In the model |
| --- | --- |
| a call up to its first write | `CreateIntentCheck`, `PayIntent`, `WebhookLookup`, `ReconcileTransaction`, `ReadJob` |
| `$transaction`, whose first statement writes the payment row | `InsertTransaction` or `LockTransaction` (the row lock), `EnsureCharge` (the reads: intent, ledger), `CommitStatus` (all writes, visible at once) |
| a transaction that is aborted | `Abort`: nothing is written, the handler rethrows |
| the unique keys of a transaction and an event | `InsertConflict`, `StoreConflict` |
| a notification of the provider INTERNAL | `InternalWebhook`: it carries no signature and needs no event id, names a transaction of any provider by its id, and its status is applied as the gateway's would be (`handleWebhook`, `verifyWebhookSignature`) |
| the runner's cycle | `RunnerScan` (the query for pending rows) and `RunnerVisit`, one row after the other |
| the provider | `ProviderSettles`, `ProviderNotifies`; a webhook in `sent` may be delivered never, late, or to several requests at once |
| a restart | `Restart`: requests and the adapter's map are lost, rows stay |

**Ledger, Escrow.** `Ledger` has the net of each bucket of one intent and the entries that a
charge, a release, a refund and a payout append. `Escrow` is the abstract specification:
held money is released, refunded or paid out, and a balance is spent only if it suffices.

**Settlement.** Refunds, payouts and releases of one paid intent by concurrent operators,
with the reads, the call to the gateway, the lock and the commit of every operation as
steps of their own. `Confirm` is the webhook or the query that reports a refund or a
payout later; it is one step, because `Charges` has already taken
`applyGatewayStatus` apart, and it does what that function does to a transaction of any type: a
success is booked as a customer charge (`minted` remembers which). What it should have booked instead is
`RefundedIsCredited`, which fails. The refinement mapping to `Escrow` is the identity on `books`,
so `KeepsEscrow == E!Spec`.

**Deals, ServiceRequests.** `Deals` is the abstract specification of the market: requests are
published, gather offers, lapse, and are dealt at most once, for an offer that was made.
`ServiceRequests` has the rows of requests, proposals, invitations and jobs, `told` (the
notifications of a selection) and `now`; each method of the service is a chain of steps
(`submitProposal`: lookup, save, accept the invitation; `selectProposal`: choose, look for the
job, settle in one transaction, tell). The sweep is the call of `Timer`, and every method that
expires on reading does so in the model. The mapping takes the status of a request for its
phase, every proposal ever saved for the offers and the job for the deal (`KeepsPromise`).

**Sessions.** The rows of `Session`, the cookie jar and marker of each browser, and in each
tab `currentAuth`, `refreshPromise` and the form. `req[q]` is a request at the server or an
answer on its way back (`Serve`, `Arrive`); cookies change when an answer arrives, whether or
not its page is still there. `contended` marks sessions of which two requests were in flight or
whose latest token got lost, which is what the properties except.

**Tracking.** `page[p]` is the module state of `lib/tracking.ts`, `store` the shared
`localStorage`, `post` the bag of batches on their way (lost, refused or delivered), `server` the queue, flags and batch of `TrackingService`, `db` the aggregates.
The factors of the score (`Behavior`, `Stability`, `Guard`, and `Rank...` for the API's) are
operators, in integers scaled like the code's weights. `latest` is `lastEventAt`, the stamp that a
batch brings from its visitor's clock and writes over the one in the database; the decay
that weighs a worker's clicks by it is any function of the stamp that weighs a later one no less (`Multipliers`).

**Accounts.** Accounts with role and `isActive`, one session for all of an account, the
challenges. `work[c]` goes through guard (`Admit`), challenge (`ReadChallenge`,
`ConsumeChallenge`), `ReadTarget`, `WriteTarget`, `RevokeSessions` and `LogAdminAction`, each a
statement of its own; `met` marks a challenge that two requests carried at once. `RefusedToSelf` has the refusals of `updateUserRole`, `updateUserStatus` and
`deleteUser`. **Recovery** has the tickets of one address, **Desk** the cases
with status, `resolvedAt` and the last entries of their timeline, updated by id from older reads
(`ReadIncident`, `UpdateIncident`) or closed by the decision of their refund
(`FindCase`, `SyncRefundCaseDecision`). **Profiles** has the profile's availability, its
categories and the set of reviews that its rating was computed from; `HoldProfile` is the first
write of a transaction, which takes the row.

**Conversations.** The messages and interventions of one job. `send` is `Send` (reads the
job), `CheckRestriction`, `CountAttempts`, `Intervene` or `StoreMessage`; an appeal or a review reads
(`ReadForAppeal`, `ReadForReview`) and writes by id. Time is two bits of an
intervention, `live` and `recent`.

**The pages.** `OrderPage`, `Suggestions`, `InboxPage`, `Workspace` and `Consoles` take the API by
what its operations accept and change, one step each, and the page await by await:
`thread[t].todo` is what is left of a function of the order's page, `search` the searches for
suggestions, `tab[t]` the functions of the inbox, `load`, `late` and `hand` those of the
conversations, `click[k]` an action at a console. Others change the database meanwhile
(`OthersAct`, `Elsewhere`, `NewChat`, `ElsewhereDecided`). An effect of React is taken together with
the change that it follows; a `confirm` or `prompt` stops the page and belongs to the step before
it. `OrderPage` compares two predicates that the code writes apart: `Offers` and `FlowState`
are the page's, `Outcomes` the API's, with an operator for each of its operations. What the gateway says of a charge goes
over a paid deposit too (`GatewayTells`, as `applyGatewayStatus` does), while the contact stays unlocked. In `InboxPage` the request
is published while the page may be open, the three answers of a load are read one by one, and the list of the
market, which is cut at the eighty newest, may lack the request (`RequestsRead`). In `Consoles` an
action leads to any status that the API may give (`Makes`), and a payout whose transaction exists (`keyed`) is answered
as it is; the page reports success for both, since it reads no status from the answer. `Suggestions` compares places as sequences of segments of words
(`Proximity`), over a small table of municipalities and regions.

## Runs

`tlc -workers 2 -config <cfg> <module>`; `PROJECT.json` has the cfg and the module of each run.

| Run | Bounds | Shows |
| --- | --- | --- |
| `charges_reported` (`MCReports`) | 1 job, its deposit and one more intent, 1 restart; either 1 charge, 1 webhook event and two at a time of 2 requests and the runner, or 2 keys and charges, 1 request and the runner, no webhooks, or 1 charge, 1 request, the runner and INTERNAL notifications of success | a charge is booked once (`BookedOnce`), only when its success was reported (`BookedWasConfirmed`); an event is applied once (`EventAppliedOnce`); an intent that reads paid has money in the ledger, whichever order the statuses of its attempts and a cancellation are written in (`PaidIsBooked`), and so has every attempt that succeeded (`SucceededIsBooked`); neither contact nor work runs ahead of the ledger (`UnlockedIsPaid`, `StartedIsPaid`) |
| `charges_double` | 1 intent, 2 keys, 2 charges, 1 request | a finding (`ChargedOnce` is violated) |
| `jobs` (`MCJobs`) | the payment cycle with 2 intents, 1 key, charge and event, 1 request, 1 abort, no restart; the sweep with 2 requests, 1 provider, 1 call, 2 ticks | a charge that settles is booked in the end (`ConfirmedIsBooked`), an overdue request does not stay open (`OverdueCloses`) |
| `settlement_alone` | amount 4, fee 25 %, 2 refunds, 2 payouts, 1 operator, 1 lost request, late reports of failure only | requests that do not overlap, and of which no success is reported late, implement `Escrow` (`KeepsEscrow`) and overdraw nothing (`Solvent`) |
| `settlement_race` | amount 4, 1 refund, 1 payout, 2 operators, 1 lost request, late reports of success or failure | the entries of a refund and of a payout are committed once whatever overlaps (`MovesOnce`), nothing reads paid that the gateway has not confirmed (`PaidWasConfirmed`) |
| `settlement_late` | amount 4, 1 refund, 1 payout, 1 operator, late reports of success | a finding (`RefundedIsCredited` is violated) |
| `requests_race` (`MCServiceRequests`) | 1 request and the appearance of a second, 2 providers, 2 prices, 3 different offers (`Bounded`), 2 calls and the sweep, 1 tick | a request is closed with its job (`ClosedIsDealt`), proposals and notifications agree with it (`OutcomeIsTheDeal`), accepted invitations have a proposal (`AcceptedHasProposal`), and all of it implements `Deals` (`KeepsPromise`) |
| `sessions_tabs` | 1 browser with 2 tabs, 1 session, 3 tokens in play, 2 requests in flight | only overlapping requests or a lost token set off the reuse detection (`NoFalseAlarm`), an ended session comes back only through a refresh under way (`RevocationSticks`), every refresh ends (`RefreshEnds`) |
| `tracking_clicks` | 2 pages, 1 subject, 3 events, limits of 2, ratings 0 to 30, decay 10 % and 100 %, 2 stamps | a click counts once (`EveryClickCountsOnce`), never lowers its worker's score on its page, nor a factor that the API ranks by unless it moves `lastEventAt` back (`ClickNeverHurts`), and leaves the queues (`EventsMoveOn`) |
| `administration` | 2 accounts, 2 challenges, 2 requests, 4 actions; a provider with 2 jobs and 2 categories; 2 cases; 3 tickets; a console with 1 refund, 1 payout and 2 clicks | a consumed challenge lets nobody through who reads it then (`SpentIsRefused`), an administrator remains (`SomeAdminRemains`), changes end sessions and are logged (`ChangesAreFollowedUp`); the profile is of one piece (`ProfileAgrees`) and its rating that of the reviews (`RatingCountsReviews`); a case's fields agree (`CaseFileAgrees`); one ticket, closed once (`OneTicketClosedOnce`); a click acts once and is told truly (`ClickRunsOnce`) |
| `challenge_twice` (`Accounts_once.cfg`) | `administration` with 1 action | a finding (`ChallengeUsedOnce` is violated) |
| `market` | 1 conversation with 1 message, 2 interventions and 2 requests; an order with 2 providers, new or with a paid deposit, 2 accepted operations and 2 functions of its page; 2 workers in 3 places, 2 copies; 1 request, 2 availabilities and 2 functions of the inbox; 2 conversations | contact stays locked (`ContactStaysLocked`), warnings escalate (`WarnedOnceThenBlocked`), cleared is cleared (`ClearedNeverBlocks`), read was shown (`ReadWasShown`); the order's page offers what the API takes (`OffersMatchApi`) and shows what it did (`ActedIsShown`); suggestions fit (`SuggestionsFit`); no request that one of them has falls between the lists (`EachRequestIsOffered`); what is shown is selected (`ShownIsSelected`) |

Several of these properties name the overlap that they except (`met`, `beside`, `contended`,
`overtaken`, `overlapped`, `crossed`, `lost`): that is where the code takes no lock, and the property says
that nothing less than that overlap is enough. The history variable is set by the very step
in which the two meet and nowhere else.

**Why the bounds are enough.** Every race in the code is between two handlers over one row,
one event, one ledger or one page, so two requests next to the timer let every pair of
handlers meet; the proofs cover any number where there are proofs. Two keys on one
intent, and two intents of one job, are the smallest instances in which a status or a
payment can belong to the wrong attempt. Amount 4 with a fee of 25 % makes the platform's
part of a half refund a half, which is where rounding bites, and makes the suggested half
refund, a full refund and a payout of part of the balance all different. Two providers with two
prices let the selected proposal be the other one or be edited meanwhile. Three
tokens in play let an old, a current and a next one exist at once. Limits of 2 in
`Tracking` let the queue, a batch and a counter be full with three events, and the percentages
are the ends of the code's range. Two interventions are a warning and the block after it; once a message
has been stored beside both, requests come one at a time (`InTurnOnceFull` of `MCMarket`), and a
message more would only be kept back or stored again. A refund and a payout let the two clicks of a console be about
the same thing or about different ones. Two operations let the page of an order
act and be overtaken by another act of its own; because it starts both with a new request and with a paid
deposit, those before and after the payment are reached without a bound of more. Of the four availabilities
`AVAILABLE_NOW` gives most points and `UNAVAILABLE` least, and only the latter is refused. Restarts, aborts and lost requests are capped
where they would make behaviours infinite (`MaxRestarts`, `MaxAborts`, `MaxNow`, `MaxActs`,
`MaxMessages`, `MaxInterventions`, `MaxCases`, `MaxTickets`, `MaxCopies`, `Events`, `Serials`);
everything else is finite by the constants.

`CHECK_DEADLOCK FALSE` is in the cfgs whose instances do stop: when every key, event, message,
ticket or operation of the bound has been used, there is nothing left to do.

**Symmetry** is used in safety runs only, over model values that every definition treats alike. Intents are not
interchangeable, one of them being the deposit, nor the tabs and requests of the liveness runs.

**Fairness.** In `Charges` the runner is weakly fair: its timer fires again and
again, and a cycle visits what it has queued. Its lock is strongly fair: webhooks and queries
take the same row lock in between, and PostgreSQL grants a row lock in the order in which
it was asked for. A transaction that holds the lock goes on (weak fairness of `EnsureCharge`
and `CommitStatus`), or is aborted, at most `MaxAborts` times. `jobs` has no restarts: the
simulated adapter forgets its charges with the process and answers PENDING for them ever
after. `jobs` assumes the fairness of both
modules; in the part that a behaviour is not about the scheduled job has nothing to do. In `ServiceRequests` the sweep is weakly fair (`setInterval`) and its transaction strongly
fair, since calls may close or extend the same requests in between. In `Sessions` a request in flight is
served and its answer arrives, or it fails, in the end (weak fairness of `Serve` and `Arrive`). In `Tracking` timers of pages
and of the service fire, and a transaction ends, with success or without. Nothing is assumed
of customers, providers, administrators, visitors, the network or the gateway.

## Findings

| Run | What the code does |
| --- | --- |
| `charges_double` | an intent in PENDING_CONFIRMATION can be paid again under a new key: both charges settle and both are booked, while `docs/PAYMENTS_SECURITY.md:7` counts double processing of transactions among the threats addressed |
| `settlement_late` | the success of a refund that was pending is booked by `applyGatewayStatus` as a further charge of the customer, while `docs/PAYMENTS_FLOW.md:66` says that on success the entries debit platform and provider and credit the customer's refund |
| `challenge_twice` | `consumeChallenge` reads the challenge and writes `consumedAt` afterwards by id, so two requests that overlap there both act with it, while `docs/ACCESS_PHASE2_SECURITY.md:61` calls each challenge "de uso único" (`docs/security-model.md:52`, `docs/domain-model.md:282` and `docs/architecture.md:97` say one-use) |

One more disagreement has no run of its own. `docs/PAYMENTS_SECURITY.md` lists fake claims of a payment's success
among the threats addressed (line 5) and says that contact is unlocked only after a payment that the backend has
confirmed (line 39). `handleWebhook` takes the word of a notification of the provider INTERNAL for any
transaction. `Charges` models that (`InternalWebhook`), and `BookedWasConfirmed` counts such a notification among the
reports that may be booked: what it shows is that the ledger follows what was reported, not that the report came from
the gateway that was charged.

## Proofs

Every invariant and action property that a passing run checks is also the statement of a theorem,
and so is each of the two refinements. What stays with TLC is named at the end of this section.

| Theorem | Says, for every value of the constants |
| --- | --- |
| `Charges_proofs!TypeCorrect` | `TypeOK` |
| `Charges_proofs!NoDoubleBooking` | `BookedOnce` |
| `Charges_proofs!LedgerFollowsGateway` | `BookedWasConfirmed`: booked is what the gateway or an INTERNAL notification reported |
| `Charges_proofs!SuccessIsBooked` | `SucceededIsBooked` |
| `Charges_proofs!PaidMeansBooked`, `UnlockedMeansPaid` | `PaidIsBooked`, `UnlockedIsPaid` |
| `Charges_proofs!NoUnpaidWork` | `StartedIsPaid` |
| `Charges_proofs!WebhooksApplyOnce` | `EventAppliedOnce` |
| `Arithmetic_proofs!SplitConserves` | fee and net are naturals that add up to the amount |
| `Arithmetic_proofs!PlatformPartBounded` | the platform's part of a refund is no more than the refund |
| `Settlement_proofs!EscrowSolvent` | `Solvent`, for any amount and any fee up to 100 % |
| `Settlement_proofs!InTurnKeepsEscrow` | `KeepsEscrow`: requests that do not overlap, and of which no success is reported late, implement `Escrow` |
| `Settlement_proofs!MoneyMovesOnce` | `MovesOnce` |
| `Settlement_proofs!SuccessWasConfirmed` | `PaidWasConfirmed` |
| `Settlement_proofs!SettledOnce` | no step commits the entries of a refund or payout that have been committed |
| `ServiceRequests_proofs!TypeCorrect` | `TypeOK` |
| `ServiceRequests_proofs!RequestClosesWithItsJob` | `ClosedIsDealt` |
| `ServiceRequests_proofs!OneOutcome` | `OutcomeIsTheDeal` |
| `ServiceRequests_proofs!NoEmptyAcceptance` | `AcceptedHasProposal` |
| `ServiceRequests_proofs!Marketplace` | `KeepsPromise`: `ServiceRequests` implements `Deals` |
| `Sessions_proofs!SessionsNoFalseAlarm` | `NoFalseAlarm` |
| `Sessions_proofs!SessionsRevocationSticks` | `RevocationSticks` |
| `Tracking_proofs!ClicksCountOnce` | `EveryClickCountsOnce` |
| `Tracking_proofs!ClicksNeverHurt` | `ClickNeverHurts` |
| `Administration_proofs!SpentChallengesAreRefused` | `SpentIsRefused` |
| `Administration_proofs!PlatformKeepsAdmin` | `SomeAdminRemains` |
| `Administration_proofs!ChangesFollowedUp` | `ChangesAreFollowedUp` |
| `Administration_proofs!ProfileOfOnePiece` | `ProfileAgrees` |
| `Administration_proofs!RatingFollowsReviews` | `RatingCountsReviews` |
| `Administration_proofs!CaseFileStaysOfOnePiece` | `CaseFileAgrees` |
| `Administration_proofs!TicketsCloseOnce` | `OneTicketClosedOnce` |
| `Administration_proofs!ClicksRunOnce` | `ClickRunsOnce` |
| `Market_proofs!ContactIsKept` | `ContactStaysLocked` |
| `Market_proofs!BadgeMeansSeen` | `ReadWasShown` |
| `Market_proofs!WarnedBeforeBlocked` | `WarnedOnceThenBlocked` |
| `Market_proofs!ClearedStaysClear` | `ClearedNeverBlocks` |
| `Market_proofs!ButtonsAreHonest` | `OffersMatchApi` |
| `Market_proofs!PageShowsItsActs` | `ActedIsShown` |
| `Market_proofs!SuggestionsAreForTheRequest` | `SuggestionsFit` |
| `Market_proofs!InboxOffersEach` | `EachRequestIsOffered` |
| `Market_proofs!PageShowsSelected` | `ShownIsSelected` |

**Assumptions.** `ChargesAssumption`: a job has one deposit intent and no two jobs share one
(the intent is created together with the job), the runner is not an HTTP request, answers are
statuses of the gateway interface. `LedgerAssumption`: the amount is at least 1 and the fee
between 0 and 10000 basis points (`resolveFeeBps` clamps it). `RequestsAssumption`: prices and
extensions are positive, deposits 20 to 30 percent (the DTOs validate them), the fee as before, and the sweep is not
a call. `SettlementAssumption`: refunds and payouts have ids of their own and are finitely many, a refund
is asked for with a positive amount, answers are statuses of the gateway interface.
`AccountsAssumption` and `DeskAssumption`: the roles, actions and statuses are those of
the enumerations in the code, and the requests are finitely many. `SessionsAssumption`: a tab belongs to a browser,
serials are positive, the markers for none are no tab and no token. `TrackingAssumption`: the limits are
positive, decays are percentages, the pages of a browser are finitely many. `ConversationsAssumption`: a
conversation has two participants. `TraitsAssumption`: the parts of the inbox's score are those that
`buildRequestFit` can add. `SellersAssumption`: there is a provider. `PlacesAssumption`: a place is written in finitely
many words. `NoChatAssumption`: the marker for none is no conversation. TLC evaluates all of them.

**Sums and folds.** The code adds up rows (`_sum`), queues and batches; the models use the folds of the
community modules, which are defined by recursion. A proof by induction over such a definition is written out
here as a minimal counterexample: if the statement failed for some finite set there would be a least cardinality
at which it fails (`LeastNat`), and taking one element away (`Smaller`) leads below it. Thus
`AddsExists` and `AddsUnique` show that the recursive function behind `SumFunctionOnSet` exists and is the
only one, and `SumAdd`, `SumCongruent` and `SumZero` are what is used of it. `FiltersExist` and
`FilterKeepsClicks` do the same for the fold over a sequence.

**The argument for Charges.** `BookedOnce` is not inductive: a request may have decided to
book before another has booked. `IndInv` adds what the row lock gives. No two
transactions are open on one payment row (`OneWriter`), so what one of them has found in
the ledger stays true until it commits (`Decided`), so it books only what is not booked.
`SameRow` says that the request's intent and reference are those of the row, `Heard` that
the status it carries was reported for it (`Told`: by the gateway that was charged or by an INTERNAL
notification), which gives `BookedWasConfirmed`. `SucceededIsBooked` and `PaidIsBooked` follow because a commit
that writes a success leaves its key booked, bookings are never removed, and rows never
change their intent. `PaidBefore` carries the payment that `updateStatus` saw from its check
to its write. `EventsOnce` says that the unique index lets an event be in one
request's hands, after its row was stored and before its status was applied. The proof of a
step is by action; steps that only move a request on share one lemma (`MoveOn`), whose
hypothesis `Fits` is what the invariant asks of a request in hand. `CommitWrites`
describes the one step that writes payment, intent and ledger, and `RewriteIntents` those
that rewrite intents.

**The argument for ServiceRequests.** What a call has in hand was read earlier, so the
invariant must say what of it stays true: proposals are never deleted and every price in
hand was offered; a job, once made, stays; a call that tells the outcome has settled it
(`Fits`, for each place a call may be at). With this `IndInv` is inductive: a selection commits
only if the request has no job, by the unique index, and then writes the request, the
proposals and the job together. For `Marketplace`, the steps that write a row of a request are mapped
one by one to `Publish`, `Lapse`, `Offer` and `Strike`, and all others stutter
(`StutterRefines`).

**The argument for Escrow.** Every transfer's entries add up to zero and each is guarded by
the balances it debits; `PostKeepsBooks` says that this keeps the books. What needs
arithmetic is that the rounded platform's part lies between 0 and the refund
(`PlatformPartBounded`), so that the provider's part is never negative.

**The argument for Settlement.** A request that has answered its status check may find the
row rewritten when it commits. `IndInv` says what cannot change under it: whoever is between the
first update of a row and its commit is alone there (`OneHolder`), has a key that no
transaction row has (`FirstOfKey`), and carries an answer the gateway gave (`Heard`); whatever
was settled has its key (`SettledHasKey`). Hence a commit never meets an item that was settled.
For `MoneyMovesOnce` the invariant `Money` adds that a row keeps its amount from its insertion, that what a
request has in hand about a row has that amount (`Worth`), and the sums themselves: a commit adds
one settled row, its amount to the sum of the settled rows and the same amount to the
books (`RefundSettled`, `PayoutSettled`), every other step leaves both alone.

`InTurnKeepsEscrow` assumes `OneAtATime`: there is one operator, and `Confirmations` has no `"SUCCEEDED"`. Both are needed, as
overlapping requests overdraw balances and a late success is booked as a charge. Only one request is then under way, so what it has read of the ledger is still so
when it commits: that is the strengthening. Each commit then posts the entries of a release,
a refund or a payout within the balances, which is a step of `Escrow`; a commit of a failure and all other
steps leave `books` alone.

**The argument for Sessions.** Both properties except sessions that are contended. Of the others
at most one request is in flight and at most one browser holds the token; that token is
the current one unless the answer with the next is on its way; and once a session has ended
no refresh of it is between its read and its update. That is what each step of the server and
each answer preserves (`QuietUnlessContended`), and `TabsWait` says that a tab has one refresh at most.

**The argument for Accounts.** Whoever has been admitted is an administrator until another
request removes them (`ByAdmin`), and does not do to themselves what would remove them
(`NotToSelf`); so after any change its author is one still, unless `crossed`. A challenge that is
open has let nothing through (`OpenIsUnused`), and one about to be consumed has not either,
unless requests met (`Fresh`), which is `SpentIsRefused`. For `ChangesAreFollowedUp` the requests of a member that have written and
are not over (`Following`) are counted against the entries that are missing: a write adds one to both, an
entry or a break takes one from both.

**The argument for Desk.** A reading in a clerk's hands was of one piece when it was taken; an
update writes `resolvedAt` by the status it writes, whatever the case has become since
(`UpdatedAgrees`). A refund request has a newest case from its creation (`RefundHasCase`), so its
decision closes one whose participants are told.

**The argument for Tracking.** `TrackingInv` is `EveryClickCountsOnce` with the shape of the state. What
makes it inductive: a page that has not hydrated has counted nothing, so that the first event may add what
the browser remembers; a batch is in hand only while a flush is in progress, so that taking the queue
overwrites none; and the server's queue is within its limit, so that what is accepted and
what is dropped are the two parts of the batch (`OfSplit`). The clicks of a sequence are the cardinality of a set of
indices, those on the pages a sum over the pages, those on the way a sum over a bag. Each step moves its
clicks between two of these places (`PagesStep`, `PostAdds`, `PostTakes`). For `ClicksNeverHurt`, only
`Track` counts one click more on a page (`OnlyAClickCounts`); it makes the click the most recent, so the
product of capped clicks and recency grows in both factors (`ProductMonotone`), and the guard only
ever compares with what has grown. Of a flush, what the API ranks by grows with the counters; its decay falls only with
the stamp, and what is excepted is
the flush that moves `lastEventAt` back.

**The argument for Profiles, Recovery and Consoles.** A profile's categories are replaced row by row under the
lock of the profile, so whoever holds it finds what it replaces; a review's aggregate holds its own review and every
committed one, so it misses a review only if the two met. A request for a ticket has read tickets that were
closed then; two open ones, or a second closing, need a write behind another's
(`TicketOnce`, `Known`). A click at a console has had no effect until the API accepts it and
exactly one from then on, or was spared because the payout had its transaction already; its message follows the answer that it got.

**The argument for Conversations.** A request about to store a contact has seen it unlocked, and unlocking is never
undone; one that has listed the conversation has left no message behind unshown, unless
it arrived between the two queries. What a request has counted of the interventions still holds, or its user has
met themselves (`overlapped`); interventions are only appended, and what is written to one changes neither
whose it is nor what it did.

**The argument for the pages.** For `OffersMatchApi` the invariant says which requests, jobs and money belong
together (a deposit that was paid may read pending or failed again, but the contact is unlocked then); then the
page's conditions and the API's are compared case by case. For `ActedIsShown`, what a
function of the page still has to do ends in a load whenever the page is behind, unless two loads met.
For `SuggestionsFit` only the search for the copy on the page is active, the candidates
are those that fit if any fit, and whoever a stage leaves out is farther away than whoever it
takes. For `EachRequestIsOffered` a list that was read early may still have a request that has moved,
but one that waits and is in a list is offered, and the points of a request of the market that an unavailable provider can
collect stay below the threshold. For `ShownIsSelected` a load, and the part of a handler that loads, is for the
selection or superseded.

**Only model-checked.** Liveness (`ConfirmedIsBooked`, `OverdueCloses`, `RefreshEnds`, `EventsMoveOn`): its proof
needs fairness and ENABLED, which the prover does not handle. And the three properties
that the code does not keep: `ChargedOnce`, `RefundedIsCredited`, `ChallengeUsedOnce`.

## Observations

Behaviour of the code that the models contain and the properties leave room for. Where a document of
the repository says otherwise, it is under [Findings](#findings).

- **Payments.** `updateStatus` writes by id what it decided from an older read: a cancellation
  overwrites COMPLETED, a completion CANCELED. Two refunds, or two releases, that overlap are both
  settled. A remainder of rounding may not be refundable. A status that comes late goes over a success: a deposit that was paid may read pending or
  failed again, and the customer's page then hides or shows accordingly while the contact stays unlocked. No code carries a result to a payout in PROCESSING.
- **Tracking.** `lastEventAt` is overwritten with the clock of a batch's visitor, so a late batch can make the
  clicks of a worker count as older ones.
- **Sessions, accounts.** A refresh under way revives a session that was revoked meanwhile. `login`
  does not look at `isActive`; the guard does, on each request. An entry of the audit
  log refers to its actor, so it is lost when the actor is deleted meanwhile.
- **Support.** Participants are told that their dispute is closed when its case is set back to OPEN. An
  update without a status writes the status that it has read. Only the newest case of a refund
  is closed with it.
- **Profiles.** `isAvailable` wins in `updateMe`, `availabilityStatus` in `upsertMe`. Nothing
  brings a removed category back, and it stays in the profiles that have it.
- **Pages.** The panel of a job offers the withdrawal of a refund request only where a new one could be
  made, which excludes a pending one. A failed deposit of a canceled job stays payable; an unpaid
  canceled job has the heading of the selection. Consoles: "processado" is said of a payout whatever the gateway
  made of it, and of one that had been carried out before; support remembers only the last
  action as running, so that others can be pressed again; a second confirmation closes the challenge of
  the first. Conversations: a handler shows what it was about even if something else
  was selected since, and a failed load leaves "A carregar conversa..." until another
  conversation is selected. Inbox: a direct invitation may be urgent for an unavailable provider; a request older than eighty
  others that are open is not listed unless the provider is invited.

## Not modelled

- The batch limit and the minimum age of the runner's query: `RunnerScan` takes every pending
  charge. Rows which always throw would stay at the head of a batch.
- Several paid intents of one job: `Settlement` is about one. The internal provider, which
  settles at once, is `ChargeAnswers = {"SUCCEEDED"}`; the runs use an external one, where
  a charge is first pending.
- Deadlock between two row locks taken in opposite order (`applyGatewayStatus` locks the intent, then
  the job; cancelling a job locks the job, then its intents): the outcome, one of the two is
  aborted, is `Abort`; the order itself is not modelled.
- A restart as one step for all requests outside `Charges` and `Tracking`: a lost request is a step of its own.
- Signatures (a notification that fails its check changes nothing), rate limits, metrics and notifications of the modelled operations: they change no
  state that these properties read. Texts, attachments, evidence, deadlines, filters and dashboards.
- Listings and forms of the other pages, notifications, realtime, storage, configuration, scripts:
  `PROJECT.json` has the reason for each.

## Plan

What would add most, in this order.

1. The runner's batch limit and minimum age in `Charges`, and a second paid intent in `Settlement`.
2. `OrderPage` composed with `ServiceRequests` and `Charges` in place of its own account of the API; a proof that
   `Outcomes` is what `ServiceRequests` and `Charges` let happen.
3. A theorem that bounds how far two overlapping requests can overdraw a balance.
