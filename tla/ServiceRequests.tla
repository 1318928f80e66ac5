-------------------------- MODULE ServiceRequests --------------------------
(***************************************************************************)
(* How a customer's request finds a provider: ServiceRequestsService.      *)
(*                                                                         *)
(* Requests, the invitations and proposals of each, and the job with its   *)
(* deposit that a selection creates.  Every handler reads rows, decides,   *)
(* and writes after further awaits, most often by id: `call[c]' is what    *)
(* call c has in hand between two steps.  A call that is refused makes no  *)
(* step: whether the provider's profile is available is such a refusal, at  *)
(* any time.  Titles, descriptions and the time stamps that are only shown *)
(* are left out, and so is the check that the caller owns what it names.   *)
(***************************************************************************)
EXTENDS PaymentPolicy, FiniteSets

CONSTANTS
    Requests, Providers,
    Nobody,     \* selectedProposalId of a request without a selection
    Prices,     \* prices a provider may ask
    Percents,   \* deposit percentages the owner may choose
    Extensions, \* extendExpiryHours that an update may carry
    FeeBps,     \* PAYMENT_PLATFORM_FEE_BPS
    Lifetime,   \* SERVICE_REQUEST_EXPIRY_HOURS
    Calls,      \* HTTP requests in flight
    Timer,      \* the sweep that onModuleInit schedules
    MaxNow      \* bound: how far the clock runs, and an expiry beyond it

ASSUME RequestsAssumption ==
    /\ Nobody \notin Providers
    /\ Prices \subseteq Nat \ {0}
    /\ Percents \subseteq 20..30
    /\ Extensions \subseteq Nat \ {0}
    /\ FeeBps \in 0..MaxFeeBps
    /\ Lifetime \in Nat \ {0}
    /\ Timer \notin Calls
    /\ MaxNow \in Nat

VARIABLES
    request,    \* the service request rows
    proposal,   \* the proposal rows, unique by request and provider
    invitation, \* the status of each invitation, unique as well
    job,        \* the job rows, unique by request, with their deposit intent
    offered,    \* every proposal that was ever saved (history)
    told,       \* notifications about the outcome of a selection
    call,       \* what each call in flight has in hand
    now

vars == <<request, proposal, invitation, job, offered, told, call, now>>

NoRow == [status |-> "absent"]
Idle  == [pc |-> "idle"]

RequestRow  == [status : {"OPEN", "CLOSED", "EXPIRED"},
                selected : Providers \union {Nobody}, expiresAt : Nat]
ProposalRow == [status : {"SUBMITTED", "SELECTED", "REJECTED"}, price : Prices]
JobRow      == [status : {"REQUESTED"}, provider : Providers, agreedPrice : Prices,
                deposit : [gross : Nat, fee : Nat, net : Nat]]
InvitationStatus == {"absent", "SENT", "ACCEPTED", "DECLINED", "EXPIRED"}

Exists(row) == row.status # "absent"
Offer(r, p, price) == [request |-> r, provider |-> p, price |-> price]
Told(r, p, kind)   == [request |-> r, provider |-> p, kind |-> kind]

Goto(c, step) == call' = [call EXCEPT ![c] = step]
At(c, pc)     == call[c].pc = pc

Init ==
    /\ request = [r \in Requests |-> NoRow]
    /\ proposal = [r \in Requests |-> [p \in Providers |-> NoRow]]
    /\ invitation = [r \in Requests |-> [p \in Providers |-> "absent"]]
    /\ job = [r \in Requests |-> NoRow]
    /\ offered = {}
    /\ told = {}
    /\ call = [c \in Calls \union {Timer} |-> Idle]
    /\ now = 0

-----------------------------------------------------------------------------
(* Expiry.  refreshRequestStatusIfExpired looks at the row its caller has   *)
(* read; what expires is decided by the rows as they are when it writes.    *)

Overdue(r) ==
    /\ request[r].status = "OPEN"
    /\ request[r].selected = Nobody
    /\ request[r].expiresAt <= now

\* An open request as the reader of a handler sees it.
Accepting(r) ==
    /\ request[r].status = "OPEN"
    /\ request[r].selected = Nobody
    /\ ~Overdue(r)

\* The step that expires what was found overdue, and what comes after it.
Expiring(ids, next) == [pc |-> "expire", ids |-> ids, next |-> next]

\* Mutants of the condition below: any row that was found; an off-by-one.
IsAnyRow(r)    == Exists(request[r])
IsPastOnly(r)  == request[r].status = "OPEN" /\ request[r].expiresAt < now

IsExpirable(r) == request[r].status = "OPEN"

ExpireSent(ids) ==
    invitation' = [r \in Requests |-> [p \in Providers |->
        IF r \in ids /\ invitation[r][p] = "SENT" THEN "EXPIRED" ELSE invitation[r][p]]]

ExpireRequestsByIds(c) ==
    /\ At(c, "expire")
    /\ request' = [r \in Requests |->
         IF r \in call[c].ids /\ IsExpirable(r)
         THEN [request[r] EXCEPT !.status = "EXPIRED"] ELSE request[r]]
    /\ ExpireSent(call[c].ids)
    /\ Goto(c, call[c].next)
    /\ UNCHANGED <<proposal, job, offered, told, now>>

\* What the timer runs: it finds the overdue rows.
ExpireStaleOpenRequests(c) ==
    /\ At(c, "idle")
    /\ \E r \in Requests : Overdue(r)
    /\ Goto(c, Expiring({r \in Requests : Overdue(r)}, Idle))
    /\ UNCHANGED <<request, proposal, invitation, job, offered, told, now>>

\* The lists sweep before they read ...
ListMine(c)            == ExpireStaleOpenRequests(c)
ListOpenForProvider(c) == ExpireStaleOpenRequests(c)
ListMineProposals(c)   == ExpireStaleOpenRequests(c)

\* ... and the readers of one request expire it.
RefreshRequestStatusIfExpired(c, r) ==
    /\ At(c, "idle")
    /\ Overdue(r)
    /\ Goto(c, Expiring({r}, Idle))
    /\ UNCHANGED <<request, proposal, invitation, job, offered, told, now>>

GetMineById(c, r)          == RefreshRequestStatusIfExpired(c, r)
ListRequestProposals(c, r) == RefreshRequestStatusIfExpired(c, r)

-----------------------------------------------------------------------------
(* The owner's request: create, recreate, update. *)

NewRequest == [status |-> "OPEN", selected |-> Nobody, expiresAt |-> now + Lifetime]

Create(r) ==
    /\ ~Exists(request[r])
    /\ request' = [request EXCEPT ![r] = NewRequest]
    /\ UNCHANGED <<proposal, invitation, job, offered, told, call, now>>

\* Only an expired request without a selection is written anew.
Recreate(c, r) ==
    /\ At(c, "idle")
    /\ ~Exists(job[r])
    /\ \/ /\ Overdue(r)
          /\ Goto(c, Expiring({r}, [pc |-> "recreate"]))
       \/ /\ request[r].status = "EXPIRED"
          /\ request[r].selected = Nobody
          /\ Goto(c, [pc |-> "recreate"])
    /\ UNCHANGED <<request, proposal, invitation, job, offered, told, now>>

InsertRecreated(c) ==
    /\ At(c, "recreate")
    /\ \E r \in Requests : /\ ~Exists(request[r])
                           /\ request' = [request EXCEPT ![r] = NewRequest]
    /\ Goto(c, Idle)
    /\ UNCHANGED <<proposal, invitation, job, offered, told, now>>

\* The new expiry is computed from the one that was read.
Update(c, r, hours) ==
    /\ At(c, "idle")
    /\ ~Exists(job[r])
    /\ Accepting(r)
    /\ request[r].expiresAt + hours <= MaxNow + 1
    /\ Goto(c, [pc |-> "update", request |-> r,
                expiresAt |-> request[r].expiresAt + hours])
    /\ UNCHANGED <<request, proposal, invitation, job, offered, told, now>>

WriteUpdate(c) ==
    /\ At(c, "update")
    /\ request' = [request EXCEPT ![call[c].request].expiresAt = call[c].expiresAt]
    /\ Goto(c, Idle)
    /\ UNCHANGED <<proposal, invitation, job, offered, told, now>>

-----------------------------------------------------------------------------
(* Invitations. *)

CreateInvitation(c, r, p) ==
    /\ At(c, "idle")
    /\ Accepting(r)
    /\ ~Exists(proposal[r][p])
    /\ invitation[r][p] = "absent"
    /\ Goto(c, [pc |-> "invite", request |-> r, provider |-> p])
    /\ UNCHANGED <<request, proposal, invitation, job, offered, told, now>>

\* The request is not looked at again; a second row violates the index.
InsertInvitation(c) ==
    LET r == call[c].request
        p == call[c].provider
    IN  /\ At(c, "invite")
        /\ invitation[r][p] = "absent"
        /\ invitation' = [invitation EXCEPT ![r][p] = "SENT"]
        /\ Goto(c, Idle)
        /\ UNCHANGED <<request, proposal, job, offered, told, now>>

\* Both lists of invitations first expire the ones that are still SENT: of a
\* request that was read as not open, or of all closed requests of a provider.
ListRequestInvitations(c, r) ==
    /\ At(c, "idle")
    /\ \/ /\ Overdue(r)
          /\ Goto(c, Expiring({r}, [pc |-> "findSent", request |-> r]))
       \/ /\ request[r].status \in {"CLOSED", "EXPIRED"}
          /\ Goto(c, [pc |-> "findSent", request |-> r])
    /\ UNCHANGED <<request, proposal, invitation, job, offered, told, now>>

SentOfRequest(r) == {<<r, p>> : p \in {q \in Providers : invitation[r][q] = "SENT"}}
SentOfProvider(p) == {<<r, p>> : r \in {q \in Requests :
    invitation[q][p] = "SENT" /\ request[q].status # "OPEN"}}

FindSentOfRequest(c) ==
    /\ At(c, "findSent")
    /\ Goto(c, [pc |-> "expireSent", rows |-> SentOfRequest(call[c].request)])
    /\ UNCHANGED <<request, proposal, invitation, job, offered, told, now>>

ListMineInvitations(c, p) ==
    LET find == [pc |-> "findMine", provider |-> p]
    IN  /\ At(c, "idle")
        /\ Goto(c, IF \E r \in Requests : Overdue(r)
                   THEN Expiring({r \in Requests : Overdue(r)}, find) ELSE find)
        /\ UNCHANGED <<request, proposal, invitation, job, offered, told, now>>

FindSentOfProvider(c) ==
    /\ At(c, "findMine")
    /\ Goto(c, [pc |-> "expireSent", rows |-> SentOfProvider(call[c].provider)])
    /\ UNCHANGED <<request, proposal, invitation, job, offered, told, now>>

\* The rows that were found are written whatever has become of them.
ExpireFound(c) ==
    /\ At(c, "expireSent")
    /\ invitation' = [r \in Requests |-> [p \in Providers |->
         IF <<r, p>> \in call[c].rows THEN "EXPIRED" ELSE invitation[r][p]]]
    /\ Goto(c, Idle)
    /\ UNCHANGED <<request, proposal, job, offered, told, now>>

DeclineInvitation(c, r, p) ==
    LET answer(status) == [pc |-> "answer", request |-> r, provider |-> p, status |-> status]
    IN  /\ At(c, "idle")
        /\ invitation[r][p] \in {"SENT", "EXPIRED"}
        /\ \/ /\ Overdue(r)
              /\ Goto(c, Expiring({r}, IF invitation[r][p] = "SENT"
                                       THEN answer("EXPIRED") ELSE Idle))
           \/ /\ invitation[r][p] = "SENT"
              /\ ~Overdue(r)
              /\ Goto(c, answer(IF Accepting(r) THEN "DECLINED" ELSE "EXPIRED"))
        /\ UNCHANGED <<request, proposal, invitation, job, offered, told, now>>

WriteAnswer(c) ==
    /\ At(c, "answer")
    /\ invitation' = [invitation EXCEPT ![call[c].request][call[c].provider] = call[c].status]
    /\ Goto(c, Idle)
    /\ UNCHANGED <<request, proposal, job, offered, told, now>>

-----------------------------------------------------------------------------
(* Proposals. *)

SubmitProposal(c, r, p, price) ==
    /\ At(c, "idle")
    /\ \/ /\ Overdue(r)
          /\ Goto(c, Expiring({r}, Idle))
       \/ /\ Accepting(r)
          /\ Goto(c, [pc |-> "lookup", offer |-> Offer(r, p, price)])
    /\ UNCHANGED <<request, proposal, invitation, job, offered, told, now>>

\* Mutant: the invitation is accepted before the proposal is saved.
AcceptFirst(c) ==
    LET o == call[c].offer
    IN  /\ At(c, "lookup")
        /\ invitation' = [invitation EXCEPT ![o.request][o.provider] =
                            IF @ = "absent" THEN @ ELSE "ACCEPTED"]
        /\ Goto(c, [pc |-> "save", offer |-> o,
                    existing |-> Exists(proposal[o.request][o.provider])])
        /\ UNCHANGED <<request, proposal, job, offered, told, now>>

LookupProposal(c) ==
    LET o == call[c].offer
    IN  /\ At(c, "lookup")
        /\ Goto(c, [pc |-> "save", offer |-> o,
                    existing |-> Exists(proposal[o.request][o.provider])])
        /\ UNCHANGED <<request, proposal, invitation, job, offered, told, now>>

\* An update by id, or a create that the unique index may refuse; neither
\* looks at the request, or at the status that it overwrites.
SaveProposal(c) ==
    LET o == call[c].offer
    IN  /\ At(c, "save")
        /\ call[c].existing \/ ~Exists(proposal[o.request][o.provider])
        /\ proposal' = [proposal EXCEPT ![o.request][o.provider] =
                          [status |-> "SUBMITTED", price |-> o.price]]
        /\ offered' = offered \union {o}
        /\ Goto(c, [pc |-> "accept", offer |-> o])
        /\ UNCHANGED <<request, invitation, job, told, now>>

MarkInvitationAccepted(c) ==
    LET o == call[c].offer
    IN  /\ At(c, "accept")
        /\ IF invitation[o.request][o.provider] \in {"SENT", "DECLINED", "EXPIRED"}
           THEN invitation' = [invitation EXCEPT ![o.request][o.provider] = "ACCEPTED"]
           ELSE UNCHANGED invitation
        /\ Goto(c, Idle)
        /\ UNCHANGED <<request, proposal, job, offered, told, now>>

-----------------------------------------------------------------------------
(* selectProposal: reads the request, the proposal and the profile, and     *)
(* then settles in one transaction.                                         *)

SelectProposal(c, r, p, percent) ==
    /\ At(c, "idle")
    /\ \/ /\ Overdue(r)
          /\ Goto(c, Expiring({r}, Idle))
       \/ /\ Accepting(r)
          /\ Goto(c, [pc |-> "choose", request |-> r, provider |-> p, percent |-> percent])
    /\ UNCHANGED <<request, proposal, invitation, job, offered, told, now>>

\* The proposal, the others and the profile are read in one step.
ChooseProposal(c) ==
    LET r == call[c].request
        p == call[c].provider
    IN  /\ At(c, "choose")
        /\ proposal[r][p].status \in {"SUBMITTED", "SELECTED"}
        /\ Goto(c, [pc |-> "lookForJob", offer |-> Offer(r, p, proposal[r][p].price),
                    percent |-> call[c].percent,
                    others |-> {q \in Providers \ {p} : Exists(proposal[r][q])}])
        /\ UNCHANGED <<request, proposal, invitation, job, offered, told, now>>

LookForJob(c) ==
    /\ At(c, "lookForJob")
    /\ Goto(c, [pc |-> "settle", offer |-> call[c].offer, percent |-> call[c].percent,
                others |-> call[c].others, found |-> Exists(job[call[c].offer.request])])
    /\ UNCHANGED <<request, proposal, invitation, job, offered, told, now>>

Judged(row, selected) ==
    IF ~Exists(row) THEN row
    ELSE [row EXCEPT !.status = IF selected THEN "SELECTED" ELSE "REJECTED"]

JudgeProposals(o) ==
    proposal' = [proposal EXCEPT ![o.request] =
        [p \in Providers |-> Judged(proposal[o.request][p], p = o.provider)]]

\* Mutant: the proposals are judged before the job is looked for.
SettleJudging(c) ==
    /\ At(c, "settle")
    /\ call[c].found
    /\ ExpireSent({call[c].offer.request})
    /\ JudgeProposals(call[c].offer)
    /\ Goto(c, Idle)
    /\ UNCHANGED <<request, job, offered, told, now>>

\* The job of another selection was found: nothing is selected, or told.
SettleIdempotent(c) ==
    /\ At(c, "settle")
    /\ call[c].found
    /\ ExpireSent({call[c].offer.request})
    /\ Goto(c, Idle)
    /\ UNCHANGED <<request, proposal, job, offered, told, now>>

\* Mutant: a job table without the unique index.
JobRequestIsPlain(r) == Exists(request[r])

JobRequestIsUnique(r) == ~Exists(job[r])

\* The transaction commits as a whole; the unique requestId of the job aborts
\* the second of two that found none.
Settle(c) ==
    LET o == call[c].offer
        r == o.request
    IN  /\ At(c, "settle")
        /\ ~call[c].found
        /\ JobRequestIsUnique(r)
        /\ JudgeProposals(o)
        /\ request' = [request EXCEPT ![r].status = "CLOSED", ![r].selected = o.provider]
        /\ ExpireSent({r})
        /\ job' = [job EXCEPT ![r] =
             [status |-> "REQUESTED", provider |-> o.provider, agreedPrice |-> o.price,
              deposit |-> ComputeSplit(DepositAmount(o.price, call[c].percent), FeeBps)]]
        /\ Goto(c, [pc |-> "tell", offer |-> o, others |-> call[c].others])
        /\ UNCHANGED <<offered, told, now>>

TellOutcome(c) ==
    LET o == call[c].offer
    IN  /\ At(c, "tell")
        /\ told' = told \union {Told(o.request, o.provider, "SELECTED")}
                        \union {Told(o.request, q, "REJECTED") : q \in call[c].others}
        /\ Goto(c, Idle)
        /\ UNCHANGED <<request, proposal, invitation, job, offered, now>>

-----------------------------------------------------------------------------
\* A call ends early: a statement is refused, a transaction is aborted, or
\* the process restarts.
Fail(c) ==
    /\ ~At(c, "idle")
    /\ Goto(c, Idle)
    /\ UNCHANGED <<request, proposal, invitation, job, offered, told, now>>

Tick ==
    /\ now < MaxNow
    /\ now' = now + 1
    /\ UNCHANGED <<request, proposal, invitation, job, offered, told, call>>

OwnerCall(c) ==
    \/ ListMine(c)
    \/ \E r \in Requests :
        \/ GetMineById(c, r) \/ ListRequestProposals(c, r)
        \/ Recreate(c, r) \/ ListRequestInvitations(c, r)
        \/ \E hours \in Extensions : Update(c, r, hours)
        \/ \E p \in Providers : \/ CreateInvitation(c, r, p)
                                \/ \E percent \in Percents : SelectProposal(c, r, p, percent)

ProviderCall(c) ==
    \/ ListOpenForProvider(c) \/ ListMineProposals(c)
    \/ \E p \in Providers :
        \/ ListMineInvitations(c, p)
        \/ \E r \in Requests : \/ DeclineInvitation(c, r, p)
                               \/ \E price \in Prices : SubmitProposal(c, r, p, price)

Continue(c) ==
    \/ InsertRecreated(c) \/ WriteUpdate(c)
    \/ InsertInvitation(c) \/ WriteAnswer(c)
    \/ FindSentOfRequest(c) \/ FindSentOfProvider(c) \/ ExpireFound(c)
    \/ LookupProposal(c) \/ SaveProposal(c) \/ MarkInvitationAccepted(c)
    \/ ChooseProposal(c) \/ LookForJob(c)
    \/ SettleIdempotent(c) \/ Settle(c) \/ TellOutcome(c)

Next ==
    \/ \E r \in Requests : Create(r)
    \/ ExpireStaleOpenRequests(Timer)
    \/ \E c \in Calls \union {Timer} : ExpireRequestsByIds(c) \/ Fail(c)
    \/ \E c \in Calls : OwnerCall(c) \/ ProviderCall(c) \/ Continue(c)
    \/ Tick

Spec == Init /\ [][Next]_vars

\* setInterval starts the sweep again and again, and its transaction
\* commits unless it is aborted for ever.
Fairness == /\ WF_vars(ExpireStaleOpenRequests(Timer))
            /\ SF_vars(ExpireRequestsByIds(Timer))

FairSpec == Spec /\ Fairness

-----------------------------------------------------------------------------
Steps ==
    LET offers == [request : Requests, provider : Providers, price : Prices]
        after  == {Idle} \union [pc : {"recreate"}]
                  \union [pc : {"findSent"}, request : Requests]
                  \union [pc : {"findMine"}, provider : Providers]
                  \union [pc : {"answer"}, request : Requests, provider : Providers,
                          status : {"DECLINED", "EXPIRED"}]
    IN  after
        \union [pc : {"expire"}, ids : SUBSET Requests, next : after]
        \union [pc : {"update"}, request : Requests, expiresAt : Nat]
        \union [pc : {"invite"}, request : Requests, provider : Providers]
        \union [pc : {"expireSent"}, rows : SUBSET (Requests \X Providers)]
        \union [pc : {"lookup", "accept"}, offer : offers]
        \union [pc : {"save"}, offer : offers, existing : BOOLEAN]
        \union [pc : {"choose"}, request : Requests, provider : Providers, percent : Percents]
        \union [pc : {"lookForJob"}, offer : offers, percent : Percents,
                others : SUBSET Providers]
        \union [pc : {"settle"}, offer : offers, percent : Percents,
                others : SUBSET Providers, found : BOOLEAN]
        \union [pc : {"tell"}, offer : offers, others : SUBSET Providers]

\* Every row and every call in flight has the shape the code gives it.
TypeOK ==
    /\ request \in [Requests -> RequestRow \union {NoRow}]
    /\ proposal \in [Requests -> [Providers -> ProposalRow \union {NoRow}]]
    /\ invitation \in [Requests -> [Providers -> InvitationStatus]]
    /\ job \in [Requests -> JobRow \union {NoRow}]
    /\ offered \subseteq [request : Requests, provider : Providers, price : Prices]
    /\ told \subseteq [request : Requests, provider : Providers,
                       kind : {"SELECTED", "REJECTED"}]
    /\ call \in [Calls \union {Timer} -> Steps]
    /\ now \in 0..MaxNow

-----------------------------------------------------------------------------
(* What the component promises. *)

\* A request is closed exactly when its job exists, for the proposal that it
\* names as selected, whatever sweep, edit or second selection was in flight.
ClosedIsDealt ==
    \A r \in Requests :
        /\ request[r].status = "CLOSED" <=> Exists(job[r])
        /\ Exists(job[r]) => request[r].selected = job[r].provider
        /\ Exists(request[r]) /\ ~Exists(job[r]) => request[r].selected = Nobody

\* The proposals and the notifications agree with the job: nobody else's
\* proposal is selected or told to be, and its own is not rejected.
OutcomeIsTheDeal ==
    \A r \in Requests, p \in Providers :
        /\ proposal[r][p].status = "SELECTED" \/ Told(r, p, "SELECTED") \in told
             => Exists(job[r]) /\ job[r].provider = p
        /\ proposal[r][p].status = "REJECTED" \/ Told(r, p, "REJECTED") \in told
             => Exists(job[r]) /\ job[r].provider # p

\* An invitation reads accepted only if the invited provider has a proposal,
\* although the two are written by separate statements.
AcceptedHasProposal ==
    \A r \in Requests, p \in Providers :
        invitation[r][p] = "ACCEPTED" => Exists(proposal[r][p])

\* A request whose time is up does not stay open: the sweep expires it, or
\* its owner extends it or selects a proposal first.
OverdueCloses == \A r \in Requests : Overdue(r) ~> ~Overdue(r)

DealOf(r) == IF Exists(job[r]) THEN Offer(r, job[r].provider, job[r].agreedPrice) ELSE NoRow

Promise == INSTANCE Deals WITH
    NoDeal <- NoRow,
    phase  <- [r \in Requests |-> request[r].status],
    offers <- offered,
    deal   <- [r \in Requests |-> DealOf(r)]

\* Requests, proposals, jobs and selections together are the marketplace of
\* Deals: one deal for a request, of a price that was offered, and final.
KeepsPromise == Promise!Spec
=============================================================================
