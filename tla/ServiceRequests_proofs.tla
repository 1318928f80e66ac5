----------------------- MODULE ServiceRequests_proofs -----------------------
(***************************************************************************)
(* That the promises of ServiceRequests hold for any number of requests,   *)
(* providers and calls, and that it implements Deals.                      *)
(***************************************************************************)
EXTENDS ServiceRequests, Arithmetic_proofs

USE RequestsAssumption

Handlers == Calls \union {Timer}
rows == <<request, proposal, invitation, job, offered, told>>

-----------------------------------------------------------------------------
(* The inductive invariant: what is offered is kept, and what a call has    *)
(* read stays true of the rows that can no longer go back.                  *)

OffersKept ==
    /\ \A o \in offered : Exists(request[o.request])
    /\ \A r \in Requests, p \in Providers :
         Exists(proposal[r][p]) => Offer(r, p, proposal[r][p].price) \in offered

\* What a step in hand says of the rows.
Fits(s) ==
    /\ s.pc = "update" => Exists(request[s.request])
    /\ s.pc \in {"lookup", "save", "accept"} => Exists(request[s.offer.request])
    /\ s.pc = "save" => (s.existing => Exists(proposal[s.offer.request][s.offer.provider]))
    /\ s.pc = "accept" => Exists(proposal[s.offer.request][s.offer.provider])
    /\ s.pc \in {"lookForJob", "settle", "tell"} =>
         /\ s.offer \in offered
         /\ s.offer.provider \notin s.others
    /\ s.pc = "tell" => /\ Exists(job[s.offer.request])
                        /\ job[s.offer.request].provider = s.offer.provider

InHandFits == \A c \in Handlers : Fits(call[c])

IndInv == /\ TypeOK /\ ClosedIsDealt /\ OutcomeIsTheDeal /\ AcceptedHasProposal
          /\ OffersKept /\ InHandFits

-----------------------------------------------------------------------------
(* Facts about rows and steps. *)

OfferRecord == [request : Requests, provider : Providers, price : Prices]

\* The steps that may follow an expiry.
After == {Idle} \union [pc : {"recreate"}]
         \union [pc : {"findSent"}, request : Requests]
         \union [pc : {"findMine"}, provider : Providers]
         \union [pc : {"answer"}, request : Requests, provider : Providers,
                 status : {"DECLINED", "EXPIRED"}]

LEMMA RowsTyped ==
    ASSUME TypeOK
    PROVE  /\ \A r \in Requests : IF Exists(request[r]) THEN request[r] \in RequestRow
                                                        ELSE request[r] = NoRow
           /\ \A r \in Requests : IF Exists(job[r]) THEN job[r] \in JobRow ELSE job[r] = NoRow
           /\ \A r \in Requests, p \in Providers :
                IF Exists(proposal[r][p]) THEN proposal[r][p] \in ProposalRow
                                          ELSE proposal[r][p] = NoRow
  BY DEF TypeOK, Exists, NoRow, RequestRow, ProposalRow, JobRow

\* What is in hand at each step of a handler.
LEMMA InHand ==
    ASSUME TypeOK, NEW c \in Handlers
    PROVE  /\ At(c, "expire") =>
                call[c] \in [pc : {"expire"}, ids : SUBSET Requests, next : After]
           /\ At(c, "update") =>
                call[c] \in [pc : {"update"}, request : Requests, expiresAt : Nat]
           /\ At(c, "invite") =>
                call[c] \in [pc : {"invite"}, request : Requests, provider : Providers]
           /\ At(c, "findSent") => call[c] \in [pc : {"findSent"}, request : Requests]
           /\ At(c, "findMine") => call[c] \in [pc : {"findMine"}, provider : Providers]
           /\ At(c, "answer") =>
                call[c] \in [pc : {"answer"}, request : Requests, provider : Providers,
                             status : {"DECLINED", "EXPIRED"}]
           /\ call[c].pc \in {"lookup", "accept"} =>
                call[c] \in [pc : {"lookup", "accept"}, offer : OfferRecord]
           /\ At(c, "save") =>
                call[c] \in [pc : {"save"}, offer : OfferRecord, existing : BOOLEAN]
           /\ At(c, "choose") =>
                call[c] \in [pc : {"choose"}, request : Requests, provider : Providers,
                             percent : Percents]
           /\ At(c, "lookForJob") =>
                call[c] \in [pc : {"lookForJob"}, offer : OfferRecord, percent : Percents,
                             others : SUBSET Providers]
           /\ At(c, "settle") =>
                call[c] \in [pc : {"settle"}, offer : OfferRecord, percent : Percents,
                             others : SUBSET Providers, found : BOOLEAN]
           /\ At(c, "tell") =>
                call[c] \in [pc : {"tell"}, offer : OfferRecord, others : SUBSET Providers]
<1>1. call[c] \in Steps
  BY DEF TypeOK, Handlers
<1> QED
  BY <1>1 DEF At, Steps, Idle, OfferRecord, After

\* A step that may follow an expiry says nothing of the rows.
LEMMA AfterFits ==
    ASSUME NEW s \in After
    PROVE  s \in Steps /\ Fits(s)
  BY DEF After, Steps, Fits, Idle

\* Rows do not disappear, and neither does a deal.
Kept == /\ \A r \in Requests : Exists(request[r]) => Exists(request'[r])
        /\ \A r \in Requests, p \in Providers : Exists(proposal[r][p]) => Exists(proposal'[r][p])
        /\ \A r \in Requests : Exists(job[r]) => job'[r] = job[r]
        /\ offered \subseteq offered'

LEMMA FitsKept ==
    ASSUME TypeOK, Kept, NEW s \in Steps, Fits(s)
    PROVE  Fits(s)'
<1>1. /\ s.pc \in {"lookup", "save", "accept", "lookForJob", "settle", "tell"} =>
           s.offer \in OfferRecord
      /\ s.pc = "update" => s.request \in Requests
  BY DEF Steps, Idle, OfferRecord
<1> QED
  BY <1>1 DEF Fits, Kept, OfferRecord

\* A call goes on with a step that fits the rows as they are left.
LEMMA GotoFits ==
    ASSUME TypeOK, InHandFits, Kept, NEW c \in Handlers, NEW s \in Steps, Fits(s)', Goto(c, s)
    PROVE  InHandFits' /\ call' \in [Calls \union {Timer} -> Steps]
<1>1. \A d \in Handlers : call[d] \in Steps /\ Fits(call[d])
  BY DEF TypeOK, Handlers, InHandFits
<1>2. \A d \in Handlers : call'[d] = IF d = c THEN s ELSE call[d]
  BY DEF Goto, TypeOK, Handlers
<1>3. \A d \in Handlers : Fits(call[d])'  \/ d = c
  <2> SUFFICES ASSUME NEW d \in Handlers, d # c PROVE Fits(call[d])'
    OBVIOUS
  <2>1. PICK u : u = call[d]
    OBVIOUS
  <2>2. Fits(u)'
    BY <1>1, <2>1, FitsKept
  <2>3. call'[d] = u
    BY <1>2, <2>1
  <2> QED
    BY <2>2, <2>3 DEF Fits
<1> QED
  BY <1>2, <1>3 DEF InHandFits, Goto, TypeOK, Handlers

-----------------------------------------------------------------------------
(* Steps that only move a call on. *)

LEMMA InitIndInv == Init => IndInv
<1> SUFFICES ASSUME Init PROVE IndInv
  OBVIOUS
<1>1. TypeOK
  BY DEF Init, TypeOK, Steps, InvitationStatus
<1>2. ClosedIsDealt /\ OutcomeIsTheDeal /\ AcceptedHasProposal /\ OffersKept
  BY DEF Init, ClosedIsDealt, OutcomeIsTheDeal, AcceptedHasProposal, OffersKept, Exists, NoRow
<1>3. InHandFits
  BY DEF Init, InHandFits, Fits, Handlers, Idle
<1> QED
  BY <1>1, <1>2, <1>3 DEF IndInv

LEMMA SameRows ==
    ASSUME IndInv, UNCHANGED rows
    PROVE  Kept /\ ClosedIsDealt' /\ OutcomeIsTheDeal' /\ AcceptedHasProposal' /\ OffersKept'
<1>1. Kept
  BY DEF rows, Kept
<1>2. ClosedIsDealt'
  BY DEF IndInv, rows, ClosedIsDealt
<1>3. OutcomeIsTheDeal'
  BY DEF IndInv, rows, OutcomeIsTheDeal
<1>4. AcceptedHasProposal' /\ OffersKept'
  BY DEF IndInv, rows, AcceptedHasProposal, OffersKept
<1> QED
  BY <1>1, <1>2, <1>3, <1>4

LEMMA MoveIndInv ==
    ASSUME IndInv, NEW c \in Handlers, NEW s \in Steps, Fits(s), Goto(c, s), UNCHANGED rows,
           now' = now
    PROVE  IndInv'
<1>1. Kept /\ ClosedIsDealt' /\ OutcomeIsTheDeal' /\ AcceptedHasProposal' /\ OffersKept'
  BY SameRows
<1>2. Fits(s)'
  BY <1>1, FitsKept DEF IndInv
<1>3. InHandFits' /\ call' \in [Calls \union {Timer} -> Steps]
  BY <1>1, <1>2, GotoFits DEF IndInv
<1>4. TypeOK'
  BY <1>3 DEF IndInv, TypeOK, rows
<1> QED
  BY <1>1, <1>3, <1>4 DEF IndInv

\* An expiry that is about to happen.
LEMMA ExpiringFits ==
    ASSUME NEW ids \in SUBSET Requests, NEW next \in After
    PROVE  Expiring(ids, next) \in Steps /\ Fits(Expiring(ids, next))
  BY DEF Expiring, Steps, Fits, After

LEMMA IdleFits == Idle \in After /\ Idle \in Steps /\ Fits(Idle)
  BY DEF Idle, After, Steps, Fits

LEMMA SweepIndInv ==
    ASSUME IndInv, NEW c \in Handlers,
           \/ ExpireStaleOpenRequests(c)
           \/ \E r \in Requests : RefreshRequestStatusIfExpired(c, r)
    PROVE  IndInv'
<1>1. PICK ids \in SUBSET Requests : Goto(c, Expiring(ids, Idle))
  BY DEF ExpireStaleOpenRequests, RefreshRequestStatusIfExpired
<1>2. UNCHANGED rows /\ now' = now
  BY DEF ExpireStaleOpenRequests, RefreshRequestStatusIfExpired, rows
<1> QED
  BY <1>1, <1>2, IdleFits, ExpiringFits, MoveIndInv

LEMMA FailIndInv ==
    ASSUME IndInv, NEW c \in Handlers, Fail(c)
    PROVE  IndInv'
  BY IdleFits, MoveIndInv DEF Fail, rows

\* What an owner's handler has in hand after its first reads.
LEMMA OwnerIndInv ==
    ASSUME IndInv, NEW c \in Calls, OwnerCall(c)
    PROVE  IndInv'
<1>0. c \in Handlers
  BY DEF Handlers
<1>1. ASSUME NEW r \in Requests, Recreate(c, r) PROVE IndInv'
  <2>1. [pc |-> "recreate"] \in After
    BY DEF After
  <2>2. \E s \in Steps : Fits(s) /\ Goto(c, s)
    BY <1>1, <2>1, ExpiringFits, AfterFits DEF Recreate
  <2> QED
    BY <1>0, <1>1, <2>2, MoveIndInv DEF Recreate, rows
<1>2. ASSUME NEW r \in Requests, ListRequestInvitations(c, r) PROVE IndInv'
  <2>1. [pc |-> "findSent", request |-> r] \in After
    BY DEF After
  <2>2. \E s \in Steps : Fits(s) /\ Goto(c, s)
    BY <1>2, <2>1, ExpiringFits, AfterFits DEF ListRequestInvitations
  <2> QED
    BY <1>0, <1>2, <2>2, MoveIndInv DEF ListRequestInvitations, rows
<1>3. ASSUME NEW r \in Requests, NEW hours \in Extensions, Update(c, r, hours) PROVE IndInv'
  <2> DEFINE s == [pc |-> "update", request |-> r, expiresAt |-> request[r].expiresAt + hours]
  <2>1. Exists(request[r])
    BY <1>3 DEF Update, Accepting, Exists
  <2>2. request[r].expiresAt \in Nat
    BY <2>1, RowsTyped DEF IndInv, RequestRow
  <2>3. s \in Steps
    BY <2>2 DEF Steps
  <2>4. Fits(s)
    BY <2>1 DEF Fits
  <2> QED
    BY <1>0, <1>3, <2>3, <2>4, MoveIndInv DEF Update, rows
<1>4. ASSUME NEW r \in Requests, NEW p \in Providers, CreateInvitation(c, r, p) PROVE IndInv'
  <2> DEFINE s == [pc |-> "invite", request |-> r, provider |-> p]
  <2>1. s \in Steps /\ Fits(s)
    BY DEF Steps, Fits
  <2> QED
    BY <1>0, <1>4, <2>1, MoveIndInv DEF CreateInvitation, rows
<1>5. ASSUME NEW r \in Requests, NEW p \in Providers, NEW percent \in Percents,
             SelectProposal(c, r, p, percent)
      PROVE  IndInv'
  <2> DEFINE s == [pc |-> "choose", request |-> r, provider |-> p, percent |-> percent]
  <2>1. s \in Steps /\ Fits(s)
    BY DEF Steps, Fits
  <2>2. \E u \in Steps : Fits(u) /\ Goto(c, u)
    BY <1>5, <2>1, IdleFits, ExpiringFits DEF SelectProposal
  <2> QED
    BY <1>0, <1>5, <2>2, MoveIndInv DEF SelectProposal, rows
<1> QED
  BY <1>0, <1>1, <1>2, <1>3, <1>4, <1>5, SweepIndInv
     DEF OwnerCall, ListMine, GetMineById, ListRequestProposals

\* And a provider's.
LEMMA ProviderIndInv ==
    ASSUME IndInv, NEW c \in Calls, ProviderCall(c)
    PROVE  IndInv'
<1>0. c \in Handlers
  BY DEF Handlers
<1>1. ASSUME NEW p \in Providers, ListMineInvitations(c, p) PROVE IndInv'
  <2> DEFINE find == [pc |-> "findMine", provider |-> p]
  <2>1. find \in After
    BY DEF After
  <2>2. \E s \in Steps : Fits(s) /\ Goto(c, s)
    BY <1>1, <2>1, ExpiringFits, AfterFits DEF ListMineInvitations
  <2> QED
    BY <1>0, <1>1, <2>2, MoveIndInv DEF ListMineInvitations, rows
<1>2. ASSUME NEW r \in Requests, NEW p \in Providers, DeclineInvitation(c, r, p) PROVE IndInv'
  <2> DEFINE answer(status) ==
        [pc |-> "answer", request |-> r, provider |-> p, status |-> status]
  <2>1. answer("DECLINED") \in After /\ answer("EXPIRED") \in After
    BY DEF After
  <2>2. \E s \in Steps : Fits(s) /\ Goto(c, s)
    BY <1>2, <2>1, IdleFits, ExpiringFits, AfterFits DEF DeclineInvitation
  <2> QED
    BY <1>0, <1>2, <2>2, MoveIndInv DEF DeclineInvitation, rows
<1>3. ASSUME NEW r \in Requests, NEW p \in Providers, NEW price \in Prices,
             SubmitProposal(c, r, p, price)
      PROVE  IndInv'
  <2> DEFINE s == [pc |-> "lookup", offer |-> Offer(r, p, price)]
  <2>1. s \in Steps
    BY DEF Steps, Offer
  <2>2. Accepting(r) => Fits(s)
    BY DEF Accepting, Fits, Offer, Exists
  <2>3. \E u \in Steps : Fits(u) /\ Goto(c, u)
    BY <1>3, <2>1, <2>2, IdleFits, ExpiringFits DEF SubmitProposal
  <2> QED
    BY <1>0, <1>3, <2>3, MoveIndInv DEF SubmitProposal, rows
<1> QED
  BY <1>0, <1>1, <1>2, <1>3, SweepIndInv DEF ProviderCall, ListOpenForProvider, ListMineProposals

\* The later reads of a handler.
LEMMA ReadIndInv ==
    ASSUME IndInv, NEW c \in Calls,
           \/ FindSentOfRequest(c) \/ FindSentOfProvider(c)
           \/ LookupProposal(c) \/ ChooseProposal(c) \/ LookForJob(c)
    PROVE  IndInv'
<1>0. c \in Handlers /\ TypeOK /\ Fits(call[c])
  BY DEF Handlers, IndInv, InHandFits
<1>1. CASE FindSentOfRequest(c)
  <2>1. call[c].request \in Requests
    BY <1>0, <1>1, InHand DEF FindSentOfRequest, At
  <2>2. [pc |-> "expireSent", rows |-> SentOfRequest(call[c].request)] \in Steps
    BY <2>1 DEF SentOfRequest, Steps
  <2>3. Fits([pc |-> "expireSent", rows |-> SentOfRequest(call[c].request)])
    BY DEF Fits
  <2> QED
    BY <1>0, <1>1, <2>2, <2>3, MoveIndInv DEF FindSentOfRequest, rows
<1>2. CASE FindSentOfProvider(c)
  <2>1. call[c].provider \in Providers
    BY <1>0, <1>2, InHand DEF FindSentOfProvider, At
  <2>2. [pc |-> "expireSent", rows |-> SentOfProvider(call[c].provider)] \in Steps
    BY <2>1 DEF SentOfProvider, Steps
  <2>3. Fits([pc |-> "expireSent", rows |-> SentOfProvider(call[c].provider)])
    BY DEF Fits
  <2> QED
    BY <1>0, <1>2, <2>2, <2>3, MoveIndInv DEF FindSentOfProvider, rows
<1>3. CASE LookupProposal(c)
  <2> DEFINE o == call[c].offer
             s == [pc |-> "save", offer |-> o,
                   existing |-> Exists(proposal[o.request][o.provider])]
  <2>1. o \in OfferRecord /\ Exists(request[o.request])
    BY <1>0, <1>3, InHand DEF LookupProposal, At, Fits
  <2>2. s \in Steps
    BY <2>1 DEF Steps, OfferRecord, Exists
  <2>3. Fits(s)
    BY <2>1 DEF Fits
  <2> QED
    BY <1>0, <1>3, <2>2, <2>3, MoveIndInv DEF LookupProposal, rows
<1>4. CASE ChooseProposal(c)
  <2> DEFINE r == call[c].request
             p == call[c].provider
             s == [pc |-> "lookForJob", offer |-> Offer(r, p, proposal[r][p].price),
                   percent |-> call[c].percent,
                   others |-> {q \in Providers \ {p} : Exists(proposal[r][q])}]
  <2>1. r \in Requests /\ p \in Providers /\ call[c].percent \in Percents
    BY <1>0, <1>4, InHand DEF ChooseProposal, At
  <2>2. Exists(proposal[r][p])
    BY <1>4 DEF ChooseProposal, Exists
  <2>3. proposal[r][p].price \in Prices /\ Offer(r, p, proposal[r][p].price) \in offered
    BY <1>0, <2>1, <2>2, RowsTyped DEF ProposalRow, IndInv, OffersKept
  <2>4. s \in Steps
    BY <2>1, <2>3 DEF Steps, Offer
  <2>5. Fits(s)
    BY <2>3 DEF Fits, Offer
  <2> QED
    BY <1>0, <1>4, <2>4, <2>5, MoveIndInv DEF ChooseProposal, rows
<1>5. CASE LookForJob(c)
  <2> DEFINE o == call[c].offer
             s == [pc |-> "settle", offer |-> o, percent |-> call[c].percent,
                   others |-> call[c].others, found |-> Exists(job[o.request])]
  <2>1. o \in OfferRecord /\ call[c].percent \in Percents /\ call[c].others \in SUBSET Providers
    BY <1>0, <1>5, InHand DEF LookForJob, At
  <2>2. s \in Steps
    BY <2>1 DEF Steps, OfferRecord, Exists
  <2>3. Fits(s)
    BY <1>0, <1>5 DEF Fits, LookForJob, At
  <2> QED
    BY <1>0, <1>5, <2>2, <2>3, MoveIndInv DEF LookForJob, rows
<1> QED
  BY <1>1, <1>2, <1>3, <1>4, <1>5

-----------------------------------------------------------------------------
(* Steps that write. *)

\* What every writing step owes: its rows, and a call that goes on.
LEMMA WriteIndInv ==
    ASSUME IndInv, NEW c \in Handlers, NEW s \in Steps, Fits(s)', Goto(c, s), Kept,
           request' \in [Requests -> RequestRow \union {NoRow}],
           proposal' \in [Requests -> [Providers -> ProposalRow \union {NoRow}]],
           invitation' \in [Requests -> [Providers -> InvitationStatus]],
           job' \in [Requests -> JobRow \union {NoRow}],
           offered' \subseteq [request : Requests, provider : Providers, price : Prices],
           told' \subseteq [request : Requests, provider : Providers,
                            kind : {"SELECTED", "REJECTED"}],
           now' = now,
           ClosedIsDealt', OutcomeIsTheDeal', AcceptedHasProposal', OffersKept'
    PROVE  IndInv'
<1>1. InHandFits' /\ call' \in [Calls \union {Timer} -> Steps]
  BY GotoFits DEF IndInv
<1>2. TypeOK'
  BY <1>1 DEF IndInv, TypeOK
<1> QED
  BY <1>1, <1>2 DEF IndInv

\* Invitations may change in any way that accepts none.
LEMMA InvitationsIndInv ==
    ASSUME IndInv, NEW c \in Handlers, Goto(c, Idle),
           invitation' \in [Requests -> [Providers -> InvitationStatus]],
           \A r \in Requests, p \in Providers :
             invitation'[r][p] = "ACCEPTED" => invitation[r][p] = "ACCEPTED",
           UNCHANGED <<request, proposal, job, offered, told, now>>
    PROVE  IndInv'
<1>1. Kept /\ ClosedIsDealt' /\ OutcomeIsTheDeal' /\ OffersKept'
  BY DEF Kept, IndInv, ClosedIsDealt, OutcomeIsTheDeal, OffersKept
<1>2. AcceptedHasProposal'
  BY DEF IndInv, AcceptedHasProposal
<1>3. Fits(Idle)'
  BY DEF Fits, Idle
<1> QED
  BY <1>1, <1>2, <1>3, IdleFits, WriteIndInv DEF IndInv, TypeOK

\* A request is published.
LEMMA NewRowIndInv ==
    ASSUME IndInv, NEW r \in Requests, ~Exists(request[r]),
           request' = [request EXCEPT ![r] = NewRequest],
           UNCHANGED <<proposal, invitation, job, offered, told, now>>
    PROVE  /\ Kept /\ ClosedIsDealt' /\ OutcomeIsTheDeal' /\ AcceptedHasProposal' /\ OffersKept'
           /\ request' \in [Requests -> RequestRow \union {NoRow}]
<1>1. NewRequest \in RequestRow /\ Exists(NewRequest) /\ NewRequest.status = "OPEN"
      /\ NewRequest.selected = Nobody
  BY DEF NewRequest, RequestRow, Exists, IndInv, TypeOK
<1>2. \A q \in Requests : request'[q] = IF q = r THEN NewRequest ELSE request[q]
  BY DEF IndInv, TypeOK
<1>3. request' \in [Requests -> RequestRow \union {NoRow}]
  BY <1>1 DEF IndInv, TypeOK
<1>4. Kept
  BY <1>1, <1>2 DEF Kept
<1>5. ~Exists(job[r])
  BY DEF IndInv, ClosedIsDealt, Exists
<1>6. ClosedIsDealt'
  BY <1>1, <1>2, <1>5 DEF IndInv, ClosedIsDealt
<1>7. OutcomeIsTheDeal' /\ AcceptedHasProposal' /\ OffersKept'
  BY <1>4 DEF IndInv, OutcomeIsTheDeal, AcceptedHasProposal, OffersKept, Kept, TypeOK
<1> QED
  BY <1>3, <1>4, <1>6, <1>7

LEMMA CreateIndInv ==
    ASSUME IndInv, NEW r \in Requests, Create(r)
    PROVE  IndInv'
<1>1. /\ Kept /\ ClosedIsDealt' /\ OutcomeIsTheDeal' /\ AcceptedHasProposal' /\ OffersKept'
      /\ request' \in [Requests -> RequestRow \union {NoRow}]
  BY NewRowIndInv DEF Create
<1>2. TypeOK'
  BY <1>1 DEF IndInv, TypeOK, Create
<1>3. InHandFits'
  <2> SUFFICES ASSUME NEW c \in Handlers PROVE Fits(call[c])'
    BY DEF InHandFits
  <2>1. PICK u : u = call[c]
    OBVIOUS
  <2>2. u \in Steps /\ Fits(u)
    BY <2>1 DEF IndInv, TypeOK, InHandFits, Handlers
  <2>3. Fits(u)'
    BY <1>1, <2>2, FitsKept DEF IndInv
  <2>4. call'[c] = u
    BY <2>1 DEF Create
  <2> QED
    BY <2>3, <2>4 DEF Fits
<1> QED
  BY <1>1, <1>2, <1>3 DEF IndInv

LEMMA RequestIndInv ==
    ASSUME IndInv, NEW c \in Handlers, InsertRecreated(c) \/ WriteUpdate(c)
    PROVE  IndInv'
<1>0. TypeOK /\ Fits(call[c]) /\ Fits(Idle)'
  BY DEF IndInv, InHandFits, Fits, Idle
<1>1. CASE InsertRecreated(c)
  <2>1. PICK r \in Requests : /\ ~Exists(request[r])
                              /\ request' = [request EXCEPT ![r] = NewRequest]
    BY <1>1 DEF InsertRecreated
  <2> QED
    BY <1>0, <1>1, <2>1, NewRowIndInv, IdleFits, WriteIndInv
       DEF InsertRecreated, IndInv, TypeOK
<1>2. CASE WriteUpdate(c)
  <2> DEFINE r == call[c].request
  <2>1. r \in Requests /\ call[c].expiresAt \in Nat
    BY <1>0, <1>2, InHand DEF WriteUpdate, At
  <2>2. Exists(request[r])
    BY <1>0, <1>2 DEF WriteUpdate, At, Fits
  <2>3. request[r] \in RequestRow
    BY <1>0, <2>1, <2>2, RowsTyped
  <2>4. /\ request' \in [Requests -> RequestRow \union {NoRow}]
        /\ \A q \in Requests : /\ request'[q].status = request[q].status
                               /\ Exists(request[q]) => request'[q].selected = request[q].selected
    BY <1>0, <1>2, <2>1, <2>3 DEF WriteUpdate, TypeOK, RequestRow, NoRow
  <2>5. Kept
    BY <1>2, <2>4 DEF Kept, WriteUpdate, Exists
  <2>6. ClosedIsDealt'
    BY <1>2, <2>4 DEF IndInv, ClosedIsDealt, WriteUpdate, Exists
  <2>7. OutcomeIsTheDeal' /\ AcceptedHasProposal' /\ OffersKept'
    BY <1>2, <2>5, ZenonT(30) DEF IndInv, OutcomeIsTheDeal, AcceptedHasProposal, OffersKept, Kept,
                      WriteUpdate, TypeOK
  <2> QED
    BY <1>0, <1>2, <2>4, <2>5, <2>6, <2>7, IdleFits, WriteIndInv DEF WriteUpdate, TypeOK
<1> QED
  BY <1>1, <1>2

LEMMA ExpireIndInv ==
    ASSUME IndInv, NEW c \in Handlers, ExpireRequestsByIds(c)
    PROVE  IndInv'
<1>0. TypeOK
  BY DEF IndInv
<1>1. call[c].ids \in SUBSET Requests /\ call[c].next \in After
  BY <1>0, InHand DEF ExpireRequestsByIds, At
<1>2. PICK s : s = call[c].next
  OBVIOUS
<1>3. s \in Steps /\ Fits(s) /\ Goto(c, s)
  BY <1>1, <1>2, AfterFits DEF ExpireRequestsByIds
<1>4. \A r \in Requests : Exists(request[r]) => request[r] \in RequestRow
  BY <1>0, RowsTyped
<1>5. \A r \in Requests : /\ IsExpirable(r) => Exists(request[r])
                          /\ \/ request'[r] = request[r]
                             \/ /\ IsExpirable(r)
                                /\ request'[r] = [request[r] EXCEPT !.status = "EXPIRED"]
  BY DEF ExpireRequestsByIds, IsExpirable, Exists
<1>6. request' \in [Requests -> RequestRow \union {NoRow}]
  BY <1>0, <1>4, <1>5, SMTT(30) DEF ExpireRequestsByIds, TypeOK, RequestRow
<1>7. \A r \in Requests : /\ Exists(request[r]) <=> Exists(request'[r])
                          /\ Exists(request[r]) => request'[r].selected = request[r].selected
                          /\ request'[r].status = "CLOSED" <=> request[r].status = "CLOSED"
  <2> TAKE r \in Requests
  <2>1. CASE request'[r] = request[r]
    BY <2>1
  <2>2. CASE IsExpirable(r) /\ request'[r] = [request[r] EXCEPT !.status = "EXPIRED"]
    <3>1. request[r] \in RequestRow
      BY <1>4, <1>5, <2>2
    <3>2. /\ request'[r].status = "EXPIRED"
          /\ request'[r].selected = request[r].selected
      BY <2>2, <3>1 DEF RequestRow
    <3> QED
      BY <2>2, <3>2 DEF IsExpirable, Exists
  <2> QED
    BY <1>5, <2>1, <2>2
<1>8. Kept
  BY <1>7 DEF Kept, ExpireRequestsByIds
<1>9. ClosedIsDealt'
  BY <1>7 DEF IndInv, ClosedIsDealt, ExpireRequestsByIds
<1>10. OutcomeIsTheDeal' /\ OffersKept'
  BY <1>8 DEF IndInv, OutcomeIsTheDeal, OffersKept, Kept, ExpireRequestsByIds, TypeOK
<1>11. invitation' \in [Requests -> [Providers -> InvitationStatus]] /\ AcceptedHasProposal'
  BY DEF IndInv, TypeOK, InvitationStatus, AcceptedHasProposal, ExpireRequestsByIds, ExpireSent
<1>12. Fits(s)'
  BY <1>0, <1>3, <1>8, FitsKept
<1> QED
  BY <1>0, <1>3, <1>6, <1>8, <1>9, <1>10, <1>11, <1>12, WriteIndInv DEF ExpireRequestsByIds, TypeOK

LEMMA InvitationIndInv ==
    ASSUME IndInv, NEW c \in Handlers,
           InsertInvitation(c) \/ ExpireFound(c) \/ WriteAnswer(c) \/ SettleIdempotent(c)
    PROVE  IndInv'
<1>0. TypeOK
  BY DEF IndInv
<1>1. CASE InsertInvitation(c)
  <2>1. call[c].request \in Requests /\ call[c].provider \in Providers
    BY <1>0, <1>1, InHand DEF InsertInvitation, At
  <2> QED
    BY <1>0, <1>1, <2>1, InvitationsIndInv DEF InsertInvitation, TypeOK, InvitationStatus
<1>2. CASE ExpireFound(c)
  BY <1>0, <1>2, InvitationsIndInv DEF ExpireFound, TypeOK, InvitationStatus
<1>3. CASE WriteAnswer(c)
  <2>1. /\ call[c].request \in Requests /\ call[c].provider \in Providers
        /\ call[c].status \in {"DECLINED", "EXPIRED"}
    BY <1>0, <1>3, InHand DEF WriteAnswer, At
  <2> QED
    BY <1>0, <1>3, <2>1, InvitationsIndInv DEF WriteAnswer, TypeOK, InvitationStatus
<1>4. CASE SettleIdempotent(c)
  BY <1>0, <1>4, InvitationsIndInv DEF SettleIdempotent, ExpireSent, TypeOK, InvitationStatus
<1> QED
  BY <1>1, <1>2, <1>3, <1>4

LEMMA ProposalIndInv ==
    ASSUME IndInv, NEW c \in Handlers, SaveProposal(c) \/ MarkInvitationAccepted(c)
    PROVE  IndInv'
<1>0. TypeOK /\ Fits(call[c]) /\ Fits(Idle)'
  BY DEF IndInv, InHandFits, Fits, Idle
<1>1. CASE SaveProposal(c)
  <2>1. PICK o \in OfferRecord : o = call[c].offer /\ Exists(request[o.request])
    BY <1>0, <1>1, InHand DEF SaveProposal, At, Fits
  <2> DEFINE row == [status |-> "SUBMITTED", price |-> o.price]
             s   == [pc |-> "accept", offer |-> o]
  <2>2. row \in ProposalRow /\ Exists(row) /\ s \in Steps
    BY <2>1 DEF ProposalRow, Exists, OfferRecord, Steps
  <2>3. /\ proposal' \in [Requests -> [Providers -> ProposalRow \union {NoRow}]]
        /\ \A r \in Requests, p \in Providers :
             proposal'[r][p] = IF r = o.request /\ p = o.provider THEN row ELSE proposal[r][p]
    BY <1>0, <1>1, <2>1, <2>2 DEF SaveProposal, TypeOK, OfferRecord
  <2>4. Kept
    BY <1>1, <2>2, <2>3 DEF Kept, SaveProposal
  <2>5. Fits(s)'
    BY <1>1, <2>1, <2>2, <2>3 DEF Fits, SaveProposal, OfferRecord
  <2>6. ClosedIsDealt' /\ AcceptedHasProposal'
    BY <1>1, <2>2, <2>3 DEF IndInv, ClosedIsDealt, AcceptedHasProposal, SaveProposal
  <2>7. OutcomeIsTheDeal'
    <3>1. \A r \in Requests, p \in Providers :
             \/ proposal'[r][p] = proposal[r][p]
             \/ proposal'[r][p].status = "SUBMITTED"
      BY <2>3
    <3>2. job' = job /\ told' = told
      BY <1>1 DEF SaveProposal
    <3> QED
      BY <3>1, <3>2 DEF IndInv, OutcomeIsTheDeal
  <2>8. OffersKept'
    <3>1. \A q \in offered' : Exists(request'[q.request])
      BY <1>1, <2>1 DEF SaveProposal, IndInv, OffersKept
    <3>2. Offer(o.request, o.provider, o.price) = o
      BY <2>1 DEF Offer, OfferRecord
    <3>3. ASSUME NEW r \in Requests, NEW p \in Providers, Exists(proposal'[r][p])
          PROVE  Offer(r, p, proposal'[r][p].price) \in offered'
      <4>1. CASE r = o.request /\ p = o.provider
        <5>1. proposal'[r][p].price = o.price
          BY <2>3, <4>1
        <5> QED
          BY <1>1, <2>1, <3>2, <4>1, <5>1 DEF SaveProposal
      <4>2. CASE ~(r = o.request /\ p = o.provider)
        <5>1. proposal'[r][p] = proposal[r][p]
          BY <2>3, <4>2
        <5> QED
          <6>1. Offer(r, p, proposal[r][p].price) \in offered
            BY <3>3, <5>1 DEF IndInv, OffersKept
          <6>2. offered \subseteq offered'
            BY <1>1 DEF SaveProposal
          <6> QED
            BY <5>1, <6>1, <6>2
      <4> QED
        BY <4>1, <4>2
    <3> QED
      BY <3>1, <3>3 DEF OffersKept
  <2> QED
    BY <1>0, <1>1, <2>1, <2>2, <2>3, <2>4, <2>5, <2>6, <2>7, <2>8, WriteIndInv, ZenonT(30)
       DEF SaveProposal, TypeOK, OfferRecord
<1>2. CASE MarkInvitationAccepted(c)
  <2> DEFINE o == call[c].offer
  <2>1. o \in OfferRecord /\ Exists(proposal[o.request][o.provider])
    BY <1>0, <1>2, InHand DEF MarkInvitationAccepted, At, Fits
  <2>2. /\ invitation' \in [Requests -> [Providers -> InvitationStatus]]
        /\ \A r \in Requests, p \in Providers :
             invitation'[r][p] = invitation[r][p] \/ (r = o.request /\ p = o.provider)
    <3>1. CASE invitation[o.request][o.provider] \in {"SENT", "DECLINED", "EXPIRED"}
      <4>1. invitation' = [invitation EXCEPT ![o.request][o.provider] = "ACCEPTED"]
        BY <1>2, <3>1 DEF MarkInvitationAccepted
      <4> QED
        BY <1>0, <2>1, <4>1 DEF TypeOK, InvitationStatus, OfferRecord
    <3>2. CASE invitation[o.request][o.provider] \notin {"SENT", "DECLINED", "EXPIRED"}
      BY <1>0, <1>2, <3>2 DEF MarkInvitationAccepted, TypeOK
    <3> QED
      BY <3>1, <3>2
  <2>3. Kept /\ ClosedIsDealt' /\ OutcomeIsTheDeal' /\ OffersKept'
    BY <1>2 DEF Kept, IndInv, ClosedIsDealt, OutcomeIsTheDeal, OffersKept, MarkInvitationAccepted
  <2>4. AcceptedHasProposal'
    BY <1>2, <2>1, <2>2 DEF IndInv, AcceptedHasProposal, MarkInvitationAccepted
  <2> QED
    BY <1>0, <1>2, <2>2, <2>3, <2>4, IdleFits, WriteIndInv DEF MarkInvitationAccepted, TypeOK
<1> QED
  BY <1>1, <1>2

\* A deposit is a split of a whole amount.
LEMMA DepositTyped ==
    ASSUME NEW price \in Prices, NEW percent \in Percents
    PROVE  ComputeSplit(DepositAmount(price, percent), FeeBps)
             \in [gross : Nat, fee : Nat, net : Nat]
<1>1. price \in Nat /\ percent \in Nat
  OBVIOUS
<1>2. price * percent \in Nat
  BY <1>1
<1>3. RoundDiv(price * percent, 100) \in Nat
  <2>1. PICK x \in Nat : x = price * percent
    BY <1>2
  <2>2. RoundDiv(x, 100) \in Nat
    BY <2>1 DEF RoundDiv
  <2> QED
    BY <2>1, <2>2
<1>4. PICK amount \in Nat : amount = DepositAmount(price, percent)
  BY <1>3 DEF DepositAmount, AtLeast
<1>5. LET s == ComputeSplit(amount, FeeBps)
      IN  s.gross = amount /\ s.fee \in 0..amount /\ s.net \in 0..amount
  BY SplitConserves
<1>6. ComputeSplit(amount, FeeBps) \in [gross : Nat, fee : Nat, net : Nat]
  BY <1>5 DEF ComputeSplit
<1> QED
  BY <1>4, <1>6

LEMMA SettleIndInv ==
    ASSUME IndInv, NEW c \in Handlers, Settle(c)
    PROVE  IndInv'
<1>0. TypeOK /\ Fits(call[c])
  BY DEF IndInv, InHandFits
<1>1. At(c, "settle") /\ call[c].percent \in Percents
  BY <1>0, InHand DEF Settle, At
<1>2. PICK o \in OfferRecord : o = call[c].offer /\ o \in offered /\ o.provider \notin call[c].others
  BY <1>0, <1>1, InHand DEF At, Fits
<1>3. PICK others \in SUBSET Providers : others = call[c].others
  BY <1>0, <1>1, InHand DEF At
<1> DEFINE s   == [pc |-> "tell", offer |-> o, others |-> others]
           d   == ComputeSplit(DepositAmount(o.price, call[c].percent), FeeBps)
           row == [status |-> "REQUESTED", provider |-> o.provider, agreedPrice |-> o.price,
                   deposit |-> d]
<1>4. /\ o.request \in Requests /\ o.provider \in Providers /\ o.price \in Prices
      /\ s \in Steps
  BY DEF OfferRecord, Steps
<1>5. d \in [gross : Nat, fee : Nat, net : Nat]
  BY <1>1, <1>4, DepositTyped
<1>6. row \in JobRow /\ Exists(row) /\ row.provider = o.provider
  BY <1>4, <1>5 DEF JobRow, Exists
<1>7. /\ job' = [job EXCEPT ![o.request] = row]
      /\ request' = [request EXCEPT ![o.request].status = "CLOSED",
                                    ![o.request].selected = o.provider]
      /\ ~Exists(job[o.request])
      /\ Goto(c, s)
      /\ UNCHANGED <<offered, told, now>>
  BY <1>2, <1>3 DEF Settle, JobRequestIsUnique
<1> HIDE DEF row, d
<1>8. Exists(request[o.request]) /\ request[o.request] \in RequestRow
  BY <1>0, <1>2, <1>4, RowsTyped DEF IndInv, OffersKept
<1>9. /\ request' \in [Requests -> RequestRow \union {NoRow}]
      /\ request'[o.request].status = "CLOSED"
      /\ request'[o.request].selected = o.provider
      /\ \A r \in Requests \ {o.request} : request'[r] = request[r]
  BY <1>0, <1>4, <1>7, <1>8 DEF TypeOK, RequestRow
<1>10. /\ job' \in [Requests -> JobRow \union {NoRow}]
       /\ job'[o.request] = row
       /\ \A r \in Requests \ {o.request} : job'[r] = job[r]
  BY <1>0, <1>4, <1>6, <1>7 DEF TypeOK
<1>11. \A r \in Requests, p \in Providers : proposal'[r][p] =
         IF r = o.request THEN Judged(proposal[r][p], p = o.provider) ELSE proposal[r][p]
  BY <1>0, <1>2, <1>4 DEF Settle, JudgeProposals, TypeOK
<1>12. \A r \in Requests, p \in Providers :
         /\ Exists(proposal[r][p]) <=> Exists(proposal'[r][p])
         /\ Exists(proposal[r][p]) => proposal'[r][p].price = proposal[r][p].price
         /\ proposal'[r][p] \in ProposalRow \union {NoRow}
  <2> SUFFICES ASSUME NEW r \in Requests, NEW p \in Providers
               PROVE  /\ Exists(proposal[r][p]) <=> Exists(proposal'[r][p])
                      /\ Exists(proposal[r][p]) => proposal'[r][p].price = proposal[r][p].price
                      /\ proposal'[r][p] \in ProposalRow \union {NoRow}
    OBVIOUS
  <2>1. \/ proposal'[r][p] = proposal[r][p]
        \/ proposal'[r][p] = Judged(proposal[r][p], p = o.provider)
    BY <1>11
  <2>2. CASE Exists(proposal[r][p])
    <3>1. proposal[r][p] \in ProposalRow
      BY <1>0, <2>2, RowsTyped
    <3>2. proposal'[r][p] \in ProposalRow /\ proposal'[r][p].price = proposal[r][p].price
      BY <2>1, <2>2, <3>1 DEF Judged, ProposalRow
    <3> QED
      BY <2>2, <3>2 DEF ProposalRow, Exists
  <2>3. CASE ~Exists(proposal[r][p])
    <3>1. proposal[r][p] = NoRow
      BY <1>0, <2>3, RowsTyped
    <3> QED
      BY <2>1, <2>3, <3>1 DEF Judged
  <2> QED
    BY <2>2, <2>3
<1>13. proposal' \in [Requests -> [Providers -> ProposalRow \union {NoRow}]]
  BY <1>0, <1>2, <1>12 DEF Settle, JudgeProposals, TypeOK
<1>14. Kept
  BY <1>6, <1>7, <1>9, <1>10, <1>12 DEF Kept, Exists
<1>15. ClosedIsDealt'
  BY <1>6, <1>9, <1>10, <1>14 DEF IndInv, ClosedIsDealt, Exists
<1>16. OutcomeIsTheDeal'
  <2> SUFFICES ASSUME NEW r \in Requests, NEW p \in Providers
               PROVE  /\ proposal'[r][p].status = "SELECTED" \/ Told(r, p, "SELECTED") \in told
                           => Exists(job'[r]) /\ job'[r].provider = p
                      /\ proposal'[r][p].status = "REJECTED" \/ Told(r, p, "REJECTED") \in told
                           => Exists(job'[r]) /\ job'[r].provider # p
    BY <1>7 DEF OutcomeIsTheDeal, Told
  <2>1. CASE r = o.request
    <3>1. Told(r, p, "SELECTED") \notin told /\ Told(r, p, "REJECTED") \notin told
      BY <1>7, <2>1 DEF IndInv, OutcomeIsTheDeal
    <3>2. proposal'[r][p] = Judged(proposal[r][p], p = o.provider)
      BY <1>11, <2>1
    <3>3. /\ proposal'[r][p].status = "SELECTED" => p = o.provider
          /\ proposal'[r][p].status = "REJECTED" => p # o.provider
      <4>1. CASE Exists(proposal[r][p])
        <5>1. proposal[r][p] \in ProposalRow
          BY <1>0, <4>1, RowsTyped
        <5> QED
          BY <3>2, <4>1, <5>1 DEF Judged, ProposalRow
      <4>2. CASE ~Exists(proposal[r][p])
        BY <3>2, <4>2 DEF Judged, Exists
      <4> QED
        BY <4>1, <4>2
    <3> QED
      BY <1>6, <1>10, <2>1, <3>1, <3>3
  <2>2. CASE r # o.request
    BY <1>10, <1>11, <2>2 DEF IndInv, OutcomeIsTheDeal
  <2> QED
    BY <2>1, <2>2
<1>17. AcceptedHasProposal' /\ invitation' \in [Requests -> [Providers -> InvitationStatus]]
  BY <1>0, <1>12 DEF IndInv, AcceptedHasProposal, Settle, ExpireSent, TypeOK, InvitationStatus
<1>18. OffersKept'
  <2>1. \A u \in offered : Exists(request'[u.request])
    BY <1>0, <1>14 DEF IndInv, OffersKept, Kept, TypeOK
  <2>2. \A r \in Requests, p \in Providers :
          Exists(proposal'[r][p]) => Offer(r, p, proposal'[r][p].price) \in offered
    BY <1>12 DEF IndInv, OffersKept
  <2> QED
    BY <1>7, <2>1, <2>2 DEF OffersKept
<1>19. Fits(s)'
  BY <1>2, <1>3, <1>6, <1>7, <1>10 DEF Fits
<1> QED
  BY <1>0, <1>4, <1>7, <1>9, <1>10, <1>13, <1>14, <1>15, <1>16, <1>17, <1>18, <1>19, WriteIndInv
     DEF TypeOK

LEMMA TellIndInv ==
    ASSUME IndInv, NEW c \in Handlers, TellOutcome(c)
    PROVE  IndInv'
<1>0. TypeOK /\ Fits(call[c]) /\ Fits(Idle)'
  BY DEF IndInv, InHandFits, Fits, Idle
<1> DEFINE o == call[c].offer
<1>1. /\ o.request \in Requests /\ o.provider \in Providers
      /\ call[c].others \in SUBSET Providers /\ o.provider \notin call[c].others
      /\ Exists(job[o.request]) /\ job[o.request].provider = o.provider
  BY <1>0, InHand DEF TellOutcome, At, Fits, OfferRecord
<1>2. /\ told' = told \union {Told(o.request, o.provider, "SELECTED")}
                      \union {Told(o.request, q, "REJECTED") : q \in call[c].others}
      /\ UNCHANGED <<request, proposal, invitation, job, offered, now>>
  BY DEF TellOutcome
<1>3. told' \subseteq [request : Requests, provider : Providers, kind : {"SELECTED", "REJECTED"}]
  BY <1>0, <1>1, <1>2 DEF TypeOK, Told
<1>4. Kept /\ ClosedIsDealt' /\ AcceptedHasProposal' /\ OffersKept'
  BY <1>2 DEF Kept, IndInv, ClosedIsDealt, AcceptedHasProposal, OffersKept
<1>5. \A r \in Requests, p \in Providers :
        /\ Told(r, p, "SELECTED") \in told' =>
             Told(r, p, "SELECTED") \in told \/ (r = o.request /\ p = o.provider)
        /\ Told(r, p, "REJECTED") \in told' =>
             Told(r, p, "REJECTED") \in told \/ (r = o.request /\ p \in call[c].others)
  BY <1>2 DEF Told
<1>6. OutcomeIsTheDeal'
  <2> SUFFICES ASSUME NEW r \in Requests, NEW p \in Providers
               PROVE  /\ proposal[r][p].status = "SELECTED" \/ Told(r, p, "SELECTED") \in told'
                           => Exists(job[r]) /\ job[r].provider = p
                      /\ proposal[r][p].status = "REJECTED" \/ Told(r, p, "REJECTED") \in told'
                           => Exists(job[r]) /\ job[r].provider # p
    BY <1>2 DEF OutcomeIsTheDeal, Told
  <2> QED
    BY <1>1, <1>5 DEF IndInv, OutcomeIsTheDeal
<1> QED
  BY <1>0, <1>2, <1>3, <1>4, <1>6, IdleFits, WriteIndInv DEF TellOutcome, TypeOK

LEMMA QuietIndInv ==
    ASSUME IndInv, Tick \/ UNCHANGED vars
    PROVE  IndInv'
<1>1. UNCHANGED <<request, proposal, invitation, job, offered, told, call>> /\ now' \in 0..MaxNow
  BY DEF Tick, vars, IndInv, TypeOK
<1>2. TypeOK' /\ ClosedIsDealt' /\ OutcomeIsTheDeal' /\ AcceptedHasProposal' /\ OffersKept'
  BY <1>1, SameRows DEF rows, IndInv, TypeOK
<1>3. InHandFits'
  BY <1>1 DEF IndInv, InHandFits, Fits
<1> QED
  BY <1>2, <1>3 DEF IndInv

LEMMA NextIndInv == IndInv /\ [Next]_vars => IndInv'
<1> SUFFICES ASSUME IndInv, [Next]_vars PROVE IndInv'
  OBVIOUS
<1>1. ASSUME NEW r \in Requests, Create(r) PROVE IndInv'
  BY <1>1, CreateIndInv
<1>2. CASE ExpireStaleOpenRequests(Timer)
  BY <1>2, SweepIndInv DEF Handlers
<1>3. ASSUME NEW c \in Handlers, ExpireRequestsByIds(c) \/ Fail(c) PROVE IndInv'
  BY <1>3, ExpireIndInv, FailIndInv
<1>4. ASSUME NEW c \in Calls, OwnerCall(c) \/ ProviderCall(c) PROVE IndInv'
  BY <1>4, OwnerIndInv, ProviderIndInv
<1>5. ASSUME NEW c \in Calls, Continue(c) PROVE IndInv'
  BY <1>5, RequestIndInv, InvitationIndInv, ReadIndInv, ProposalIndInv, SettleIndInv, TellIndInv
     DEF Continue, Handlers
<1>6. CASE Tick \/ UNCHANGED vars
  BY <1>6, QuietIndInv
<1> QED
  BY <1>1, <1>2, <1>3, <1>4, <1>5, <1>6 DEF Next, Handlers

-----------------------------------------------------------------------------
(* What holds of every behaviour. *)

LEMMA Invariant == Spec => []IndInv
  BY InitIndInv, NextIndInv, PTL DEF Spec

\* Every row and every call in flight has the shape the code gives it, for
\* any number of requests, providers and calls.
THEOREM TypeCorrect == Spec => []TypeOK
<1>1. IndInv => TypeOK
  BY DEF IndInv
<1> QED
  BY <1>1, Invariant, PTL

\* A request is closed exactly when selectProposal has made its job, and
\* names the provider of that job.
THEOREM RequestClosesWithItsJob == Spec => []ClosedIsDealt
<1>1. IndInv => ClosedIsDealt
  BY DEF IndInv
<1> QED
  BY <1>1, Invariant, PTL

\* What the proposals and the notifications say of a selection is what the
\* job says, however many selections and proposals were in flight.
THEOREM OneOutcome == Spec => []OutcomeIsTheDeal
<1>1. IndInv => OutcomeIsTheDeal
  BY DEF IndInv
<1> QED
  BY <1>1, Invariant, PTL

\* submitProposal accepts an invitation only after it has saved the proposal.
THEOREM NoEmptyAcceptance == Spec => []AcceptedHasProposal
<1>1. IndInv => AcceptedHasProposal
  BY DEF IndInv
<1> QED
  BY <1>1, Invariant, PTL

-----------------------------------------------------------------------------
(* That ServiceRequests implements Deals. *)

Phase == [r \in Requests |-> request[r].status]
Taken == [r \in Requests |-> DealOf(r)]

LEMMA InitRefines == Init => Promise!Init
  BY DEF Init, Promise!Init, DealOf, Exists, NoRow

LEMMA SamePhases ==
    ASSUME UNCHANGED <<offered, job>>,
           \A r \in Requests : request'[r].status = request[r].status
    PROVE  UNCHANGED Promise!vars
<1>1. \A r \in Requests : DealOf(r)' = DealOf(r)
  BY DEF DealOf
<1> QED
  BY <1>1 DEF Promise!vars

LEMMA PublishRefines ==
    ASSUME IndInv, NEW r \in Requests, ~Exists(request[r]), UNCHANGED <<offered, job>>,
           request' = [request EXCEPT ![r] = NewRequest]
    PROVE  Promise!Next
<1>1. Phase' = [Phase EXCEPT ![r] = "OPEN"]
  BY DEF Phase, NewRequest, IndInv, TypeOK
<1>2. Taken' = Taken /\ Phase[r] = "absent"
  BY DEF Taken, DealOf, Phase, Exists
<1>3. Promise!Publish(r)
  BY <1>1, <1>2 DEF Promise!Publish, Phase, Taken
<1> QED
  BY <1>3 DEF Promise!Next

LEMMA LapseRefines ==
    ASSUME IndInv, NEW c \in Handlers, ExpireRequestsByIds(c)
    PROVE  Promise!Next
<1> DEFINE lapsing == {r \in call[c].ids : IsExpirable(r)}
<1>0. call[c].ids \in SUBSET Requests
  BY InHand DEF ExpireRequestsByIds, At, IndInv
<1>1. lapsing \in SUBSET Requests /\ \A r \in lapsing : Phase[r] = "OPEN"
  BY <1>0 DEF IsExpirable, Phase
<1>2. \A r \in Requests : IsExpirable(r) => request[r] \in RequestRow
  BY RowsTyped DEF IndInv, IsExpirable, Exists
<1>3. \A r \in Requests :
        request'[r].status = IF r \in lapsing THEN "EXPIRED" ELSE request[r].status
  BY <1>2 DEF ExpireRequestsByIds, RequestRow
<1>4. Phase' = [r \in Requests |-> IF r \in lapsing THEN "EXPIRED" ELSE Phase[r]]
  BY <1>3 DEF Phase
<1>5. UNCHANGED <<offered, Taken>>
  BY DEF ExpireRequestsByIds, Taken, DealOf
<1>6. PICK lapse \in SUBSET Requests : lapse = lapsing
  BY <1>1
<1> HIDE DEF lapsing
<1>7. Promise!Lapse(lapse)
  BY <1>1, <1>4, <1>5, <1>6 DEF Promise!Lapse, Phase, Taken
<1> QED
  BY <1>7 DEF Promise!Next

LEMMA OfferRefines ==
    ASSUME IndInv, NEW c \in Handlers, SaveProposal(c)
    PROVE  Promise!Next
<1>1. Fits(call[c]) /\ TypeOK
  BY DEF IndInv, InHandFits
<1>2. PICK o \in OfferRecord : o = call[c].offer /\ Exists(request[o.request])
  BY <1>1, InHand DEF SaveProposal, At, Fits
<1>3. Phase[o.request] # "absent"
  BY <1>2 DEF Phase, Exists, OfferRecord
<1>4. offered' = offered \union {o} /\ UNCHANGED <<Phase, Taken>>
  BY <1>2 DEF SaveProposal, Phase, Taken, DealOf
<1>5. Promise!Offer(o)
  BY <1>3, <1>4 DEF Promise!Offer, Phase, Taken
<1> QED
  BY <1>2, <1>5 DEF Promise!Next, Promise!Offers, OfferRecord

LEMMA StrikeRefines ==
    ASSUME IndInv, NEW c \in Handlers, Settle(c)
    PROVE  Promise!Next
<1>1. Fits(call[c]) /\ TypeOK
  BY DEF IndInv, InHandFits
<1>2. PICK o \in OfferRecord : o = call[c].offer /\ o \in offered
  BY <1>1, InHand DEF Settle, At, Fits
<1>3. o.request \in Requests /\ Exists(request[o.request]) /\ ~Exists(job[o.request])
  BY <1>2 DEF IndInv, OffersKept, OfferRecord, Settle, JobRequestIsUnique
<1>4. request[o.request] \in RequestRow /\ request[o.request].status # "CLOSED"
  BY <1>1, <1>3, RowsTyped DEF IndInv, ClosedIsDealt
<1>5. Phase[o.request] \in {"OPEN", "EXPIRED"}
  BY <1>3, <1>4 DEF Phase, RequestRow
<1>6. Phase' = [Phase EXCEPT ![o.request] = "CLOSED"]
  <2>1. request' = [request EXCEPT ![o.request].status = "CLOSED",
                                   ![o.request].selected = o.provider]
    BY <1>2 DEF Settle
  <2> QED
    BY <1>1, <1>3, <1>4, <2>1 DEF Phase, TypeOK, RequestRow
<1>7. Taken' = [Taken EXCEPT ![o.request] = o]
  <2>1. PICK d : job' = [job EXCEPT ![o.request] =
          [status |-> "REQUESTED", provider |-> o.provider, agreedPrice |-> o.price,
           deposit |-> d]]
    BY <1>2 DEF Settle
  <2>2. Offer(o.request, o.provider, o.price) = o
    BY DEF Offer, OfferRecord
  <2> QED
    BY <1>1, <1>3, <2>1, <2>2 DEF Taken, DealOf, Exists, TypeOK
<1>8. UNCHANGED offered
  BY DEF Settle
<1>9. Promise!Strike(o)
  BY <1>2, <1>5, <1>6, <1>7, <1>8 DEF Promise!Strike, Phase, Taken
<1> QED
  BY <1>2, <1>9 DEF Promise!Next, Promise!Offers, OfferRecord

\* Everything else leaves the statuses, the proposals saved and the jobs alone.
LEMMA StutterRefines ==
    ASSUME IndInv, NEW c \in Handlers,
           \/ OwnerCall(c) \/ ProviderCall(c) \/ Fail(c) \/ ExpireStaleOpenRequests(c)
           \/ WriteUpdate(c) \/ InsertInvitation(c) \/ WriteAnswer(c)
           \/ FindSentOfRequest(c) \/ FindSentOfProvider(c) \/ ExpireFound(c)
           \/ LookupProposal(c) \/ MarkInvitationAccepted(c)
           \/ ChooseProposal(c) \/ LookForJob(c) \/ SettleIdempotent(c) \/ TellOutcome(c)
    PROVE  UNCHANGED Promise!vars
<1>1. CASE WriteUpdate(c)
  <2>1. TypeOK /\ Fits(call[c]) /\ At(c, "update")
    BY <1>1 DEF IndInv, InHandFits, WriteUpdate
  <2>2. call[c].request \in Requests /\ Exists(request[call[c].request])
    BY <2>1, InHand DEF At, Fits
  <2>3. request[call[c].request] \in RequestRow
    BY <2>1, <2>2, RowsTyped
  <2>4. \A r \in Requests : request'[r].status = request[r].status
    BY <1>1, <2>1, <2>2, <2>3 DEF WriteUpdate, TypeOK, RequestRow
  <2> QED
    BY <1>1, <2>4, SamePhases DEF WriteUpdate
<1>2. CASE OwnerCall(c)
  <2>1. UNCHANGED <<request, offered, job>>
    BY <1>2 DEF OwnerCall, ListMine, GetMineById, ListRequestProposals, ExpireStaleOpenRequests,
                RefreshRequestStatusIfExpired, Recreate, ListRequestInvitations, Update,
                CreateInvitation, SelectProposal
  <2> QED
    BY <2>1, SamePhases
<1>3. CASE ProviderCall(c)
  <2>1. UNCHANGED <<request, offered, job>>
    BY <1>3 DEF ProviderCall, ListOpenForProvider, ListMineProposals, ExpireStaleOpenRequests,
                ListMineInvitations, DeclineInvitation, SubmitProposal
  <2> QED
    BY <2>1, SamePhases
<1>4. CASE \/ Fail(c) \/ ExpireStaleOpenRequests(c)
           \/ InsertInvitation(c) \/ WriteAnswer(c)
           \/ FindSentOfRequest(c) \/ FindSentOfProvider(c) \/ ExpireFound(c)
           \/ LookupProposal(c) \/ MarkInvitationAccepted(c)
           \/ ChooseProposal(c) \/ LookForJob(c) \/ SettleIdempotent(c) \/ TellOutcome(c)
  <2>1. UNCHANGED <<request, offered, job>>
    BY <1>4 DEF Fail, ExpireStaleOpenRequests, InsertInvitation, WriteAnswer,
                FindSentOfRequest, FindSentOfProvider, ExpireFound, LookupProposal,
                MarkInvitationAccepted, ChooseProposal, LookForJob, SettleIdempotent, TellOutcome
  <2> QED
    BY <2>1, SamePhases
<1> QED
  BY <1>1, <1>2, <1>3, <1>4

LEMMA NextRefines == IndInv /\ [Next]_vars => [Promise!Next]_(Promise!vars)
<1> SUFFICES ASSUME IndInv, [Next]_vars PROVE Promise!Next \/ UNCHANGED Promise!vars
  OBVIOUS
<1>1. ASSUME NEW r \in Requests, Create(r) PROVE Promise!Next
  BY <1>1, PublishRefines DEF Create
<1>2. ASSUME NEW c \in Handlers, InsertRecreated(c) PROVE Promise!Next
  BY <1>2, PublishRefines DEF InsertRecreated
<1>3. CASE UNCHANGED vars \/ Tick
  <2>1. UNCHANGED <<request, offered, job>>
    BY <1>3 DEF vars, Tick
  <2> QED
    BY <2>1, SamePhases
<1> QED
  BY <1>1, <1>2, <1>3, LapseRefines, OfferRefines, StrikeRefines, StutterRefines
     DEF Next, Continue, Handlers

\* The handlers of service-requests.service.ts, interleaved and failing as
\* they may, publish, offer, lapse and deal as Deals promises: one deal for a
\* request, for a price that its provider had offered, and final.
THEOREM Marketplace == Spec => KeepsPromise
<1>1. Init => Promise!Init
  BY InitRefines
<1>2. IndInv /\ [Next]_vars => [Promise!Next]_(Promise!vars)
  BY NextRefines
<1> QED
  BY <1>1, <1>2, Invariant, PTL DEF Spec, KeepsPromise, Promise!Spec
=============================================================================
