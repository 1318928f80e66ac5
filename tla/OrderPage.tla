----------------------------- MODULE OrderPage -----------------------------
(***************************************************************************)
(* The customer's page of one request (OrderDetailsPage) with the panel of *)
(* its job (JobProtectionPanel), in front of the API.                      *)
(*                                                                         *)
(* The page keeps copies of what it loaded and offers what these allow.  A *)
(* handler sends a request, waits for the answer and loads the page again; *)
(* `thread[t]' is one such function between two of its awaits, and nothing *)
(* makes one wait for another that has a flag of its own.  The API is      *)
(* taken by what its operations accept and change, one step each: how they *)
(* interleave inside is the matter of ServiceRequests, Charges and         *)
(* Settlement.  A request has one job, and the job one deposit; a job that *)
(* is accepted or under way is RUNNING.                                    *)
(***************************************************************************)
EXTENDS Naturals, Sequences, FiniteSets

CONSTANTS
    Sellers,     \* the providers
    NoSeller,
    Threads,     \* bound: functions of the page that run at once
    MaxActs      \* bound: requests of the page that the API accepts

ASSUME SellersAssumption == Sellers # {}

VARIABLES
    order,       \* the request, its job and its money, as the database has them
    page,        \* the page's copies of them, and whom it is inviting
    thread,      \* the running functions of the page
    acts,        \* how many requests of the page the API accepted (history)
    met,         \* two functions of the page ran at once (history)
    lost         \* a read failed or an answer did not arrive (history)

orderVars == <<order, page, thread, acts, met, lost>>

Payable == {"AWAITING_PAYMENT", "PENDING_CONFIRMATION", "FAILED"}
JobIsOver(s) == s.job \in {"COMPLETED", "CANCELED"}
IsTaking(s) == s.request = "OPEN" /\ ~s.overdue
IsPaid(s) == s.deposit = "PAID_PARTIAL"

\* What the gateway says of a charge goes over whatever the deposit was, a paid one
\* included; the contact that it once unlocked stays so.
GatewayTells(s, d) ==
    [s EXCEPT !.deposit = d, !.charged = TRUE, !.unlocked = @ \/ d = "PAID_PARTIAL"]
GatewaySays == {"PAID_PARTIAL", "PENDING_CONFIRMATION", "FAILED"}
RefundIsActive(s) == s.refund \in {"PENDING", "PROCESSING"}

-----------------------------------------------------------------------------
(* The API: what its answers carry and what its operations make of `order'. *)

\* refreshRequestStatusIfExpired, with which a request's reads begin.
Expired(s) ==
    [s EXCEPT !.request = "EXPIRED", !.overdue = FALSE,
              !.invited = [p \in Sellers |-> IF @[p] = "SENT" THEN "EXPIRED" ELSE @[p]]]
Refreshed(s) == IF s.request = "OPEN" /\ s.overdue THEN Expired(s) ELSE s

RequestView(s) ==
    [request |-> s.request, job |-> s.job, reviewed |-> s.reviewed,
     unlocked |-> s.unlocked,
     offers  |-> {p \in Sellers : s.offer[p] # "none"},
     invited |-> {p \in Sellers : s.invited[p] # "none"}]

\* Mutant: a refund that is under review does not stop another.
SummaryOfBalance(s) ==
    [deposit          |-> s.deposit,
     canCancelJob     |-> ~JobIsOver(s),
     canRequestRefund |-> IsPaid(s) /\ s.refundable,
     unlocked         |-> s.unlocked,
     myPending        |-> s.refund = "PENDING" /\ s.mine]

\* The job's financial state, with buildRefundSummary for the customer, and the
\* contactUnlocked of the job itself; the page asks for both at once.
MoneyView(s) ==
    [deposit          |-> s.deposit,
     canCancelJob     |-> ~JobIsOver(s),
     canRequestRefund |-> IsPaid(s) /\ s.refundable /\ ~RefundIsActive(s),
     unlocked         |-> s.unlocked \/ IsPaid(s),
     myPending        |-> s.refund = "PENDING" /\ s.mine]

\* The proposal becomes the job and its unpaid deposit.
Selected(s, p) ==
    [s EXCEPT !.request = "CLOSED", !.job = "REQUESTED", !.deposit = "AWAITING_PAYMENT",
              !.offer = [q \in Sellers |-> IF @[q] = "none" THEN "none"
                                           ELSE IF q = p THEN "SELECTED" ELSE "REJECTED"],
              !.invited = [q \in Sellers |-> IF @[q] = "SENT" THEN "EXPIRED" ELSE @[q]]]

Canceled(s) ==
    [s EXCEPT !.job = "CANCELED",
              !.deposit = IF @ \in {"AWAITING_PAYMENT", "PENDING_CONFIRMATION"}
                          THEN "CANCELED" ELSE @]

\* What the API may make of an operation of the customer; nothing if it refuses.
CreateInvitation(s, p) ==
    IF IsTaking(s) /\ s.offer[p] = "none" /\ s.invited[p] = "none"
    THEN {[s EXCEPT !.invited[p] = "SENT"]} ELSE {}
SelectProposal(s, p) ==
    IF IsTaking(s) /\ s.offer[p] \in {"SUBMITTED", "SELECTED"} THEN {Selected(s, p)} ELSE {}
UpdateRequest(s) == IF IsTaking(s) THEN {s} ELSE {}
RecreateExpired(s) == IF s.request = "EXPIRED" THEN {s} ELSE {}
PayDeposit(s) ==
    IF s.deposit \in Payable THEN {GatewayTells(s, d) : d \in GatewaySays}
    ELSE IF IsPaid(s) THEN {s} ELSE {}
CreateReview(s) ==
    IF s.job = "COMPLETED" /\ ~s.reviewed THEN {[s EXCEPT !.reviewed = TRUE]} ELSE {}
CancelJob(s) == IF s.job \in {"REQUESTED", "RUNNING"} THEN {Canceled(s)} ELSE {}
CreateRefundRequest(s, mine) ==
    IF IsPaid(s) /\ ~RefundIsActive(s) /\ s.refundable
    THEN {[s EXCEPT !.refund = "PENDING", !.mine = mine]} ELSE {}
CancelRefundRequest(s) ==
    IF s.refund = "PENDING" /\ s.mine THEN {[s EXCEPT !.refund = "CANCELED"]} ELSE {}

Outcomes(s, op, p) ==
    CASE op = "invite"   -> CreateInvitation(s, p)
      [] op = "select"   -> SelectProposal(s, p)
      [] op = "update"   -> UpdateRequest(s)
      [] op = "recreate" -> RecreateExpired(s)
      [] op = "pay"      -> PayDeposit(s)
      [] op = "review"   -> CreateReview(s)
      [] op = "cancel"   -> CancelJob(s)
      [] op = "refund"   -> CreateRefundRequest(s, TRUE)
      [] op = "withdraw" -> CancelRefundRequest(s)

-----------------------------------------------------------------------------
(* The page: what it shows and offers. *)

NoRequest == [request |-> "none", job |-> "none", reviewed |-> FALSE, unlocked |-> FALSE,
              offers |-> {}, invited |-> {}]
NoMoney == [deposit |-> "none", canCancelJob |-> FALSE, canRequestRefund |-> FALSE,
            unlocked |-> FALSE, myPending |-> FALSE]

CanReview == page.request.job = "COMPLETED" /\ ~page.request.reviewed

\* The heading of the main action, without the words for waiting.
PrimaryAction ==
    IF page.request.request = "none" THEN "none"
    ELSE IF CanReview THEN "review"
    ELSE IF page.request.reviewed THEN "none"
    ELSE IF page.request.request = "EXPIRED" THEN "recreate"
    ELSE IF page.money.unlocked THEN "none"
    ELSE IF page.money.deposit \in Payable THEN "pay"
    ELSE IF page.request.offers # {} THEN "select" ELSE "none"

\* The label over the order (resolveFlowVisualState).
FlowState ==
    IF page.request.request \in {"none", "EXPIRED"} THEN page.request.request
    ELSE IF JobIsOver(page.request) THEN page.request.job
    ELSE IF page.request.unlocked THEN "underWay"
    ELSE IF page.money.deposit \in Payable \/ page.request.job # "none" THEN "toPay"
    ELSE IF page.request.offers # {} THEN "toChoose" ELSE "waiting"

Operations == {"invite", "select", "update", "recreate", "pay", "review",
               "cancel", "refund", "withdraw"}

\* The buttons, whether or not a flag disables them now.
OffersInvite(p) ==
    page.request.request = "OPEN" /\ p \notin page.request.invited \union page.request.offers
OffersSelect(p) == page.request.request = "OPEN" /\ p \in page.request.offers
OffersUpdate    == page.request.request = "OPEN" /\ page.request.job = "none"
OffersRecreate  == page.request.request = "EXPIRED"
OffersPay       == page.money.deposit \in Payable /\ ~OffersRecreate /\ ~CanReview

\* The panel of the job offers the withdrawal only beside a new refund request.
OffersCancel    == page.request.job # "none" /\ page.money.canCancelJob
OffersRefund    == page.request.job # "none" /\ page.money.canRequestRefund
OffersWithdraw  == OffersRefund /\ page.money.myPending

Offers(op, p) ==
    CASE op = "invite"   -> OffersInvite(p)
      [] op = "select"   -> OffersSelect(p)
      [] op = "update"   -> OffersUpdate
      [] op = "recreate" -> OffersRecreate
      [] op = "pay"      -> OffersPay
      [] op = "review"   -> CanReview
      [] op = "cancel"   -> OffersCancel
      [] op = "refund"   -> OffersRefund
      [] op = "withdraw" -> OffersWithdraw

-----------------------------------------------------------------------------
(* The functions of the page. *)

NoFunction == [todo |-> <<>>, op |-> "none", to |-> NoSeller, copy |-> NoRequest, seen |-> 0]
AtRest == \A t \in Threads : thread[t].todo = <<>>
Doing(t, step) == thread[t].todo # <<>> /\ Head(thread[t].todo) = step
IsLoading(t) == \E step \in {"show", "readMoney", "showMoney"} : Doing(t, step)

\* The flag that disables an operation's buttons while it runs.
Flag(op) == CASE op \in {"select", "pay"}            -> "runningAction"
              [] op \in {"cancel", "cancelAndRefund"} -> "runningCancel"
              [] OTHER                               -> op
IsFree(op, p) == IF op = "invite" THEN page.inviting # p ELSE Flag(op) \notin page.flags

\* Mutant: the handler of the invitations does not load the page.
StepsWithoutLoad(op) ==
    CASE op = "open"                   -> <<"load">>
      [] op \in {"recreate", "invite"} -> <<op>>
      [] OTHER                         -> <<op, "load">>

\* What a handler awaits, in order; the recreated request has a page of its own.
Steps(op) ==
    CASE op = "open"            -> <<"load">>
      [] op = "recreate"        -> <<op>>
      [] op = "cancelAndRefund" -> <<"cancel", "refund", "load", "load">>
      [] OTHER                  -> <<op, "load">>

\* The flags and the invited provider of page g once thread t has `rest' to do.
Lowered(g, t, rest) ==
    LET op == thread[t].op
        done == (IF rest = <<>> THEN {Flag(op)} ELSE {})
                \union (IF op = "cancelAndRefund" /\ rest = <<"load">> THEN {"refund"} ELSE {})
    IN [g EXCEPT !.flags = @ \ done,
                 !.inviting = IF op = "invite" /\ rest = <<>> THEN NoSeller ELSE @]

\* Thread t goes on with `rest', and the page is g.
GoesOn(t, rest, g) ==
    /\ thread' = [thread EXCEPT ![t] =
                     IF rest = <<>> THEN NoFunction
                     ELSE [@ EXCEPT !.todo = rest, !.copy = NoRequest, !.seen = 0]]
    /\ page' = IF page.open THEN Lowered(g, t, rest) ELSE page

Blank == [open |-> FALSE, request |-> NoRequest, money |-> NoMoney, seen |-> 0,
          flags |-> {}, inviting |-> NoSeller]

\* The page is opened, or opened again; bound: once nothing of it runs.
Open(t) ==
    /\ AtRest
    /\ page' = [Blank EXCEPT !.open = TRUE]
    /\ thread' = [thread EXCEPT ![t] = [NoFunction EXCEPT !.todo = Steps("open"), !.op = "open"]]
    /\ met' = FALSE /\ lost' = FALSE
    /\ UNCHANGED <<order, acts>>

\* The customer clicks.  The panel offers the refund with the cancellation.
Click(t, op, p) ==
    /\ page.open /\ thread[t].todo = <<>> /\ acts < MaxActs
    /\ IsFree(op, p)
    /\ IF op = "cancelAndRefund" THEN Offers("cancel", p) /\ page.money.canRequestRefund
       ELSE Offers(op, p)
    /\ thread' = [thread EXCEPT ![t] = [NoFunction EXCEPT !.todo = Steps(op), !.op = op,
                                      !.to = IF op \in {"invite", "select"} THEN p ELSE NoSeller]]
    /\ page' = [page EXCEPT !.flags = @ \union {Flag(op)},
                            !.inviting = IF op = "invite" THEN p ELSE @]
    /\ UNCHANGED <<order, acts, met, lost>>

\* The API accepts, and the answer arrives or not.
Accepted(t) ==
    \E op \in Operations, answered \in BOOLEAN :
        /\ Doing(t, op)
        /\ order' \in Outcomes(order, op, thread[t].to)
        /\ acts' = IF acts < MaxActs THEN acts + 1 ELSE acts
        /\ lost' = (lost \/ ~answered)
        /\ IF answered
           THEN LET rest == Tail(thread[t].todo)
                IN GoesOn(t, rest, IF op = "recreate" THEN Blank
                                   ELSE IF rest # <<>> /\ Head(rest) = "refund"
                                   THEN [page EXCEPT !.flags = @ \union {"refund"}] ELSE page)
           ELSE GoesOn(t, IF op = "refund" /\ thread[t].op = "cancelAndRefund"
                          THEN <<"load">> ELSE <<>>, page)
        /\ UNCHANGED met

\* The API refuses; a request that is overdue is closed on the way.
Refused(t) ==
    \E op \in Operations :
        /\ Doing(t, op)
        /\ Outcomes(order, op, thread[t].to) = {}
        /\ order' = IF op \in {"invite", "select", "update", "recreate"}
                    THEN Refreshed(order) ELSE order
        /\ GoesOn(t, IF op = "refund" /\ thread[t].op = "cancelAndRefund"
                     THEN <<"load">> ELSE <<>>, page)
        /\ UNCHANGED <<acts, met, lost>>

\* loadDetails: the request, ...
ReadRequest(t) ==
    /\ Doing(t, "load")
    /\ order' = Refreshed(order)
    /\ thread' = [thread EXCEPT ![t] =
                     [thread[t] EXCEPT !.todo = <<"show">> \o Tail(@), !.seen = acts,
                                       !.copy = RequestView(Refreshed(order))]]
    /\ met' = (met \/ \E u \in Threads \ {t} : IsLoading(u))
    /\ UNCHANGED <<page, acts, lost>>

ShowRequest(t) ==
    /\ Doing(t, "show")
    /\ LET copy == thread[t].copy
           shown == [page EXCEPT !.request = copy, !.seen = thread[t].seen]
       IN IF copy.job = "none"
          THEN GoesOn(t, Tail(thread[t].todo), [shown EXCEPT !.money = NoMoney])
          ELSE GoesOn(t, <<"readMoney">> \o Tail(thread[t].todo), shown)
    /\ UNCHANGED <<order, acts, met, lost>>

\* ... and, if it has a job, the job's money.
ReadMoney(t) ==
    /\ Doing(t, "readMoney")
    /\ thread' = [thread EXCEPT ![t] =
                     [thread[t] EXCEPT !.todo = <<"showMoney">> \o Tail(@),
                                       !.copy = MoneyView(order)]]
    /\ UNCHANGED <<order, page, acts, met, lost>>

ShowMoney(t) ==
    /\ Doing(t, "showMoney")
    /\ GoesOn(t, Tail(thread[t].todo), [page EXCEPT !.money = thread[t].copy])
    /\ UNCHANGED <<order, acts, met, lost>>

\* A read that fails empties the page; its handler goes on.
LoadFails(t) ==
    /\ Doing(t, "load") \/ Doing(t, "readMoney")
    /\ GoesOn(t, Tail(thread[t].todo), [page EXCEPT !.request = NoRequest, !.money = NoMoney])
    /\ lost' = TRUE
    /\ UNCHANGED <<order, acts, met>>

-----------------------------------------------------------------------------
(* What the others do meanwhile, as ServiceRequests, Charges and Settlement *)
(* have it.                                                                 *)

Submit(s, p) == [s EXCEPT !.offer[p] = "SUBMITTED",
                          !.invited[p] = IF @ = "SENT" THEN "ACCEPTED" ELSE @]
Decline(s, p) == [s EXCEPT !.invited[p] = "DECLINED"]

OthersAct ==
    /\ \/ \E p \in Sellers : \/ IsTaking(order) /\ order' = Submit(order, p)
                             \/ IsTaking(order) /\ order.invited[p] = "SENT"
                                /\ order' = Decline(order, p)
       \/ IsTaking(order) /\ order' = [order EXCEPT !.overdue = TRUE]
       \/ order.overdue /\ order' = Refreshed(order)
       \/ order.job = "REQUESTED" /\ IsPaid(order) /\ order' = [order EXCEPT !.job = "RUNNING"]
       \/ order.job = "RUNNING" /\ IsPaid(order) /\ order' = [order EXCEPT !.job = "COMPLETED"]
       \/ order.job \in {"REQUESTED", "RUNNING"} /\ order' = Canceled(order)
       \/ order.charged /\ \E d \in GatewaySays : order' = GatewayTells(order, d)
       \/ order' \in CreateRefundRequest(order, FALSE)
       \/ order.refund = "PENDING" /\ order' = [order EXCEPT !.refund = "PROCESSING"]
       \/ RefundIsActive(order)
          /\ \E left \in BOOLEAN :
                order' = [order EXCEPT !.refund = "DECIDED", !.refundable = left]
    /\ UNCHANGED <<page, thread, acts, met, lost>>

-----------------------------------------------------------------------------
NewOrder == [request |-> "OPEN", overdue |-> FALSE,
             offer |-> [p \in Sellers |-> "none"], invited |-> [p \in Sellers |-> "none"],
             job |-> "none", deposit |-> "none", charged |-> FALSE, unlocked |-> FALSE,
             refund |-> "none", mine |-> FALSE, refundable |-> TRUE, reviewed |-> FALSE]

\* The page is opened first on a request without proposals or on one that led to a
\* job whose deposit is paid.
OrderInit ==
    /\ \/ order = NewOrder
       \/ \E p \in Sellers :
             order = GatewayTells(Selected(Submit(NewOrder, p), p), "PAID_PARTIAL")
    /\ page = Blank
    /\ thread = [t \in Threads |-> NoFunction]
    /\ acts = 0 /\ met = FALSE /\ lost = FALSE

OrderNext ==
    \/ OthersAct
    \/ \E t \in Threads :
          \/ Open(t) \/ Accepted(t) \/ Refused(t)
          \/ ReadRequest(t) \/ ShowRequest(t) \/ ReadMoney(t) \/ ShowMoney(t) \/ LoadFails(t)
          \/ \E op \in Operations \union {"cancelAndRefund"}, p \in Sellers : Click(t, op, p)

OrderSpec == OrderInit /\ [][OrderNext]_orderVars

-----------------------------------------------------------------------------
IsCurrent ==
    /\ page.open /\ ~order.overdue
    /\ page.request = RequestView(order)
    /\ page.money = IF order.job = "none" THEN NoMoney ELSE MoneyView(order)

\* The conditions of the buttons and those of the API's operations are written
\* apart, over different records, and a deposit that was paid may be pending or
\* failed again while its job goes on.  On a page whose copies are current the
\* customer is offered nothing that the API would refuse, and all that it would
\* take, with three exceptions: a pending refund request cannot be withdrawn, a
\* paid deposit is not offered again though the API answers, and of a job that is
\* over the review comes before the deposit.  The heading of the main action names
\* something that is offered, unless the job is canceled, and the label over the
\* order agrees with both.
OffersMatchApi ==
    IsCurrent =>
        /\ \A op \in Operations \ {"withdraw"}, p \in Sellers :
              /\ Offers(op, p) => Outcomes(order, op, p) # {}
              /\ Outcomes(order, op, p) # {} =>
                    Offers(op, p) \/ (op = "pay" /\ (IsPaid(order) \/ CanReview))
        /\ OffersPay => ~IsPaid(order)
        /\ order.job # "CANCELED" =>
              /\ PrimaryAction # "none" => \E p \in Sellers : Offers(PrimaryAction, p)
              /\ PrimaryAction = "select" => FlowState = "toChoose"
        /\ FlowState = "EXPIRED" <=> OffersRecreate
        /\ FlowState = "toPay" => OffersPay /\ ~IsPaid(order)
        /\ FlowState = "toChoose" => PrimaryAction = "select"

\* Handlers and loads interleave freely and a load's answers may come late.
\* Still the page, once nothing of it runs, shows everything it did itself:
\* only two loads at once, a failed read or a lost answer leave it behind.
ActedIsShown ==
    AtRest /\ page.open /\ page.request # NoRequest /\ ~met /\ ~lost => page.seen = acts
=============================================================================
