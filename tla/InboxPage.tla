----------------------------- MODULE InboxPage -----------------------------
(***************************************************************************)
(* The provider's page of requests (ProviderRequestsPage) and the model it *)
(* builds of them (buildProviderInboxModel), seen from one request.        *)
(*                                                                         *)
(* A load reads the open requests, the invitations and the profile at      *)
(* once; the answers are taken at different moments and shown together.    *)
(* The request may be published while the page is open.  What it is like,  *)
(* and what the provider's record in its category is, is chosen at the     *)
(* start.  The provider's list of proposals, which only counts for that    *)
(* record, is left out.                                                    *)
(***************************************************************************)
EXTENDS Integers, FiniteSets

CONSTANTS
    Tabs,       \* bound: functions of the page that run at once
    Traits,     \* the kinds of requests and records
    Statuses    \* how available the provider says to be

\* What the points are for is explained where they are counted.
ASSUME TraitsAssumption ==
    Traits \subseteq [own : BOOLEAN, category : {-2, 0, 4}, near : 0..4,
                      record : {0, 1, 3, 4}, left : {"day", "days", "later"}]

ASSUME StatusesAssumption ==
    Statuses \subseteq {"AVAILABLE_NOW", "LIMITED_THIS_WEEK", "NEXT_WEEK", "UNAVAILABLE"}

VARIABLES
    traits,     \* what does not change of the request and the record
    demand,     \* the request, the provider's invitation and proposal
    status,     \* the provider's availabilityStatus
    inbox,      \* what the page shows
    tab         \* the running functions of the page

inboxVars == <<traits, demand, status, inbox, tab>>

Lists == {"requests", "invitations", "profile"}

-----------------------------------------------------------------------------
(* How well the request fits the provider (buildRequestFit).                *)

\* A request in `traits' is or is not the provider's `own', and is worth points for
\* its `category' (4 fits, -2 does not, 0 the profile names none) and for being
\* `near' (0..4); the hours `left' count in steps: a day, less than three, more.
AvailabilityFit(s) ==
    CASE s = "UNAVAILABLE"       -> -4
      [] s = "NEXT_WEEK"         -> IF traits.left = "later" THEN 1 ELSE -1
      [] s = "LIMITED_THIS_WEEK" -> IF traits.left = "day" THEN 1 ELSE 2
      [] s = "AVAILABLE_NOW"     -> IF traits.left = "day" THEN 4 ELSE 3

\* `record': 0 none in this category, 1 proposals, 3 a selected one, 4 nearby.
Score(s, invited) ==
    traits.category + traits.near + AvailabilityFit(s) + traits.record
    + (IF invited THEN 4 ELSE 0) + (IF traits.left = "day" THEN 1 ELSE 0)

Priority(s, invited) ==
    IF Score(s, invited) >= 12 THEN "high"
    ELSE IF Score(s, invited) >= 8 THEN "medium" ELSE "low"

-----------------------------------------------------------------------------
(* The page.                                                                *)

\* Mutant: an invitation that was answered is no longer listed.
PendingInvitations == {i \in inbox.invitations : i.status = "SENT"}
Listed == inbox.invitations

\* A request of the open market has no invitation and no proposal of the provider.
InMarket == \E q \in inbox.requests : ~q.proposed /\ inbox.invitations = {}
ProposeByInvitation == \E i \in Listed : i.open
OffersProposal == InMarket \/ ProposeByInvitation
OffersDecline == \E i \in Listed : i.status = "SENT"

Empty == [requests |-> {}, invitations |-> {}, status |-> "none"]
Asleep == [todo |-> "nothing", left |-> {}, got |-> Empty, first |-> FALSE]
Reading(first) == [Asleep EXCEPT !.todo = "read", !.left = Lists, !.first = first]
AllAsleep == \A t \in Tabs : tab[t].todo = "nothing"

\* Every list begins by closing the requests that are overdue.
Swept(d) ==
    IF d.request = "OVERDUE"
    THEN [d EXCEPT !.request = "EXPIRED", !.invited = IF @ = "SENT" THEN "EXPIRED" ELSE @]
    ELSE d

OpenPage(t) ==
    /\ AllAsleep
    /\ inbox' = Empty
    /\ tab' = [tab EXCEPT ![t] = Reading(TRUE)]
    /\ UNCHANGED <<traits, demand, status>>

\* The page asks for the eighty newest open requests (`limit: 80'); whether ours is
\* one of them depends on how many have been published since.  All the invitations
\* of the provider are listed.
RequestsRead(d) ==
    IF d.request = "OPEN" THEN {{[proposed |-> d.offer # "none"]}, {}} ELSE {{}}
InvitationsRead(d) ==
    IF d.invited = "none" THEN {} ELSE {[status |-> d.invited, open |-> d.request = "OPEN"]}

\* Load t has taken the answer to one of its three reads.
Takes(t, list, got) ==
    /\ tab[t].todo = "read" /\ list \in tab[t].left
    /\ tab' = [tab EXCEPT ![t] = [tab[t] EXCEPT !.left = @ \ {list}, !.got = got]]
    /\ UNCHANGED <<traits, status, inbox>>

ReadRequests(t) ==
    /\ demand' = Swept(demand)
    /\ \E some \in RequestsRead(Swept(demand)) :
          Takes(t, "requests", [tab[t].got EXCEPT !.requests = some])

ReadInvitations(t) ==
    /\ demand' = Swept(demand)
    /\ Takes(t, "invitations",
             [tab[t].got EXCEPT !.invitations = InvitationsRead(Swept(demand))])

ReadProfile(t) ==
    Takes(t, "profile", [tab[t].got EXCEPT !.status = status]) /\ UNCHANGED demand

Show(t) ==
    /\ tab[t].todo = "read" /\ tab[t].left = {}
    /\ inbox' = tab[t].got
    /\ tab' = [tab EXCEPT ![t] = Asleep]
    /\ UNCHANGED <<traits, demand, status>>

\* A load that fails leaves the lists alone, unless it is the page's first.
ReadFails(t) ==
    /\ tab[t].todo = "read"
    /\ tab' = [tab EXCEPT ![t] = Asleep]
    /\ inbox' = IF tab[t].first THEN Empty ELSE inbox
    /\ UNCHANGED <<traits, demand, status>>

\* One flag stops a second proposal, another a second refusal.
Press(t, act) ==
    /\ tab[t].todo = "nothing" /\ inbox # Empty
    /\ IF act = "submit" THEN OffersProposal ELSE OffersDecline
    /\ \A u \in Tabs : tab[u].todo # act
    /\ tab' = [tab EXCEPT ![t].todo = act]
    /\ UNCHANGED <<traits, demand, status, inbox>>

MayPropose(d) == d.request = "OPEN" /\ ~traits.own /\ status # "UNAVAILABLE"

\* submitProposal: refused, it may still close an overdue request.
SubmitProposal(t) ==
    /\ tab[t].todo = "submit"
    /\ IF MayPropose(demand)
       THEN /\ demand' = [demand EXCEPT !.offer = "SUBMITTED",
                                        !.invited = IF @ \in {"SENT", "ACCEPTED"} THEN "ACCEPTED" ELSE @]
            /\ tab' = [tab EXCEPT ![t] = Reading(FALSE)]
       ELSE /\ demand' = IF traits.own \/ status = "UNAVAILABLE" THEN demand ELSE Swept(demand)
            /\ tab' = [tab EXCEPT ![t] = Asleep]
    /\ UNCHANGED <<traits, status, inbox>>

\* declineInvitation: an answered one is left as it is, the accepted refused.
DeclineInvitation(t) ==
    /\ tab[t].todo = "decline"
    /\ demand' = IF demand.invited \in {"ACCEPTED", "DECLINED"} THEN demand
                 ELSE IF demand.invited = "SENT" /\ demand.request = "OPEN"
                 THEN [demand EXCEPT !.invited = "DECLINED"]
                 ELSE [Swept(demand) EXCEPT !.invited = "EXPIRED"]
    /\ tab' = [tab EXCEPT ![t] = IF demand.invited = "ACCEPTED" THEN Asleep ELSE Reading(FALSE)]
    /\ UNCHANGED <<traits, status, inbox>>

-----------------------------------------------------------------------------
(* The customer, the time, and the provider's profile.                      *)

Elsewhere ==
    /\ \/ demand.request = "none"
          /\ demand' = [demand EXCEPT !.request = "OPEN"] /\ UNCHANGED status
       \/ demand.request = "OPEN" /\ demand.invited = "none" /\ demand.offer = "none"
          /\ ~traits.own /\ status # "UNAVAILABLE"
          /\ demand' = [demand EXCEPT !.invited = "SENT"] /\ UNCHANGED status
       \/ demand.request = "OPEN" /\ demand' = [demand EXCEPT !.request = "OVERDUE"] /\ UNCHANGED status
       \/ demand' = Swept(demand) /\ demand' # demand /\ UNCHANGED status
       \/ demand.request = "OPEN"
          /\ \E chosen \in BOOLEAN :
                /\ chosen => demand.offer = "SUBMITTED"
                /\ demand' = [request |-> "CLOSED",
                              invited |-> IF demand.invited = "SENT" THEN "EXPIRED" ELSE demand.invited,
                              offer |-> IF demand.offer = "none" THEN "none"
                                        ELSE IF chosen THEN "SELECTED" ELSE "REJECTED"]
          /\ UNCHANGED status
       \/ \E s \in Statuses \ {status} : status' = s /\ UNCHANGED demand
    /\ UNCHANGED <<traits, inbox, tab>>

InboxInit ==
    /\ traits \in Traits
    /\ demand = [request |-> "none", invited |-> "none", offer |-> "none"]
    /\ status \in Statuses
    /\ inbox = Empty
    /\ tab = [t \in Tabs |-> Asleep]

InboxNext ==
    \/ Elsewhere
    \/ \E t \in Tabs :
          \/ OpenPage(t) \/ Show(t) \/ ReadFails(t) \/ SubmitProposal(t) \/ DeclineInvitation(t)
          \/ ReadRequests(t) \/ ReadInvitations(t) \/ ReadProfile(t)
          \/ \E act \in {"submit", "decline"} : Press(t, act)

InboxSpec == InboxInit /\ [][InboxNext]_inboxVars

-----------------------------------------------------------------------------
\* The lists are read at different moments and a request moves between them while
\* it is invited, answered and closed.  Yet no request that still waits for the
\* provider falls between them: once one of the lists has it, and however old they
\* are, it is offered in the market or among the invitations, and never in both.
\* (A request with eighty newer ones is in the first list no more, and without an
\* invitation in none.)  Nor does the score, which adds points of five kinds, call
\* a request of the market urgent for a provider who is unavailable, whose
\* proposal the API would refuse.
EachRequestIsOffered ==
    /\ ~(InMarket /\ ProposeByInvitation)
    /\ demand.request \in {"OPEN", "OVERDUE"} /\ demand.offer = "none"
       /\ (inbox.requests # {} \/ inbox.invitations # {}) => OffersProposal
    /\ InMarket /\ inbox.status = "UNAVAILABLE" => Priority(inbox.status, FALSE) # "high"
=============================================================================
