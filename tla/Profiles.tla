------------------------------ MODULE Profiles ------------------------------
(***************************************************************************)
(* The profile of one provider: what the provider writes in it             *)
(* (WorkerProfileService), the categories an administrator keeps           *)
(* (CategoriesService) and the rating that the reviews leave in it         *)
(* (ReviewsService).                                                       *)
(*                                                                         *)
(* `edit[c]' is a request that the API is working on.  A transaction reads *)
(* what is committed (READ COMMITTED), and holds the profile's row from    *)
(* its first write of it to its end.  Of the rating the reviews that it    *)
(* was computed from are kept instead of their average and number; of the  *)
(* profile's texts and numbers nothing is.                                 *)
(***************************************************************************)
EXTENDS Naturals, FiniteSets

CONSTANTS
    Edits,        \* requests in progress
    Reviewable,   \* the provider's jobs
    Labels        \* the categories

VARIABLES
    profile,      \* the row of WorkerProfile, and its rows of WorkerProfileCategory
    completed,    \* the jobs that are completed
    review,       \* the jobs that have a review
    active,       \* the categories with isActive
    edit,
    beside,       \* jobs whose review was aggregated while another one was (history)
    everActive    \* lists of categories that were all active when asked for (history)

profileVars == <<profile, completed, review, active, edit, beside, everActive>>

Availability == {"AVAILABLE_NOW", "LIMITED_THIS_WEEK", "UNAVAILABLE"}

\* What a request may say of the two fields, and "unsaid".
Asks == [isAvailable : {"yes", "no", "unsaid"}, availabilityStatus : Availability \union {"unsaid"}]

NoEdit == [pc |-> "idle"]
Editing(c, pc) == edit[c].pc = pc
Edit(c, step) == edit' = [edit EXCEPT ![c] = step]
Done(c) == Edit(c, NoEdit)

ProfilesInit ==
    /\ profile = [exists |-> FALSE, isAvailable |-> TRUE, availabilityStatus |-> "AVAILABLE_NOW",
                  categories |-> {}, rated |-> {}]
    /\ completed = {} /\ review = {} /\ active = Labels
    /\ edit = [c \in Edits |-> NoEdit]
    /\ beside = {} /\ everActive = {{}}

-----------------------------------------------------------------------------
(* Writing the profile. *)

\* upsertMe: the status decides if it is said, and what is unsaid is defaulted.
Upserted(ask) ==
    LET available == IF ask.availabilityStatus # "unsaid" THEN ask.availabilityStatus # "UNAVAILABLE"
                     ELSE ask.isAvailable # "no"
        status == IF ask.availabilityStatus # "unsaid" THEN ask.availabilityStatus
                  ELSE IF ask.isAvailable = "no" THEN "UNAVAILABLE" ELSE "AVAILABLE_NOW"
    IN  [profile EXCEPT !.exists = TRUE, !.isAvailable = available, !.availabilityStatus = status]

\* updateMe: the flag decides if it is said, and what is unsaid stays.
UpdatedAvailability(ask) ==
    IF ask.isAvailable # "unsaid"
    THEN [profile EXCEPT !.isAvailable = ask.isAvailable = "yes",
                         !.availabilityStatus = IF ask.isAvailable = "yes" THEN "AVAILABLE_NOW"
                                                                           ELSE "UNAVAILABLE"]
    ELSE IF ask.availabilityStatus # "unsaid"
    THEN [profile EXCEPT !.isAvailable = ask.availabilityStatus # "UNAVAILABLE",
                         !.availabilityStatus = ask.availabilityStatus]
    ELSE profile

\* The categories are looked up before the transaction begins; `labels' holds the
\* list of the request, if it has one.
CheckCategories(c, upsert, labels) ==
    /\ Editing(c, "idle")
    /\ upsert \/ profile.exists
    /\ UNION labels \subseteq active
    /\ Edit(c, [pc |-> "hold", upsert |-> upsert, labels |-> labels])
    /\ everActive' = everActive \union labels
    /\ UNCHANGED <<profile, completed, review, active, beside>>

Holding == {c \in Edits : Editing(c, "save")}

\* Mutant: the categories are replaced before the profile is written.
FindCategories(c) ==
    /\ Editing(c, "hold")
    /\ Edit(c, [pc |-> "save", upsert |-> edit[c].upsert, labels |-> edit[c].labels,
                found |-> profile.categories])
    /\ UNCHANGED <<profile, completed, review, active, beside, everActive>>

\* The transaction writes the row, which nobody else can write until it ends, and
\* finds the categories of the profile that it is to replace.
HoldProfile(c) ==
    /\ Editing(c, "hold") /\ Holding = {}
    /\ Edit(c, [pc |-> "save", upsert |-> edit[c].upsert, labels |-> edit[c].labels,
                found |-> profile.categories])
    /\ UNCHANGED <<profile, completed, review, active, beside, everActive>>

\* It replaces them and commits: all it wrote is seen from here on.
SaveProfile(c, ask) ==
    /\ Editing(c, "save")
    /\ LET row == IF edit[c].upsert THEN Upserted(ask) ELSE UpdatedAvailability(ask)
       IN  profile' = IF edit[c].labels = {} THEN row
                         ELSE [row EXCEPT !.categories =
                                  (@ \ edit[c].found) \union UNION edit[c].labels]
    /\ Done(c)
    /\ UNCHANGED <<completed, review, active, beside, everActive>>

\* An administrator takes a category out of use; nothing brings one back.
RemoveCategory(l) ==
    /\ l \in active
    /\ active' = active \ {l}
    /\ UNCHANGED <<profile, completed, review, edit, beside, everActive>>

-----------------------------------------------------------------------------
(* Reviewing a job. *)

Complete(j) ==
    /\ profile.exists /\ j \notin completed
    /\ completed' = completed \union {j}
    /\ UNCHANGED <<profile, review, active, edit, beside, everActive>>

Review(c, j) ==
    /\ Editing(c, "idle")
    /\ j \in completed \ review
    /\ Edit(c, [pc |-> "insert", reviewed |-> j])
    /\ UNCHANGED <<profile, completed, review, active, beside, everActive>>

Aggregating == {c \in Edits : Editing(c, "aggregated")}

\* Mutant: the aggregate was taken before the review was stored.
AggregateOthers(c) ==
    /\ Editing(c, "insert")
    /\ \A d \in Aggregating : edit[d].reviewed # edit[c].reviewed
    /\ IF edit[c].reviewed \in review
       THEN Done(c) /\ UNCHANGED beside
       ELSE /\ Edit(c, [pc |-> "aggregated", reviewed |-> edit[c].reviewed, seen |-> review])
            /\ beside' = beside \union
                   (IF Aggregating = {} THEN {} ELSE {edit[d].reviewed : d \in Aggregating \union {c}})
    /\ UNCHANGED <<profile, completed, review, active, everActive>>

\* The transaction stores the review, where the unique job makes it wait for
\* another review of the same job and fail behind it, and aggregates the reviews
\* that are committed together with its own.
AggregateReviews(c) ==
    /\ Editing(c, "insert")
    /\ \A d \in Aggregating : edit[d].reviewed # edit[c].reviewed
    /\ IF edit[c].reviewed \in review
       THEN Done(c) /\ UNCHANGED beside
       ELSE /\ Edit(c, [pc |-> "aggregated", reviewed |-> edit[c].reviewed,
                        seen |-> review \union {edit[c].reviewed}])
            /\ beside' = beside \union
                   (IF Aggregating = {} THEN {} ELSE {edit[d].reviewed : d \in Aggregating \union {c}})
    /\ UNCHANGED <<profile, completed, review, active, everActive>>

\* The transaction waits for the profile's row, writes the rating and commits.
WriteRating(c) ==
    /\ Editing(c, "aggregated") /\ Holding = {}
    /\ review' = review \union {edit[c].reviewed}
    /\ profile' = [profile EXCEPT !.rated = edit[c].seen]
    /\ Done(c)
    /\ UNCHANGED <<completed, active, beside, everActive>>

\* The process ends, or a query fails, and the transaction is undone.
DropEdit(c) ==
    /\ ~Editing(c, "idle")
    /\ Done(c)
    /\ UNCHANGED <<profile, completed, review, active, beside, everActive>>

ProfilesNext ==
    \/ \E c \in Edits :
        \/ \E upsert \in BOOLEAN, labels \in {{}} \union {{l} : l \in SUBSET Labels} :
              CheckCategories(c, upsert, labels)
        \/ \E ask \in Asks : SaveProfile(c, ask)
        \/ \E j \in Reviewable : Review(c, j)
        \/ HoldProfile(c) \/ AggregateReviews(c) \/ WriteRating(c) \/ DropEdit(c)
    \/ \E l \in Labels : RemoveCategory(l)
    \/ \E j \in Reviewable : Complete(j)

ProfilesSpec == ProfilesInit /\ [][ProfilesNext]_profileVars

-----------------------------------------------------------------------------
(* Properties. *)

\* The profile is of one piece.  The two fields in which it says whether the
\* provider takes work agree, whichever of them a request set and whether it was
\* an upsert or an update (WorkerProfileService.upsertMe and updateMe resolve them
\* separately).  Its categories are one request's list, never a mixture of two
\* that met, and were all active at once when they were asked for (a category
\* taken out of use later stays in the profile).
ProfileAgrees ==
    /\ profile.isAvailable <=> profile.availabilityStatus # "UNAVAILABLE"
    /\ profile.categories \in everActive

\* The rating of the profile counts only reviews that are stored, and misses one
\* only if that one met another review of the provider in the middle
\* (ReviewsService.create aggregates what is committed): a review alone in its
\* transaction is in the rating from then on.
RatingCountsReviews ==
    /\ profile.rated \subseteq review
    /\ review \ profile.rated \subseteq beside
=============================================================================
