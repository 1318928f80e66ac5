----------------------------- MODULE Workspace -----------------------------
(***************************************************************************)
(* The page of a participant's conversations (JobMessagesWorkspace).       *)
(*                                                                         *)
(* What is selected follows the address of the page, which follows the     *)
(* clicks; a selected conversation is loaded, and its loading is given up  *)
(* when another one is selected.  The handlers of the page read the        *)
(* conversation anew when they are done, whatever is selected by then.  An *)
(* effect is taken together with the change that it follows.  Messages are *)
(* left out: Conversations has them.                                       *)
(***************************************************************************)
EXTENDS Naturals, FiniteSets

CONSTANTS
    Chats,       \* the conversations of the participant, one for each job
    NoChat

ASSUME NoChatAssumption == NoChat \notin Chats

VARIABLES
    made,        \* those that exist in the database
    listed,      \* `conversations': those on the page
    selected,    \* `selectedJobId'
    address,     \* `requestedJobId': the one that the address names, ...
    asked,       \* ... and the one that the router was last told to name
    opened,      \* `thread', whose job `financial' always has
    notice,      \* `moderationNotice': the conversation it is about
    load,        \* loadThread for the selected conversation
    late,        \* conversations with a superseded loadThread; of several one is kept
    hand,        \* the handlers: sending, appealing, and those of the panel
    overtaken,   \* since the last load a handler wrote of an unselected one (history)
    failed       \* the last load failed (history)

workspaceVars == <<made, listed, selected, address, asked, opened, notice,
                   load, late, hand, overtaken, failed>>

Nothing == [at |-> "idle", on |-> NoChat, from |-> {}]
Handlers == {"send", "appeal", "panel"}

\* A list is read after it was asked for; conversations are only ever added.
ListsSince(known) == {l \in SUBSET made : known \subseteq l}

-----------------------------------------------------------------------------
(* The effects. *)

\* What is selected when `there' is the address and `now' was selected.
Chosen(list, there, now) ==
    IF there \in list THEN {there} ELSE IF now \in list THEN {now}
    ELSE IF list = {} THEN {NoChat} ELSE list

\* The page has the list and the address, selects `now' and then what the effect
\* chooses.  Each selection begins a load and gives up the one before; `left' is
\* the load that is under way otherwise.
Settle(list, there, now, left) ==
    \E chosen \in Chosen(list, there, now) :
        /\ listed' = list /\ address' = there /\ selected' = chosen
        /\ IF chosen = now /\ now = selected
           THEN load' = left /\ UNCHANGED late
           ELSE /\ load' = [at |-> "thread", on |-> chosen, from |-> {}]
                /\ late' = late \union ({left.on} \ {NoChat})
                                \union (IF now = selected THEN {} ELSE {now} \ {chosen})

-----------------------------------------------------------------------------
(* Loading. *)

\* The page is opened: it asks for the list, and stays empty if that fails.
ListChats ==
    /\ load.at = "list" /\ listed = {}
    /\ \/ made # {} /\ Settle(made, address, NoChat, Nothing)
       \/ load' = Nothing /\ UNCHANGED <<listed, selected, address, late>>
    /\ UNCHANGED <<made, asked, opened, notice, hand, overtaken, failed>>

\* The three answers are there, or one of the requests has failed.
ThreadLoaded ==
    /\ load.at = "thread"
    /\ \/ /\ opened' = load.on /\ notice' = NoChat
          /\ load' = [load EXCEPT !.at = "list", !.from = made]
          /\ overtaken' = FALSE /\ failed' = FALSE
       \/ /\ opened' = NoChat /\ load' = Nothing /\ failed' = TRUE
          /\ UNCHANGED <<notice, overtaken>>
    /\ UNCHANGED <<made, listed, selected, address, asked, late, hand>>

\* The list follows; if that fails the conversation is taken away again.
ListLoaded ==
    /\ load.at = "list" /\ listed # {}
    /\ \/ /\ \E list \in ListsSince(load.from) : Settle(list, address, selected, Nothing)
          /\ UNCHANGED <<opened, failed>>
       \/ /\ opened' = NoChat /\ load' = Nothing /\ failed' = TRUE
          /\ UNCHANGED <<listed, selected, address, late>>
    /\ UNCHANGED <<made, asked, notice, hand, overtaken>>

\* Mutant: the effect does not give up its load.
LateLoadShown(j) ==
    /\ j \in late /\ late' = late \ {j}
    /\ opened' = j /\ notice' = NoChat
    /\ UNCHANGED <<made, listed, selected, address, asked, load, hand, overtaken, failed>>

\* Nothing comes of the answers to a load that was given up.
LateLoad(j) ==
    /\ j \in late /\ late' = late \ {j}
    /\ UNCHANGED <<made, listed, selected, address, asked, opened, notice,
                   load, hand, overtaken, failed>>

-----------------------------------------------------------------------------
(* The participant. *)

\* A click in the list selects at once and changes the address a little later;
\* a link to the page changes the address alone.
Select(j) ==
    /\ j \in listed
    /\ asked' = j /\ Settle(listed, address, j, load)
    /\ UNCHANGED <<made, opened, notice, hand, overtaken, failed>>

FollowLink(j) ==
    /\ j \in made /\ asked' = j
    /\ UNCHANGED <<made, listed, selected, address, opened, notice,
                   load, late, hand, overtaken, failed>>

AddressFollows ==
    /\ address # asked
    /\ IF listed = {} THEN address' = asked /\ UNCHANGED <<listed, selected, load, late>>
       ELSE Settle(listed, asked, selected, load)
    /\ UNCHANGED <<made, asked, opened, notice, hand, overtaken, failed>>

\* The conversation, with its notice, its form and the panel of its job.
IsShown == selected \in listed /\ load = Nothing /\ opened # NoChat

\* A message goes to what is selected; the rest concerns what is shown.
Begin(op) ==
    /\ IsShown /\ hand[op] = Nothing
    /\ hand' = [hand EXCEPT ![op] = [at |-> "post", from |-> {},
                                     on |-> IF op = "send" THEN selected ELSE opened]]
    /\ UNCHANGED <<made, listed, selected, address, asked, opened, notice,
                   load, late, overtaken, failed>>

\* A message is sent or kept back with a notice.
Posted(op) ==
    LET on == hand[op].on
    IN  /\ hand[op].at = "post"
        /\ hand' = [hand EXCEPT ![op].at = "refresh", ![op].from = made]
        /\ IF op # "send" THEN UNCHANGED <<notice, overtaken>>
           ELSE \/ notice' = NoChat /\ UNCHANGED overtaken
                \/ notice' = on /\ overtaken' = (overtaken \/ on # selected)
        /\ UNCHANGED <<made, listed, selected, address, asked, opened, load, late, failed>>

\* refreshSelectedWorkspace, which shows what it reads, whatever is selected.
ReadAnew(op) ==
    LET on == hand[op].on
    IN  /\ hand[op].at = "refresh"
        /\ \E list \in ListsSince(hand[op].from) : Settle(list, address, selected, load)
        /\ hand' = [hand EXCEPT ![op] = Nothing]
        /\ opened' = on
        /\ overtaken' = (overtaken \/ on # selected)
        /\ UNCHANGED <<made, asked, notice, failed>>

\* A request of a handler fails, and leaves the page as it is.
HandFails(op) ==
    /\ hand[op] # Nothing /\ hand' = [hand EXCEPT ![op] = Nothing]
    /\ UNCHANGED <<made, listed, selected, address, asked, opened, notice,
                   load, late, overtaken, failed>>

\* A proposal of the participant's is selected, or the participant selects one.
NewChat(j) ==
    /\ j \notin made /\ made' = made \union {j}
    /\ UNCHANGED <<listed, selected, address, asked, opened, notice,
                   load, late, hand, overtaken, failed>>

WorkspaceInit ==
    /\ made \in SUBSET Chats
    /\ address \in Chats \union {NoChat} /\ asked = address
    /\ listed = {} /\ selected = NoChat /\ opened = NoChat /\ notice = NoChat
    /\ load = [Nothing EXCEPT !.at = "list"] /\ late = {}
    /\ hand = [op \in Handlers |-> Nothing]
    /\ overtaken = FALSE /\ failed = FALSE

WorkspaceNext ==
    \/ ListChats \/ ThreadLoaded \/ ListLoaded \/ AddressFollows
    \/ \E j \in Chats : LateLoad(j) \/ Select(j) \/ FollowLink(j) \/ NewChat(j)
    \/ \E op \in Handlers : Begin(op) \/ Posted(op) \/ ReadAnew(op) \/ HandFails(op)

WorkspaceSpec == WorkspaceInit /\ [][WorkspaceNext]_workspaceVars

-----------------------------------------------------------------------------
\* Clicks, the address, loads and handlers change the page independently.  Still
\* what it shows is the selected conversation, so that a message goes where its
\* author looks, unless a handler wrote of another one since; it is empty only
\* while something is loaded or after a load that failed; and once the address
\* has caught up, it is the address that is selected.
ShownIsSelected ==
    /\ IsShown /\ ~overtaken => /\ opened = selected
                                /\ notice \in {NoChat, selected} \/ failed
    /\ listed # {} /\ load = Nothing /\ opened = NoChat => failed
    /\ address \in listed => selected = address
=============================================================================
