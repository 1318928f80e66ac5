------------------------------ MODULE MCMarket ------------------------------
(***************************************************************************)
(* Where customers and providers meet: the conversation in the API, and    *)
(* four pages of the web application.  They share no state: a behaviour is *)
(* one of them, chosen at the start, beside the initial states of the      *)
(* others.                                                                 *)
(***************************************************************************)
EXTENDS Conversations, OrderPage, Suggestions, InboxPage, Workspace, TLC

VARIABLE part

vars == <<conversationVars, orderVars, suggestionVars, inboxVars,
          workspaceVars, part>>

\* The initial states of a part matter only where it runs.
Init ==
    /\ part \in {"conversation", "order", "suggestions", "inbox", "workspace"}
    /\ ConversationsInit /\ OrderInit /\ SuggestionsInit /\ InboxInit
    /\ WorkspaceInit
    /\ part # "workspace" => made = {} /\ address = NoChat
    /\ part # "inbox" => traits = CHOOSE t \in Traits : TRUE
    /\ part # "inbox" => status = CHOOSE s \in Statuses : TRUE
    /\ part # "order" => order = NewOrder

\* The bound of the conversation: once there is a message beside two
\* interventions, one request at a time.
InTurnOnceFull ==
    Len(messages') + Len(interventions') > 2 => \E c \in Calls : call'[c].pc = "idle"

Next ==
    /\ UNCHANGED part
    /\ \/ /\ part = "conversation" /\ ConversationsNext /\ InTurnOnceFull
          /\ UNCHANGED <<orderVars, suggestionVars, inboxVars, workspaceVars>>
       \/ /\ part = "order" /\ OrderNext
          /\ UNCHANGED <<conversationVars, suggestionVars, inboxVars, workspaceVars>>
       \/ /\ part = "suggestions" /\ SuggestionsNext
          /\ UNCHANGED <<conversationVars, orderVars, inboxVars, workspaceVars>>
       \/ /\ part = "inbox" /\ InboxNext
          /\ UNCHANGED <<conversationVars, orderVars, suggestionVars, workspaceVars>>
       \/ /\ part = "workspace" /\ WorkspaceNext
          /\ UNCHANGED <<conversationVars, orderVars, suggestionVars, inboxVars>>

Spec == Init /\ [][Next]_vars

\* The parts are given the same model values: two accounts (jobs, providers) and
\* two requests (functions of a page), each pair alike in all of them.
Interchangeable == Permutations(Users) \union Permutations(Calls)

\* A town with a zone, the town alone, and a zone of a neighbouring town.
MCPlaces == {<<<<"maputo">>, <<"centro">>>>, <<<<"maputo">>>>, <<<<"matola", "centro">>>>}
MCRegion == ("maputo" :> "greater") @@ ("matola" :> "greater") @@ ("tete" :> "none")

\* The best request there can be, one's own or not.
MCTraits == [own : BOOLEAN, category : {4}, near : {4}, record : {4}, left : {"day"}]
=============================================================================
