-------------------------- MODULE MCAdministration --------------------------
(***************************************************************************)
(* Accounts and what is kept of them: their guards, a provider's profile   *)
(* with its categories and its rating, the cases of support and the        *)
(* tickets of password recovery in the API, and the two consoles of the    *)
(* web application.  They share no state: a behaviour is one of them,      *)
(* chosen at the start, beside the initial states of the others.           *)
(***************************************************************************)
EXTENDS Accounts, Profiles, Desk, Recovery, Consoles, TLC

VARIABLE part

vars == <<accountVars, profileVars, deskVars, recoveryVars, consoleVars, part>>

\* The initial states of a part matter only where it runs.
Init ==
    /\ part \in {"accounts", "profile", "desk", "recovery", "consoles"}
    /\ AccountsInit /\ ProfilesInit /\ DeskInit /\ RecoveryInit /\ ConsolesInit
    /\ part # "accounts" => \A u \in Members : IsAdmin(u)
    /\ part # "consoles" => console = "support" /\ shown = Emptied /\ \A i \in Items : filed[i] = "none"

Next ==
    /\ UNCHANGED part
    /\ \/ /\ part = "accounts" /\ AccountsNext
          /\ UNCHANGED <<profileVars, deskVars, recoveryVars, consoleVars>>
       \/ /\ part = "profile" /\ ProfilesNext
          /\ UNCHANGED <<accountVars, deskVars, recoveryVars, consoleVars>>
       \/ /\ part = "desk" /\ DeskNext
          /\ UNCHANGED <<accountVars, profileVars, recoveryVars, consoleVars>>
       \/ /\ part = "recovery" /\ RecoveryNext
          /\ UNCHANGED <<accountVars, profileVars, deskVars, consoleVars>>
       \/ /\ part = "consoles" /\ ConsolesNext
          /\ UNCHANGED <<accountVars, profileVars, deskVars, recoveryVars>>

Spec == Init /\ [][Next]_vars

\* The parts are given the same model values: two accounts (jobs
\* or categories), two requests (clicks) and two challenges, each pair alike
\* in all of them.
Interchangeable == Permutations(Members) \union Permutations(Works) \union Permutations(Tokens)
=============================================================================
