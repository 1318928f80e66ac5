------------------------------ MODULE Accounts ------------------------------
(***************************************************************************)
(* What administrators do to accounts: AdminOpsService behind the guards   *)
(* of the API (JwtStrategy, AccessPolicyGuard), the confirmation of the    *)
(* password that a critical action asks for (ReauthService), the           *)
(* revocation of sessions that follows a change, and the audit log.        *)
(*                                                                         *)
(* `work[c]' is a request that the API is working on; each of its steps is *)
(* one query.  Everybody holds an access token, which outlives sessions,   *)
(* so what keeps a caller out is the account as the guard reads it.  Of an *)
(* account's sessions one stands for all.                                  *)
(***************************************************************************)
EXTENDS Naturals, FiniteSets

CONSTANTS
    Members,      \* accounts
    Works,        \* requests in progress
    Tokens,       \* bound: one-time challenges that can be handed out
    Roles,        \* the roles that occur
    Actions,      \* the critical actions that occur
    Purposes,     \* what a challenge can be asked for: "any" or one action's purpose
    NoMember

ASSUME AccountsAssumption ==
    /\ IsFiniteSet(Works)
    /\ NoMember \notin Members
    /\ "customer" \in Roles /\ Roles \subseteq {"customer", "support_admin", "ops_admin", "super_admin"}
    /\ Actions \subseteq {"role", "suspend", "reactivate", "delete", "setting"}

VARIABLES
    account,      \* the rows of User
    session,      \* whether a session of the account is alive; "outdated": alive
                  \* although the role was changed or the account suspended since,
                  \* "leftover": likewise, where requests met or broke off
    challenge,    \* the rows of ReauthChallenge
    work,
    unlogged,     \* per member: changes made that are not in the audit log (history)
    crossed       \* an administrator was removed while a request of theirs ran (history)

accountVars == <<account, session, challenge, work, unlogged, crossed>>

AdminRoles == Roles \ {"customer"}
IsAdmin(u) == account[u].exists /\ account[u].active /\ account[u].role \in AdminRoles

\* The critical actions and the permission that each asks for.
Permission == [role       |-> "admin.roles.manage",   suspend |-> "admin.users.manage",
               reactivate |-> "admin.users.manage",   delete  |-> "admin.users.manage",
               setting    |-> "admin.settings.manage"]

rolePermissions ==
    [customer      |-> {},
     support_admin |-> {"admin.users.manage"},
     ops_admin     |-> {"admin.settings.manage"},
     super_admin   |-> {"admin.users.manage", "admin.settings.manage", "admin.roles.manage"}]

\* The purpose with which the challenge of an action must have been asked for,
\* if it was asked for with one: suspending and reactivating share theirs.
Purpose(op) == IF op = "reactivate" THEN "suspend" ELSE op

NotAsked == [user |-> NoMember, state |-> "none", purpose |-> "any", uses |-> 0, met |-> FALSE]
Resting == [pc |-> "idle"]

AccountsInit ==
    /\ account \in [Members -> [exists : {TRUE}, active : {TRUE}, role : Roles]]
    /\ \E u \in Members : IsAdmin(u)
    /\ session = [u \in Members |-> "none"]
    /\ challenge = [k \in Tokens |-> NotAsked]
    /\ work = [c \in Works |-> Resting]
    /\ unlogged = [u \in Members |-> 0]
    /\ crossed = FALSE

Doing(c, pc) == work[c].pc = pc
Do(c, step) == work' = [work EXCEPT ![c] = step]
Move(c, pc) == Do(c, [work[c] EXCEPT !.pc = pc])
Finish(c) == Do(c, Resting)

-----------------------------------------------------------------------------
(* Logging in, and confirming the password. *)

\* login does not look at isActive: a suspended member gets a session as well.
ReadForLogin(c, u) ==
    /\ Doing(c, "idle") /\ account[u].exists
    /\ Do(c, [pc |-> "login", target |-> u, outdated |-> FALSE])
    /\ UNCHANGED <<account, session, challenge, unlogged, crossed>>

OpenSession(c) ==
    /\ Doing(c, "login")
    /\ LET u == work[c].target
       IN  session' = IF ~account[u].exists THEN session
                         ELSE [session EXCEPT ![u] = IF work[c].outdated THEN "leftover" ELSE "live"]
    /\ Finish(c)
    /\ UNCHANGED <<account, challenge, unlogged, crossed>>

OpenOf(u) == {k \in Tokens : challenge[k].user = u /\ challenge[k].state = "open"}

\* The two statements of the transaction: the first takes the challenges that
\* are open when it runs, the second adds the new one.
ReadForConfirm(c, u, purpose) ==
    /\ Doing(c, "idle") /\ account[u].exists /\ account[u].active
    /\ Do(c, [pc |-> "confirm", target |-> u, purpose |-> purpose, open |-> OpenOf(u)])
    /\ UNCHANGED <<account, session, challenge, unlogged, crossed>>

\* The new challenge; `met': another one was confirmed beside it.
Asked(c) ==
    [user |-> work[c].target, state |-> "open", purpose |-> work[c].purpose, uses |-> 0,
     met |-> OpenOf(work[c].target) \ work[c].open # {}]

ConfirmByPassword(c) ==
    /\ Doing(c, "confirm") /\ account[work[c].target].exists
    /\ \E k \in Tokens :
        /\ challenge[k].state = "none"
        /\ challenge' = [n \in Tokens |->
               IF n = k THEN Asked(c)
               ELSE IF n \in work[c].open THEN [challenge[n] EXCEPT !.state = "consumed"]
               ELSE challenge[n]]
    /\ Finish(c)
    /\ UNCHANGED <<account, session, unlogged, crossed>>

\* Refused like a consumed one.
ChallengeExpires(k) ==
    /\ challenge[k].state = "open"
    /\ challenge' = [challenge EXCEPT ![k].state = "consumed"]
    /\ UNCHANGED <<account, session, work, unlogged, crossed>>

-----------------------------------------------------------------------------
(* The guards of a critical action. *)

\* JwtStrategy.validate reads the account anew, so that a suspension and a change
\* of role reach requests that are made with older tokens.
\* A token that is not the caller's gets no further than this.  `role' is the
\* one to be given; the other actions have none.
Admit(c, u, op, target, role, k) ==
    /\ Doing(c, "idle")
    /\ challenge[k].user = u
    /\ op # "role" => role = "customer"
    /\ account[u].exists /\ account[u].active
    /\ Permission[op] \in rolePermissions[account[u].role]
    /\ Do(c, [pc |-> "challenge", actor |-> u, op |-> op, target |-> target,
              role |-> role, token |-> k])
    /\ UNCHANGED <<account, session, challenge, unlogged, crossed>>

\* Mutant: nothing looks at consumedAt.
ReadUsedChallenge(c) ==
    /\ Doing(c, "challenge")
    /\ LET held == challenge[work[c].token]
       IN  IF /\ held.user = work[c].actor
              /\ held.purpose \in {"any", Purpose(work[c].op)}
           THEN Move(c, "consume") ELSE Finish(c)
    /\ UNCHANGED <<account, session, challenge, unlogged, crossed>>

\* consumeChallenge reads, and consumes what it has read by its id; it fails when
\* the account, and with it the challenge, has been deleted in between.
ReadChallenge(c) ==
    /\ Doing(c, "challenge")
    /\ LET held == challenge[work[c].token]
       IN  IF /\ held.user = work[c].actor /\ held.state = "open"
              /\ held.purpose \in {"any", Purpose(work[c].op)}
           THEN Move(c, "consume") ELSE Finish(c)
    /\ UNCHANGED <<account, session, challenge, unlogged, crossed>>

ConsumeChallenge(c) ==
    /\ Doing(c, "consume") /\ account[work[c].actor].exists
    /\ LET k == work[c].token
           beside == \E d \in Works \ {c} : Doing(d, "consume") /\ work[d].token = k
       IN  challenge' = [challenge EXCEPT ![k].state = "consumed", ![k].uses = @ + 1,
                                          ![k].met = @ \/ beside]
    /\ Move(c, "read")
    /\ UNCHANGED <<account, session, unlogged, crossed>>

-----------------------------------------------------------------------------
(* The critical actions: read, refuse, write, revoke, log. *)

\* What nobody may do to their own account.
RefusedToSelf(op, role) == op \in {"suspend", "delete"} \/ (op = "role" /\ role = "customer")

PreviousRole(w) == IF w.op = "role" THEN account[w.target].role ELSE w.role

\* Mutant: only the role of one's own account is protected.
ReadTargetUnguarded(c) ==
    /\ Doing(c, "read")
    /\ LET w == work[c]
       IN  IF \/ w.op = "setting"
              \/ /\ account[w.target].exists
                 /\ ~(w.target = w.actor /\ w.op = "role" /\ w.role = "customer")
           THEN Do(c, [pc |-> "write", actor |-> w.actor, op |-> w.op, target |-> w.target,
                       role |-> w.role, previous |-> PreviousRole(w)])
           ELSE Finish(c)
    /\ UNCHANGED <<account, session, challenge, unlogged, crossed>>

ReadTarget(c) ==
    /\ Doing(c, "read")
    /\ LET w == work[c]
       IN  IF \/ w.op = "setting"
              \/ /\ account[w.target].exists
                 /\ ~(w.target = w.actor /\ RefusedToSelf(w.op, w.role))
           THEN Do(c, [pc |-> "write", actor |-> w.actor, op |-> w.op, target |-> w.target,
                       role |-> w.role, previous |-> PreviousRole(w)])
           ELSE Finish(c)
    /\ UNCHANGED <<account, session, challenge, unlogged, crossed>>

Written(row, w) ==
    CASE w.op = "role"       -> [row EXCEPT !.role = w.role]
      [] w.op = "suspend"    -> [row EXCEPT !.active = FALSE]
      [] w.op = "reactivate" -> [row EXCEPT !.active = TRUE]
      [] w.op = "delete"     -> [row EXCEPT !.exists = FALSE]
      [] w.op = "setting"    -> row

\* Mutant: only a suspension ends sessions.
RevokesOnSuspend(w) == w.op = "suspend"

\* Whether the sessions are revoked: judged by the role that was read first.
Revokes(w) == w.op = "suspend" \/ (w.op = "role" /\ w.role # w.previous)

\* Sessions that the change makes outdated, and requests that it overtakes.
Outdates(w) == w.op = "suspend" \/ (w.op = "role" /\ w.role # account[w.target].role)

ActsFor(d, u) == "actor" \in DOMAIN work[d] /\ work[d].actor = u

WriteTarget(c) ==
    /\ Doing(c, "write")
    /\ LET w == work[c]
           u == w.target
           gone == ~account[u].exists /\ w.op # "setting"
       IN  IF gone
           THEN Finish(c) /\ UNCHANGED <<account, session, challenge, unlogged, crossed>>
           ELSE /\ account' = [account EXCEPT ![u] = Written(@, w)]
                /\ session' = [session EXCEPT ![u] =
                       IF w.op = "delete" THEN "none"
                       ELSE IF Outdates(w) /\ @ = "live"
                       THEN IF w.op = "suspend" \/ w.previous = account[u].role THEN "outdated" ELSE "leftover"
                       ELSE @]
                /\ challenge' = [k \in Tokens |->
                       IF w.op = "delete" /\ challenge[k].user = u
                       THEN [challenge[k] EXCEPT !.state = "consumed"] ELSE challenge[k]]
                /\ unlogged' = [unlogged EXCEPT ![w.actor] = @ + 1]
                /\ work' = [d \in Works |->
                       IF d = c THEN [pc |-> IF Revokes(w) THEN "revoke" ELSE "audit",
                                      actor |-> w.actor, target |-> u]
                       ELSE IF Doing(d, "login") /\ work[d].target = u /\ Outdates(w)
                       THEN [work[d] EXCEPT !.outdated = TRUE]
                       ELSE work[d]]
                /\ crossed' = (crossed \/
                       /\ w.op \in {"role", "suspend", "delete"}
                       /\ \E d \in Works \ {c} : ActsFor(d, u))

RevokeSessions(c) ==
    /\ Doing(c, "revoke")
    /\ session' = [session EXCEPT ![work[c].target] = "none"]
    /\ Move(c, "audit")
    /\ UNCHANGED <<account, challenge, unlogged, crossed>>

\* The entry refers to the actor, and one that cannot be stored is forgotten.
LogAdminAction(c) ==
    /\ Doing(c, "audit")
    /\ unlogged' = IF account[work[c].actor].exists
                   THEN [unlogged EXCEPT ![work[c].actor] = @ - 1] ELSE unlogged
    /\ Finish(c)
    /\ UNCHANGED <<account, session, challenge, crossed>>

\* The process ends, or a query fails: what was written stays, sessions that
\* were to be revoked are left over, and no entry says what was done.
BreakOff(c) ==
    /\ ~Doing(c, "idle")
    /\ Finish(c)
    /\ session' = [u \in Members |->
           IF Doing(c, "revoke") /\ work[c].target = u /\ session[u] = "outdated"
           THEN "leftover" ELSE session[u]]
    /\ unlogged' = [u \in Members |->
           IF work[c].pc \in {"revoke", "audit"} /\ work[c].actor = u
           THEN unlogged[u] - 1 ELSE unlogged[u]]
    /\ UNCHANGED <<account, challenge, crossed>>

AccountsNext ==
    \/ \E c \in Works :
        \/ \E u \in Members :
            \/ ReadForLogin(c, u)
            \/ \E purpose \in Purposes : ReadForConfirm(c, u, purpose)
            \/ \E op \in Actions, target \in Members, role \in Roles, k \in Tokens :
                Admit(c, u, op, target, role, k)
        \/ OpenSession(c) \/ ConfirmByPassword(c)
        \/ ReadChallenge(c) \/ ConsumeChallenge(c)
        \/ ReadTarget(c) \/ WriteTarget(c) \/ RevokeSessions(c) \/ LogAdminAction(c)
        \/ BreakOff(c)
    \/ \E k \in Tokens : ChallengeExpires(k)

AccountsSpec == AccountsInit /\ [][AccountsNext]_accountVars

-----------------------------------------------------------------------------
(* Properties. *)

\* Every challenge lets one action through (docs/security-model.md: a one-use
\* token).  The code does not keep to it: consumeChallenge reads the row and
\* consumes it later by id, so two requests that carry one challenge may both
\* have read it as open.
ChallengeUsedOnce == \A k \in Tokens : challenge[k].uses =< 1

\* What holds all the same.  Once a challenge has been consumed, by an action or by
\* a later confirmation of the password, no request that reads it then is let
\* through: a second use takes a request that was at consumeChallenge with the
\* same challenge at the same time, and two challenges of a member stay open only
\* where two confirmations ran side by side.
SpentIsRefused ==
    /\ \A k \in Tokens : challenge[k].uses > 1 => challenge[k].met
    /\ \A k, n \in Tokens :
          k # n /\ challenge[k].user = challenge[n].user
                /\ challenge[k].state = "open" /\ challenge[n].state = "open"
              => challenge[k].met \/ challenge[n].met

\* The guards that keep administrators from their own accounts keep the platform
\* from being left without any, unless an administrator was removed while a
\* request of theirs had already been admitted.
SomeAdminRemains == crossed \/ \E u \in Members : IsAdmin(u)

\* A change is followed up.  A session outlives a suspension or a change of role
\* only until it is revoked by the request that made the change; what is left
\* over beyond that comes of a request that broke off, went by a role that
\* another had changed meanwhile, or was a login that had read the account
\* before.  And every change is in the audit log once its request is over, unless
\* it broke off, or its actor was deleted while it was under way.
ChangesAreFollowedUp ==
    \A u \in Members :
        /\ session[u] = "outdated" =>
              \E c \in Works : Doing(c, "revoke") /\ work[c].target = u
        /\ account[u].exists =>
              unlogged[u] = Cardinality({c \in Works :
                  work[c].pc \in {"revoke", "audit"} /\ work[c].actor = u})
=============================================================================
