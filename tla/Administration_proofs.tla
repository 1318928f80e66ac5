------------------------ MODULE Administration_proofs ------------------------
(***************************************************************************)
(* What the parts of MCAdministration keep, for any number of accounts,    *)
(* requests, challenges, jobs, cases, tickets and clicks: the guards       *)
(* against acting on oneself and one-time challenges (Accounts), the       *)
(* provider's profile (Profiles), the cases of support (Desk), the tickets *)
(* of password recovery (Recovery) and the consoles (Consoles).            *)
(***************************************************************************)
EXTENDS Accounts, Profiles, Desk, Recovery, Consoles,
        SequenceTheorems, FiniteSetTheorems, TLAPS

-----------------------------------------------------------------------------
(* Accounts. *)

USE AccountsAssumption

Accts == [exists : BOOLEAN, active : BOOLEAN, role : Roles]

Challenges == [user : Members \union {NoMember}, state : {"none", "open", "consumed"},
               purpose : Purposes \union {"any"}, uses : Nat, met : BOOLEAN]

\* A request before and after it has read its target.
Guarded == {"challenge", "consume", "read"}
Admissions == [pc : Guarded, actor : Members, op : Actions, target : Members,
               role : Roles, token : Tokens]
Writes == [pc : {"write"}, actor : Members, op : Actions, target : Members,
           role : Roles, previous : Roles]

\* What a request has in hand, by its place.
WorkFits(w) ==
    /\ w.pc \in {"idle", "login", "confirm", "write", "revoke", "audit"} \union Guarded
    /\ w.pc = "login" => w \in [pc : {"login"}, target : Members, outdated : BOOLEAN]
    /\ w.pc = "confirm" => w \in [pc : {"confirm"}, target : Members, purpose : Purposes,
                                  open : SUBSET Tokens]
    /\ w.pc \in Guarded => w \in Admissions
    /\ w.pc = "write" => w \in Writes
    /\ w.pc \in {"revoke", "audit"} => w \in [pc : {"revoke", "audit"}, actor : Members,
                                              target : Members]

\* Whoever has been admitted is an administrator, or was until removed meanwhile.
ByAdmin(w) == w.pc \in Guarded \union {"write"} => crossed \/ IsAdmin(w.actor)

NotToSelf(w) == w.pc = "write" => ~(w.target = w.actor /\ RefusedToSelf(w.op, w.role))

\* A challenge about to be consumed has let nothing through, unless requests met.
Fresh(w) == w.pc = "consume" => challenge[w.token].uses = 0 \/ challenge[w.token].met

Hand(w) == WorkFits(w) /\ ByAdmin(w) /\ NotToSelf(w) /\ Fresh(w)

Typed ==
    /\ account \in [Members -> Accts]
    /\ challenge \in [Tokens -> Challenges]
    /\ crossed \in BOOLEAN
    /\ DOMAIN work = Works

OpenIsUnused == \A k \in Tokens : challenge[k].state = "open" => challenge[k].uses = 0

WorksInHand == \A c \in Works : Hand(work[c])

AccountInv == Typed /\ OpenIsUnused /\ WorksInHand /\ SpentIsRefused /\ SomeAdminRemains

-----------------------------------------------------------------------------
LEMMA AccountsInitInv == AccountsInit => AccountInv
  <1> SUFFICES ASSUME AccountsInit PROVE AccountInv
    OBVIOUS
  <1>1. Typed
    BY DEF AccountsInit, Typed, Accts, Challenges, NotAsked
  <1>2. OpenIsUnused /\ SpentIsRefused
    BY DEF AccountsInit, OpenIsUnused, SpentIsRefused, NotAsked
  <1>3. WorksInHand
    BY DEF AccountsInit, WorksInHand, Hand, WorkFits, ByAdmin, NotToSelf, Fresh, Resting, Guarded
  <1>4. SomeAdminRemains
    BY DEF AccountsInit, SomeAdminRemains
  <1> QED BY <1>1, <1>2, <1>3, <1>4 DEF AccountInv

\* A request goes from one place to another while accounts and challenges stay.
LEMMA MoveOn ==
    ASSUME AccountInv, NEW c \in Works, NEW step, Do(c, step), Hand(step),
           UNCHANGED <<account, challenge, crossed>>
    PROVE  AccountInv'
  <1>1. /\ DOMAIN work' = Works /\ work'[c] = step
        /\ \A d \in Works : d # c => work'[d] = work[d]
    BY DEF AccountInv, Typed, Do
  <1>2. Typed' /\ OpenIsUnused' /\ SpentIsRefused' /\ SomeAdminRemains'
    BY <1>1 DEF AccountInv, Typed, OpenIsUnused, SpentIsRefused, SomeAdminRemains, IsAdmin
  <1>3. ASSUME NEW d \in Works PROVE Hand(work[d])'
    <2>1. Hand(work'[d])
      BY <1>1 DEF AccountInv, WorksInHand
    <2> QED BY <2>1 DEF Hand, WorkFits, ByAdmin, NotToSelf, Fresh, IsAdmin
  <1> QED BY <1>2, <1>3 DEF AccountInv, WorksInHand

LEMMA RestingFits == Hand(Resting)
  BY DEF Hand, WorkFits, ByAdmin, NotToSelf, Fresh, Resting, Guarded

LEMMA ToResting ==
    ASSUME AccountInv, NEW c \in Works, Finish(c), UNCHANGED <<account, challenge, crossed>>
    PROVE  AccountInv'
  BY RestingFits, MoveOn DEF Finish

-----------------------------------------------------------------------------
(* Steps that change neither accounts nor challenges. *)

LEMMA EnterInv ==
    ASSUME AccountInv, NEW c \in Works, NEW u \in Members,
           \/ ReadForLogin(c, u)
           \/ \E purpose \in Purposes : ReadForConfirm(c, u, purpose)
    PROVE  AccountInv'
  <1>1. CASE ReadForLogin(c, u)
    <2>1. Hand([pc |-> "login", target |-> u, outdated |-> FALSE])
      BY DEF Hand, WorkFits, ByAdmin, NotToSelf, Fresh, Guarded
    <2> QED BY <1>1, <2>1, MoveOn DEF ReadForLogin
  <1>2. CASE \E purpose \in Purposes : ReadForConfirm(c, u, purpose)
    <2>1. PICK purpose \in Purposes, open \in SUBSET Tokens :
            /\ Do(c, [pc |-> "confirm", target |-> u, purpose |-> purpose, open |-> open])
            /\ UNCHANGED <<account, challenge, crossed>>
      <3>1. OpenOf(u) \in SUBSET Tokens
        BY DEF OpenOf
      <3> QED BY <1>2, <3>1 DEF ReadForConfirm
    <2>2. Hand([pc |-> "confirm", target |-> u, purpose |-> purpose, open |-> open])
      BY <2>1 DEF Hand, WorkFits, ByAdmin, NotToSelf, Fresh, Guarded
    <2> QED BY <2>1, <2>2, MoveOn
  <1> QED BY <1>1, <1>2

\* The guard admits administrators only: customers have no permission.
LEMMA AdmitInv ==
    ASSUME AccountInv, NEW c \in Works, NEW u \in Members, NEW op \in Actions,
           NEW target \in Members, NEW role \in Roles, NEW k \in Tokens,
           Admit(c, u, op, target, role, k)
    PROVE  AccountInv'
  <1>1. PICK step : step = [pc |-> "challenge", actor |-> u, op |-> op, target |-> target,
                            role |-> role, token |-> k]
    OBVIOUS
  <1>2. account[u].role \in Roles /\ account[u].role # "customer"
    BY DEF Admit, AccountInv, Typed, Accts, rolePermissions
  <1>3. IsAdmin(u)
    BY <1>2 DEF Admit, IsAdmin, AdminRoles
  <1>4. Hand(step)
    BY <1>1, <1>3 DEF Hand, WorkFits, ByAdmin, NotToSelf, Fresh, Guarded, Admissions
  <1> QED BY <1>1, <1>4, MoveOn DEF Admit

\* An open challenge has let nothing through.
LEMMA ReadChallengeInv ==
    ASSUME AccountInv, NEW c \in Works, ReadChallenge(c)
    PROVE  AccountInv'
  <1>1. PICK step : step = [work[c] EXCEPT !.pc = "consume"]
    OBVIOUS
  <1>2. Hand(work[c]) /\ work[c].pc = "challenge"
    BY DEF ReadChallenge, Doing, AccountInv, WorksInHand
  <1>3. work[c] \in Admissions
    BY <1>2 DEF Hand, WorkFits, Guarded
  <1>4. /\ step \in Admissions /\ step.pc = "consume"
        /\ step.actor = work[c].actor /\ step.token = work[c].token
    BY <1>1, <1>3 DEF Admissions, Guarded
  <1>5. CASE Finish(c)
    BY <1>5, ToResting DEF ReadChallenge
  <1>6. CASE Move(c, "consume") /\ challenge[work[c].token].state = "open"
    <2>1. WorkFits(step) /\ NotToSelf(step)
      BY <1>4 DEF WorkFits, NotToSelf, Guarded
    <2>2. ByAdmin(step)
      BY <1>2, <1>4 DEF Hand, ByAdmin, Guarded
    <2>3. Fresh(step)
      BY <1>3, <1>4, <1>6 DEF Fresh, AccountInv, OpenIsUnused, Admissions
    <2> QED BY <1>1, <1>6, <2>1, <2>2, <2>3, MoveOn DEF Hand, Move, ReadChallenge
  <1> QED BY <1>5, <1>6 DEF ReadChallenge

LEMMA ReadTargetInv ==
    ASSUME AccountInv, NEW c \in Works, ReadTarget(c)
    PROVE  AccountInv'
  <1>w. PICK w : w = work[c]
    OBVIOUS
  <1>1. PICK step : step = [pc |-> "write", actor |-> w.actor, op |-> w.op, target |-> w.target,
                            role |-> w.role, previous |-> PreviousRole(w)]
    OBVIOUS
  <1>2. Hand(w) /\ w.pc = "read" /\ w \in Admissions
    BY <1>w DEF ReadTarget, Doing, AccountInv, WorksInHand, Hand, WorkFits, Guarded
  <1>3. CASE Finish(c)
    BY <1>3, ToResting DEF ReadTarget
  <1>4. CASE /\ Do(c, step)
             /\ w.op = "setting" \/ ~(w.target = w.actor /\ RefusedToSelf(w.op, w.role))
    <2>1. PreviousRole(w) \in Roles
      BY <1>2 DEF PreviousRole, Admissions, AccountInv, Typed, Accts
    <2>2. WorkFits(step) /\ Fresh(step)
      BY <1>1, <1>2, <2>1 DEF WorkFits, Fresh, Guarded, Admissions, Writes
    <2>3. ByAdmin(step)
      BY <1>1, <1>2 DEF Hand, ByAdmin, Guarded
    <2>4. NotToSelf(step)
      BY <1>1, <1>4 DEF NotToSelf, RefusedToSelf
    <2> QED BY <1>4, <2>2, <2>3, <2>4, MoveOn DEF Hand, ReadTarget
  <1> QED BY <1>w, <1>1, <1>3, <1>4 DEF ReadTarget

LEMMA TailInv ==
    ASSUME AccountInv, NEW c \in Works,
           OpenSession(c) \/ RevokeSessions(c) \/ LogAdminAction(c) \/ BreakOff(c)
    PROVE  AccountInv'
  <1>1. CASE OpenSession(c) \/ LogAdminAction(c) \/ BreakOff(c)
    BY <1>1, ToResting DEF OpenSession, LogAdminAction, BreakOff
  <1>2. CASE RevokeSessions(c)
    <2>1. PICK step : step = [work[c] EXCEPT !.pc = "audit"]
      OBVIOUS
    <2>2. Hand(step)
      BY <1>2, <2>1 DEF RevokeSessions, Doing, AccountInv, WorksInHand, Hand, WorkFits, ByAdmin, NotToSelf,
                        Fresh, Guarded
    <2> QED BY <1>2, <2>1, <2>2, MoveOn DEF RevokeSessions, Move
  <1> QED BY <1>1, <1>2
-----------------------------------------------------------------------------
(* Challenges are handed out, expire and are consumed. *)

\* What a change of challenges owes to the requests that it leaves alone.
LEMMA ChallengesChange ==
    ASSUME AccountInv, UNCHANGED <<account, crossed>>,
           challenge' \in [Tokens -> Challenges], OpenIsUnused', SpentIsRefused',
           DOMAIN work' = Works,
           NEW Rest \in SUBSET Works,
           \A d \in Rest : work'[d] = work[d] /\ Fresh(work[d])',
           \A d \in Works \ Rest : Hand(work[d])'
    PROVE  AccountInv'
  <1>1. Typed' /\ SomeAdminRemains'
    BY DEF AccountInv, Typed, SomeAdminRemains, IsAdmin
  <1>2. ASSUME NEW d \in Works PROVE Hand(work[d])'
    <2>1. CASE d \in Rest
      <3>1. Hand(work[d])
        BY DEF AccountInv, WorksInHand
      <3> QED BY <2>1, <3>1 DEF Hand, WorkFits, ByAdmin, NotToSelf, Fresh, IsAdmin
    <2>2. CASE d \notin Rest
      BY <2>2
    <2> QED BY <2>1, <2>2
  <1> QED BY <1>1, <1>2 DEF AccountInv, WorksInHand

\* The new challenge knows whether another of its owner is left open others it.
LEMMA ConfirmInv ==
    ASSUME AccountInv, NEW c \in Works, ConfirmByPassword(c)
    PROVE  AccountInv'
  <1>w. PICK w : w = work[c]
    OBVIOUS
  <1>a. PICK new : new = Asked(c)
    OBVIOUS
  <1>1. PICK k \in Tokens :
          /\ challenge[k].state = "none"
          /\ challenge' = [n \in Tokens |->
                 IF n = k THEN new
                 ELSE IF n \in w.open THEN [challenge[n] EXCEPT !.state = "consumed"]
                 ELSE challenge[n]]
    BY <1>w, <1>a DEF ConfirmByPassword
  <1>2. /\ w.target \in Members /\ w.purpose \in Purposes
    BY <1>w DEF ConfirmByPassword, Doing, AccountInv, WorksInHand, Hand, WorkFits
  <1>3. /\ new \in Challenges /\ new.uses = 0 /\ new.user = w.target
        /\ new.met = (OpenOf(w.target) \ w.open # {})
    BY <1>w, <1>a, <1>2 DEF Asked, Challenges
  <1>4. ASSUME NEW n \in Tokens, n # k
        PROVE  /\ challenge'[n] \in Challenges
               /\ challenge'[n].user = challenge[n].user /\ challenge'[n].met = challenge[n].met
               /\ challenge'[n].uses = challenge[n].uses
               /\ challenge'[n].state = "open" => challenge[n].state = "open" /\ n \notin w.open
    BY <1>1, <1>4 DEF AccountInv, Typed, Challenges
  <1>5. challenge'[k] = new
    BY <1>1
  <1>6. challenge' \in [Tokens -> Challenges]
    BY <1>1, <1>3, <1>4, <1>5
  <1>7. OpenIsUnused'
    BY <1>3, <1>4, <1>5 DEF AccountInv, OpenIsUnused
  <1>8. SpentIsRefused'
    <2>1. ASSUME NEW n \in Tokens PROVE challenge'[n].uses > 1 => challenge'[n].met
      BY <1>3, <1>4, <1>5 DEF AccountInv, SpentIsRefused
    <2>2. ASSUME NEW n \in Tokens, n # k, challenge'[n].user = new.user,
                 challenge'[n].state = "open"
          PROVE  new.met
      BY <1>3, <1>4, <2>2 DEF OpenOf
    <2>3. ASSUME NEW m \in Tokens, NEW n \in Tokens, m # n,
                 challenge'[m].user = challenge'[n].user,
                 challenge'[m].state = "open", challenge'[n].state = "open"
          PROVE  challenge'[m].met \/ challenge'[n].met
      <3>1. CASE m = k
        BY <1>5, <2>2, <2>3, <3>1
      <3>2. CASE n = k
        BY <1>5, <2>2, <2>3, <3>2
      <3>3. CASE m # k /\ n # k
        BY <1>4, <2>3, <3>3 DEF AccountInv, SpentIsRefused
      <3> QED BY <3>1, <3>2, <3>3
    <2> QED BY <2>1, <2>3 DEF SpentIsRefused
  <1>9. /\ DOMAIN work' = Works /\ work'[c] = Resting
        /\ \A d \in Works \ {c} : work'[d] = work[d]
    BY DEF ConfirmByPassword, Finish, Do, AccountInv, Typed
  <1>10. \A d \in Works \ {c} : Fresh(work[d])'
    <2> SUFFICES ASSUME NEW d \in Works \ {c} PROVE Fresh(work[d])'
      OBVIOUS
    <2>1. WorkFits(work[d]) /\ Fresh(work[d])
      BY DEF AccountInv, WorksInHand, Hand
    <2> QED BY <1>3, <1>4, <1>5, <1>9, <2>1 DEF WorkFits, Fresh, Guarded, Admissions
  <1>11. Hand(work[c])'
    BY <1>9 DEF Hand, WorkFits, ByAdmin, NotToSelf, Fresh, Resting, Guarded
  <1>12. UNCHANGED <<account, crossed>>
    BY DEF ConfirmByPassword
  <1> QED BY <1>6, <1>7, <1>8, <1>9, <1>10, <1>11, <1>12, ChallengesChange

LEMMA ExpireInv ==
    ASSUME AccountInv, NEW k \in Tokens, ChallengeExpires(k)
    PROVE  AccountInv'
  <1>1. ASSUME NEW n \in Tokens
        PROVE  /\ challenge'[n] \in Challenges
               /\ challenge'[n].user = challenge[n].user /\ challenge'[n].met = challenge[n].met
               /\ challenge'[n].uses = challenge[n].uses
               /\ challenge'[n].state = "open" => challenge[n].state = "open"
    BY DEF ChallengeExpires, AccountInv, Typed, Challenges
  <1>2. challenge' \in [Tokens -> Challenges]
    BY <1>1 DEF ChallengeExpires, AccountInv, Typed
  <1>3. OpenIsUnused' /\ SpentIsRefused'
    BY <1>1 DEF AccountInv, OpenIsUnused, SpentIsRefused
  <1>4. UNCHANGED <<account, crossed, work>>
    BY DEF ChallengeExpires
  <1>5. \A d \in Works : Fresh(work[d])'
    <2> SUFFICES ASSUME NEW d \in Works PROVE Fresh(work[d])'
      OBVIOUS
    <2>1. WorkFits(work[d]) /\ Fresh(work[d])
      BY DEF AccountInv, WorksInHand, Hand
    <2> QED BY <1>1, <1>4, <2>1 DEF WorkFits, Fresh, Guarded, Admissions
  <1>6. DOMAIN work' = Works
    BY <1>4 DEF AccountInv, Typed
  <1> QED BY <1>2, <1>3, <1>4, <1>5, <1>6, ChallengesChange

\* A second use needs a second request that had read the challenge before.
LEMMA ConsumeInv ==
    ASSUME AccountInv, NEW c \in Works, ConsumeChallenge(c)
    PROVE  AccountInv'
  <1>w. PICK w : w = work[c]
    OBVIOUS
  <1>k. PICK k : k = w.token
    OBVIOUS
  <1>b. PICK others \in BOOLEAN :
          others = \E d \in Works \ {c} : Doing(d, "consume") /\ work[d].token = k
    OBVIOUS
  <1>1. /\ Hand(w) /\ w.pc = "consume" /\ w \in Admissions /\ k \in Tokens
    BY <1>w, <1>k DEF ConsumeChallenge, Doing, AccountInv, WorksInHand, Hand, WorkFits, Guarded, Admissions
  <1>2. challenge' = [challenge EXCEPT ![k].state = "consumed", ![k].uses = @ + 1,
                                       ![k].met = @ \/ others]
    BY <1>w, <1>k, <1>b DEF ConsumeChallenge
  <1>3. /\ challenge[k] \in Challenges
        /\ challenge'[k] = [challenge[k] EXCEPT !.state = "consumed", !.uses = @ + 1,
                                                !.met = @ \/ others]
        /\ \A n \in Tokens : n # k => challenge'[n] = challenge[n]
    BY <1>1, <1>2 DEF AccountInv, Typed
  <1>4. /\ challenge'[k] \in Challenges
        /\ challenge'[k].state = "consumed" /\ challenge'[k].uses = challenge[k].uses + 1
        /\ challenge'[k].met = (challenge[k].met \/ others)
    <2>1. /\ challenge'[k].state = "consumed" /\ challenge'[k].uses = challenge[k].uses + 1
          /\ challenge'[k].user = challenge[k].user
          /\ challenge'[k].purpose = challenge[k].purpose
          /\ challenge'[k].met = (challenge[k].met \/ others)
      BY <1>3 DEF Challenges
    <2>2. challenge'[k].uses \in Nat /\ challenge'[k].met \in BOOLEAN
      BY <1>3, <2>1 DEF Challenges
    <2> QED BY <1>3, <2>1, <2>2 DEF Challenges
  <1>5. challenge' \in [Tokens -> Challenges]
    BY <1>1, <1>2, <1>4 DEF AccountInv, Typed
  <1>6. OpenIsUnused'
    BY <1>3, <1>4 DEF AccountInv, OpenIsUnused
  <1>7. SpentIsRefused'
    <2>1. challenge[k].uses = 0 \/ challenge[k].met
      BY <1>1, <1>k DEF Hand, Fresh
    <2>2. challenge'[k].uses > 1 => challenge'[k].met
      <3>1. challenge'[k].uses > 1 => challenge[k].uses # 0
        BY <1>4
      <3> QED BY <1>4, <2>1, <3>1
    <2> QED BY <1>3, <1>4, <2>2 DEF AccountInv, SpentIsRefused
  <1>8. PICK step : step = [w EXCEPT !.pc = "read"]
    OBVIOUS
  <1>9. /\ DOMAIN work' = Works /\ work'[c] = step
        /\ \A d \in Works \ {c} : work'[d] = work[d]
    BY <1>w, <1>8 DEF ConsumeChallenge, Move, Do, AccountInv, Typed
  <1>10. \A d \in Works \ {c} : Fresh(work[d])'
    <2> SUFFICES ASSUME NEW d \in Works \ {c}, work[d].pc = "consume"
                 PROVE  challenge'[work[d].token].uses = 0 \/ challenge'[work[d].token].met
      BY <1>9 DEF Fresh
    <2>1. CASE work[d].token = k
      BY <1>4, <1>b, <2>1 DEF Doing
    <2>2. CASE work[d].token # k
      <3>1. WorkFits(work[d]) /\ Fresh(work[d])
        BY DEF AccountInv, WorksInHand, Hand
      <3> QED BY <1>3, <2>2, <3>1 DEF WorkFits, Fresh, Guarded, Admissions
    <2> QED BY <2>1, <2>2
  <1>11. UNCHANGED <<account, crossed>>
    BY DEF ConsumeChallenge
  <1>12. Hand(work[c])'
    <2>1. step \in Admissions /\ step.pc = "read" /\ step.actor = w.actor
      BY <1>1, <1>8 DEF Admissions, Guarded
    <2>2. WorkFits(step) /\ NotToSelf(step) /\ Fresh(step)'
      BY <2>1 DEF WorkFits, NotToSelf, Fresh, Guarded
    <2>3. ByAdmin(step)'
      BY <1>1, <1>11, <2>1 DEF Hand, ByAdmin, Guarded, IsAdmin
    <2> QED BY <1>9, <2>2, <2>3 DEF Hand, WorkFits, NotToSelf
  <1> QED BY <1>5, <1>6, <1>7, <1>9, <1>10, <1>11, <1>12, ChallengesChange
-----------------------------------------------------------------------------
(* The change of an account. *)

\* Only a demotion to customer, a suspension or a deletion makes an administrator
\* one no more.
LEMMA WrittenAccount ==
    ASSUME NEW row \in Accts, NEW w \in Writes
    PROVE  /\ Written(row, w) \in Accts
           /\ row.exists /\ row.active /\ row.role # "customer"
              /\ w.op \notin {"suspend", "delete"}
              /\ ~(w.op = "role" /\ w.role = "customer")
              => /\ Written(row, w).exists /\ Written(row, w).active
                 /\ Written(row, w).role # "customer"
  <1>1. CASE w.op = "role"
    BY <1>1 DEF Written, Writes, Accts
  <1>2. CASE w.op = "suspend"
    BY <1>2 DEF Written, Writes, Accts
  <1>3. CASE w.op = "reactivate"
    BY <1>3 DEF Written, Writes, Accts
  <1>4. CASE w.op = "delete"
    BY <1>4 DEF Written, Writes, Accts
  <1>5. CASE w.op = "setting"
    BY <1>5 DEF Written, Writes, Accts
  <1> QED BY <1>1, <1>2, <1>3, <1>4, <1>5 DEF Writes

\* Whoever makes a change is still an administrator after it, and so are the
\* callers of the other requests, unless the change removed one of them.
LEMMA WriteInv ==
    ASSUME AccountInv, NEW c \in Works, WriteTarget(c)
    PROVE  AccountInv'
  <1>w. PICK w : w = work[c]
    OBVIOUS
  <1>u. PICK u : u = w.target
    OBVIOUS
  <1>1. /\ w.pc = "write" /\ w \in Writes /\ u \in Members /\ w.actor \in Members
        /\ ByAdmin(w) /\ NotToSelf(w)
    BY <1>w, <1>u DEF WriteTarget, Doing, AccountInv, WorksInHand, Hand, WorkFits, Writes
  <1>2. CASE ~account[u].exists /\ w.op # "setting"
    BY <1>w, <1>u, <1>2, ToResting DEF WriteTarget
  <1>3. CASE ~(~account[u].exists /\ w.op # "setting")
    <2> DEFINE removes == w.op \in {"role", "suspend", "delete"}
               outdates == Outdates(w)
    <2>1. /\ account' = [account EXCEPT ![u] = Written(@, w)]
          /\ challenge' = [k \in Tokens |->
                 IF w.op = "delete" /\ challenge[k].user = u
                 THEN [challenge[k] EXCEPT !.state = "consumed"] ELSE challenge[k]]
          /\ crossed' = (crossed \/ /\ removes
                                    /\ \E d \in Works \ {c} : ActsFor(d, u))
          /\ work' = [d \in Works |->
                 IF d = c THEN [pc |-> IF Revokes(w) THEN "revoke" ELSE "audit",
                                actor |-> w.actor, target |-> u]
                 ELSE IF Doing(d, "login") /\ work[d].target = u /\ outdates
                 THEN [work[d] EXCEPT !.outdated = TRUE]
                 ELSE work[d]]
      BY <1>w, <1>u, <1>3 DEF WriteTarget
    <2>2. /\ account' \in [Members -> Accts] /\ account'[u] = Written(account[u], w)
          /\ \A n \in Members : n # u => account'[n] = account[n]
      BY <1>1, <2>1, WrittenAccount DEF AccountInv, Typed
    <2>3. ASSUME NEW n \in Members, IsAdmin(n),
                 n # u \/ (/\ w.op \notin {"suspend", "delete"}
                           /\ ~(w.op = "role" /\ w.role = "customer"))
          PROVE  IsAdmin(n)'
      <3>1. CASE n # u
        BY <2>2, <2>3, <3>1 DEF IsAdmin
      <3>2. CASE n = u
        <4>1. account[u] \in Accts /\ account'[u] \in Accts
          BY <1>1, <2>2 DEF AccountInv, Typed
        <4> QED BY <1>1, <2>2, <2>3, <3>2, <4>1, WrittenAccount DEF IsAdmin, AdminRoles, Accts
      <3> QED BY <3>1, <3>2
    <2>4. ASSUME NEW k \in Tokens
          PROVE  /\ challenge'[k] \in Challenges
                 /\ challenge'[k].user = challenge[k].user
                 /\ challenge'[k].uses = challenge[k].uses
                 /\ challenge'[k].met = challenge[k].met
                 /\ challenge'[k].state = "open" => challenge[k].state = "open"
      BY <2>1 DEF AccountInv, Typed, Challenges
    <2>5. OpenIsUnused' /\ SpentIsRefused'
      BY <2>4 DEF AccountInv, OpenIsUnused, SpentIsRefused
    <2>6. crossed' \in BOOLEAN /\ (crossed => crossed')
      BY <2>1 DEF AccountInv, Typed
    <2>7. Typed'
      BY <2>1, <2>2, <2>4, <2>6 DEF Typed
    <2>8. crossed' \/ IsAdmin(w.actor)'
      <3>1. crossed \/ IsAdmin(w.actor)
        BY <1>1 DEF ByAdmin
      <3>2. w.actor # u \/ (/\ w.op \notin {"suspend", "delete"}
                            /\ ~(w.op = "role" /\ w.role = "customer"))
        BY <1>1, <1>u DEF NotToSelf, RefusedToSelf
      <3> QED BY <1>1, <2>3, <2>6, <3>1, <3>2
    <2>9. SomeAdminRemains'
      BY <1>1, <2>8 DEF SomeAdminRemains
    <2>10. Hand(work[c])'
      <3>1. work'[c] \in [pc : {"revoke", "audit"}, actor : Members, target : Members]
        BY <1>1, <2>1
      <3> QED BY <3>1 DEF Hand, WorkFits, ByAdmin, NotToSelf, Fresh, Guarded
    <2>11. ASSUME NEW d \in Works \ {c} PROVE Hand(work[d])'
      <3>1. Hand(work[d])
        BY DEF AccountInv, WorksInHand
      <3>2. CASE work[d].pc = "login"
        <4>1. work'[d] \in [pc : {"login"}, target : Members, outdated : BOOLEAN]
          BY <2>1, <3>1, <3>2 DEF Hand, WorkFits
        <4> QED BY <4>1 DEF Hand, WorkFits, ByAdmin, NotToSelf, Fresh, Guarded
      <3>3. CASE work[d].pc # "login"
        <4>1. work'[d] = work[d]
          BY <2>1, <3>3 DEF Doing
        <4>2. WorkFits(work[d])' /\ NotToSelf(work[d])'
          BY <3>1, <4>1 DEF Hand, WorkFits, NotToSelf
        <4>3. Fresh(work[d])'
          BY <2>4, <3>1, <4>1 DEF Hand, WorkFits, Fresh, Guarded, Admissions
        <4>4. ByAdmin(work[d])'
          <5> SUFFICES ASSUME work[d].pc \in Guarded \union {"write"}
                       PROVE  crossed' \/ IsAdmin(work[d].actor)'
            BY <4>1 DEF ByAdmin
          <5>1. /\ work[d].actor \in Members /\ "actor" \in DOMAIN work[d]
                /\ crossed \/ IsAdmin(work[d].actor)
            BY <3>1 DEF Hand, WorkFits, ByAdmin, Guarded, Admissions, Writes
          <5>2. CASE work[d].actor = u /\ removes
            BY <2>1, <5>1, <5>2 DEF ActsFor
          <5>3. CASE ~(work[d].actor = u /\ removes)
            <6> PICK a \in Members : a = work[d].actor
              BY <5>1
            <6>1. crossed' \/ IsAdmin(a)'
              BY <2>3, <2>6, <5>1, <5>3
            <6> QED BY <4>1, <6>1 DEF IsAdmin
          <5> QED BY <5>2, <5>3
        <4> QED BY <4>2, <4>3, <4>4 DEF Hand
      <3> QED BY <3>2, <3>3
    <2> QED BY <2>5, <2>7, <2>9, <2>10, <2>11 DEF AccountInv, WorksInHand
  <1> QED BY <1>2, <1>3

-----------------------------------------------------------------------------
LEMMA AccountsStep == AccountInv /\ [AccountsNext]_accountVars => AccountInv'
  <1> SUFFICES ASSUME AccountInv, [AccountsNext]_accountVars PROVE AccountInv'
    OBVIOUS
  <1>1. ASSUME NEW c \in Works, NEW u \in Members,
               \/ ReadForLogin(c, u)
               \/ \E purpose \in Purposes : ReadForConfirm(c, u, purpose)
        PROVE  AccountInv'
    BY <1>1, EnterInv
  <1>2. ASSUME NEW c \in Works, NEW u \in Members, NEW op \in Actions, NEW target \in Members,
               NEW role \in Roles, NEW k \in Tokens, Admit(c, u, op, target, role, k)
        PROVE  AccountInv'
    BY <1>2, AdmitInv
  <1>3. ASSUME NEW c \in Works, OpenSession(c) \/ RevokeSessions(c) \/ LogAdminAction(c)
                                \/ BreakOff(c)
        PROVE  AccountInv'
    BY <1>3, TailInv
  <1>4. ASSUME NEW c \in Works, ConfirmByPassword(c) PROVE AccountInv'
    BY <1>4, ConfirmInv
  <1>5. ASSUME NEW c \in Works, ReadChallenge(c) PROVE AccountInv'
    BY <1>5, ReadChallengeInv
  <1>6. ASSUME NEW c \in Works, ConsumeChallenge(c) PROVE AccountInv'
    BY <1>6, ConsumeInv
  <1>7. ASSUME NEW c \in Works, ReadTarget(c) PROVE AccountInv'
    BY <1>7, ReadTargetInv
  <1>8. ASSUME NEW c \in Works, WriteTarget(c) PROVE AccountInv'
    BY <1>8, WriteInv
  <1>9. ASSUME NEW k \in Tokens, ChallengeExpires(k) PROVE AccountInv'
    BY <1>9, ExpireInv
  <1>10. CASE UNCHANGED accountVars
    BY <1>10 DEF accountVars, AccountInv, Typed, OpenIsUnused, WorksInHand, Hand, WorkFits, ByAdmin, NotToSelf,
                 Fresh, SpentIsRefused, SomeAdminRemains, IsAdmin
  <1> QED BY <1>1, <1>2, <1>3, <1>4, <1>5, <1>6, <1>7, <1>8, <1>9, <1>10 DEF AccountsNext

\* Whoever has been admitted to a critical action stays an administrator until
\* another removes them, and an open challenge has let nothing through.
THEOREM AccountsInvariant == AccountsSpec => []AccountInv
  BY AccountsInitInv, AccountsStep, PTL DEF AccountsSpec

\* consumeChallenge reads and writes apart, so a second action needs a second
\* request that had read the challenge before; and only confirmations that
\* overlap leave an account with two open challenges.
THEOREM SpentChallengesAreRefused == AccountsSpec => []SpentIsRefused
  <1>1. AccountInv => SpentIsRefused
    BY DEF AccountInv
  <1> QED BY <1>1, AccountsInvariant, PTL

\* No series of demotions, suspensions and deletions leaves the platform without
\* an administrator, unless one of them removed somebody whose own request had
\* been admitted: AdminOpsService counts no administrators, it refuses what one
\* would do to oneself.
THEOREM PlatformKeepsAdmin == AccountsSpec => []SomeAdminRemains
  <1>1. AccountInv => SomeAdminRemains
    BY DEF AccountInv
  <1> QED BY <1>1, AccountsInvariant, PTL
-----------------------------------------------------------------------------
(* What follows a change. *)

\* The requests of a member that have written and are not over.
Following(u) == {c \in Works : work[c].pc \in {"revoke", "audit"} /\ work[c].actor = u}

FollowTyped ==
    /\ session \in [Members -> {"none", "live", "outdated", "leftover"}]
    /\ unlogged \in [Members -> Int]

IndFollow == AccountInv /\ FollowTyped /\ ChangesAreFollowedUp

LEMMA FollowingFinite == \A u : IsFiniteSet(Following(u)) /\ Cardinality(Following(u)) \in Nat
  <1> SUFFICES ASSUME NEW u
               PROVE  IsFiniteSet(Following(u)) /\ Cardinality(Following(u)) \in Nat
    OBVIOUS
  <1>1. Following(u) \subseteq Works
    BY DEF Following
  <1> QED BY <1>1, FS_Subset, FS_CardinalityType

LEMMA FollowedUp ==
    ChangesAreFollowedUp <=>
        \A u \in Members :
            /\ session[u] = "outdated" => \E c \in Works : Doing(c, "revoke") /\ work[c].target = u
            /\ account[u].exists => unlogged[u] = Cardinality(Following(u))
  BY DEF ChangesAreFollowedUp, Following

LEMMA FollowedUpNext ==
    ASSUME \A u \in Members :
               /\ session'[u] = "outdated" =>
                      \E c \in Works : work'[c].pc = "revoke" /\ work'[c].target = u
               /\ account'[u].exists => unlogged'[u] = Cardinality(Following(u)')
    PROVE  ChangesAreFollowedUp'
  BY DEF ChangesAreFollowedUp, Following, Doing

LEMMA InitFollow == AccountsInit => FollowTyped /\ ChangesAreFollowedUp
  <1> SUFFICES ASSUME AccountsInit PROVE FollowTyped /\ ChangesAreFollowedUp
    OBVIOUS
  <1>1. \A u : Following(u) = {}
    BY DEF AccountsInit, Following, Resting
  <1> QED BY <1>1, FollowedUp, FS_EmptySet DEF AccountsInit, FollowTyped

\* A request that has not written goes on without writing.
LEMMA BeforeWrite ==
    ASSUME IndFollow, NEW c \in Works, NEW step, Do(c, step),
           work[c].pc \notin {"revoke", "audit"}, step.pc \notin {"revoke", "audit"},
           UNCHANGED <<account, unlogged>>, FollowTyped',
           \A u \in Members : session'[u] = "outdated" => session[u] = "outdated"
    PROVE  ChangesAreFollowedUp'
  <1>1. /\ \A d \in Works \ {c} : work'[d] = work[d]
        /\ work'[c] = step
    BY DEF IndFollow, AccountInv, Typed, Do
  <1>2. \A u \in Members : Following(u)' = Following(u)
    BY <1>1 DEF Following
  <1>3. \A u \in Members : session'[u] = "outdated" =>
            \E d \in Works : work'[d].pc = "revoke" /\ work'[d].target = u
    <2> SUFFICES ASSUME NEW u \in Members, session'[u] = "outdated"
                 PROVE  \E d \in Works : work'[d].pc = "revoke" /\ work'[d].target = u
      OBVIOUS
    <2>1. PICK d \in Works : work[d].pc = "revoke" /\ work[d].target = u
      BY FollowedUp DEF IndFollow, Doing
    <2>2. work'[d] = work[d]
      BY <1>1, <2>1
    <2> QED BY <2>1, <2>2
  <1>4. \A u \in Members : account'[u].exists => unlogged'[u] = Cardinality(Following(u)')
    BY <1>2, FollowedUp DEF IndFollow
  <1> QED BY <1>3, <1>4, FollowedUpNext

LEMMA WriteFollow ==
    ASSUME IndFollow, NEW c \in Works, WriteTarget(c)
    PROVE  FollowTyped' /\ ChangesAreFollowedUp'
  <1>w. PICK w : w = work[c]
    OBVIOUS
  <1>u. PICK u : u = w.target
    OBVIOUS
  <1>1. /\ w.pc = "write" /\ w \in Writes /\ u \in Members /\ w.actor \in Members
    BY <1>w, <1>u DEF WriteTarget, Doing, IndFollow, AccountInv, WorksInHand, Hand, WorkFits, Writes
  <1>2. CASE Finish(c) /\ UNCHANGED <<account, session, unlogged>>
    <2>1. FollowTyped'
      BY <1>2 DEF IndFollow, FollowTyped
    <2> QED BY <1>w, <1>1, <1>2, <2>1, BeforeWrite DEF Finish, Resting
  <1>3. CASE ~(~account[u].exists /\ w.op # "setting")
    <2> DEFINE outdates == Outdates(w)
    <2>1. /\ account' = [account EXCEPT ![u] = Written(@, w)]
          /\ session' = [session EXCEPT ![u] =
                 IF w.op = "delete" THEN "none"
                 ELSE IF outdates /\ @ = "live"
                 THEN IF w.op = "suspend" \/ w.previous = account[u].role THEN "outdated" ELSE "leftover"
                 ELSE @]
          /\ unlogged' = [unlogged EXCEPT ![w.actor] = @ + 1]
          /\ work' = [d \in Works |->
                 IF d = c THEN [pc |-> IF Revokes(w) THEN "revoke" ELSE "audit",
                                actor |-> w.actor, target |-> u]
                 ELSE IF Doing(d, "login") /\ work[d].target = u /\ outdates
                 THEN [work[d] EXCEPT !.outdated = TRUE]
                 ELSE work[d]]
      BY <1>w, <1>u, <1>3 DEF WriteTarget
    <2>2. FollowTyped'
      BY <1>1, <2>1 DEF IndFollow, FollowTyped
    <2>3. ASSUME NEW d \in Works \ {c}
          PROVE  /\ work'[d].pc \in {"revoke", "audit"} <=> work[d].pc \in {"revoke", "audit"}
                 /\ work[d].pc \in {"revoke", "audit"} => work'[d] = work[d]
      <3>1. CASE work[d].pc = "login"
        <4>1. WorkFits(work[d])
          BY DEF IndFollow, AccountInv, WorksInHand, Hand
        <4> QED BY <2>1, <3>1, <4>1 DEF WorkFits
      <3>2. CASE work[d].pc # "login"
        BY <2>1, <3>2 DEF Doing
      <3> QED BY <3>1, <3>2
    <2>4. /\ work'[c].actor = w.actor /\ work'[c].target = u
          /\ work'[c].pc = IF Revokes(w) THEN "revoke" ELSE "audit"
      BY <2>1
    <2>5. \A n \in Members :
              Following(n)' = IF n = w.actor THEN Following(n) \union {c} ELSE Following(n)
      <3>1. w.pc \notin {"revoke", "audit"}
        BY <1>1
      <3> QED BY <1>w, <2>3, <2>4, <3>1 DEF Following
    <2>6. c \notin Following(w.actor)
      BY <1>w, <1>1 DEF Following
    <2>7. ASSUME NEW n \in Members, session'[n] = "outdated"
          PROVE  \E d \in Works : work'[d].pc = "revoke" /\ work'[d].target = n
      <3>1. CASE session[n] = "outdated"
        <4>1. PICK d \in Works : work[d].pc = "revoke" /\ work[d].target = n
          BY <3>1, FollowedUp DEF IndFollow, Doing
        <4> QED BY <1>w, <1>1, <2>3, <4>1
      <3>2. CASE session[n] # "outdated"
        <4>1. n = u /\ outdates /\ (w.op = "suspend" \/ w.previous = account[u].role)
          BY <2>1, <2>7, <3>2 DEF IndFollow, FollowTyped
        <4>2. Revokes(w)
          BY <1>u, <4>1 DEF Outdates, Revokes
        <4> QED BY <2>4, <4>1, <4>2
      <3> QED BY <3>1, <3>2
    <2>8. ASSUME NEW n \in Members, account'[n].exists
          PROVE  unlogged'[n] = Cardinality(Following(n)')
      <3>1. account[n].exists
        <4>1. CASE n = u
          <5>1. account[u] \in Accts /\ account'[u] = Written(account[u], w)
            BY <1>1, <2>1 DEF IndFollow, AccountInv, Typed
          <5> QED BY <1>1, <2>8, <4>1, <5>1 DEF Written, Writes, Accts
        <4>2. CASE n # u
          BY <2>1, <2>8, <4>2 DEF IndFollow, AccountInv, Typed
        <4> QED BY <4>1, <4>2
      <3>2. unlogged[n] = Cardinality(Following(n))
        BY <3>1, FollowedUp DEF IndFollow
      <3>3. CASE n = w.actor
        <4>1. Cardinality(Following(n) \union {c}) = Cardinality(Following(n)) + 1
          BY <2>6, <3>3, FollowingFinite, FS_AddElement
        <4> QED BY <2>1, <2>5, <3>2, <3>3, <4>1 DEF IndFollow, FollowTyped
      <3>4. CASE n # w.actor
        BY <2>1, <2>5, <3>2, <3>4 DEF IndFollow, FollowTyped
      <3> QED BY <3>3, <3>4
    <2> QED BY <2>2, <2>7, <2>8, FollowedUpNext
  <1> QED BY <1>w, <1>u, <1>2, <1>3 DEF WriteTarget

\* The sessions go, and the request still has its entry to write.
LEMMA RevokeFollow ==
    ASSUME IndFollow, NEW c \in Works, RevokeSessions(c)
    PROVE  FollowTyped' /\ ChangesAreFollowedUp'
  <1>w. PICK w : w = work[c]
    OBVIOUS
  <1>1. w.pc = "revoke" /\ w \in [pc : {"revoke", "audit"}, actor : Members, target : Members]
    BY <1>w DEF RevokeSessions, Doing, IndFollow, AccountInv, WorksInHand, Hand, WorkFits
  <1>2. /\ session' = [session EXCEPT ![w.target] = "none"]
        /\ work' = [work EXCEPT ![c] = [w EXCEPT !.pc = "audit"]]
        /\ UNCHANGED <<account, unlogged>>
    BY <1>w DEF RevokeSessions, Move, Do
  <1>3. /\ \A d \in Works \ {c} : work'[d] = work[d]
        /\ work'[c].pc = "audit" /\ work'[c].actor = w.actor
    BY <1>1, <1>2 DEF IndFollow, AccountInv, Typed
  <1>4. \A n \in Members : Following(n)' = Following(n)
    BY <1>w, <1>1, <1>3 DEF Following
  <1>5. FollowTyped'
    BY <1>2 DEF IndFollow, FollowTyped
  <1>6. ASSUME NEW n \in Members, session'[n] = "outdated"
        PROVE  \E d \in Works : work'[d].pc = "revoke" /\ work'[d].target = n
    <2>1. n # w.target /\ session[n] = "outdated"
      BY <1>1, <1>2, <1>6 DEF IndFollow, FollowTyped
    <2>2. PICK d \in Works : work[d].pc = "revoke" /\ work[d].target = n
      BY <2>1, FollowedUp DEF IndFollow, Doing
    <2> QED BY <1>w, <1>3, <2>1, <2>2
  <1>7. \A n \in Members : account'[n].exists => unlogged'[n] = Cardinality(Following(n)')
    BY <1>2, <1>4, FollowedUp DEF IndFollow
  <1> QED BY <1>5, <1>6, <1>7, FollowedUpNext

\* A request is over: its entry is written, or lost with the request.
LEMMA OverFollow ==
    ASSUME IndFollow, NEW c \in Works, Finish(c), work[c].pc \in {"revoke", "audit"},
           account' = account, FollowTyped',
           \A n \in Members : session'[n] = "outdated" =>
               session[n] = "outdated" /\ (work[c].pc = "revoke" => work[c].target # n),
           \A n \in Members : account[n].exists =>
               unlogged'[n] = IF work[c].actor = n THEN unlogged[n] - 1 ELSE unlogged[n]
    PROVE  ChangesAreFollowedUp'
  <1>1. /\ \A d \in Works \ {c} : work'[d] = work[d]
        /\ work'[c].pc = "idle"
    BY DEF Finish, Do, Resting, IndFollow, AccountInv, Typed
  <1>2. \A n \in Members : Following(n)' = Following(n) \ {c}
    BY <1>1 DEF Following
  <1>3. ASSUME NEW n \in Members, session'[n] = "outdated"
        PROVE  \E d \in Works : work'[d].pc = "revoke" /\ work'[d].target = n
    <2>1. PICK d \in Works : work[d].pc = "revoke" /\ work[d].target = n
      BY <1>3, FollowedUp DEF IndFollow, Doing
    <2>2. d # c
      BY <1>3, <2>1
    <2> QED BY <1>1, <2>1, <2>2
  <1>4. ASSUME NEW n \in Members, account'[n].exists
        PROVE  unlogged'[n] = Cardinality(Following(n)')
    <2>1. unlogged[n] = Cardinality(Following(n))
      BY <1>4, FollowedUp DEF IndFollow
    <2>2. c \in Following(n) <=> work[c].actor = n
      BY DEF Following
    <2>3. Cardinality(Following(n) \ {c}) =
              IF c \in Following(n) THEN Cardinality(Following(n)) - 1 ELSE Cardinality(Following(n))
      BY FollowingFinite, FS_RemoveElement
    <2> QED BY <1>2, <1>4, <2>1, <2>2, <2>3
  <1> QED BY <1>3, <1>4, FollowedUpNext

LEMMA LogFollow ==
    ASSUME IndFollow, NEW c \in Works, LogAdminAction(c)
    PROVE  FollowTyped' /\ ChangesAreFollowedUp'
  <1>1. work[c].pc = "audit" /\ work[c].actor \in Members
    BY DEF LogAdminAction, Doing, IndFollow, AccountInv, WorksInHand, Hand, WorkFits
  <1>2. /\ UNCHANGED <<account, session>> /\ Finish(c)
        /\ unlogged' = IF account[work[c].actor].exists
                       THEN [unlogged EXCEPT ![work[c].actor] = @ - 1] ELSE unlogged
    BY DEF LogAdminAction
  <1>3. FollowTyped'
    BY <1>1, <1>2 DEF IndFollow, FollowTyped
  <1>4. \A n \in Members : account[n].exists =>
            unlogged'[n] = IF work[c].actor = n THEN unlogged[n] - 1 ELSE unlogged[n]
    BY <1>1, <1>2 DEF IndFollow, FollowTyped
  <1> QED BY <1>1, <1>2, <1>3, <1>4, OverFollow

\* What breaks off before it has revoked leaves sessions over.
LEMMA BreakFollow ==
    ASSUME IndFollow, NEW c \in Works, BreakOff(c)
    PROVE  FollowTyped' /\ ChangesAreFollowedUp'
  <1>1. /\ UNCHANGED account /\ Finish(c)
        /\ session' = [u \in Members |->
               IF Doing(c, "revoke") /\ work[c].target = u /\ session[u] = "outdated"
               THEN "leftover" ELSE session[u]]
        /\ unlogged' = [u \in Members |->
               IF work[c].pc \in {"revoke", "audit"} /\ work[c].actor = u
               THEN unlogged[u] - 1 ELSE unlogged[u]]
    BY DEF BreakOff
  <1>2. FollowTyped'
    BY <1>1 DEF IndFollow, FollowTyped
  <1>3. CASE work[c].pc \in {"revoke", "audit"}
    <2>1. \A n \in Members : session'[n] = "outdated" =>
              session[n] = "outdated" /\ (work[c].pc = "revoke" => work[c].target # n)
      BY <1>1 DEF Doing
    <2>2. \A n \in Members : account[n].exists =>
              unlogged'[n] = IF work[c].actor = n THEN unlogged[n] - 1 ELSE unlogged[n]
      BY <1>1, <1>3
    <2> QED BY <1>1, <1>2, <1>3, <2>1, <2>2, OverFollow
  <1>4. CASE work[c].pc \notin {"revoke", "audit"}
    <2>1. UNCHANGED <<session, unlogged>>
      BY <1>1, <1>4 DEF Doing, IndFollow, FollowTyped
    <2> QED BY <1>1, <1>2, <1>4, <2>1, BeforeWrite DEF Finish, Resting
  <1> QED BY <1>2, <1>3, <1>4

\* The steps before the change; a login opens a session that is live or left over.
LEMMA QuietFollow ==
    ASSUME IndFollow, NEW c \in Works,
           \/ \E u \in Members :
               \/ ReadForLogin(c, u)
               \/ \E purpose \in Purposes : ReadForConfirm(c, u, purpose)
               \/ \E op \in Actions, target \in Members, role \in Roles, k \in Tokens :
                   Admit(c, u, op, target, role, k)
           \/ OpenSession(c) \/ ConfirmByPassword(c)
           \/ ReadChallenge(c) \/ ConsumeChallenge(c) \/ ReadTarget(c)
    PROVE  FollowTyped' /\ ChangesAreFollowedUp'
  <1>1. /\ UNCHANGED <<account, unlogged>>
        /\ work[c].pc \notin {"revoke", "audit"}
    BY DEF ReadForLogin, ReadForConfirm, Admit, OpenSession, ConfirmByPassword, ReadChallenge,
           ConsumeChallenge, ReadTarget, Doing
  <1>2. PICK step : Do(c, step) /\ step.pc \notin {"revoke", "audit"}
    <2>1. Resting.pc \notin {"revoke", "audit"}
      BY DEF Resting
    <2>2. CASE \/ OpenSession(c) \/ ConfirmByPassword(c) \/ ReadTarget(c)
      BY <2>1, <2>2 DEF OpenSession, ConfirmByPassword, ReadTarget, Finish
    <2>3. CASE \E u \in Members :
               \/ ReadForLogin(c, u)
               \/ \E purpose \in Purposes : ReadForConfirm(c, u, purpose)
               \/ \E op \in Actions, target \in Members, role \in Roles, k \in Tokens :
                   Admit(c, u, op, target, role, k)
      <3>1. PICK u \in Members :
               \/ ReadForLogin(c, u)
               \/ \E purpose \in Purposes : ReadForConfirm(c, u, purpose)
               \/ \E op \in Actions, target \in Members, role \in Roles, k \in Tokens :
                   Admit(c, u, op, target, role, k)
        BY <2>3
      <3>2. CASE ReadForLogin(c, u)
        <4>1. [pc |-> "login", target |-> u, outdated |-> FALSE].pc = "login"
          OBVIOUS
        <4> QED BY <3>2, <4>1 DEF ReadForLogin
      <3>3. CASE \E purpose \in Purposes : ReadForConfirm(c, u, purpose)
        <4>1. PICK purpose \in Purposes : ReadForConfirm(c, u, purpose)
          BY <3>3
        <4>2. [pc |-> "confirm", target |-> u, purpose |-> purpose, open |-> OpenOf(u)].pc = "confirm"
          OBVIOUS
        <4> QED BY <4>1, <4>2 DEF ReadForConfirm
      <3>4. CASE \E op \in Actions, target \in Members, role \in Roles, k \in Tokens :
                   Admit(c, u, op, target, role, k)
        <4>1. PICK op \in Actions, target \in Members, role \in Roles, k \in Tokens :
                   Admit(c, u, op, target, role, k)
          BY <3>4
        <4>2. [pc |-> "challenge", actor |-> u, op |-> op, target |-> target,
               role |-> role, token |-> k].pc = "challenge"
          OBVIOUS
        <4> QED BY <4>1, <4>2 DEF Admit
      <3> QED BY <3>1, <3>2, <3>3, <3>4
    <2>4. CASE ReadChallenge(c) \/ ConsumeChallenge(c)
      <3>1. work[c] \in Admissions
        BY <2>4 DEF ReadChallenge, ConsumeChallenge, Doing, IndFollow, AccountInv, WorksInHand, Hand, WorkFits,
                    Guarded
      <3>2. /\ [work[c] EXCEPT !.pc = "consume"].pc = "consume"
            /\ [work[c] EXCEPT !.pc = "read"].pc = "read"
        BY <3>1 DEF Admissions
      <3> QED BY <2>1, <2>4, <3>2 DEF ReadChallenge, ConsumeChallenge, Move, Finish
    <2> QED BY <2>2, <2>3, <2>4
  <1>3. /\ session' \in [Members -> {"none", "live", "outdated", "leftover"}]
        /\ \A u \in Members : session'[u] = "outdated" => session[u] = "outdated"
    <2>1. CASE OpenSession(c)
      BY <2>1 DEF OpenSession, IndFollow, FollowTyped
    <2>2. CASE session' = session
      BY <2>2 DEF IndFollow, FollowTyped
    <2> QED BY <2>1, <2>2 DEF ReadForLogin, ReadForConfirm, Admit, ConfirmByPassword, ReadChallenge,
           ConsumeChallenge, ReadTarget
  <1>4. FollowTyped'
    BY <1>1, <1>3 DEF IndFollow, FollowTyped
  <1> QED BY <1>1, <1>2, <1>3, <1>4, BeforeWrite

LEMMA NextFollow == IndFollow /\ [AccountsNext]_accountVars => IndFollow'
  <1> SUFFICES ASSUME IndFollow, [AccountsNext]_accountVars PROVE IndFollow'
    OBVIOUS
  <1>1. AccountInv'
    BY AccountsStep DEF IndFollow
  <1>2. FollowTyped' /\ ChangesAreFollowedUp'
    <2>1. ASSUME NEW c \in Works, WriteTarget(c) PROVE FollowTyped' /\ ChangesAreFollowedUp'
      BY <2>1, WriteFollow
    <2>2. ASSUME NEW c \in Works, RevokeSessions(c) PROVE FollowTyped' /\ ChangesAreFollowedUp'
      BY <2>2, RevokeFollow
    <2>3. ASSUME NEW c \in Works, LogAdminAction(c) PROVE FollowTyped' /\ ChangesAreFollowedUp'
      BY <2>3, LogFollow
    <2>4. ASSUME NEW c \in Works, BreakOff(c) PROVE FollowTyped' /\ ChangesAreFollowedUp'
      BY <2>4, BreakFollow
    <2>5. CASE \/ \E k \in Tokens : ChallengeExpires(k)
               \/ UNCHANGED accountVars
      <3>1. UNCHANGED <<account, session, work, unlogged>>
        BY <2>5 DEF ChallengeExpires, accountVars
      <3> QED BY <3>1 DEF IndFollow, FollowTyped, ChangesAreFollowedUp, Doing
    <2> QED BY <2>1, <2>2, <2>3, <2>4, <2>5, QuietFollow DEF AccountsNext
  <1> QED BY <1>1, <1>2 DEF IndFollow

\* A change ends the sessions that it makes outdated and is in the audit log once
\* its request is over, each by a query of its own that others may come between.
THEOREM ChangesFollowedUp == AccountsSpec => []ChangesAreFollowedUp
  <1>1. AccountsInit => IndFollow
    BY AccountsInitInv, InitFollow DEF IndFollow
  <1>2. IndFollow => ChangesAreFollowedUp
    BY DEF IndFollow
  <1> QED BY <1>1, <1>2, NextFollow, PTL DEF AccountsSpec

-----------------------------------------------------------------------------
(* The profile. *)

\* A list of categories, or none.
Lists == {{}} \union {{l} : l \in SUBSET Labels}

Profile == [exists : BOOLEAN, isAvailable : BOOLEAN, availabilityStatus : Availability,
            categories : SUBSET Labels, rated : SUBSET Reviewable]

\* What a request has in hand: the categories that it replaces are still those of
\* the profile, and what its aggregate misses had met another review.
InHand(e) ==
    /\ e.pc \in {"hold", "save"} => e.labels \in Lists /\ e.labels \subseteq everActive
    /\ e.pc = "save" => e.found = profile.categories
    /\ e.pc \in {"insert", "aggregated"} => e.reviewed \in Reviewable
    /\ e.pc = "aggregated" =>
           /\ e.reviewed \in e.seen /\ e.seen \subseteq review \union {e.reviewed}
           /\ review \ e.seen \subseteq beside

\* The transactions that are under way: one holds the profile's row, and reviews
\* that meet are known to.
Met(e, f) ==
    /\ ~(e.pc = "save" /\ f.pc = "save")
    /\ e.pc = "aggregated" /\ f.pc = "aggregated" => e.reviewed \in beside

ProfileInv ==
    /\ profile \in Profile /\ DOMAIN edit = Edits
    /\ review \subseteq Reviewable /\ completed \subseteq Reviewable
    /\ active \subseteq Labels /\ everActive \subseteq SUBSET Labels
    /\ \A c \in Edits : InHand(edit[c])
    /\ \A c, d \in Edits : c # d => Met(edit[c], edit[d])
    /\ ProfileAgrees /\ RatingCountsReviews

LEMMA ProfilesInitInv == ProfilesInit => ProfileInv
  BY DEF ProfilesInit, ProfileInv, Profile, Availability, InHand, Met, NoEdit, ProfileAgrees,
         RatingCountsReviews

\* A request goes on, the profile and the reviews stay.
LEMMA EditMovesOn ==
    ASSUME ProfileInv, NEW c \in Edits, NEW step, Edit(c, step),
           InHand(step)', \A d \in Edits \ {c} : Met(edit[d], step)' /\ Met(step, edit[d])',
           UNCHANGED <<profile, completed, review, active>>,
           beside \subseteq beside', everActive \subseteq everActive',
           everActive' \subseteq SUBSET Labels
    PROVE  ProfileInv'
  <1>1. /\ DOMAIN edit' = Edits /\ edit'[c] = step
        /\ \A d \in Edits : d # c => edit'[d] = edit[d]
    BY DEF Edit, ProfileInv
  <1>2. \A d \in Edits : InHand(edit[d])'
    <2>1. ASSUME NEW d \in Edits, d # c PROVE InHand(edit[d])'
      <3>1. InHand(edit[d]) /\ edit'[d] = edit[d]
        BY <1>1, <2>1 DEF ProfileInv
      <3> QED BY <3>1 DEF InHand
    <2>2. InHand(edit[c])'
      BY <1>1 DEF InHand
    <2> QED BY <2>1, <2>2
  <1>3. \A a, b \in Edits : a # b => Met(edit[a], edit[b])'
    <2> SUFFICES ASSUME NEW a \in Edits, NEW b \in Edits, a # b PROVE Met(edit[a], edit[b])'
      OBVIOUS
    <2>1. CASE a # c /\ b # c
      <3>1. Met(edit[a], edit[b]) /\ edit'[a] = edit[a] /\ edit'[b] = edit[b]
        BY <1>1, <2>1 DEF ProfileInv
      <3> QED BY <3>1 DEF Met
    <2>2. CASE a = c
      <3>1. Met(step, edit[b])' /\ edit'[a] = step
        BY <1>1, <2>2
      <3> QED BY <3>1 DEF Met
    <2>3. CASE b = c
      <3>1. Met(edit[a], step)' /\ edit'[b] = step
        BY <1>1, <2>3
      <3> QED BY <3>1 DEF Met
    <2> QED BY <2>1, <2>2, <2>3
  <1>4. ProfileAgrees' /\ RatingCountsReviews'
    BY DEF ProfileInv, ProfileAgrees, RatingCountsReviews
  <1> QED BY <1>1, <1>2, <1>3, <1>4 DEF ProfileInv

\* Nobody but the request that holds the row writes it, and the reviews stay.
LEMMA ProfileWritten ==
    ASSUME ProfileInv, NEW c \in Edits, Done(c), profile' \in Profile, ProfileAgrees',
           \A d \in Edits \ {c} : edit[d].pc = "save" => profile'.categories = profile.categories,
           \A d \in Edits \ {c} : edit[d].pc = "aggregated" =>
               review' \ review \subseteq beside,
           review \subseteq review', review' \subseteq Reviewable, RatingCountsReviews',
           UNCHANGED <<completed, active, beside, everActive>>
    PROVE  ProfileInv'
  <1>1. /\ DOMAIN edit' = Edits /\ edit'[c] = NoEdit
        /\ \A d \in Edits : d # c => edit'[d] = edit[d]
    BY DEF Done, Edit, ProfileInv
  <1>2. \A d \in Edits : InHand(edit[d])'
    <2>1. ASSUME NEW d \in Edits, d # c PROVE InHand(edit[d])'
      <3>1. InHand(edit[d]) /\ edit'[d] = edit[d]
        BY <1>1, <2>1 DEF ProfileInv
      <3> QED BY <2>1, <3>1 DEF InHand
    <2>2. InHand(edit[c])'
      BY <1>1 DEF InHand, NoEdit
    <2> QED BY <2>1, <2>2
  <1>3. \A a, b \in Edits : a # b => Met(edit[a], edit[b])'
    <2> SUFFICES ASSUME NEW a \in Edits, NEW b \in Edits, a # b PROVE Met(edit[a], edit[b])'
      OBVIOUS
    <2>1. Met(edit[a], edit[b])
      BY DEF ProfileInv
    <2> QED BY <1>1, <2>1 DEF Met, NoEdit
  <1> QED BY <1>1, <1>2, <1>3 DEF ProfileInv

\* The two fields of a profile are written together.
ResolvedTo(p, r) ==
    \E a \in BOOLEAN, s \in Availability :
        /\ a <=> s # "UNAVAILABLE"
        /\ r = [p EXCEPT !.isAvailable = a, !.availabilityStatus = s]

Agrees(r) == r.isAvailable <=> r.availabilityStatus # "UNAVAILABLE"

LEMMA Resolved ==
    ASSUME NEW p \in Profile, NEW r, ResolvedTo(p, r)
    PROVE  r \in Profile /\ Agrees(r) /\ r.rated = p.rated /\ r.categories = p.categories
  <1>0. PICK a \in BOOLEAN, s \in Availability :
            /\ a <=> s # "UNAVAILABLE"
            /\ r = [p EXCEPT !.isAvailable = a, !.availabilityStatus = s]
    BY DEF ResolvedTo
  <1>1. r = [exists |-> p.exists, isAvailable |-> a, availabilityStatus |-> s,
             categories |-> p.categories, rated |-> p.rated]
    BY <1>0 DEF Profile
  <1>2. p.categories \in SUBSET Labels /\ p.rated \in SUBSET Reviewable /\ p.exists \in BOOLEAN
    BY DEF Profile
  <1> QED BY <1>0, <1>1, <1>2, Zenon DEF Profile, Agrees

LEMMA Created ==
    ASSUME profile \in Profile
    PROVE  /\ [profile EXCEPT !.exists = TRUE] \in Profile
           /\ [profile EXCEPT !.exists = TRUE].rated = profile.rated
           /\ [profile EXCEPT !.exists = TRUE].categories = profile.categories
           /\ \A a, s : [profile EXCEPT !.exists = TRUE, !.isAvailable = a, !.availabilityStatus = s]
                 = [[profile EXCEPT !.exists = TRUE] EXCEPT !.isAvailable = a,
                                                            !.availabilityStatus = s]
  BY DEF Profile

LEMMA UpsertAgrees ==
    ASSUME profile \in Profile, NEW ask \in Asks, NEW r, r = Upserted(ask)
    PROVE  r \in Profile /\ Agrees(r) /\ r.rated = profile.rated /\ r.categories = profile.categories
  <1>0. /\ ask.availabilityStatus \in Availability \union {"unsaid"}
        /\ ask.isAvailable \in {"yes", "no", "unsaid"}
    BY DEF Asks
  <1>p. PICK p \in Profile : /\ p = [profile EXCEPT !.exists = TRUE]
                             /\ p.rated = profile.rated /\ p.categories = profile.categories
    BY Created
  <1>1. PICK a : a = IF ask.availabilityStatus # "unsaid" THEN ask.availabilityStatus # "UNAVAILABLE"
                     ELSE ask.isAvailable # "no"
    OBVIOUS
  <1>2. PICK s : s = IF ask.availabilityStatus # "unsaid" THEN ask.availabilityStatus
                     ELSE IF ask.isAvailable = "no" THEN "UNAVAILABLE" ELSE "AVAILABLE_NOW"
    OBVIOUS
  <1>3. r = [profile EXCEPT !.exists = TRUE, !.isAvailable = a, !.availabilityStatus = s]
    BY <1>1, <1>2, Zenon DEF Upserted
  <1>4. a \in BOOLEAN /\ s \in Availability
    BY <1>0, <1>1, <1>2 DEF Availability
  <1>5. a <=> s # "UNAVAILABLE"
    BY <1>0, <1>1, <1>2 DEF Availability
  <1>6. r = [p EXCEPT !.isAvailable = a, !.availabilityStatus = s]
    BY <1>p, <1>3, Created
  <1>7. ResolvedTo(p, r)
    BY <1>4, <1>5, <1>6, Zenon DEF ResolvedTo
  <1> QED BY <1>p, <1>7, Resolved

LEMMA UpdateAgrees ==
    ASSUME profile \in Profile, NEW ask \in Asks, NEW r, r = UpdatedAvailability(ask),
           Agrees(profile)
    PROVE  r \in Profile /\ Agrees(r) /\ r.rated = profile.rated /\ r.categories = profile.categories
  <1>0. /\ ask.availabilityStatus \in Availability \union {"unsaid"}
        /\ ask.isAvailable \in {"yes", "no", "unsaid"}
    BY DEF Asks
  <1>1. CASE ask.isAvailable # "unsaid"
    <2>1. PICK a : a = (ask.isAvailable = "yes")
      OBVIOUS
    <2>2. PICK s : s = IF ask.isAvailable = "yes" THEN "AVAILABLE_NOW" ELSE "UNAVAILABLE"
      OBVIOUS
    <2>3. r = [profile EXCEPT !.isAvailable = a, !.availabilityStatus = s]
      <3>1. r = [profile EXCEPT !.isAvailable = ask.isAvailable = "yes",
                                !.availabilityStatus = IF ask.isAvailable = "yes"
                                                       THEN "AVAILABLE_NOW" ELSE "UNAVAILABLE"]
        BY <1>1 DEF UpdatedAvailability
      <3> QED BY <2>1, <2>2, <3>1, Zenon
    <2>4. a \in BOOLEAN /\ s \in Availability /\ (a <=> s # "UNAVAILABLE")
      BY <2>1, <2>2 DEF Availability
    <2>5. ResolvedTo(profile, r)
      BY <2>3, <2>4, Zenon DEF ResolvedTo
    <2> QED BY <2>5, Resolved
  <1>2. CASE ask.isAvailable = "unsaid" /\ ask.availabilityStatus # "unsaid"
    <2>1. PICK a : a = (ask.availabilityStatus # "UNAVAILABLE")
      OBVIOUS
    <2>2. r = [profile EXCEPT !.isAvailable = a, !.availabilityStatus = ask.availabilityStatus]
      BY <1>2, <2>1 DEF UpdatedAvailability
    <2>3. ask.availabilityStatus \in Availability
      BY <1>0, <1>2
    <2>4. a \in BOOLEAN /\ (a <=> ask.availabilityStatus # "UNAVAILABLE")
      BY <2>1
    <2>5. ResolvedTo(profile, r)
      BY <2>2, <2>3, <2>4, Zenon DEF ResolvedTo
    <2> QED BY <2>5, Resolved
  <1>3. CASE ask.isAvailable = "unsaid" /\ ask.availabilityStatus = "unsaid"
    <2>1. r = profile
      BY <1>3 DEF UpdatedAvailability
    <2> QED BY <2>1
  <1> QED BY <1>1, <1>2, <1>3

LEMMA CheckCategoriesInv ==
    ASSUME ProfileInv, NEW c \in Edits, NEW upsert \in BOOLEAN, NEW labels \in Lists,
           CheckCategories(c, upsert, labels)
    PROVE  ProfileInv'
  <1>1. PICK step : step = [pc |-> "hold", upsert |-> upsert, labels |-> labels]
    OBVIOUS
  <1>2. Edit(c, step) /\ everActive' = everActive \union labels
    BY <1>1 DEF CheckCategories
  <1>3. InHand(step)' /\ \A d \in Edits \ {c} : Met(edit[d], step)' /\ Met(step, edit[d])'
    BY <1>1, <1>2 DEF InHand, Met
  <1>4. labels \subseteq SUBSET Labels
    BY DEF Lists
  <1> QED BY <1>2, <1>3, <1>4, EditMovesOn DEF CheckCategories, ProfileInv

LEMMA HoldProfileInv ==
    ASSUME ProfileInv, NEW c \in Edits, HoldProfile(c)
    PROVE  ProfileInv'
  <1>1. PICK step : step = [pc |-> "save", upsert |-> edit[c].upsert, labels |-> edit[c].labels,
                            found |-> profile.categories]
    OBVIOUS
  <1>2. Edit(c, step)
    BY <1>1 DEF HoldProfile
  <1>3. InHand(edit[c]) /\ edit[c].pc = "hold"
    BY DEF ProfileInv, HoldProfile, Editing
  <1>4. InHand(step)'
    BY <1>1, <1>3 DEF InHand, HoldProfile
  <1>5. \A d \in Edits \ {c} : Met(edit[d], step)' /\ Met(step, edit[d])'
    <2>1. \A d \in Edits \ {c} : edit'[d] = edit[d] /\ edit[d].pc # "save"
      BY <1>2 DEF Edit, ProfileInv, HoldProfile, Holding, Editing
    <2> QED BY <1>1, <2>1 DEF Met
  <1> QED BY <1>2, <1>4, <1>5, EditMovesOn DEF HoldProfile, ProfileInv

LEMMA SaveProfileInv ==
    ASSUME ProfileInv, NEW c \in Edits, NEW ask \in Asks, SaveProfile(c, ask)
    PROVE  ProfileInv'
  <1>1. /\ profile \in Profile /\ edit[c].pc = "save" /\ InHand(edit[c])
        /\ Agrees(profile)
        /\ profile.categories \in everActive
    BY DEF ProfileInv, SaveProfile, Editing, ProfileAgrees, Agrees
  <1>2. PICK row : row = IF edit[c].upsert THEN Upserted(ask) ELSE UpdatedAvailability(ask)
    OBVIOUS
  <1>3. /\ row \in Profile
        /\ Agrees(row)
        /\ row.rated = profile.rated /\ row.categories = profile.categories
    BY <1>1, <1>2, UpsertAgrees, UpdateAgrees
  <1>4. PICK p : p = profile'
    OBVIOUS
  <1>5. p \in Profile /\ p.rated = profile.rated /\ p.categories \in everActive
        /\ Agrees(p)
    <2>1. CASE edit[c].labels = {}
      <3>1. p = row
        BY <1>2, <1>4, <2>1 DEF SaveProfile
      <3> QED BY <1>1, <1>3, <3>1
    <2>2. CASE edit[c].labels # {}
      <3>1. PICK l \in SUBSET Labels : edit[c].labels = {l} /\ l \in everActive
        BY <1>1, <2>2 DEF InHand, Lists
      <3>2. p = [row EXCEPT !.categories = l]
        <4>1. p = [row EXCEPT !.categories = (@ \ edit[c].found) \union UNION edit[c].labels]
          BY <1>2, <1>4, <2>2 DEF SaveProfile
        <4>2. edit[c].found = row.categories /\ UNION edit[c].labels = l
          BY <1>1, <1>3, <3>1 DEF InHand
        <4> QED BY <4>1, <4>2
      <3>3. p = [exists |-> row.exists, isAvailable |-> row.isAvailable,
                 availabilityStatus |-> row.availabilityStatus, categories |-> l,
                 rated |-> row.rated]
        BY <1>3, <3>2 DEF Profile
      <3>4. /\ row.exists \in BOOLEAN /\ row.isAvailable \in BOOLEAN
            /\ row.availabilityStatus \in Availability /\ row.rated \in SUBSET Reviewable
        BY <1>3 DEF Profile
      <3>5. p \in Profile
        BY <3>3, <3>4 DEF Profile
      <3> QED BY <1>3, <3>1, <3>3, <3>5, Zenon DEF Agrees
    <2> QED BY <2>1, <2>2
  <1>6. Done(c) /\ UNCHANGED <<completed, review, active, beside, everActive>>
    BY DEF SaveProfile
  <1>7. profile' \in Profile /\ ProfileAgrees' /\ RatingCountsReviews'
    <2>1. ProfileAgrees'
      BY <1>4, <1>5, <1>6 DEF ProfileAgrees, Agrees
    <2>2. RatingCountsReviews'
      BY <1>4, <1>5, <1>6 DEF ProfileInv, RatingCountsReviews
    <2> QED BY <1>4, <1>5, <2>1, <2>2
  <1>8. \A d \in Edits \ {c} : edit[d].pc # "save"
    BY <1>1 DEF ProfileInv, Met
  <1> QED BY <1>6, <1>7, <1>8, ProfileWritten DEF ProfileInv

LEMMA ReviewInv ==
    ASSUME ProfileInv, NEW c \in Edits, NEW j \in Reviewable, Review(c, j)
    PROVE  ProfileInv'
  <1>1. PICK step : step = [pc |-> "insert", reviewed |-> j]
    OBVIOUS
  <1>2. Edit(c, step)
    BY <1>1 DEF Review
  <1>3. InHand(step)' /\ \A d \in Edits \ {c} : Met(edit[d], step)' /\ Met(step, edit[d])'
    BY <1>1, <1>2 DEF InHand, Met
  <1> QED BY <1>2, <1>3, EditMovesOn DEF Review, ProfileInv

\* A request that has ended has nothing in hand.
LEMMA DoneInv ==
    ASSUME ProfileInv, NEW c \in Edits, Done(c),
           UNCHANGED <<profile, completed, review, active, beside, everActive>>
    PROVE  ProfileInv'
  <1>1. InHand(NoEdit)' /\ \A d \in Edits \ {c} : Met(edit[d], NoEdit)' /\ Met(NoEdit, edit[d])'
    BY DEF InHand, Met, NoEdit
  <1> QED BY <1>1, EditMovesOn DEF Done, ProfileInv

LEMMA AggregateReviewsInv ==
    ASSUME ProfileInv, NEW c \in Edits, AggregateReviews(c)
    PROVE  ProfileInv'
  <1>1. CASE edit[c].reviewed \in review
    BY <1>1, DoneInv DEF AggregateReviews
  <1>2. CASE edit[c].reviewed \notin review
    <2>1. PICK step : step = [pc |-> "aggregated", reviewed |-> edit[c].reviewed,
                              seen |-> review \union {edit[c].reviewed}]
      OBVIOUS
    <2>2. /\ Edit(c, step)
          /\ beside' = beside \union
                 (IF Aggregating = {} THEN {} ELSE {edit[d].reviewed : d \in Aggregating \union {c}})
          /\ UNCHANGED <<profile, completed, review, active, everActive>>
      BY <1>2, <2>1 DEF AggregateReviews
    <2>3. edit[c].reviewed \in Reviewable
      BY DEF ProfileInv, AggregateReviews, Editing, InHand
    <2>4. InHand(step)'
      BY <2>1, <2>2, <2>3 DEF InHand
    <2>5. \A d \in Edits \ {c} : Met(edit[d], step)' /\ Met(step, edit[d])'
      <3>1. SUFFICES ASSUME NEW d \in Edits \ {c} PROVE Met(edit[d], step)' /\ Met(step, edit[d])'
        OBVIOUS
      <3>2. edit'[d] = edit[d]
        BY <2>2 DEF Edit, ProfileInv
      <3>3. CASE edit[d].pc = "aggregated"
        <4>1. d \in Aggregating
          BY <3>3 DEF Aggregating, Editing
        <4>2. edit[d].reviewed \in beside' /\ edit[c].reviewed \in beside'
          BY <2>2, <4>1
        <4> QED BY <2>1, <3>2, <4>2 DEF Met
      <3>4. CASE edit[d].pc # "aggregated"
        BY <2>1, <3>2, <3>4 DEF Met
      <3> QED BY <3>3, <3>4
    <2> QED BY <2>2, <2>4, <2>5, EditMovesOn DEF ProfileInv
  <1> QED BY <1>1, <1>2

LEMMA WriteRatingInv ==
    ASSUME ProfileInv, NEW c \in Edits, WriteRating(c)
    PROVE  ProfileInv'
  <1>1. PICK e : e = edit[c]
    OBVIOUS
  <1>2. /\ e.reviewed \in Reviewable /\ e.reviewed \in e.seen
        /\ e.seen \subseteq review \union {e.reviewed} /\ review \ e.seen \subseteq beside
        /\ e.pc = "aggregated" /\ profile \in Profile /\ ProfileAgrees /\ review \subseteq Reviewable
    BY <1>1 DEF ProfileInv, WriteRating, Editing, InHand
  <1>3. /\ review' = review \union {e.reviewed} /\ profile' = [profile EXCEPT !.rated = e.seen]
        /\ Done(c) /\ UNCHANGED <<completed, active, beside, everActive>>
    BY <1>1 DEF WriteRating
  <1>4. profile' = [exists |-> profile.exists, isAvailable |-> profile.isAvailable,
                    availabilityStatus |-> profile.availabilityStatus,
                    categories |-> profile.categories, rated |-> e.seen]
    BY <1>2, <1>3 DEF Profile
  <1>5. profile' \in Profile
    <2>1. /\ profile.exists \in BOOLEAN /\ profile.isAvailable \in BOOLEAN
          /\ profile.availabilityStatus \in Availability /\ profile.categories \in SUBSET Labels
      BY <1>2 DEF Profile
    <2>2. e.seen \in SUBSET Reviewable
      BY <1>2
    <2> QED BY <1>4, <2>1, <2>2 DEF Profile
  <1>6. ProfileAgrees'
    BY <1>2, <1>3, <1>4, Zenon DEF ProfileAgrees
  <1>7. RatingCountsReviews'
    BY <1>2, <1>3, <1>4 DEF RatingCountsReviews
  <1>8. \A d \in Edits \ {c} : edit[d].pc = "aggregated" => review' \ review \subseteq beside
    BY <1>1, <1>2, <1>3 DEF ProfileInv, Met
  <1>9. profile'.categories = profile.categories
    BY <1>4
  <1> QED BY <1>2, <1>3, <1>5, <1>6, <1>7, <1>8, <1>9, ProfileWritten

\* The categories in use and the completed jobs, which no request holds.
LEMMA AroundInv ==
    ASSUME ProfileInv, active' \subseteq Labels, completed' \subseteq Reviewable,
           UNCHANGED <<profile, review, edit, beside, everActive>>
    PROVE  ProfileInv'
  BY DEF ProfileInv, InHand, Met, ProfileAgrees, RatingCountsReviews

LEMMA ProfilesStep == ProfileInv /\ [ProfilesNext]_profileVars => ProfileInv'
  <1> SUFFICES ASSUME ProfileInv, [ProfilesNext]_profileVars PROVE ProfileInv'
    OBVIOUS
  <1>1. ASSUME NEW c \in Edits, NEW upsert \in BOOLEAN, NEW labels \in Lists,
               CheckCategories(c, upsert, labels) PROVE ProfileInv'
    BY <1>1, CheckCategoriesInv
  <1>2. ASSUME NEW c \in Edits, NEW ask \in Asks, SaveProfile(c, ask) PROVE ProfileInv'
    BY <1>2, SaveProfileInv
  <1>3. ASSUME NEW c \in Edits, NEW j \in Reviewable, Review(c, j) PROVE ProfileInv'
    BY <1>3, ReviewInv
  <1>4. ASSUME NEW c \in Edits, HoldProfile(c) PROVE ProfileInv'
    BY <1>4, HoldProfileInv
  <1>5. ASSUME NEW c \in Edits, AggregateReviews(c) PROVE ProfileInv'
    BY <1>5, AggregateReviewsInv
  <1>6. ASSUME NEW c \in Edits, WriteRating(c) PROVE ProfileInv'
    BY <1>6, WriteRatingInv
  <1>7. ASSUME NEW c \in Edits, DropEdit(c) PROVE ProfileInv'
    BY <1>7, DoneInv DEF DropEdit
  <1>8. ASSUME NEW l \in Labels, RemoveCategory(l) PROVE ProfileInv'
    BY <1>8, AroundInv DEF RemoveCategory, ProfileInv
  <1>9. ASSUME NEW j \in Reviewable, Complete(j) PROVE ProfileInv'
    BY <1>9, AroundInv DEF Complete, ProfileInv
  <1>10. CASE UNCHANGED profileVars
    BY <1>10, AroundInv DEF profileVars, ProfileInv
  <1> QED BY <1>1, <1>2, <1>3, <1>4, <1>5, <1>6, <1>7, <1>8, <1>9, <1>10 DEF ProfilesNext, Lists

\* The two fields of availability agree after every mixture of upserts and updates,
\* and the categories are one request's list although the transaction deletes and
\* inserts them row by row: whoever holds the profile's row finds what it replaces
\* (WorkerProfileService).
THEOREM ProfileOfOnePiece == ProfilesSpec => []ProfileAgrees
  <1>1. ProfilesSpec => []ProfileInv
    BY ProfilesInitInv, ProfilesStep, PTL DEF ProfilesSpec
  <1>2. ProfileInv => ProfileAgrees
    BY DEF ProfileInv
  <1> QED BY <1>1, <1>2, PTL

\* The rating counts stored reviews only and misses one only behind another, as
\* every aggregate contains the transaction's own review and all committed ones, and
\* the unique job keeps a review from being stored twice (ReviewsService.create).
THEOREM RatingFollowsReviews == ProfilesSpec => []RatingCountsReviews
  <1>1. ProfilesSpec => []ProfileInv
    BY ProfilesInitInv, ProfilesStep, PTL DEF ProfilesSpec
  <1>2. ProfileInv => RatingCountsReviews
    BY DEF ProfileInv
  <1> QED BY <1>1, <1>2, PTL

-----------------------------------------------------------------------------
(* The cases of support. *)

USE DeskAssumption

FileStatuses == CaseStates \union {"CANCELED"}

Files == [refund : BOOLEAN, status : FileStatuses, resolved : BOOLEAN, trail : FileStatuses,
          told : {"nothing", "open", "closed"}, met : BOOLEAN]

Updates == [pc : {"update"}, k : Nat, status : CaseStates \union {"same"},
            read : [status : FileStatuses, resolved : BOOLEAN]]

Decisions == {"approve", "reject", "cancel"}

\* What CaseFileAgrees says of one case, and that only a refund's participants
\* are told anything.
FileAgrees(case) ==
    /\ case.resolved = CaseClosed(case.status)
    /\ case.met \/ case.trail = case.status
    /\ \/ case.met \/ case.told = "nothing" \/ case.status = "OPEN"
       \/ case.told = IF CaseClosed(case.status) THEN "closed" ELSE "open"
    /\ ~case.refund => case.told = "nothing"

IsNewest(k) == k \in RefundCases /\ \A n \in RefundCases : n <= k

\* What a clerk has in hand: the reading was right when it was taken, the case of
\* the refund exists and stays that of the refund.
ClerkFits(w) ==
    /\ w.pc \in {"idle", "update", "decide", "sync"}
    /\ w.pc = "update" => /\ w \in Updates /\ w.k \in DOMAIN cases
                          /\ w.read.resolved = CaseClosed(w.read.status)
    /\ w.pc = "decide" => w.decision \in Decisions /\ refund # "none"
    /\ w.pc = "sync" => w.decision \in Decisions /\ w.k \in RefundCases /\ refund # "none"

CasesAgree == cases \in Seq(Files) /\ \A k \in DOMAIN cases : FileAgrees(cases[k])

\* A refund request is created together with its dispute.
RefundHasCase == refund # "none" => \E k \in DOMAIN cases : IsNewest(k)

ClerksInHand == DOMAIN clerk = Clerks /\ \A c \in Clerks : ClerkFits(clerk[c])

DeskInv == CasesAgree /\ RefundHasCase /\ ClerksInHand

-----------------------------------------------------------------------------
(* Cases one by one. *)

LEMMA NewCaseAgrees ==
    ASSUME NEW ofRefund \in BOOLEAN, NEW told \in {"nothing", "open"},
           ~ofRefund => told = "nothing"
    PROVE  /\ NewCase(ofRefund, told) \in Files /\ FileAgrees(NewCase(ofRefund, told))
           /\ NewCase(ofRefund, told).refund = ofRefund
  <1>n. PICK new : new = NewCase(ofRefund, told)
    OBVIOUS
  <1>1. /\ new.refund = ofRefund /\ new.status = "OPEN" /\ new.resolved = FALSE
        /\ new.trail = "OPEN" /\ new.told = told
    BY <1>n DEF NewCase
  <1>2. new \in Files
    BY <1>n DEF NewCase, Files, FileStatuses
  <1>3. FileAgrees(new)
    <2>1. CaseClosed(new.status) = FALSE
      BY <1>1 DEF CaseClosed
    <2>2. new.resolved = CaseClosed(new.status)
      BY <1>1, <2>1
    <2>3. new.trail = new.status /\ new.status = "OPEN" /\ (~new.refund => new.told = "nothing")
      BY <1>1
    <2> QED BY <2>2, <2>3, Zenon DEF FileAgrees
  <1> QED BY <1>n, <1>1, <1>2, <1>3

\* An update judges by what was read, yet writes a time of resolution that fits
\* the status it writes.
LEMMA UpdatedAgrees ==
    ASSUME NEW case \in Files, FileAgrees(case), NEW w \in Updates,
           w.read.resolved = CaseClosed(w.read.status)
    PROVE  /\ Updated(case, w) \in Files /\ FileAgrees(Updated(case, w))
           /\ Updated(case, w).refund = case.refund
  <1>s. PICK status : status = NextStatus(w)
    OBVIOUS
  <1>1. status \in FileStatuses
    BY <1>s DEF NextStatus, Updates, FileStatuses
  <1>r. PICK resolved : resolved = ResolvedAt(w)
    OBVIOUS
  <1>2. resolved \in BOOLEAN /\ resolved = CaseClosed(status)
    <2>1. resolved = (CaseClosed(status) \/ (status = w.read.status /\ CaseClosed(w.read.status)))
      BY <1>s, <1>r, Zenon DEF ResolvedAt
    <2>2. \A any : CaseClosed(any) \in BOOLEAN
      BY DEF CaseClosed
    <2>3. CASE status = w.read.status
      BY <2>1, <2>2, <2>3
    <2>4. CASE status # w.read.status
      BY <2>1, <2>2, <2>4
    <2> QED BY <2>3, <2>4
  <1>m. PICK met : met = (case.status # w.read.status \/ (case.met /\ status = w.read.status))
    OBVIOUS
  <1>u. PICK new : new = Updated(case, w)
    OBVIOUS
  <1>3. new = [case EXCEPT !.status = status, !.resolved = resolved,
                           !.trail = TrailOf(case, w), !.told = Told(case, w), !.met = met]
    BY <1>s, <1>r, <1>m, <1>u DEF Updated
  <1>t. PICK trail : trail = TrailOf(case, w)
    OBVIOUS
  <1>n. PICK told : told = Told(case, w)
    OBVIOUS
  <1>4. /\ trail \in FileStatuses
        /\ trail = IF status # w.read.status THEN status ELSE case.trail
    BY <1>s, <1>t, <1>1 DEF TrailOf, Files
  <1>5. /\ told \in {"nothing", "open", "closed"}
        /\ told = IF case.refund /\ status # w.read.status THEN ToldOf(status) ELSE case.told
    BY <1>s, <1>n DEF Told, ToldOf, Files
  <1>6. /\ new.refund = case.refund /\ new.status = status /\ new.resolved = resolved
        /\ new.trail = trail /\ new.told = told /\ new.met = met
    BY <1>3, <1>t, <1>n DEF Files
  <1>7. new \in Files
    BY <1>1, <1>2, <1>3, <1>4, <1>5, <1>m, <1>t, <1>n DEF Files
  <1>8. met \/ trail = status
    BY <1>4, <1>m DEF FileAgrees
  <1>9. \/ met \/ told = "nothing" \/ status = "OPEN"
        \/ told = IF CaseClosed(status) THEN "closed" ELSE "open"
    BY <1>1, <1>5, <1>m DEF FileAgrees, ToldOf, CaseClosed, FileStatuses
  <1>10. ~case.refund => told = "nothing"
    BY <1>5 DEF FileAgrees
  <1> QED BY <1>2, <1>6, <1>7, <1>8, <1>9, <1>10, <1>u DEF FileAgrees

LEMMA DecidedAgrees ==
    ASSUME NEW case \in Files, case.refund, NEW decision \in Decisions
    PROVE  /\ Decided(case, decision) \in Files /\ FileAgrees(Decided(case, decision))
           /\ Decided(case, decision).refund = case.refund
  BY DEF Decided, Files, FileAgrees, CaseClosed, FileStatuses, Decisions
-----------------------------------------------------------------------------
(* The sequence of cases. *)

LEMMA DomainOfCases ==
    ASSUME CasesAgree
    PROVE  /\ Len(cases) \in Nat /\ DOMAIN cases = 1..Len(cases)
           /\ \A k \in DOMAIN cases : cases[k] \in Files /\ FileAgrees(cases[k])
  BY LenProperties, ElementOfSeq DEF CasesAgree

LEMMA CaseAdded ==
    ASSUME CasesAgree, NEW new \in Files, FileAgrees(new), cases' = Append(cases, new)
    PROVE  /\ CasesAgree'
           /\ DOMAIN cases \subseteq DOMAIN cases'
           /\ Len(cases) + 1 \in DOMAIN cases' /\ cases'[Len(cases) + 1] = new
           /\ \A k \in DOMAIN cases : cases'[k] = cases[k] /\ k < Len(cases) + 1
           /\ RefundCases' = RefundCases \union (IF new.refund THEN {Len(cases) + 1} ELSE {})
  <1>1. /\ Len(cases) \in Nat /\ DOMAIN cases = 1..Len(cases)
        /\ \A k \in DOMAIN cases : cases[k] \in Files /\ FileAgrees(cases[k])
    BY DomainOfCases
  <1>2. /\ cases' \in Seq(Files) /\ Len(cases') = Len(cases) + 1
        /\ \A k \in 1..Len(cases) : cases'[k] = cases[k]
        /\ cases'[Len(cases) + 1] = new
    BY AppendProperties DEF CasesAgree
  <1>3. DOMAIN cases' = 1..(Len(cases) + 1)
    BY <1>2, LenProperties
  <1>4. \A k \in DOMAIN cases' : k \in DOMAIN cases \/ k = Len(cases) + 1
    BY <1>1, <1>3
  <1>5. Len(cases) + 1 \in DOMAIN cases' /\ DOMAIN cases \subseteq DOMAIN cases'
    BY <1>1, <1>3
  <1>6. CasesAgree'
    BY <1>1, <1>2, <1>4 DEF CasesAgree, FileAgrees
  <1>7. RefundCases' = RefundCases \union (IF new.refund THEN {Len(cases) + 1} ELSE {})
    BY <1>1, <1>2, <1>4, <1>5 DEF RefundCases
  <1> QED BY <1>1, <1>2, <1>5, <1>6, <1>7

LEMMA CaseChanged ==
    ASSUME CasesAgree, NEW k \in DOMAIN cases, NEW new \in Files, FileAgrees(new),
           new.refund = cases[k].refund, cases' = [cases EXCEPT ![k] = new]
    PROVE  /\ CasesAgree' /\ DOMAIN cases' = DOMAIN cases /\ RefundCases' = RefundCases
  <1>1. /\ Len(cases) \in Nat /\ DOMAIN cases = 1..Len(cases)
        /\ \A n \in DOMAIN cases : cases[n] \in Files /\ FileAgrees(cases[n])
    BY DomainOfCases
  <1>2. cases' \in Seq(Files)
    BY <1>1, ExceptSeq DEF CasesAgree
  <1>3. /\ DOMAIN cases' = DOMAIN cases /\ cases'[k] = new
        /\ \A n \in DOMAIN cases : n # k => cases'[n] = cases[n]
    OBVIOUS
  <1>4. CasesAgree'
    BY <1>1, <1>2, <1>3 DEF CasesAgree, FileAgrees
  <1>5. RefundCases' = RefundCases
    BY <1>3 DEF RefundCases
  <1> QED BY <1>3, <1>4, <1>5

\* What clerks have in hand stays right while cases only change or are added.
LEMMA HandsStay ==
    ASSUME DeskInv, DOMAIN cases \subseteq DOMAIN cases', RefundCases \subseteq RefundCases',
           refund # "none" => refund' # "none"
    PROVE  \A w : ClerkFits(w) => ClerkFits(w)'
  BY DEF ClerkFits

LEMMA NewestStays ==
    ASSUME DeskInv, RefundCases' = RefundCases, refund = "none" => refund' = "none"
    PROVE  RefundHasCase'
  <1> SUFFICES ASSUME refund' # "none" PROVE (\E k \in DOMAIN cases : IsNewest(k))'
    BY DEF RefundHasCase
  <1>1. PICK k \in DOMAIN cases : IsNewest(k)
    BY DEF DeskInv, RefundHasCase
  <1>2. k \in RefundCases' /\ \A n \in RefundCases' : n <= k
    BY <1>1 DEF IsNewest
  <1>3. k \in DOMAIN cases'
    BY <1>2 DEF RefundCases
  <1> QED BY <1>2, <1>3 DEF IsNewest

LEMMA FreeFits == ClerkFits(Free) /\ ClerkFits(Free)'
  BY DEF ClerkFits, Free

\* A clerk takes a step that leaves cases and the refund alone.
LEMMA TakeInv ==
    ASSUME DeskInv, NEW c \in Clerks, NEW step, Take(c, step), ClerkFits(step),
           UNCHANGED <<refund, cases>>
    PROVE  DeskInv'
  <1>1. DOMAIN clerk' = Clerks /\ \A d \in Clerks : ClerkFits(clerk'[d])
    BY DEF DeskInv, ClerksInHand, Take
  <1>2. ClerksInHand'
    BY <1>1 DEF ClerksInHand, ClerkFits, RefundCases
  <1>3. CasesAgree' /\ RefundHasCase'
    BY DEF DeskInv, CasesAgree, RefundHasCase, FileAgrees, IsNewest, RefundCases
  <1> QED BY <1>2, <1>3 DEF DeskInv

-----------------------------------------------------------------------------
(* The steps. *)

LEMMA ReadingInv ==
    ASSUME DeskInv, NEW c \in Clerks,
           \/ \E k \in DOMAIN cases, status \in CaseStates \union {"same"} : ReadIncident(c, k, status)
           \/ \E decision \in Decisions : ReadRefund(c, decision)
           \/ FindCase(c) \/ RollBack(c)
    PROVE  DeskInv'
  <1>1. ASSUME NEW k \in DOMAIN cases, NEW status \in CaseStates \union {"same"},
               ReadIncident(c, k, status)
        PROVE  DeskInv'
    <2>1. PICK step : step = [pc |-> "update", k |-> k, status |-> status,
                              read |-> [status |-> cases[k].status, resolved |-> cases[k].resolved]]
      OBVIOUS
    <2>2. k \in Nat /\ cases[k] \in Files /\ FileAgrees(cases[k])
      BY DomainOfCases DEF DeskInv
    <2>3. step \in Updates
      BY <2>1, <2>2 DEF Updates, Files
    <2>4. step.read.resolved = CaseClosed(step.read.status)
      BY <2>1, <2>2 DEF FileAgrees
    <2>5. ClerkFits(step)
      BY <2>1, <2>3, <2>4 DEF ClerkFits
    <2> QED BY <1>1, <2>1, <2>5, TakeInv DEF ReadIncident
  <1>2. ASSUME NEW decision \in Decisions, ReadRefund(c, decision) PROVE DeskInv'
    <2>1. ClerkFits([pc |-> "decide", decision |-> decision])
      BY <1>2 DEF ReadRefund, ClerkFits
    <2> QED BY <1>2, <2>1, TakeInv DEF ReadRefund
  <1>3. CASE FindCase(c)
    <2>1. CASE Release(c)
      BY <1>3, <2>1, FreeFits, TakeInv DEF FindCase, Release
    <2>2. CASE Take(c, [pc |-> "sync", decision |-> clerk[c].decision, k |-> Latest])
      <3>1. PICK step : step = [pc |-> "sync", decision |-> clerk[c].decision, k |-> Latest]
        OBVIOUS
      <3>2. clerk[c].decision \in Decisions /\ refund # "none"
        BY <1>3 DEF FindCase, Busy, DeskInv, ClerksInHand, ClerkFits
      <3>3. Latest \in RefundCases
        BY <3>2 DEF DeskInv, RefundHasCase, IsNewest, Latest
      <3>4. ClerkFits(step)
        BY <3>1, <3>2, <3>3 DEF ClerkFits
      <3> QED BY <1>3, <2>2, <3>1, <3>4, TakeInv DEF FindCase
    <2> QED BY <1>3, <2>1, <2>2 DEF FindCase
  <1>4. CASE RollBack(c)
    BY <1>4, FreeFits, TakeInv DEF RollBack, Release
  <1> QED BY <1>1, <1>2, <1>3, <1>4

LEMMA UpdateInv ==
    ASSUME DeskInv, NEW c \in Clerks, UpdateIncident(c)
    PROVE  DeskInv'
  <1>w. PICK w : w = clerk[c]
    OBVIOUS
  <1>1. /\ w \in Updates /\ w.k \in DOMAIN cases
        /\ w.read.resolved = CaseClosed(w.read.status)
    BY <1>w DEF UpdateIncident, Busy, DeskInv, ClerksInHand, ClerkFits
  <1>k. PICK k \in DOMAIN cases : k = w.k
    BY <1>1
  <1>n. PICK new : new = Updated(cases[k], w)
    OBVIOUS
  <1>2. cases[k] \in Files /\ FileAgrees(cases[k])
    BY DomainOfCases DEF DeskInv
  <1>3. new \in Files /\ FileAgrees(new) /\ new.refund = cases[k].refund
    BY <1>1, <1>2, <1>n, UpdatedAgrees
  <1>4. cases' = [cases EXCEPT ![k] = new] /\ refund' = refund
    BY <1>w, <1>k, <1>n DEF UpdateIncident
  <1>5. CasesAgree' /\ DOMAIN cases' = DOMAIN cases /\ RefundCases' = RefundCases
    BY <1>3, <1>4, CaseChanged DEF DeskInv
  <1>6. RefundHasCase' /\ \A v : ClerkFits(v) => ClerkFits(v)'
    BY <1>4, <1>5, NewestStays, HandsStay
  <1>7. ClerksInHand'
    BY <1>6, FreeFits DEF UpdateIncident, Release, Take, DeskInv, ClerksInHand
  <1> QED BY <1>5, <1>6, <1>7 DEF DeskInv

LEMMA SyncInv ==
    ASSUME DeskInv, NEW c \in Clerks, SyncRefundCaseDecision(c)
    PROVE  DeskInv'
  <1>w. PICK w : w = clerk[c]
    OBVIOUS
  <1>1. w.decision \in Decisions /\ w.k \in RefundCases /\ refund # "none"
    BY <1>w DEF SyncRefundCaseDecision, Busy, DeskInv, ClerksInHand, ClerkFits
  <1>k. PICK k \in DOMAIN cases : k = w.k /\ cases[k].refund
    BY <1>1 DEF RefundCases
  <1>n. PICK new : new = Decided(cases[k], w.decision)
    OBVIOUS
  <1>2. cases[k] \in Files
    BY DomainOfCases DEF DeskInv
  <1>3. new \in Files /\ FileAgrees(new) /\ new.refund = cases[k].refund
    BY <1>1, <1>2, <1>k, <1>n, DecidedAgrees
  <1>4. cases' = [cases EXCEPT ![k] = new] /\ refund' = "decided"
    BY <1>w, <1>k, <1>n DEF SyncRefundCaseDecision
  <1>5. CasesAgree' /\ DOMAIN cases' = DOMAIN cases /\ RefundCases' = RefundCases
    BY <1>3, <1>4, CaseChanged DEF DeskInv
  <1>6. RefundHasCase' /\ \A v : ClerkFits(v) => ClerkFits(v)'
    BY <1>1, <1>4, <1>5, NewestStays, HandsStay
  <1>7. ClerksInHand'
    BY <1>6, FreeFits DEF SyncRefundCaseDecision, Release, Take, DeskInv, ClerksInHand
  <1> QED BY <1>5, <1>6, <1>7 DEF DeskInv

\* A case is added behind all others, so that of the refund's it is the newest.
LEMMA AddInv ==
    ASSUME DeskInv, NEW ofRefund \in BOOLEAN, NEW told \in {"nothing", "open"},
           ~ofRefund => told = "nothing",
           cases' = Append(cases, NewCase(ofRefund, told)),
           clerk' = clerk,
           refund' # "none" => refund # "none" \/ ofRefund,
           refund # "none" => refund' # "none"
    PROVE  DeskInv'
  <1>n. PICK new : new = NewCase(ofRefund, told)
    OBVIOUS
  <1>1. new \in Files /\ FileAgrees(new) /\ new.refund = ofRefund
    BY <1>n, NewCaseAgrees
  <1>l. PICK last : last = Len(cases) + 1
    OBVIOUS
  <1>2. /\ CasesAgree' /\ DOMAIN cases \subseteq DOMAIN cases' /\ last \in DOMAIN cases'
        /\ \A k \in DOMAIN cases : k < last
        /\ RefundCases' = RefundCases \union (IF ofRefund THEN {last} ELSE {})
    BY <1>1, <1>n, <1>l, CaseAdded DEF DeskInv
  <1>3. RefundHasCase'
    <2>1. CASE ofRefund
      <3>1. last \in Nat /\ \A k \in DOMAIN cases : k \in Nat
        BY <1>l, DomainOfCases DEF DeskInv
      <3>2. last \in RefundCases' /\ \A n \in RefundCases' : n <= last
        <4>1. RefundCases' = RefundCases \union {last}
          BY <1>2, <2>1
        <4>2. RefundCases \subseteq DOMAIN cases
          BY DEF RefundCases
        <4>3. \A n \in RefundCases : n <= last
          BY <1>2, <3>1, <4>2
        <4> QED BY <3>1, <4>1, <4>3
      <3> QED BY <1>2, <3>2 DEF RefundHasCase, IsNewest
    <2>2. CASE ~ofRefund
      BY <1>2, <2>2, NewestStays
    <2> QED BY <2>1, <2>2
  <1>4. \A w : ClerkFits(w) => ClerkFits(w)'
    BY <1>2, HandsStay
  <1>5. ClerksInHand'
    BY <1>4 DEF DeskInv, ClerksInHand
  <1> QED BY <1>2, <1>3, <1>5 DEF DeskInv

-----------------------------------------------------------------------------
LEMMA DeskInitInv == DeskInit => DeskInv
  BY EmptySeq DEF DeskInit, DeskInv, CasesAgree, RefundHasCase, ClerksInHand, ClerkFits, Free

LEMMA DeskStep == DeskInv /\ [DeskNext]_deskVars => DeskInv'
  <1> SUFFICES ASSUME DeskInv, [DeskNext]_deskVars PROVE DeskInv'
    OBVIOUS
  <1>1. ASSUME NEW c \in Clerks,
               \/ \E k \in DOMAIN cases, status \in CaseStates \union {"same"} :
                      ReadIncident(c, k, status)
               \/ \E decision \in {"approve", "reject", "cancel"} : ReadRefund(c, decision)
               \/ FindCase(c) \/ RollBack(c)
        PROVE  DeskInv'
    BY <1>1, ReadingInv DEF Decisions
  <1>2. ASSUME NEW c \in Clerks, UpdateIncident(c) PROVE DeskInv'
    BY <1>2, UpdateInv
  <1>3. ASSUME NEW c \in Clerks, SyncRefundCaseDecision(c) PROVE DeskInv'
    BY <1>3, SyncInv
  <1>4. CASE EnsureRefundDisputeCase
    BY <1>4, AddInv DEF EnsureRefundDisputeCase
  <1>5. ASSUME NEW ofRefund \in BOOLEAN, NEW asDispute \in BOOLEAN,
               CreateIncident(ofRefund, asDispute)
        PROVE  DeskInv'
    <2>1. PICK told \in {"nothing", "open"} :
              told = IF ofRefund /\ asDispute THEN "open" ELSE "nothing"
      OBVIOUS
    <2>2. ~ofRefund => told = "nothing"
      BY <2>1
    <2> QED BY <1>5, <2>1, <2>2, AddInv DEF CreateIncident
  <1>6. CASE UNCHANGED deskVars
    BY <1>6 DEF deskVars, DeskInv, CasesAgree, RefundHasCase, ClerksInHand, ClerkFits, FileAgrees, IsNewest, RefundCases
  <1> QED BY <1>1, <1>2, <1>3, <1>4, <1>5, <1>6 DEF DeskNext

\* Every case is of one piece, every reading in hand was right when it was
\* taken, and the refund's request has a case.
THEOREM DeskInvariant == DeskSpec => []DeskInv
  BY DeskInitInv, DeskStep, PTL DEF DeskSpec

\* SupportOpsService writes status, resolvedAt and timeline by what it has read
\* and decisions of refunds write the same case in between: resolvedAt fits the
\* status always, the timeline but for changes that met.
THEOREM CaseFileStaysOfOnePiece == DeskSpec => []CaseFileAgrees
  <1>1. DeskInv => CaseFileAgrees
    BY DEF DeskInv, CasesAgree, FileAgrees, CaseFileAgrees
  <1> QED BY <1>1, DeskInvariant, PTL

-----------------------------------------------------------------------------
(* The tickets of password recovery. *)

TicketStatuses == {"OPEN", "IN_PROGRESS", "RESOLVED", "CANCELED"}
Ticket == [status : TicketStatuses, closings : 0..2, met : BOOLEAN, beside : BOOLEAN]

\* A ticket that was closed is closed, unless it was written behind another
\* administrator; a second closing is such a write.
TicketOnce(r) ==
    /\ r.closings > 0 => TicketClosed(r.status) \/ r.met
    /\ r.closings > 1 => r.met

\* What a request has read of the queue: the tickets it knows of are closed, or
\* were opened again behind another administrator.
Known(a) ==
    /\ a.pc = "ask" => /\ a.seen \in Nat /\ a.seen <= Len(tickets)
                       /\ \A k \in 1 .. a.seen : TicketClosed(tickets[k].status) \/ tickets[k].met
    /\ a.pc = "recover" => /\ a.k \in 1 .. Len(tickets) /\ a.read \in TicketStatuses
                           /\ a.status \in TicketStatuses /\ ~TicketClosed(a.read)

\* Of two tickets the later one was asked for beside another, or the earlier one
\* is closed or was opened again behind another administrator.
Apart ==
    \A k, n \in 1 .. Len(tickets) :
        k < n => tickets[n].beside \/ tickets[k].met \/ TicketClosed(tickets[k].status)

RecoveryInv ==
    /\ tickets \in Seq(Ticket) /\ DOMAIN asker = Askers
    /\ \A k \in 1 .. Len(tickets) : TicketOnce(tickets[k])
    /\ \A c \in Askers : Known(asker[c])
    /\ Apart

LEMMA RecoveryInitInv == RecoveryInit => RecoveryInv
  BY DEF RecoveryInit, RecoveryInv, Known, Apart

\* A request goes on, the tickets stay.
LEMMA TurnInv ==
    ASSUME RecoveryInv, NEW c \in Askers, NEW step, Turn(c, step), Known(step), tickets' = tickets
    PROVE  RecoveryInv'
  <1>1. DOMAIN asker' = Askers /\ \A d \in Askers : asker'[d] = IF d = c THEN step ELSE asker[d]
    BY DEF Turn, RecoveryInv
  <1>2. \A d \in Askers : Known(asker[d])'
    BY <1>1 DEF RecoveryInv, Known
  <1>3. Apart' /\ \A k \in 1 .. Len(tickets') : TicketOnce(tickets[k])'
    BY DEF RecoveryInv, Apart, TicketOnce
  <1> QED BY <1>1, <1>2, <1>3 DEF RecoveryInv

\* A ticket is written, by a request that has ended then.
LEMMA TicketWriteInv ==
    ASSUME RecoveryInv, NEW c \in Askers, Turn(c, [pc |-> "idle"]),
           NEW k \in 1 .. Len(tickets), NEW row \in Ticket, TicketOnce(row),
           tickets' = [tickets EXCEPT ![k] = row],
           row.beside = tickets[k].beside, tickets[k].met => row.met,
           TicketClosed(tickets[k].status) => TicketClosed(row.status) \/ row.met
    PROVE  RecoveryInv'
  <1>1. /\ tickets' \in Seq(Ticket) /\ Len(tickets') = Len(tickets)
        /\ \A n \in 1 .. Len(tickets) : tickets'[n] = IF n = k THEN row ELSE tickets[n]
    BY DEF RecoveryInv
  <1>2. /\ DOMAIN asker' = Askers
        /\ \A d \in Askers : asker'[d] = IF d = c THEN [pc |-> "idle"] ELSE asker[d]
    BY DEF Turn, RecoveryInv
  <1>3. \A d \in Askers : Known(asker[d])'
    <2> SUFFICES ASSUME NEW d \in Askers PROVE Known(asker[d])'
      OBVIOUS
    <2>1. CASE d = c
      BY <1>2, <2>1 DEF Known
    <2>2. CASE d # c
      <3>1. Known(asker[d]) /\ asker'[d] = asker[d]
        BY <1>2, <2>2 DEF RecoveryInv
      <3>2. ASSUME asker[d].pc = "ask", NEW n \in 1 .. asker[d].seen
            PROVE  TicketClosed(tickets'[n].status) \/ tickets'[n].met
        <4>1. n \in 1 .. Len(tickets) /\ (TicketClosed(tickets[n].status) \/ tickets[n].met)
          BY <3>1, <3>2 DEF Known, RecoveryInv
        <4> QED BY <1>1, <4>1
      <3> QED BY <1>1, <3>1, <3>2 DEF Known, TicketClosed
    <2> QED BY <2>1, <2>2
  <1>4. \A n \in 1 .. Len(tickets') : TicketOnce(tickets[n])'
    BY <1>1 DEF RecoveryInv, TicketOnce, TicketClosed
  <1>5. Apart'
    <2> SUFFICES ASSUME NEW m \in 1 .. Len(tickets), NEW n \in 1 .. Len(tickets), m < n
                 PROVE  tickets'[n].beside \/ tickets'[m].met \/ TicketClosed(tickets'[m].status)
      BY <1>1 DEF Apart, TicketClosed
    <2>1. tickets[n].beside \/ tickets[m].met \/ TicketClosed(tickets[m].status)
      BY DEF RecoveryInv, Apart
    <2> QED BY <1>1, <2>1
  <1> QED BY <1>1, <1>2, <1>3, <1>4, <1>5 DEF RecoveryInv

\* What one write makes of a ticket.
LEMMA TicketWritten ==
    ASSUME NEW old \in Ticket, NEW s, NEW n, NEW m
    PROVE  [old EXCEPT !.status = s, !.closings = n, !.met = m]
               = [status |-> s, closings |-> n, met |-> m, beside |-> old.beside]
  <1>1. PICK r : r = [old EXCEPT !.status = s]
    OBVIOUS
  <1>2. r = [status |-> s, closings |-> old.closings, met |-> old.met, beside |-> old.beside]
    BY <1>1 DEF Ticket
  <1>3. PICK q : q = [r EXCEPT !.closings = n]
    OBVIOUS
  <1>4. q = [status |-> s, closings |-> n, met |-> old.met, beside |-> old.beside]
    BY <1>2, <1>3
  <1>5. [q EXCEPT !.met = m] = [status |-> s, closings |-> n, met |-> m, beside |-> old.beside]
    BY <1>4
  <1> QED BY <1>1, <1>3, <1>5

LEMMA AskInv ==
    ASSUME RecoveryInv, NEW c \in Askers, RequestPasswordRecovery(c)
    PROVE  RecoveryInv'
  <1>1. PICK row : row = [status |-> "OPEN", closings |-> 0, met |-> FALSE,
                          beside |-> Len(tickets) > asker[c].seen]
    OBVIOUS
  <1>2. /\ asker[c].pc = "ask" /\ tickets' = Append(tickets, row) /\ Turn(c, [pc |-> "idle"])
        /\ Known(asker[c]) /\ tickets \in Seq(Ticket)
    BY <1>1 DEF RequestPasswordRecovery, RecoveryInv
  <1>3. row \in Ticket /\ TicketOnce(row)
    BY <1>1 DEF Ticket, TicketStatuses, TicketOnce
  <1>4. /\ tickets' \in Seq(Ticket) /\ Len(tickets') = Len(tickets) + 1 /\ Len(tickets) \in Nat
        /\ tickets'[Len(tickets) + 1] = row
        /\ \A n \in 1 .. Len(tickets) : tickets'[n] = tickets[n]
    BY <1>2, <1>3
  <1>5. /\ DOMAIN asker' = Askers
        /\ \A d \in Askers : asker'[d] = IF d = c THEN [pc |-> "idle"] ELSE asker[d]
    BY <1>2 DEF Turn, RecoveryInv
  <1>6. \A d \in Askers : Known(asker[d])'
    <2> SUFFICES ASSUME NEW d \in Askers PROVE Known(asker[d])'
      OBVIOUS
    <2>1. CASE d = c
      BY <1>5, <2>1 DEF Known
    <2>2. CASE d # c
      <3>1. Known(asker[d]) /\ asker'[d] = asker[d]
        BY <1>5, <2>2 DEF RecoveryInv
      <3>2. ASSUME asker[d].pc = "ask", NEW n \in 1 .. asker[d].seen
            PROVE  tickets'[n] = tickets[n]
        BY <1>4, <3>1, <3>2 DEF Known
      <3> QED BY <1>4, <3>1, <3>2 DEF Known, TicketClosed
    <2> QED BY <2>1, <2>2
  <1>7. \A n \in 1 .. Len(tickets') : TicketOnce(tickets[n])'
    BY <1>3, <1>4 DEF RecoveryInv, TicketOnce, TicketClosed
  <1>8. Apart'
    <2> SUFFICES ASSUME NEW m \in 1 .. Len(tickets) + 1, NEW n \in 1 .. Len(tickets) + 1, m < n
                 PROVE  tickets'[n].beside \/ tickets'[m].met \/ TicketClosed(tickets'[m].status)
      BY <1>4 DEF Apart, TicketClosed
    <2>0. m \in 1 .. Len(tickets) /\ tickets'[m] = tickets[m]
      BY <1>4
    <2>1. CASE n = Len(tickets) + 1
      <3>1. asker[c].seen \in Nat /\ asker[c].seen <= Len(tickets)
        BY <1>2 DEF Known
      <3>2. CASE asker[c].seen < Len(tickets)
        <4>1. Len(tickets) > asker[c].seen
          BY <1>4, <3>1, <3>2
        <4>2. row.beside
          BY <1>1, <4>1, Zenon
        <4> QED BY <1>4, <2>1, <4>2
      <3>3. CASE asker[c].seen = Len(tickets)
        BY <1>2, <2>0, <3>3 DEF Known
      <3> QED BY <1>4, <3>1, <3>2, <3>3
    <2>2. CASE n \in 1 .. Len(tickets)
      <3>1. tickets[n].beside \/ tickets[m].met \/ TicketClosed(tickets[m].status)
        BY <2>0, <2>2 DEF RecoveryInv, Apart
      <3> QED BY <1>4, <2>0, <2>2, <3>1
    <2> QED BY <1>4, <2>1, <2>2
  <1> QED BY <1>4, <1>5, <1>6, <1>7, <1>8 DEF RecoveryInv

LEMMA UpdateTicketInv ==
    ASSUME RecoveryInv, NEW c \in Askers, UpdatePasswordRecoveryRequest(c)
    PROVE  RecoveryInv'
  <1>1. PICK w : w = asker[c]
    OBVIOUS
  <1>2. PICK old : old = tickets[w.k]
    OBVIOUS
  <1>3. /\ w.k \in 1 .. Len(tickets) /\ w.read \in TicketStatuses /\ w.status \in TicketStatuses
        /\ ~TicketClosed(w.read) /\ old \in Ticket /\ TicketOnce(old)
    BY <1>1, <1>2 DEF UpdatePasswordRecoveryRequest, RecoveryInv, Known
  <1>4. PICK n : n = IF TicketClosed(w.status) /\ old.closings < 2 THEN old.closings + 1
                     ELSE old.closings
    OBVIOUS
  <1>5. PICK m : m = (old.met \/ old.status # w.read)
    OBVIOUS
  <1>6. PICK row : row = [status |-> w.status, closings |-> n, met |-> m, beside |-> old.beside]
    OBVIOUS
  <1>7. tickets' = [tickets EXCEPT ![w.k] = row]
    <2>1. PICK new : new = [old EXCEPT
              !.status = w.status,
              !.closings = IF TicketClosed(w.status) /\ @ < 2 THEN @ + 1 ELSE @,
              !.met = @ \/ old.status # w.read]
      OBVIOUS
    <2>2. new = [old EXCEPT !.status = w.status, !.closings = n, !.met = m]
      BY <1>4, <1>5, <2>1, Zenon
    <2>3. tickets' = [tickets EXCEPT ![w.k] = new]
      BY <1>1, <1>2, <2>1, Zenon DEF UpdatePasswordRecoveryRequest
    <2>4. new = row
      BY <1>3, <1>6, <2>2, TicketWritten, Zenon
    <2> QED BY <2>3, <2>4, Zenon
  <1>8. row \in Ticket
    <2>1. n \in 0 .. 2 /\ m \in BOOLEAN /\ old.beside \in BOOLEAN
      BY <1>3, <1>4, <1>5 DEF Ticket
    <2> QED BY <1>3, <1>6, <2>1 DEF Ticket
  <1>9. (old.met => row.met) /\ (TicketClosed(old.status) => row.met)
    BY <1>3, <1>5, <1>6 DEF TicketClosed
  <1>10. TicketOnce(row)
    <2>0. m <=> (old.met \/ old.status # w.read)
      BY <1>5
    <2>1. n > 0 => TicketClosed(w.status) \/ m
      BY <1>3, <1>4, <2>0 DEF TicketOnce, TicketClosed, Ticket
    <2>2. n > 1 => m
      BY <1>3, <1>4, <2>0 DEF TicketOnce, TicketClosed, Ticket
    <2> QED BY <1>6, <2>1, <2>2 DEF TicketOnce
  <1> QED BY <1>2, <1>3, <1>6, <1>7, <1>8, <1>9, <1>10, TicketWriteInv DEF UpdatePasswordRecoveryRequest

LEMMA RecoveryStep == RecoveryInv /\ [RecoveryNext]_recoveryVars => RecoveryInv'
  <1> SUFFICES ASSUME RecoveryInv, [RecoveryNext]_recoveryVars PROVE RecoveryInv'
    OBVIOUS
  <1>1. ASSUME NEW c \in Askers, ReadTickets(c) PROVE RecoveryInv'
    <2>1. CASE OpenTickets # {}
      BY <1>1, <2>1 DEF ReadTickets, RecoveryInv, Known, Apart, TicketOnce
    <2>2. CASE OpenTickets = {}
      <3>1. PICK step : step = [pc |-> "ask", seen |-> Len(tickets)]
        OBVIOUS
      <3>2. Known(step)
        BY <2>2, <3>1 DEF Known, OpenTickets, RecoveryInv
      <3> QED BY <1>1, <2>2, <3>1, <3>2, TurnInv DEF ReadTickets
    <2> QED BY <2>1, <2>2
  <1>2. ASSUME NEW c \in Askers, RequestPasswordRecovery(c) PROVE RecoveryInv'
    BY <1>2, AskInv
  <1>3. ASSUME NEW c \in Askers, NEW k \in DOMAIN tickets,
               NEW status \in {"IN_PROGRESS", "RESOLVED", "CANCELED"}, ReadTicket(c, k, status)
        PROVE  RecoveryInv'
    <2>1. PICK step : step = [pc |-> "recover", k |-> k, read |-> tickets[k].status,
                              status |-> status]
      OBVIOUS
    <2>2. k \in 1 .. Len(tickets) /\ tickets[k].status \in TicketStatuses /\ status \in TicketStatuses
      <3>1. k \in 1 .. Len(tickets) /\ tickets[k] \in Ticket
        BY DEF RecoveryInv
      <3> QED BY <3>1 DEF Ticket, TicketStatuses
    <2>3. Known(step)
      BY <1>3, <2>1, <2>2 DEF Known, ReadTicket
    <2> QED BY <1>3, <2>1, <2>3, TurnInv DEF ReadTicket
  <1>4. ASSUME NEW c \in Askers, UpdatePasswordRecoveryRequest(c) PROVE RecoveryInv'
    BY <1>4, UpdateTicketInv
  <1>5. ASSUME NEW c \in Askers, LeaveTicket(c) PROVE RecoveryInv'
    <2>1. Known([pc |-> "idle"])
      BY DEF Known
    <2> QED BY <1>5, <2>1, TurnInv DEF LeaveTicket
  <1>6. CASE UNCHANGED recoveryVars
    BY <1>6 DEF recoveryVars, RecoveryInv, Known, Apart, TicketOnce
  <1> QED BY <1>1, <1>2, <1>3, <1>4, <1>5, <1>6 DEF RecoveryNext

\* Two open tickets, or a second closing, are writes that met another.
LEMMA TicketsApart == RecoveryInv => OneTicketClosedOnce
  BY DEF RecoveryInv, Apart, TicketOnce, OneTicketClosedOnce, OpenTickets

\* An address has one ticket in the queue and a ticket is closed once, whatever is
\* read before it is written, unless two requests met (AuthService reads for an open
\* ticket before it creates one, and the status of a ticket before it updates it).
THEOREM TicketsCloseOnce == RecoverySpec => []OneTicketClosedOnce
  <1>1. RecoverySpec => []RecoveryInv
    BY RecoveryInitInv, RecoveryStep, PTL DEF RecoverySpec
  <1> QED BY <1>1, TicketsApart, PTL

-----------------------------------------------------------------------------
(* The consoles. *)

Stages == {"idle", "first", "confirm", "again", "load"}
Operations == Critical \union {"reconcile", "case", "none"}
Pressed == [at : Stages, op : Operations, on : Items \union {"none"}, ran : {0, 1},
            spared : BOOLEAN, unheard : BOOLEAN, told : {"nothing", "success", "failure"}]

\* What a click knows: until it has got through the API did nothing for it, while
\* it loads the page it did it once or was spared it, and in the end the message
\* says so.
Honest(c) ==
    /\ c.at \in {"first", "confirm", "again"} => c.ran = 0 /\ ~c.spared
    /\ c.at = "load" => c.ran = 1 \/ c.spared
    /\ c.spared => c.ran = 0
    /\ c.at # "idle" => c.told = "nothing"
    /\ c.told = "success" => c.ran = 1 \/ c.spared
    /\ c.told = "failure" => c.ran = 0 \/ c.unheard

ConsoleInv ==
    /\ DOMAIN click = Clicks
    /\ \A k \in Clicks : /\ click[k] \in Pressed /\ Honest(click[k])
                         /\ click[k].spared => keyed # {}

LEMMA ConsolesInitInv == ConsolesInit => ConsoleInv
  BY DEF ConsolesInit, ConsoleInv, Idle, Pressed, Honest, Stages, Operations

\* One click goes on; the keys of the payouts stay.
LEMMA ClickInv ==
    ASSUME ConsoleInv, NEW k \in Clicks, NEW c \in Pressed, Honest(c),
           c.spared => keyed # {}, keyed \subseteq keyed',
           click' = [click EXCEPT ![k] = c]
    PROVE  ConsoleInv'
  <1>1. DOMAIN click' = Clicks /\ \A j \in Clicks : click'[j] = IF j = k THEN c ELSE click[j]
    BY DEF ConsoleInv
  <1> QED BY <1>1 DEF ConsoleInv

\* The message that ends a click.
LEMMA SayInv ==
    ASSUME ConsoleInv, NEW k \in Clicks, NEW c, NEW told \in {"success", "failure"},
           c.ran \in {0, 1}, c.spared \in BOOLEAN, c.unheard \in BOOLEAN,
           c.spared => c.ran = 0 /\ keyed # {}, keyed \subseteq keyed',
           told = "success" => c.ran = 1 \/ c.spared,
           told = "failure" => c.ran = 0 \/ c.unheard,
           Say(k, c, told)
    PROVE  ConsoleInv'
  <1>1. PICK n : n = [Idle EXCEPT !.ran = c.ran]
    OBVIOUS
  <1>0. PICK m : m = [n EXCEPT !.spared = c.spared]
    OBVIOUS
  <1>2. PICK u : u = [m EXCEPT !.unheard = c.unheard]
    OBVIOUS
  <1>3. PICK s : s = [u EXCEPT !.told = told]
    OBVIOUS
  <1>4. m = [at |-> "idle", op |-> "none", on |-> "none", ran |-> c.ran, spared |-> c.spared,
             unheard |-> FALSE, told |-> "nothing"]
    BY <1>0, <1>1 DEF Idle
  <1>5. u = [at |-> "idle", op |-> "none", on |-> "none", ran |-> c.ran, spared |-> c.spared,
             unheard |-> c.unheard, told |-> "nothing"]
    BY <1>2, <1>4
  <1>6. s = [at |-> "idle", op |-> "none", on |-> "none", ran |-> c.ran, spared |-> c.spared,
             unheard |-> c.unheard, told |-> told]
    BY <1>3, <1>5
  <1>7. s \in Pressed
    <2>1. "idle" \in Stages /\ "none" \in Operations
      BY DEF Stages, Operations
    <2> QED BY <1>6, <2>1, Zenon DEF Pressed
  <1>8. Honest(s)
    <2>1. s.at = "idle" /\ s.ran = c.ran /\ s.spared = c.spared /\ s.unheard = c.unheard /\ s.told = told
      BY <1>6, Zenon
    <2> QED BY <2>1 DEF Honest
  <1>9. click' = [click EXCEPT ![k] = s]
    BY <1>0, <1>1, <1>2, <1>3 DEF Say
  <1>10. s.spared => keyed # {}
    BY <1>6
  <1> QED BY <1>7, <1>8, <1>9, <1>10, ClickInv

\* What a click knows, and that before it has got through it has done nothing.
LEMMA Knows ==
    ASSUME ConsoleInv, NEW k \in Clicks
    PROVE  /\ click[k] \in Pressed /\ Honest(click[k])
           /\ click[k].unheard \in BOOLEAN /\ click[k].spared \in BOOLEAN
           /\ click[k].ran \in {0, 1}
           /\ (click[k].spared => click[k].ran = 0 /\ keyed # {})
           /\ (click[k].at \in {"first", "confirm", "again"} =>
                  click[k].ran = 0 /\ click[k].spared = FALSE /\ click[k].told = "nothing")
           /\ (click[k].at = "load" => click[k].ran = 1 \/ click[k].spared)
  <1>1. click[k] \in Pressed /\ Honest(click[k]) /\ (click[k].spared => keyed # {})
    BY DEF ConsoleInv
  <1>2. click[k].unheard \in BOOLEAN /\ click[k].spared \in BOOLEAN /\ click[k].ran \in {0, 1}
    BY <1>1 DEF Pressed
  <1> QED BY <1>1, <1>2 DEF Honest

\* A click goes on to be confirmed or to be sent again.
LEMMA GoesOn ==
    ASSUME ConsoleInv, NEW k \in Clicks, click[k].at \in {"first", "confirm", "again"},
           NEW stage \in {"confirm", "again"}, keyed' = keyed,
           click' = [click EXCEPT ![k].at = stage]
    PROVE  ConsoleInv'
  <1>1. PICK c : c = click[k]
    OBVIOUS
  <1>2. PICK d : d = [c EXCEPT !.at = stage]
    OBVIOUS
  <1>3. c \in Pressed /\ c.ran = 0 /\ c.spared = FALSE /\ c.told = "nothing"
    BY <1>1, Knows
  <1>4. stage \in Stages
    BY DEF Stages
  <1>5. d \in Pressed /\ d.at = stage /\ d.ran = 0 /\ d.spared = FALSE /\ d.told = "nothing"
    BY <1>2, <1>3, <1>4 DEF Pressed
  <1>6. Honest(d)
    BY <1>5 DEF Honest
  <1>7. click' = [click EXCEPT ![k] = d]
    BY <1>1, <1>2
  <1> QED BY <1>5, <1>6, <1>7, ClickInv

\* An answer of the API, for a click that knows what it did.
LEMMA AnsweredInv ==
    ASSUME ConsoleInv, NEW k \in Clicks, NEW c \in Pressed, c.told = "nothing",
           (c.ran = 1 /\ ~c.spared) \/ (c.ran = 0 /\ c.spared /\ keyed # {}),
           keyed \subseteq keyed', Answered(k, c)
    PROVE  ConsoleInv'
  <1>1. CASE click' = [click EXCEPT ![k] = [c EXCEPT !.at = "load"]]
    <2>1. PICK d : d = [c EXCEPT !.at = "load"]
      OBVIOUS
    <2>2. "load" \in Stages
      BY DEF Stages
    <2>3. /\ d \in Pressed /\ d.at = "load" /\ d.ran = c.ran /\ d.spared = c.spared
          /\ d.told = c.told
      BY <2>1, <2>2 DEF Pressed
    <2>4. Honest(d) /\ (d.spared => keyed # {})
      BY <2>3 DEF Honest
    <2> QED BY <1>1, <2>1, <2>3, <2>4, ClickInv
  <1>2. CASE GiveUp(k, [c EXCEPT !.unheard = TRUE])
    <2>1. PICK d : d = [c EXCEPT !.unheard = TRUE]
      OBVIOUS
    <2>2. d.ran = c.ran /\ d.spared = c.spared /\ d.unheard = TRUE
      BY <2>1 DEF Pressed
    <2>3. Say(k, d, "failure")
      BY <1>2, <2>1 DEF GiveUp
    <2>4. c.spared \in BOOLEAN
      BY DEF Pressed
    <2> QED BY <2>2, <2>3, <2>4, SayInv
  <1> QED BY <1>1, <1>2 DEF Answered

\* What the API makes of a request, or its refusal.
LEMMA RunInv ==
    ASSUME ConsoleInv, NEW k \in Clicks, click[k].at \in {"first", "again"}, Run(k)
    PROVE  ConsoleInv'
  <1>1. PICK c : c = click[k]
    OBVIOUS
  <1>2. /\ c \in Pressed /\ c.ran = 0 /\ c.spared = FALSE /\ c.told = "nothing"
        /\ c.unheard \in BOOLEAN
    BY <1>1, Knows
  <1>3. CASE Refuse(k)
    <2>1. Say(k, c, "failure") /\ keyed' = keyed
      BY <1>1, <1>3 DEF Refuse, GiveUp
    <2> QED BY <1>2, <2>1, SayInv
  <1>4. CASE Accept(k)
    <2>1. PICK spared, ran : spared = [c EXCEPT !.spared = TRUE] /\ ran = [c EXCEPT !.ran = @ + 1]
      OBVIOUS
    <2>2. /\ spared \in Pressed /\ spared.ran = 0 /\ spared.spared = TRUE
          /\ spared.told = "nothing"
      BY <1>2, <2>1 DEF Pressed
    <2>3. ran = [c EXCEPT !.ran = 1]
      BY <1>2, <2>1 DEF Pressed
    <2>4. ran \in Pressed /\ ran.ran = 1 /\ ran.spared = FALSE /\ ran.told = "nothing"
      BY <1>2, <2>3 DEF Pressed
    <2>5. keyed \subseteq keyed'
      BY <1>4 DEF Accept, Decide
    <2>6. \/ keyed # {} /\ Answered(k, spared)
          \/ Answered(k, ran)
      BY <1>1, <1>4, <2>1 DEF Accept
    <2>7. CASE keyed # {} /\ Answered(k, spared)
      BY <2>2, <2>5, <2>7, AnsweredInv
    <2>8. CASE Answered(k, ran)
      BY <2>4, <2>5, <2>8, AnsweredInv
    <2> QED BY <2>6, <2>7, <2>8
  <1> QED BY <1>3, <1>4 DEF Run

\* An action is started, from a click that says nothing yet.
LEMMA StartInv ==
    ASSUME ConsoleInv, NEW k \in Clicks, NEW op \in Critical \union {"reconcile", "case"},
           NEW i \in Items, Start(k, op, i)
    PROVE  ConsoleInv'
  <1>0. PICK w \in Items \union {"none"} : w = RowOf(op, i)
    BY DEF RowOf
  <1>1. PICK s : s = [Idle EXCEPT !.at = "first", !.op = op, !.on = w]
    OBVIOUS
  <1>2. PICK a : a = [Idle EXCEPT !.at = "first"]
    OBVIOUS
  <1>3. PICK b : b = [a EXCEPT !.op = op]
    OBVIOUS
  <1>4. a = [at |-> "first", op |-> "none", on |-> "none", ran |-> 0, spared |-> FALSE,
             unheard |-> FALSE, told |-> "nothing"]
    BY <1>2 DEF Idle
  <1>5. b = [at |-> "first", op |-> op, on |-> "none", ran |-> 0, spared |-> FALSE,
             unheard |-> FALSE, told |-> "nothing"]
    BY <1>3, <1>4
  <1>6. s = [b EXCEPT !.on = w]
    BY <1>1, <1>2, <1>3
  <1>7. s = [at |-> "first", op |-> op, on |-> w, ran |-> 0, spared |-> FALSE,
             unheard |-> FALSE, told |-> "nothing"]
    BY <1>5, <1>6
  <1>8. s \in Pressed /\ Honest(s) /\ s.spared = FALSE
    BY <1>7 DEF Pressed, Honest, Stages, Operations
  <1>9. click' = [click EXCEPT ![k] = s]
    BY <1>0, <1>1 DEF Start
  <1>10. keyed' = keyed
    BY DEF Start
  <1> QED BY <1>8, <1>9, <1>10, ClickInv

LEMMA ConsolesStep == ConsoleInv /\ [ConsolesNext]_consoleVars => ConsoleInv'
  <1> SUFFICES ASSUME ConsoleInv, [ConsolesNext]_consoleVars PROVE ConsoleInv'
    OBVIOUS
  <1>0. ASSUME UNCHANGED click, keyed \subseteq keyed' PROVE ConsoleInv'
    BY <1>0 DEF ConsoleInv
  <1>1. CASE ElsewhereDecided \/ Reload \/ TicketCloses \/ UNCHANGED consoleVars
    <2>1. UNCHANGED click /\ keyed \subseteq keyed'
      BY <1>1 DEF ElsewhereDecided, Decide, Reload, TicketCloses, consoleVars
    <2> QED BY <1>0, <2>1
  <1>2. ASSUME NEW k \in Clicks, NEW op \in Critical \union {"reconcile", "case"}, NEW i \in Items,
               PressOnPayments(k, op, i) \/ PressOnSupport(k, op, i)
        PROVE  ConsoleInv'
    BY <1>2, StartInv DEF PressOnPayments, PressOnSupport
  <1>3. ASSUME NEW k \in Clicks, FirstCall(k) PROVE ConsoleInv'
    <2>0. click[k].at = "first"
      BY <1>3, Zenon DEF FirstCall, At
    <2>1. CASE Run(k)
      BY <2>0, <2>1, RunInv
    <2>2. CASE Say(k, click[k], "failure") /\ keyed' = keyed
      BY <2>0, <2>2, Knows, SayInv
    <2>3. CASE click' = [click EXCEPT ![k].at = "confirm"] /\ keyed' = keyed
      BY <2>0, <2>3, GoesOn
    <2> QED BY <1>3, <2>1, <2>2, <2>3 DEF FirstCall
  <1>4. ASSUME NEW k \in Clicks, Confirm(k) PROVE ConsoleInv'
    <2>1. click[k].at = "confirm" /\ keyed' = keyed
      BY <1>4, Zenon DEF Confirm, At
    <2>2. click' = [click EXCEPT ![k].at = "again"]
      BY <1>4, Zenon DEF Confirm
    <2> QED BY <2>1, <2>2, GoesOn
  <1>5. ASSUME NEW k \in Clicks, SecondCall(k) PROVE ConsoleInv'
    <2>0. click[k].at = "again"
      BY <1>5, Zenon DEF SecondCall, At
    <2>1. CASE Run(k)
      BY <2>0, <2>1, RunInv
    <2>2. CASE Say(k, click[k], "failure") /\ keyed' = keyed
      BY <2>0, <2>2, Knows, SayInv
    <2> QED BY <1>5, <2>1, <2>2 DEF SecondCall
  <1>6. ASSUME NEW k \in Clicks, Load(k) PROVE ConsoleInv'
    <2>0. click[k].at = "load" /\ keyed' = keyed
      BY <1>6, Zenon DEF Load, At
    <2>1. CASE Say(k, click[k], "success")
      BY <2>0, <2>1, Knows, SayInv
    <2>2. CASE Say(k, [click[k] EXCEPT !.unheard = TRUE], "failure")
      <3>1. PICK d : d = [click[k] EXCEPT !.unheard = TRUE]
        OBVIOUS
      <3>2. click[k] \in Pressed
        BY Knows
      <3>3. d.ran = click[k].ran /\ d.spared = click[k].spared /\ d.unheard = TRUE
        BY <3>1, <3>2 DEF Pressed
      <3>4. Say(k, d, "failure")
        BY <2>2, <3>1
      <3> QED BY <2>0, <3>3, <3>4, Knows, SayInv
    <2> QED BY <1>6, <2>1, <2>2 DEF Load
  <1>7. ASSUME NEW k \in Clicks, Breaks(k) PROVE ConsoleInv'
    <2>0. click[k].at \in {"first", "confirm", "again"} /\ keyed' = keyed
      BY <1>7, Zenon DEF Breaks
    <2>1. Say(k, click[k], "failure")
      BY <1>7, Zenon DEF Breaks, GiveUp
    <2> QED BY <2>0, <2>1, Knows, SayInv
  <1> QED BY <1>1, <1>2, <1>3, <1>4, <1>5, <1>6, <1>7 DEF ConsolesNext

\* However many functions of the page run at once and take the challenge from each
\* other, a click that has been confirmed sends what it asks for at most once to an
\* API that does it, and the message tells the administrator which, but for a payout
\* that was carried out before (runCriticalAdminAction and the handlers of both
\* pages, adminProcessPayout).
THEOREM ClicksRunOnce == ConsolesSpec => []ClickRunsOnce
  <1>1. ConsolesSpec => []ConsoleInv
    BY ConsolesInitInv, ConsolesStep, PTL DEF ConsolesSpec
  <1>2. ConsoleInv => ClickRunsOnce
    BY DEF ConsoleInv, ClickRunsOnce, Honest, Pressed
  <1> QED BY <1>1, <1>2, PTL
=============================================================================
