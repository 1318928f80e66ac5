-------------------------- MODULE Settlement_proofs --------------------------
(***************************************************************************)
(* That no refund and no payout is carried out twice, that none shows      *)
(* success without the gateway, and that every entry of the ledger is      *)
(* accounted for, for any number of rows and requests; and that requests   *)
(* that do not overlap keep the ledger's promise, which is Escrow.         *)
(*                                                                         *)
(* The status that a request has checked may have been overwritten by the  *)
(* time it commits.  What still holds then is what the database holds for  *)
(* it: the lock on the row and the unique key of the transaction.          *)
(***************************************************************************)
EXTENDS Settlement, Arithmetic_proofs, FiniteSetTheorems, TLAPS

USE SettlementAssumption, LedgerAssumption

-----------------------------------------------------------------------------
(* The database's `_sum', which the model folds over a set of rows. *)

\* The sum of the rows of a set depends on their amounts alone.
LEMMA AmountsCongruent ==
    ASSUME NEW S, IsFiniteSet(S), NEW rowsOf, NEW rowsTo,
           \A x \in S : rowsOf[x].amount = rowsTo[x].amount
    PROVE  AmountSum(rowsOf, S) = AmountSum(rowsTo, S)
  <1>1. [x \in S |-> rowsOf[x].amount] = [x \in S |-> rowsTo[x].amount]
    OBVIOUS
  <1> QED BY <1>1 DEF AmountSum

LEMMA AmountsEmpty == ASSUME NEW rowsOf PROVE AmountSum(rowsOf, {}) = 0
  BY SumEmpty DEF AmountSum

\* A sum of naturals is a natural, and one row more adds its amount.
LEMMA AmountsAdd ==
    ASSUME NEW S, IsFiniteSet(S), NEW rowsOf, \A x \in S : rowsOf[x].amount \in Nat
    PROVE  /\ AmountSum(rowsOf, S) \in Nat
           /\ \A x \in S :
                 AmountSum(rowsOf, S) = AmountSum(rowsOf, S \ {x}) + rowsOf[x].amount
  <1>1. PICK f : f = [x \in S |-> rowsOf[x].amount]
    OBVIOUS
  <1>2. \A x \in S : f[x] = rowsOf[x].amount /\ f[x] \in Nat
    BY <1>1
  <1>3. /\ SumFunctionOnSet(f, S) \in Nat
        /\ \A x \in S : SumFunctionOnSet(f, S) = SumFunctionOnSet(f, S \ {x}) + f[x]
    BY <1>2, SumAdd
  <1>4. AmountSum(rowsOf, S) = SumFunctionOnSet(f, S)
    BY <1>1 DEF AmountSum
  <1>5. ASSUME NEW x \in S PROVE AmountSum(rowsOf, S \ {x}) = SumFunctionOnSet(f, S \ {x})
    <2>1. PICK e : e = [y \in S \ {x} |-> rowsOf[y].amount]
      OBVIOUS
    <2>2. \A y \in S \ {x} : e[y] = f[y]
      BY <2>1, <1>2
    <2>3. IsFiniteSet(S \ {x})
      BY FS_RemoveElement
    <2>4. SumFunctionOnSet(e, S \ {x}) = SumFunctionOnSet(f, S \ {x})
      BY <2>2, <2>3, SumCongruent
    <2> QED BY <2>1, <2>4 DEF AmountSum
  <1> QED BY <1>2, <1>3, <1>4, <1>5

-----------------------------------------------------------------------------
(* Who holds a row and a key. *)

\* The places at which a request holds the row of its refund or payout.
Holding == {"askRefund", "settle", "commitRefund", "commitPayout"}

\* Of these, where it has also inserted the transaction row.
Inserted == {"settle", "commitRefund", "commitPayout"}

\* Where it carries what the gateway has answered.
Carrying == {"settle", "commitRefund", "recheckPayout", "insertPayout", "commitPayout"}

Processing == {"process", "recheck", "approve", "askRefund"}
Paying     == {"recheckPayout", "insertPayout", "commitPayout"}

\* What a request has in hand, by its place.
Fits(q) ==
    /\ q.pc \in Processing => q \in [pc : Processing, item : Refunds]
    /\ q.pc \in {"settle", "commitRefund"} => q.item \in Refunds
    /\ q.pc = "closeRefund" => q.item \in Refunds /\ q.next \in {"CANCELED", "FAILED"}
    /\ q.pc \in {"approvePayout", "askPayout"} => q.item \in Payouts
    /\ q.pc \in Paying => q \in [pc : Paying, item : Payouts, status : PayoutAnswers]

Heard(q) == q.pc \in Carrying => q.status \in answered[q.item]

FirstOfKey(q) == q.pc \in Inserted => txn[q.item] = "none"

\* Amounts are left open: nothing here depends on them.
Shape ==
    /\ DOMAIN refund = Refunds /\ \A x \in Refunds : "status" \in DOMAIN refund[x]
    /\ DOMAIN payout = Payouts /\ \A p \in Payouts : "status" \in DOMAIN payout[p]
    /\ txn \in [Moves -> TxStatus \union {"none"}]
    /\ answered \in [Moves -> SUBSET GatewayStatus]
    /\ settled \subseteq Moves
    /\ DOMAIN req = Operators /\ \A r \in Operators : Fits(req[r])

Apart(q, p) == q.pc \in Holding /\ p.pc \in Holding => q.item # p.item

OneHolder == \A r, q \in Operators : r # q => Apart(req[r], req[q])

InHand == \A r \in Operators : Heard(req[r]) /\ FirstOfKey(req[r])

SettledHasKey == \A m \in settled : txn[m] # "none"

IndInv == Shape /\ OneHolder /\ InHand /\ SettledHasKey /\ PaidWasConfirmed

-----------------------------------------------------------------------------
(* Every transaction row that is written takes its key for good. *)

LEMMA KeyTaken == ASSUME NEW s \in GatewayStatus
                  PROVE  TxStatusOf(s) \in TxStatus /\ TxStatusOf(s) # "none"
  BY DEF TxStatusOf, GatewayStatus, TxStatus

LEMMA InitIndInv == Init => IndInv
  BY DEF Init, IndInv, Shape, OneHolder, InHand, SettledHasKey, PaidWasConfirmed, Apart,
         Fits, Heard, FirstOfKey, Idle, NoRow, Moves, Holding, Inserted, Carrying, Processing, Paying

\* A request that goes from one place to another while the rows stay.
LEMMA MoveOn ==
    ASSUME IndInv, NEW r \in Operators, NEW step, Hold(r, step),
           Fits(step), Heard(step), FirstOfKey(step),
           \A q \in Operators \ {r} : Apart(req[q], step)
    PROVE  IndInv'
  <1> USE DEF Hold, Goto, rows, world
  <1>1. /\ DOMAIN req' = Operators /\ req'[r] = step
        /\ \A q \in Operators : q # r => req'[q] = req[q]
    BY DEF IndInv, Shape
  <1>3. Shape'
    <2>1. \A q \in Operators : Fits(req'[q])
      BY <1>1 DEF IndInv, Shape
    <2> QED BY <1>1, <2>1 DEF IndInv, Shape, Fits
  <1>4. OneHolder'
    BY <1>1 DEF IndInv, OneHolder, Apart
  <1>5. InHand'
    BY <1>1 DEF IndInv, InHand, Heard, FirstOfKey
  <1>6. SettledHasKey' /\ PaidWasConfirmed'
    BY DEF IndInv, SettledHasKey, PaidWasConfirmed
  <1> QED BY <1>3, <1>4, <1>5, <1>6 DEF IndInv


-----------------------------------------------------------------------------
(* Requests arrive, read and decide. *)

\* A place at which nothing is locked, inserted or carried, with an item if any.
LEMMA Plain ==
    ASSUME NEW step, step.pc \notin Holding \union Carrying
    PROVE  /\ Heard(step) /\ FirstOfKey(step)
           /\ \A q \in Operators : Apart(req[q], step)
  BY DEF Holding, Carrying, Inserted, Heard, FirstOfKey, Apart

LEMMA ToIdle ==
    ASSUME IndInv, NEW r \in Operators, Hold(r, Idle)
    PROVE  IndInv'
  <1>1. Fits(Idle) /\ Idle.pc \notin Holding \union Carrying
    BY DEF Idle, Fits, Holding, Carrying, Processing, Paying
  <1> QED BY <1>1, Plain, MoveOn

\* The places of the steps that only read.
LEMMA ToPlain ==
    ASSUME IndInv, NEW r \in Operators, NEW step, Hold(r, step), Fits(step),
           step.pc \notin Holding \union Carrying
    PROVE  IndInv'
  BY Plain, MoveOn

LEMMA ArriveIndInv ==
    ASSUME IndInv, NEW r \in Operators, Arrive(r)
    PROVE  IndInv'
  <1> USE DEF Holding, Carrying, Processing, Paying, Fits
  <1>1. CASE RequestRefund(r)
    <2>1. PICK amount : Hold(r, [pc |-> "createRefund", amount |-> amount, then |-> "wait"])
      BY <1>1 DEF RequestRefund
    <2> QED BY <2>1, ToPlain
  <1>2. CASE AdminRequestRefund(r)
    <2>1. PICK amount : Hold(r, [pc |-> "createRefund", amount |-> amount, then |-> "process"])
      BY <1>2 DEF AdminRequestRefund
    <2> QED BY <2>1, ToPlain
  <1>3. CASE \E x \in Refunds : ApproveRefund(r, x)
    <2>1. PICK x \in Refunds : Hold(r, [pc |-> "process", item |-> x])
      BY <1>3 DEF ApproveRefund
    <2> QED BY <2>1, ToPlain
  <1>4. CASE \E x \in Refunds : CloseRefund(r, x)
    <2>1. PICK x \in Refunds, next \in {"CANCELED", "FAILED"} :
              Hold(r, [pc |-> "closeRefund", item |-> x, next |-> next])
      BY <1>4 DEF CloseRefund
    <2> QED BY <2>1, ToPlain
  <1>5. CASE ReadAvailable(r)
    <2>1. Hold(r, [pc |-> "reserve", available |-> books["PROVIDER_AVAILABLE"]])
      BY <1>5 DEF ReadAvailable
    <2> QED BY <2>1, ToPlain
  <1>6. CASE ReleaseFunds(r)
    <2>1. Hold(r, [pc |-> "release"])
      BY <1>6 DEF ReleaseFunds
    <2> QED BY <2>1, ToPlain
  <1>7. CASE \E p \in Payouts : ApprovePayout(r, p)
    <2>1. PICK p \in Payouts : Hold(r, [pc |-> "approvePayout", item |-> p])
      BY <1>7 DEF ApprovePayout
    <2> QED BY <2>1, ToPlain
  <1>8. CASE \E p \in Payouts : ProcessPayout(r, p)
    <2>1. PICK p \in Payouts : Hold(r, [pc |-> "askPayout", item |-> p])
      BY <1>8 DEF ProcessPayout
    <2> QED BY <2>1, ToPlain
  <1> QED BY <1>1, <1>2, <1>3, <1>4, <1>5, <1>6, <1>7, <1>8 DEF Arrive

-----------------------------------------------------------------------------
(* Steps of a request that is under way and writes no row. *)

LEMMA ReadingIndInv ==
    ASSUME IndInv, NEW r \in Operators,
           CheckRefund(r) \/ RecheckRefund(r) \/ CheckPayout(r) \/ ReadHeld(r)
    PROVE  IndInv'
  <1> USE DEF Holding, Carrying
  <1>f. Fits(req[r])
    BY DEF IndInv, Shape
  <1>1. CASE CheckRefund(r)
    <2>1. Hold(r, Idle) \/ Hold(r, [req[r] EXCEPT !.pc = "recheck"])
      BY <1>1 DEF CheckRefund
    <2>2. /\ Fits([req[r] EXCEPT !.pc = "recheck"])
          /\ [req[r] EXCEPT !.pc = "recheck"].pc = "recheck"
      BY <1>1, <1>f DEF CheckRefund, At, Fits, Processing, Paying
    <2> QED BY <2>1, <2>2, ToIdle, ToPlain
  <1>2. CASE RecheckRefund(r)
    <2>1. Hold(r, Idle) \/ Hold(r, [req[r] EXCEPT !.pc = "approve"])
      BY <1>2 DEF RecheckRefund
    <2>2. /\ Fits([req[r] EXCEPT !.pc = "approve"])
          /\ [req[r] EXCEPT !.pc = "approve"].pc = "approve"
      BY <1>2, <1>f DEF RecheckRefund, At, Fits, Processing, Paying
    <2> QED BY <2>1, <2>2, ToIdle, ToPlain
  <1>3. CASE CheckPayout(r)
    <2>1. PICK amount : \/ Hold(r, Idle)
                        \/ Hold(r, [pc |-> "createPayout", amount |-> amount])
      BY <1>3 DEF CheckPayout
    <2>2. Fits([pc |-> "createPayout", amount |-> amount])
      BY DEF Fits, Processing, Paying
    <2> QED BY <2>1, <2>2, ToIdle, ToPlain
  <1>4. CASE ReadHeld(r)
    <2>1. \/ Hold(r, Idle)
          \/ Hold(r, [pc |-> "commitRelease", held |-> books["PROVIDER_HELD"]])
      BY <1>4 DEF ReadHeld
    <2>2. Fits([pc |-> "commitRelease", held |-> books["PROVIDER_HELD"]])
      BY DEF Fits, Processing, Paying
    <2> QED BY <2>1, <2>2, ToIdle, ToPlain
  <1> QED BY <1>1, <1>2, <1>3, <1>4

\* The first update of a transaction takes the row if nobody holds it.
LEMMA LockRefundIndInv ==
    ASSUME IndInv, NEW r \in Operators, LockRefund(r)
    PROVE  IndInv'
  <1>1. PICK step : step = [req[r] EXCEPT !.pc = "askRefund"]
    OBVIOUS
  <1>2. Hold(r, step)
    BY <1>1 DEF LockRefund
  <1>3. Fits(step) /\ step.pc = "askRefund" /\ step.item = req[r].item
    BY <1>1 DEF LockRefund, At, IndInv, Shape, Fits, Processing, Paying
  <1>4. Heard(step) /\ FirstOfKey(step)
    BY <1>3 DEF Heard, FirstOfKey, Carrying, Inserted
  <1>5. \A q \in Operators : Apart(req[q], step)
    BY <1>3 DEF LockRefund, RowFree, Apart, Holding
  <1> QED BY <1>2, <1>3, <1>4, <1>5, MoveOn

LEMMA SettleRefundIndInv ==
    ASSUME IndInv, NEW r \in Operators, SettleRefund(r)
    PROVE  IndInv'
  <1>1. PICK held, step :
          /\ step = [pc |-> "commitRefund", item |-> req[r].item,
                     status |-> req[r].status, held |-> held]
          /\ Hold(r, Idle) \/ Hold(r, step)
    BY DEF SettleRefund
  <1>2. At(r, "settle") /\ Fits(req[r]) /\ Heard(req[r]) /\ FirstOfKey(req[r])
    BY DEF SettleRefund, IndInv, Shape, InHand
  <1>3. Fits(step)
    BY <1>1, <1>2 DEF At, Fits, Processing, Paying
  <1>4. Heard(step) /\ FirstOfKey(step)
    BY <1>1, <1>2 DEF At, Heard, FirstOfKey, Carrying, Inserted
  <1>5. \A q \in Operators \ {r} : Apart(req[q], step)
    BY <1>1, <1>2 DEF IndInv, OneHolder, Apart, At, Holding
  <1> QED BY <1>1, <1>3, <1>4, <1>5, MoveOn, ToIdle

LEMMA RecheckPayoutIndInv ==
    ASSUME IndInv, NEW r \in Operators, RecheckPayout(r)
    PROVE  IndInv'
  <1>1. PICK step : step = [req[r] EXCEPT !.pc = "insertPayout"]
    OBVIOUS
  <1>2. Hold(r, Idle) \/ Hold(r, step)
    BY <1>1 DEF RecheckPayout
  <1>3. At(r, "recheckPayout") /\ Fits(req[r]) /\ Heard(req[r])
    BY DEF RecheckPayout, IndInv, Shape, InHand
  <1>4. Fits(step) /\ Heard(step) /\ step.pc = "insertPayout"
    BY <1>1, <1>3 DEF At, Fits, Heard, Processing, Paying, Carrying
  <1>5. FirstOfKey(step) /\ \A q \in Operators : Apart(req[q], step)
    BY <1>4 DEF FirstOfKey, Apart, Holding, Inserted
  <1> QED BY <1>2, <1>4, <1>5, MoveOn, ToIdle

\* The insert waits for the holder of the key and finds it free.
LEMMA InsertPayoutIndInv ==
    ASSUME IndInv, NEW r \in Operators, InsertPayout(r)
    PROVE  IndInv'
  <1>1. PICK step : step = [req[r] EXCEPT !.pc = "commitPayout"]
    OBVIOUS
  <1>2. Hold(r, Idle) \/ (KeyFree(req[r].item) /\ Hold(r, step))
    BY <1>1 DEF InsertPayout
  <1>3. /\ At(r, "insertPayout") /\ RowFree(req[r].item)
        /\ Fits(req[r]) /\ Heard(req[r])
    BY DEF InsertPayout, IndInv, Shape, InHand
  <1>4. Fits(step) /\ Heard(step) /\ step.pc = "commitPayout" /\ step.item = req[r].item
    BY <1>1, <1>3 DEF At, Fits, Heard, Processing, Paying, Carrying
  <1>5. KeyFree(req[r].item) => FirstOfKey(step)
    BY <1>4 DEF FirstOfKey, KeyFree
  <1>6. \A q \in Operators : Apart(req[q], step)
    BY <1>3, <1>4 DEF RowFree, Apart, Holding
  <1> QED BY <1>2, <1>4, <1>5, <1>6, MoveOn, ToIdle

-----------------------------------------------------------------------------
(* Steps that write. *)

LEMMA ItemIsMove ==
    ASSUME NEW q, Fits(q), q.pc \in Carrying
    PROVE  q.item \in Moves
  BY DEF Fits, Carrying, Paying, Moves

\* What a request that goes on leaves to the others: what the gateway has said is
\* never forgotten, and no key of theirs is taken.
LEMMA HandsOn ==
    ASSUME IndInv, NEW r \in Operators, NEW step, Goto(r, step),
           Fits(step), Heard(step)', FirstOfKey(step)',
           \A q \in Operators \ {r} : Apart(req[q], step),
           \A m \in Moves : answered[m] \subseteq answered'[m],
           \A q \in Operators \ {r} :
               req[q].pc \in Inserted => txn'[req[q].item] = txn[req[q].item]
    PROVE  /\ DOMAIN req' = Operators /\ \A q \in Operators : Fits(req'[q])
           /\ OneHolder' /\ InHand'
  <1>1. /\ DOMAIN req' = Operators /\ req'[r] = step
        /\ \A q \in Operators : q # r => req'[q] = req[q]
    BY DEF IndInv, Shape, Goto
  <1>2. \A q \in Operators : Fits(req'[q])
    BY <1>1 DEF IndInv, Shape
  <1>3. OneHolder'
    BY <1>1 DEF IndInv, OneHolder, Apart
  <1>4. ASSUME NEW q \in Operators PROVE Heard(req[q])' /\ FirstOfKey(req[q])'
    <2>1. CASE q = r
      BY <1>1, <2>1 DEF Heard, FirstOfKey
    <2>2. CASE q # r
      <3>1. Heard(req[q])'
        BY <1>1, <2>2, ItemIsMove DEF IndInv, Shape, InHand, Heard
      <3>2. FirstOfKey(req[q])'
        BY <1>1, <2>2 DEF IndInv, InHand, FirstOfKey
      <3> QED BY <3>1, <3>2
    <2> QED BY <2>1, <2>2
  <1>5. InHand'
    BY <1>4 DEF InHand
  <1> QED BY <1>1, <1>2, <1>3, <1>5

\* A step of a request after which it holds nothing and which leaves keys and
\* answers alone.
LEMMA HandsOnPlain ==
    ASSUME IndInv, NEW r \in Operators, NEW step, Goto(r, step), Fits(step),
           step.pc \notin Holding \union Carrying, UNCHANGED <<txn, answered>>
    PROVE  /\ DOMAIN req' = Operators /\ \A q \in Operators : Fits(req'[q])
           /\ OneHolder' /\ InHand'
  <1>1. /\ Heard(step)' /\ FirstOfKey(step)'
        /\ \A q \in Operators : Apart(req[q], step)
    BY DEF Heard, FirstOfKey, Apart, Holding, Carrying, Inserted
  <1> QED BY <1>1, HandsOn

LEMMA IdleIsPlain == Fits(Idle) /\ Idle.pc \notin Holding \union Carrying
  BY DEF Idle, Fits, Holding, Carrying, Processing, Paying

\* A row of a refund gets a status that claims no success.
LEMMA RefundRowIndInv ==
    ASSUME IndInv, NEW r \in Operators, CreateRefund(r) \/ WriteClosed(r)
    PROVE  IndInv'
  <1>1. UNCHANGED <<payout, txn, answered, settled>>
    BY DEF CreateRefund, WriteClosed
  <1>2. PICK step : /\ Goto(r, step) /\ Fits(step)
                    /\ step.pc \notin Holding \union Carrying
    <2>1. CASE CreateRefund(r)
      <3>1. PICK x \in Refunds :
              Goto(r, IF req[r].then = "process" THEN [pc |-> "process", item |-> x] ELSE Idle)
        BY <2>1 DEF CreateRefund
      <3>2. Fits([pc |-> "process", item |-> x])
        BY DEF Fits, Processing, Paying
      <3>3. [pc |-> "process", item |-> x].pc \notin Holding \union Carrying
        BY DEF Holding, Carrying
      <3> QED BY <3>1, <3>2, <3>3, IdleIsPlain
    <2>2. CASE WriteClosed(r)
      BY <2>2, IdleIsPlain DEF WriteClosed
    <2> QED BY <2>1, <2>2
  <1>3. /\ DOMAIN req' = Operators /\ \A q \in Operators : Fits(req'[q])
        /\ OneHolder' /\ InHand'
    BY <1>1, <1>2, HandsOnPlain
  <1>4. PICK x \in Refunds :
            /\ DOMAIN refund' = Refunds
            /\ "status" \in DOMAIN refund'[x] /\ refund'[x].status # "SUCCEEDED"
            /\ \A y \in Refunds : y # x => refund'[y] = refund[y]
    <2>1. CASE CreateRefund(r)
      BY <2>1 DEF CreateRefund, IndInv, Shape
    <2>2. CASE WriteClosed(r)
      BY <2>2 DEF WriteClosed, At, IndInv, Shape, Fits
    <2> QED BY <2>1, <2>2
  <1>5. Shape'
    BY <1>1, <1>3, <1>4 DEF IndInv, Shape, Fits
  <1>6. SettledHasKey' /\ PaidWasConfirmed'
    BY <1>1, <1>4 DEF IndInv, SettledHasKey, PaidWasConfirmed
  <1> QED BY <1>3, <1>5, <1>6 DEF IndInv

LEMMA PayoutRowIndInv ==
    ASSUME IndInv, NEW r \in Operators, CreatePayout(r) \/ WriteApproval(r)
    PROVE  IndInv'
  <1>1. UNCHANGED <<refund, txn, answered, settled>> /\ Goto(r, Idle)
    BY DEF CreatePayout, WriteApproval
  <1>2. /\ DOMAIN req' = Operators /\ \A q \in Operators : Fits(req'[q])
        /\ OneHolder' /\ InHand'
    BY <1>1, IdleIsPlain, HandsOnPlain
  <1>3. PICK p \in Payouts :
            /\ DOMAIN payout' = Payouts
            /\ "status" \in DOMAIN payout'[p] /\ payout'[p].status # "PAID"
            /\ \A y \in Payouts : y # p => payout'[y] = payout[y]
    <2>1. CASE CreatePayout(r)
      BY <2>1 DEF CreatePayout, IndInv, Shape
    <2>2. CASE WriteApproval(r)
      BY <2>2 DEF WriteApproval, At, IndInv, Shape, Fits
    <2> QED BY <2>1, <2>2
  <1>4. Shape'
    BY <1>1, <1>2, <1>3 DEF IndInv, Shape, Fits
  <1>5. SettledHasKey' /\ PaidWasConfirmed'
    BY <1>1, <1>3 DEF IndInv, SettledHasKey, PaidWasConfirmed
  <1> QED BY <1>2, <1>4, <1>5 DEF IndInv

\* The gateway answers; what it said is remembered.
LEMMA AnswerRemembered ==
    ASSUME IndInv, NEW m \in Moves, NEW s \in GatewayStatus, Answer(m, s)
    PROVE  /\ answered' \in [Moves -> SUBSET GatewayStatus] /\ s \in answered'[m]
           /\ \A n \in Moves : answered[n] \subseteq answered'[n]
  BY DEF IndInv, Shape, Answer

LEMMA AskRefundIndInv ==
    ASSUME IndInv, NEW r \in Operators, AskRefund(r)
    PROVE  IndInv'
  <1>x. PICK x : x = req[r].item
    OBVIOUS
  <1>1. PICK s \in RefundAnswers :
          /\ x = req[r].item /\ Answer(x, s)
          /\ Goto(r, IF KeyFree(x) THEN [pc |-> "settle", item |-> x, status |-> s] ELSE Idle)
    BY <1>x DEF AskRefund
  <1>2. UNCHANGED <<refund, payout, txn, settled>>
    BY DEF AskRefund
  <1>3. At(r, "askRefund") /\ x \in Refunds /\ x \in Moves
    BY <1>1 DEF AskRefund, At, IndInv, Shape, Fits, Processing, Moves
  <1>4. /\ answered' \in [Moves -> SUBSET GatewayStatus] /\ s \in answered'[x]
        /\ \A n \in Moves : answered[n] \subseteq answered'[n]
    BY <1>1, <1>3, AnswerRemembered
  <1>5. /\ DOMAIN req' = Operators /\ \A q \in Operators : Fits(req'[q])
        /\ OneHolder' /\ InHand'
    <2>1. PICK step : step = IF KeyFree(x) THEN [pc |-> "settle", item |-> x, status |-> s]
                             ELSE Idle
      OBVIOUS
    <2>2. Fits(step)
      BY <1>3, <2>1, IdleIsPlain DEF Fits, Processing, Paying
    <2>3. Heard(step)' /\ FirstOfKey(step)'
      BY <1>2, <1>4, <2>1 DEF Heard, FirstOfKey, KeyFree, Idle, Carrying, Inserted
    <2>4. \A q \in Operators \ {r} : Apart(req[q], step)
      BY <1>1, <1>3, <2>1 DEF IndInv, OneHolder, Apart, At, Holding, Idle
    <2> QED BY <1>1, <1>2, <1>4, <2>1, <2>2, <2>3, <2>4, HandsOn
  <1>6. Shape'
    BY <1>2, <1>4, <1>5 DEF IndInv, Shape, Fits
  <1>7. SettledHasKey' /\ PaidWasConfirmed'
    BY <1>2, <1>4 DEF IndInv, SettledHasKey, PaidWasConfirmed, Moves
  <1> QED BY <1>5, <1>6, <1>7 DEF IndInv

LEMMA AskPayoutIndInv ==
    ASSUME IndInv, NEW r \in Operators, AskPayout(r)
    PROVE  IndInv'
  <1>p. PICK p : p = req[r].item
    OBVIOUS
  <1>1. PICK s \in PayoutAnswers :
          /\ p = req[r].item /\ Answer(p, s)
          /\ Goto(r, [pc |-> "recheckPayout", item |-> p, status |-> s])
    BY <1>p DEF AskPayout
  <1>2. UNCHANGED <<refund, payout, txn, settled>>
    BY DEF AskPayout
  <1>3. p \in Payouts /\ p \in Moves
    BY <1>1 DEF AskPayout, At, IndInv, Shape, Fits, Moves
  <1>4. /\ answered' \in [Moves -> SUBSET GatewayStatus] /\ s \in answered'[p]
        /\ \A n \in Moves : answered[n] \subseteq answered'[n]
    BY <1>1, <1>3, AnswerRemembered
  <1>5. /\ DOMAIN req' = Operators /\ \A q \in Operators : Fits(req'[q])
        /\ OneHolder' /\ InHand'
    <2>1. PICK step : step = [pc |-> "recheckPayout", item |-> p, status |-> s]
      OBVIOUS
    <2>2. Fits(step)
      BY <1>3, <2>1 DEF Fits, Processing, Paying
    <2>3. /\ Heard(step)' /\ FirstOfKey(step)'
          /\ \A q \in Operators : Apart(req[q], step)
      BY <1>4, <2>1 DEF Heard, FirstOfKey, Apart, Carrying, Inserted, Holding
    <2> QED BY <1>1, <1>2, <1>4, <2>1, <2>2, <2>3, HandsOn
  <1>6. Shape'
    BY <1>2, <1>4, <1>5 DEF IndInv, Shape, Fits
  <1>7. SettledHasKey' /\ PaidWasConfirmed'
    BY <1>2, <1>4 DEF IndInv, SettledHasKey, PaidWasConfirmed, Moves
  <1> QED BY <1>5, <1>6, <1>7 DEF IndInv

\* The commit writes the row, its transaction and the ledger together; the lock
\* makes it the only one that has the key in hand.
LEMMA CommitIndInv ==
    ASSUME IndInv, NEW r \in Operators, CommitRefund(r) \/ CommitPayout(r)
    PROVE  IndInv' /\ req[r].item \notin settled
  <1>i. PICK item : item = req[r].item
    OBVIOUS
  <1>s. PICK s : s = req[r].status
    OBVIOUS
  <1>1. /\ Fits(req[r]) /\ Heard(req[r]) /\ FirstOfKey(req[r])
        /\ req[r].pc \in {"commitRefund", "commitPayout"}
    BY DEF CommitRefund, CommitPayout, At, IndInv, Shape, InHand
  <1>2. item \in Moves /\ s \in answered[item] /\ s \in GatewayStatus /\ txn[item] = "none"
    BY <1>1, <1>i, <1>s, ItemIsMove DEF Heard, FirstOfKey, Carrying, Inserted, IndInv, Shape
  <1>3. TxStatusOf(s) \in TxStatus /\ TxStatusOf(s) # "none"
    BY <1>2, KeyTaken
  <1>4. /\ txn' = [txn EXCEPT ![item] = TxStatusOf(s)]
        /\ settled' \subseteq settled \union {item}
        /\ Goto(r, Idle) /\ UNCHANGED answered
    BY <1>i, <1>s DEF CommitRefund, CommitPayout
  <1>5. /\ txn' \in [Moves -> TxStatus \union {"none"}] /\ txn'[item] # "none"
        /\ \A m \in Moves : m # item => txn'[m] = txn[m]
    BY <1>2, <1>3, <1>4 DEF IndInv, Shape
  <1>6. \A q \in Operators \ {r} : req[q].pc \in Inserted =>
            /\ req[q].item # item
            /\ txn'[req[q].item] = txn[req[q].item]
    <2> SUFFICES ASSUME NEW q \in Operators \ {r}, req[q].pc \in Inserted
                 PROVE  req[q].item # item /\ txn'[req[q].item] = txn[req[q].item]
      OBVIOUS
    <2>1. req[q].item # item
      BY <1>1, <1>i DEF IndInv, OneHolder, Apart, Holding, Inserted
    <2>2. req[q].item \in Moves
      BY ItemIsMove DEF IndInv, Shape, Inserted, Carrying
    <2> QED BY <2>1, <2>2, <1>5
  <1>7. /\ DOMAIN req' = Operators /\ \A q \in Operators : Fits(req'[q])
        /\ OneHolder' /\ InHand'
    <2>1. /\ Heard(Idle)' /\ FirstOfKey(Idle)'
          /\ \A q \in Operators : Apart(req[q], Idle)
      BY DEF Heard, FirstOfKey, Apart, Idle, Carrying, Inserted, Holding
    <2> QED BY <1>4, <1>6, <2>1, IdleIsPlain, HandsOn
  <1>8. Shape' /\ PaidWasConfirmed'
    <2>1. CASE CommitRefund(r)
      <3>1. item \in Refunds
        BY <2>1, <1>1, <1>i DEF CommitRefund, At, Fits
      <3>2. refund' = [refund EXCEPT ![item].status = RefundStatusOf(s)] /\ payout' = payout
        BY <2>1, <1>i, <1>s DEF CommitRefund
      <3>3. /\ DOMAIN refund' = Refunds /\ refund'[item].status = RefundStatusOf(s)
            /\ \A x \in Refunds : "status" \in DOMAIN refund'[x]
            /\ \A x \in Refunds : x # item => refund'[x] = refund[x]
        BY <3>1, <3>2 DEF IndInv, Shape
      <3>4. Shape'
        BY <1>2, <1>4, <1>5, <1>7, <3>2, <3>3 DEF IndInv, Shape, Fits
      <3>5. PaidWasConfirmed'
        BY <1>2, <1>4, <3>2, <3>3 DEF IndInv, PaidWasConfirmed, RefundStatusOf
      <3> QED BY <3>4, <3>5
    <2>2. CASE CommitPayout(r)
      <3>1. item \in Payouts
        BY <2>2, <1>1, <1>i DEF CommitPayout, At, Fits, Paying
      <3>2. payout' = [payout EXCEPT ![item].status = PayoutStatusOf(s)] /\ refund' = refund
        BY <2>2, <1>i, <1>s DEF CommitPayout
      <3>3. /\ DOMAIN payout' = Payouts /\ payout'[item].status = PayoutStatusOf(s)
            /\ \A x \in Payouts : "status" \in DOMAIN payout'[x]
            /\ \A x \in Payouts : x # item => payout'[x] = payout[x]
        BY <3>1, <3>2 DEF IndInv, Shape
      <3>4. Shape'
        BY <1>2, <1>4, <1>5, <1>7, <3>2, <3>3 DEF IndInv, Shape, Fits
      <3>5. PaidWasConfirmed'
        BY <1>2, <1>4, <3>2, <3>3 DEF IndInv, PaidWasConfirmed, PayoutStatusOf
      <3> QED BY <3>4, <3>5
    <2> QED BY <2>1, <2>2
  <1>9. SettledHasKey' /\ item \notin settled
    BY <1>2, <1>4, <1>5 DEF IndInv, Shape, SettledHasKey
  <1> QED BY <1>7, <1>8, <1>9, <1>i DEF IndInv

LEMMA CommitReleaseIndInv ==
    ASSUME IndInv, NEW r \in Operators, CommitRelease(r)
    PROVE  IndInv'
  <1>1. UNCHANGED <<refund, payout, txn, answered, settled>> /\ Goto(r, Idle)
    BY DEF CommitRelease
  <1>2. /\ DOMAIN req' = Operators /\ \A q \in Operators : Fits(req'[q])
        /\ OneHolder' /\ InHand'
    BY <1>1, IdleIsPlain, HandsOnPlain
  <1>3. Shape' /\ SettledHasKey' /\ PaidWasConfirmed'
    BY <1>1, <1>2 DEF IndInv, Shape, Fits, SettledHasKey, PaidWasConfirmed
  <1> QED BY <1>2, <1>3 DEF IndInv

LEMMA AbortIndInv ==
    ASSUME IndInv, NEW r \in Operators, Abort(r)
    PROVE  IndInv'
  <1>1. UNCHANGED <<refund, payout, txn, answered, settled>> /\ Goto(r, Idle)
    BY DEF Abort, rows
  <1>2. /\ DOMAIN req' = Operators /\ \A q \in Operators : Fits(req'[q])
        /\ OneHolder' /\ InHand'
    BY <1>1, IdleIsPlain, HandsOnPlain
  <1>3. Shape' /\ SettledHasKey' /\ PaidWasConfirmed'
    BY <1>1, <1>2 DEF IndInv, Shape, Fits, SettledHasKey, PaidWasConfirmed
  <1> QED BY <1>2, <1>3 DEF IndInv

\* A late answer is about a transaction that exists, so about no key that a
\* request has in hand.
LEMMA ConfirmIndInv ==
    ASSUME IndInv, NEW m \in Moves, NEW s \in Confirmations, Confirm(m, s)
    PROVE  IndInv'
  <1>1. s \in GatewayStatus /\ txn[m] # "none"
    BY DEF Confirm
  <1>2. /\ answered' \in [Moves -> SUBSET GatewayStatus]
        /\ \A n \in Moves : answered[n] \subseteq answered'[n]
    BY <1>1, AnswerRemembered DEF Confirm
  <1>3. /\ txn' \in [Moves -> TxStatus \union {"none"}] /\ txn'[m] # "none"
        /\ \A n \in Moves : n # m => txn'[n] = txn[n]
    BY <1>1, KeyTaken DEF Confirm, IndInv, Shape
  <1>4. UNCHANGED <<refund, payout, settled, req>>
    BY DEF Confirm
  <1>5. Shape' /\ OneHolder'
    BY <1>2, <1>3, <1>4 DEF IndInv, Shape, Fits, OneHolder, Apart
  <1>6. InHand'
    <2> SUFFICES ASSUME NEW q \in Operators
                 PROVE  (Heard(req[q]) /\ FirstOfKey(req[q]))'
      BY DEF InHand
    <2>1. Fits(req[q]) /\ Heard(req[q]) /\ FirstOfKey(req[q])
      BY DEF IndInv, Shape, InHand
    <2>2. Heard(req[q])'
      BY <1>2, <1>4, <2>1, ItemIsMove DEF Heard
    <2>3. FirstOfKey(req[q])'
      BY <1>1, <1>3, <1>4, <2>1, ItemIsMove DEF FirstOfKey, Inserted, Carrying
    <2> QED BY <2>2, <2>3
  <1>7. SettledHasKey' /\ PaidWasConfirmed'
    BY <1>2, <1>3, <1>4 DEF IndInv, Shape, SettledHasKey, PaidWasConfirmed, Moves
  <1> QED BY <1>5, <1>6, <1>7 DEF IndInv

-----------------------------------------------------------------------------
LEMMA WorldIndInv ==
    ASSUME IndInv, UNCHANGED <<rows, req>>
    PROVE  IndInv'
  BY DEF rows, IndInv, Shape, Fits, OneHolder, Apart, InHand, Heard, FirstOfKey,
         SettledHasKey, PaidWasConfirmed

LEMMA NextIndInv == IndInv /\ [Next]_vars => IndInv'
  <1> SUFFICES ASSUME IndInv, [Next]_vars PROVE IndInv'
    OBVIOUS
  <1>1. ASSUME NEW r \in Operators, Arrive(r) PROVE IndInv'
    BY <1>1, ArriveIndInv
  <1>2. ASSUME NEW r \in Operators, RefundStep(r) PROVE IndInv'
    BY <1>2, RefundRowIndInv, ReadingIndInv, LockRefundIndInv, AskRefundIndInv,
       SettleRefundIndInv, CommitIndInv DEF RefundStep
  <1>3. ASSUME NEW r \in Operators, PayoutStep(r) PROVE IndInv'
    BY <1>3, PayoutRowIndInv, ReadingIndInv, AskPayoutIndInv, RecheckPayoutIndInv,
       InsertPayoutIndInv, CommitIndInv DEF PayoutStep
  <1>4. ASSUME NEW r \in Operators, ReleaseStep(r) PROVE IndInv'
    BY <1>4, ReadingIndInv, CommitReleaseIndInv DEF ReleaseStep
  <1>5. ASSUME NEW r \in Operators, Abort(r) PROVE IndInv'
    BY <1>5, AbortIndInv
  <1>6. ASSUME NEW m \in Moves, NEW s \in Confirmations, Confirm(m, s) PROVE IndInv'
    BY <1>6, ConfirmIndInv
  <1>7. CASE JobMovesOn \/ DelayElapses \/ UNCHANGED vars
    BY <1>7, WorldIndInv DEF JobMovesOn, DelayElapses, vars
  <1> QED BY <1>1, <1>2, <1>3, <1>4, <1>5, <1>6, <1>7 DEF Next

\* For any number of refunds, payouts and requests: a request that is about to
\* settle holds the row alone, and its key has not been taken.
THEOREM SettlementInvariant == Spec => []IndInv
  BY InitIndInv, NextIndInv, PTL DEF Spec

\* Neither a payout nor a refund shows success that the gateway has not reported,
\* whichever approvals, cancellations and webhooks overwrite the row in between.
THEOREM SuccessWasConfirmed == Spec => []PaidWasConfirmed
  <1>1. IndInv => PaidWasConfirmed
    BY DEF IndInv
  <1> QED BY <1>1, SettlementInvariant, PTL

\* A commit of processRefundRequest or adminProcessPayout is about a refund or a
\* payout whose entries have not been committed.
NeverSettledAgain ==
    \A r \in Operators : CommitRefund(r) \/ CommitPayout(r) => req[r].item \notin settled

\* The entries of a refund or a payout are appended at most once, although both
\* handlers check a status that others overwrite: by the row lock and the unique key.
THEOREM SettledOnce == Spec => [][NeverSettledAgain]_vars
  <1>1. IndInv => NeverSettledAgain
    BY CommitIndInv DEF NeverSettledAgain
  <1> QED BY <1>1, SettlementInvariant, PTL

-----------------------------------------------------------------------------
(* Every entry of the ledger belongs to a refund, a payout or a charge. *)

RefundStatus == {"PENDING", "PROCESSING", "SUCCEEDED", "FAILED", "CANCELED"}
PayoutStatus == {"PENDING", "APPROVED", "PROCESSING", "PAID", "FAILED"}

RefundRow == [status : RefundStatus, amount : Nat \ {0}]
PayoutRow == [status : PayoutStatus, amount : Nat \ {0}]

Rows == /\ refund \in [Refunds -> {NoRow} \union RefundRow]
        /\ payout \in [Payouts -> {NoRow} \union PayoutRow]
        /\ BooksOK /\ minted \subseteq Moves

\* A settled refund or payout has a row, and so an amount.
SettledRows == /\ \A x \in settled \intersect Refunds : refund[x] \in RefundRow
               /\ \A p \in settled \intersect Payouts : payout[p] \in PayoutRow

\* What a request has in hand, as far as the money depends on it.
OnRefund == {"process", "recheck", "approve", "askRefund", "settle", "commitRefund", "closeRefund"}
OnPayout == {"approvePayout", "askPayout", "recheckPayout", "insertPayout", "commitPayout"}

Worth(q) ==
    /\ q.pc \in {"createRefund", "createPayout"} => q.amount \in Nat \ {0}
    /\ q.pc \in OnRefund => refund[q.item] \in RefundRow
    /\ q.pc \in OnPayout => payout[q.item] \in PayoutRow
    /\ q.pc \in {"commitRefund", "commitRelease"} => q.held \in Int

Money == Rows /\ SettledRows /\ MovesOnce /\ \A r \in Operators : Worth(req[r])

LEMMA InitMoney == Init => Money
  <1> SUFFICES ASSUME Init PROVE Money
    OBVIOUS
  <1>1. settled \intersect Refunds = {} /\ settled \intersect Payouts = {} /\ minted = {}
    BY DEF Init
  <1>2. Settled(refund, Refunds) = 0 /\ Settled(payout, Payouts) = 0
    BY <1>1, AmountsEmpty DEF Settled
  <1>3. Cardinality(minted) = 0
    BY <1>1, FS_EmptySet
  <1>4. Split.fee \in Int /\ Split.net \in Int /\ Amount \in Int
    BY LedgerAssumption, SplitConserves DEF Split
  <1>5. books \in [Buckets -> Int] /\ books["CUSTOMER_EXTERNAL"] = -Amount
        /\ books["PROVIDER_PAID_OUT"] = 0
    BY <1>4 DEF Init, Charge, Entries, Buckets
  <1>6. MovesOnce
    BY <1>2, <1>3, <1>4, <1>5 DEF MovesOnce, ChargedInAll
  <1>7. Rows /\ SettledRows
    BY <1>1, <1>5 DEF Init, Rows, SettledRows, BooksOK
  <1>8. \A r \in Operators : Worth(req[r])
    BY DEF Init, Worth, Idle, OnRefund, OnPayout
  <1> QED BY <1>6, <1>7, <1>8 DEF Money

\* The settled rows are finitely many and have amounts.
LEMMA SettledAmounts ==
    ASSUME SettledRows
    PROVE  /\ IsFiniteSet(settled \intersect Refunds) /\ IsFiniteSet(settled \intersect Payouts)
           /\ \A x \in settled \intersect Refunds : refund[x].amount \in Nat
           /\ \A p \in settled \intersect Payouts : payout[p].amount \in Nat
  <1>1. IsFiniteSet(settled \intersect Refunds) /\ IsFiniteSet(settled \intersect Payouts)
    BY FS_Subset
  <1> QED BY <1>1 DEF SettledRows, RefundRow, PayoutRow

\* A step that settles nothing and leaves the amounts of what is settled.
LEMMA SumsKept ==
    ASSUME SettledRows, settled' = settled,
           \A x \in settled \intersect Refunds : refund'[x].amount = refund[x].amount,
           \A p \in settled \intersect Payouts : payout'[p].amount = payout[p].amount
    PROVE  Settled(refund, Refunds)' = Settled(refund, Refunds)
           /\ Settled(payout, Payouts)' = Settled(payout, Payouts)
  <1>1. AmountSum(refund', settled \intersect Refunds) = AmountSum(refund, settled \intersect Refunds)
    BY SettledAmounts, AmountsCongruent
  <1>2. AmountSum(payout', settled \intersect Payouts) = AmountSum(payout, settled \intersect Payouts)
    BY SettledAmounts, AmountsCongruent
  <1> QED BY <1>1, <1>2 DEF Settled

\* One row more is settled.
LEMMA RefundSettled ==
    ASSUME SettledRows, SettledRows', NEW x \in Refunds, x \notin settled,
           settled' = settled \union {x}, UNCHANGED payout,
           \A y \in Refunds : refund'[y].amount = refund[y].amount
    PROVE  /\ Settled(refund, Refunds)' = Settled(refund, Refunds) + refund[x].amount
           /\ Settled(payout, Payouts)' = Settled(payout, Payouts)
  <1>1. PICK T : T = settled' \intersect Refunds
    OBVIOUS
  <1>2. T \ {x} = settled \intersect Refunds /\ x \in T
        /\ settled' \intersect Payouts = settled \intersect Payouts
    BY <1>1
  <1>3. /\ IsFiniteSet(T) /\ \A y \in T : refund'[y].amount \in Nat
    BY <1>1, FS_Subset DEF SettledRows, RefundRow
  <1>4. AmountSum(refund', T) = AmountSum(refund', T \ {x}) + refund'[x].amount
    <2>1. PICK R : R = refund'
      OBVIOUS
    <2>2. IsFiniteSet(T) /\ \A y \in T : R[y].amount \in Nat
      BY <1>3, <2>1
    <2>3. \A y \in T : AmountSum(R, T) = AmountSum(R, T \ {y}) + R[y].amount
      BY <2>2, AmountsAdd
    <2> QED BY <1>2, <2>1, <2>3
  <1>5. AmountSum(refund', T \ {x}) = AmountSum(refund, T \ {x})
    BY <1>2, SettledAmounts, AmountsCongruent
  <1> QED BY <1>1, <1>2, <1>4, <1>5 DEF Settled

LEMMA PayoutSettled ==
    ASSUME SettledRows, SettledRows', NEW p \in Payouts, p \notin settled,
           settled' = settled \union {p}, UNCHANGED refund,
           \A y \in Payouts : payout'[y].amount = payout[y].amount
    PROVE  /\ Settled(payout, Payouts)' = Settled(payout, Payouts) + payout[p].amount
           /\ Settled(refund, Refunds)' = Settled(refund, Refunds)
  <1>1. PICK T : T = settled' \intersect Payouts
    OBVIOUS
  <1>2. T \ {p} = settled \intersect Payouts /\ p \in T
        /\ settled' \intersect Refunds = settled \intersect Refunds
    BY <1>1
  <1>3. /\ IsFiniteSet(T) /\ \A y \in T : payout'[y].amount \in Nat
    BY <1>1, FS_Subset DEF SettledRows, PayoutRow
  <1>4. AmountSum(payout', T) = AmountSum(payout', T \ {p}) + payout'[p].amount
    <2>1. PICK R : R = payout'
      OBVIOUS
    <2>2. IsFiniteSet(T) /\ \A y \in T : R[y].amount \in Nat
      BY <1>3, <2>1
    <2>3. \A y \in T : AmountSum(R, T) = AmountSum(R, T \ {y}) + R[y].amount
      BY <2>2, AmountsAdd
    <2> QED BY <1>2, <2>1, <2>3
  <1>5. AmountSum(payout', T \ {p}) = AmountSum(payout, T \ {p})
    BY <1>2, SettledAmounts, AmountsCongruent
  <1> QED BY <1>1, <1>2, <1>4, <1>5 DEF Settled

\* A request that goes on while the rows stay.
LEMMA MoveOnMoney ==
    ASSUME IndInv, Money, NEW r \in Operators, NEW step, Goto(r, step), Worth(step),
           UNCHANGED <<refund, payout, minted, settled, books>>
    PROVE  Money'
  <1>1. \A q \in Operators : req'[q] = req[q] \/ req'[q] = step
    BY DEF Goto, IndInv, Shape
  <1>2. \A q \in Operators : Worth(req[q])'
    BY <1>1 DEF Money, Worth
  <1>3. Rows' /\ SettledRows'
    BY DEF Money, Rows, SettledRows, BooksOK
  <1>4. MovesOnce'
    BY DEF Money, MovesOnce, ChargedInAll, Settled
  <1> QED BY <1>2, <1>3, <1>4 DEF Money

\* What can be refunded is between nothing and the amount of the intent.
LEMMA RefundableBounded ==
    ASSUME Rows
    PROVE  /\ Refundable \in 0..Amount
           /\ Refundable > 0 => Suggested \in 1..Refundable
  <1>1. PICK S : S = {x \in Refunds : refund[x].status = "SUCCEEDED"}
    OBVIOUS
  <1>2. IsFiniteSet(S) /\ \A x \in S : refund[x].amount \in Nat
    BY <1>1, FS_Subset DEF Rows, RefundRow, NoRow
  <1>3. RefundedTotal \in Nat
    BY <1>1, <1>2, AmountsAdd DEF RefundedTotal
  <1>4. Refundable \in 0..Amount
    BY <1>3, LedgerAssumption DEF Refundable, Remaining, AtLeast
  <1>5. ASSUME Refundable > 0 PROVE Suggested \in 1..Refundable
    <2>1. PICK n \in Nat : n = Refundable /\ n > 0
      BY <1>4, <1>5
    <2>2. /\ RoundDiv(n, 2) \in Nat /\ 2 * (2 * RoundDiv(n, 2)) <= 2 * n + 2
      BY RoundDivNearest
    <2>3. AtLeast(1, RoundDiv(n, 2)) \in 1..n
      BY <2>1, <2>2 DEF AtLeast
    <2> QED BY <2>1, <2>3 DEF Suggested, SuggestedRefund
  <1> QED BY <1>4, <1>5

\* A refund is asked for with a positive amount.
LEMMA AskedPositive ==
    ASSUME Rows, Refundable > 0, NEW amount,
           amount \in Asks \/ amount = Suggested \/ amount = Refundable
    PROVE  amount \in Nat \ {0}
  <1>1. Refundable \in 0..Amount /\ Suggested \in 1..Refundable /\ Amount \in Nat
    BY RefundableBounded, LedgerAssumption
  <1>2. Refundable \in Nat \ {0} /\ Suggested \in Nat \ {0}
    BY <1>1
  <1> QED BY <1>2

\* The platform's part of a refund is a number, and no more than the refund if
\* that is no more than the intent.
LEMMA PartOfNat ==
    ASSUME NEW x \in Refunds, refund[x] \in RefundRow
    PROVE  PartOf(x) \in 0..refund[x].amount
  <1>1. Split.fee \in 0..Amount
    BY LedgerAssumption, SplitConserves DEF Split
  <1> QED BY <1>1, LedgerAssumption, PlatformPartBounded DEF PartOf, RefundRow

\* As many transactions have the entries of a charge as there are moves at most.
LEMMA MovesFinite ==
    ASSUME minted \subseteq Moves
    PROVE  IsFiniteSet(minted) /\ Cardinality(minted) \in Nat
  <1>1. IsFiniteSet(Moves)
    BY FS_Union DEF Moves
  <1>2. IsFiniteSet(minted)
    BY <1>1, FS_Subset
  <1> QED BY <1>2, FS_CardinalityType

\* What a transfer leaves in each bucket.
LEMMA Posted ==
    ASSUME BooksOK, NEW e \in Int, NEW p \in Int, NEW h \in Int, NEW a \in Int, NEW o \in Int,
           Post(Entries(e, p, h, a, o))
    PROVE  /\ BooksOK'
           /\ books'["CUSTOMER_EXTERNAL"] = books["CUSTOMER_EXTERNAL"] + e
           /\ books'["PLATFORM_RESERVED"] = books["PLATFORM_RESERVED"] + p
           /\ books'["PROVIDER_HELD"] = books["PROVIDER_HELD"] + h
           /\ books'["PROVIDER_AVAILABLE"] = books["PROVIDER_AVAILABLE"] + a
           /\ books'["PROVIDER_PAID_OUT"] = books["PROVIDER_PAID_OUT"] + o
  <1>1. \A b \in Buckets : books[b] \in Int /\ Entries(e, p, h, a, o)[b] \in Int
    BY DEF BooksOK, Entries
  <1>2. BooksOK'
    BY <1>1 DEF Post, BooksOK
  <1>3. /\ Entries(e, p, h, a, o)["CUSTOMER_EXTERNAL"] = e
        /\ Entries(e, p, h, a, o)["PLATFORM_RESERVED"] = p
        /\ Entries(e, p, h, a, o)["PROVIDER_HELD"] = h
        /\ Entries(e, p, h, a, o)["PROVIDER_AVAILABLE"] = a
        /\ Entries(e, p, h, a, o)["PROVIDER_PAID_OUT"] = o
    BY DEF Entries, Buckets
  <1> QED BY <1>2, <1>3 DEF Post, Buckets

LEMMA ArriveMoney ==
    ASSUME IndInv, Money, NEW r \in Operators, Arrive(r)
    PROVE  Money'
  <1> USE DEF Hold, rows, OnRefund, OnPayout, Worth
  <1>1. CASE RequestRefund(r)
    <2>1. PICK amount : /\ amount \in Asks \/ amount = Suggested
                        /\ Hold(r, [pc |-> "createRefund", amount |-> amount, then |-> "wait"])
                        /\ Refundable > 0
      BY <1>1 DEF RequestRefund
    <2>2. amount \in Nat \ {0}
      BY <2>1, AskedPositive DEF Money
    <2> QED BY <2>1, <2>2, MoveOnMoney
  <1>2. CASE AdminRequestRefund(r)
    <2>1. PICK amount : /\ amount \in Asks \/ amount = Refundable
                        /\ Hold(r, [pc |-> "createRefund", amount |-> amount, then |-> "process"])
                        /\ Refundable > 0
      BY <1>2 DEF AdminRequestRefund
    <2>2. amount \in Nat \ {0}
      BY <2>1, AskedPositive DEF Money
    <2> QED BY <2>1, <2>2, MoveOnMoney
  <1>3. CASE \E x \in Refunds : ApproveRefund(r, x)
    <2>1. PICK x \in Refunds : Hold(r, [pc |-> "process", item |-> x]) /\ refund[x].status = "PENDING"
      BY <1>3 DEF ApproveRefund
    <2>2. refund[x] \in RefundRow
      BY <2>1 DEF Money, Rows, NoRow
    <2> QED BY <2>1, <2>2, MoveOnMoney
  <1>4. CASE \E x \in Refunds : CloseRefund(r, x)
    <2>1. PICK x \in Refunds, next \in {"CANCELED", "FAILED"} :
              /\ Hold(r, [pc |-> "closeRefund", item |-> x, next |-> next])
              /\ refund[x].status = "PENDING"
      BY <1>4 DEF CloseRefund
    <2>2. refund[x] \in RefundRow
      BY <2>1 DEF Money, Rows, NoRow
    <2> QED BY <2>1, <2>2, MoveOnMoney
  <1>5. CASE ReadAvailable(r)
    <2>1. Hold(r, [pc |-> "reserve", available |-> books["PROVIDER_AVAILABLE"]])
      BY <1>5 DEF ReadAvailable
    <2> QED BY <2>1, MoveOnMoney
  <1>6. CASE ReleaseFunds(r)
    <2>1. Hold(r, [pc |-> "release"])
      BY <1>6 DEF ReleaseFunds
    <2> QED BY <2>1, MoveOnMoney
  <1>7. CASE \E p \in Payouts : ApprovePayout(r, p)
    <2>1. PICK p \in Payouts : Hold(r, [pc |-> "approvePayout", item |-> p]) /\ payout[p].status = "PENDING"
      BY <1>7 DEF ApprovePayout
    <2>2. payout[p] \in PayoutRow
      BY <2>1 DEF Money, Rows, NoRow
    <2> QED BY <2>1, <2>2, MoveOnMoney
  <1>8. CASE \E p \in Payouts : ProcessPayout(r, p)
    <2>1. PICK p \in Payouts : Hold(r, [pc |-> "askPayout", item |-> p]) /\ payout[p].status = "APPROVED"
      BY <1>8 DEF ProcessPayout
    <2>2. payout[p] \in PayoutRow
      BY <2>1 DEF Money, Rows, NoRow
    <2> QED BY <2>1, <2>2, MoveOnMoney
  <1> QED BY <1>1, <1>2, <1>3, <1>4, <1>5, <1>6, <1>7, <1>8 DEF Arrive

\* Steps of a request that is under way and writes neither a row nor the ledger.
LEMMA ReadingMoney ==
    ASSUME IndInv, Money, NEW r \in Operators,
           \/ CheckRefund(r) \/ RecheckRefund(r) \/ LockRefund(r) \/ AskRefund(r) \/ SettleRefund(r)
           \/ CheckPayout(r) \/ AskPayout(r) \/ RecheckPayout(r) \/ InsertPayout(r) \/ ReadHeld(r)
    PROVE  Money'
  <1> USE DEF Hold, rows, OnRefund, OnPayout
  <1>0. Fits(req[r]) /\ Worth(req[r]) /\ BooksOK
    BY DEF IndInv, Shape, Money, Rows
  <1>i. Worth(Idle)
    BY DEF Idle, Worth
  <1>1. CASE CheckRefund(r) \/ RecheckRefund(r) \/ LockRefund(r)
    <2>1. PICK pc \in {"recheck", "approve", "askRefund"} :
              Hold(r, Idle) \/ Hold(r, [req[r] EXCEPT !.pc = pc])
      BY <1>1 DEF CheckRefund, RecheckRefund, LockRefund
    <2>2. req[r].pc \in Processing
      BY <1>1 DEF CheckRefund, RecheckRefund, LockRefund, At, Processing
    <2>3. Worth([req[r] EXCEPT !.pc = pc])
      BY <1>0, <2>2 DEF Worth, Fits, Processing
    <2> QED BY <1>i, <2>1, <2>3, MoveOnMoney
  <1>2. CASE AskRefund(r)
    <2>1. PICK s, step : /\ step \in {Idle, [pc |-> "settle", item |-> req[r].item, status |-> s]}
                         /\ Goto(r, step)
      BY <1>2 DEF AskRefund
    <2>2. Worth(step)
      BY <1>0, <1>2, <2>1, <1>i DEF AskRefund, At, Worth
    <2>3. UNCHANGED <<refund, payout, minted, settled, books>>
      BY <1>2 DEF AskRefund
    <2> QED BY <2>1, <2>2, <2>3, MoveOnMoney
  <1>3. CASE SettleRefund(r)
    <2>1. PICK held, s : /\ held = 0 \/ held = HeldDebit(req[r].item)
                         /\ \/ Hold(r, Idle)
                            \/ Hold(r, [pc |-> "commitRefund", item |-> req[r].item,
                                        status |-> s, held |-> held])
      BY <1>3 DEF SettleRefund
    <2>2. At(r, "settle") /\ req[r].item \in Refunds /\ refund[req[r].item] \in RefundRow
      BY <1>0, <1>3 DEF SettleRefund, At, Fits, Worth
    <2>3. held \in Int
      <3>1. PartOf(req[r].item) \in Int /\ refund[req[r].item].amount \in Int
        BY <2>2, PartOfNat DEF RefundRow
      <3>2. books["PROVIDER_HELD"] \in Int
        BY <1>0 DEF BooksOK, Buckets
      <3> QED BY <2>1, <3>1, <3>2 DEF HeldDebit, Least
    <2>4. Worth([pc |-> "commitRefund", item |-> req[r].item, status |-> s, held |-> held])
      BY <2>2, <2>3 DEF Worth
    <2> QED BY <1>i, <2>1, <2>4, MoveOnMoney
  <1>4. CASE CheckPayout(r)
    <2>1. PICK amount \in Asks : Hold(r, Idle) \/ Hold(r, [pc |-> "createPayout", amount |-> amount])
      BY <1>4 DEF CheckPayout
    <2>2. Worth([pc |-> "createPayout", amount |-> amount])
      BY <2>1 DEF Worth
    <2> QED BY <1>i, <2>1, <2>2, MoveOnMoney
  <1>5. CASE AskPayout(r)
    <2>1. PICK s : Goto(r, [pc |-> "recheckPayout", item |-> req[r].item, status |-> s])
      BY <1>5 DEF AskPayout
    <2>2. Worth([pc |-> "recheckPayout", item |-> req[r].item, status |-> s])
      BY <1>0, <1>5, <2>1 DEF AskPayout, At, Worth
    <2>3. UNCHANGED <<refund, payout, minted, settled, books>>
      BY <1>5 DEF AskPayout
    <2> QED BY <2>1, <2>2, <2>3, MoveOnMoney
  <1>6. CASE RecheckPayout(r) \/ InsertPayout(r)
    <2>1. PICK pc \in {"insertPayout", "commitPayout"} :
              Hold(r, Idle) \/ Hold(r, [req[r] EXCEPT !.pc = pc])
      BY <1>6 DEF RecheckPayout, InsertPayout
    <2>2. req[r].pc \in Paying
      BY <1>6 DEF RecheckPayout, InsertPayout, At, Paying
    <2>3. Worth([req[r] EXCEPT !.pc = pc])
      BY <1>0, <2>2 DEF Worth, Fits, Paying
    <2> QED BY <1>i, <2>1, <2>3, MoveOnMoney
  <1>7. CASE ReadHeld(r)
    <2>1. Hold(r, Idle) \/ Hold(r, [pc |-> "commitRelease", held |-> books["PROVIDER_HELD"]])
      BY <1>7 DEF ReadHeld
    <2>2. books["PROVIDER_HELD"] \in Int
      BY <1>0 DEF BooksOK, Buckets
    <2>3. Worth([pc |-> "commitRelease", held |-> books["PROVIDER_HELD"]])
      BY <2>2 DEF Worth
    <2> QED BY <1>i, <2>1, <2>3, MoveOnMoney
  <1> QED BY <1>1, <1>2, <1>3, <1>4, <1>5, <1>6, <1>7

\* The nets of the books, where no entry is about the customer or a payout.
LEMMA MovesKept ==
    ASSUME Money, SettledRows', settled' = settled, UNCHANGED <<minted, books>>,
           \A x \in settled \intersect Refunds : refund'[x].amount = refund[x].amount,
           \A p \in settled \intersect Payouts : payout'[p].amount = payout[p].amount
    PROVE  MovesOnce'
  <1>1. Settled(refund, Refunds)' = Settled(refund, Refunds)
        /\ Settled(payout, Payouts)' = Settled(payout, Payouts)
    BY SumsKept DEF Money
  <1> QED BY <1>1 DEF Money, MovesOnce, ChargedInAll

\* What the requests have in hand, when one of them goes on and rows keep their
\* amounts.
LEMMA WorthKept ==
    ASSUME IndInv, Money, NEW r \in Operators, NEW step, Goto(r, step),
           step = Idle \/ \E x \in Refunds :
               step = [pc |-> "process", item |-> x] /\ refund'[x] \in RefundRow,
           \A x \in Refunds : refund[x] \in RefundRow => refund'[x] \in RefundRow,
           \A p \in Payouts : payout[p] \in PayoutRow => payout'[p] \in PayoutRow
    PROVE  \A q \in Operators : Worth(req[q])'
  <1>1. Worth(step)'
    BY DEF Worth, Idle, OnRefund, OnPayout
  <1>2. ASSUME NEW q \in Operators PROVE Worth(req[q])'
    <2>1. CASE q = r
      <3>1. req'[q] = step
        BY <2>1 DEF Goto, IndInv, Shape
      <3> QED BY <1>1, <3>1 DEF Worth
    <2>2. CASE q # r
      <3>1. req'[q] = req[q] /\ Fits(req[q]) /\ Worth(req[q])
        BY <2>2 DEF Goto, IndInv, Shape, Money
      <3>2. /\ req[q].pc \in OnRefund => req[q].item \in Refunds
            /\ req[q].pc \in OnPayout => req[q].item \in Payouts
        BY <3>1 DEF Fits, OnRefund, OnPayout, Processing, Paying
      <3> QED BY <3>1, <3>2 DEF Worth
    <2> QED BY <2>1, <2>2
  <1> QED BY <1>2

\* A row that is inserted is not settled; one that is updated keeps its amount.
LEMMA RowMoney ==
    ASSUME IndInv, Money, NEW r \in Operators,
           CreateRefund(r) \/ CreatePayout(r) \/ WriteClosed(r) \/ WriteApproval(r)
    PROVE  Money'
  <1>0. Fits(req[r]) /\ Worth(req[r]) /\ Rows /\ SettledRows
    BY DEF IndInv, Shape, Money
  <1>1. UNCHANGED <<minted, settled, books>>
    BY DEF CreateRefund, CreatePayout, WriteClosed, WriteApproval
  <1>2. PICK step : Goto(r, step) /\ (step = Idle \/ \E x \in Refunds :
              step = [pc |-> "process", item |-> x] /\ refund'[x] \in RefundRow)
    <2>1. CASE CreateRefund(r)
      <3>1. PICK x \in Refunds :
              /\ refund' = [refund EXCEPT ![x] = [status |-> "PENDING", amount |-> req[r].amount]]
              /\ Goto(r, IF req[r].then = "process" THEN [pc |-> "process", item |-> x] ELSE Idle)
        BY <2>1 DEF CreateRefund
      <3>2. refund'[x] \in RefundRow
        BY <1>0, <2>1, <3>1 DEF CreateRefund, At, Worth, Rows, RefundRow, RefundStatus
      <3> QED BY <3>1, <3>2
    <2>2. CASE ~CreateRefund(r)
      BY <2>2 DEF CreatePayout, WriteClosed, WriteApproval
    <2> QED BY <2>1, <2>2
  <1>3. /\ refund' \in [Refunds -> {NoRow} \union RefundRow]
        /\ \A x \in Refunds : refund[x] \in RefundRow =>
               refund'[x] \in RefundRow /\ refund'[x].amount = refund[x].amount
    <2>1. CASE CreateRefund(r)
      BY <1>0, <2>1 DEF CreateRefund, At, Worth, Rows, RefundRow, RefundStatus, NoRow
    <2>2. CASE WriteClosed(r)
      BY <1>0, <2>2 DEF WriteClosed, At, Worth, Fits, OnRefund, Rows, RefundRow, RefundStatus
    <2>3. CASE CreatePayout(r) \/ WriteApproval(r)
      BY <1>0, <2>3 DEF CreatePayout, WriteApproval, Rows
    <2> QED BY <2>1, <2>2, <2>3
  <1>4. /\ payout' \in [Payouts -> {NoRow} \union PayoutRow]
        /\ \A p \in Payouts : payout[p] \in PayoutRow =>
               payout'[p] \in PayoutRow /\ payout'[p].amount = payout[p].amount
    <2>1. CASE CreatePayout(r)
      BY <1>0, <2>1 DEF CreatePayout, At, Worth, Rows, PayoutRow, PayoutStatus, NoRow
    <2>2. CASE WriteApproval(r)
      BY <1>0, <2>2 DEF WriteApproval, At, Worth, Fits, OnPayout, Rows, PayoutRow, PayoutStatus
    <2>3. CASE CreateRefund(r) \/ WriteClosed(r)
      BY <1>0, <2>3 DEF CreateRefund, WriteClosed, Rows
    <2> QED BY <2>1, <2>2, <2>3
  <1>5. Rows' /\ SettledRows'
    BY <1>0, <1>1, <1>3, <1>4 DEF Rows, SettledRows, BooksOK
  <1>6. MovesOnce'
    BY <1>0, <1>1, <1>3, <1>4, <1>5, MovesKept DEF SettledRows
  <1>7. \A q \in Operators : Worth(req[q])'
    BY <1>2, <1>3, <1>4, WorthKept
  <1> QED BY <1>5, <1>6, <1>7 DEF Money

\* One more charge.
LEMMA Times == ASSUME NEW a \in Nat, NEW c \in Nat PROVE a * (1 + (c + 1)) = a * (1 + c) + a
  OBVIOUS

\* The commit of a refund or a payout settles one row more, and posts its amount.
LEMMA CommitMoney ==
    ASSUME IndInv, Money, NEW r \in Operators, CommitRefund(r) \/ CommitPayout(r)
    PROVE  Money'
  <1>0. Fits(req[r]) /\ Worth(req[r]) /\ Rows /\ SettledRows /\ MovesOnce
    BY DEF IndInv, Shape, Money
  <1>i. PICK item : item = req[r].item
    OBVIOUS
  <1>s. PICK s : s = req[r].status
    OBVIOUS
  <1>1. Goto(r, Idle) /\ UNCHANGED minted /\ item \notin settled
    BY <1>i, CommitIndInv DEF CommitRefund, CommitPayout
  <1>2. s \in GatewayStatus
    BY <1>s, <1>0, ItemIsMove DEF CommitRefund, CommitPayout, At, IndInv, Shape, InHand, Heard, Carrying
  <1>3. CASE CommitRefund(r)
    <2>1. item \in Refunds /\ refund[item] \in RefundRow /\ req[r].held \in Int
      BY <1>0, <1>3, <1>i DEF CommitRefund, At, Fits, Worth, OnRefund
    <2>2. /\ refund' = [refund EXCEPT ![item].status = RefundStatusOf(s)] /\ UNCHANGED payout
          /\ RefundStatusOf(s) \in RefundStatus
      BY <1>2, <1>3, <1>i, <1>s DEF CommitRefund, RefundStatusOf, RefundStatus
    <2>3. /\ refund' \in [Refunds -> {NoRow} \union RefundRow] /\ refund'[item] \in RefundRow
          /\ \A x \in Refunds : refund'[x].amount = refund[x].amount
          /\ \A x \in Refunds : refund[x] \in RefundRow => refund'[x] \in RefundRow
      <3>1. \A x \in Refunds : x # item => refund'[x] = refund[x]
        BY <1>0, <2>1, <2>2 DEF Rows
      <3>2. refund'[item] = [refund[item] EXCEPT !.status = RefundStatusOf(s)]
        BY <1>0, <2>1, <2>2 DEF Rows
      <3>3. refund'[item] \in RefundRow /\ refund'[item].amount = refund[item].amount
        BY <2>1, <2>2, <3>2 DEF RefundRow
      <3> QED BY <1>0, <2>2, <3>1, <3>3 DEF Rows
    <2>4. PICK a \in Int, p \in Int, h \in Int :
             a = refund[item].amount /\ p = PartOf(item) /\ h = req[r].held
      BY <2>1, PartOfNat DEF RefundRow
    <2>5. CASE s = "SUCCEEDED"
      <3>1. Post(Refund(a, p, h)) /\ settled' = settled \union {item}
        BY <1>3, <1>i, <1>s, <2>4, <2>5 DEF CommitRefund
      <3>2. /\ BooksOK' /\ books'["CUSTOMER_EXTERNAL"] = books["CUSTOMER_EXTERNAL"] + a
            /\ books'["PROVIDER_PAID_OUT"] = books["PROVIDER_PAID_OUT"] + 0
        <4>1. /\ a \in Int /\ -p \in Int /\ -h \in Int /\ -(a - p - h) \in Int /\ 0 \in Int
          OBVIOUS
        <4>2. Post(Entries(a, -p, -h, -(a - p - h), 0))
          BY <3>1 DEF Refund, Post
        <4> QED BY <1>0, <4>1, <4>2, Posted DEF Rows
      <3>3. Rows' /\ SettledRows'
        BY <1>0, <1>1, <2>2, <2>3, <3>1, <3>2 DEF Rows, SettledRows
      <3>4. /\ Settled(refund, Refunds)' = Settled(refund, Refunds) + a
            /\ Settled(payout, Payouts)' = Settled(payout, Payouts)
        BY <1>0, <1>1, <2>1, <2>2, <2>3, <2>4, <3>1, <3>3, RefundSettled
      <3>5. MovesOnce'
        <4>1. PICK sum, c : sum = Settled(refund, Refunds) /\ c = Amount * (1 + Cardinality(minted))
          OBVIOUS
        <4>2. sum \in Int /\ c \in Int /\ books["CUSTOMER_EXTERNAL"] = sum - c
          <5>1. sum \in Nat
            BY <1>0, <4>1, SettledAmounts, AmountsAdd DEF Settled
          <5>2. Cardinality(minted) \in Nat
            BY <1>0, MovesFinite DEF Rows
          <5>3. c \in Int
            BY <4>1, <5>2, LedgerAssumption
          <5>4. books["CUSTOMER_EXTERNAL"] + c = sum /\ books["CUSTOMER_EXTERNAL"] \in Int
            BY <1>0, <4>1 DEF MovesOnce, ChargedInAll, Rows, BooksOK, Buckets
          <5> QED BY <5>1, <5>3, <5>4
        <4>3. (sum + a) - c = (sum - c) + a
          BY <4>2
        <4>4. books'["CUSTOMER_EXTERNAL"] = Settled(refund, Refunds)' - c
          BY <3>2, <3>4, <4>1, <4>2, <4>3
        <4>5. books'["PROVIDER_PAID_OUT"] = books["PROVIDER_PAID_OUT"]
          BY <1>0, <3>2 DEF Rows, BooksOK, Buckets
        <4>6. books'["CUSTOMER_EXTERNAL"] + c = Settled(refund, Refunds)'
          BY <2>4, <3>1, <3>4, <4>1, <4>2, <4>4
        <4> QED BY <1>0, <1>1, <3>4, <4>1, <4>5, <4>6 DEF MovesOnce, ChargedInAll
      <3>6. \A q \in Operators : Worth(req[q])'
        BY <1>1, <2>2, <2>3, WorthKept
      <3> QED BY <3>3, <3>5, <3>6 DEF Money
    <2>6. CASE s # "SUCCEEDED"
      <3>1. UNCHANGED <<books, settled>>
        BY <1>3, <1>s, <2>6 DEF CommitRefund
      <3>2. Rows' /\ SettledRows'
        BY <1>0, <1>1, <2>2, <2>3, <3>1 DEF Rows, SettledRows, BooksOK
      <3>3. MovesOnce'
        BY <1>1, <2>2, <2>3, <3>1, <3>2, MovesKept
      <3>4. \A q \in Operators : Worth(req[q])'
        BY <1>1, <2>2, <2>3, WorthKept
      <3> QED BY <3>2, <3>3, <3>4 DEF Money
    <2> QED BY <2>5, <2>6
  <1>4. CASE CommitPayout(r)
    <2>1. item \in Payouts /\ payout[item] \in PayoutRow
      BY <1>0, <1>4, <1>i DEF CommitPayout, At, Fits, Paying, Worth, OnPayout
    <2>2. /\ payout' = [payout EXCEPT ![item].status = PayoutStatusOf(s)] /\ UNCHANGED refund
          /\ PayoutStatusOf(s) \in PayoutStatus
      BY <1>2, <1>4, <1>i, <1>s DEF CommitPayout, PayoutStatusOf, PayoutStatus
    <2>3. /\ payout' \in [Payouts -> {NoRow} \union PayoutRow] /\ payout'[item] \in PayoutRow
          /\ \A x \in Payouts : payout'[x].amount = payout[x].amount
          /\ \A x \in Payouts : payout[x] \in PayoutRow => payout'[x] \in PayoutRow
      <3>1. \A x \in Payouts : x # item => payout'[x] = payout[x]
        BY <1>0, <2>1, <2>2 DEF Rows
      <3>2. payout'[item] = [payout[item] EXCEPT !.status = PayoutStatusOf(s)]
        BY <1>0, <2>1, <2>2 DEF Rows
      <3>3. payout'[item] \in PayoutRow /\ payout'[item].amount = payout[item].amount
        BY <2>1, <2>2, <3>2 DEF PayoutRow
      <3> QED BY <1>0, <2>2, <3>1, <3>3 DEF Rows
    <2>4. PICK a \in Int : a = payout[item].amount
      BY <2>1 DEF PayoutRow
    <2>5. CASE s = "SUCCEEDED"
      <3>1. Post(PayOut(a)) /\ settled' = settled \union {item}
        BY <1>4, <1>i, <1>s, <2>4, <2>5 DEF CommitPayout
      <3>2. /\ BooksOK' /\ books'["CUSTOMER_EXTERNAL"] = books["CUSTOMER_EXTERNAL"] + 0
            /\ books'["PROVIDER_PAID_OUT"] = books["PROVIDER_PAID_OUT"] + a
        <4>1. /\ a \in Int /\ -a \in Int /\ 0 \in Int
          OBVIOUS
        <4>2. Post(Entries(0, 0, 0, -a, a))
          BY <3>1 DEF PayOut, Post
        <4> QED BY <1>0, <4>1, <4>2, Posted DEF Rows
      <3>3. Rows' /\ SettledRows'
        BY <1>0, <1>1, <2>2, <2>3, <3>1, <3>2 DEF Rows, SettledRows
      <3>4. /\ Settled(payout, Payouts)' = Settled(payout, Payouts) + a
            /\ Settled(refund, Refunds)' = Settled(refund, Refunds)
        BY <1>0, <1>1, <2>1, <2>2, <2>3, <2>4, <3>1, <3>3, PayoutSettled
      <3>5. MovesOnce'
        <4>1. books'["CUSTOMER_EXTERNAL"] = books["CUSTOMER_EXTERNAL"]
          BY <1>0, <3>2 DEF Rows, BooksOK, Buckets
        <4> QED BY <1>0, <1>1, <3>2, <3>4, <4>1 DEF MovesOnce, ChargedInAll
      <3>6. \A q \in Operators : Worth(req[q])'
        BY <1>1, <2>2, <2>3, WorthKept
      <3> QED BY <3>3, <3>5, <3>6 DEF Money
    <2>6. CASE s # "SUCCEEDED"
      <3>1. UNCHANGED <<books, settled>>
        BY <1>4, <1>s, <2>6 DEF CommitPayout
      <3>2. Rows' /\ SettledRows'
        BY <1>0, <1>1, <2>2, <2>3, <3>1 DEF Rows, SettledRows, BooksOK
      <3>3. MovesOnce'
        BY <1>1, <2>2, <2>3, <3>1, <3>2, MovesKept
      <3>4. \A q \in Operators : Worth(req[q])'
        BY <1>1, <2>2, <2>3, WorthKept
      <3> QED BY <3>2, <3>3, <3>4 DEF Money
    <2> QED BY <2>5, <2>6
  <1> QED BY <1>3, <1>4

LEMMA CommitReleaseMoney ==
    ASSUME IndInv, Money, NEW r \in Operators, CommitRelease(r)
    PROVE  Money'
  <1>1. PICK h \in Int : h = req[r].held
    BY DEF Money, Worth, CommitRelease, At
  <1>2. /\ Post(Entries(0, 0, -h, h, 0)) /\ Goto(r, Idle)
        /\ UNCHANGED <<refund, payout, minted, settled>>
    BY <1>1 DEF CommitRelease, Release, Post
  <1>3. /\ BooksOK' /\ books'["CUSTOMER_EXTERNAL"] = books["CUSTOMER_EXTERNAL"] + 0
        /\ books'["PROVIDER_PAID_OUT"] = books["PROVIDER_PAID_OUT"] + 0
    <2>1. -h \in Int /\ 0 \in Int
      OBVIOUS
    <2> QED BY <1>2, <2>1, Posted DEF Money, Rows
  <1>4. /\ books'["CUSTOMER_EXTERNAL"] = books["CUSTOMER_EXTERNAL"]
        /\ books'["PROVIDER_PAID_OUT"] = books["PROVIDER_PAID_OUT"]
    BY <1>3 DEF Money, Rows, BooksOK, Buckets
  <1>5. MovesOnce'
    BY <1>2, <1>4 DEF Money, MovesOnce, ChargedInAll, Settled
  <1>6. Rows' /\ SettledRows'
    BY <1>2, <1>3 DEF Money, Rows, SettledRows
  <1>7. \A q \in Operators : Worth(req[q])'
    BY <1>2, WorthKept
  <1> QED BY <1>5, <1>6, <1>7 DEF Money

\* A late SUCCEEDED about a refund or a payout posts the entries of a charge, once.
LEMMA ConfirmMoney ==
    ASSUME IndInv, Money, NEW m \in Moves, NEW s \in Confirmations, Confirm(m, s)
    PROVE  Money'
  <1>1. UNCHANGED <<refund, payout, settled, req>>
    BY DEF Confirm
  <1>2. \A q \in Operators : Worth(req[q])'
    BY <1>1 DEF Money, Worth
  <1>3. CASE UNCHANGED <<books, minted>>
    BY <1>1, <1>2, <1>3 DEF Money, Rows, SettledRows, BooksOK, MovesOnce, ChargedInAll, Settled
  <1>4. CASE Post(Charge) /\ minted' = minted \union {m} /\ m \notin minted
    <2>1. PICK f \in Int, n \in Int : f = Split.fee /\ n = Split.net
      BY LedgerAssumption, SplitConserves DEF Split
    <2>2. Post(Entries(-Amount, f, n, 0, 0))
      BY <1>4, <2>1 DEF Charge, Post
    <2>3. -Amount \in Int /\ 0 \in Int
      BY LedgerAssumption
    <2>4. /\ BooksOK' /\ books'["CUSTOMER_EXTERNAL"] = books["CUSTOMER_EXTERNAL"] + (-Amount)
          /\ books'["PROVIDER_PAID_OUT"] = books["PROVIDER_PAID_OUT"] + 0
      BY <2>2, <2>3, Posted DEF Money, Rows
    <2>5. PICK c \in Nat : c = Cardinality(minted)
      BY MovesFinite DEF Money, Rows
    <2>6. Cardinality(minted') = c + 1
      BY <1>4, <2>5, MovesFinite, FS_AddElement DEF Money, Rows
    <2>7. Amount * (1 + (c + 1)) = Amount * (1 + c) + Amount /\ Amount * (1 + c) \in Int
      BY LedgerAssumption, Times
    <2>8. PICK sum \in Int : sum = Settled(refund, Refunds)
      BY SettledAmounts, AmountsAdd DEF Money, Settled
    <2>9. Settled(refund, Refunds)' = sum /\ Settled(payout, Payouts)' = Settled(payout, Payouts)
      BY <1>1, <2>8 DEF Settled
    <2>10. books["CUSTOMER_EXTERNAL"] = sum - Amount * (1 + c)
      <3>1. books["CUSTOMER_EXTERNAL"] + Amount * (1 + c) = sum
        BY <2>5, <2>8 DEF Money, MovesOnce, ChargedInAll
      <3>2. books["CUSTOMER_EXTERNAL"] \in Int
        BY DEF Money, Rows, BooksOK, Buckets
      <3> QED BY <2>7, <2>8, <3>1, <3>2
    <2>11. books'["CUSTOMER_EXTERNAL"] = sum - Amount * (1 + (c + 1))
      BY <2>4, <2>7, <2>10, LedgerAssumption
    <2>12. books'["PROVIDER_PAID_OUT"] = books["PROVIDER_PAID_OUT"]
      BY <2>4 DEF Money, Rows, BooksOK, Buckets
    <2>13. MovesOnce'
      <3>1. PICK d \in Int : d = Amount * (1 + (c + 1))
        BY <2>7, LedgerAssumption
      <3>2. books'["CUSTOMER_EXTERNAL"] + d = sum
        BY <2>8, <2>11, <3>1
      <3> QED BY <2>6, <2>9, <2>12, <3>1, <3>2 DEF Money, MovesOnce, ChargedInAll
    <2>14. Rows' /\ SettledRows'
      BY <1>1, <1>4, <2>4 DEF Money, Rows, SettledRows
    <2> QED BY <1>2, <2>13, <2>14 DEF Money
  <1> QED BY <1>3, <1>4 DEF Confirm

LEMMA NextMoney == IndInv /\ Money /\ [Next]_vars => Money'
  <1> SUFFICES ASSUME IndInv, Money, [Next]_vars PROVE Money'
    OBVIOUS
  <1>1. ASSUME NEW r \in Operators, Arrive(r) PROVE Money'
    BY <1>1, ArriveMoney
  <1>2. ASSUME NEW r \in Operators, RefundStep(r) \/ PayoutStep(r) \/ ReleaseStep(r)
        PROVE  Money'
    BY <1>2, ReadingMoney, RowMoney, CommitMoney, CommitReleaseMoney
       DEF RefundStep, PayoutStep, ReleaseStep
  <1>3. ASSUME NEW r \in Operators, Abort(r) PROVE Money'
    <2>1. Worth(Idle)
      BY DEF Worth, Idle, OnRefund, OnPayout
    <2> QED BY <1>3, <2>1, MoveOnMoney DEF Abort, rows
  <1>4. ASSUME NEW m \in Moves, NEW s \in Confirmations, Confirm(m, s) PROVE Money'
    BY <1>4, ConfirmMoney
  <1>5. CASE JobMovesOn \/ DelayElapses \/ UNCHANGED vars
    <2>1. UNCHANGED <<rows, req>>
      BY <1>5 DEF JobMovesOn, DelayElapses, vars
    <2> QED BY <2>1 DEF rows, Money, Rows, SettledRows, BooksOK, MovesOnce, ChargedInAll, Settled, Worth
  <1> QED BY <1>1, <1>2, <1>3, <1>4, <1>5 DEF Next

\* Every refund that was settled gave its amount back once and every payout paid
\* the provider once; whatever else left or entered the customer's account are
\* whole charges, one for each late SUCCEEDED that found no CUSTOMER_CHARGE entries.
THEOREM MoneyMovesOnce == Spec => []MovesOnce
  <1>1. Spec => []Money
    BY InitMoney, NextMoney, SettlementInvariant, PTL DEF Spec
  <1>2. Money => MovesOnce
    BY DEF Money
  <1> QED BY <1>1, <1>2, PTL

-----------------------------------------------------------------------------
(* The promise of Escrow: no balance is overdrawn. *)

\* The ledger of Escrow is that of Settlement.
LEMMA SameLedger ==
    /\ \A e, p, h, a, o : E!Post(E!Entries(e, p, h, a, o)) <=> Post(Entries(e, p, h, a, o))
    /\ E!Charge = Charge /\ E!Split = Split
  BY DEF E!Post, E!Entries, E!Buckets, Post, Entries, Buckets, E!Charge, Charge, E!Split, Split,
     E!ComputeSplit, ComputeSplit, E!AtLeast, AtLeast, E!PlatformFee, PlatformFee, E!Least, Least,
     E!RoundDiv, RoundDiv, E!BasisPoints, BasisPoints

\* The steps of Escrow, in terms of what a commit posts.
LEMMA EscrowRelease ==
    ASSUME books["PROVIDER_HELD"] > 0, Post(Release(books["PROVIDER_HELD"]))
    PROVE  E!Next
  BY DEF E!Next, E!ReleaseHeld, E!Post, E!Release, E!Entries, E!Buckets, Post, Release, Entries, Buckets

LEMMA EscrowRefund ==
    ASSUME NEW amount \in 1..Amount, NEW p, NEW h,
           p = PlatformPart(amount, Split.fee, Amount),
           p <= books["PLATFORM_RESERVED"],
           amount - p <= books["PROVIDER_HELD"] + books["PROVIDER_AVAILABLE"],
           h = Least(books["PROVIDER_HELD"], amount - p),
           Post(Refund(amount, p, h))
    PROVE  E!Next
  <1>1. p = E!PlatformPart(amount, E!Split.fee, Amount)
    BY SameLedger DEF E!PlatformPart, PlatformPart, E!RoundDiv, RoundDiv
  <1>2. h = E!Least(books["PROVIDER_HELD"], amount - p)
    BY DEF E!Least, Least
  <1>3. E!Post(E!Refund(amount, p, h))
    BY SameLedger DEF E!Refund, Refund
  <1>4. E!RefundCustomer(amount)
    BY <1>1, <1>2, <1>3 DEF E!RefundCustomer
  <1> QED BY <1>4 DEF E!Next

LEMMA EscrowPay ==
    ASSUME NEW amount \in 1..Amount, amount <= books["PROVIDER_AVAILABLE"], Post(PayOut(amount))
    PROVE  E!Next
  <1>1. E!PayProvider(amount)
    BY SameLedger DEF E!PayProvider, E!PayOut, PayOut
  <1> QED BY <1>1 DEF E!Next

\* The nets of the buckets, and that they add up.
Books == BooksOK /\ Balanced /\ Solvent

\* What a refund takes from the platform is a part of the refund.
LEMMA RefundSplit ==
    ASSUME NEW amount \in 1..Amount
    PROVE  PlatformPart(amount, Split.fee, Amount) \in 0..amount
<1>1. Split.fee \in 0..Amount
  BY SplitConserves DEF Split
<1> QED
  BY <1>1, PlatformPartBounded

\* Entries that add up to zero and overdraw no bucket keep the books.
LEMMA PostKeepsBooks ==
    ASSUME Books, NEW e \in Int, NEW p \in Int, NEW h \in Int, NEW a \in Int, NEW o \in Int,
           e + p + h + a + o = 0,
           books["PLATFORM_RESERVED"] + p >= 0, books["PROVIDER_HELD"] + h >= 0,
           books["PROVIDER_AVAILABLE"] + a >= 0, books["PROVIDER_PAID_OUT"] + o >= 0,
           Post(Entries(e, p, h, a, o))
    PROVE  Books'
<1>1. /\ books'["CUSTOMER_EXTERNAL"] = books["CUSTOMER_EXTERNAL"] + e
      /\ books'["PLATFORM_RESERVED"] = books["PLATFORM_RESERVED"] + p
      /\ books'["PROVIDER_HELD"] = books["PROVIDER_HELD"] + h
      /\ books'["PROVIDER_AVAILABLE"] = books["PROVIDER_AVAILABLE"] + a
      /\ books'["PROVIDER_PAID_OUT"] = books["PROVIDER_PAID_OUT"] + o
  BY DEF Post, Entries, Buckets
<1>2. books'["CUSTOMER_EXTERNAL"] \in Int /\ books'["PLATFORM_RESERVED"] \in Int
      /\ books'["PROVIDER_HELD"] \in Int /\ books'["PROVIDER_AVAILABLE"] \in Int
      /\ books'["PROVIDER_PAID_OUT"] \in Int
  BY <1>1 DEF Books, BooksOK, Buckets
<1>3. BooksOK'
  <2>1. \A b \in Buckets : books'[b] \in Int
    BY <1>2 DEF Buckets
  <2>2. books' = [b \in Buckets |-> books'[b]]
    BY DEF Post
  <2> QED
    BY <2>1, <2>2 DEF BooksOK
<1>4. Balanced'
  BY <1>1, <1>2 DEF Books, BooksOK, Balanced, Buckets
<1>5. /\ books'["PLATFORM_RESERVED"] >= 0 /\ books'["PROVIDER_HELD"] >= 0
      /\ books'["PROVIDER_AVAILABLE"] >= 0 /\ books'["PROVIDER_PAID_OUT"] >= 0
  BY <1>1
<1>6. books'["CUSTOMER_EXTERNAL"] <= 0
  BY <1>2, <1>4, <1>5 DEF Balanced
<1> QED
  BY <1>3, <1>4, <1>5, <1>6 DEF Books, Solvent, Buckets

LEMMA BooksInit == E!Init => Books
<1> SUFFICES ASSUME E!Init PROVE Books
  OBVIOUS
<1>1. Split.fee \in 0..Amount /\ Split.net \in 0..Amount /\ Split.fee + Split.net = Amount
  BY SplitConserves DEF Split
<1>2. /\ books["CUSTOMER_EXTERNAL"] = -Amount
      /\ books["PLATFORM_RESERVED"] = Split.fee
      /\ books["PROVIDER_HELD"] = Split.net
      /\ books["PROVIDER_AVAILABLE"] = 0
      /\ books["PROVIDER_PAID_OUT"] = 0
      /\ books = [b \in Buckets |-> books[b]]
  BY SameLedger DEF E!Init, Charge, Entries, Buckets
<1> QED
  BY <1>1, <1>2 DEF Books, BooksOK, Balanced, Solvent, Buckets

LEMMA BooksNext == Books /\ [E!Next]_books => Books'
<1> SUFFICES ASSUME Books, [E!Next]_books PROVE Books'
  OBVIOUS
<1>0. /\ books["CUSTOMER_EXTERNAL"] \in Int /\ books["PLATFORM_RESERVED"] \in Nat
      /\ books["PROVIDER_HELD"] \in Nat /\ books["PROVIDER_AVAILABLE"] \in Nat
      /\ books["PROVIDER_PAID_OUT"] \in Nat
  BY DEF Books, BooksOK, Solvent, Buckets
<1>1. CASE E!ReleaseHeld
  <2>1. PICK h : h = books["PROVIDER_HELD"]
    OBVIOUS
  <2>2. h \in Nat /\ Post(Entries(0, 0, -h, h, 0))
    BY <1>0, <1>1, <2>1, SameLedger DEF E!ReleaseHeld, E!Release
  <2>3. /\ 0 + 0 + (-h) + h + 0 = 0
        /\ books["PLATFORM_RESERVED"] + 0 >= 0 /\ books["PROVIDER_HELD"] + (-h) >= 0
        /\ books["PROVIDER_AVAILABLE"] + h >= 0 /\ books["PROVIDER_PAID_OUT"] + 0 >= 0
    BY <1>0, <2>1
  <2>4. h \in Int /\ -h \in Int /\ 0 \in Int
    BY <2>2
  <2> QED
    BY <2>2, <2>3, <2>4, PostKeepsBooks
<1>2. ASSUME NEW amount \in 1..Amount, E!RefundCustomer(amount) PROVE Books'
  <2>1. PICK p, h : /\ p = PlatformPart(amount, Split.fee, Amount)
                    /\ h = Least(books["PROVIDER_HELD"], amount - p)
    OBVIOUS
  <2>2. p \in 0..amount
    BY <2>1, RefundSplit
  <2>3. /\ p <= books["PLATFORM_RESERVED"]
        /\ amount - p <= books["PROVIDER_HELD"] + books["PROVIDER_AVAILABLE"]
        /\ Post(Entries(amount, -p, -h, -(amount - p - h), 0))
    BY <1>2, <2>1, SameLedger DEF E!RefundCustomer, E!Refund, E!PlatformPart, PlatformPart,
         E!RoundDiv, RoundDiv, E!Least, Least
  <2>4. /\ h \in Nat /\ h <= books["PROVIDER_HELD"] /\ h <= amount - p
        /\ amount - p - h <= books["PROVIDER_AVAILABLE"]
    BY <1>0, <2>1, <2>2, <2>3 DEF Least
  <2>5. /\ amount + (-p) + (-h) + (-(amount - p - h)) + 0 = 0
        /\ books["PLATFORM_RESERVED"] + (-p) >= 0 /\ books["PROVIDER_HELD"] + (-h) >= 0
        /\ books["PROVIDER_AVAILABLE"] + (-(amount - p - h)) >= 0
        /\ books["PROVIDER_PAID_OUT"] + 0 >= 0
    BY <1>0, <2>2, <2>3, <2>4
  <2>6. /\ amount \in Int /\ -p \in Int /\ -h \in Int /\ -(amount - p - h) \in Int /\ 0 \in Int
    BY <2>2, <2>4
  <2> QED
    BY <2>3, <2>5, <2>6, PostKeepsBooks
<1>3. ASSUME NEW amount \in 1..Amount, E!PayProvider(amount) PROVE Books'
  <2>1. amount <= books["PROVIDER_AVAILABLE"] /\ Post(Entries(0, 0, 0, -amount, amount))
    BY <1>3, SameLedger DEF E!PayProvider, E!PayOut
  <2>2. /\ 0 + 0 + 0 + (-amount) + amount = 0
        /\ books["PLATFORM_RESERVED"] + 0 >= 0 /\ books["PROVIDER_HELD"] + 0 >= 0
        /\ books["PROVIDER_AVAILABLE"] + (-amount) >= 0
        /\ books["PROVIDER_PAID_OUT"] + amount >= 0
    BY <1>0, <2>1
  <2>3. amount \in Int /\ -amount \in Int /\ 0 \in Int
    OBVIOUS
  <2> QED
    BY <2>1, <2>2, <2>3, PostKeepsBooks
<1>4. CASE UNCHANGED books
  BY <1>4 DEF Books, BooksOK, Balanced, Solvent
<1> QED
  BY <1>1, <1>2, <1>3, <1>4 DEF E!Next

\* No balance of an intent is ever overdrawn and the customer gets no more
\* than was paid, for every amount and fee, as long as refunds, releases and
\* payouts take effect one after the other: the guards of
\* appendRefundLedgerEntries and adminProcessPayout are enough then.
THEOREM EscrowSolvent == E!Spec => []Solvent
<1>1. E!Spec => []Books
  BY BooksInit, BooksNext, PTL DEF E!Spec
<1>2. Books => Solvent
  BY DEF Books
<1> QED
  BY <1>1, <1>2, PTL

-----------------------------------------------------------------------------
(* Requests that do not overlap keep it, if no success comes late. *)

\* One request at a time, and no late success of a refund or a payout: such a
\* success is booked as a charge, which is no step of Escrow.
OneAtATime == /\ \A r, q \in Operators : r = q
              /\ "SUCCEEDED" \notin Confirmations

\* What the only request has read of the ledger is still so.
Fresh(q) ==
    /\ q.pc = "createRefund" => q.amount <= Amount
    /\ q.pc = "commitRelease" => q.held = books["PROVIDER_HELD"] /\ q.held > 0
    /\ q.pc = "commitRefund" /\ q.status = "SUCCEEDED" =>
           CanRefund(q.item) /\ q.held = HeldDebit(q.item)
    /\ q.pc = "commitPayout" /\ q.status = "SUCCEEDED" =>
           payout[q.item].amount <= books["PROVIDER_AVAILABLE"]

InTurn ==
    /\ minted = {} /\ Balanced /\ Solvent
    /\ \A x \in Refunds : refund[x] \in RefundRow => refund[x].amount <= Amount
    /\ \A r \in Operators : Fresh(req[r])

LEMMA InitInTurn == Init => InTurn
  <1> SUFFICES ASSUME Init PROVE InTurn
    OBVIOUS
  <1>1. E!Init
    BY SameLedger DEF Init, E!Init
  <1>2. Balanced /\ Solvent
    BY <1>1, BooksInit DEF Books
  <1> QED BY <1>2 DEF Init, InTurn, Fresh, Idle, RefundRow, NoRow

\* The only request goes on, and the books stay.
LEMMA MoveOnInTurn ==
    ASSUME OneAtATime, IndInv, InTurn, NEW r \in Operators, NEW step, Goto(r, step),
           Fresh(step)', UNCHANGED <<minted, books>>,
           \A x \in Refunds : refund'[x] \in RefundRow => refund'[x].amount <= Amount
    PROVE  InTurn'
  <1>1. \A q \in Operators : req'[q] = step
    BY DEF OneAtATime, Goto, IndInv, Shape
  <1>2. \A q \in Operators : Fresh(req[q])'
    BY <1>1 DEF Fresh
  <1>3. Balanced' /\ Solvent'
    BY DEF InTurn, Balanced, Solvent
  <1> QED BY <1>2, <1>3 DEF InTurn

\* ... or a step of the ledger's promise is taken.
LEMMA PostInTurn ==
    ASSUME OneAtATime, IndInv, Money, InTurn, NEW r \in Operators, Goto(r, Idle),
           E!Next, UNCHANGED minted,
           \A x \in Refunds : refund'[x] \in RefundRow => refund'[x].amount <= Amount
    PROVE  InTurn'
  <1>1. \A q \in Operators : req'[q] = Idle
    BY DEF OneAtATime, Goto, IndInv, Shape
  <1>2. \A q \in Operators : Fresh(req[q])'
    BY <1>1 DEF Fresh, Idle
  <1>3. Balanced' /\ Solvent'
    BY BooksNext DEF InTurn, Money, Rows, Books
  <1> QED BY <1>2, <1>3 DEF InTurn

\* A step that decides on what it reads.
LEMMA HoldInTurn ==
    ASSUME OneAtATime, IndInv, InTurn, NEW r \in Operators, NEW step, Hold(r, step), Fresh(step)
    PROVE  InTurn' /\ UNCHANGED books
  <1>1. UNCHANGED <<refund, payout, minted, books, intent>> /\ Goto(r, step)
    BY DEF Hold, rows
  <1>2. Fresh(step)'
    BY <1>1 DEF Fresh, CanRefund, HeldDebit, PartOf
  <1> QED BY <1>1, <1>2, MoveOnInTurn DEF InTurn

LEMMA ToOther ==
    ASSUME NEW step, step.pc \notin {"createRefund", "commitRelease", "commitRefund", "commitPayout"}
    PROVE  Fresh(step) /\ Fresh(step)'
  BY DEF Fresh

LEMMA ArriveInTurn ==
    ASSUME OneAtATime, IndInv, Money, InTurn, NEW r \in Operators, Arrive(r)
    PROVE  InTurn' /\ UNCHANGED books
  <1>1. CASE RequestRefund(r) \/ AdminRequestRefund(r)
    <2>1. PICK amount, then :
             /\ amount <= Refundable
             /\ amount \in Asks \/ amount = Suggested \/ amount = Refundable
             /\ Hold(r, [pc |-> "createRefund", amount |-> amount, then |-> then])
             /\ Refundable > 0
      BY <1>1 DEF RequestRefund, AdminRequestRefund
    <2>2. amount \in Nat /\ Refundable \in 0..Amount
      BY <2>1, AskedPositive, RefundableBounded DEF Money
    <2>3. amount <= Amount
      BY <2>1, <2>2
    <2>4. Fresh([pc |-> "createRefund", amount |-> amount, then |-> then])
      BY <2>3 DEF Fresh
    <2> QED BY <2>1, <2>4, HoldInTurn
  <1>2. CASE \E x \in Refunds : ApproveRefund(r, x) \/ CloseRefund(r, x)
    <2>1. PICK step : Hold(r, step) /\ step.pc \in {"process", "closeRefund"}
      BY <1>2 DEF ApproveRefund, CloseRefund
    <2> QED BY <2>1, ToOther, HoldInTurn
  <1>3. CASE ReadAvailable(r) \/ ReleaseFunds(r)
    <2>1. PICK step : Hold(r, step) /\ step.pc \in {"reserve", "release"}
      BY <1>3 DEF ReadAvailable, ReleaseFunds
    <2> QED BY <2>1, ToOther, HoldInTurn
  <1>4. CASE \E p \in Payouts : ApprovePayout(r, p) \/ ProcessPayout(r, p)
    <2>1. PICK step : Hold(r, step) /\ step.pc \in {"approvePayout", "askPayout"}
      BY <1>4 DEF ApprovePayout, ProcessPayout
    <2> QED BY <2>1, ToOther, HoldInTurn
  <1> QED BY <1>1, <1>2, <1>3, <1>4 DEF Arrive

LEMMA ReadingInTurn ==
    ASSUME OneAtATime, IndInv, Money, InTurn, NEW r \in Operators,
           \/ CheckRefund(r) \/ RecheckRefund(r) \/ LockRefund(r) \/ AskRefund(r) \/ SettleRefund(r)
           \/ CheckPayout(r) \/ AskPayout(r) \/ RecheckPayout(r) \/ InsertPayout(r) \/ ReadHeld(r)
    PROVE  InTurn' /\ UNCHANGED books
  <1>0. Fits(req[r]) /\ BooksOK /\ Solvent
    BY DEF IndInv, Shape, Money, Rows, InTurn
  <1>i. Fresh(Idle)
    BY DEF Idle, Fresh
  <1>1. CASE CheckRefund(r) \/ RecheckRefund(r) \/ LockRefund(r)
    <2>1. PICK pc \in {"recheck", "approve", "askRefund"} :
              Hold(r, Idle) \/ Hold(r, [req[r] EXCEPT !.pc = pc])
      BY <1>1 DEF CheckRefund, RecheckRefund, LockRefund
    <2>2. [req[r] EXCEPT !.pc = pc].pc = pc
      BY <1>0, <1>1 DEF CheckRefund, RecheckRefund, LockRefund, At, Fits, Processing
    <2> QED BY <1>i, <2>1, <2>2, ToOther, HoldInTurn
  <1>2. CASE AskRefund(r) \/ AskPayout(r)
    <2>1. PICK step : /\ Goto(r, step) /\ step.pc \in {"idle", "settle", "recheckPayout"}
                      /\ UNCHANGED <<refund, payout, minted, books>>
      BY <1>2 DEF AskRefund, AskPayout, Idle
    <2> QED BY <2>1, ToOther, MoveOnInTurn DEF InTurn
  <1>3. CASE SettleRefund(r)
    <2>1. PICK x, s : x = req[r].item /\ s = req[r].status
      OBVIOUS
    <2>2. \/ Hold(r, Idle)
          \/ /\ s # "SUCCEEDED"
             /\ Hold(r, [pc |-> "commitRefund", item |-> x, status |-> s, held |-> 0])
          \/ /\ CanRefund(x)
             /\ Hold(r, [pc |-> "commitRefund", item |-> x, status |-> "SUCCEEDED",
                         held |-> HeldDebit(x)])
      BY <1>3, <2>1 DEF SettleRefund
    <2>3. s # "SUCCEEDED" => Fresh([pc |-> "commitRefund", item |-> x, status |-> s, held |-> 0])
      BY DEF Fresh
    <2>4. CanRefund(x) => Fresh([pc |-> "commitRefund", item |-> x, status |-> "SUCCEEDED",
                                 held |-> HeldDebit(x)])
      BY DEF Fresh
    <2> QED BY <1>i, <2>2, <2>3, <2>4, HoldInTurn
  <1>4. CASE CheckPayout(r)
    <2>1. PICK amount : Hold(r, Idle) \/ Hold(r, [pc |-> "createPayout", amount |-> amount])
      BY <1>4 DEF CheckPayout
    <2> QED BY <1>i, <2>1, ToOther, HoldInTurn
  <1>5. CASE RecheckPayout(r)
    <2>1. Hold(r, Idle) \/ Hold(r, [req[r] EXCEPT !.pc = "insertPayout"])
      BY <1>5 DEF RecheckPayout
    <2>2. [req[r] EXCEPT !.pc = "insertPayout"].pc = "insertPayout"
      BY <1>0, <1>5 DEF RecheckPayout, At, Fits, Paying
    <2> QED BY <1>i, <2>1, <2>2, ToOther, HoldInTurn
  <1>6. CASE InsertPayout(r)
    <2>1. PICK step : step = [req[r] EXCEPT !.pc = "commitPayout"]
      OBVIOUS
    <2>2. \/ Hold(r, Idle)
          \/ /\ req[r].status = "SUCCEEDED" =>
                    payout[req[r].item].amount <= books["PROVIDER_AVAILABLE"]
             /\ Hold(r, step)
      BY <1>6, <2>1 DEF InsertPayout
    <2>3. step.pc = "commitPayout" /\ step.item = req[r].item /\ step.status = req[r].status
      BY <1>0, <1>6, <2>1 DEF InsertPayout, At, Fits, Paying
    <2>4. (req[r].status = "SUCCEEDED" => payout[req[r].item].amount <= books["PROVIDER_AVAILABLE"])
          => Fresh(step)
      BY <2>3 DEF Fresh
    <2> QED BY <1>i, <2>2, <2>4, HoldInTurn
  <1>7. CASE ReadHeld(r)
    <2>1. \/ Hold(r, Idle)
          \/ /\ books["PROVIDER_HELD"] > 0
             /\ Hold(r, [pc |-> "commitRelease", held |-> books["PROVIDER_HELD"]])
      BY <1>7 DEF ReadHeld
    <2>2. books["PROVIDER_HELD"] > 0 =>
              Fresh([pc |-> "commitRelease", held |-> books["PROVIDER_HELD"]])
      BY DEF Fresh
    <2> QED BY <1>i, <2>1, <2>2, HoldInTurn
  <1> QED BY <1>1, <1>2, <1>3, <1>4, <1>5, <1>6, <1>7

\* Amounts of refunds stay within the intent.
LEMMA RowInTurn ==
    ASSUME OneAtATime, IndInv, Money, InTurn, NEW r \in Operators,
           CreateRefund(r) \/ CreatePayout(r) \/ WriteClosed(r) \/ WriteApproval(r)
    PROVE  InTurn' /\ UNCHANGED books
  <1>1. PICK step : /\ Goto(r, step) /\ step.pc \in {"idle", "process"}
                    /\ UNCHANGED <<minted, books>>
    BY DEF CreateRefund, CreatePayout, WriteClosed, WriteApproval, Idle
  <1>2. \A x \in Refunds : refund'[x] \in RefundRow => refund'[x].amount <= Amount
    <2>1. CASE CreateRefund(r)
      <3>1. req[r].amount <= Amount
        BY <2>1 DEF CreateRefund, At, InTurn, Fresh
      <3> QED BY <2>1, <3>1 DEF CreateRefund, InTurn, Money, Rows
    <2>2. CASE WriteClosed(r)
      <3>1. PICK y \in Refunds : refund' = [refund EXCEPT ![y].status = req[r].next]
                                 /\ refund[y] \in RefundRow
        BY <2>2 DEF WriteClosed, At, IndInv, Shape, Fits, Money, Worth, OnRefund
      <3>2. refund'[y].amount = refund[y].amount
        BY <3>1 DEF Money, Rows, RefundRow
      <3>3. \A x \in Refunds : x # y => refund'[x] = refund[x]
        BY <3>1 DEF Money, Rows
      <3> QED BY <3>1, <3>2, <3>3 DEF InTurn
    <2>3. CASE UNCHANGED refund
      BY <2>3 DEF InTurn
    <2> QED BY <2>1, <2>2, <2>3 DEF CreatePayout, WriteApproval
  <1> QED BY <1>1, <1>2, ToOther, MoveOnInTurn

LEMMA CommitInTurn ==
    ASSUME OneAtATime, IndInv, Money, InTurn, NEW r \in Operators,
           CommitRefund(r) \/ CommitPayout(r) \/ CommitRelease(r)
    PROVE  InTurn' /\ (E!Next \/ UNCHANGED books)
  <1>0. /\ Fits(req[r]) /\ Worth(req[r]) /\ Fresh(req[r])
        /\ Rows /\ BooksOK /\ Solvent /\ Balanced
    BY DEF IndInv, Shape, Money, InTurn, Rows
  <1>g. Goto(r, Idle) /\ UNCHANGED minted
    BY DEF CommitRefund, CommitPayout, CommitRelease
  <1>i. Fresh(Idle)'
    BY DEF Idle, Fresh
  <1>b. /\ books["CUSTOMER_EXTERNAL"] \in Int /\ books["PLATFORM_RESERVED"] \in Nat
        /\ books["PROVIDER_HELD"] \in Nat /\ books["PROVIDER_AVAILABLE"] \in Nat
        /\ books["PROVIDER_PAID_OUT"] \in Nat
    BY <1>0 DEF BooksOK, Solvent, Buckets
  <1>m. PICK item : item = req[r].item
    OBVIOUS
  <1>1. CASE CommitRefund(r)
    <2>1. item \in Refunds /\ refund[item] \in RefundRow
      BY <1>0, <1>1, <1>m DEF CommitRefund, At, Fits, Worth, OnRefund
    <2>2. refund' = [refund EXCEPT ![item].status = RefundStatusOf(req[r].status)]
      BY <1>1, <1>m DEF CommitRefund
    <2>3. refund'[item].amount = refund[item].amount
          /\ \A x \in Refunds : x # item => refund'[x] = refund[x]
      BY <1>0, <2>1, <2>2 DEF Rows, RefundRow
    <2>4. \A x \in Refunds : refund'[x] \in RefundRow => refund'[x].amount <= Amount
      BY <2>1, <2>3 DEF InTurn
    <2>5. CASE req[r].status = "SUCCEEDED"
      <3>1. PICK a, p, h : /\ a = refund[item].amount /\ p = PartOf(item) /\ h = HeldDebit(item)
        OBVIOUS
      <3>2. a \in 1..Amount
        <4>1. a \in Nat \ {0} /\ a <= Amount
          BY <2>1, <3>1 DEF RefundRow, InTurn
        <4> QED BY <4>1
      <3>3. /\ p = PlatformPart(a, Split.fee, Amount)
            /\ p <= books["PLATFORM_RESERVED"]
            /\ a - p <= books["PROVIDER_HELD"] + books["PROVIDER_AVAILABLE"]
            /\ h = Least(books["PROVIDER_HELD"], a - p)
            /\ Post(Refund(a, p, h))
        BY <1>0, <1>1, <1>m, <2>5, <3>1 DEF CommitRefund, At, Fresh, CanRefund, HeldDebit, PartOf
      <3>4. E!Next
        BY <3>2, <3>3, EscrowRefund
      <3> QED BY <1>g, <2>4, <3>4, PostInTurn
    <2>6. CASE req[r].status # "SUCCEEDED"
      <3>1. UNCHANGED books
        BY <1>1, <2>6 DEF CommitRefund
      <3> QED BY <1>g, <1>i, <2>4, <3>1, MoveOnInTurn
    <2> QED BY <2>5, <2>6
  <1>2. CASE CommitPayout(r)
    <2>0. UNCHANGED refund
      BY <1>2 DEF CommitPayout
    <2>1. item \in Payouts /\ payout[item] \in PayoutRow
      BY <1>0, <1>2, <1>m DEF CommitPayout, At, Fits, Paying, Worth, OnPayout
    <2>5. CASE req[r].status = "SUCCEEDED"
      <3>1. PICK a : a = payout[item].amount
        OBVIOUS
      <3>2. a \in Nat \ {0} /\ a <= books["PROVIDER_AVAILABLE"] /\ Post(PayOut(a))
        BY <1>0, <1>2, <1>m, <2>1, <2>5, <3>1 DEF CommitPayout, At, Fresh, PayoutRow
      <3>3. books["PROVIDER_AVAILABLE"] <= Amount
        <4>1. PICK sum : sum = Settled(refund, Refunds)
          OBVIOUS
        <4>2. sum \in Nat
          BY <4>1, SettledAmounts, AmountsAdd DEF Money, Settled
        <4>3. Cardinality(minted) = 0
          BY FS_EmptySet DEF InTurn
        <4>4. books["CUSTOMER_EXTERNAL"] = sum - Amount * (1 + 0)
          <5>1. books["CUSTOMER_EXTERNAL"] + Amount * (1 + 0) = sum
            BY <4>1, <4>3 DEF Money, MovesOnce, ChargedInAll
          <5>2. books["CUSTOMER_EXTERNAL"] \in Int /\ Amount * (1 + 0) \in Int
            BY LedgerAssumption DEF Money, Rows, BooksOK, Buckets
          <5> QED BY <4>2, <5>1, <5>2
        <4>5. Amount * (1 + 0) = Amount /\ Amount \in Nat
          OBVIOUS
        <4>6. -Amount <= books["CUSTOMER_EXTERNAL"]
          BY <4>2, <4>4, <4>5
        <4> QED BY <1>0, <1>b, <4>5, <4>6 DEF Balanced
      <3>4. a \in 1..Amount
        BY <1>b, <3>2, <3>3
      <3>5. E!Next
        BY <3>2, <3>4, EscrowPay
      <3> QED BY <1>g, <2>0, <3>5, PostInTurn DEF InTurn
    <2>6. CASE req[r].status # "SUCCEEDED"
      <3>1. UNCHANGED books
        BY <1>2, <2>6 DEF CommitPayout
      <3> QED BY <1>g, <1>i, <2>0, <3>1, MoveOnInTurn DEF InTurn
    <2> QED BY <2>5, <2>6
  <1>3. CASE CommitRelease(r)
    <2>1. /\ books["PROVIDER_HELD"] > 0 /\ Post(Release(books["PROVIDER_HELD"]))
          /\ UNCHANGED refund
      BY <1>0, <1>3 DEF CommitRelease, At, Fresh
    <2>2. E!Next
      BY <2>1, EscrowRelease
    <2> QED BY <1>g, <2>1, <2>2, PostInTurn DEF InTurn
  <1> QED BY <1>1, <1>2, <1>3

LEMMA NextInTurn ==
    ASSUME OneAtATime, IndInv, Money, InTurn, [Next]_vars
    PROVE  InTurn' /\ [E!Next]_books
  <1>1. ASSUME NEW r \in Operators, Arrive(r) PROVE InTurn' /\ UNCHANGED books
    BY <1>1, ArriveInTurn
  <1>2. ASSUME NEW r \in Operators, RefundStep(r) \/ PayoutStep(r) \/ ReleaseStep(r)
        PROVE  InTurn' /\ (E!Next \/ UNCHANGED books)
    BY <1>2, ReadingInTurn, RowInTurn, CommitInTurn DEF RefundStep, PayoutStep, ReleaseStep
  <1>3. ASSUME NEW r \in Operators, Abort(r) PROVE InTurn' /\ UNCHANGED books
    <2>1. UNCHANGED <<refund, minted, books>> /\ Goto(r, Idle)
      BY <1>3 DEF Abort, rows
    <2>2. Fresh(Idle)'
      BY DEF Fresh, Idle
    <2> QED BY <2>1, <2>2, MoveOnInTurn DEF InTurn
  <1>4. CASE UNCHANGED <<refund, payout, minted, books, req>>
    BY <1>4 DEF InTurn, Balanced, Solvent, Fresh, CanRefund, HeldDebit, PartOf
  <1>5. ASSUME NEW m \in Moves, NEW s \in Confirmations, Confirm(m, s)
        PROVE  UNCHANGED <<refund, payout, minted, books, req>>
    BY <1>5 DEF Confirm, OneAtATime
  <1>6. CASE JobMovesOn \/ DelayElapses \/ UNCHANGED vars
    BY <1>4, <1>6 DEF JobMovesOn, DelayElapses, vars, rows
  <1> QED BY <1>1, <1>2, <1>3, <1>4, <1>5, <1>6 DEF Next

\* Refunds, releases and payouts that are handled one at a time, and of which no
\* webhook and no query reports a success later, implement Escrow step by step,
\* and so overdraw nothing, whatever their rows, amounts, answers and aborts:
\* what CanRefund and the guard on a payout have read is still so at the commit.
\* Both assumptions are needed.  Requests that overlap read balances that others
\* are about to take, and applyGatewayStatus books a success that comes late as a
\* charge (RefundedIsCredited).
THEOREM InTurnKeepsEscrow ==
    ASSUME OneAtATime
    PROVE  Spec => KeepsEscrow /\ []Solvent
  <1>1. Init => E!Init
    BY SameLedger DEF Init, E!Init
  <1>2. IndInv /\ Money /\ InTurn /\ [Next]_vars => InTurn' /\ [E!Next]_books
    BY NextInTurn
  <1>3. Spec => KeepsEscrow
    BY <1>1, <1>2, InitMoney, NextMoney, InitInTurn, SettlementInvariant, PTL
       DEF Spec, KeepsEscrow, E!Spec
  <1> QED BY <1>3, EscrowSolvent, PTL DEF KeepsEscrow
=============================================================================
