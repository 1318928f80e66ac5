--------------------------- MODULE PaymentPolicy ---------------------------
(***************************************************************************)
(* The pure decisions of the payments component: how an amount is split    *)
(* between platform and provider, how a refund is split and suggested, and *)
(* how a gateway answer becomes a row status.  No state.                   *)
(*                                                                         *)
(* Amounts are integer MZN, as the Int columns of the schema.  Math.round  *)
(* rounds the exact quotient to the nearest integer, ties upwards; the     *)
(* amounts are far below 2^53, where the JavaScript quotient is exact      *)
(* enough for the rounding to agree.                                       *)
(***************************************************************************)
EXTENDS Integers

\* Math.round(x / y) of the code, for x >= 0 and y > 0.
RoundDiv(x, y) == (2 * x + y) \div (2 * y)

Least(a, b) == IF a <= b THEN a ELSE b
AtLeast(a, b) == IF a >= b THEN a ELSE b

BasisPoints == 10000
MaxFeeBps == 9000

\* The fee taken from a charge and what is left for the provider.
PlatformFee(amount, bps) == Least(amount, RoundDiv(amount * bps, BasisPoints))

ComputeSplit(amount, bps) ==
    LET gross == AtLeast(0, amount)
        fee   == PlatformFee(gross, bps)
    IN  [gross |-> gross, fee |-> fee, net |-> AtLeast(0, gross - fee)]

\* The share of a refund that is taken back from the platform's fee.
PlatformPart(refund, fee, total) ==
    IF total = 0 THEN 0 ELSE RoundDiv(refund * fee, total)

\* What remains of a payment after the refunds that succeeded.
Remaining(total, refunded) == AtLeast(0, total - refunded)

\* The amount of a refund request that names none: half once the work has
\* started, everything before that and (through `?? remaining`) after it.
SuggestedRefund(remaining, started, completed) ==
    IF started /\ ~completed
    THEN AtLeast(1, RoundDiv(remaining, 2))
    ELSE remaining

\* The deposit asked for when a proposal is selected.
DepositAmount(price, percent) == AtLeast(1, RoundDiv(price * percent, 100))

-----------------------------------------------------------------------------
GatewayStatus == {"PENDING", "SUCCEEDED", "FAILED", "REVERSED"}
TxStatus      == {"PROCESSING", "SUCCEEDED", "FAILED", "REVERSED"}
IntentStatus  == {"AWAITING_PAYMENT", "PENDING_CONFIRMATION", "PAID_PARTIAL",
                  "SUCCEEDED", "FAILED", "CANCELED"}
PaidStatus    == {"PAID_PARTIAL", "SUCCEEDED"}

\* Mutant of IntentStatusOf: an accepted charge counted as paid.
IntentPaidWhenAccepted(g, deposit) ==
    IF g = "FAILED" THEN "FAILED" ELSE IF deposit THEN "PAID_PARTIAL" ELSE "SUCCEEDED"

\* mapGatewayToTransactionStatus: only a PENDING answer is renamed.
TxStatusOf(g) == IF g = "PENDING" THEN "PROCESSING" ELSE g

\* mapGatewayToIntentStatus: a deposit is only partly paid.
IntentStatusOf(g, deposit) ==
    IF g = "SUCCEEDED" THEN (IF deposit THEN "PAID_PARTIAL" ELSE "SUCCEEDED")
    ELSE IF g = "FAILED" THEN "FAILED" ELSE "PENDING_CONFIRMATION"
=============================================================================
