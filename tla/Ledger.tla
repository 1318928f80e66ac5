------------------------------- MODULE Ledger -------------------------------
(***************************************************************************)
(* The ledger of one payment intent: the entries that a charge, a release, *)
(* a refund and a payout append.  LedgerService keeps entries and sums     *)
(* them up; here `books' is the net of each bucket, credits less debits.   *)
(***************************************************************************)
EXTENDS PaymentPolicy

CONSTANTS
    Amount,  \* the amount of the intent, in MZN
    FeeBps   \* the platform's fee in basis points

ASSUME LedgerAssumption ==
    /\ Amount \in Nat \ {0}
    /\ FeeBps \in 0..MaxFeeBps

VARIABLE books

Buckets == {"CUSTOMER_EXTERNAL", "PLATFORM_RESERVED", "PROVIDER_HELD",
            "PROVIDER_AVAILABLE", "PROVIDER_PAID_OUT"}

\* A transfer's entries: what each bucket is credited, or debited if negative.
Entries(external, reserved, held, available, paidOut) ==
    [b \in Buckets |-> CASE b = "CUSTOMER_EXTERNAL"  -> external
                         [] b = "PLATFORM_RESERVED"  -> reserved
                         [] b = "PROVIDER_HELD"      -> held
                         [] b = "PROVIDER_AVAILABLE" -> available
                         [] OTHER                    -> paidOut]

Post(entries) == books' = [b \in Buckets |-> books[b] + entries[b]]

Split == ComputeSplit(Amount, FeeBps)

\* The entries of a confirmed charge of the whole intent.
Charge == Entries(-Amount, Split.fee, Split.net, 0, 0)

Release(held) == Entries(0, 0, -held, held, 0)

\* A refund takes the platform's part from its fee, and the provider's from
\* what is held before what is available.
Refund(amount, platform, held) ==
    Entries(amount, -platform, -held, -(amount - platform - held), 0)

PayOut(amount) == Entries(0, 0, 0, -amount, amount)

-----------------------------------------------------------------------------
\* Every bucket has a net.
BooksOK == books \in [Buckets -> Int]

\* Double entry: what came from the customer is somewhere in the books.
Balanced ==
    books["CUSTOMER_EXTERNAL"] + books["PLATFORM_RESERVED"] + books["PROVIDER_HELD"]
        + books["PROVIDER_AVAILABLE"] + books["PROVIDER_PAID_OUT"] = 0

\* No balance is overdrawn, and the customer gets no more than was paid:
\* the guards of appendRefundLedgerEntries, adminProcessPayout and
\* adminReleaseProviderFunds, when each sees what the others have written.
Solvent ==
    /\ \A b \in Buckets \ {"CUSTOMER_EXTERNAL"} : books[b] >= 0
    /\ books["CUSTOMER_EXTERNAL"] <= 0
=============================================================================
