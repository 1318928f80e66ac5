----------------------------- MODULE MCCharges -----------------------------
(* Instances of Charges for TLC: one job, its deposit intent i1, and i2 for *)
(* the intent that createIntent may add.                                    *)
EXTENDS Charges, TLC

CONSTANTS j1, i1

MCDepositOf == [j \in Jobs |-> i1]

\* Keys, references, events and requests are interchangeable; the intents
\* are not, one of them is the deposit.
Interchangeable == Permutations(Keys) \union Permutations(Refs)
                   \union Permutations(Events) \union Permutations(Reqs)
=============================================================================
