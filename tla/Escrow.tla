------------------------------- MODULE Escrow -------------------------------
(***************************************************************************)
(* What the ledger of one paid intent promises: the customer's money is    *)
(* held, released to the provider, paid out or given back, and no balance  *)
(* is ever overdrawn.  Settlement is checked against it.                   *)
(***************************************************************************)
EXTENDS Ledger

Init == books = Charge

ReleaseHeld ==
    /\ books["PROVIDER_HELD"] > 0
    /\ Post(Release(books["PROVIDER_HELD"]))

RefundCustomer(amount) ==
    LET platform == PlatformPart(amount, Split.fee, Amount)
        provider == amount - platform
    IN  /\ platform <= books["PLATFORM_RESERVED"]
        /\ provider <= books["PROVIDER_HELD"] + books["PROVIDER_AVAILABLE"]
        /\ Post(Refund(amount, platform, Least(books["PROVIDER_HELD"], provider)))

PayProvider(amount) ==
    /\ amount <= books["PROVIDER_AVAILABLE"]
    /\ Post(PayOut(amount))

Next == \/ ReleaseHeld
        \/ \E amount \in 1..Amount : RefundCustomer(amount) \/ PayProvider(amount)

Spec == Init /\ [][Next]_books
=============================================================================
