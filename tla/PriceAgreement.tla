--------------------------- MODULE PriceAgreement ---------------------------
(***************************************************************************)
(* What acceptance promises the client about money, whoever else is        *)
(* editing the quote: a price is a proposal until it is frozen, and from   *)
(* the moment it is agreed the client is asked for that price and for no   *)
(* other.  QuoteCharge implements this.                                    *)
(***************************************************************************)
CONSTANTS Amounts, NoAmount

VARIABLES
    price,      \* the price the money is split by
    frozen,     \* it can no longer change
    charge,     \* what the client is asked to pay
    agreed      \* the client has accepted

vars == <<price, frozen, charge, agreed>>

Init ==
    /\ price \in Amounts \cup {NoAmount}
    /\ frozen = FALSE
    /\ charge = NoAmount
    /\ agreed = FALSE

\* A new price is worked out; it may be frozen at once.
Reprice ==
    /\ ~frozen
    /\ price' \in Amounts
    /\ frozen' \in BOOLEAN
    /\ UNCHANGED <<charge, agreed>>

\* A client who has not agreed can still be asked for some amount.
Ask ==
    /\ ~agreed
    /\ charge' \in Amounts
    /\ UNCHANGED <<price, frozen, agreed>>

\* The client accepts: the price is frozen, and it is what is asked for.
Agree ==
    /\ price' \in Amounts
    /\ frozen => price' = price
    /\ frozen' = TRUE
    /\ charge' = price'
    /\ agreed' \in BOOLEAN
    /\ agreed => agreed'

Next == Reprice \/ Ask \/ Agree

Spec == Init /\ [][Next]_vars
=============================================================================
