---------------------------- MODULE MCQuoteCharge ----------------------------
(* Model checking of QuoteCharge. *)
EXTENDS QuoteCharge, TLC

Symmetries == Permutations(Requests) \cup Permutations(Amounts)
=============================================================================
