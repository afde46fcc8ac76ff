-------------------------- MODULE MCQuoteVersions ---------------------------
(* Model checking of QuoteVersions. *)
EXTENDS QuoteVersions, TLC

Symmetries == Permutations(Workers) \cup Permutations(Prices)
=============================================================================
