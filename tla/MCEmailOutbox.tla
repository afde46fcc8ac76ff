--------------------------- MODULE MCEmailOutbox ----------------------------
(* Model checking of EmailOutbox. *)
EXTENDS EmailOutbox
=============================================================================
