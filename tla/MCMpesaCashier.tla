--------------------------- MODULE MCMpesaCashier ---------------------------
(***************************************************************************)
(* Small instances of MpesaCashier for TLC.                                *)
(***************************************************************************)
EXTENDS MpesaCashier, TLC

RowSymmetry == Permutations(Rows) \cup Permutations(Users)
=============================================================================
