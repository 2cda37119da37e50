---------------------------- MODULE MCLedgerCron ----------------------------
(***************************************************************************)
(* One file at a time over a clock long enough to pass every limit in turn. *)
(***************************************************************************)
EXTENDS LedgerCron, TLC

MCSymmetry == Permutations(Names)
=============================================================================
