------------------------------ MODULE MCLedger ------------------------------
(***************************************************************************)
(* The ledger on a small instance: two names that send each other two files *)
(* whose lengths just fill or just pass the caps.                           *)
(***************************************************************************)
EXTENDS Ledger, TLC

MCSymmetry == Permutations(Ids) \cup Permutations(Names)
=============================================================================
