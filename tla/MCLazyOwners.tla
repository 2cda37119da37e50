---------------------------- MODULE MCLazyOwners ----------------------------
(* The instance of LazyOwners that TLC checks. *)
EXTENDS LazyOwners, TLC

MCSymmetry == Permutations(Threads)
=============================================================================
