------------------------------ MODULE MCWorkers ------------------------------
(* The instance of Workers that TLC checks. *)
EXTENDS Workers, TLC
=============================================================================
