--------------------------- MODULE MCFileTransfer ---------------------------
(***************************************************************************)
(* One file between two names, with a few requests on their way at once.    *)
(***************************************************************************)
EXTENDS FileTransfer, TLC

MCSymmetry == Permutations(Names) \cup Permutations(Workers)
=============================================================================
