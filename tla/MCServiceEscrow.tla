--------------------------- MODULE MCServiceEscrow ---------------------------
(***************************************************************************)
(* Small instances of ServiceEscrow for TLC.  Hashes and addresses are     *)
(* only compared and used as indices, so they are interchangeable.         *)
(***************************************************************************)
EXTENDS ServiceEscrow, TLC

Symmetry == Permutations(Hashes) \cup Permutations(Addresses)
=============================================================================
