---------------------------- MODULE MCMissionFlow ----------------------------
(***************************************************************************)
(* Small instances of EvidenceExport for TLC.  Slots are only compared and *)
(* used as indices, so they are interchangeable.                           *)
(***************************************************************************)
EXTENDS EvidenceExport, TLC

Symmetry == Permutations(Slots)
=============================================================================
