--------------------------- MODULE MCGuardPipeline ---------------------------
(***************************************************************************)
(* Small instances of GuardPipeline for TLC.                               *)
(***************************************************************************)
EXTENDS GuardPipeline, TLC

(***************************************************************************)
(* Calls, missions and providers are each only compared with one another   *)
(* and used as an index, so they are interchangeable.                      *)
(***************************************************************************)
Symmetry ==
  Permutations(Calls) \cup Permutations(Missions) \cup Permutations(Providers)
=============================================================================
