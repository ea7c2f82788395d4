---------------------------- MODULE MCProviderX402 ----------------------------
(***************************************************************************)
(* What clients say of a challenge: that it is for another resource, never *)
(* expires and has a facilitator URL that is none; or that it expired.     *)
(***************************************************************************)
EXTENDS ProviderX402

Says(resource, amount, expiresAt, quotable) ==
  [resource |-> resource, amount |-> amount, expiresAt |-> expiresAt, quotable |-> quotable]

MCDescriptions ==
  {Says(Ledger, "configured", NoExpiry, FALSE), Says(Report, "configured", 0, TRUE)}
=============================================================================
