----------------------------- MODULE MCConsent -----------------------------
(***************************************************************************)
(* Small instances of Consent.                                             *)
(***************************************************************************)
EXTENDS Consent, TLC

CONSTANTS w, x1, x2, o1, o2
=============================================================================
