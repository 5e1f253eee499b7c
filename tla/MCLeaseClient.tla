--------------------------- MODULE MCLeaseClient ---------------------------
(***************************************************************************)
(* Small instances of LeaseClient: one ordinary call and one FIM call.     *)
(***************************************************************************)
EXTENDS LeaseClient

CONSTANTS chat, fim
=============================================================================
