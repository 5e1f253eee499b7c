----------------------------- MODULE MCGovernor -----------------------------
(***************************************************************************)
(* Small instances of Governor: one service (entries never interact), two  *)
(* restarts per window, and a clock that outlasts three windows.           *)
(***************************************************************************)
EXTENDS Governor

CONSTANTS svc
=============================================================================
