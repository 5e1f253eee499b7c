-------------------------- MODULE MCExtensionHost --------------------------
(***************************************************************************)
(* Small instances of ExtensionHost.                                       *)
(***************************************************************************)
EXTENDS ExtensionHost, TLC

CONSTANTS e1, e2, t1, t2, p1, p2, p3, p4
=============================================================================
