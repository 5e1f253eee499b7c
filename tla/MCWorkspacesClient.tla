------------------------- MODULE MCWorkspacesClient -------------------------
(***************************************************************************)
(* Two tasks, a cached read with one retry and a write with none.          *)
(***************************************************************************)
EXTENDS WorkspacesClient, TLC

CONSTANTS c1, c2, get, put

TwoAttempts == (get :> 2) @@ (put :> 1)
OneTick == (get :> 1) @@ (put :> 1)
ReadTtl == (get :> 1)
Doubling == [k \in 1..3 |-> 2^(k - 1)]
=============================================================================
