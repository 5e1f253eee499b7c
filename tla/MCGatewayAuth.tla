--------------------------- MODULE MCGatewayAuth ---------------------------
(***************************************************************************)
(* Small instances of GatewayAuth with DeviceGate.                         *)
(***************************************************************************)
EXTENDS GatewayAuth, TLC

CONSTANTS d1, d2, d3, t1, t2, t3, q1, q2, o1, o2, r1, r2, read, tools

\* One device was paired before.
OneStored == [d \in Device |->
                IF d = d1 THEN [token |-> t1, tier |-> tools] ELSE None]

Symmetry == Permutations(Token \ {t1}) \cup Permutations(Device \ {d1})
            \cup Permutations(Pairer) \cup Permutations(Op)
            \cup Permutations(Req)
=============================================================================
