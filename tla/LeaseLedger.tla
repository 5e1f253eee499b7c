---------------------------- MODULE LeaseLedger ----------------------------
(***************************************************************************)
(* What the VRAM broker promises its callers.  A reserve call is opened,   *)
(* and answered once: with the lease created for it, with a lease that is  *)
(* live at that moment, or with a refusal.  A lease enters the ledger only *)
(* through the answer to its own call, and once it has left, by release,   *)
(* eviction or expiry, it never returns.                                   *)
(***************************************************************************)
CONSTANTS Call, None

VARIABLES
    open,      \* calls being served
    answered,  \* calls that have their answer
    answer,    \* the lease each answer names, None for a refusal
    live       \* leases in force, each named by the call that created it

vars == <<open, answered, answer, live>>

Init ==
    /\ open = {} /\ answered = {} /\ live = {}
    /\ answer = [c \in Call |-> None]

Open(c) ==
    /\ c \notin open \cup answered
    /\ open' = open \cup {c}
    /\ UNCHANGED <<answered, answer, live>>

\* c is answered with lease l.
AnswerWith(c, l) ==
    /\ c \in open
    /\ open' = open \ {c}
    /\ answered' = answered \cup {c}
    /\ answer' = [answer EXCEPT ![c] = l]

Grant(c) == AnswerWith(c, c) /\ live' = live \cup {c}

Reuse(c) == /\ \E l \in live : AnswerWith(c, l)
            /\ UNCHANGED live

Refuse(c) == AnswerWith(c, None) /\ UNCHANGED live

End == /\ \E S \in SUBSET live : live' = live \ S
       /\ UNCHANGED <<open, answered, answer>>

Next == \/ \E c \in Call : Open(c) \/ Grant(c) \/ Reuse(c) \/ Refuse(c)
        \/ End

Spec == Init /\ [][Next]_vars
=============================================================================
