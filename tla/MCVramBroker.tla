---------------------------- MODULE MCVramBroker ----------------------------
(***************************************************************************)
(* Small instances of VramBroker.  Sizes are in units such that the card   *)
(* grants 3 of its 4 units: two requests of 2 do not fit side by side.     *)
(***************************************************************************)
EXTENDS VramBroker, TLC

CONSTANTS r1, r2, r3, m1, n1

Want(b, p, preempt, n) ==
    [model |-> m1, bytes |-> b, priority |-> p, preempt |-> preempt,
     nonce |-> n]

\* A chat call with its nonce, and a preempting call that needs the whole
\* card, cannot spill, and outranks even the poller's synthetic leases.
RaceRequests == {Want(2, 40, FALSE, n1), Want(3, 120, TRUE, None)}

\* The same, and a call that leaves its size to the broker.
MixedRequests == RaceRequests \cup {Want(0, 40, FALSE, None)}

\* Retries of one call.
RetryRequests == {Want(2, 40, FALSE, n1)}

\* Calls without a nonce next to a preempting one.
PreemptRequests == {Want(2, 40, FALSE, None), Want(3, 80, TRUE, n1)}

\* Calls that name their size; the first two fit the card one at a time.
ExactRequests == {Want(2, 40, FALSE, n1), Want(1, 40, FALSE, None)}

\* A call that fills the card, and one that leaves its size out.
EstimatedRequests == {Want(3, 40, FALSE, None), Want(0, 40, FALSE, None)}

\* /api/ps reports one unit of the model, or (NoModels) never answers.
OneModel == {[m \in {m1} |-> [bytes |-> 1, dram |-> 0]]}
NoModels == {}

\* The default estimate.
TwoEach == [m \in {m1} |-> 2]

\* Calls differ only in the request they carry.
Symmetry == Permutations(Req)
=============================================================================
