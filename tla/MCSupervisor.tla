---------------------------- MODULE MCSupervisor ----------------------------
(***************************************************************************)
(* Small instances of Supervisor.  Services meet only in the sweep, whose  *)
(* passes treat each one on its own, so one service shows the races; three *)
(* pids let a dead tracked child, a stale manifest pid and a new process   *)
(* exist together.                                                         *)
(***************************************************************************)
EXTENDS Supervisor, TLC

CONSTANTS s1, o1, o2, t1, t2, p1, p2, p3, p4

\* Pids are interchangeable, and so are operator calls and restart tasks.
Symmetric == Permutations(Pid) \cup Permutations(Op) \cup Permutations(Task)
=============================================================================
