------------------------------ MODULE Governor ------------------------------
(***************************************************************************)
(* The crash-restart policy of the lifecycle daemon (wylde-lifecycle       *)
(* state/restart.rs, struct Governor): per service a counting window, the  *)
(* number of restarts granted in it, an in-flight flag and the crash-loop  *)
(* breaker.  An absent map entry behaves like the default one, NoEntry.    *)
(*                                                                         *)
(* log is a history variable: the times of the restarts granted since the  *)
(* service's bookkeeping was last dropped.                                 *)
(***************************************************************************)
EXTENDS Integers, Sequences

CONSTANTS
    Service,      \* daemon-managed services
    MaxRestarts,  \* RestartConfig.max_restarts
    Window,       \* RestartConfig.window, in clock ticks
    MaxTime,      \* bound on the clock, for model checking
    None          \* no window start

ASSUME GovernorAssumption ==
    /\ MaxRestarts \in Nat /\ Window \in Nat /\ MaxTime \in Nat
    /\ None \notin Nat

VARIABLES
    entry,  \* Governor.entries
    now,    \* Instant::now()
    log     \* history: times of the restarts granted per service

govVars == <<entry, now, log>>

EntryType == [start : Nat \cup {None}, count : 0..MaxRestarts,
              pending : BOOLEAN, failed : BOOLEAN]

NoEntry == [start |-> None, count |-> 0, pending |-> FALSE, failed |-> FALSE]

GovInit ==
    /\ entry = [s \in Service |-> NoEntry]
    /\ now = 0
    /\ log = [s \in Service |-> <<>>]

-----------------------------------------------------------------------------
\* Mutant of Rolled: the count is never started afresh.
Rolled_Never(e) == e.start = None

\* This crash lands after the counting window elapsed.
Rolled(e) == e.start = None \/ now - e.start > Window

\* Mutant of Current: a roll-over clears the count but not the window start.
Current_OldStart(e) == IF Rolled(e) THEN [e EXCEPT !.count = 0] ELSE e

\* The entry as on_crash counts it, after a possible roll-over.
Current(e) ==
    IF Rolled(e)
    THEN [start |-> now, count |-> 0, pending |-> e.pending,
          failed |-> e.failed]
    ELSE e

\* Mutant of MayRestart: the cap is one too generous.
MayRestart_OffByOne(e) ==
    ~e.failed /\ ~e.pending /\ Current(e).count <= MaxRestarts

\* What on_crash decides: a restart, the breaker, or nothing to do.
MayRestart(e) == ~e.failed /\ ~e.pending /\ Current(e).count < MaxRestarts
MustTrip(e) == ~e.failed /\ ~e.pending /\ Current(e).count >= MaxRestarts
Ignored(e) == e.failed \/ e.pending

\* The entry after a restart was granted, and after the breaker tripped.
Granted(e) ==
    LET c == Current(e)
    IN  [start |-> c.start, count |-> c.count + 1, pending |-> TRUE,
         failed |-> c.failed]
Tripped(e) == [Current(e) EXCEPT !.failed = TRUE]

CrashRestarts(s) ==
    /\ MayRestart(entry[s])
    /\ entry' = [entry EXCEPT ![s] = Granted(entry[s])]
    /\ log' = [log EXCEPT ![s] = Append(@, now)]
    /\ UNCHANGED now

CrashTrips(s) ==
    /\ MustTrip(entry[s])
    /\ entry' = [entry EXCEPT ![s] = Tripped(entry[s])]
    /\ UNCHANGED <<now, log>>

\* Mutant of RestartDone: a finished restart re-arms the breaker.
RestartDone_Rearms(s) ==
    /\ entry' = [entry EXCEPT ![s].pending = FALSE, ![s].failed = FALSE]
    /\ UNCHANGED <<now, log>>

RestartDone(s) ==
    /\ entry' = [entry EXCEPT ![s].pending = FALSE]
    /\ UNCHANGED <<now, log>>

Forget(s) ==
    /\ entry' = [entry EXCEPT ![s] = NoEntry]
    /\ log' = [log EXCEPT ![s] = <<>>]
    /\ UNCHANGED now

Tick ==
    /\ now < MaxTime
    /\ now' = now + 1
    /\ UNCHANGED <<entry, log>>

GovNext ==
    \/ \E s \in Service : \/ CrashRestarts(s) \/ CrashTrips(s)
                          \/ RestartDone(s) \/ Forget(s)
    \/ Tick

GovSpec == GovInit /\ [][GovNext]_govVars

-----------------------------------------------------------------------------
(* Properties                                                              *)

\* The state has the shape of the code's types; the count never passes the
\* cap.
GovTypeOK ==
    /\ entry \in [Service -> EntryType]
    /\ now \in Nat
    /\ log \in [Service -> Seq(Nat)]

\* What the breaker guarantees: any 2 * max_restarts + 1 consecutive
\* automatic restarts of a service take longer than one window.  (The window
\* is fixed at its first crash, so two full windows may touch.)
RestartsCapped ==
    \A s \in Service : \A i \in 1..Len(log[s]) :
        i + 2 * MaxRestarts <= Len(log[s]) =>
            log[s][i + 2 * MaxRestarts] - log[s][i] > Window

\* What the module comment says: no more than max_restarts "within a sliding
\* window".
SlidingCap ==
    \A s \in Service : \A i \in 1..Len(log[s]) :
        i + MaxRestarts <= Len(log[s]) =>
            log[s][i + MaxRestarts] - log[s][i] > Window

\* The breaker never trips on a slow crasher ("a service that crashes once a
\* day is never treated as a crash loop"): a tripped breaker has max_restarts
\* restarts within one window behind it.
TripEarned ==
    \A s \in Service :
        entry[s].failed /\ MaxRestarts > 0 =>
            /\ Len(log[s]) >= MaxRestarts
            /\ log[s][Len(log[s])] - log[s][Len(log[s]) - MaxRestarts + 1]
                 <= Window

\* A tripped breaker is terminal until an intended stop forgets the service:
\* no restart is granted and the flag stays.
BreakerTerminal ==
    [][\A s \in Service :
         entry[s].failed => \/ entry'[s].failed /\ log'[s] = log[s]
                            \/ entry'[s] = NoEntry]_govVars
=============================================================================
