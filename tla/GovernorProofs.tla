--------------------------- MODULE GovernorProofs ---------------------------
(***************************************************************************)
(* What the crash-restart policy guarantees for every restart cap, window  *)
(* length and set of services.                                             *)
(*                                                                         *)
(* RestartsCapped talks about pairs of restarts; it is inductive only      *)
(* together with WindowOK, which says where the restarts in the log lie    *)
(* with respect to the current counting window: the last count of them are *)
(* inside it, the earlier ones not after its start, and all but the last   *)
(* count + MaxRestarts more than a window before its start.                *)
(***************************************************************************)
EXTENDS Governor, TLAPS

\* The position of the logged restarts of s relative to its window.
WindowOK(s) ==
    LET e == entry[s]  L == log[s]  n == Len(log[s])
    IN  /\ e.count <= n
        /\ e.start = None => n = 0
        /\ e.failed => e.count >= MaxRestarts
        /\ \A i \in 1..n : L[i] <= now
        /\ e.start # None =>
             /\ e.start <= now
             /\ \A i \in 1..n :
                  /\ i > n - e.count => /\ e.start <= L[i]
                                        /\ L[i] <= e.start + Window
                  /\ i <= n - e.count => L[i] <= e.start
                  /\ i <= n - e.count - MaxRestarts => L[i] + Window < e.start

Capped(s) ==
    \A i \in 1..Len(log[s]) :
        i + 2 * MaxRestarts <= Len(log[s]) =>
            log[s][i + 2 * MaxRestarts] - log[s][i] > Window

\* The inductive invariant.
GovInv == GovTypeOK /\ \A s \in Service : WindowOK(s) /\ Capped(s)

-----------------------------------------------------------------------------
\* The entry on_crash works on is an entry, and its count can be raised when
\* it is below the cap.
LEMMA CurrentType ==
    ASSUME NEW e \in EntryType, now \in Nat
    PROVE  /\ Current(e) \in EntryType
           /\ Current(e).start \in Nat
           /\ Current(e).pending = e.pending /\ Current(e).failed = e.failed
           /\ Rolled(e) => Current(e).start = now /\ Current(e).count = 0
           /\ ~Rolled(e) => /\ Current(e) = e /\ e.start \in Nat
                            /\ now - e.start <= Window
  <1>1. CASE Rolled(e)
    BY <1>1, GovernorAssumption DEF Current, EntryType
  <1>2. CASE ~Rolled(e)
    <2>1. Current(e) = e
      BY <1>2 DEF Current
    <2>2. e.start \in Nat
      BY <1>2 DEF Rolled, EntryType
    <2> QED BY <1>2, <2>1, <2>2, GovernorAssumption DEF Rolled
  <1> QED BY <1>1, <1>2

\* Dropping the bookkeeping, finishing a restart or letting time pass never
\* disturbs the invariant.
LEMMA QuietSteps ==
    ASSUME GovInv, NEW t \in Service,
           RestartDone(t) \/ Forget(t) \/ CrashTrips(t)
    PROVE  GovInv'
  <1> USE GovernorAssumption DEF GovInv
  <1>1. now' = now /\ now \in Nat
    BY DEF RestartDone, Forget, CrashTrips, GovTypeOK
  <1>2. ASSUME NEW s \in Service, s # t
        PROVE  entry'[s] = entry[s] /\ log'[s] = log[s]
    BY <1>2 DEF RestartDone, Forget, CrashTrips, GovTypeOK
  <1>3. ASSUME NEW s \in Service, s # t
        PROVE  (WindowOK(s) /\ Capped(s))'
    BY <1>1, <1>2, <1>3 DEF WindowOK, Capped
  <1>4. CASE RestartDone(t)
    <2>1. /\ log' = log
          /\ entry'[t] \in EntryType
          /\ entry'[t].start = entry[t].start
          /\ entry'[t].count = entry[t].count
          /\ entry'[t].failed = entry[t].failed
      BY <1>4 DEF RestartDone, GovTypeOK, EntryType
    <2>2. GovTypeOK'
      BY <1>1, <1>4, <2>1 DEF RestartDone, GovTypeOK
    <2>3. (WindowOK(t) /\ Capped(t))'
      BY <1>1, <2>1 DEF WindowOK, Capped
    <2> QED BY <1>3, <2>2, <2>3
  <1>5. CASE Forget(t)
    <2>1. entry'[t] = NoEntry /\ log'[t] = <<>> /\ NoEntry \in EntryType
      BY <1>5 DEF Forget, GovTypeOK, NoEntry, EntryType
    <2>2. GovTypeOK'
      BY <1>1, <1>5, <2>1 DEF Forget, GovTypeOK
    <2>3. (WindowOK(t) /\ Capped(t))'
      BY <2>1 DEF WindowOK, Capped, NoEntry
    <2> QED BY <1>3, <2>2, <2>3
  <1>6. CASE CrashTrips(t)
    <2> DEFINE e == entry[t]
               c == Current(entry[t])
    <2>1. e \in EntryType /\ MustTrip(e) /\ log' = log
      BY <1>6 DEF CrashTrips, GovTypeOK
    <2>2. entry'[t] = [c EXCEPT !.failed = TRUE]
      BY <1>6 DEF CrashTrips, GovTypeOK, Tripped
    <2>3. /\ c \in EntryType /\ c.start \in Nat
          /\ Rolled(e) => c.start = now /\ c.count = 0
          /\ ~Rolled(e) => c = e /\ e.start \in Nat
      BY <1>1, <2>1, CurrentType
    <2>4. c.count >= MaxRestarts
      BY <2>1 DEF MustTrip
    <2> HIDE DEF c
    <2>5. /\ entry'[t] \in EntryType
          /\ entry'[t].start = c.start
          /\ entry'[t].count = c.count
          /\ entry'[t].failed
      BY <2>2, <2>3 DEF EntryType
    <2>6. GovTypeOK'
      BY <1>1, <1>6, <2>1, <2>5 DEF CrashTrips, GovTypeOK
    <2>7. Capped(t)'
      BY <2>1 DEF Capped
    <2>8. CASE Rolled(e)
      <3>1. /\ MaxRestarts = 0 /\ e.count = 0
            /\ c.start = now /\ c.count = 0
        BY <2>1, <2>3, <2>4, <2>8 DEF EntryType
      <3>2. e.start # None => now - e.start > Window /\ e.start \in Nat
        BY <2>1, <2>8 DEF Rolled, EntryType
      <3>3. \A i \in 1..Len(log[t]) : log[t][i] <= now /\ log[t][i] \in Nat
        BY DEF WindowOK, GovTypeOK
      <3>4. ASSUME NEW i \in 1..Len(log[t])
            PROVE  log[t][i] + Window < now
        <4>1. e.start # None /\ log[t][i] <= e.start
          BY <3>1 DEF WindowOK, GovTypeOK
        <4>2. log[t][i] \in Nat
          BY <3>3
        <4> HIDE DEF e
        <4> QED BY <1>1, <3>2, <4>1, <4>2
      <3>5. WindowOK(t)'
        BY <1>1, <2>1, <2>4, <2>5, <3>1, <3>3, <3>4 DEF WindowOK, GovTypeOK
      <3> QED BY <1>3, <2>6, <2>7, <3>5
    <2>9. CASE ~Rolled(e)
      <3>1. WindowOK(t)'
        BY <1>1, <2>1, <2>3, <2>4, <2>5, <2>9 DEF WindowOK
      <3> QED BY <1>3, <2>6, <2>7, <3>1
    <2> QED BY <2>8, <2>9
  <1> QED BY <1>4, <1>5, <1>6

\* Granting a restart: the new log entry closes no group of 2 * MaxRestarts + 1
\* restarts within a window.
LEMMA RestartStep ==
    ASSUME GovInv, NEW t \in Service, CrashRestarts(t)
    PROVE  GovInv'
  <1> USE GovernorAssumption DEF GovInv
  <1> DEFINE e == entry[t]
             c == Current(entry[t])
             L == log[t]
             n == Len(log[t])
  <1>1. /\ now' = now /\ now \in Nat
        /\ e \in EntryType /\ MayRestart(e)
        /\ L \in Seq(Nat) /\ n \in Nat
    BY DEF CrashRestarts, GovTypeOK
  <1>2. ASSUME NEW s \in Service, s # t
        PROVE  entry'[s] = entry[s] /\ log'[s] = log[s]
    BY <1>2 DEF CrashRestarts, GovTypeOK
  <1>3. ASSUME NEW s \in Service, s # t
        PROVE  (WindowOK(s) /\ Capped(s))'
    BY <1>1, <1>2, <1>3 DEF WindowOK, Capped
  <1>4. /\ log'[t] = Append(L, now)
        /\ entry'[t] = [start |-> c.start, count |-> c.count + 1,
                         pending |-> TRUE, failed |-> c.failed]
    BY DEF CrashRestarts, GovTypeOK, Granted
  <1>5. /\ c \in EntryType /\ c.start \in Nat
        /\ c.failed = e.failed
        /\ Rolled(e) => c.start = now /\ c.count = 0
        /\ ~Rolled(e) => c = e /\ e.start \in Nat /\ now - e.start <= Window
    BY <1>1, CurrentType
  <1>6. c.count < MaxRestarts /\ ~e.failed
    BY <1>1 DEF MayRestart
  <1> HIDE DEF c
  <1>7. /\ entry'[t] \in EntryType
        /\ entry'[t].start = c.start
        /\ entry'[t].count = c.count + 1
        /\ ~entry'[t].failed
    BY <1>4, <1>5, <1>6 DEF EntryType
  <1>8. /\ log'[t] \in Seq(Nat) /\ Len(log'[t]) = n + 1
        /\ log'[t][n + 1] = now
        /\ \A i \in 1..n : log'[t][i] = L[i] /\ L[i] \in Nat
    BY <1>1, <1>4
  <1>9. GovTypeOK'
    BY <1>1, <1>7, <1>8 DEF CrashRestarts, GovTypeOK
  <1>10. /\ e.count \in 0..MaxRestarts /\ e.count <= n
         /\ e.start = None => n = 0
         /\ e.start # None => e.start \in Nat /\ e.start <= now
         /\ \A i \in 1..n : L[i] <= now
    BY <1>1 DEF WindowOK, EntryType
  <1>11. e.start # None =>
           \A i \in 1..n :
              /\ i > n - e.count => /\ e.start <= L[i]
                                    /\ L[i] <= e.start + Window
              /\ i <= n - e.count => L[i] <= e.start
              /\ i <= n - e.count - MaxRestarts => L[i] + Window < e.start
    BY DEF WindowOK
  <1>12. \A i \in 1..n : i + 2 * MaxRestarts <= n =>
                           L[i + 2 * MaxRestarts] - L[i] > Window
    BY DEF Capped
  <1>13. Rolled(e) => e.start = None \/ now - e.start > Window
    BY DEF Rolled
  <1> HIDE DEF e, L, n
  \* The same facts for the entry as on_crash counts it.
  <1>14. c.start <= now /\ now <= c.start + Window /\ c.count <= n
         /\ c.count \in Nat
    <2>1. CASE Rolled(e)
      BY <1>1, <1>5, <2>1
    <2>2. CASE ~Rolled(e)
      BY <1>1, <1>5, <1>10, <2>2
    <2> QED BY <2>1, <2>2
  <1>15. ASSUME NEW i \in 1..n
         PROVE  /\ i > n - c.count => /\ c.start <= L[i]
                                      /\ L[i] <= c.start + Window
                /\ i <= n - c.count => L[i] <= c.start
                /\ i <= n - c.count - MaxRestarts => L[i] + Window < c.start
    <2>0. L[i] \in Nat /\ L[i] <= now
      BY <1>8, <1>10
    <2>1. CASE Rolled(e)
      <3>1. e.start \in Nat /\ now - e.start > Window /\ e.start # None
        BY <1>1, <1>10, <1>13, <2>1
      <3>2. i <= n - e.count => L[i] <= e.start
        BY <1>11, <3>1
      <3>3. i <= n - MaxRestarts => i <= n - e.count
        BY <1>1, <1>10
      <3>4. \A x, y, z, w \in Nat : x <= y /\ z - y > w => x + w < z
        OBVIOUS
      <3>5. L[i] <= e.start => L[i] + Window < now
        BY <1>1, <2>0, <3>1, <3>4
      <3>6. i <= n - MaxRestarts => L[i] + Window < now
        BY <3>2, <3>3, <3>5
      <3> QED BY <1>1, <1>5, <2>0, <2>1, <3>6
    <2>2. CASE ~Rolled(e)
      BY <1>5, <1>10, <1>11, <2>2
    <2> QED BY <2>1, <2>2
  <1>16. WindowOK(t)'
    <2>1. ASSUME NEW i \in 1..(n + 1)
          PROVE  log'[t][i] <= now'
      <3>1. CASE i = n + 1
        BY <1>1, <1>8, <3>1
      <3>2. CASE i \in 1..n
        BY <1>1, <1>8, <1>10, <3>2
      <3> QED BY <1>1, <3>1, <3>2
    <2>2. ASSUME NEW i \in 1..(n + 1)
          PROVE  /\ i > (n + 1) - (c.count + 1) =>
                      c.start <= log'[t][i] /\ log'[t][i] <= c.start + Window
                 /\ i <= (n + 1) - (c.count + 1) => log'[t][i] <= c.start
                 /\ i <= (n + 1) - (c.count + 1) - MaxRestarts =>
                      log'[t][i] + Window < c.start
      <3>1. CASE i = n + 1
        <4>1. log'[t][i] = now
          BY <1>8, <3>1
        <4>2. ~(i <= (n + 1) - (c.count + 1))
          BY <1>1, <1>14, <3>1
        <4>3. ~(i <= (n + 1) - (c.count + 1) - MaxRestarts)
          BY <1>1, <1>14, <3>1, GovernorAssumption
        <4> QED BY <1>14, <4>1, <4>2, <4>3
      <3>2. CASE i \in 1..n
        <4>1. log'[t][i] = L[i]
          BY <1>8, <3>2
        <4>2. /\ (n + 1) - (c.count + 1) = n - c.count
              /\ (n + 1) - (c.count + 1) - MaxRestarts
                   = n - c.count - MaxRestarts
          BY <1>1, <1>14
        <4> QED BY <1>15, <3>2, <4>1, <4>2
      <3> QED BY <1>1, <3>1, <3>2
    <2> QED BY <1>1, <1>5, <1>7, <1>8, <1>14, <2>1, <2>2 DEF WindowOK
  <1>17. Capped(t)'
    <2> SUFFICES ASSUME NEW i \in 1..(n + 1), i + 2 * MaxRestarts <= n + 1
                 PROVE  log'[t][i + 2 * MaxRestarts] - log'[t][i] > Window
      BY <1>8 DEF Capped
    <2>1. MaxRestarts >= 1 /\ i \in 1..n
      BY <1>1, <1>6, <1>14
    <2>2. log'[t][i] = L[i] /\ L[i] \in Nat
      BY <1>8, <2>1
    <2>3. CASE i + 2 * MaxRestarts <= n
      <3>1. i + 2 * MaxRestarts \in 1..n
        BY <1>1, <2>1, <2>3
      <3> QED BY <1>8, <1>12, <2>1, <2>2, <2>3, <3>1
    <2>4. CASE i + 2 * MaxRestarts = n + 1
      <3>1. i <= n - c.count - MaxRestarts
        BY <1>1, <1>6, <1>14, <2>1, <2>4
      <3>2. L[i] + Window < c.start
        BY <1>15, <2>1, <3>1
      <3>3. log'[t][i + 2 * MaxRestarts] = now
        BY <1>8, <2>4
      <3> QED BY <1>1, <1>5, <1>14, <2>2, <3>2, <3>3
    <2> QED BY <1>1, <2>1, <2>3, <2>4
  <1> QED BY <1>3, <1>9, <1>16, <1>17

\* Time passing keeps the invariant: it only ages what the log holds.
LEMMA TickStep ==
    ASSUME GovInv, Tick
    PROVE  GovInv'
  <1>1. /\ entry' = entry /\ log' = log
        /\ now' \in Nat /\ now <= now' /\ now \in Nat
    BY GovernorAssumption DEF GovInv, Tick, GovTypeOK
  <1>2. ASSUME NEW s \in Service
        PROVE  (WindowOK(s) /\ Capped(s))'
    <2>1. /\ log[s] \in Seq(Nat) /\ entry[s] \in EntryType
          /\ WindowOK(s) /\ Capped(s)
      BY DEF GovInv, GovTypeOK
    <2>2. \A i \in 1..Len(log[s]) : log[s][i] <= now'
      BY <1>1, <2>1 DEF WindowOK
    <2> QED BY <1>1, <2>1, <2>2, GovernorAssumption
            DEF WindowOK, Capped, EntryType
  <1> QED BY <1>1, <1>2 DEF GovInv, GovTypeOK

-----------------------------------------------------------------------------
\* Every step of the policy keeps the invariant, so every behaviour has it.
THEOREM GovInvariant == GovSpec => []GovInv
  <1>1. GovInit => GovInv
    BY GovernorAssumption
    DEF GovInit, GovInv, GovTypeOK, WindowOK, Capped, NoEntry, EntryType
  <1>2. GovInv /\ [GovNext]_govVars => GovInv'
    <2> SUFFICES ASSUME GovInv, [GovNext]_govVars PROVE GovInv'
      OBVIOUS
    <2>1. CASE \E s \in Service : CrashRestarts(s)
      BY <2>1, RestartStep
    <2>2. CASE \E s \in Service : RestartDone(s) \/ Forget(s) \/ CrashTrips(s)
      BY <2>2, QuietSteps
    <2>3. CASE Tick
      BY <2>3, TickStep
    <2>4. CASE UNCHANGED govVars
      BY <2>4 DEF govVars, GovInv, GovTypeOK, WindowOK, Capped
    <2> QED BY <2>1, <2>2, <2>3, <2>4 DEF GovNext
  <1> QED BY <1>1, <1>2, PTL DEF GovSpec

\* Types: in particular no service is ever counted past the restart cap.
THEOREM GovTypeCorrect == GovSpec => []GovTypeOK
  <1>1. GovInv => GovTypeOK
    BY DEF GovInv
  <1> QED BY <1>1, GovInvariant, PTL

\* A crash loop is bounded: any 2 * max_restarts + 1 consecutive automatic
\* restarts of a service span more than one window.
THEOREM RestartsCappedTheorem == GovSpec => []RestartsCapped
  <1>1. GovInv => RestartsCapped
    BY DEF GovInv, Capped, RestartsCapped
  <1> QED BY <1>1, GovInvariant, PTL

\* The breaker trips only on a real crash loop: max_restarts restarts within
\* one window.
THEOREM TripEarnedTheorem == GovSpec => []TripEarned
  <1>1. GovInv => TripEarned
    <2> SUFFICES ASSUME GovInv, NEW s \in Service, entry[s].failed,
                        MaxRestarts > 0
                 PROVE  /\ Len(log[s]) >= MaxRestarts
                        /\ log[s][Len(log[s])]
                             - log[s][Len(log[s]) - MaxRestarts + 1] <= Window
      BY DEF TripEarned
    <2> DEFINE n == Len(log[s])
    <2>1. /\ log[s] \in Seq(Nat) /\ n \in Nat /\ entry[s] \in EntryType
          /\ entry[s].count = MaxRestarts /\ MaxRestarts <= n
          /\ entry[s].start \in Nat
      BY GovernorAssumption DEF GovInv, GovTypeOK, WindowOK, EntryType
    <2>2. /\ n \in 1..n /\ n - MaxRestarts + 1 \in 1..n
          /\ n > n - MaxRestarts /\ n - MaxRestarts + 1 > n - MaxRestarts
      BY <2>1, GovernorAssumption
    <2>3. \A i \in 1..n : /\ log[s][i] \in Nat
                          /\ i > n - MaxRestarts =>
                               /\ log[s][i] <= entry[s].start + Window
                               /\ entry[s].start <= log[s][i]
      BY <2>1, GovernorAssumption DEF GovInv, WindowOK
    <2> HIDE DEF n
    <2>4. /\ log[s][n] \in Nat /\ log[s][n - MaxRestarts + 1] \in Nat
          /\ log[s][n] <= entry[s].start + Window
          /\ entry[s].start <= log[s][n - MaxRestarts + 1]
      BY <2>2, <2>3
    <2>5. \A a, b, x, w \in Nat : a <= x + w /\ x <= b => a - b <= w
      OBVIOUS
    <2>6. log[s][n] - log[s][n - MaxRestarts + 1] <= Window
      BY <2>1, <2>4, <2>5, GovernorAssumption
    <2> QED BY <2>1, <2>6, GovernorAssumption DEF n
  <1> QED BY <1>1, GovInvariant, PTL

\* A tripped breaker grants nothing more until the service is forgotten.
THEOREM BreakerTerminalTheorem == GovSpec => BreakerTerminal
  <1>1. ASSUME GovInv, [GovNext]_govVars
        PROVE  [\A s \in Service :
                 entry[s].failed => \/ entry'[s].failed /\ log'[s] = log[s]
                                    \/ entry'[s] = NoEntry]_govVars
    <2> SUFFICES ASSUME NEW s \in Service, entry[s].failed
                 PROVE  \/ entry'[s].failed /\ log'[s] = log[s]
                        \/ entry'[s] = NoEntry
      OBVIOUS
    <2>0. entry \in [Service -> EntryType] /\ log \in [Service -> Seq(Nat)]
      BY <1>1 DEF GovInv, GovTypeOK
    <2>1. ASSUME NEW t \in Service, CrashRestarts(t)
          PROVE  entry'[s].failed /\ log'[s] = log[s]
      BY <2>0, <2>1 DEF CrashRestarts, MayRestart
    <2>2. ASSUME NEW t \in Service, CrashTrips(t)
          PROVE  entry'[s].failed /\ log'[s] = log[s]
      BY <2>0, <2>2 DEF CrashTrips, MustTrip
    <2>3. ASSUME NEW t \in Service, RestartDone(t)
          PROVE  entry'[s].failed /\ log'[s] = log[s]
      BY <2>0, <2>3 DEF RestartDone, EntryType
    <2>4. ASSUME NEW t \in Service, Forget(t)
          PROVE  \/ entry'[s].failed /\ log'[s] = log[s]
                 \/ entry'[s] = NoEntry
      BY <2>0, <2>4 DEF Forget
    <2> QED BY <1>1, <2>1, <2>2, <2>3, <2>4 DEF GovNext, Tick, govVars
  <1> QED BY <1>1, GovInvariant, PTL DEF GovSpec, BreakerTerminal
=============================================================================
