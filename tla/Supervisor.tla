----------------------------- MODULE Supervisor -----------------------------
(***************************************************************************)
(* The lifecycle daemon's process supervision (wylde-lifecycle): operator  *)
(* start and stop handlers, the service processes and the manifests they   *)
(* write, the 60 s orphan sweep and the delayed restarts it schedules      *)
(* through the Governor.                                                   *)
(*                                                                         *)
(* Handlers and restart tasks run on tokio's worker threads, so every      *)
(* acquisition of the State or the Governor mutex, and every write of a    *)
(* manifest, is a step of its own.                                         *)
(* A Child is spawned with kill_on_drop: overwriting its handle kills it.  *)
(* dev.restart_service is a stop followed by a start by the same operator. *)
(***************************************************************************)
EXTENDS Governor, FiniteSets

CONSTANTS
    Pid,           \* process ids
    Op,            \* operator calls that can be under way at once
    Task,          \* restart tasks that can be alive at once
    Daemon,        \* the daemon's own pid
    Aliased,       \* services whose manifest carries another name
    Hosted,        \* services whose manifest the daemon writes, with its pid
    SpawnMayFail,  \* whether a binary may be missing or fail to spawn
    StartupCrash,  \* whether a process may die during its start
    Serial         \* whether handlers run one at a time, and no call
                   \* begins while a sweep has orphans in hand

Actor == Op \cup Task

ASSUME SupervisorAssumption ==
    /\ None \notin Pid \cup Service /\ Daemon \notin Pid \cup {None}
    /\ Op \cap Task = {}
    /\ Aliased \subseteq Service /\ Hosted \subseteq Service
    /\ SpawnMayFail \in BOOLEAN /\ StartupCrash \in BOOLEAN
    /\ Serial \in BOOLEAN

VARIABLES
    runs,    \* the service a pid is running, or None
    ready,   \* the processes that have written their manifest
    owned,   \* State.spawn_records: services with a spawn record
    handle,  \* State.procs: the tracked Child of each service, or None
    man,     \* the runtime manifest of each service
    pc,      \* where each handler or restart task is
    svc,     \* the service it works on
    child,   \* the Child it holds
    crossed, \* history: the calls during which another start of the same
             \* service was under way
    sweep,   \* the orphan sweep: where it is, and the services it still has
             \* to look at, to mark dead, to plan for and to mark failed
    down,    \* history: stopped by the operator and not started since
    torn     \* history: those of them whose stop crossed a start

procVars == <<runs, ready>>
actVars == <<pc, svc, child, crossed>>
history == <<down, torn>>
vars == <<govVars, procVars, owned, handle, man, actVars, sweep, history>>

StartPC == {"check", "spawning", "recording", "storing"}
StopPC == {"forgetting", "taking", "waiting"}
PCs == {"idle", "sleeping", "ending"} \cup StartPC \cup StopPC

\* The daemon boots with nothing running; the boot sweep has deleted every
\* manifest that claimed a dead process alive, and only those.
Init ==
    /\ GovInit
    /\ runs = [p \in Pid |-> None]
    /\ ready = {}
    /\ owned = {}
    /\ handle = [s \in Service |-> None]
    /\ man \in [Service -> [state : {"none", "stopped", "dead-orphan", "failed"},
                            pid : {None}]]
    /\ pc = [a \in Actor |-> "idle"]
    /\ svc = [a \in Actor |-> None]
    /\ child = [a \in Actor |-> None]
    /\ sweep = [phase |-> "asleep", todo |-> {}, found |-> {},
                orphans |-> {}, trips |-> {}]
    /\ crossed = {} /\ down = {} /\ torn = {}

Alive(p) == p \in Pid /\ runs[p] # None
PidAlive(p) == p = Daemon \/ Alive(p)
Running(s) == \E p \in Pid : runs[p] = s

\* is_service_alive: the tracked Child exists and has not exited.
IsServiceAlive(s) == handle[s] # None /\ Alive(handle[s])

\* A pid the system may hand out: nobody runs under it or still refers to it.
FreePid ==
    {p \in Pid : /\ runs[p] = None
                 /\ \A s \in Service : handle[s] # p /\ man[s].pid # p
                 /\ \A a \in Actor : child[a] # p}

Busy == {a \in Actor : pc[a] \notin {"idle", "sleeping"}}

\* A restart task may wake up; an operator's call may begin.
MayRun == Serial => Busy = {}
MayCall == MayRun /\ (Serial => sweep.found \cup sweep.orphans
                                 \cup sweep.trips = {})

\* The history of crossed calls ends with the call.
Goto(a, l) ==
    /\ pc' = [pc EXCEPT ![a] = l]
    /\ crossed' = IF l \in StartPC \cup StopPC THEN crossed ELSE crossed \ {a}

\* The starts of a service other than a's own, and all work on it.
OtherStarts(a, s) == {b \in Actor \ {a} : svc[b] = s /\ pc[b] \in StartPC}
OtherCalls(a, s) ==
    {b \in Actor \ {a} : svc[b] = s /\ pc[b] \in StartPC \cup StopPC}

\* a begins to start, or to stop, service s.
BeginStart(a, s) ==
    /\ pc' = [pc EXCEPT ![a] = "check"]
    /\ crossed' = crossed \cup OtherCalls(a, s)
                          \cup {b \in {a} : OtherStarts(a, s) # {}}

BeginStop(o, s) ==
    /\ pc' = [pc EXCEPT ![o] = "forgetting"]
    /\ crossed' = crossed \cup {b \in {o} : OtherStarts(o, s) # {}}

\* A handler returns; a restart task still has to tell the Governor.
Over(a) == IF a \in Task THEN "ending" ELSE "idle"

-----------------------------------------------------------------------------
(* service.start, and the start half of a restart task                     *)

StartCalled(o, s) ==
    /\ pc[o] = "idle" /\ MayCall
    /\ BeginStart(o, s)
    /\ svc' = [svc EXCEPT ![o] = s]
    /\ down' = down \ {s} /\ torn' = torn \ {s}
    /\ UNCHANGED <<govVars, procVars, owned, handle, man, child, sweep>>

\* Mutant of StartCheck: no already-alive guard.
StartCheck_NoGuard(a) ==
    /\ pc[a] = "check"
    /\ Goto(a, "spawning")
    /\ UNCHANGED <<govVars, procVars, owned, handle, man, svc, child, sweep,
                   history>>

StartCheck(a) ==
    /\ pc[a] = "check"
    /\ Goto(a, IF IsServiceAlive(svc[a]) THEN Over(a) ELSE "spawning")
    /\ UNCHANGED <<govVars, procVars, owned, handle, man, svc, child, sweep,
                   history>>

Spawn(a) ==
    /\ pc[a] = "spawning"
    /\ \E p \in FreePid : /\ runs' = [runs EXCEPT ![p] = svc[a]]
                          /\ child' = [child EXCEPT ![a] = p]
    /\ Goto(a, "recording")
    /\ UNCHANGED <<govVars, ready, owned, handle, man, svc, sweep, history>>

\* No binary (reported as success), or the spawn itself fails.
SpawnNothing(a) ==
    /\ SpawnMayFail
    /\ pc[a] = "spawning"
    /\ Goto(a, Over(a))
    /\ UNCHANGED <<govVars, procVars, owned, handle, man, svc, child, sweep,
                   history>>

RecordSpawn(a) ==
    /\ pc[a] = "recording"
    /\ owned' = owned \cup {svc[a]}
    /\ Goto(a, "storing")
    /\ UNCHANGED <<govVars, procVars, handle, man, svc, child, sweep, history>>

\* Mutant of SetServiceProc: the child is spawned without kill_on_drop.
SetServiceProc_NoKill(a) ==
    /\ pc[a] = "storing"
    /\ handle' = [handle EXCEPT ![svc[a]] = child[a]]
    /\ child' = [child EXCEPT ![a] = None]
    /\ Goto(a, Over(a))
    /\ UNCHANGED <<govVars, procVars, owned, man, svc, sweep, history>>

\* Storing the handle drops, and so kills, the Child that was there.
SetServiceProc(a) ==
    /\ pc[a] = "storing"
    /\ runs' = [p \in Pid |-> IF p = handle[svc[a]] THEN None ELSE runs[p]]
    /\ ready' = ready \ {handle[svc[a]]}
    /\ handle' = [handle EXCEPT ![svc[a]] = child[a]]
    /\ child' = [child EXCEPT ![a] = None]
    /\ Goto(a, Over(a))
    /\ UNCHANGED <<govVars, owned, man, svc, sweep, history>>

-----------------------------------------------------------------------------
(* service.stop                                                            *)

\* Entry of stop_service: forget_spawn.
StopCalled(o, s) ==
    /\ pc[o] = "idle" /\ MayCall
    /\ owned' = owned \ {s}
    /\ BeginStop(o, s)
    /\ svc' = [svc EXCEPT ![o] = s]
    /\ UNCHANGED <<govVars, procVars, handle, man, child, sweep, history>>

StopForget(o) ==
    /\ pc[o] = "forgetting"
    /\ Forget(svc[o])
    /\ Goto(o, "taking")
    /\ UNCHANGED <<procVars, owned, handle, man, svc, child, sweep, history>>

\* The operator has been told s is stopped, and nobody is asking for it.
NowDown(o) ==
    IF OtherStarts(o, svc[o]) \cap Op # {} THEN UNCHANGED history
    ELSE /\ down' = down \cup {svc[o]}
         /\ torn' = IF o \in crossed THEN torn \cup {svc[o]}
                    ELSE torn \ {svc[o]}

TakeServiceProc(o) ==
    /\ pc[o] = "taking"
    /\ child' = [child EXCEPT ![o] = handle[svc[o]]]
    /\ handle' = [handle EXCEPT ![svc[o]] = None]
    /\ IF handle[svc[o]] = None
       THEN Goto(o, "idle") /\ NowDown(o)
       ELSE Goto(o, "waiting") /\ UNCHANGED history
    /\ UNCHANGED <<govVars, procVars, owned, man, svc, sweep>>

Dies(p) ==
    /\ runs' = [runs EXCEPT ![p] = None]
    /\ ready' = ready \ {p}

\* The signalled process writes mark_stopped and exits by itself.
GracefulExit(o) ==
    /\ pc[o] = "waiting" /\ child[o] \in ready
    /\ man' = [man EXCEPT ![runs[child[o]]].state = "stopped"]
    /\ Dies(child[o])
    /\ UNCHANGED <<govVars, owned, handle, actVars, sweep, history>>

\* It ends without writing anything, at the latest by the kill after grace.
ForcedExit(o) ==
    /\ pc[o] = "waiting" /\ Alive(child[o])
    /\ Dies(child[o])
    /\ UNCHANGED <<govVars, owned, handle, man, actVars, sweep, history>>

StopReturns(o) ==
    /\ pc[o] = "waiting" /\ ~Alive(child[o])
    /\ child' = [child EXCEPT ![o] = None]
    /\ Goto(o, "idle")
    /\ NowDown(o)
    /\ UNCHANGED <<govVars, procVars, owned, handle, man, svc, sweep>>

-----------------------------------------------------------------------------
(* The service processes                                                   *)

Written(p) ==
    [state |-> "alive", pid |-> IF runs[p] \in Hosted THEN Daemon ELSE p]

\* ManifestWriter::write at startup, then the heartbeat that rewrites the
\* whole cached manifest.
ProcWrites(p) ==
    /\ Alive(p)
    /\ p \notin ready \/ man[runs[p]] # Written(p)
    /\ ready' = ready \cup {p}
    /\ man' = [man EXCEPT ![runs[p]] = Written(p)]
    /\ UNCHANGED <<govVars, runs, owned, handle, actVars, sweep, history>>

\* Started and settled: its manifest shows it and no handler is at work on
\* its service.
Settled(p) ==
    /\ p \in ready /\ man[runs[p]] = Written(p)
    /\ \A a \in Busy : svc[a] # runs[p]

ProcCrash(p) ==
    /\ Alive(p)
    /\ StartupCrash \/ Settled(p)
    /\ Dies(p)
    /\ UNCHANGED <<govVars, owned, handle, man, actVars, sweep, history>>

-----------------------------------------------------------------------------
(* The orphan sweep and the restarts it schedules                          *)

SweepBegin ==
    /\ sweep.phase = "asleep"
    /\ sweep' = [phase |-> "walking", todo |-> Service, found |-> {},
                 orphans |-> {}, trips |-> {}]
    /\ UNCHANGED <<govVars, procVars, owned, handle, man, actVars, history>>

\* An alive-marked manifest whose pid is gone.
Orphaned(s) == man[s].state = "alive" /\ ~PidAlive(man[s].pid)

\* One manifest is read and its pid probed.
SweepCheck(s) ==
    /\ sweep.phase = "walking" /\ sweep.found = {} /\ s \in sweep.todo
    /\ sweep' = [sweep EXCEPT !.todo = @ \ {s},
                              !.found = IF Orphaned(s) THEN {s} ELSE {}]
    /\ UNCHANGED <<govVars, procVars, owned, handle, man, actVars, history>>

\* mark_orphan_dead marks whatever manifest the service has by then.
SweepMark(s) ==
    /\ s \in sweep.found
    /\ man' = [man EXCEPT ![s].state = "dead-orphan"]
    /\ sweep' = [sweep EXCEPT !.found = {}, !.orphans = @ \cup {s}]
    /\ UNCHANGED <<govVars, procVars, owned, handle, actVars, history>>

\* drive_restarts keeps the orphans whose manifest name has a spawn record.
DriveRestarts ==
    /\ sweep.phase = "walking" /\ sweep.todo = {} /\ sweep.found = {}
    /\ sweep' = [sweep EXCEPT !.phase = "planning",
                              !.orphans = (@ \cap owned) \ Aliased]
    /\ UNCHANGED <<govVars, procVars, owned, handle, man, actVars, history>>

Plannable(s) == sweep.phase = "planning" /\ s \in sweep.orphans

PlanRestart(s) ==
    /\ Plannable(s)
    /\ sweep' = [sweep EXCEPT !.orphans = @ \ {s}]
    /\ CrashRestarts(s)
    /\ \E t \in Task : /\ pc[t] = "idle"
                       /\ Goto(t, "sleeping")
                       /\ svc' = [svc EXCEPT ![t] = s]
    /\ UNCHANGED <<procVars, owned, handle, man, child, history>>

\* The breaker trips.
PlanTrip(s) ==
    /\ Plannable(s)
    /\ sweep' = [sweep EXCEPT !.orphans = @ \ {s}, !.trips = @ \cup {s}]
    /\ CrashTrips(s)
    /\ UNCHANGED <<procVars, owned, handle, man, actVars, history>>

\* mark_failed, after the Governor is unlocked.  (An orphan has a manifest.)
MarkFailed(s) ==
    /\ s \in sweep.trips
    /\ sweep' = [sweep EXCEPT !.trips = @ \ {s}]
    /\ man' = [man EXCEPT ![s].state = "failed"]
    /\ UNCHANGED <<govVars, procVars, owned, handle, actVars, history>>

\* RestartDecision::Pending or GaveUp.
PlanIgnored(s) ==
    /\ Plannable(s)
    /\ sweep' = [sweep EXCEPT !.orphans = @ \ {s}]
    /\ Ignored(entry[s])
    /\ UNCHANGED <<govVars, procVars, owned, handle, man, actVars, history>>

SweepEnd ==
    /\ sweep.phase = "planning" /\ sweep.orphans = {} /\ sweep.trips = {}
    /\ sweep' = [sweep EXCEPT !.phase = "asleep"]
    /\ UNCHANGED <<govVars, procVars, owned, handle, man, actVars, history>>

\* Mutant of WakeUp: the restart fires without the ownership check.
WakeUp_NoCheck(t) ==
    /\ pc[t] = "sleeping" /\ MayRun
    /\ BeginStart(t, svc[t])
    /\ UNCHANGED <<govVars, procVars, owned, handle, man, svc, child, sweep,
                   history>>

\* The backoff is over: restart, unless the spawn record is gone.
WakeUp(t) ==
    /\ pc[t] = "sleeping" /\ MayRun
    /\ IF svc[t] \in owned THEN BeginStart(t, svc[t]) ELSE Goto(t, "ending")
    /\ UNCHANGED <<govVars, procVars, owned, handle, man, svc, child, sweep,
                   history>>

\* Mutant of RestartEnds: on_restart_done is skipped when the restart was
\* aborted or spawned nothing.
RestartEnds_OnlyIfAlive(t) ==
    /\ pc[t] = "ending"
    /\ IF IsServiceAlive(svc[t]) THEN RestartDone(svc[t]) ELSE UNCHANGED govVars
    /\ Goto(t, "idle")
    /\ UNCHANGED <<procVars, owned, handle, man, svc, child, sweep, history>>

\* Mutant of RestartEnds: on_restart_done is never called.
RestartEnds_NoReset(t) ==
    /\ pc[t] = "ending"
    /\ Goto(t, "idle")
    /\ UNCHANGED <<govVars, procVars, owned, handle, man, svc, child, sweep,
                   history>>

RestartEnds(t) ==
    /\ pc[t] = "ending"
    /\ RestartDone(svc[t])
    /\ Goto(t, "idle")
    /\ UNCHANGED <<procVars, owned, handle, man, svc, child, sweep, history>>

TimePasses ==
    /\ Tick
    /\ UNCHANGED <<procVars, owned, handle, man, actVars, sweep, history>>

-----------------------------------------------------------------------------
StartStep(a) == StartCheck(a) \/ Spawn(a) \/ SpawnNothing(a)
                \/ RecordSpawn(a) \/ SetServiceProc(a)

StopStep(o) == StopForget(o) \/ TakeServiceProc(o) \/ GracefulExit(o)
               \/ ForcedExit(o) \/ StopReturns(o)

SweepStep == \/ SweepBegin \/ DriveRestarts \/ SweepEnd
             \/ \E s \in Service : \/ SweepCheck(s) \/ SweepMark(s)
                                   \/ PlanRestart(s) \/ PlanTrip(s)
                                   \/ PlanIgnored(s) \/ MarkFailed(s)

Next ==
    \/ \E o \in Op : \/ \E s \in Service : StartCalled(o, s) \/ StopCalled(o, s)
                     \/ StopStep(o)
    \/ \E a \in Actor : StartStep(a)
    \/ \E t \in Task : WakeUp(t) \/ RestartEnds(t)
    \/ \E p \in Pid : ProcWrites(p) \/ ProcCrash(p)
    \/ SweepStep
    \/ TimePasses

Spec == Init /\ [][Next]_vars

\* tokio runs every ready task, sleeps end, a stopped child exits or is
\* killed, and a process that stays up gets to write its manifest.
Fairness ==
    /\ \A a \in Actor : WF_vars(StartStep(a))
    /\ \A o \in Op : WF_vars(StopStep(o))
    /\ \A t \in Task : WF_vars(WakeUp(t)) /\ WF_vars(RestartEnds(t))
    /\ \A p \in Pid : WF_vars(ProcWrites(p))
    /\ WF_vars(SweepStep)

FairSpec == Spec /\ Fairness

-----------------------------------------------------------------------------
(* Properties                                                              *)

\* The state has the shape of the code's types.
TypeOK ==
    /\ GovTypeOK
    /\ runs \in [Pid -> Service \cup {None}]
    /\ ready \subseteq {p \in Pid : runs[p] # None}
    /\ owned \subseteq Service
    /\ handle \in [Service -> Pid \cup {None}]
    /\ man \in [Service -> [state : {"none", "alive", "stopped", "dead-orphan",
                                     "failed"},
                            pid : Pid \cup {Daemon, None}]]
    /\ pc \in [Actor -> PCs]
    /\ svc \in [Actor -> Service \cup {None}]
    /\ child \in [Actor -> Pid \cup {None}]
    /\ sweep \in [phase : {"asleep", "walking", "planning"},
                  todo : SUBSET Service, found : SUBSET Service,
                  orphans : SUBSET Service, trips : SUBSET Service]
    /\ crossed \subseteq Actor
    /\ down \subseteq Service /\ torn \subseteq down

\* No process escapes supervision: whatever races, every running process is
\* the tracked Child of its service or in the hands of the handler that is
\* starting or stopping it.
NoLeakedProcess ==
    \A p \in Pid :
        runs[p] # None =>
            \/ handle[runs[p]] = p
            \/ \E a \in Actor : /\ child[a] = p /\ svc[a] = runs[p]
                                /\ pc[a] \in {"recording", "storing", "waiting"}

\* The in-flight flag never outlives its restart task: a service whose flag
\* is up has a task that will clear it, so its next crash is not ignored for
\* ever.
PendingHasTask ==
    \A s \in Service :
        entry[s].pending => \E t \in Task : svc[t] = s /\ pc[t] # "idle"

\* "an intended stop stays sacrosanct even when it races a pending restart":
\* a service the operator stopped, and did not start since, has no process,
\* but for one that a second stop of it is still waiting for.
StaysDown(S) ==
    \A p \in Pid : runs[p] \in S =>
        \E o \in Op : pc[o] = "waiting" /\ child[o] = p

StoppedStaysDown == StaysDown(down)

\* What the code keeps of that: a stop may find a restart asleep, planned or
\* about to be, and crashes in hand at the sweep, and the service still stays
\* down; only a start that was already past its wake-up check, or that began
\* while the stop was under way, brings the service back.
StoppedUnlessCrossed == StaysDown(down \ torn)

\* start_<service> "guards against double-spawn": storing a handle never
\* drops, and so kills, a Child that is running.
Kept(s) == IsServiceAlive(s) => handle'[s] \in {handle[s], None}

NoLiveChildDropped == [][\A s \in Service : Kept(s)]_vars

\* What the code keeps of that: the guard is read before the spawn, so a
\* Child is dropped alive only by a start that overlapped another start of
\* the service, whatever stops, crashes and sweeps come between.
NoChildDroppedUnlessCrossed ==
    [][\A s \in Service :
         \/ Kept(s)
         \/ \E a \in crossed : svc[a] = s /\ pc[a] = "storing"]_vars

\* A service the daemon owns does not stay dark: it runs again, its breaker
\* trips, or it is stopped.
CrashHandled ==
    \A s \in Service :
        s \in owned /\ ~Running(s) ~>
            Running(s) \/ entry[s].failed \/ s \notin owned

\* A crashed service the daemon has given up on is shown as failed, the
\* dead-orphan mark being kept for one it will retry.
FailedSurfaced ==
    \A s \in Service :
        s \in owned /\ ~Running(s) ~>
            Running(s) \/ man[s].state = "failed" \/ s \notin owned
=============================================================================
