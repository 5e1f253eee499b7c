-------------------------- MODULE SupervisorProofs --------------------------
(***************************************************************************)
(* Proofs about the lifecycle daemon's supervision, for any set of         *)
(* services, pids, concurrent operator calls and restart tasks.            *)
(*                                                                         *)
(* The argument: LocalInv (types, and every busy actor works on a real     *)
(* service) is inductive; under it every step is a step of the Governor or *)
(* leaves it alone, so the Governor's theorems carry over; with the types  *)
(* known, NoLeakedProcess and PendingHasTask are inductive.  RaceInv says  *)
(* what a call that crossed no start of its service may rely on, and what  *)
(* a stop leaves behind; it assumes nothing about what runs together.      *)
(***************************************************************************)
EXTENDS Supervisor, GovernorProofs

\* Every handler and restart task under way has a service to work on.
HasService == \A a \in Actor : pc[a] # "idle" => svc[a] \in Service

\* The supervisor's own share of TypeOK.
LocalType ==
    /\ runs \in [Pid -> Service \cup {None}]
    /\ ready \subseteq {p \in Pid : runs[p] # None}
    /\ owned \subseteq Service
    /\ handle \in [Service -> Pid \cup {None}]
    /\ man \in [Service -> [state : {"none", "alive", "stopped", "dead-orphan",
                                     "failed"},
                            pid : Pid \cup {Daemon, None}]]
    /\ pc \in [Actor -> PCs]
    /\ svc \in [Actor -> Service \cup {None}]
    /\ child \in [Actor -> Pid \cup {None}]
    /\ sweep \in [phase : {"asleep", "walking", "planning"},
                  todo : SUBSET Service, found : SUBSET Service,
                  orphans : SUBSET Service, trips : SUBSET Service]
    /\ crossed \subseteq Actor
    /\ down \subseteq Service /\ torn \subseteq down

LocalInv == LocalType /\ HasService

-----------------------------------------------------------------------------
(* Types                                                                   *)

\* The steps of start_<service> keep the types.
LEMMA StartTypes ==
    ASSUME LocalInv, NEW a \in Actor, StartStep(a)
    PROVE  LocalInv'
  <1> USE DEF LocalInv, LocalType, HasService, Goto, PCs, StartPC, StopPC,
              Over, actVars, history, procVars
  <1>1. CASE StartCheck(a)
    BY <1>1 DEF StartCheck
  <1>2. CASE Spawn(a)
    BY <1>2, SupervisorAssumption DEF Spawn, FreePid
  <1>3. CASE SpawnNothing(a)
    BY <1>3 DEF SpawnNothing
  <1>4. CASE RecordSpawn(a)
    BY <1>4 DEF RecordSpawn
  <1>5. CASE SetServiceProc(a)
    BY <1>5 DEF SetServiceProc
  <1> QED BY <1>1, <1>2, <1>3, <1>4, <1>5 DEF StartStep

\* So do those of stop_<service>, ...
LEMMA StopTypes ==
    ASSUME LocalInv, NEW o \in Op, StopStep(o)
    PROVE  LocalInv'
  <1> USE DEF LocalInv, LocalType, HasService, Goto, PCs, StartPC, StopPC,
              Dies, Alive, Actor, actVars, history, procVars
  <1>1. CASE StopForget(o)
    BY <1>1 DEF StopForget
  <1>2. CASE TakeServiceProc(o)
    BY <1>2 DEF TakeServiceProc, NowDown
  <1>3. CASE GracefulExit(o)
    BY <1>3 DEF GracefulExit
  <1>4. CASE ForcedExit(o)
    BY <1>4 DEF ForcedExit
  <1>5. CASE StopReturns(o)
    BY <1>5 DEF StopReturns, NowDown
  <1> QED BY <1>1, <1>2, <1>3, <1>4, <1>5 DEF StopStep

\* ... the operator's calls, ...
LEMMA CallTypes ==
    ASSUME LocalInv, NEW o \in Op, NEW s \in Service,
           StartCalled(o, s) \/ StopCalled(o, s)
    PROVE  LocalInv'
  <1> USE DEF LocalInv, LocalType, HasService, Goto, PCs, StartPC, StopPC,
              Actor, actVars, history, procVars, OtherCalls
  <1>1. CASE StartCalled(o, s)
    BY <1>1 DEF StartCalled, BeginStart
  <1>2. CASE StopCalled(o, s)
    BY <1>2 DEF StopCalled, BeginStop
  <1> QED BY <1>1, <1>2

\* ... the restart tasks, ...
LEMMA TaskTypes ==
    ASSUME LocalInv, NEW t \in Task, WakeUp(t) \/ RestartEnds(t)
    PROVE  LocalInv'
  <1> USE DEF LocalInv, LocalType, HasService, Goto, PCs, StartPC, StopPC,
              Actor, actVars, history, procVars, OtherCalls
  <1>1. CASE WakeUp(t)
    BY <1>1 DEF WakeUp, BeginStart
  <1>2. CASE RestartEnds(t)
    BY <1>2 DEF RestartEnds
  <1> QED BY <1>1, <1>2

\* ... and the processes themselves.
LEMMA ProcTypes ==
    ASSUME LocalInv, NEW p \in Pid, ProcWrites(p) \/ ProcCrash(p)
    PROVE  LocalInv'
  <1> USE DEF LocalInv, LocalType, HasService, Alive, Dies, actVars, history,
              procVars
  <1>1. CASE ProcWrites(p)
    BY <1>1 DEF ProcWrites, Written
  <1>2. CASE ProcCrash(p)
    BY <1>2 DEF ProcCrash
  <1> QED BY <1>1, <1>2

\* Marking a manifest, and moving a service between the sweep's sets.
LEMMA MarkType ==
    ASSUME LocalType, NEW s \in Service,
           NEW st \in {"none", "alive", "stopped", "dead-orphan", "failed"}
    PROVE  [man EXCEPT ![s].state = st] \in
             [Service -> [state : {"none", "alive", "stopped", "dead-orphan",
                                   "failed"},
                          pid : Pid \cup {Daemon, None}]]
  BY DEF LocalType

\* A service the sweep moves on stays in its record's type.
LEMMA SweepType ==
    ASSUME LocalType, NEW s \in Service
    PROVE  /\ [sweep EXCEPT !.found = {}, !.orphans = @ \cup {s}] \in
                [phase : {"asleep", "walking", "planning"},
                 todo : SUBSET Service, found : SUBSET Service,
                 orphans : SUBSET Service, trips : SUBSET Service]
           /\ [sweep EXCEPT !.orphans = @ \ {s}, !.trips = @ \cup {s}] \in
                [phase : {"asleep", "walking", "planning"},
                 todo : SUBSET Service, found : SUBSET Service,
                 orphans : SUBSET Service, trips : SUBSET Service]
  BY DEF LocalType

\* The orphan sweep keeps the types.
LEMMA SweepTypes ==
    ASSUME LocalInv, SweepStep
    PROVE  LocalInv'
  <1> USE DEF LocalInv, LocalType, HasService, Goto, PCs, Actor, actVars,
              history, procVars
  <1>1. CASE SweepBegin
    BY <1>1 DEF SweepBegin
  <1>2. CASE DriveRestarts
    BY <1>2 DEF DriveRestarts
  <1>3. CASE SweepEnd
    BY <1>3 DEF SweepEnd
  <1>4. ASSUME NEW s \in Service, SweepCheck(s)
        PROVE  LocalInv'
    BY <1>4 DEF SweepCheck
  <1>5. ASSUME NEW s \in Service, SweepMark(s)
        PROVE  LocalInv'
    BY <1>5, MarkType, SweepType DEF SweepMark
  <1>6. ASSUME NEW s \in Service, PlanRestart(s)
        PROVE  LocalInv'
    <2>1. PICK t \in Task : /\ pc' = [pc EXCEPT ![t] = "sleeping"]
                            /\ svc' = [svc EXCEPT ![t] = s]
                            /\ crossed' \subseteq crossed
      BY <1>6 DEF PlanRestart
    <2>2. sweep' = [sweep EXCEPT !.orphans = @ \ {s}]
      BY <1>6 DEF PlanRestart
    <2>3. UNCHANGED <<runs, ready, owned, handle, man, child, down, torn>>
      BY <1>6 DEF PlanRestart
    <2> QED BY <2>1, <2>2, <2>3
  <1>7. ASSUME NEW s \in Service, PlanTrip(s)
        PROVE  LocalInv'
    BY <1>7, SweepType DEF PlanTrip
  <1>8. ASSUME NEW s \in Service, PlanIgnored(s)
        PROVE  LocalInv'
    BY <1>8 DEF PlanIgnored
  <1>9. ASSUME NEW s \in Service, MarkFailed(s)
        PROVE  LocalInv'
    BY <1>9, MarkType DEF MarkFailed
  <1> QED BY <1>1, <1>2, <1>3, <1>4, <1>5, <1>6, <1>7, <1>8, <1>9
          DEF SweepStep

\* Every step of the supervisor preserves the types.
LEMMA LocalInvariant == Spec => []LocalInv
  <1>1. Init => LocalInv
    BY DEF Init, LocalInv, LocalType, HasService, PCs
  <1>2. LocalInv /\ [Next]_vars => LocalInv'
    <2> SUFFICES ASSUME LocalInv, [Next]_vars PROVE LocalInv'
      OBVIOUS
    <2>1. CASE TimePasses
      BY <2>1 DEF TimePasses, LocalInv, LocalType, HasService, procVars, actVars,
                  history
    <2>2. CASE UNCHANGED vars
      BY <2>2 DEF vars, LocalInv, LocalType, HasService, procVars, actVars,
                  history
    <2> QED BY <2>1, <2>2, StartTypes, StopTypes, CallTypes, TaskTypes,
               ProcTypes, SweepTypes DEF Next
  <1> QED BY <1>1, <1>2, PTL DEF Spec
-----------------------------------------------------------------------------
(* The supervisor drives the Governor                                      *)

\* Each supervisor step is one step of the policy or none of its business:
\* the lifecycle daemon only ever touches the Governor through on_crash,
\* on_restart_done and forget.
LEMMA GovernorRefined == Spec => GovSpec
  <1>1. Init => GovInit
    BY DEF Init
  <1>2. LocalInv /\ [Next]_vars => [GovNext]_govVars
    <2> SUFFICES ASSUME LocalInv, [Next]_vars PROVE [GovNext]_govVars
      OBVIOUS
    <2>1. ASSUME NEW a \in Actor, StartStep(a)
          PROVE  UNCHANGED govVars
      BY <2>1 DEF StartStep, StartCheck, Spawn, SpawnNothing, RecordSpawn,
                  SetServiceProc
    <2>2. ASSUME NEW o \in Op, StopStep(o)
          PROVE  GovNext \/ UNCHANGED govVars
      <3>1. CASE StopForget(o)
        <4>1. svc[o] \in Service
          BY <3>1 DEF StopForget, LocalInv, HasService, Actor
        <4> QED BY <3>1, <4>1 DEF StopForget, GovNext
      <3> QED BY <2>2, <3>1 DEF StopStep, TakeServiceProc, GracefulExit,
                                ForcedExit, StopReturns
    <2>3. ASSUME NEW o \in Op, NEW s \in Service,
                 StartCalled(o, s) \/ StopCalled(o, s)
          PROVE  UNCHANGED govVars
      BY <2>3 DEF StartCalled, StopCalled
    <2>4. ASSUME NEW t \in Task, WakeUp(t) \/ RestartEnds(t)
          PROVE  GovNext \/ UNCHANGED govVars
      <3>1. CASE RestartEnds(t)
        <4>1. svc[t] \in Service
          BY <3>1 DEF RestartEnds, LocalInv, HasService, Actor
        <4> QED BY <3>1, <4>1 DEF RestartEnds, GovNext
      <3> QED BY <2>4, <3>1 DEF WakeUp
    <2>5. ASSUME NEW p \in Pid, ProcWrites(p) \/ ProcCrash(p)
          PROVE  UNCHANGED govVars
      BY <2>5 DEF ProcWrites, ProcCrash
    <2>6. CASE SweepStep
      <3>1. ASSUME NEW s \in Service, PlanRestart(s) \/ PlanTrip(s)
            PROVE  GovNext
        BY <3>1 DEF PlanRestart, PlanTrip, GovNext
      <3> QED BY <2>6, <3>1 DEF SweepStep, SweepBegin, DriveRestarts, SweepEnd,
                                SweepCheck, SweepMark, PlanIgnored, MarkFailed
    <2>7. CASE TimePasses
      BY <2>7 DEF TimePasses, GovNext
    <2>8. CASE UNCHANGED vars
      BY <2>8 DEF vars
    <2> QED BY <2>1, <2>2, <2>3, <2>4, <2>5, <2>6, <2>7, <2>8 DEF Next
  <1> QED BY <1>1, <1>2, LocalInvariant, PTL DEF Spec, GovSpec

\* Types of the supervisor and of the policy it drives.
THEOREM SupervisorTypes == Spec => []TypeOK
  <1>1. LocalInv /\ GovTypeOK => TypeOK
    BY DEF LocalInv, LocalType, TypeOK
  <1> QED BY <1>1, LocalInvariant, GovernorRefined, GovTypeCorrect, PTL

\* However operators, crashes and sweeps interleave, a crash-looping service
\* is restarted at most 2 * max_restarts times in any window.
THEOREM SupervisedRestartsCapped == Spec => []RestartsCapped
  BY GovernorRefined, RestartsCappedTheorem, PTL

-----------------------------------------------------------------------------
(* No process escapes                                                      *)

\* Steps that touch neither handles nor held children, and move no actor
\* that holds one out of its hands.
LEMMA QuietKeepsHold ==
    ASSUME NoLeakedProcess, LocalInv,
           handle' = handle, child' = child,
           \A p \in Pid : runs'[p] \in {runs[p], None},
           \A a \in Actor :
              pc[a] \in {"recording", "storing", "waiting"} =>
                 /\ svc'[a] = svc[a]
                 /\ pc'[a] \in {"recording", "storing", "waiting"}
    PROVE  NoLeakedProcess'
  BY DEF NoLeakedProcess, LocalInv, LocalType

\* Every step keeps each process within reach of the daemon.
LEMMA NoLeakStep ==
    ASSUME LocalInv, LocalInv', NoLeakedProcess, [Next]_vars
    PROVE  NoLeakedProcess'
  <1> USE DEF Goto, actVars, procVars
  <1>0. LocalType
    BY DEF LocalInv
  <1>1. ASSUME NEW a \in Actor, StartStep(a)
        PROVE  NoLeakedProcess'
    <2>1. CASE StartCheck(a) \/ SpawnNothing(a) \/ RecordSpawn(a)
      BY <1>0, <2>1, QuietKeepsHold
      DEF StartCheck, SpawnNothing, RecordSpawn, LocalType
    <2>2. CASE Spawn(a)
      BY <1>0, <2>2 DEF Spawn, FreePid, NoLeakedProcess, LocalType
    <2>3. CASE SetServiceProc(a)
      BY <1>0, <2>3 DEF SetServiceProc, NoLeakedProcess, LocalType
    <2> QED BY <1>1, <2>1, <2>2, <2>3 DEF StartStep
  <1>2. ASSUME NEW o \in Op, StopStep(o)
        PROVE  NoLeakedProcess'
    <2>1. CASE StopForget(o)
      BY <1>0, <2>1, QuietKeepsHold DEF StopForget, LocalType
    <2>2. CASE TakeServiceProc(o)
      BY <1>0, <2>2 DEF TakeServiceProc, NoLeakedProcess, LocalType, Actor
    <2>3. CASE GracefulExit(o) \/ ForcedExit(o)
      BY <1>0, <2>3, QuietKeepsHold DEF GracefulExit, ForcedExit, Dies, LocalType
    <2>4. CASE StopReturns(o)
      BY <1>0, <2>4 DEF StopReturns, NoLeakedProcess, LocalType, Alive, Actor
    <2> QED BY <1>2, <2>1, <2>2, <2>3, <2>4 DEF StopStep
  <1>3. ASSUME NEW o \in Op, NEW s \in Service,
               StartCalled(o, s) \/ StopCalled(o, s)
        PROVE  NoLeakedProcess'
    BY <1>0, <1>3, QuietKeepsHold
    DEF StartCalled, StopCalled, BeginStart, BeginStop, LocalType, Actor
  <1>4. ASSUME NEW t \in Task, WakeUp(t) \/ RestartEnds(t)
        PROVE  NoLeakedProcess'
    BY <1>0, <1>4, QuietKeepsHold
    DEF WakeUp, RestartEnds, BeginStart, LocalType, Actor
  <1>5. ASSUME NEW p \in Pid, ProcWrites(p) \/ ProcCrash(p)
        PROVE  NoLeakedProcess'
    BY <1>0, <1>5, QuietKeepsHold DEF ProcWrites, ProcCrash, Dies, LocalType
  <1>6. CASE SweepStep
    <2>1. ASSUME NEW s \in Service, PlanRestart(s)
          PROVE  NoLeakedProcess'
      <3>1. PICK t \in Task : /\ pc[t] = "idle"
                              /\ pc' = [pc EXCEPT ![t] = "sleeping"]
                              /\ svc' = [svc EXCEPT ![t] = s]
        BY <2>1 DEF PlanRestart
      <3>2. UNCHANGED <<runs, handle, child>>
        BY <2>1 DEF PlanRestart
      <3> QED BY <1>0, <3>1, <3>2, QuietKeepsHold DEF LocalType, Actor
    <2> QED BY <1>0, <1>6, <2>1, QuietKeepsHold
            DEF SweepStep, SweepBegin, DriveRestarts, SweepEnd, SweepCheck,
                SweepMark, PlanTrip, PlanIgnored, MarkFailed
  <1>7. CASE TimePasses \/ UNCHANGED vars
    BY <1>0, <1>7, QuietKeepsHold DEF TimePasses, vars
  <1> QED BY <1>1, <1>2, <1>3, <1>4, <1>5, <1>6, <1>7 DEF Next

\* Whatever races, no running process is lost: each is the tracked Child of
\* its service or in the hands of a handler at work on it.
THEOREM NoLeakTheorem == Spec => []NoLeakedProcess
  <1>1. Init => NoLeakedProcess
    BY DEF Init, NoLeakedProcess
  <1>2. LocalInv /\ LocalInv' /\ NoLeakedProcess /\ [Next]_vars
          => NoLeakedProcess'
    BY NoLeakStep
  <1> QED BY <1>1, <1>2, LocalInvariant, PTL DEF Spec

-----------------------------------------------------------------------------
(* The in-flight flag                                                      *)

\* A step that raises no flag and ends no task.
LEMMA QuietKeepsTask ==
    ASSUME PendingHasTask,
           \A s \in Service : entry'[s].pending => entry[s].pending,
           \A t \in Task : pc[t] # "idle" => pc'[t] # "idle" /\ svc'[t] = svc[t]
    PROVE  PendingHasTask'
  BY DEF PendingHasTask

\* Every step keeps a task for each pending restart.
LEMMA PendingStep ==
    ASSUME TypeOK, HasService, PendingHasTask, [Next]_vars
    PROVE  PendingHasTask'
  <1> USE DEF Goto, actVars, govVars
  <1>0. /\ entry \in [Service -> EntryType]
        /\ pc \in [Actor -> PCs] /\ svc \in [Actor -> Service \cup {None}]
    BY DEF TypeOK, GovTypeOK
  <1>1. ASSUME NEW a \in Actor, StartStep(a)
        PROVE  PendingHasTask'
    <2>1. /\ entry' = entry /\ svc' = svc
          /\ \/ pc' = [pc EXCEPT ![a] = Over(a)]
             \/ \E l \in StartPC : pc' = [pc EXCEPT ![a] = l]
      BY <1>1 DEF StartStep, StartCheck, Spawn, SpawnNothing, RecordSpawn,
                  SetServiceProc, StartPC
    <2>2. \A t \in Task : pc[t] # "idle" => pc'[t] # "idle"
      BY <1>0, <2>1 DEF Over, StartPC, Actor
    <2> QED BY <2>1, <2>2, QuietKeepsTask
  <1>2. ASSUME NEW o \in Op, StopStep(o)
        PROVE  PendingHasTask'
    <2>1. /\ \A t \in Task : pc'[t] = pc[t]
          /\ svc' = svc
      BY <1>0, <1>2, SupervisorAssumption
      DEF StopStep, StopForget, TakeServiceProc, GracefulExit, ForcedExit,
          StopReturns, Actor
    <2>2. \A s \in Service : entry'[s].pending => entry[s].pending
      <3>1. CASE StopForget(o)
        BY <1>0, <3>1 DEF StopForget, Forget, NoEntry
      <3> QED BY <1>2, <3>1 DEF StopStep, TakeServiceProc, GracefulExit,
                                ForcedExit, StopReturns
    <2> QED BY <2>1, <2>2, QuietKeepsTask
  <1>3. ASSUME NEW o \in Op, NEW s \in Service,
               StartCalled(o, s) \/ StopCalled(o, s)
        PROVE  PendingHasTask'
    <2>1. /\ entry' = entry
          /\ \A t \in Task : pc'[t] = pc[t] /\ svc'[t] = svc[t]
      BY <1>0, <1>3, SupervisorAssumption
      DEF StartCalled, StopCalled, BeginStart, BeginStop, Actor
    <2> QED BY <2>1, QuietKeepsTask
  <1>4. ASSUME NEW t \in Task, WakeUp(t)
        PROVE  PendingHasTask'
    BY <1>0, <1>4, QuietKeepsTask DEF WakeUp, BeginStart, Actor
  <1>5. ASSUME NEW t \in Task, RestartEnds(t)
        PROVE  PendingHasTask'
    <2>1. /\ svc[t] \in Service /\ svc' = svc
          /\ \A u \in Task : u # t => pc'[u] = pc[u]
      BY <1>0, <1>5 DEF RestartEnds, HasService, Actor
    <2>2. /\ ~entry'[svc[t]].pending
          /\ \A s \in Service : s # svc[t] => entry'[s] = entry[s]
      BY <1>0, <1>5, <2>1 DEF RestartEnds, RestartDone, EntryType
    <2> QED BY <2>1, <2>2 DEF PendingHasTask
  <1>6. ASSUME NEW p \in Pid, ProcWrites(p) \/ ProcCrash(p)
        PROVE  PendingHasTask'
    BY <1>6, QuietKeepsTask DEF ProcWrites, ProcCrash
  <1>7. CASE SweepStep
    <2>1. ASSUME NEW s \in Service, PlanRestart(s)
          PROVE  PendingHasTask'
      <3>1. PICK t \in Task : /\ pc[t] = "idle"
                              /\ pc' = [pc EXCEPT ![t] = "sleeping"]
                              /\ svc' = [svc EXCEPT ![t] = s]
        BY <2>1 DEF PlanRestart
      <3>2. pc'[t] = "sleeping" /\ svc'[t] = s
        BY <1>0, <3>1 DEF Actor
      <3>3. \A u \in Task : pc[u] # "idle" => pc'[u] = pc[u] /\ svc'[u] = svc[u]
        BY <1>0, <3>1 DEF Actor
      <3>4. \A r \in Service : r # s => entry'[r] = entry[r]
        BY <1>0, <2>1 DEF PlanRestart, CrashRestarts
      <3> QED BY <3>2, <3>3, <3>4 DEF PendingHasTask
    <2>2. ASSUME NEW s \in Service, PlanTrip(s)
          PROVE  PendingHasTask'
      <3>1. \A r \in Service : entry'[r].pending => entry[r].pending
        BY <1>0, <2>2 DEF PlanTrip, CrashTrips, Tripped, Current, EntryType
      <3> QED BY <2>2, <3>1, QuietKeepsTask DEF PlanTrip
    <2> QED BY <1>7, <2>1, <2>2, QuietKeepsTask
            DEF SweepStep, SweepBegin, DriveRestarts, SweepEnd, SweepCheck,
                SweepMark, PlanIgnored, MarkFailed
  <1>8. CASE TimePasses \/ UNCHANGED vars
    BY <1>8, QuietKeepsTask DEF TimePasses, Tick, vars
  <1> QED BY <1>1, <1>2, <1>3, <1>4, <1>5, <1>6, <1>7, <1>8 DEF Next

\* The in-flight flag never outlives its restart task, aborted and failed
\* restarts included: a later crash is never ignored for ever.
THEOREM PendingTheorem == Spec => []PendingHasTask
  <1>1. Init => PendingHasTask
    BY DEF Init, GovInit, NoEntry, PendingHasTask
  <1>2. TypeOK /\ LocalInv /\ PendingHasTask /\ [Next]_vars => PendingHasTask'
    BY PendingStep DEF LocalInv
  <1> QED BY <1>1, <1>2, LocalInvariant, SupervisorTypes, PTL DEF Spec

-----------------------------------------------------------------------------
(* What the races leave intact                                             *)

\* A call that crossed no start of its service has it for itself, as far as
\* starts go.
Alone ==
    \A a \in Actor : pc[a] \in StartPC \cup StopPC /\ a \notin crossed =>
        \A b \in Actor : b # a /\ svc[b] = svc[a] => pc[b] \notin StartPC

\* Only an operator's call stops a service.
OpsStop == \A a \in Actor : pc[a] \in StopPC => a \in Op

\* While such a call stops a service the daemon does not own it, and once
\* its child is taken it has no handle.
StopHolds ==
    \A a \in Actor : pc[a] \in StopPC /\ a \notin crossed =>
        /\ svc[a] \notin owned
        /\ pc[a] = "waiting" => handle[svc[a]] = None

\* Such a start, past the already-alive check, still finds the service dead.
StartsDead ==
    \A a \in Actor :
        pc[a] \in {"spawning", "recording", "storing"} /\ a \notin crossed =>
            ~IsServiceAlive(svc[a])

\* A service stopped by such a call has no spawn record, so no restart task
\* gets as far as starting it, and no handle.
DownQuiet ==
    \A s \in down : s \notin torn =>
        /\ s \notin owned /\ handle[s] = None
        /\ \A a \in Actor : svc[a] = s => pc[a] \notin StartPC

RaceInv == Alone /\ OpsStop /\ StopHolds /\ StartsDead /\ DownQuiet

\* A step that adds no process, record or handle, declares nothing down, and
\* in which an actor stays in its call, goes to sleep or ends.
LEMMA QuietKeepsRace ==
    ASSUME LocalInv, RaceInv, owned' \subseteq owned, handle' = handle,
           down' = down, torn' = torn,
           \A p \in Pid : runs'[p] \in {runs[p], None},
           \A a \in Actor :
              \/ /\ pc'[a] = pc[a] /\ svc'[a] = svc[a]
                 /\ a \in crossed => a \in crossed'
              \/ pc'[a] \notin StartPC \cup StopPC
    PROVE  RaceInv'
  <1> USE DEF LocalInv, LocalType
  <1>1. Alone' /\ OpsStop'
    BY DEF RaceInv, Alone, OpsStop
  <1>2. StopHolds'
    BY DEF RaceInv, StopHolds, StopPC
  <1>3. StartsDead'
    <2> SUFFICES ASSUME NEW a \in Actor, a \notin crossed',
                        pc'[a] \in {"spawning", "recording", "storing"}
                 PROVE  ~IsServiceAlive(svc[a])'
      BY DEF StartsDead
    <2>1. pc'[a] = pc[a] /\ svc'[a] = svc[a] /\ a \notin crossed
      BY DEF StartPC
    <2>2. ~IsServiceAlive(svc[a])
      BY <2>1 DEF RaceInv, StartsDead
    <2> QED BY <2>1, <2>2 DEF IsServiceAlive, Alive
  <1>4. DownQuiet'
    BY DEF RaceInv, DownQuiet
  <1> QED BY <1>1, <1>2, <1>3, <1>4 DEF RaceInv

\* An actor going on with its call, or ending it, crosses nobody.
LEMMA GotoAlone ==
    ASSUME LocalInv, Alone, OpsStop, NEW a \in Actor, NEW l \in PCs,
           Goto(a, l), svc' = svc,
           l \in StartPC => pc[a] \in StartPC,
           l \in StopPC => pc[a] \in StopPC
    PROVE  Alone' /\ OpsStop'
  <1> USE DEF LocalInv, LocalType, Goto
  <1>1. \A b \in Actor : /\ pc'[b] \in StartPC => pc[b] \in StartPC
                         /\ pc'[b] \in StopPC => pc[b] \in StopPC
                         /\ \/ pc'[b] \notin StartPC \cup StopPC
                            \/ b \in crossed => b \in crossed'
    OBVIOUS
  <1> QED BY <1>1 DEF Alone, OpsStop

\* A start that begins is recorded with every call it meets.
LEMMA StartAlone ==
    ASSUME LocalInv, Alone, OpsStop, NEW a \in Actor, NEW s \in Service,
           BeginStart(a, s), svc' = [svc EXCEPT ![a] = s]
    PROVE  Alone' /\ OpsStop'
  <1> USE DEF LocalInv, LocalType, BeginStart
  <1>1. /\ pc'[a] = "check" /\ svc'[a] = s
        /\ \A b \in Actor : b # a => pc'[b] = pc[b] /\ svc'[b] = svc[b]
    OBVIOUS
  <1>2. /\ crossed \subseteq crossed'
        /\ \A b \in Actor : b # a /\ svc[b] = s /\ pc[b] \in StartPC \cup StopPC
              => b \in crossed'
        /\ a \notin crossed'
              => \A b \in Actor : b # a /\ svc[b] = s => pc[b] \notin StartPC
    BY DEF OtherCalls, OtherStarts
  <1>3. OpsStop'
    BY <1>1 DEF OpsStop, StopPC
  <1>4. Alone'
    <2> SUFFICES ASSUME NEW b \in Actor, pc'[b] \in StartPC \cup StopPC,
                        b \notin crossed', NEW c \in Actor, c # b,
                        svc'[c] = svc'[b]
                 PROVE  pc'[c] \notin StartPC
      BY DEF Alone
    <2>1. CASE b = a
      BY <1>1, <1>2, <2>1
    <2>2. CASE b # a
      BY <1>1, <1>2, <2>2 DEF Alone
    <2> QED BY <2>1, <2>2
  <1> QED BY <1>3, <1>4

\* So is a stop, with the starts it meets.
LEMMA StopAlone ==
    ASSUME LocalInv, Alone, OpsStop, NEW o \in Op, NEW s \in Service,
           BeginStop(o, s), svc' = [svc EXCEPT ![o] = s]
    PROVE  Alone' /\ OpsStop'
  <1> USE DEF LocalInv, LocalType, BeginStop
  <1>1. /\ o \in Actor /\ pc'[o] = "forgetting" /\ svc'[o] = s
        /\ \A b \in Actor : b # o => pc'[b] = pc[b] /\ svc'[b] = svc[b]
    BY DEF Actor
  <1>2. /\ crossed \subseteq crossed'
        /\ o \notin crossed'
              => \A b \in Actor : b # o /\ svc[b] = s => pc[b] \notin StartPC
    BY DEF OtherStarts
  <1>3. OpsStop'
    BY <1>1 DEF OpsStop
  <1>4. Alone'
    <2> SUFFICES ASSUME NEW b \in Actor, pc'[b] \in StartPC \cup StopPC,
                        b \notin crossed', NEW c \in Actor, c # b,
                        svc'[c] = svc'[b]
                 PROVE  pc'[c] \notin StartPC
      BY DEF Alone
    <2>1. CASE b = o
      BY <1>1, <1>2, <2>1
    <2>2. CASE b # o
      BY <1>1, <1>2, <2>2 DEF Alone, StartPC
    <2> QED BY <2>1, <2>2
  <1> QED BY <1>3, <1>4

\* The steps of start_<service> touch only its own service, which no call
\* that crossed no start is at work on and which no such call has stopped.
LEMMA RaceStart ==
    ASSUME LocalInv, RaceInv, NEW a \in Actor, StartStep(a)
    PROVE  RaceInv'
  <1> USE DEF LocalInv, LocalType
  <1>1. /\ pc[a] \in StartPC /\ svc[a] \in Service /\ svc' = svc
        /\ down' = down /\ torn' = torn
    BY DEF StartStep, StartCheck, Spawn, SpawnNothing, RecordSpawn,
           SetServiceProc, HasService, StartPC, history
  <1>2. \E l \in PCs : Goto(a, l) /\ l \notin StopPC
    BY DEF StartStep, StartCheck, Spawn, SpawnNothing, RecordSpawn,
           SetServiceProc, PCs, StartPC, StopPC, Over
  <1>3. Alone' /\ OpsStop'
    BY <1>1, <1>2, GotoAlone DEF RaceInv
  <1>4. /\ owned' \subseteq owned \cup {svc[a]}
        /\ \A s \in Service : s # svc[a] => handle'[s] = handle[s]
    BY <1>1 DEF StartStep, StartCheck, Spawn, SpawnNothing, RecordSpawn,
                SetServiceProc
  <1>5. \A p \in Pid : p \notin FreePid => runs'[p] \in {runs[p], None}
    BY DEF StartStep, StartCheck, Spawn, SpawnNothing, RecordSpawn,
           SetServiceProc, procVars
  <1>6. \A b \in Actor : b # a =>
            /\ pc'[b] = pc[b]
            /\ b \notin crossed' => b \notin crossed
    BY <1>2 DEF Goto
  <1>7. \A b \in Actor : b # a /\ b \notin crossed'
                         /\ pc'[b] \in StartPC \cup StopPC => svc[b] # svc[a]
    BY <1>1, <1>6 DEF RaceInv, Alone
  <1>8. StopHolds'
    <2> SUFFICES ASSUME NEW b \in Actor, pc'[b] \in StopPC, b \notin crossed'
                 PROVE  /\ svc'[b] \notin owned'
                        /\ pc'[b] = "waiting" => handle'[svc'[b]] = None
      BY DEF StopHolds
    <2>1. b # a
      BY <1>2 DEF Goto
    <2>2. svc[b] \in Service
      BY <1>6, <2>1 DEF HasService, StopPC
    <2> QED BY <1>1, <1>4, <1>6, <1>7, <2>1, <2>2 DEF RaceInv, StopHolds
  <1>9. StartsDead'
    <2> SUFFICES ASSUME NEW b \in Actor, b \notin crossed',
                        pc'[b] \in {"spawning", "recording", "storing"}
                 PROVE  ~IsServiceAlive(svc[b])'
      BY <1>1 DEF StartsDead
    <2>1. CASE b # a
      <3>1. ~IsServiceAlive(svc[b]) /\ svc[b] # svc[a] /\ svc[b] \in Service
        BY <1>6, <1>7, <2>1
        DEF RaceInv, StartsDead, StartPC, HasService
      <3>2. handle'[svc[b]] = handle[svc[b]] /\ handle[svc[b]] \notin FreePid
        BY <1>4, <3>1 DEF FreePid
      <3> QED BY <1>1, <1>5, <3>1, <3>2 DEF IsServiceAlive, Alive
    <2>2. CASE b = a
      <3>1. CASE StartCheck(a)
        BY <1>1, <2>2, <3>1 DEF StartCheck, Goto, Over, IsServiceAlive, Alive,
                                procVars
      <3>2. CASE Spawn(a) \/ RecordSpawn(a)
        <4>1. a \notin crossed /\ handle' = handle
          BY <2>2, <3>2 DEF Spawn, RecordSpawn, Goto, StartPC
        <4>2. ~IsServiceAlive(svc[a])
          BY <3>2, <4>1 DEF RaceInv, StartsDead, Spawn, RecordSpawn
        <4>3. handle[svc[a]] \notin FreePid
          BY <1>1 DEF FreePid
        <4> QED BY <1>1, <1>5, <2>2, <4>1, <4>2, <4>3
                DEF IsServiceAlive, Alive
      <3>3. CASE SpawnNothing(a) \/ SetServiceProc(a)
        BY <2>2, <3>3 DEF SpawnNothing, SetServiceProc, Goto, Over
      <3> QED BY <3>1, <3>2, <3>3 DEF StartStep
    <2> QED BY <2>1, <2>2
  <1>10. DownQuiet'
    <2>1. svc[a] \in down => svc[a] \in torn
      BY <1>1 DEF RaceInv, DownQuiet
    <2>2. \A b \in Actor : pc'[b] \in StartPC => pc[b] \in StartPC
      BY <1>1, <1>6
    <2> QED BY <1>1, <1>4, <2>1, <2>2 DEF RaceInv, DownQuiet
  <1> QED BY <1>3, <1>8, <1>9, <1>10 DEF RaceInv

\* A stop that crossed no start leaves its service without record or handle.
LEMMA RaceStop ==
    ASSUME LocalInv, RaceInv, NEW o \in Op, StopStep(o)
    PROVE  RaceInv'
  <1> USE DEF LocalInv, LocalType
  <1>1. CASE GracefulExit(o) \/ ForcedExit(o)
    BY <1>1, QuietKeepsRace DEF GracefulExit, ForcedExit, Dies, actVars, history
  <1>2. CASE StopForget(o) \/ TakeServiceProc(o) \/ StopReturns(o)
    <2>1. /\ o \in Actor /\ pc[o] \in StopPC /\ svc[o] \in Service
          /\ svc' = svc /\ owned' = owned /\ runs' = runs
      BY <1>2 DEF StopForget, TakeServiceProc, StopReturns, Actor, StopPC,
                  HasService, procVars
    <2>2. \E l \in PCs : Goto(o, l) /\ l \notin StartPC
      BY <1>2 DEF StopForget, TakeServiceProc, StopReturns, PCs, StartPC, StopPC
    <2>3. Alone' /\ OpsStop'
      BY <2>1, <2>2, GotoAlone DEF RaceInv
    <2>4. \A b \in Actor :
             /\ pc'[b] \in StartPC \cup StopPC /\ b \notin crossed'
                   => b \notin crossed
             /\ b # o => pc'[b] = pc[b]
             /\ pc'[b] \in StartPC => pc[b] = pc'[b]
      BY <2>2 DEF Goto
    <2>5. \A s \in Service : handle'[s] \in {handle[s], None}
      BY <1>2 DEF StopForget, TakeServiceProc, StopReturns
    <2>6. pc'[o] = "waiting" => handle'[svc[o]] = None
      BY <1>2, <2>1 DEF StopForget, TakeServiceProc, StopReturns, Goto, StopPC
    <2>7. StopHolds'
      BY <2>1, <2>4, <2>5, <2>6 DEF RaceInv, StopHolds, StopPC, HasService
    <2>8. StartsDead'
      <3> SUFFICES ASSUME NEW b \in Actor, b \notin crossed',
                          pc'[b] \in {"spawning", "recording", "storing"}
                   PROVE  ~IsServiceAlive(svc[b])'
        BY <2>1 DEF StartsDead
      <3>1. ~IsServiceAlive(svc[b]) /\ svc[b] \in Service
        BY <2>4 DEF RaceInv, StartsDead, StartPC, HasService
      <3> QED BY <2>1, <2>5, <3>1 DEF IsServiceAlive, Alive
    <2>9. \A s \in down' : s \notin torn' =>
             \/ s \in down /\ s \notin torn
             \/ s = svc[o] /\ o \notin crossed /\ handle'[s] = None
      BY <1>2, <2>1 DEF StopForget, TakeServiceProc, StopReturns, NowDown,
                        history, RaceInv, StopHolds
    <2>10. DownQuiet'
      <3> SUFFICES ASSUME NEW s \in down', s \notin torn'
                   PROVE  /\ s \notin owned' /\ handle'[s] = None
                          /\ \A a \in Actor : svc'[a] = s => pc'[a] \notin StartPC
        BY DEF DownQuiet
      <3>1. CASE s \in down /\ s \notin torn
        BY <2>1, <2>4, <2>5, <3>1 DEF RaceInv, DownQuiet
      <3>2. CASE s = svc[o] /\ o \notin crossed /\ handle'[s] = None
        <4>1. s \notin owned
          BY <2>1, <3>2 DEF RaceInv, StopHolds
        <4>2. \A a \in Actor : svc[a] = s => pc[a] \notin StartPC
          BY <2>1, <3>2 DEF RaceInv, Alone, StopPC, StartPC
        <4> QED BY <2>1, <2>4, <3>2, <4>1, <4>2
      <3> QED BY <2>9, <3>1, <3>2
    <2> QED BY <2>3, <2>7, <2>8, <2>10 DEF RaceInv
  <1> QED BY <1>1, <1>2 DEF StopStep

\* A call that begins lifts the mark of its service, or takes its record.
LEMMA RaceCalls ==
    ASSUME LocalInv, RaceInv, NEW o \in Op, NEW s \in Service,
           StartCalled(o, s) \/ StopCalled(o, s)
    PROVE  RaceInv'
  <1> USE DEF LocalInv, LocalType, procVars, history
  <1>1. /\ o \in Actor /\ runs' = runs /\ handle' = handle
        /\ svc' = [svc EXCEPT ![o] = s]
    BY DEF StartCalled, StopCalled, Actor
  <1>2. CASE StartCalled(o, s)
    <2>1. Alone' /\ OpsStop'
      BY <1>1, <1>2, StartAlone DEF StartCalled, RaceInv
    <2>2. /\ pc'[o] = "check" /\ svc'[o] = s /\ owned' = owned
          /\ crossed \subseteq crossed'
          /\ \A b \in Actor : b # o => pc'[b] = pc[b] /\ svc'[b] = svc[b]
      BY <1>1, <1>2 DEF StartCalled, BeginStart
    <2>3. StopHolds' /\ StartsDead'
      BY <1>1, <2>2 DEF RaceInv, StopHolds, StartsDead, StopPC, IsServiceAlive,
                        Alive
    <2>4. DownQuiet'
      BY <1>1, <1>2, <2>2 DEF StartCalled, RaceInv, DownQuiet
    <2> QED BY <2>1, <2>3, <2>4 DEF RaceInv
  <1>3. CASE StopCalled(o, s)
    <2>1. Alone' /\ OpsStop'
      BY <1>1, <1>3, StopAlone DEF StopCalled, RaceInv
    <2>2. /\ pc'[o] = "forgetting" /\ svc'[o] = s /\ owned' = owned \ {s}
          /\ crossed \subseteq crossed' /\ down' = down /\ torn' = torn
          /\ \A b \in Actor : b # o => pc'[b] = pc[b] /\ svc'[b] = svc[b]
      BY <1>1, <1>3 DEF StopCalled, BeginStop
    <2>3. StopHolds' /\ StartsDead'
      BY <1>1, <2>2 DEF RaceInv, StopHolds, StartsDead, IsServiceAlive, Alive
    <2>4. DownQuiet'
      BY <1>1, <2>2 DEF RaceInv, DownQuiet, StartPC
    <2> QED BY <2>1, <2>3, <2>4 DEF RaceInv
  <1> QED BY <1>2, <1>3

\* A restart task that wakes up starts only what the daemon owns.
LEMMA RaceTasks ==
    ASSUME LocalInv, RaceInv, NEW t \in Task, WakeUp(t) \/ RestartEnds(t)
    PROVE  RaceInv'
  <1> USE DEF LocalInv, LocalType, procVars, history
  <1>1. /\ t \in Actor /\ svc[t] \in Service
        /\ UNCHANGED <<runs, handle, owned, svc, down, torn>>
    BY DEF WakeUp, RestartEnds, Actor, HasService
  <1>2. CASE BeginStart(t, svc[t]) /\ svc[t] \in owned
    <2>1. Alone' /\ OpsStop'
      BY <1>1, <1>2, StartAlone DEF RaceInv
    <2>2. /\ pc'[t] = "check" /\ crossed \subseteq crossed'
          /\ \A b \in Actor : b # t => pc'[b] = pc[b]
      BY <1>1, <1>2 DEF BeginStart
    <2>3. StopHolds' /\ StartsDead'
      BY <1>1, <2>2 DEF RaceInv, StopHolds, StartsDead, StopPC, IsServiceAlive,
                        Alive
    <2>4. DownQuiet'
      BY <1>1, <1>2, <2>2 DEF RaceInv, DownQuiet
    <2> QED BY <2>1, <2>3, <2>4 DEF RaceInv
  <1>3. CASE \E l \in {"ending", "idle"} : Goto(t, l)
    BY <1>1, <1>3, QuietKeepsRace DEF Goto, StartPC, StopPC
  <1> QED BY <1>2, <1>3 DEF WakeUp, RestartEnds

\* The sweep plans restarts; it starts nothing itself.
LEMMA RaceSweep ==
    ASSUME LocalInv, RaceInv, SweepStep
    PROVE  RaceInv'
  <1> USE DEF LocalInv, LocalType, actVars, procVars, history
  <1>1. ASSUME NEW s \in Service, PlanRestart(s)
        PROVE  RaceInv'
    <2>1. PICK t \in Task : /\ pc[t] = "idle" /\ Goto(t, "sleeping")
                            /\ svc' = [svc EXCEPT ![t] = s]
      BY <1>1 DEF PlanRestart
    <2>2. UNCHANGED <<runs, handle, owned, down, torn>>
      BY <1>1 DEF PlanRestart
    <2> QED BY <2>1, <2>2, QuietKeepsRace DEF Actor, Goto, StartPC, StopPC
  <1> QED BY <1>1, QuietKeepsRace
          DEF SweepStep, SweepBegin, DriveRestarts, SweepEnd, SweepCheck,
              SweepMark, PlanTrip, PlanIgnored, MarkFailed

\* Every step keeps RaceInv, however handlers, tasks and sweeps interleave.
LEMMA RaceStep ==
    ASSUME LocalInv, RaceInv, [Next]_vars
    PROVE  RaceInv'
  <1> USE DEF actVars, procVars, history
  <1>1. ASSUME NEW p \in Pid, ProcWrites(p) \/ ProcCrash(p)
        PROVE  RaceInv'
    BY <1>1, QuietKeepsRace DEF ProcWrites, ProcCrash, Dies, LocalInv, LocalType
  <1>2. CASE TimePasses \/ UNCHANGED vars
    BY <1>2, QuietKeepsRace DEF TimePasses, vars
  <1> QED BY <1>1, <1>2, RaceStart, RaceStop, RaceCalls, RaceTasks, RaceSweep
          DEF Next

\* So it holds throughout.
LEMMA RaceInvariant == Spec => []RaceInv
  <1>1. Init => RaceInv
    BY DEF Init, RaceInv, Alone, OpsStop, StopHolds, StartsDead, DownQuiet,
           StartPC, StopPC
  <1>2. LocalInv /\ RaceInv /\ [Next]_vars => RaceInv'
    BY RaceStep
  <1> QED BY <1>1, <1>2, LocalInvariant, PTL DEF Spec

\* An intended stop is sacrosanct however many restarts are pending, asleep
\* or planned and however handlers and sweeps interleave, unless a start of
\* the same service was past its wake-up check while it ran.
THEOREM StoppedTheorem == Spec => []StoppedUnlessCrossed
  <1>1. LocalInv /\ RaceInv /\ NoLeakedProcess => StoppedUnlessCrossed
    <2> SUFFICES ASSUME LocalInv, RaceInv, NoLeakedProcess,
                        NEW p \in Pid, runs[p] \in down, runs[p] \notin torn
                 PROVE  \E o \in Op : pc[o] = "waiting" /\ child[o] = p
      BY DEF StoppedUnlessCrossed, StaysDown
    <2>1. /\ handle[runs[p]] = None
          /\ \A a \in Actor : svc[a] = runs[p] => pc[a] \notin StartPC
      BY DEF RaceInv, DownQuiet
    <2>2. PICK a \in Actor : /\ child[a] = p /\ svc[a] = runs[p]
                             /\ pc[a] \in {"recording", "storing", "waiting"}
      BY <2>1, SupervisorAssumption DEF NoLeakedProcess, LocalInv, LocalType
    <2> QED BY <2>1, <2>2 DEF RaceInv, OpsStop, StartPC, StopPC
  <1> QED BY <1>1, LocalInvariant, RaceInvariant, NoLeakTheorem, PTL

\* A start or a restart displaces a running child only if another start of
\* the service was under way with it.
THEOREM NoChildDroppedTheorem == Spec => NoChildDroppedUnlessCrossed
  <1> DEFINE Keeps ==
        \A s \in Service :
            \/ Kept(s)
            \/ \E a \in crossed : svc[a] = s /\ pc[a] = "storing"
  <1>1. LocalInv /\ RaceInv /\ [Next]_vars => Keeps \/ UNCHANGED vars
    <2> SUFFICES ASSUME LocalInv, RaceInv, Next PROVE Keeps
      OBVIOUS
    <2> USE DEF LocalInv, LocalType, Kept
    <2>1. ASSUME NEW a \in Actor, SetServiceProc(a)
          PROVE  Keeps
      <3>1. a \in crossed \/ ~IsServiceAlive(svc[a])
        BY <2>1 DEF SetServiceProc, RaceInv, StartsDead
      <3>2. \A s \in Service : s # svc[a] => handle'[s] = handle[s]
        BY <2>1 DEF SetServiceProc
      <3> QED BY <2>1, <3>1, <3>2 DEF SetServiceProc
    <2>2. ASSUME NEW o \in Op, TakeServiceProc(o)
          PROVE  Keeps
      BY <2>2 DEF TakeServiceProc
    <2>3. CASE handle' = handle
      BY <2>3
    <2>4. ASSUME NEW a \in Actor, StartStep(a)
          PROVE  Keeps
      BY <2>1, <2>3, <2>4 DEF StartStep, StartCheck, Spawn, SpawnNothing,
                              RecordSpawn
    <2>5. ASSUME NEW o \in Op, StopStep(o)
          PROVE  Keeps
      BY <2>2, <2>3, <2>5 DEF StopStep, StopForget, GracefulExit, ForcedExit,
                              StopReturns
    <2>6. CASE SweepStep
      BY <2>3, <2>6 DEF SweepStep, SweepBegin, DriveRestarts, SweepEnd,
           SweepCheck, SweepMark, PlanRestart, PlanTrip, PlanIgnored, MarkFailed
    <2> QED BY <2>3, <2>4, <2>5, <2>6
            DEF Next, StartCalled, StopCalled, WakeUp, RestartEnds, ProcWrites,
                ProcCrash, TimePasses
  <1> QED BY <1>1, LocalInvariant, RaceInvariant, PTL
          DEF Spec, NoChildDroppedUnlessCrossed
=============================================================================
