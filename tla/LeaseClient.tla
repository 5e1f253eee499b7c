---------------------------- MODULE LeaseClient ----------------------------
(***************************************************************************)
(* The broker's clients (wylde-ollama lease.rs and actions/admission.rs,   *)
(* wylde-voice lease.rs): admission of a generate call, the RAII lease     *)
(* guard, its heartbeat task and the best-effort release, against a broker *)
(* reduced to what VramBroker and LeaseLedger establish: a lease per call  *)
(* with a TTL, an idempotent release, a heartbeat that extends what is     *)
(* there, a reaper, and a registry that a broker restart empties.          *)
(*                                                                         *)
(* The heartbeat task is stopped through tokio's Notify::notify_waiters,   *)
(* which stores no permit: only a task that is waiting in its select! when *)
(* the guard lets go sees it.  A task that was spawned but not yet polled, *)
(* or is inside its heartbeat call, does not.                              *)
(***************************************************************************)
EXTENDS Integers

CONSTANTS
    Call,            \* generate calls, each with at most one lease
    Fim,             \* the calls with fim: true
    TTL,             \* lease lifetime in clock ticks
    None,            \* no lease
    ReleaseMayFail,  \* whether a vram.release may not reach the broker
    ModelMayUnload   \* whether Ollama may unload the model meanwhile

ASSUME CallAssumption == Fim \subseteq Call /\ None \notin Call
ASSUME TTLAssumption == TTL \in Nat /\ None \notin -1..TTL
ASSUME EnvAssumption ==
    ReleaseMayFail \in BOOLEAN /\ ModelMayUnload \in BOOLEAN

VARIABLES
    phase,      \* where each call is, as its handler sees it
    needsLoad,  \* admit's needs_load
    reserve,    \* the vram.reserve exchange, as the broker sees it
    lease,      \* broker registry: ticks left, -1 past expiry, or None
    task,       \* the heartbeat task
    beat,       \* a vram.heartbeat is under way to the broker
    release,    \* a vram.release is under way to the broker
    loaded,     \* the model is resident in Ollama (external)
    outdated    \* history: calls that read the model as resident and had it
                \* unloaded under them before their lease was decided

ollama == <<loaded, outdated>>
vars == <<phase, needsLoad, reserve, lease, task, beat, release, ollama>>
broker == <<reserve, lease>>
guard == <<task, beat, release>>

Init ==
    /\ phase = [c \in Call |-> "idle"]
    /\ needsLoad = [c \in Call |-> FALSE]
    /\ reserve = [c \in Call |-> "none"]
    /\ lease = [c \in Call |-> None]
    /\ task = [c \in Call |-> "none"]
    /\ beat = [c \in Call |-> FALSE]
    /\ release = [c \in Call |-> FALSE]
    /\ loaded = FALSE /\ outdated = {}

-----------------------------------------------------------------------------
(* Admission                                                               *)

\* The estimate finds that the model is not pulled.
NotPulled(c) ==
    /\ phase[c] \in {"idle", "admitting"}
    /\ phase' = [phase EXCEPT ![c] = "refused"]
    /\ UNCHANGED <<needsLoad, broker, guard, ollama>>

\* Mutant of LookUpResidency: an unknown residency counts as loaded.
LookUpResidency_UnknownLoaded(c) ==
    /\ phase[c] = "idle"
    /\ phase' = [phase EXCEPT ![c] = "admitting"]
    /\ \E known \in BOOLEAN :
         needsLoad' = [needsLoad EXCEPT ![c] = c \in Fim /\ known /\ ~loaded]
    /\ UNCHANGED <<broker, guard, ollama>>

\* For a FIM call /api/ps is asked, here or by the handler before admit; an
\* unknown residency counts as not loaded.
LookUpResidency(c) ==
    /\ phase[c] = "idle"
    /\ phase' = [phase EXCEPT ![c] = "admitting"]
    /\ \E known \in BOOLEAN :
         needsLoad' = [needsLoad EXCEPT ![c] = c \in Fim /\ ~(known /\ loaded)]
    /\ UNCHANGED <<broker, guard, ollama>>

\* acquire sends the reserve.
Acquire(c) ==
    /\ phase[c] = "admitting"
    /\ phase' = [phase EXCEPT ![c] = "reserving"]
    /\ reserve' = [reserve EXCEPT ![c] = "sent"]
    /\ UNCHANGED <<needsLoad, lease, guard, ollama>>

\* The guard lets go of the lease: notify_waiters, then the release call.
LetGo(c) ==
    /\ task' = [task EXCEPT ![c] = IF @ = "parked" THEN "stopped" ELSE @]
    /\ release' = [release EXCEPT ![c] = TRUE]

\* The grant arrives: acquire spawns the heartbeat task and builds the guard,
\* which a FIM call that would have to load a spilled model turns down.
ReplyGranted(c) ==
    /\ phase[c] = "reserving"
    /\ reserve[c] \in {"granted", "spilled"}
    /\ phase' = [phase EXCEPT ![c] =
                   IF needsLoad[c] /\ reserve[c] = "spilled"
                   THEN "rejecting" ELSE "held"]
    /\ task' = [task EXCEPT ![c] = "spawned"]
    /\ UNCHANGED <<needsLoad, broker, beat, release, ollama>>

\* drop(hold), then the insufficient_vram error.
RejectSpilled(c) ==
    /\ phase[c] = "rejecting"
    /\ phase' = [phase EXCEPT ![c] = "refused"]
    /\ LetGo(c)
    /\ UNCHANGED <<needsLoad, broker, beat, ollama>>

ReplyRefused(c) ==
    /\ phase[c] = "reserving"
    /\ reserve[c] = "refused"
    /\ phase' = [phase EXCEPT ![c] = "refused"]
    /\ UNCHANGED <<needsLoad, broker, guard, ollama>>

\* A transport failure reads as broker_unreachable: a FIM call that needs a
\* load is refused, any other proceeds without a lease.
Unreachable(c) ==
    /\ phase[c] = "reserving"
    /\ phase' = [phase EXCEPT ![c] = IF needsLoad[c] THEN "refused"
                                                     ELSE "unleased"]
    /\ UNCHANGED <<needsLoad, broker, guard, ollama>>

\* Any other failure, a reply without a lease id included, is the call's error.
OtherError(c) ==
    /\ phase[c] = "reserving"
    /\ phase' = [phase EXCEPT ![c] = "refused"]
    /\ UNCHANGED <<needsLoad, broker, guard, ollama>>

\* Mutant of DropGuard: stops the task but forgets the release.
DropGuard_NoRelease(c) ==
    /\ phase[c] = "held"
    /\ phase' = [phase EXCEPT ![c] = "over"]
    /\ task' = [task EXCEPT ![c] = IF @ = "parked" THEN "stopped" ELSE @]
    /\ UNCHANGED <<needsLoad, broker, beat, release, ollama>>

\* Lease::release, or its Drop on any exit path.
DropGuard(c) ==
    /\ phase[c] = "held"
    /\ phase' = [phase EXCEPT ![c] = "over"]
    /\ LetGo(c)
    /\ UNCHANGED <<needsLoad, broker, beat, ollama>>

FinishUnleased(c) ==
    /\ phase[c] = "unleased"
    /\ phase' = [phase EXCEPT ![c] = "over"]
    /\ UNCHANGED <<needsLoad, broker, guard, ollama>>

-----------------------------------------------------------------------------
(* The heartbeat task                                                      *)

\* First poll of the task: the immediate first tick, then the select!.
TaskStarts(c) ==
    /\ task[c] = "spawned"
    /\ task' = [task EXCEPT ![c] = "parked"]
    /\ UNCHANGED <<phase, needsLoad, broker, beat, release, ollama>>

\* The ticker wins the select!: the call goes out.
HeartbeatSent(c) ==
    /\ task[c] = "parked"
    /\ task' = [task EXCEPT ![c] = "calling"]
    /\ beat' = [beat EXCEPT ![c] = TRUE]
    /\ UNCHANGED <<phase, needsLoad, broker, release, ollama>>

\* The call is over, answered or timed out; an error is only logged.
HeartbeatReturns(c) ==
    /\ task[c] = "calling"
    /\ task' = [task EXCEPT ![c] = "parked"]
    /\ UNCHANGED <<phase, needsLoad, broker, beat, release, ollama>>

\* The service process dies; what it sent may still arrive.
ServiceCrash ==
    /\ \E c \in Call : phase[c] \in {"admitting", "reserving", "held",
                                   "rejecting", "unleased"}
    /\ phase' = [c \in Call |-> IF phase[c] = "idle" THEN "idle" ELSE "over"]
    /\ task' = [c \in Call |-> IF task[c] = "none" THEN "none" ELSE "stopped"]
    /\ UNCHANGED <<needsLoad, broker, beat, release, ollama>>

-----------------------------------------------------------------------------
(* The broker                                                              *)

\* The broker decides a reserve, possibly after the client gave up on it.
BrokerGrant(c) ==
    /\ reserve[c] = "sent"
    /\ \E r \in {"granted", "spilled"} : reserve' = [reserve EXCEPT ![c] = r]
    /\ lease' = [lease EXCEPT ![c] = TTL]
    /\ UNCHANGED <<phase, needsLoad, guard, ollama>>

BrokerRefuse(c) ==
    /\ reserve[c] = "sent"
    /\ reserve' = [reserve EXCEPT ![c] = "refused"]
    /\ UNCHANGED <<phase, needsLoad, lease, guard, ollama>>

\* Mutant of BrokerHeartbeat: a heartbeat re-creates a lease that is gone.
BrokerHeartbeat_Upserts(c) ==
    /\ beat[c]
    /\ beat' = [beat EXCEPT ![c] = FALSE]
    /\ lease' = [lease EXCEPT ![c] = TTL]
    /\ UNCHANGED <<phase, needsLoad, reserve, task, release, ollama>>

\* Mutant of BrokerHeartbeat: the TTL is added to what is left, not to now.
BrokerHeartbeat_Adds(c) ==
    /\ beat[c]
    /\ beat' = [beat EXCEPT ![c] = FALSE]
    /\ lease' = [lease EXCEPT ![c] = IF @ = None THEN None ELSE @ + TTL]
    /\ UNCHANGED <<phase, needsLoad, reserve, task, release, ollama>>

\* A heartbeat arrives: it extends the lease, or finds none.
BrokerHeartbeat(c) ==
    /\ beat[c]
    /\ beat' = [beat EXCEPT ![c] = FALSE]
    /\ lease' = [lease EXCEPT ![c] = IF @ = None THEN None ELSE TTL]
    /\ UNCHANGED <<phase, needsLoad, reserve, task, release, ollama>>

BrokerRelease(c) ==
    /\ release[c]
    /\ release' = [release EXCEPT ![c] = FALSE]
    /\ lease' = [lease EXCEPT ![c] = None]
    /\ UNCHANGED <<phase, needsLoad, reserve, task, beat, ollama>>

\* release_inner ignores the result of its call.
ReleaseFails(c) ==
    /\ ReleaseMayFail
    /\ release[c]
    /\ release' = [release EXCEPT ![c] = FALSE]
    /\ UNCHANGED <<phase, needsLoad, broker, task, beat, ollama>>

\* The broker's clock (external).
Tick ==
    /\ \E c \in Call : lease[c] # None /\ lease[c] >= 0
    /\ lease' = [c \in Call |-> IF lease[c] # None /\ lease[c] >= 0
                                THEN lease[c] - 1 ELSE lease[c]]
    /\ UNCHANGED <<phase, needsLoad, reserve, guard, ollama>>

Reap ==
    /\ \E c \in Call : lease[c] = -1
    /\ lease' = [c \in Call |-> IF lease[c] = -1 THEN None ELSE lease[c]]
    /\ UNCHANGED <<phase, needsLoad, reserve, guard, ollama>>

\* The broker's registry is in memory only, and its pipe connections break.
BrokerRestart ==
    /\ \E c \in Call : lease[c] # None \/ reserve[c] = "sent"
    /\ reserve' = [c \in Call |-> IF reserve[c] = "sent" THEN "lost"
                                                         ELSE reserve[c]]
    /\ lease' = [c \in Call |-> None]
    /\ beat' = [c \in Call |-> FALSE]
    /\ release' = [c \in Call |-> FALSE]
    /\ UNCHANGED <<phase, needsLoad, task, ollama>>

\* A call between its residency reading and its admission.
Deciding(c) == phase[c] \in {"admitting", "reserving"}

\* Ollama loads the model for a call it serves, or unloads it by itself.
OllamaLoads ==
    /\ ~loaded
    /\ loaded' = TRUE
    /\ UNCHANGED <<phase, needsLoad, broker, guard, outdated>>

OllamaUnloads ==
    /\ loaded /\ ModelMayUnload
    /\ loaded' = FALSE
    /\ outdated' = outdated \cup {c \in Fim : Deciding(c) /\ ~needsLoad[c]}
    /\ UNCHANGED <<phase, needsLoad, broker, guard>>

-----------------------------------------------------------------------------
Delivered(c) == BrokerHeartbeat(c) \/ BrokerRelease(c) \/ ReleaseFails(c)

Next ==
    \/ \E c \in Call :
         \/ NotPulled(c) \/ LookUpResidency(c) \/ Acquire(c)
         \/ ReplyGranted(c) \/ RejectSpilled(c)
         \/ ReplyRefused(c) \/ Unreachable(c) \/ OtherError(c)
         \/ DropGuard(c) \/ FinishUnleased(c)
         \/ TaskStarts(c) \/ HeartbeatSent(c) \/ HeartbeatReturns(c)
         \/ BrokerGrant(c) \/ BrokerRefuse(c) \/ Delivered(c)
    \/ ServiceCrash \/ Tick \/ Reap \/ BrokerRestart
    \/ OllamaLoads \/ OllamaUnloads

Spec == Init /\ [][Next]_vars

\* tokio runs every ready task, a call ends by its timeout at the latest,
\* the broker's clock and reaper run, and what was sent is delivered.
Fairness ==
    /\ \A c \in Call : /\ WF_vars(TaskStarts(c))
                       /\ WF_vars(HeartbeatSent(c))
                       /\ WF_vars(HeartbeatReturns(c))
                       /\ WF_vars(BrokerHeartbeat(c))
                       /\ WF_vars(BrokerRelease(c) \/ ReleaseFails(c))
    /\ WF_vars(Tick) /\ WF_vars(Reap)

FairSpec == Spec /\ Fairness

-----------------------------------------------------------------------------
(* Properties                                                              *)

\* The state has the shape of the code's types.
TypeOK ==
    /\ phase \in [Call -> {"idle", "admitting", "reserving", "held", "rejecting",
                           "unleased", "refused", "over"}]
    /\ needsLoad \in [Call -> BOOLEAN]
    /\ reserve \in [Call -> {"none", "sent", "lost", "granted", "spilled",
                             "refused"}]
    /\ lease \in [Call -> -1..TTL \cup {None}]
    /\ task \in [Call -> {"none", "spawned", "parked", "calling", "stopped"}]
    /\ beat \in [Call -> BOOLEAN]
    /\ release \in [Call -> BOOLEAN]
    /\ loaded \in BOOLEAN
    /\ outdated \subseteq Fim

\* A call no longer uses its lease once it is over, refused or unleased.
LetGoLease(c) == phase[c] \in {"unleased", "refused", "over"} /\ lease[c] # None

\* No lease outlives its call for ever: it is released, or its TTL runs out,
\* whether the guard was dropped, the service crashed or the client gave up
\* before the broker granted.
LetGoReclaimed == \A c \in Call : []<>~LetGoLease(c)

\* "The heartbeat task is aborted on drop too": once a call has let go of its
\* guard, its heartbeat task ends.
HeartbeatDiesWithGuard ==
    \A c \in Call : release[c] ~> task[c] = "stopped"

\* A FIM call that is admitted displaces no loaded model: its model is
\* resident, or it has a lease that fits in free VRAM.
Displaces(c) ==
    /\ phase[c] = "reserving" /\ phase'[c] \in {"held", "unleased"}
    /\ ~loaded
    /\ phase'[c] = "unleased" \/ reserve[c] # "granted"

\* "it must never make an agent's model give up VRAM".
FimNeverDisplaces == [][\A c \in Fim : ~Displaces(c)]_vars

\* What the code keeps of that: the residency is read before the reserve is
\* sent and used when its answer comes in, and that does harm only if Ollama
\* unloads the model in between; a load meanwhile, a reading that failed and
\* a broker that is gone do none.
FimUnlessUnloaded == [][\A c \in Fim \ outdated : ~Displaces(c)]_vars

\* Client and broker together keep the ledger's promises: a late heartbeat
\* or a late grant never brings back a lease that ended.
Ledger == INSTANCE LeaseLedger WITH
    open <- {c \in Call : reserve[c] \in {"sent", "lost"}},
    answered <- {c \in Call : reserve[c] \in {"granted", "spilled", "refused"}},
    answer <- [c \in Call |-> IF reserve[c] \in {"granted", "spilled"}
                              THEN c ELSE None],
    live <- {c \in Call : lease[c] # None}

LedgerSpec == Ledger!Spec
=============================================================================
