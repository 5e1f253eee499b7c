----------------------------- MODULE VramBroker -----------------------------
(***************************************************************************)
(* The VRAM lease broker (rust/crates/wylde-vram-broker): the lease        *)
(* registry and its nonce index, the keep-warm model cache, the reserve    *)
(* handler, release / heartbeat / evict, the reaper and the Ollama poller. *)
(*                                                                         *)
(* The broker runs on a multi-threaded tokio runtime, one task per pipe    *)
(* connection, and every Registry method takes the registry mutex for      *)
(* itself.  try_grant therefore is a sequence of lock-sized steps, one     *)
(* action each, and the handlers, the clients' other calls and the         *)
(* background loops interleave between them.                               *)
(*                                                                         *)
(* A reserve call r grants at most one lease, so r also names the lease    *)
(* (its fresh uuid).  Synthetic leases, rebuilt by every poll and at most  *)
(* one per model, are named by their model.                                *)
(***************************************************************************)
EXTENDS Integers, FiniteSets, FiniteSetsExt

CONSTANTS
    Req,              \* reserve calls, and the ids of the leases they create
    Models,           \* (service, model) pairs, and ids of synthetic leases
    Nonces,           \* non-empty client nonces
    None,             \* absent lease, nonce, cache entry
    Requests,         \* the request bodies clients send
    PsReplies,        \* what a successful /api/ps may report
    TTL,              \* lease lifetime in clock ticks
    TotalVram, TotalDram,
    SafetyMargin, DramSafetyMargin,
    EnableSpillover,
    GracePeriod,      \* grace_period_s, 0 disables graceful eviction
    EstimateDefault,  \* name heuristic or configured default, per model
    MaxInFlight       \* bound: reserve handlers running at the same time

LeaseId == Req \cup Models

RequestType == [model: Models, bytes: Nat, priority: Int, preempt: BOOLEAN,
                nonce: Nonces \cup {None}]

LeaseType == [model: Models, bytes: Nat, dram: Nat, priority: Int,
              synthetic: BOOLEAN, estimated: BOOLEAN,
              nonce: Nonces \cup {None}, left: Int]

\* An entry of a Vec<Lease> that try_grant copied out of the registry.
TargetType == [id: LeaseId, bytes: Nat, priority: Int]

ASSUME IdAssumption ==
    /\ Req \cap Models = {}
    /\ None \notin LeaseId \cup Nonces \cup LeaseType \cup Nat

ASSUME RequestAssumption == Requests \subseteq RequestType

\* /api/ps lists finitely many loaded models, and reports of each the VRAM
\* part and the rest of its size.
ASSUME PsAssumption ==
    /\ PsReplies \subseteq [Models -> [bytes: Nat, dram: Nat]]
    /\ \A ps \in PsReplies :
          IsFiniteSet({m \in Models : ps[m].bytes + ps[m].dram # 0})

ASSUME ConfigAssumption ==
    /\ TTL \in Nat /\ GracePeriod \in Nat /\ MaxInFlight \in Nat
    /\ TotalVram \in Nat /\ TotalDram \in Nat
    /\ SafetyMargin \in Nat /\ DramSafetyMargin \in Nat
    /\ EnableSpillover \in BOOLEAN
    /\ EstimateDefault \in [Models -> Nat]

VARIABLES
    leases,    \* RegistryInner.leases: lease id -> lease, or None
    byNonce,   \* RegistryInner.by_nonce: nonce -> lease id, or None
    cache,     \* ModelCache.entries that are warm: model -> bytes, or None
    pc,        \* where each reserve handler is
    request,   \* the body of each reserve call
    nbytes,    \* try_grant's nbytes
    split,     \* the (vram, dram) split about to be granted
    targets,   \* try_grant's blockers, then its to_evict
    reply,     \* what the call answered: an error code or a lease
    gone,      \* callers that crashed, gave up waiting, or let go
    crowded,   \* history: calls whose headroom reading another grant made
               \* stale before they used it
    doubled    \* history: nonces granted while another call of the same
               \* nonce was past its look-up

registry == <<leases, byNonce>>
locals == <<request, nbytes, split, targets>>
history == <<crowded, doubled>>
vars == <<leases, byNonce, cache, pc, request, nbytes, split, targets,
          reply, gone, history>>

-----------------------------------------------------------------------------
(* The registry                                                            *)

Live == {l \in LeaseId : leases[l] # None}
RealLeases == {l \in Live : ~leases[l].synthetic}

\* Mutant of SatSub: wraps below zero instead of saturating.
SatSub_Wraps(a, b) == a - b

\* u64::saturating_sub: the difference when it is representable, else 0.
SatSub(a, b) == IF a - b \in 0..a THEN a - b ELSE 0

VramOf(S) == SumFunction([l \in S |-> leases[l].bytes])
DramOf(S) == SumFunction([l \in S |-> leases[l].dram])

Reserved == VramOf(Live)
ReservedDram == DramOf(Live)

\* Mutant of FreeForGrant: the safety margin is forgotten.
FreeForGrant_NoMargin == SatSub(TotalVram, Reserved)

FreeForGrant == SatSub(SatSub(TotalVram, Reserved), SafetyMargin)
FreeForGrantDram == SatSub(SatSub(TotalDram, ReservedDram), DramSafetyMargin)

\* Mutant of RemoveAll: the nonce index is not cleaned.
RemoveAll_KeepsIndex(S) ==
    /\ leases' = [l \in LeaseId |-> IF l \in S THEN None ELSE leases[l]]
    /\ UNCHANGED byNonce

\* The registry without the leases of S; as in the code, a removed lease
\* takes the index entry of its nonce with it, whatever lease that names.
RemoveAll(S) ==
    /\ leases' = [l \in LeaseId |-> IF l \in S THEN None ELSE leases[l]]
    /\ byNonce' = [n \in Nonces |->
                     IF \E l \in S \cap Live : leases[l].nonce = n
                     THEN None ELSE byNonce[n]]

\* Mutant of FindByNonce: searches the leases and accepts the empty nonce.
FindByNonce_Empty(n) ==
    IF \E l \in RealLeases : leases[l].nonce = n
    THEN CHOOSE l \in RealLeases : leases[l].nonce = n ELSE None

FindByNonce(n) ==
    IF n = None \/ byNonce[n] = None \/ leases[byNonce[n]] = None
    THEN None ELSE byNonce[n]

Add(l, lease) ==
    /\ leases' = [leases EXCEPT ![l] = lease]
    /\ byNonce' = [n \in Nonces |-> IF n = lease.nonce THEN l ELSE byNonce[n]]

-----------------------------------------------------------------------------
(* The reserve handler                                                     *)

Goto(r, label) == pc' = [pc EXCEPT ![r] = label]

Answer(r, code, lease) ==
    /\ Goto(r, "done")
    /\ reply' = [reply EXCEPT ![r] = [code |-> code, lease |-> lease]]

InFlight == {r \in Req : pc[r] \notin {"idle", "done"}}

\* A vram.reserve frame is decoded and handed to its own task.
Arrive(r) ==
    /\ pc[r] = "idle"
    /\ Cardinality(InFlight) < MaxInFlight
    /\ Goto(r, "estimate")
    /\ UNCHANGED <<registry, cache, locals, reply, gone, history>>

\* estimate_for: the warm cache, a synthetic lease of the model, then the
\* name heuristic or the default.
EstimateFor(m) ==
    IF cache[m] # None THEN cache[m]
    ELSE IF leases[m] # None THEN leases[m].bytes
    ELSE EstimateDefault[m]

TotalCapacity == SatSub(TotalVram, SafetyMargin)
                 + (IF EnableSpillover THEN SatSub(TotalDram, DramSafetyMargin)
                                       ELSE 0)

\* A missing byte count is estimated; then the request must fit the machine.
Estimate(r) ==
    LET want == IF request[r].bytes > 0 THEN request[r].bytes
                                        ELSE EstimateFor(request[r].model)
    IN  /\ pc[r] = "estimate"
        /\ nbytes' = [nbytes EXCEPT ![r] = want]
        /\ \/ /\ want = 0
              /\ Answer(r, "invalid_request", None)
           \/ /\ want > 0
              /\ TotalVram # 0 /\ want > TotalCapacity
              /\ Answer(r, "would_exceed_total", None)
           \/ /\ want > 0
              /\ TotalVram = 0 \/ want <= TotalCapacity
              /\ Goto(r, "dedup")
              /\ UNCHANGED reply
        /\ UNCHANGED <<registry, cache, request, split, targets, gone,
                       history>>

\* Mutant of Dedup: retries are not recognised.
Dedup_Skipped(r) ==
    /\ pc[r] = "dedup"
    /\ Goto(r, "fits")
    /\ UNCHANGED <<registry, cache, locals, reply, gone, history>>

\* A call whose nonce is already indexed gets that lease back.
Dedup(r) ==
    LET l == FindByNonce(request[r].nonce)
    IN  /\ pc[r] = "dedup"
        /\ \/ l # None /\ Answer(r, "ok", l)
           \/ l = None /\ Goto(r, "fits") /\ UNCHANGED reply
        /\ UNCHANGED <<registry, cache, locals, gone, history>>

\* The decision to grant (v, d) is made; the lease is added by Grant.
Decide(r, v, d) ==
    /\ Goto(r, "grant")
    /\ split' = [split EXCEPT ![r] = [vram |-> v, dram |-> d]]

\* Mutant of CheckFits: compares with the card, not with what is left of it.
CheckFits_Total(r) ==
    /\ pc[r] = "fits"
    /\ nbytes[r] <= SatSub(TotalVram, SafetyMargin)
    /\ Decide(r, nbytes[r], 0)
    /\ UNCHANGED <<registry, cache, request, nbytes, targets, reply, gone,
                   history>>

\* Fast path: read the headroom, in a lock scope of its own.
CheckFits(r) ==
    /\ pc[r] = "fits"
    /\ \/ /\ nbytes[r] <= FreeForGrant
          /\ Decide(r, nbytes[r], 0)
       \/ /\ nbytes[r] > FreeForGrant
          /\ Goto(r, IF EnableSpillover THEN "spill_vram" ELSE "blockers")
          /\ UNCHANGED split
    /\ UNCHANGED <<registry, cache, request, nbytes, targets, reply, gone,
                   history>>

\* Spillover reads the VRAM headroom again ...
SpillVram(r) ==
    /\ pc[r] = "spill_vram"
    /\ split' = [split EXCEPT ![r] = [vram |-> FreeForGrant, dram |-> 0]]
    /\ Goto(r, "spill_dram")
    /\ UNCHANGED <<registry, cache, request, nbytes, targets, reply, gone,
                   history>>

\* ... and then the DRAM headroom, and places the remainder there.
SpillDram(r) ==
    LET wantDram == SatSub(nbytes[r], split[r].vram)
    IN  /\ pc[r] = "spill_dram"
        /\ \/ /\ wantDram <= FreeForGrantDram
              /\ Decide(r, split[r].vram, wantDram)
           \/ /\ wantDram > FreeForGrantDram
              /\ Goto(r, "blockers")
              /\ UNCHANGED split
        /\ UNCHANGED <<registry, cache, request, nbytes, targets, reply, gone,
                       history>>

\* The handler has read the nonce index, or the headroom it will act on.
PastLookup(r) == pc[r] \notin {"idle", "estimate", "dedup", "done"}
HeadroomRead(r) == pc[r] \in {"spill_dram", "grant"}

\* grant_split: a fresh lease enters the registry, and the cache remembers
\* the VRAM part only.
Grant(r) ==
    LET q == request[r]
    IN  /\ pc[r] = "grant"
        /\ Add(r, [model |-> q.model, bytes |-> split[r].vram,
                   dram |-> split[r].dram, priority |-> q.priority,
                   synthetic |-> FALSE, estimated |-> (q.bytes = 0),
                   nonce |-> q.nonce, left |-> TTL])
        /\ cache' = [cache EXCEPT ![q.model] = split[r].vram]
        /\ Answer(r, "ok", r)
        /\ crowded' = crowded \cup {k \in Req \ {r} : HeadroomRead(k)}
        /\ doubled' = doubled \cup
                        {n \in {q.nonce} \ {None} :
                           \E k \in Req \ {r} :
                              PastLookup(k) /\ request[k].nonce = n}
        /\ UNCHANGED <<locals, gone>>

\* Mutant of Blockers: equal priority can be preempted too.
Blockers_Equal(r) ==
    {[id |-> l, bytes |-> leases[l].bytes, priority |-> leases[l].priority] :
        l \in {k \in RealLeases : leases[k].priority <= request[r].priority}}

\* The real leases of strictly lower priority, copied out of the registry.
Blockers(r) ==
    {[id |-> l, bytes |-> leases[l].bytes, priority |-> leases[l].priority] :
        l \in {k \in RealLeases : leases[k].priority < request[r].priority}}

ListBlockers(r) ==
    /\ pc[r] = "blockers"
    /\ targets' = [targets EXCEPT ![r] = Blockers(r)]
    /\ Goto(r, "victims")
    /\ UNCHANGED <<registry, cache, request, nbytes, split, reply, gone,
                   history>>

Freeable(T) == MapThenSumSet(LAMBDA t : t.bytes, T)

\* The prefixes of T in ascending priority (ties in any order: HashMap
\* iteration) that first reach need bytes on top of the free ones.
ToEvict(T, free, need) ==
    {V \in SUBSET T :
        /\ free + Freeable(V) >= need
        /\ \A v \in V, t \in T \ V : v.priority <= t.priority
        /\ V # {} => \E last \in V :
                        /\ \A v \in V : v.priority <= last.priority
                        /\ free + Freeable(V \ {last}) < need}

\* Refuse when evicting cannot help or was not asked for, else choose whom
\* to ask.  The signals change nothing in the broker: owners may release.
PickVictims(r) ==
    /\ pc[r] = "victims"
    /\ \/ /\ \/ Freeable(targets[r]) + FreeForGrant < nbytes[r]
             \/ ~request[r].preempt
          /\ Answer(r, "insufficient_vram", None)
          /\ targets' = [targets EXCEPT ![r] = {}]
       \/ /\ Freeable(targets[r]) + FreeForGrant >= nbytes[r]
          /\ request[r].preempt
          /\ \E V \in ToEvict(targets[r], FreeForGrant, nbytes[r]) :
                targets' = [targets EXCEPT ![r] = V]
          /\ Goto(r, IF GracePeriod > 0 THEN "grace" ELSE "drain")
          /\ UNCHANGED reply
    /\ UNCHANGED <<registry, cache, request, nbytes, split, gone, history>>

\* One iteration of either wait loop that finds room.
WaitFits(r) ==
    /\ pc[r] \in {"grace", "drain"}
    /\ nbytes[r] <= FreeForGrant
    /\ Decide(r, nbytes[r], 0)
    /\ crowded' = crowded \ {r}
    /\ UNCHANGED <<registry, cache, request, nbytes, targets, reply, gone,
                   doubled>>

\* Mutant of GraceOver: the deadline is recomputed by every iteration.
GraceOver_Restarts(r) ==
    /\ pc[r] = "grace"
    /\ UNCHANGED vars

\* The grace deadline passes: hard evict signals, then the second wait.
GraceOver(r) ==
    /\ pc[r] = "grace"
    /\ Goto(r, "drain")
    /\ UNCHANGED <<registry, cache, locals, reply, gone, history>>

\* The hard deadline passes without room.
DrainOver(r) ==
    /\ pc[r] = "drain"
    /\ Answer(r, "insufficient_vram", None)
    /\ UNCHANGED <<registry, cache, locals, gone, history>>

-----------------------------------------------------------------------------
(* The other calls, and the callers                                        *)

Holds(r) == pc[r] = "done" /\ reply[r].lease # None /\ r \notin gone

\* handle_release, called once by whoever holds the lease.
Release(r) ==
    /\ Holds(r)
    /\ RemoveAll({reply[r].lease})
    /\ gone' = gone \cup {r}
    /\ UNCHANGED <<cache, pc, locals, reply, history>>

\* Mutant of Heartbeat: a heartbeat re-inserts a lease that is gone.
Heartbeat_Upserts(r) ==
    LET l == reply[r].lease IN
    /\ Holds(r)
    /\ leases' = [leases EXCEPT ![l] =
                    [model |-> request[l].model, bytes |-> split[l].vram,
                     dram |-> split[l].dram, priority |-> request[l].priority,
                     synthetic |-> FALSE, estimated |-> FALSE,
                     nonce |-> request[l].nonce, left |-> TTL]]
    /\ UNCHANGED <<byNonce, cache, pc, locals, reply, gone, history>>

\* handle_heartbeat: touch extends any lease still present, expired or not.
Heartbeat(r) ==
    /\ Holds(r)
    /\ leases[reply[r].lease] # None
    /\ leases' = [leases EXCEPT ![reply[r].lease].left = TTL]
    /\ UNCHANGED <<byNonce, cache, pc, locals, reply, gone, history>>

\* handle_evict drops any lease and tells nobody.
Evict(l) ==
    /\ leases[l] # None
    /\ RemoveAll({l})
    /\ UNCHANGED <<cache, pc, locals, reply, gone, history>>

\* The caller dies, or stops waiting for the answer (pipe_timeout); the
\* handler, if it runs, runs on.
CallerGone(r) ==
    /\ pc[r] # "idle"
    /\ gone' = gone \cup {r}
    /\ UNCHANGED <<registry, cache, pc, locals, reply, history>>

-----------------------------------------------------------------------------
(* Time and the background loops                                           *)

\* One clock tick of every real lease; -1 means past expires_at.
Tick ==
    /\ \E l \in RealLeases : leases[l].left >= 0
    /\ leases' = [l \in LeaseId |->
                    IF l \in RealLeases /\ leases[l].left >= 0
                    THEN [leases[l] EXCEPT !.left = @ - 1] ELSE leases[l]]
    /\ UNCHANGED <<byNonce, cache, pc, locals, reply, gone, history>>

\* Mutant of Expired: one tick too late, which never comes.
Expired_OffByOne == {l \in RealLeases : leases[l].left < -1}

Expired == {l \in RealLeases : leases[l].left < 0}

\* reap_expired, under one lock.
Reap ==
    /\ Expired # {}
    /\ RemoveAll(Expired)
    /\ UNCHANGED <<cache, pc, locals, reply, gone, history>>

\* A cache entry outlives model_cache_ttl_s: no reader sees it any more, and
\* prune drops it.
CacheExpires(m) ==
    /\ cache[m] # None
    /\ cache' = [cache EXCEPT ![m] = None]
    /\ UNCHANGED <<registry, pc, locals, reply, gone, history>>

SyntheticLease(m, size) ==
    [model |-> m, bytes |-> size.bytes, dram |-> size.dram, priority |-> 100,
     synthetic |-> TRUE, estimated |-> FALSE, nonce |-> None, left |-> 0]

\* replace_synthetic with what a poll returned: all synthetic leases go, and
\* the models with a non-zero size come back.
ReplaceSynthetic(ps) ==
    leases' = [l \in LeaseId |->
                 IF l \in Req THEN leases[l]
                 ELSE IF ps[l].bytes + ps[l].dram = 0 THEN None
                 ELSE SyntheticLease(l, ps[l])]

NothingLoaded == [m \in Models |-> [bytes |-> 0, dram |-> 0]]

\* ollama_loop: any failure of the poll reads as "nothing is loaded".
OllamaPoll ==
    /\ \E ps \in PsReplies \cup {NothingLoaded} : ReplaceSynthetic(ps)
    /\ UNCHANGED <<byNonce, cache, pc, locals, reply, gone, history>>

-----------------------------------------------------------------------------
Init ==
    /\ leases = [l \in LeaseId |-> None]
    /\ byNonce = [n \in Nonces |-> None]
    /\ cache = [m \in Models |-> None]
    /\ pc = [r \in Req |-> "idle"]
    /\ request \in [Req -> Requests]
    /\ nbytes = [r \in Req |-> 0]
    /\ split = [r \in Req |-> [vram |-> 0, dram |-> 0]]
    /\ targets = [r \in Req |-> {}]
    /\ reply = [r \in Req |-> [code |-> "none", lease |-> None]]
    /\ gone = {}
    /\ crowded = {} /\ doubled = {}

\* One step of the task that serves r.
Handler(r) ==
    \/ Estimate(r) \/ Dedup(r) \/ CheckFits(r)
    \/ SpillVram(r) \/ SpillDram(r) \/ Grant(r)
    \/ ListBlockers(r) \/ PickVictims(r)
    \/ WaitFits(r) \/ GraceOver(r) \/ DrainOver(r)

Next ==
    \/ \E r \in Req : \/ Arrive(r) \/ Handler(r)
                      \/ Release(r) \/ Heartbeat(r) \/ CallerGone(r)
    \/ \E l \in LeaseId : Evict(l)
    \/ \E m \in Models : CacheExpires(m)
    \/ Tick \/ Reap \/ OllamaPoll

Spec == Init /\ [][Next]_vars

\* tokio polls every ready task and fires every timer, and the reaper loop
\* runs for as long as the broker does.
Fairness == /\ \A r \in Req : WF_vars(Handler(r))
            /\ WF_vars(Tick) /\ WF_vars(Reap)

FairSpec == Spec /\ Fairness

-----------------------------------------------------------------------------
(* Properties                                                              *)

PCs == {"idle", "estimate", "dedup", "fits", "spill_vram", "spill_dram",
        "grant", "blockers", "victims", "grace", "drain", "done"}

Codes == {"none", "ok", "invalid_request", "would_exceed_total",
          "insufficient_vram"}

\* The state has the shape of the code's types.
TypeOK ==
    /\ leases \in [LeaseId -> LeaseType \cup {None}]
    /\ byNonce \in [Nonces -> LeaseId \cup {None}]
    /\ cache \in [Models -> Nat \cup {None}]
    /\ pc \in [Req -> PCs]
    /\ request \in [Req -> RequestType]
    /\ nbytes \in [Req -> Nat]
    /\ split \in [Req -> [vram: Nat, dram: Nat]]
    /\ targets \in [Req -> SUBSET TargetType]
    /\ reply \in [Req -> [code: Codes, lease: LeaseId \cup {None}]]
    /\ gone \in SUBSET Req
    /\ crowded \in SUBSET Req /\ doubled \in SUBSET Nonces

\* The nonce index never dangles: an entry names a lease that is in the
\* registry, is real and carries that nonce, although remove and reap_expired
\* drop entries without looking at what they name and two leases may have
\* been added under one nonce.
NonceIndexSound ==
    \A n \in Nonces : byNonce[n] # None =>
        /\ byNonce[n] \in Req
        /\ leases[byNonce[n]] # None
        /\ leases[byNonce[n]].nonce = n
        /\ ~leases[byNonce[n]].synthetic

\* Whoever try_grant decides to signal is, for as long as the wait lasts, a
\* real lease of strictly lower priority than the request: the copied list
\* may be stale, but an id in it never comes to mean another lease.
VictimsBelowRequester ==
    \A r \in Req : pc[r] \in {"victims", "grace", "drain"} =>
        \A t \in targets[r] :
            /\ t.id \in Req
            /\ t.priority < request[r].priority
            /\ leases[t.id] # None =>
                 /\ leases[t.id].priority = t.priority
                 /\ leases[t.id].bytes = t.bytes

\* A successful reserve answers with the caller's own lease or, for a retry,
\* with a lease that was granted for the same nonce.
ReplyIsCallersLease ==
    \A r \in Req : reply[r].lease # None =>
        /\ reply[r].lease \in Req
        /\ \/ reply[r].lease = r
           \/ /\ request[r].nonce # None
              /\ request[reply[r].lease].nonce = request[r].nonce

\* However reserves race, no single lease is larger than what the machine
\* can hand out with both safety margins kept back.
LeaseFitsMachine ==
    \A l \in RealLeases :
        /\ leases[l].bytes <= SatSub(TotalVram, SafetyMargin)
        /\ leases[l].dram <= SatSub(TotalDram, DramSafetyMargin)

GrantedVram == VramOf(RealLeases)
GrantedDram == DramOf(RealLeases)

\* "Safety margin - never hand out the last N bytes" (config.rs): what the
\* broker has handed out leaves both margins free.  try_grant reads the
\* headroom and adds the lease under two locks, so this does not hold.
MarginHeld ==
    /\ GrantedVram <= SatSub(TotalVram, SafetyMargin)
    /\ GrantedDram <= SatSub(TotalDram, DramSafetyMargin)

\* Only a grant that slipped in between another call's headroom reading and
\* its grant can eat into a margin: the leases of all other calls together
\* leave both margins free, through spills, preemption, retries and polls.
MarginUnlessCrowded ==
    /\ VramOf(RealLeases \ crowded) <= SatSub(TotalVram, SafetyMargin)
    /\ DramOf(RealLeases \ crowded) <= SatSub(TotalDram, DramSafetyMargin)

\* One nonce, one lease: retries collapse into the lease already granted.
\* try_grant looks the nonce up and indexes it under two locks, so a retry
\* that overlaps its first attempt breaks this.
OneLeasePerNonce ==
    \A k, l \in RealLeases :
        leases[k].nonce = leases[l].nonce /\ leases[k].nonce # None => k = l

\* A nonce has two leases only when two of its calls overlapped: a retry that
\* looks the nonce up after the first grant finds that lease, or the lease is
\* gone, whatever was released, evicted or reaped in between.
OneLeaseUnlessDoubled ==
    \A k, l \in RealLeases :
        leases[k].nonce = leases[l].nonce /\ leases[k].nonce # None =>
            k = l \/ leases[k].nonce \in doubled

\* The two parts of a lease add up to the bytes the call asked for (or the
\* broker estimated for it).
GrantMatchesRequest ==
    \A l \in Req : leases[l] # None =>
        leases[l].bytes + leases[l].dram = nbytes[l]

\* A call that leaves the byte count out is estimated, never refused as
\* invalid (every default estimate being positive).
EstimateNeverRefuses ==
    \A r \in Req : reply[r].code # "invalid_request"

\* Once a poll reports a model, its footprint is counted once: an estimated
\* lease of the model has been swapped for the synthetic one.
EstimatedLeaseSwapped ==
    \A m \in Models : leases[m] # None =>
        \A l \in RealLeases : leases[l].model = m => ~leases[l].estimated

\* Every reserve that reaches the broker is answered, however long its
\* victims hold out.
EveryReserveAnswered ==
    \A r \in Req : pc[r] = "estimate" ~> pc[r] = "done"

Abandoned(l) ==
    /\ leases[l] # None
    /\ \A r \in Req : reply[r].lease = l => r \in gone

\* A lease whose callers crashed, or gave up before the grant, does not stay
\* in the registry: its TTL runs out and the reaper takes it.
AbandonedReclaimed ==
    \A l \in Req : []<>~Abandoned(l)

\* What the broker promises its callers, without the handlers' inner steps.
Ledger == INSTANCE LeaseLedger WITH
    Call <- Req,
    open <- InFlight,
    live <- Live \cap Req,
    answer <- [r \in Req |-> reply[r].lease],
    answered <- {r \in Req : pc[r] = "done"}

LedgerSpec == Ledger!Spec
=============================================================================
