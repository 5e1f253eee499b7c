# Formal models of Wylde

TLA+ modules, TLC configurations and TLAPS proofs for the parts of Wylde that
coordinate concurrent processes. Paths below are relative to
`src/rust/crates/` unless they start with `src/`.

Contents: [inventory](#the-system) · [plan](#plan) ·
[modules and the code](#modules-and-the-code) · [runs](#runs) ·
[fairness](#fairness) · [proofs](#proofs) ·
[disagreements](#disagreements-with-the-code) ·
[not modelled](#what-is-not-modelled)

## The system

Wylde is a local-first AI system. About twenty Rust services run as separate
processes on one machine and talk over named pipes. A lifecycle daemon starts,
supervises and stops them; a VRAM broker hands out GPU memory; Ollama and the
voice service use it; the harness runs the agent; the gateway is the HTTP edge;
a desktop GUI sits on top. Every service is a multi-threaded tokio process, one
task per pipe connection, with in-memory state behind mutexes that are rarely
held across an await (the extension bridge is the exception). Most hard
behaviour comes from that: a handler is a sequence of short critical sections,
and anything may happen between two.

| Component | State | Operations | Interacts with | Hard behaviour | What makes it correct |
|---|---|---|---|---|---|
| VRAM broker `wylde-vram-broker` | lease table, nonce index, keep-warm cache | reserve, release, heartbeat, evict, reaper, Ollama poller | every GPU user, by pipe; Ollama `/api/ps` | check and add under two locks; preemption that waits; retries; crashes of holders | margins kept, one lease per retried call, index sound, every call answered, abandoned leases reclaimed |
| VRAM lease clients `wylde-ollama/src/lease.rs`, `actions/admission.rs`, `wylde-voice/src/lease.rs` | lease guard, heartbeat task | admit, acquire, heartbeat, release | broker, Ollama | lost release, missed stop signal, stale residency, broker restart | no lease outlives its call; FIM never displaces a model |
| Crash-restart policy `wylde-lifecycle/src/state/restart.rs` | per service: window, count, in-flight flag, breaker | on_crash, on_restart_done, forget | orphan sweep, stop | crash loops at the window's edge | bounded restart rate; trips only when earned; stays tripped |
| Supervision `wylde-lifecycle/src/state/` | spawn records, child handles, manifests on disk | start, stop, sweep, delayed restart | services through manifests, operator through pipe | operator against restart task, marks against a fresh process, crash during start | stopped stays down, no leaked or killed child, every crash handled |
| Lifecycle registry, boot, shutdown | static registry, settings | service.list, boot order, shutdown | supervision | order of shutdown | nothing left running |
| Pipe IPC `wylde-shared/src/ipc` | connections, action table | call with timeout, dispatch, handshake | all | late answer after a timeout | each call ends once |
| Workspaces client `wylde-workspaces-client` | per-verb breaker, read cache | call_verb: get, check, attempts with backoff, record_success/failure, put | workspaces service | concurrent probes of a half-open breaker, late failures, an older reply after a newer one | answers boundedly stale, every call returns, breaker recovers |
| Device gate `wylde-device-gate` | devices.json, pairing window, event queues | pair, verify, set_tier, rotate, revoke, consume | gateway, GUI | revoke against verify, racing pairings, unreported I/O errors, restart | a code pairs one device, a revoked record never returns, events match the store |
| Gateway `wylde-gateway` | token cache, rate limits, kill switch | verify_bearer, forward events, proxy, stream | device gate, services | verification under way while a token is revoked | a token taken back works no longer than a TTL and a call |
| Harness `wylde-harness` | consent decisions, pending prompts, turns, memory, conversations | tool dispatch, consent.*, turn loop, consolidation | Ollama, workspaces, extensions; chat panel through the consent stream | one-time grants, persist failing half-way, subscribe against record, lag, restart | a tool runs only with consent; decisions survive restarts; every prompt reaches the user |
| Workspaces `wylde-workspaces` | index, graph, notes, watcher | query, index, watch | harness, GUI | watcher racing the indexer | index converges |
| Extension bridge `wylde-extension-bridge` | catalog, MCP clients and their server processes, manifests on disk | call, ping, restart, enable, disable, list (refresh), start-up | extensions over stdio; harness, GUI; the user's editor | locks held across a handshake, a client shared by calls and dropped under them, a walk of the disk applied later, torn manifests | one server per extension, no stray process, no call loses its server, every request returns |
| Voice | pipeline state | listen, speak, barge-in | broker, Ollama | cancel against playback | state machine never stuck |
| VPN, updater, stack pointer | tunnel config; release files; current pointer | configure; download, verify, switch | external tools, file system | crash between download and switch | pointer names a verified release |
| n8n, LSP, Tree-sitter, pure libraries, extensions, GUI, tools | adapters, pure functions, presentation | | | little shared state | |

`PROJECT.json` lists the same components with their status and, under
`hazards`, the places where this code is hard to test.

## Plan

Order: the shared resource every other service depends on, then who uses it,
then who keeps them alive, then the other protocols.

1. **Done.** `VramBroker` with the abstract `LeaseLedger`; `LeaseClient`;
   `Governor`; `Supervisor`, which composes with `Governor`. Proofs for all
   four.
2. **Done.** `WorkspacesClient`: circuit breaker, retries and read cache, with
   proofs.
3. **Done.** `DeviceGate`, and `GatewayAuth`, which composes it with the
   gateway's token cache and event forwarding, with proofs.
4. **Done.** `Consent`: the harness's consent gate with its store, prompts and
   event stream, and the chat panel's cards, with proofs.
5. **Done.** `ExtensionHost`: the extension bridge's catalog, its server
   processes and the requests on them, with proofs.
6. `Supervisor` extended by boot and shutdown order (`daemon.rs`,
   `daemon_managed.rs`, `stop_all_daemon_managed`).
7. `PipeCall`: client and server end of one IPC call; the abstract call that
   `LeaseClient`, `WorkspacesClient` and `GatewayAuth` assume would then be a
   refinement instead of an assumption. The pending table of the bridge's stdio
   transport is the same protocol.
8. Memory scheduler, voice orchestrator, stack pointer: one small module each.

Theorems: every safety property that a run checks is proved. With items 6 to 8
come their own; `PipeCall` would also turn the abstract call that the proofs
about its callers assume into a lemma.

## Modules and the code

| Module | Models | Extends / instantiates |
|---|---|---|
| `VramBroker` | the broker at the grain of its registry mutex | instance of `LeaseLedger` |
| `LeaseLedger` | what the broker promises a caller | |
| `LeaseClient` | admission, lease guard, heartbeat task, release; the broker reduced to its contract | instance of `LeaseLedger` |
| `Governor` | the restart policy, pure decisions plus a clock | |
| `Supervisor` | start/stop handlers, processes, manifests, orphan sweep, restart tasks | `EXTENDS Governor`: every step is a Governor step or leaves it alone |
| `WorkspacesClient` | call_verb: cache, breaker, attempts, shared by tasks; the service reduced to a versioned datum | |
| `DeviceGate` | pairing window, devices.json, event queues | |
| `GatewayAuth` | verify_bearer, token cache, event forwarding | `EXTENDS DeviceGate`: every step is the gate's, the gateway's or a call between them |
| `Consent` | consent store, dispatch gate, prompts, event stream, the panel's cards | |
| `ExtensionHost` | the bridge's catalog, server processes, manifests, start-up and requests | |
| `MC*` | model values, request sets and symmetry of the small instances | |
| `*Proofs` | theorems | |

The definitions whose names carry a suffix after an underscore
(`Heartbeat_Upserts`) are faulty variants of the definition before the
underscore; substituting one must break the property it is listed with in
`PROJECT.json`. They are used nowhere in the specifications.

### VramBroker

State: `leases` and `byNonce` are `RegistryInner`; `cache` the warm entries of
`ModelCache`; `pc`, `request`, `nbytes`, `split`, `targets`, `reply` the local
state of each reserve handler; `gone` records callers that died or stopped
waiting. A reserve call grants at most one lease, so the call names the lease;
synthetic leases are named by their model. `crowded` and `doubled` are
histories of overlaps: the calls that another grant overtook between their
headroom reading and their grant, and the nonces granted while another call of
the same nonce was past its look-up. No step reads them; they say where the
broker's two locks cost it the margin or the one lease per nonce.

`try_grant` takes the mutex for each registry call, so it is one action per
lock scope: `Estimate` (estimate_for and the capacity test), `Dedup`
(find_by_nonce), `CheckFits`, `SpillVram`, `SpillDram`, `Grant` (add, and the
cache entry), `ListBlockers`, `PickVictims`, the two waiting loops (`WaitFits`,
`GraceOver`, `DrainOver`). `Release`, `Heartbeat`, `Evict` are the other
mutating handlers; `Tick`, `Reap`, `CacheExpires`, `OllamaPoll` time and the
background loops. `Estimate` merges two reads of the registry (estimate and
capacity): the second reads constants only. The victims are chosen with the
ties of equal priority left open, as the code iterates a HashMap. Signals to
victims change nothing in the broker; a victim that yields does so by
`Release`.

Abstractions: sizes are small numbers, GPU and DRAM totals constants (the
probe runs at start-up), one model is enough to show cache and poller effects,
time is the number of ticks a lease has left. Read-only handlers (status,
list, estimate) are left out.

### LeaseClient

One call goes through `LookUpResidency`, which may come back with nothing
known (it counts as not loaded), `Acquire`, one of the replies, and the end of
its guard. The heartbeat task is `spawned`, `parked` in its
`select!`, `calling`, or `stopped`. `LetGo` is `notify_waiters` plus the spawned
release: it stops the task only when it is parked, because `notify_waiters`
stores no permit. Messages to the broker may be delivered after the client
stopped waiting. The broker side is external to these files and reduced to
what `VramBroker` establishes. `ReleaseMayFail` and `ModelMayUnload` switch the
two environment faults on and off. `outdated` is a history: the FIM calls that
read the model as resident and had it unloaded before their admission was
decided.

### Governor

`entry` is the map of restart entries; an absent entry behaves like the
default one. `on_crash` is split by its outcome: `CrashRestarts`,
`CrashTrips`, or nothing (`Ignored`). `log` is a history variable, the times
of granted restarts since the last `forget`. The length of the backoff is left
out since no decision depends on it.

### Supervisor

`owned` are the spawn records, `handle` the tracked `Child` objects, `man` the
manifest files, `runs`/`ready` the operating system's processes. Each handler
or restart task is an actor with `pc`, `svc` and `child`; each acquisition of
the State or Governor mutex, each spawn and each manifest write is a step.
`SetServiceProc` kills the child it displaces, as `kill_on_drop` does.
The sweep is its own actor: `SweepCheck` (read and probe), `SweepMark`
(mark_orphan_dead), `DriveRestarts` (the filter by spawn record),
`PlanRestart`/`PlanTrip`/`PlanIgnored`, `MarkFailed`, `SweepEnd`.

Constants describe services the daemon treats differently: `Aliased`, whose
manifest name differs from the spawn-record name (the VRAM broker: manifest
`vram-broker`, record `wylde-vram-broker`), and `Hosted`, whose manifest the
daemon writes with its own pid (Memgraph). `Serial` restricts a run to one
handler at a time.

`down`, `torn` and `crossed` are histories. `down` has the services that were
stopped by the operator and not started since; `crossed` the calls under way
during which another start of the same service was; `torn` the services whose
stop was such a call. `StoppedUnlessCrossed` and `NoChildDroppedUnlessCrossed`
excuse those and nothing else.

Simplifications: a pid is reused only when nothing refers to it (`FreePid`);
`plan_restarts` holds the Governor lock over all orphans and is one step per
service here, which only adds interleavings; `mark_orphan_dead` reads and
writes the manifest in one step; the heartbeat that rewrites a manifest is
merged with its first write (`ProcWrites`).

### WorkspacesClient

`pc`, `verb`, `attempt`, `timer`, `val` are the locals of one `call_verb` per
task; `cache` is `VerbCache`, `breaker` the `VerbState` per verb, with instants
as ticks left. `Call`, `CacheHit`/`CacheMiss`, `Admit`/`FailFast` are the way to
the first attempt; `Deliver`, `Reject`, `TimedOut` and `Disconnected` its
outcomes, the last two sharing `TransportError` (back off, or count one failed
operation); `Retry` the next attempt. The service is external: it executes
requests when it likes, also those whose caller gave up, and changes condition
at will. `age` records when a version of its datum was superseded, which is what
staleness is measured against. A verb has one payload here, so one cache key;
keys do not interact. `VerbCache::clear` is called by no code of the client.

### DeviceGate and GatewayAuth

`file` is devices.json, read anew and replaced by one rename in each store
operation; `code`, `lock`, `pair` the pairing window, its mutex and the calls of
`complete_pairing` in progress; `op` the operations of the desktop, split where
they take another lock; `events` the queues in memory. `Save` may fail without
the caller being told, as `update` and `remove` discard the result; a read that
fails is an empty list (`AddForgets`). `minted`, `issued`, `paired`, `lost` and
`crossed` are histories; `crossed` has the devices that were changed while the
event of an earlier change was not yet queued. On top of it, a request goes through `CacheHit`, or `CacheMiss`,
`GateFinds`, `GateTouches` and `Verified`; `Refused` are the 401 and 503
answers; `Respond` takes the device's events along. `age` tells how long ago a
token stood in the file with a tier. Every token ever issued may be presented
at any time.

### Consent

`file`, `loaded`, `oneTime` are `ConsentInner`, `disk` is consent.json; the
global flag is the entry of `NoAuth`. `Check` is `dispatch_tool` through tier
gate and store under one lock, `RecordPending` the registry under the other.
`Remember` covers `consent.set`, `clear` and `set_no_auth` (memory, then disk),
`RememberFails` the same with an I/O error, `Grant` the one-time decision,
`Resolve` the end of the prompt, `Reset`/`ClearPending` the two halves of
`consent.reset`. `sub` is the panel's stream: the snapshot still to be sent, the
broadcast channel with its capacity and lag flag. `cards` are
`ChatPanel.pending_consents`; `Click` is a button of a card, `CancelTurn` the
Stop button, `Unreached` an answer that fails in the pipe. `failed`, `granted`,
`covered`, `missed`, `stale` are histories. Left out: the bypass switch of the
test builds, and the per-operation gate, which no registered tool uses yet.

### ExtensionHost

`entry` is the catalog (`ExtensionState` per extension, `None` where it has
none), `disk` the `mcp-server.json` files, `alive` the server processes, named
by the client that owns them. A request is an actor with `pc`, `op`, `ext`;
`conn` is the `Arc<McpClient>` it holds, either connecting or in a call, and
`seen` the result of its discovery. `lock` says who holds an extension's mutex
across the handshake. While it does, the same task holds the catalog's read
lock, so `Apply`, under the write lock, needs every `lock` to be free. Locks
that are released before the next await are not variables: their critical
section is one step.

`EnsureNothing`, `EnsureFails`, `Spawn`, `Connected` and `ConnectFails` are
`ensure_started`; `LookUp` and `CallEnds` a tool call, ping or list of tools;
`Stop` is `stop_one`; `Path`, `ReadManifest`, `OpenManifest`, `WriteManifest`
are `set_enabled` and `write_enabled`, whose `fs::write` truncates before it
writes; `Discover` and `Apply` the two halves of `refresh_catalog`; `BootNext`
is `start_enabled`. A process is killed when the last reference to its client
goes (`Kept`, `Registered`), as `kill_on_drop` does.

Simplifications: requests that only read the catalog are left out, and so is
the discovery cache, which only repeats an older walk; the shutdown of a client
nobody else uses is one step; a process name is reused only when nothing refers
to it; the directory is either read or not as a whole.

## Runs

| Run | Instance | Shows |
|---|---|---|
| `broker_concurrent` | 3 reserves, all in flight, retries of one nonce and preempting calls, poller on; 529k states | types; `NonceIndexSound`; `VictimsBelowRequester`; `ReplyIsCallersLease`; `LeaseFitsMachine`; `MarginUnlessCrowded`; `OneLeaseUnlessDoubled`; `LedgerSpec` (refinement) |
| `broker_liveness` | 2 reserves, one preempting, some without a size | `EveryReserveAnswered`, `AbandonedReclaimed` |
| `client_safety` | a chat and a FIM call, releases may be lost, Ollama loads and unloads at will; 236k states | types, `FimUnlessUnloaded`, `LedgerSpec` |
| `client_reclaim` | a FIM call, releases arrive, model may unload | `LetGoReclaimed` |
| `supervisor_concurrent` | one operator, 2 restart tasks, 3 pids, handlers overlapping, failing spawns, crashes anywhere; 1.9M states | types, `NoLeakedProcess`, `PendingHasTask`, `StoppedUnlessCrossed`, `NoChildDroppedUnlessCrossed`; of the policy, `BreakerTerminal` |
| `supervisor_serial` | two operators, handlers one at a time, crashes of settled processes, spawns succeed, 2 restarts per window, 5 instants, so that windows follow one another; 1.3M states | `CrashHandled`; of the policy, `RestartsCapped` and `TripEarned` |
| `workspaces_calls` | 2 tasks, a cached read with a retry, a write without; service up, slow, down or refusing; 321k states | `OpenIffTripped`, `Fresh`, `EveryCallReturns`, `BreakerRecovers` |
| `gateway_access` | 3 devices, 3 tokens, 2 tiers, 2 racing pairings, 2 changes by the desktop, a client; failing I/O, restarts; 1.7M states up to symmetry | `AcceptBounded` |
| `gateway_devices` | the same with 2 desktop operations at once, which the gate answers within a tick; 1.6M states up to symmetry | `OneDevicePerCode`, `EventsUnlessCrossed`, `RevokedStaysGone` |
| `extension_requests` | an extension, 2 concurrent requests and start-up, 3 processes, crashes, 2 edits by the user, unreadable directory; 188k states | `SoleServer`, `NoStrayServer`, `CallKeepsServer`, `EveryRequestReturns` |
| `consent_gate` | a tool, 2 dispatches of it that race, a request handler, channel of one event; failing I/O, breaking stream, restarts; 750k states | `OneRunPerGrant`, `RestartKeepsDecisions`, `PanelShowsPending`, `PromptAnswered` |
| `consent_lost_prompt` | the same with one dispatch | `PromptVisible` fails |

The types of `WorkspacesClient`, `GatewayAuth`, `Consent` and `ExtensionHost` are
established by the proofs alone; `TypeOK` can be added to any configuration.

`Supervisor_serial_faults.cfg` checks the stop guarantee and the double-spawn
guard without exceptions (`StoppedStaysDown`, `NoLiveChildDropped`) with handlers one at a
time, 2 operators, failing spawns and crashes during start;
`CrashHandled` is then false, since a restart whose spawn fails is not planned
again. `ExtensionHost_two.cfg` repeats those of `extension_requests` for two
extensions, one of them a panel (7.6M states).

Five properties end in what they excuse (`MarginUnlessCrowded`,
`OneLeaseUnlessDoubled`, `StoppedUnlessCrossed`, `NoChildDroppedUnlessCrossed`,
`EventsUnlessCrossed`), and so does `FimUnlessUnloaded`. The code or its
comments claim them without the excuse, and that claim fails: two locks where
one would be needed, or an answer used after it went stale. Each is checked
with every overlap allowed, in an instance in which the unrestricted claim is
violated, and the history variable it is stated with is set only by the one
overlap that breaks the claim. So it says that this overlap is the only way to
break it: everything else that interleaves, expires, fails or restarts does no
harm. The claims themselves (`MarginHeld`, `OneLeasePerNonce`,
`StoppedStaysDown`, `NoLiveChildDropped`, `EventsMatchStore`,
`FimNeverDisplaces`) are kept beside them, with the configurations that show
them failing, under [disagreements](#disagreements-with-the-code).

Bounds. *Broker*: the card grants 3 of 4 units and requests are 2 or 3, so two
never fit side by side, one spills, and one must preempt; three handlers are
enough for a preemptor, its victim and a retry. TTL is one tick, so expiry
falls between any two steps. *Client*: calls interact only through the model
and the broker restart, so one of each kind is enough; the TTL is two ticks, so
a lease can be extended before and after its first tick. *Supervisor*: one service, since services meet only
in the sweep, which treats them one by one; three pids allow a displaced child,
its replacement and a third start; `MaxTime` bounds the clock. In
`supervisor_concurrent` one restart trips the breaker, which is what its
properties of the breaker need; `RestartsCapped` needs five restarts, and
`supervisor_serial` has a clock that lets six be granted, in windows that
follow one another. The policy alone, with longer windows, is in `Governor_safety.cfg`.
*Workspaces client*: two tasks are enough for a probe next to a late failure
and for an old reply after a new one; two failures open the breaker, so its
count has a middle; the ages saturate just above the bound of `Fresh`.
*Gateway*: the third device and token let a pairing and a rotation follow a
revocation; TTL and call are one tick each, so a verification can straddle a
revocation and its entry outlive it; two changes are enough for a rotation and
a revocation of one device, and two operations for changes whose events are
queued in the other order. The two needs are in two runs, since together they
do not fit; `gateway_devices`, which asks nothing about time, takes the call
without time. *Consent*: tools share only the flag `NoAuth`; two
dispatches are the grant's taker and its rival; the channel of one event makes every second one a lag; `Consent_two_prompts.cfg`
checks the invariants for a prompt after a prompt. *Extensions*: extensions
share only the catalog's lock; three processes are one in the catalog, one held
by a call and one connecting; two edits are a removal and a new installation.
Symmetry is used only where
no liveness property is checked.
Deadlock checking is off for the broker, the lease clients and the supervisor:
their instances have a bounded number of calls, clock ticks or pids and may
simply be finished.

## Fairness

Only what the runtime guarantees is assumed; clients, operators, crashes, the
poller's answers and Ollama are never fair.

- broker: weak fairness of each handler (tokio polls every ready task, and
  both waits have deadlines, which fire), of the clock, and of the reaper loop;
- clients: the heartbeat task is polled, its call ends by its timeout, a sent
  heartbeat or release arrives or fails, the broker's clock and reaper run.
  Nothing says that a call ever finishes, so `LetGoReclaimed` is about leases
  that were let go;
- supervisor: handlers and tasks proceed, sleeps end, a signalled child exits
  or is killed after the grace, a process that stays up writes its manifest,
  the sweep runs on.

- workspaces client: tasks are scheduled, a request that reaches a live service
  is executed, and time passes however often tasks run (`SF(Tick)`: a clock
  does not wait for others). How the service's condition changes is left open;
  `BreakerRecovers` states its premise, a service that answers in time from
  some point on and tasks that keep calling;
- extension bridge: tokio's mutexes and read-write locks queue their waiters, so
  a step that takes one is taken if it is possible again and again (`SF`); the
  rest is ready once and polled (`WF`), and the handshake and the calls end by
  their timeouts. No request, edit or crash is fair;
- consent: accepted requests are worked off or fail, the panel reads its stream
  and reconnects (its task loops until the panel is gone), and the user gets
  round to every card that stays or keeps coming back. `PromptAnswered` is
  conditional on a stream that stays up from some point on.

`GatewayAuth` is checked for safety only: how long a token works is stated with
the clock, not as liveness.

## Proofs

TLAPS checks the following for every value of the constants that satisfies the
named assumptions of the modules (disjoint identifier sets, natural numbers for
sizes and times, requests and poll replies of the right type).

**`VramBrokerProofs`.** `TypeCorrect`; then the inductive invariant `IndInv`,
from which `NonceIndexTheorem`, `ReplyTheorem`, `VictimsTheorem`,
`LeaseFitsTheorem` and the refinement `LedgerTheorem` follow. None of these is
inductive alone. `LeaseFromCall` ties every real lease to the request and split
of the call that made it: without it a removed and a re-added lease could
differ and a copied victim could come to mean something else. `SyntheticShape`
keeps poller leases without nonce, so the index never names one.
`TargetFromCall` says the same of copied victims that `LeaseFromCall` says of
leases. `AnsweredIsDone` keeps a lease id from being answered before its lease
exists. `SplitFits` carries the bound of `CheckFits` or `SpillDram` to the
later `Grant`. The refinement maps a `Grant` step to the ledger's `Grant`, a
successful `Dedup` to `Reuse`, refusals to `Refuse`, and removals to `End`;
everything else stutters.

`OneLeaseTheorem` and `MarginTheorem` hold for any number of handlers in
flight, and say how far the two locks of `try_grant` carry. What a handler read
before it decided is still true when it grants, unless a grant came in between,
and then the handler is `crowded` or its nonce `doubled`: `IndexComplete` and
`FreshNonce` say so of the nonce index (for a nonce that is not doubled, no
lease is missing from it, and the nonce a handler did not find is still not
there), `Headroom` of the free memory (what the other calls hold plus the
split of a handler that is not crowded stays within the margins). The steps
between, such as expiry, release, preemption and polls, only remove real
leases, or add synthetic ones that are not counted as granted.
The sums are folds, `SumFunction` over the live leases. What the proofs need of
them (a sum of naturals is one, adding a lease adds its size, a smaller set sums
to no more) is proved by induction on the cardinality, with the induction
scheme for naturals stated for a set of numbers instead of a predicate
(`NatSetInduction`), which the provers can instantiate. It takes that only
finitely many leases are live, hence the conjunct of `PsAssumption` that a reply
of `/api/ps` lists finitely many models.

**`LeaseClientProofs`.** `ClientInv` is the types, `IdleFresh` (a call that has
not sent its reserve has none under way, needed for the ledger's `Open`) and
`FimKnows` (what a FIM call read as resident still is, unless it is outdated).
From it: `ClientTypes`, the refinement `ClientLedger`, in which a broker restart
is the ledger's `End` of every lease, and `FimTheorem`, with unloading at any
time.

**`GovernorProofs`.** `GovInv` is the types, `WindowOK` and `Capped`:
the last `count` entries of `log` lie in the current window, those before them
are no later than its start, those `MaxRestarts` further back are more than a
window older than its start, and any `2 * MaxRestarts + 1` consecutive entries
span more than a window. `RestartsCapped` alone is not
inductive, since a new restart is compared with entries whose window the state
no longer holds. `TripEarnedTheorem` and `BreakerTerminalTheorem` follow.

**`SupervisorProofs`.** `LocalInv` (types, and every busy actor has a service).
By a lemma the supervisor's steps are Governor steps or stutter, so
`SupervisedRestartsCapped` carries the Governor's bound over without another
induction; that lemma holds by the way the module is composed and is not a
result of its own. `NoLeakTheorem` and `PendingTheorem` are by an induction over
the handler steps, with `Serial` either way, and so are `StoppedTheorem` and
`NoChildDroppedTheorem`. Their `RaceInv` has five parts: `Alone` (no other call
is starting the service a call works on, if that call is not crossed),
`OpsStop` (only operators stop), `StopHolds` (a service being stopped by
a call that is not crossed is not owned, and has no handle once its child is
taken), `StartsDead` (whoever is past the already-alive check, and not crossed,
still finds the service dead) and `DownQuiet` (a service that is down and not
torn is not owned, has no handle, and nobody is starting it).
`StoppedUnlessCrossed` alone says nothing of the actor that is about to spawn.

**`WorkspacesClientProofs`.** `ClientTypes`; `BreakerConsistent`, inductive with
the types; and `BoundedStaleness`, for which `FreshInv` says how old a value in
flight or in the cache can be: a reply was produced within the attempt's
timeout, which has `timer` ticks to go, and a cached value has `left` ticks of
its TTL to go. `Fresh` alone says nothing about values not yet returned.

**`GatewayAuthProofs`.** `GatewayTyped`, the gate's and the gateway's types
apart (`GateTypes`, `GatewayTypes`, `AgeType`), since most steps leave one of
them alone. `RevocationSticks` follows from the types: every write of the store
either finds the device in the file or draws an id that was never minted.
`CodesPairOnce` needs `CodeInv`: whoever is inside `complete_pairing` holds the
lock, the code it matched is still the open one and has paired no one yet, and
neither has a code that nobody is completing or that was not drawn yet.
`AcceptanceBounded` needs `AgeInv`: a live slot's age plus the ticks it has left
is at most a TTL plus a call's timeout, and a call that found a record has an
age of at most the part of its timeout that has passed. The property speaks
only of the moment a request is let through; `AgeInv` of everything that may
let one through later. `EventsTheorem` holds for any number of operations. The
property is silent while a change is between its write and its event; `TellInv`
says that, for a device that is neither lost nor crossed, one operation at most
owes an event, and the queue with that event tells what the store holds; and
that a device that was never minted has neither queue nor operation, so a new
device starts with an empty queue.

**`ConsentProofs`.** `ConsentTypes`; `DecisionsSurvive`, that memory and disk
agree outside the keys whose write or read failed; and `GrantsSpentOnce`, from
`Budget`: per tool, no more handlers ran on one-time approvals than were given,
and strictly fewer while an approval is still unspent. `PanelTheorem` has no
hypothesis. `PanelShowsPending` speaks of a drained stream; `PanelInv` of
what is still in it: every pending prompt that was not missed has a card, a
copied entry, an event or an answer under way (`Announced`); an event that
tells a prompt's end is about no pending prompt (`EndsLast`); card, entry, event
and click name the one tool of their prompt (`NamesAgree`); and every card that
is there or will come is of a pending prompt, or its end follows later in the
channel, or it is known to be stale (`CardsSettled`). `PanelSend` shows once for
all events that sending, with the loss of the oldest event when the channel is
full, keeps the four.

**`ExtensionHostProofs`.** `HostTyped`, and `OneServerEach`,
`ServersAccountedFor` and `CallsKeepServers` from one invariant, `ServerInv`:
`Connectors` (a lock is held exactly by the task that connects that extension,
which is then known and has no client), `ConnUsed` (a task has a client exactly
while it connects or calls), `ClientRuns` (status and client agree), and
`NoStrayServer`, together with `FreshConn` (a connecting process is in nobody
else's hands). `SoleServer` is not inductive: that a second start is impossible
rests on who holds the lock.

Only model-checked: liveness (`EveryReserveAnswered`, `AbandonedReclaimed`,
`LetGoReclaimed`, `CrashHandled`, `EveryCallReturns`, `BreakerRecovers`,
`EveryRequestReturns`, `PromptAnswered`), which is out of the prover's reach.

## Disagreements with the code

The run `consent_lost_prompt` shows a defect: Stop (`cancel_active_turn`) drops
the panel's consent cards, the harness keeps the pending entry, and
`record_pending` returns an existing entry without announcing it. The next
dispatch of the tool is refused with `consent_required`, and the user sees no
card until the stream reconnects. A failed answer and a lagging stream end the
same way: the panel ignores the `lagged` chunk, and `consent.list`, which the
comment in `api/consent.rs` refers to, does not list pending prompts.

The models exhibit more statements of the code and its documents that the
behaviour does not keep. Each configuration below makes TLC report the named
property as violated. Where a configuration lists several, TLC stops at the
first; the others appear when that one is taken out.

| Configuration | Property | What happens | Stated at |
|---|---|---|---|
| `VramBroker_margin_race` | `MarginHeld` | two reserves read the headroom before either adds its lease, and together exceed the margin | `wylde-vram-broker/src/config.rs:15` |
| `LeaseClient_missed_stop` | `LetGoReclaimed` | a heartbeat task that missed `notify_waiters` keeps a lease alive whose release was lost | `wylde-ollama/src/lease.rs:239` |
| `Supervisor_races` | `StoppedStaysDown` | a stop between the restart task's ownership check and its spawn is undone | `wylde-lifecycle/src/state/restart.rs:333` |
| `VramBroker_retry_race` | `OneLeasePerNonce` | a retry between find_by_nonce and add gets a second lease | `wylde-ollama/src/lease.rs:68` |
| `VramBroker_spill_race` | `GrantMatchesRequest` | a release between two reads of the headroom makes the spill path reserve all free VRAM | `wylde-vram-broker/src/registry.rs:32` |
| `VramBroker_estimate` | `EstimateNeverRefuses` | a lease placed wholly in DRAM leaves a cached size of 0, and the next estimate is refused as invalid | `wylde-vram-broker/src/estimate.rs:4` |
| `VramBroker_estimate` | `EstimatedLeaseSwapped` | replace_synthetic leaves estimated leases in place: the model is counted twice | `wylde-vram-broker/src/registry.rs:47` |
| `LeaseClient_missed_stop` | `HeartbeatDiesWithGuard` | the task misses the stop signal and never ends | `wylde-ollama/src/lease.rs:86` |
| `LeaseClient_stale_residency` | `FimNeverDisplaces` | the model is unloaded after the residency read | `wylde-ollama/src/actions/admission.rs:12` |
| `Governor_sliding` | `SlidingCap` | the window is fixed at its first crash, not sliding: bursts on both sides of its end | `wylde-lifecycle/src/state/restart.rs:24` |
| `Supervisor_races` | `NoLiveChildDropped` | two starts both spawn, the second handle kills the first child | `wylde-lifecycle/src/state/mod.rs:293` |
| `Supervisor_startup_crash` | `CrashHandled` | a process that dies before it rewrites a dead-orphan manifest is never looked at again | `wylde-shared/src/manifest.rs:432` |
| `Supervisor_aliased` | `CrashHandled` | the VRAM broker's manifest name is not its spawn-record name: no restart | `wylde-lifecycle/src/state/restart.rs:12` |
| `Supervisor_hosted` | `CrashHandled` | Memgraph's manifest carries the daemon's pid: its crash is invisible | `wylde-lifecycle/src/state/services.rs:563` |
| `Supervisor_gave_up` | `FailedSurfaced` | service.start does not clear the breaker: a later crash is neither restarted nor shown as failed | `wylde-lifecycle/src/state/restart.rs:312` |
| `WorkspacesClient_one_probe` | `OneProbe` | every caller is admitted while the breaker is half-open, not one | `wylde-workspaces-client/src/circuit_breaker.rs:5` |
| `GatewayAuth_claims` | `RevokedRefused` | a cached token is accepted after its revocation, up to the bound of `AcceptBounded` | `src/WYLDE_ENDPOINTS.md:215` |
| `GatewayAuth_claims` | `EventsMatchStore` | two operations write the store in one order and queue their events in the other | `src/WYLDE_ENDPOINTS.md:107` |
| `ExtensionHost_claims` | `SpawnsOnlyEnabled` | a refresh leaves known records as they are: an extension disabled by `ext.disable` is started again by the next tool call | `wylde-extension-bridge/src/host.rs:244` |
| `ExtensionHost_claims` | `EnableTakesHold` | for the same reason `ext.enable` starts nothing when the catalog has the extension as disabled | `wylde-extension-bridge/src/service.rs:87` |
| `ExtensionHost_claims` | `PrunesOnlyRemoved` | the walk fails, but the directory answers `is_dir` later: every extension is dropped; with `DirMayFail = FALSE`, a discovery between truncation and write of a manifest drops that extension and its server | `wylde-extension-bridge/src/host.rs:201` |
| `ExtensionHost_claims` | `BrokenStaysDown` | status broken is only shown: the next tool call starts the server again | `src/docs/MIGRATING_EXTENSIONS.md:183` |
| `ExtensionHost_claims` | `CrashNoticed` | nothing watches a server: after a crash it stays registered as running until it is stopped or removed | `src/docs/MIGRATING_EXTENSIONS.md:182` |
| `Consent_deny_wins` | `DenyWins` | a one-time approval survives a later persistent deny and is spent by the next dispatch | `src/docs/mcp_surface.md:95` |

Noticed while reading, without a run: `handle_reserve` does not return the
`spilled` flag that a comment in `service.rs` lists; `config.rs:23` speaks of no
estimation fallback though `try_grant` always estimates; `stop_memgraph` does
not call `restart::forget`; `stop_orphan_sweep` uses `notify_waiters` and can be
missed in the same way as the lease heartbeat; `WYLDE_ENDPOINTS.md:213` speaks
of forwarding a rotated token to an active device, but a device whose cache
entry has expired is refused before the event layer and has to pair again;
`consent.reset` clears the pending prompts without Resolved events, so their
cards stay.

## What is not modelled

Of the modelled components: boot order, shutdown and no-spawn mode of the
daemon, a daemon restart over services that survived it, pid reuse while a
manifest still names the old process, the wording and length of anything
logged; the action log of the device gate, the gateway's rate limiter, egress
policy, routing and streaming; the harness outside its consent gate; the
bridge's inference gate, stdio framing and pending table, and the availability
of panels. Of the
rest: see the inventory and plan.

The repository has about 280,000 lines of Rust, most of it the desktop
front end, the harness's prompt and memory pipeline, the workspace index and
tests. The models cover the protocols in which several actors share state;
they are a few percent of those lines, and a larger share is not a goal: panels
render, the pipeline transforms text, the index holds data, and for none of
them would a finite-state model say more than a unit test. Prompts and model output,
rendering, network protocols of external tools, and floating-point scoring are
out of reach of a model checker and are not planned.

## Running

    tlc -workers 2 -config VramBroker_concurrent.cfg MCVramBroker
    tlapm VramBrokerProofs.tla

Every `X_*.cfg` belongs to module `MCX`.
