--------------------------- MODULE ExtensionHost ---------------------------
(***************************************************************************)
(* wylde-extension-bridge: the catalog of extensions and their MCP server  *)
(* processes (host.rs, discovery.rs, manifest.rs write_enabled,            *)
(* mcp/client.rs).  Requests run concurrently.  ensure_started keeps the   *)
(* catalog's read lock and the extension's mutex while it connects; a      *)
(* refresh reads the disk first and takes the write lock after; a tool     *)
(* call keeps a reference to its client, and no lock.                      *)
(*                                                                         *)
(* A client is counted by reference: its process is killed with the last   *)
(* one (Arc, kill_on_drop).  What is done at once under a lock, the        *)
(* shutdown of a client included, is one step.  Tools, panels and events   *)
(* are left out: no operation depends on them.                             *)
(***************************************************************************)
EXTENDS Naturals

CONSTANTS
    Ext,          \* extensions that are or may be installed
    PanelOnly,    \* those whose transport is none
    Task,         \* concurrent requests
    Boot,         \* the start-up task
    Pid,          \* names of server processes
    MaxAttempts,  \* restart_max_attempts
    MaxEdits,     \* bound: installations and removals by the user
    DirMayFail,   \* whether the extensions directory may be unreadable
    None

ASSUME HostAssumption ==
    /\ Ext # {} /\ PanelOnly \subseteq Ext
    /\ Boot \notin Task
    /\ MaxAttempts \in Nat /\ MaxEdits \in Nat
    /\ DirMayFail \in BOOLEAN
ASSUME HostNoneAssumption == None \notin Pid \cup Task \cup {Boot}

Actor == Task \cup {Boot}
Seen == {"enabled", "disabled", "absent"}

\* ExtensionState, without what discovery cached of the manifest.
Entry == [enabled : BOOLEAN, client : Pid \cup {None}, attempts : 0..MaxAttempts,
          status : {"starting", "running", "disabled", "crashed", "broken"}]
ASSUME EntryAssumption == None \notin Entry

VARIABLES
    disk,   \* each mcp-server.json; "torn" while write_enabled rewrites it
    edits,  \* installations and removals so far
    entry,  \* the catalog: an extension's state, or None
    lock,   \* the task that has an extension's mutex while it connects
    pc,     \* where each request is
    op,     \* what it was asked to do
    ext,    \* and with which extension
    seen,   \* what its discovery found on disk
    conn,   \* the client it calls or connects
    boot,   \* extensions start_enabled has yet to visit
    alive   \* server processes that run

vars == <<disk, edits, entry, lock, pc, op, ext, seen, conn, boot, alive>>
request == <<ext, seen>>

\* ExtensionState::from_record.
FromRecord(e, enabled) ==
    [enabled |-> enabled,
     status |-> IF e \notin PanelOnly /\ enabled THEN "starting"
                                                 ELSE "disabled",
     client |-> None, attempts |-> 0]

Nothing == [e \in Ext |-> "absent"]

Init ==
    /\ disk \in [Ext -> Seen]
    /\ edits = 0
    /\ entry = [e \in Ext |-> IF disk[e] = "absent" THEN None
                              ELSE FromRecord(e, disk[e] = "enabled")]
    /\ lock = [e \in Ext |-> None]
    /\ pc = [t \in Actor |-> "idle"]
    /\ op = [t \in Actor |-> "none"]
    /\ ext = [t \in Actor |-> CHOOSE e \in Ext : TRUE]
    /\ seen = [t \in Actor |-> Nothing]
    /\ conn = [t \in Actor |-> None]
    /\ boot \in {{}, {e \in Ext : disk[e] # "absent"}}  \* eager_spawn
    /\ alive = {}

GoTo(t, l) ==
    /\ pc' = [pc EXCEPT ![t] = l]
    /\ op' = [op EXCEPT ![t] = IF l = "idle" THEN "none" ELSE @]
Known(e) == entry[e] # None
Registered(p) == \E e \in Ext : Known(e) /\ entry[e].client = p
Kept(p) == \E t \in Actor : conn[t] = p

-----------------------------------------------------------------------------
(* Requests                                                                *)

First == [call |-> "ensure", ping |-> "lookup", restart |-> "stop",
          enable |-> "path", disable |-> "path", list |-> "discover"]

\* A request arrives, once start-up is over: ext.tools.call, ext.health (or
\* ext.tools.list), ext.restart, ext.enable, ext.disable, ext.list (or
\* list_panels).
Request(t, o, e) ==
    /\ boot = {} /\ pc[Boot] = "idle"
    /\ pc[t] = "idle"
    /\ pc' = [pc EXCEPT ![t] = First[o]]
    /\ op' = [op EXCEPT ![t] = o]
    /\ ext' = [ext EXCEPT ![t] = e]
    /\ UNCHANGED <<disk, edits, entry, lock, seen, conn, boot, alive>>

\* start_enabled visits an extension.
BootNext(e) ==
    /\ e \in boot /\ pc[Boot] = "idle"
    /\ boot' = boot \ {e}
    /\ GoTo(Boot, "ensure")
    /\ ext' = [ext EXCEPT ![Boot] = e]
    /\ UNCHANGED <<disk, edits, entry, lock, seen, conn, alive>>

-----------------------------------------------------------------------------
(* ensure_started                                                          *)

Started(t) == IF op[t] = "call" THEN "lookup" ELSE "idle"
Runs(e) == entry[e].client # None /\ entry[e].status = "running"
MayRun(e) == e \notin PanelOnly /\ entry[e].enabled

\* There is nothing to start: a panel, a disabled extension, a running one.
EnsureNothing(t) ==
    LET e == ext[t] IN
    /\ pc[t] = "ensure" /\ lock[e] = None /\ Known(e)
    /\ \/ /\ ~MayRun(e)
          /\ entry' = [entry EXCEPT ![e].status = "disabled"]
       \/ MayRun(e) /\ Runs(e) /\ UNCHANGED entry
    /\ GoTo(t, Started(t))
    /\ UNCHANGED <<disk, edits, lock, request, conn, boot, alive>>

\* It is unknown, or its working directory cannot be resolved.
EnsureFails(t) ==
    LET e == ext[t] IN
    /\ pc[t] = "ensure" /\ lock[e] = None
    /\ \/ ~Known(e) /\ UNCHANGED entry
       \/ /\ Known(e) /\ MayRun(e) /\ ~Runs(e)
          /\ entry' = [entry EXCEPT ![e].status = "crashed"]
    /\ GoTo(t, "idle")
    /\ UNCHANGED <<disk, edits, lock, request, conn, boot, alive>>

NeedsStart(e) == Known(e) /\ MayRun(e) /\ ~Runs(e)

\* Mutant of Spawn: the mutex is released before the server answers.
Spawn_Unlocked(t, p) ==
    LET e == ext[t] IN
    /\ pc[t] = "ensure" /\ lock[e] = None /\ NeedsStart(e)
    /\ p \notin alive /\ ~Registered(p) /\ ~Kept(p)
    /\ entry' = [entry EXCEPT ![e].status = "starting"]
    /\ conn' = [conn EXCEPT ![t] = p]
    /\ alive' = alive \cup {p}
    /\ GoTo(t, "connecting")
    /\ UNCHANGED <<disk, edits, lock, request, boot>>

\* connect_stdio spawns the server; the read lock and the mutex stay taken.
Spawn(t, p) ==
    LET e == ext[t] IN
    /\ pc[t] = "ensure" /\ lock[e] = None /\ NeedsStart(e)
    /\ p \notin alive /\ ~Registered(p) /\ ~Kept(p)
    /\ entry' = [entry EXCEPT ![e].status = "starting"]
    /\ lock' = [lock EXCEPT ![e] = t]
    /\ conn' = [conn EXCEPT ![t] = p]
    /\ alive' = alive \cup {p}
    /\ GoTo(t, "connecting")
    /\ UNCHANGED <<disk, edits, request, boot>>

\* The handshake is over: the client is registered (one it replaces goes).
Connected(t) ==
    LET e == ext[t]
        old == entry[e].client IN
    /\ pc[t] = "connecting"
    /\ entry' = [entry EXCEPT ![e].status = "running", ![e].attempts = 0,
                              ![e].client = conn[t]]
    /\ alive' = IF Kept(old) THEN alive ELSE alive \ {old}
    /\ lock' = [lock EXCEPT ![e] = None]
    /\ conn' = [conn EXCEPT ![t] = None]
    /\ GoTo(t, Started(t))
    /\ UNCHANGED <<disk, edits, request, boot>>

\* Mutant of ConnectFails: the child is spawned without kill_on_drop.
ConnectFails_LeavesChild(t) ==
    LET e == ext[t] IN
    /\ pc[t] = "connecting"
    /\ entry' = [entry EXCEPT ![e].status = "crashed"]
    /\ lock' = [lock EXCEPT ![e] = None]
    /\ conn' = [conn EXCEPT ![t] = None]
    /\ GoTo(t, "idle")
    /\ UNCHANGED <<disk, edits, request, boot, alive>>

\* It cannot be spawned, does not answer in time, or is refused.
ConnectFails(t) ==
    LET e == ext[t]
        n == entry[e].attempts + 1 IN
    /\ pc[t] = "connecting"
    /\ entry' = [entry EXCEPT
          ![e].attempts = IF n < MaxAttempts THEN n ELSE MaxAttempts,
          ![e].status = IF n < MaxAttempts THEN "crashed" ELSE "broken"]
    /\ alive' = alive \ {conn[t]}
    /\ lock' = [lock EXCEPT ![e] = None]
    /\ conn' = [conn EXCEPT ![t] = None]
    /\ GoTo(t, "idle")
    /\ UNCHANGED <<disk, edits, request, boot>>

-----------------------------------------------------------------------------
(* Calls                                                                   *)

\* call_tool, ping and list_tools take their own reference to the client.
LookUp(t) ==
    LET e == ext[t] IN
    /\ pc[t] = "lookup" /\ lock[e] = None
    /\ IF Known(e) /\ entry[e].client # None
       THEN GoTo(t, "inCall") /\ conn' = [conn EXCEPT ![t] = entry[e].client]
       ELSE GoTo(t, "idle") /\ UNCHANGED conn
    /\ UNCHANGED <<disk, edits, entry, lock, request, boot, alive>>

\* A reply, an error, the end of the server's output or the timeout: the
\* reference goes, and with the last one the process.
CallEnds(t) ==
    LET p == conn[t]
        others == \E u \in Actor \ {t} : conn[u] = p IN
    /\ pc[t] = "inCall"
    /\ conn' = [conn EXCEPT ![t] = None]
    /\ alive' = IF others \/ Registered(p) THEN alive ELSE alive \ {p}
    /\ GoTo(t, "idle")
    /\ UNCHANGED <<disk, edits, entry, lock, request, boot>>

\* A server crashes; no part of the bridge watches for it.
Dies(p) ==
    /\ p \in alive /\ alive' = alive \ {p}
    /\ UNCHANGED <<disk, edits, entry, lock, pc, op, ext, seen, conn, boot>>

-----------------------------------------------------------------------------
(* stop_one                                                                *)

StopReturns(t) ==
    GoTo(t, IF op[t] = "restart" /\ Known(ext[t]) THEN "ensure" ELSE "idle")

Stopped(e) == IF Known(e)
              THEN [entry EXCEPT ![e].client = None, ![e].status = "disabled"]
              ELSE entry

\* Mutant of Stop: the process is killed although a call uses its client.
Stop_KillsInCall(t) ==
    LET e == ext[t] IN
    /\ pc[t] = "stop" /\ lock[e] = None
    /\ entry' = Stopped(e)
    /\ alive' = IF Known(e) THEN alive \ {entry[e].client} ELSE alive
    /\ StopReturns(t)
    /\ UNCHANGED <<disk, edits, lock, request, conn, boot>>

\* The client is shut down, or left to the calls that still use it.
Stop(t) ==
    LET e == ext[t] IN
    /\ pc[t] = "stop" /\ lock[e] = None
    /\ entry' = Stopped(e)
    /\ alive' = IF Known(e) /\ ~Kept(entry[e].client)
                THEN alive \ {entry[e].client} ELSE alive
    /\ StopReturns(t)
    /\ UNCHANGED <<disk, edits, lock, request, conn, boot>>

-----------------------------------------------------------------------------
(* set_enabled: find the manifest, rewrite it, refresh                     *)

\* Mutant of Path: the extension's guard lives on into the refresh.
Path_KeepsLock(t) ==
    /\ pc[t] = "path" /\ lock[ext[t]] = None
    /\ GoTo(t, IF Known(ext[t]) THEN "read" ELSE "idle")
    /\ lock' = IF Known(ext[t]) THEN [lock EXCEPT ![ext[t]] = t] ELSE lock
    /\ UNCHANGED <<disk, edits, entry, request, conn, boot, alive>>

\* set_enabled looks up where the manifest is.
Path(t) ==
    /\ pc[t] = "path" /\ lock[ext[t]] = None
    /\ GoTo(t, IF Known(ext[t]) THEN "read" ELSE "idle")
    /\ UNCHANGED <<disk, edits, entry, lock, request, conn, boot, alive>>

\* write_enabled reads the manifest; one that is gone or torn is an error.
ReadManifest(t) ==
    /\ pc[t] = "read"
    /\ GoTo(t, IF disk[ext[t]] \in {"enabled", "disabled"} THEN "open"
                                                           ELSE "idle")
    /\ UNCHANGED <<disk, edits, entry, lock, request, conn, boot, alive>>

\* fs::write truncates the file (its directory may be gone) ...
OpenManifest(t) ==
    LET e == ext[t] IN
    /\ pc[t] = "open"
    /\ IF disk[e] = "absent" THEN GoTo(t, "idle") /\ UNCHANGED disk
       ELSE GoTo(t, "write") /\ disk' = [disk EXCEPT ![e] = "torn"]
    /\ UNCHANGED <<edits, entry, lock, request, conn, boot, alive>>

\* ... and fills it; then the discovery cache is dropped.
WriteManifest(t) ==
    LET e == ext[t] IN
    /\ pc[t] = "write"
    /\ disk' = [disk EXCEPT ![e] =
                  CASE @ = "absent" -> "absent"
                    [] op[t] = "enable" -> "enabled"
                    [] OTHER -> "disabled"]
    /\ GoTo(t, "discover")
    /\ UNCHANGED <<edits, entry, lock, request, conn, boot, alive>>

-----------------------------------------------------------------------------
(* refresh_catalog                                                         *)

Faulty == IF DirMayFail THEN BOOLEAN ELSE {FALSE}

\* The walk skips manifests that do not parse, and all of an unreadable
\* directory.
Discover(t) ==
    /\ pc[t] = "discover"
    /\ \E failed \in Faulty :
        seen' = [seen EXCEPT ![t] = [e \in Ext |->
                    IF failed \/ disk[e] = "torn" THEN "absent" ELSE disk[e]]]
    /\ GoTo(t, "apply")
    /\ UNCHANGED <<disk, edits, entry, lock, ext, conn, boot, alive>>

Refreshed(t) == CASE op[t] = "enable" -> "ensure"
                  [] op[t] = "disable" -> "stop"
                  [] OTHER -> "idle"

Gone(t, failed) == {e \in Ext : Known(e) /\ seen[t][e] = "absent" /\ ~failed}

\* The catalog after a refresh that drops the extensions in gone.
Catalog(t, gone) == [e \in Ext |->
    CASE e \in gone -> None
      [] ~Known(e) /\ seen[t][e] # "absent" ->
            FromRecord(e, seen[t][e] = "enabled")
      [] OTHER -> entry[e]]

Discarded(gone) == {p \in alive : ~Kept(p) /\ \E e \in gone :
                                                entry[e].client = p}

\* Under the write lock: what is new is added, what is known is left as it
\* is, and what the walk did not find is dropped, unless the directory is
\* unreadable by now.
Apply(t) ==
    /\ pc[t] = "apply" /\ \A e \in Ext : lock[e] = None
    /\ \E failed \in Faulty :
        /\ entry' = Catalog(t, Gone(t, failed))
        /\ alive' = alive \ Discarded(Gone(t, failed))
    /\ GoTo(t, Refreshed(t))
    /\ seen' = [seen EXCEPT ![t] = Nothing]
    /\ UNCHANGED <<disk, edits, lock, ext, conn, boot>>

-----------------------------------------------------------------------------
(* The user's hands on the directory, and the specification                *)

Edit(e, v) ==
    /\ edits < MaxEdits /\ edits' = edits + 1
    /\ v = "absent" <=> disk[e] # "absent"
    /\ disk' = [disk EXCEPT ![e] = v]
    /\ UNCHANGED <<entry, lock, pc, op, ext, seen, conn, boot, alive>>

\* Steps that take an extension's mutex or the catalog's write lock.
Locking(t) ==
    \/ EnsureNothing(t) \/ EnsureFails(t) \/ \E p \in Pid : Spawn(t, p)
    \/ LookUp(t) \/ Stop(t) \/ Path(t) \/ Apply(t)

Proceed(t) ==
    \/ Connected(t) \/ ConnectFails(t) \/ CallEnds(t)
    \/ ReadManifest(t) \/ OpenManifest(t) \/ WriteManifest(t) \/ Discover(t)

Next ==
    \/ \E t \in Actor : Locking(t) \/ Proceed(t)
    \/ \E t \in Task, o \in DOMAIN First, e \in Ext : Request(t, o, e)
    \/ \E e \in Ext : BootNext(e)
    \/ \E p \in Pid : Dies(p)
    \/ \E e \in Ext, v \in Seen : Edit(e, v)

Spec == Init /\ [][Next]_vars

\* tokio polls every task, its locks serve in order, and the handshake and
\* the calls have timeouts.
FairSpec ==
    /\ Spec
    /\ \A t \in Actor : SF_vars(Locking(t)) /\ WF_vars(Proceed(t))
    /\ WF_vars(\E e \in Ext : BootNext(e))

-----------------------------------------------------------------------------
(* Properties                                                              *)

PcLabel == {"idle", "ensure", "connecting", "lookup", "inCall", "stop", "path",
            "read", "open", "write", "discover", "apply"}

\* Types.
TypeOK ==
    /\ disk \in [Ext -> Seen \cup {"torn"}] /\ edits \in 0..MaxEdits
    /\ entry \in [Ext -> Entry \cup {None}]
    /\ lock \in [Ext -> Actor \cup {None}]
    /\ pc \in [Actor -> PcLabel]
    /\ op \in [Actor -> DOMAIN First \cup {"none"}]
    /\ ext \in [Actor -> Ext] /\ seen \in [Actor -> [Ext -> Seen]]
    /\ conn \in [Actor -> Pid \cup {None}]
    /\ boot \subseteq Ext /\ alive \subseteq Pid

\* Processes an extension has in the catalog or brings up.
Servers(e) == {p \in Pid :
    \/ Known(e) /\ entry[e].client = p
    \/ \E t \in Actor : pc[t] = "connecting" /\ ext[t] = e /\ conn[t] = p}

\* However requests interleave, an extension has one server, and while none
\* connects its status is running exactly when it has a client.
SoleServer ==
    /\ \A e \in Ext : \A p, q \in Servers(e) : p = q
    /\ \A e \in Ext : Known(e) /\ lock[e] = None =>
        (entry[e].status = "running" <=> entry[e].client # None)

\* Every server process is in the catalog, connecting, or used by a call: a
\* failed start, a stop or a removal leaves none behind.
NoStrayServer == \A p \in alive : Registered(p) \/ Kept(p)

\* "Concurrent call in flight; we drop our reference and let the last holder
\* shutdown" (host.rs:332): a server goes under a call only by crashing.
CallKeepsServer ==
    [][\A t \in Actor :
        /\ pc[t] = "inCall" /\ pc'[t] = "inCall"
        /\ conn[t] \in alive \ alive'
        => Dies(conn[t])]_vars

\* Every request is answered, whoever holds locks or rewrites files.
EveryRequestReturns == \A t \in Actor : pc[t] # "idle" ~> pc[t] = "idle"

\* "Bring an extension up if its manifest says enabled" (host.rs:244): with
\* no other request under way, none is started whose manifest says disabled.
SpawnsOnlyEnabled ==
    [][\A e \in Ext : lock[e] = None /\ lock'[e] # None /\
            (\A t \in Actor \ {lock'[e]} : pc[t] = "idle")
        => disk[e] # "disabled"]_vars

\* "Set enabled=true in manifest + spawn its MCP server" (service.rs:87): an
\* enabled extension is in the catalog as enabled.
EnableTakesHold ==
    [][\A t \in Actor :
        pc[t] = "apply" /\ op[t] = "enable" /\ pc'[t] = "ensure" =>
            ~Known(ext[t])' \/ entry'[ext[t]].enabled]_vars

\* "An unreadable directory is absence of information, not evidence that
\* every extension was uninstalled" (host.rs:201): a refresh drops only what
\* was removed.
PrunesOnlyRemoved ==
    [][\A e \in Ext : Known(e) /\ ~Known(e)' => disk[e] = "absent"]_vars

\* "After the cap, the extension is broken and stays down until ext.restart
\* is called" (MIGRATING_EXTENSIONS.md): no tool call starts it again.
BrokenStaysDown ==
    [][\A e \in Ext :
        Known(e) /\ Known(e)' /\ entry[e].status = "broken" =>
            entry'[e].status \in {"broken", "disabled"}]_vars

Defunct(e) == Known(e) /\ entry[e].client \notin alive \cup {None}

\* "On crash, exponential backoff" (MIGRATING_EXTENSIONS.md): the host finds
\* out that a server is gone.
CrashNoticed == \A e \in Ext : Defunct(e) ~> ~Defunct(e)
=============================================================================
