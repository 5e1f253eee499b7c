------------------------ MODULE ExtensionHostProofs ------------------------
(***************************************************************************)
(* Safety of the extension host for any extensions, requests, processes,   *)
(* edits and failures.                                                     *)
(***************************************************************************)
EXTENDS ExtensionHost, TLAPS

-----------------------------------------------------------------------------
(* Types                                                                   *)

\* A request that goes to a label keeps the shape of pc and op.
LEMMA GoToType ==
  ASSUME TypeOK, NEW t \in Actor, NEW l \in PcLabel, GoTo(t, l)
  PROVE  pc' \in [Actor -> PcLabel] /\ op' \in [Actor -> DOMAIN First \cup {"none"}]
  BY DEF TypeOK, GoTo

\* A record made from a manifest is an entry.
LEMMA RecordType ==
  ASSUME NEW e \in Ext, NEW b \in BOOLEAN
  PROVE  FromRecord(e, b) \in Entry
  BY HostAssumption DEF FromRecord, Entry

\* A known extension's entry is a record, also after a change of its parts.
LEMMA EntryType ==
  ASSUME TypeOK, NEW e \in Ext, Known(e)
  PROVE  entry[e] \in Entry
  BY DEF TypeOK, Known

\* Every label a request starts or continues with is a label.
LEMMA LabelType ==
  /\ \A o \in DOMAIN First : First[o] \in PcLabel
  /\ \A t : Started(t) \in PcLabel /\ Refreshed(t) \in PcLabel
  BY DEF First, Started, Refreshed, PcLabel

\* The initial state has the types.
LEMMA InitType == Init => TypeOK
  <1> SUFFICES ASSUME Init PROVE TypeOK
    OBVIOUS
  <1>1. entry \in [Ext -> Entry \cup {None}]
    <2>1. \A e \in Ext : FromRecord(e, disk[e] = "enabled") \in Entry
      BY RecordType
    <2> QED BY <2>1 DEF Init
  <1>2. (CHOOSE e \in Ext : TRUE) \in Ext
    BY HostAssumption
  <1>3. boot \subseteq Ext
    BY DEF Init
  <1>4. disk \in [Ext -> Seen \cup {"torn"}] /\ edits \in 0..MaxEdits
    BY HostAssumption DEF Init
  <1>5. seen \in [Actor -> [Ext -> Seen]]
    BY DEF Init, Nothing, Seen
  <1>6. ext \in [Actor -> Ext]
    BY <1>2 DEF Init
  <1>7. pc \in [Actor -> PcLabel] /\ op \in [Actor -> DOMAIN First \cup {"none"}]
    BY DEF Init, PcLabel
  <1>8. lock \in [Ext -> Actor \cup {None}] /\ conn \in [Actor -> Pid \cup {None}]
        /\ alive \subseteq Pid
    BY DEF Init
  <1> QED BY <1>1, <1>3, <1>4, <1>5, <1>6, <1>7, <1>8 DEF TypeOK

\* ensure_started keeps the types.
LEMMA EnsureType ==
  ASSUME TypeOK, NEW t \in Actor,
         \/ EnsureNothing(t) \/ EnsureFails(t) \/ Connected(t) \/ ConnectFails(t)
         \/ \E p \in Pid : Spawn(t, p),
         pc[t] = "connecting" => Known(ext[t])
  PROVE  TypeOK'
  <1> DEFINE e == ext[t]
             n == entry[e].attempts + 1
  <1>0. e \in Ext /\ Started(t) \in PcLabel /\ "idle" \in PcLabel
        /\ "connecting" \in PcLabel
    BY LabelType DEF TypeOK, PcLabel
  <1>1. ASSUME Known(e)
        PROVE  /\ entry[e] \in Entry /\ MaxAttempts \in Nat
               /\ (IF n < MaxAttempts THEN n ELSE MaxAttempts) \in 0..MaxAttempts
    BY <1>0, <1>1, EntryType, HostAssumption DEF Entry
  <1>2. CASE EnsureNothing(t)
    <2>1. Known(e) /\ GoTo(t, Started(t))
      BY <1>2 DEF EnsureNothing
    <2>2. entry' \in [Ext -> Entry \cup {None}]
      BY <1>0, <1>1, <1>2, <2>1 DEF EnsureNothing, TypeOK, Entry
    <2> QED BY <1>0, <1>2, <2>1, <2>2, GoToType DEF EnsureNothing, TypeOK, request
  <1>3. CASE EnsureFails(t)
    <2>1. GoTo(t, "idle")
      BY <1>3 DEF EnsureFails
    <2>2. entry' \in [Ext -> Entry \cup {None}]
      BY <1>0, <1>1, <1>3 DEF EnsureFails, TypeOK, Entry
    <2> QED BY <1>0, <1>3, <2>1, <2>2, GoToType DEF EnsureFails, TypeOK, request
  <1>4. CASE Connected(t)
    <2>1. Known(e) /\ GoTo(t, Started(t))
      BY <1>4 DEF Connected
    <2>2. entry' \in [Ext -> Entry \cup {None}]
      BY <1>0, <1>1, <1>4, <2>1 DEF Connected, TypeOK, Entry
    <2> QED BY <1>0, <1>4, <2>1, <2>2, GoToType DEF Connected, TypeOK, request
  <1>5. CASE ConnectFails(t)
    <2>1. Known(e) /\ GoTo(t, "idle")
      BY <1>5 DEF ConnectFails
    <2>2. entry' \in [Ext -> Entry \cup {None}]
      <3> DEFINE s == IF n < MaxAttempts THEN "crashed" ELSE "broken"
                 a == IF n < MaxAttempts THEN n ELSE MaxAttempts
      <3>1. entry' = [entry EXCEPT ![e].attempts = a, ![e].status = s]
        BY <1>5 DEF ConnectFails
      <3>2. a \in 0..MaxAttempts /\ s \in {"crashed", "broken"}
        BY <1>1, <2>1
      <3> HIDE DEF a, s
      <3> QED BY <1>0, <1>1, <2>1, <3>1, <3>2 DEF TypeOK, Entry
    <2> QED BY <1>0, <1>5, <2>1, <2>2, GoToType DEF ConnectFails, TypeOK, request
  <1>6. ASSUME NEW p \in Pid, Spawn(t, p) PROVE TypeOK'
    <2>1. Known(e) /\ GoTo(t, "connecting")
      BY <1>6 DEF Spawn, NeedsStart
    <2>2. entry' \in [Ext -> Entry \cup {None}]
      BY <1>0, <1>1, <1>6, <2>1 DEF Spawn, TypeOK, Entry
    <2> QED BY <1>0, <1>6, <2>1, <2>2, GoToType DEF Spawn, TypeOK, request
  <1> QED BY <1>2, <1>3, <1>4, <1>5, <1>6

\* A call, a stop and the rewriting of a manifest keep the types.
LEMMA CallType ==
  ASSUME TypeOK, NEW t \in Actor,
         \/ LookUp(t) \/ CallEnds(t) \/ Stop(t) \/ Path(t)
         \/ ReadManifest(t) \/ OpenManifest(t) \/ WriteManifest(t)
  PROVE  TypeOK'
  <1>0. /\ ext[t] \in Ext
        /\ {"idle", "inCall", "ensure", "read", "open", "write", "discover"}
             \subseteq PcLabel
    BY DEF TypeOK, PcLabel
  <1>1. CASE LookUp(t)
    <2>1. conn' \in [Actor -> Pid \cup {None}]
      BY <1>0, <1>1, EntryType DEF LookUp, TypeOK, Entry
    <2>2. pc' \in [Actor -> PcLabel] /\ op' \in [Actor -> DOMAIN First \cup {"none"}]
      BY <1>0, <1>1, GoToType DEF LookUp
    <2> QED BY <1>1, <2>1, <2>2 DEF LookUp, TypeOK, request
  <1>2. CASE CallEnds(t)
    BY <1>0, <1>2, GoToType DEF CallEnds, TypeOK, request
  <1>3. CASE Stop(t)
    <2>1. entry' \in [Ext -> Entry \cup {None}]
      BY <1>0, <1>3, EntryType DEF Stop, Stopped, TypeOK, Entry
    <2>2. pc' \in [Actor -> PcLabel] /\ op' \in [Actor -> DOMAIN First \cup {"none"}]
      BY <1>0, <1>3, GoToType DEF Stop, StopReturns
    <2>3. alive' \subseteq alive
      BY <1>3 DEF Stop
    <2> QED BY <1>3, <2>1, <2>2, <2>3 DEF Stop, TypeOK, request
  <1>4. CASE Path(t)
    BY <1>0, <1>4, GoToType DEF Path, TypeOK, request
  <1>5. CASE ReadManifest(t)
    BY <1>0, <1>5, GoToType DEF ReadManifest, TypeOK, request
  <1>6. CASE OpenManifest(t)
    <2>1. pc' \in [Actor -> PcLabel] /\ op' \in [Actor -> DOMAIN First \cup {"none"}]
      BY <1>0, <1>6, GoToType DEF OpenManifest
    <2> QED BY <1>6, <2>1 DEF OpenManifest, TypeOK, request
  <1>7. CASE WriteManifest(t)
    BY <1>0, <1>7, GoToType DEF WriteManifest, TypeOK, request, Seen
  <1> QED BY <1>1, <1>2, <1>3, <1>4, <1>5, <1>6, <1>7

\* A refresh keeps the types.
LEMMA RefreshType ==
  ASSUME TypeOK, NEW t \in Actor, Discover(t) \/ Apply(t)
  PROVE  TypeOK'
  <1>0. "apply" \in PcLabel /\ Refreshed(t) \in PcLabel
    BY LabelType DEF PcLabel
  <1>1. CASE Discover(t)
    <2>1. seen' \in [Actor -> [Ext -> Seen]]
      BY <1>1 DEF Discover, TypeOK, Seen
    <2> QED BY <1>0, <1>1, <2>1, GoToType DEF Discover, TypeOK
  <1>2. CASE Apply(t)
    <2>1. PICK failed \in Faulty :
            /\ entry' = Catalog(t, Gone(t, failed))
            /\ alive' = alive \ Discarded(Gone(t, failed))
      BY <1>2 DEF Apply
    <2>2. \A e \in Ext : FromRecord(e, seen[t][e] = "enabled") \in Entry
      BY RecordType
    <2>3. entry' \in [Ext -> Entry \cup {None}]
      BY <2>1, <2>2 DEF Catalog, TypeOK
    <2>4. seen' \in [Actor -> [Ext -> Seen]]
      BY <1>2 DEF Apply, TypeOK, Seen, Nothing
    <2> QED BY <1>0, <1>2, <2>1, <2>3, <2>4, GoToType DEF Apply, TypeOK
  <1> QED BY <1>1, <1>2

\* The other steps keep the types.
LEMMA OtherType ==
  ASSUME TypeOK,
         \/ \E t \in Task, o \in DOMAIN First, e \in Ext : Request(t, o, e)
         \/ \E e \in Ext : BootNext(e)
         \/ \E p \in Pid : Dies(p)
         \/ \E e \in Ext, v \in Seen : Edit(e, v)
         \/ UNCHANGED vars
  PROVE  TypeOK'
  <1>1. ASSUME NEW t \in Task, NEW o \in DOMAIN First, NEW e \in Ext,
               Request(t, o, e)
        PROVE  TypeOK'
    <2>1. First[o] \in PcLabel /\ t \in Actor
      BY LabelType DEF Actor
    <2> QED BY <1>1, <2>1 DEF Request, TypeOK
  <1>2. ASSUME NEW e \in Ext, BootNext(e) PROVE TypeOK'
    <2>1. Boot \in Actor /\ "ensure" \in PcLabel
      BY DEF Actor, PcLabel
    <2> QED BY <1>2, <2>1, GoToType DEF BootNext, TypeOK
  <1>3. ASSUME NEW p \in Pid, Dies(p) PROVE TypeOK'
    BY <1>3 DEF Dies, TypeOK
  <1>4. ASSUME NEW e \in Ext, NEW v \in Seen, Edit(e, v) PROVE TypeOK'
    BY <1>4, HostAssumption DEF Edit, TypeOK
  <1>5. CASE UNCHANGED vars
    BY <1>5 DEF vars, TypeOK
  <1> QED BY <1>1, <1>2, <1>3, <1>4, <1>5

-----------------------------------------------------------------------------
(* One server per extension, none that nobody knows                        *)

\* Who connects has the extension's mutex; the extension is in the catalog,
\* may run, and has no client yet.
Connectors ==
    \A t \in Actor : pc[t] = "connecting" =>
        /\ lock[ext[t]] = t
        /\ Known(ext[t]) /\ MayRun(ext[t]) /\ entry[ext[t]].client = None

\* A client is held while it is connected or called.
ConnUsed ==
    \A t \in Actor : conn[t] # None <=> pc[t] \in {"connecting", "inCall"}

\* Only an extension that may run has a client, and an unlocked one has it
\* exactly when it is running.
ClientRuns ==
    \A e \in Ext : Known(e) =>
        /\ entry[e].client # None => MayRun(e)
        /\ lock[e] = None =>
             (entry[e].status = "running" <=> entry[e].client # None)

ServerInv == Connectors /\ ConnUsed /\ ClientRuns /\ NoStrayServer

\* Labels at which a request holds a client.
Holding == {"connecting", "inCall"}

\* A step that moves one request between labels at which it holds no client.
LEMMA QuietStep ==
  ASSUME TypeOK, ServerInv, NEW t \in Actor, NEW l,
         pc[t] \notin Holding, l \notin Holding,
         pc' = [pc EXCEPT ![t] = l],
         UNCHANGED <<entry, lock, conn, alive>>,
         \A u \in Actor \ {t} : ext'[u] = ext[u]
  PROVE  ServerInv'
  <1>1. Connectors'
    BY DEF ServerInv, Connectors, Holding, TypeOK, Known, MayRun
  <1>2. ConnUsed'
    BY DEF ServerInv, ConnUsed, Holding, TypeOK
  <1>3. ClientRuns'
    BY DEF ServerInv, ClientRuns, Known, MayRun
  <1>4. NoStrayServer'
    BY DEF ServerInv, NoStrayServer, Registered, Kept, Known
  <1> QED BY <1>1, <1>2, <1>3, <1>4 DEF ServerInv

\* Replacing an entry by one with the same enabled flag.
LEMMA ReplaceEntry ==
  ASSUME TypeOK, NEW e \in Ext, Known(e), NEW r \in Entry,
         r.enabled = entry[e].enabled, entry' = [entry EXCEPT ![e] = r]
  PROVE  /\ \A d \in Ext : (Known(d)' <=> Known(d)) /\ (MayRun(d)' <=> MayRun(d))
         /\ \A d \in Ext \ {e} : entry'[d] = entry[d]
         /\ entry'[e] = r
  BY EntryAssumption DEF TypeOK, Known, MayRun

\* The requests and the steps of set_enabled are such steps.
LEMMA QuietSteps ==
  ASSUME TypeOK, ServerInv,
         \/ \E t \in Actor : \/ Path(t) \/ ReadManifest(t) \/ OpenManifest(t)
                           \/ WriteManifest(t) \/ Discover(t)
         \/ \E t \in Task, o \in DOMAIN First, e \in Ext : Request(t, o, e)
         \/ \E e \in Ext : BootNext(e)
  PROVE  ServerInv'
  <1>1. ASSUME NEW t \in Actor,
               \/ Path(t) \/ ReadManifest(t) \/ OpenManifest(t)
               \/ WriteManifest(t) \/ Discover(t)
        PROVE  ServerInv'
    <2>1. PICK l \in {"idle", "read", "open", "write", "discover", "apply"} :
            GoTo(t, l)
      BY <1>1 DEF Path, ReadManifest, OpenManifest, WriteManifest, Discover
    <2>2. /\ pc[t] \notin Holding /\ UNCHANGED <<entry, lock, conn, alive, ext>>
      BY <1>1 DEF Path, ReadManifest, OpenManifest, WriteManifest, Discover,
                  Holding, request
    <2>3. l \notin Holding /\ pc' = [pc EXCEPT ![t] = l]
      BY <2>1 DEF GoTo, Holding
    <2> QED BY <2>2, <2>3, QuietStep
  <1>2. ASSUME NEW t \in Task, NEW o \in DOMAIN First, NEW e \in Ext,
               Request(t, o, e)
        PROVE  ServerInv'
    <2>1. First[o] \notin Holding /\ pc[t] \notin Holding /\ t \in Actor
      BY <1>2 DEF First, Holding, Request, Actor
    <2>2. \A u \in Actor \ {t} : ext'[u] = ext[u]
      BY <1>2 DEF Request, TypeOK
    <2> QED BY <1>2, <2>1, <2>2, QuietStep DEF Request
  <1>3. ASSUME NEW e \in Ext, BootNext(e) PROVE ServerInv'
    <2>1. "ensure" \notin Holding /\ pc[Boot] \notin Holding /\ Boot \in Actor
      BY <1>3 DEF Holding, BootNext, Actor
    <2>2. \A u \in Actor \ {Boot} : ext'[u] = ext[u]
      BY <1>3 DEF BootNext, TypeOK
    <2> QED BY <1>3, <2>1, <2>2, QuietStep DEF BootNext, GoTo
  <1> QED BY <1>1, <1>2, <1>3

\* ensure_started.
LEMMA EnsureKeeps ==
  ASSUME TypeOK, ServerInv, NEW t \in Actor, EnsureNothing(t) \/ EnsureFails(t)
  PROVE  ServerInv'
  <1> DEFINE e == ext[t]
  <1>0. /\ e \in Ext /\ pc[t] = "ensure" /\ lock[e] = None
        /\ UNCHANGED <<lock, conn, alive, ext>>
    BY DEF TypeOK, EnsureNothing, EnsureFails, request
  <1>1. PICK l \in {"idle", "lookup"} : pc' = [pc EXCEPT ![t] = l]
    BY DEF EnsureNothing, EnsureFails, GoTo, Started
  <1>2. CASE entry' = entry
    BY <1>0, <1>1, <1>2, QuietStep DEF Holding
  <1>3. CASE entry' # entry
    <2>1. PICK s \in {"disabled", "crashed"} : entry' = [entry EXCEPT ![e].status = s]
      BY <1>3 DEF EnsureNothing, EnsureFails
    <2>2. Known(e) /\ entry[e] \in Entry /\ entry[e].client = None
      <3>1. Known(e) /\ (MayRun(e) => ~Runs(e))
        BY <1>3 DEF EnsureNothing, EnsureFails
      <3> QED BY <1>0, <3>1, EntryType DEF ServerInv, ClientRuns, Runs
    <2>3. /\ \A d \in Ext : (Known(d)' <=> Known(d)) /\ (MayRun(d)' <=> MayRun(d))
                           /\ entry'[d].client = entry[d].client
          /\ \A d \in Ext \ {e} : entry'[d] = entry[d]
          /\ entry'[e].status = s
      BY <1>0, <2>1, <2>2, EntryAssumption DEF TypeOK, Known, MayRun, Entry
    <2>4. Connectors'
      BY <1>0, <1>1, <2>3 DEF ServerInv, Connectors, TypeOK
    <2>5. ConnUsed'
      BY <1>0, <1>1 DEF ServerInv, ConnUsed, TypeOK
    <2>6. ClientRuns'
      BY <1>0, <2>2, <2>3 DEF ServerInv, ClientRuns
    <2>7. NoStrayServer'
      BY <1>0, <2>3 DEF ServerInv, NoStrayServer, Registered, Kept
    <2> QED BY <2>4, <2>5, <2>6, <2>7 DEF ServerInv
  <1> QED BY <1>2, <1>3

\* The start of a server.
LEMMA SpawnKeeps ==
  ASSUME TypeOK, ServerInv, NEW t \in Actor, NEW p \in Pid, Spawn(t, p)
  PROVE  ServerInv'
  <1> DEFINE e == ext[t]
  <1>0. /\ e \in Ext /\ pc[t] = "ensure" /\ lock[e] = None /\ p # None
        /\ Known(e) /\ MayRun(e) /\ ~Runs(e) /\ UNCHANGED ext
        /\ lock' = [lock EXCEPT ![e] = t] /\ conn' = [conn EXCEPT ![t] = p]
        /\ alive' = alive \cup {p} /\ pc' = [pc EXCEPT ![t] = "connecting"]
        /\ entry' = [entry EXCEPT ![e].status = "starting"]
    BY HostNoneAssumption DEF TypeOK, Spawn, NeedsStart, GoTo, request
  <1>1. entry[e] \in Entry /\ entry[e].client = None /\ t # None
    BY <1>0, EntryType, HostNoneAssumption
       DEF ServerInv, ClientRuns, Runs, Actor
  <1>2. /\ \A d \in Ext : (Known(d)' <=> Known(d)) /\ (MayRun(d)' <=> MayRun(d))
                         /\ entry'[d].client = entry[d].client
        /\ \A d \in Ext \ {e} : entry'[d] = entry[d]
    BY <1>0, <1>1, EntryAssumption DEF TypeOK, Known, MayRun, Entry
  <1>3. Connectors'
    <2> SUFFICES ASSUME NEW u \in Actor, pc'[u] = "connecting"
                 PROVE  /\ lock'[ext[u]] = u
                        /\ Known(ext[u])' /\ MayRun(ext[u])'
                        /\ entry'[ext[u]].client = None
      BY <1>0 DEF Connectors
    <2>1. CASE u = t
      BY <1>0, <1>1, <1>2, <2>1 DEF TypeOK
    <2>2. CASE u # t
      <3>1. lock[ext[u]] = u /\ Known(ext[u]) /\ MayRun(ext[u])
            /\ entry[ext[u]].client = None /\ ext[u] \in Ext
        BY <1>0, <2>2 DEF ServerInv, Connectors, TypeOK
      <3>2. ext[u] # e
        BY <1>0, <3>1, HostNoneAssumption DEF Actor
      <3> QED BY <1>0, <1>2, <3>1, <3>2 DEF TypeOK
    <2> QED BY <2>1, <2>2
  <1>4. ConnUsed'
    BY <1>0 DEF ServerInv, ConnUsed, TypeOK
  <1>5. ClientRuns'
    BY <1>0, <1>1, <1>2 DEF ServerInv, ClientRuns, TypeOK
  <1>6. NoStrayServer'
    <2> SUFFICES ASSUME NEW q \in alive' PROVE Registered(q)' \/ Kept(q)'
      BY DEF NoStrayServer
    <2>1. CASE q = p
      BY <1>0, <2>1 DEF Kept, TypeOK
    <2>2. CASE q # p
      <3>1. Registered(q) \/ Kept(q)
        BY <1>0, <2>2 DEF ServerInv, NoStrayServer
      <3>2. conn[t] = None /\ q # None
        BY <1>0, <2>2, HostNoneAssumption DEF ServerInv, ConnUsed, TypeOK
      <3> QED BY <1>0, <1>2, <3>1, <3>2 DEF Registered, Kept, TypeOK
    <2> QED BY <2>1, <2>2
  <1> QED BY <1>3, <1>4, <1>5, <1>6 DEF ServerInv

\* The end of a handshake; there is no client it could replace.
LEMMA ConnectKeeps ==
  ASSUME TypeOK, ServerInv, NEW t \in Actor, Connected(t) \/ ConnectFails(t)
  PROVE  ServerInv'
  <1> DEFINE e == ext[t]
  <1>0. /\ e \in Ext /\ pc[t] = "connecting" /\ UNCHANGED ext
        /\ lock[e] = t /\ Known(e) /\ MayRun(e) /\ entry[e].client = None
        /\ lock' = [lock EXCEPT ![e] = None]
        /\ conn' = [conn EXCEPT ![t] = None]
        /\ conn[t] \in Pid /\ entry[e] \in Entry
    BY EntryType DEF TypeOK, Connected, ConnectFails, request, ServerInv,
                     Connectors, ConnUsed
  <1>1. PICK l \in {"idle", "lookup"} : pc' = [pc EXCEPT ![t] = l]
    BY DEF Connected, ConnectFails, GoTo, Started
  <1>2. /\ \A d \in Ext : (Known(d)' <=> Known(d)) /\ (MayRun(d)' <=> MayRun(d))
        /\ \A d \in Ext \ {e} : entry'[d] = entry[d]
        /\ \/ entry'[e].client = conn[t] /\ entry'[e].status = "running"
           \/ entry'[e].client = None /\ entry'[e].status # "running"
    <2>1. CASE Connected(t)
      <3> DEFINE r == [entry[e] EXCEPT !.status = "running", !.attempts = 0,
                                       !.client = conn[t]]
      <3>1. /\ r \in Entry /\ r.enabled = entry[e].enabled
            /\ r.client = conn[t] /\ r.status = "running"
        <4>1. 0 \in 0..MaxAttempts
          BY HostAssumption
        <4> QED BY <1>0, <4>1 DEF Entry
      <3>2. entry' = [entry EXCEPT ![e] = r]
        BY <1>0, <2>1 DEF Connected, TypeOK
      <3> HIDE DEF r
      <3> QED BY <1>0, <3>1, <3>2, ReplaceEntry
    <2>2. CASE ConnectFails(t)
      <3> DEFINE n == entry[e].attempts + 1
                 a == IF n < MaxAttempts THEN n ELSE MaxAttempts
                 s == IF n < MaxAttempts THEN "crashed" ELSE "broken"
                 r == [entry[e] EXCEPT !.attempts = a, !.status = s]
      <3>1. a \in 0..MaxAttempts /\ s \in {"crashed", "broken"}
        BY <1>0, HostAssumption DEF Entry
      <3>2. entry' = [entry EXCEPT ![e].attempts = a, ![e].status = s]
        BY <2>2 DEF ConnectFails
      <3> HIDE DEF a, s
      <3>3. /\ r \in Entry /\ r.enabled = entry[e].enabled
            /\ r.client = None /\ r.status # "running"
        BY <1>0, <3>1 DEF Entry
      <3>4. entry' = [entry EXCEPT ![e] = r]
        BY <1>0, <3>2 DEF TypeOK
      <3> HIDE DEF r
      <3> QED BY <1>0, <3>3, <3>4, ReplaceEntry
    <2> QED BY <2>1, <2>2
  <1>3. /\ \A q \in alive' : q \in alive /\ q # None
        /\ conn[t] \in alive' => entry'[e].client = conn[t] /\ Known(e)'
    <2>1. CASE Connected(t)
      BY <1>0, <1>2, <2>1, HostNoneAssumption DEF Connected, TypeOK, Entry
    <2>2. CASE ConnectFails(t)
      BY <2>2, HostNoneAssumption DEF ConnectFails, TypeOK
    <2> QED BY <2>1, <2>2
  <1>4. Connectors'
    <2> SUFFICES ASSUME NEW u \in Actor, pc'[u] = "connecting"
                 PROVE  /\ lock'[ext[u]] = u
                        /\ Known(ext[u])' /\ MayRun(ext[u])'
                        /\ entry'[ext[u]].client = None
      BY <1>0 DEF Connectors
    <2>1. u # t /\ pc[u] = "connecting" /\ ext[u] \in Ext
      BY <1>1 DEF TypeOK
    <2>2. lock[ext[u]] = u /\ Known(ext[u]) /\ MayRun(ext[u])
          /\ entry[ext[u]].client = None
      BY <2>1 DEF ServerInv, Connectors
    <2> QED BY <1>0, <1>2, <2>1, <2>2 DEF TypeOK
  <1>5. ConnUsed'
    BY <1>0, <1>1 DEF ServerInv, ConnUsed, TypeOK
  <1>6. ClientRuns'
    BY <1>0, <1>2, HostNoneAssumption DEF ServerInv, ClientRuns, TypeOK
  <1>7. NoStrayServer'
    <2> SUFFICES ASSUME NEW q \in alive' PROVE Registered(q)' \/ Kept(q)'
      BY DEF NoStrayServer
    <2>1. CASE q = conn[t]
      BY <1>0, <1>3, <2>1 DEF Registered
    <2>2. CASE q # conn[t]
      <3>1. q # None /\ (Registered(q) \/ Kept(q))
        BY <1>3 DEF ServerInv, NoStrayServer
      <3>2. CASE Kept(q)
        BY <1>0, <2>2, <3>2 DEF Kept, TypeOK
      <3>3. CASE Registered(q)
        BY <1>0, <1>2, <3>1, <3>3 DEF Registered
      <3> QED BY <3>1, <3>2, <3>3
    <2> QED BY <2>1, <2>2
  <1> QED BY <1>4, <1>5, <1>6, <1>7 DEF ServerInv

\* The two ends of a call.
LEMMA CallKeeps ==
  ASSUME TypeOK, ServerInv, NEW t \in Actor, LookUp(t) \/ CallEnds(t)
  PROVE  ServerInv'
  <1>0. /\ UNCHANGED <<entry, lock, ext>> /\ pc[t] # "connecting"
        /\ ext[t] \in Ext
    BY DEF LookUp, CallEnds, request, TypeOK
  <1>1. PICK l \in {"idle", "inCall"} : pc' = [pc EXCEPT ![t] = l]
    BY DEF LookUp, CallEnds, GoTo
  <1>2. Connectors'
    BY <1>0, <1>1 DEF ServerInv, Connectors, TypeOK, Known, MayRun
  <1>3. ClientRuns'
    BY <1>0 DEF ServerInv, ClientRuns, Known, MayRun
  <1>4. CASE LookUp(t)
    <2>1. conn[t] = None
      BY <1>4 DEF ServerInv, ConnUsed, LookUp
    <2>2. ConnUsed'
      BY <1>4 DEF ServerInv, ConnUsed, LookUp, GoTo, TypeOK
    <2>3. NoStrayServer'
      BY <1>0, <1>4, <2>1, HostNoneAssumption
         DEF ServerInv, NoStrayServer, Registered, Kept, Known, LookUp, TypeOK
    <2> QED BY <1>2, <1>3, <2>2, <2>3 DEF ServerInv
  <1>5. CASE CallEnds(t)
    <2>1. ConnUsed'
      BY <1>5 DEF ServerInv, ConnUsed, CallEnds, GoTo, TypeOK
    <2>2. NoStrayServer'
      <3> SUFFICES ASSUME NEW q \in alive' PROVE Registered(q)' \/ Kept(q)'
        BY DEF NoStrayServer
      <3>1. q \in alive /\ (Registered(q) \/ Kept(q))
        BY <1>5 DEF CallEnds, ServerInv, NoStrayServer
      <3>2. CASE Registered(q)
        BY <1>0, <3>2 DEF Registered, Known
      <3>3. CASE ~Registered(q)
        <4>1. PICK u \in Actor : u # t /\ conn[u] = q
          BY <1>5, <3>1, <3>3 DEF CallEnds, Kept
        <4> QED BY <1>5, <4>1 DEF CallEnds, Kept, TypeOK
      <3> QED BY <3>2, <3>3
    <2> QED BY <1>2, <1>3, <2>1, <2>2 DEF ServerInv
  <1> QED BY <1>4, <1>5

\* stop_one.
LEMMA StopKeeps ==
  ASSUME TypeOK, ServerInv, NEW t \in Actor, Stop(t)
  PROVE  ServerInv'
  <1> DEFINE e == ext[t]
  <1>0. /\ e \in Ext /\ pc[t] = "stop" /\ lock[e] = None
        /\ UNCHANGED <<lock, conn, ext>> /\ entry' = Stopped(e)
    BY DEF Stop, request, TypeOK
  <1>1. PICK l \in {"idle", "ensure"} : pc' = [pc EXCEPT ![t] = l]
    BY DEF Stop, StopReturns, GoTo
  <1>2. CASE ~Known(e)
    <2>1. entry' = entry /\ alive' = alive
      BY <1>0, <1>2 DEF Stop, Stopped
    <2> QED BY <1>0, <1>1, <2>1, QuietStep DEF Holding
  <1>3. CASE Known(e)
    <2>1. /\ entry[e] \in Entry
          /\ entry' = [entry EXCEPT ![e].client = None, ![e].status = "disabled"]
      BY <1>0, <1>3, EntryType DEF Stopped
    <2>2. /\ \A d \in Ext : (Known(d)' <=> Known(d)) /\ (MayRun(d)' <=> MayRun(d))
          /\ \A d \in Ext \ {e} : entry'[d] = entry[d]
          /\ entry'[e].client = None /\ entry'[e].status = "disabled"
      <3> DEFINE r == [entry[e] EXCEPT !.client = None, !.status = "disabled"]
      <3>1. /\ r \in Entry /\ r.enabled = entry[e].enabled
            /\ r.client = None /\ r.status = "disabled"
        BY <2>1 DEF Entry
      <3>2. entry' = [entry EXCEPT ![e] = r]
        BY <1>0, <2>1 DEF TypeOK
      <3> HIDE DEF r
      <3> QED BY <1>0, <1>3, <3>1, <3>2, ReplaceEntry
    <2>3. Connectors'
      <3> SUFFICES ASSUME NEW u \in Actor, pc'[u] = "connecting"
                   PROVE  /\ lock[ext[u]] = u
                          /\ Known(ext[u])' /\ MayRun(ext[u])'
                          /\ entry'[ext[u]].client = None
        BY <1>0 DEF Connectors
      <3>1. pc[u] = "connecting" /\ ext[u] \in Ext
        BY <1>0, <1>1 DEF TypeOK
      <3>2. /\ lock[ext[u]] = u /\ Known(ext[u]) /\ MayRun(ext[u])
            /\ entry[ext[u]].client = None
        BY <3>1 DEF ServerInv, Connectors
      <3> QED BY <1>0, <2>2, <3>1, <3>2
    <2>4. ConnUsed'
      BY <1>0, <1>1 DEF ServerInv, ConnUsed, TypeOK
    <2>5. ClientRuns'
      BY <1>0, <2>2 DEF ServerInv, ClientRuns
    <2>6. NoStrayServer'
      <3> SUFFICES ASSUME NEW q \in alive' PROVE Registered(q)' \/ Kept(q)'
        BY DEF NoStrayServer
      <3>1. q \in alive /\ (q = entry[e].client => Kept(q))
        BY <1>3 DEF Stop
      <3>2. Registered(q) \/ Kept(q)
        BY <3>1 DEF ServerInv, NoStrayServer
      <3>3. CASE Kept(q)
        BY <1>0, <3>3 DEF Kept
      <3>4. CASE Registered(q) /\ ~Kept(q)
        BY <2>2, <3>1, <3>4 DEF Registered
      <3> QED BY <3>2, <3>3, <3>4
    <2> QED BY <2>3, <2>4, <2>5, <2>6 DEF ServerInv
  <1> QED BY <1>2, <1>3

\* A refresh finds no one connecting, and leaves known extensions alone.
LEMMA ApplyKeeps ==
  ASSUME TypeOK, ServerInv, NEW t \in Actor, Apply(t)
  PROVE  ServerInv'
  <1>0. /\ UNCHANGED <<lock, conn, ext>> /\ pc[t] = "apply"
        /\ \A e \in Ext : lock[e] = None
    BY DEF Apply
  <1>1. PICK l \in {"idle", "ensure", "stop"} : pc' = [pc EXCEPT ![t] = l]
    BY DEF Apply, GoTo, Refreshed
  <1>2. PICK gone : /\ gone \subseteq Ext /\ entry' = Catalog(t, gone)
                    /\ alive' = alive \ Discarded(gone)
    <2>1. PICK failed \in Faulty :
            /\ entry' = Catalog(t, Gone(t, failed))
            /\ alive' = alive \ Discarded(Gone(t, failed))
      BY DEF Apply
    <2>2. Gone(t, failed) \subseteq Ext
      BY DEF Gone
    <2> QED BY <2>1, <2>2
  <1>3. \A u \in Actor : pc[u] # "connecting"
    BY <1>0, HostNoneAssumption DEF ServerInv, Connectors, TypeOK, Actor
  <1>4. Connectors'
    BY <1>1, <1>3 DEF Connectors, TypeOK
  <1>5. ConnUsed'
    BY <1>0, <1>1 DEF ServerInv, ConnUsed, TypeOK
  <1>6. ClientRuns'
    <2> SUFFICES ASSUME NEW e \in Ext, Known(e)'
                 PROVE  /\ entry'[e].client # None => MayRun(e)'
                        /\ entry'[e].status = "running" <=> entry'[e].client # None
      BY <1>0 DEF ClientRuns
    <2>1. CASE entry'[e] = entry[e] /\ Known(e)
      BY <1>0, <2>1 DEF ServerInv, ClientRuns, MayRun
    <2>2. CASE entry'[e] = FromRecord(e, seen[t][e] = "enabled")
      BY <2>2 DEF FromRecord
    <2>3. entry'[e] # None
      BY DEF Known
    <2> QED BY <1>2, <2>1, <2>2, <2>3 DEF Catalog, Known
  <1>7. NoStrayServer'
    <2> SUFFICES ASSUME NEW q \in alive' PROVE Registered(q)' \/ Kept(q)'
      BY DEF NoStrayServer
    <2>1. q \in alive /\ q \notin Discarded(gone) /\ (Registered(q) \/ Kept(q))
      BY <1>2 DEF ServerInv, NoStrayServer
    <2>2. CASE Kept(q)
      BY <1>0, <2>2 DEF Kept
    <2>3. CASE Registered(q) /\ ~Kept(q)
      <3>1. PICK e \in Ext : Known(e) /\ entry[e].client = q
        BY <2>3 DEF Registered
      <3>2. e \notin gone
        BY <2>1, <2>3, <3>1 DEF Discarded
      <3> QED BY <1>2, <3>1, <3>2 DEF Registered, Catalog, Known
    <2> QED BY <2>1, <2>2, <2>3
  <1> QED BY <1>4, <1>5, <1>6, <1>7 DEF ServerInv

\* Nobody's labels change when a server dies or the user edits a manifest.
LEMMA OutsideKeeps ==
  ASSUME TypeOK, ServerInv,
         \/ \E p \in Pid : Dies(p)
         \/ \E e \in Ext, v \in Seen : Edit(e, v)
         \/ UNCHANGED vars
  PROVE  ServerInv'
  <1>1. UNCHANGED <<entry, lock, pc, ext, conn>> /\ alive' \subseteq alive
    BY DEF Dies, Edit, vars
  <1> QED BY <1>1 DEF ServerInv, Connectors, ConnUsed, ClientRuns, NoStrayServer,
                      Registered, Kept, Known, MayRun

-----------------------------------------------------------------------------
(* A connection under way is known to no one else                          *)

FreshConn ==
    \A t \in Actor : pc[t] = "connecting" =>
        /\ \A e \in Ext : Known(e) => entry[e].client # conn[t]
        /\ \A u \in Actor \ {t} : conn[u] # conn[t]

\* A step that starts no connection and hands out no client.
LEMMA NoNewClient ==
  ASSUME ConnUsed, FreshConn,
         \A u \in Actor : pc'[u] = "connecting" =>
            pc[u] = "connecting" /\ conn'[u] = conn[u],
         \A u \in Actor : conn'[u] \in {conn[u], None},
         \A e \in Ext : Known(e)' =>
            entry'[e].client = None \/ (Known(e) /\ entry'[e].client = entry[e].client)
  PROVE  FreshConn'
  BY DEF ConnUsed, FreshConn

\* Every step keeps connections fresh: a client is handed out by the catalog
\* or by a Spawn, which takes a process nobody refers to.
LEMMA FreshStep ==
  ASSUME TypeOK, ServerInv, FreshConn, [Next]_vars
  PROVE  FreshConn'
  <1>0. ConnUsed
    BY DEF ServerInv
  <1>1. ASSUME NEW t \in Actor, NEW p \in Pid, Spawn(t, p)
        PROVE  FreshConn'
    <2>1. /\ Known(ext[t]) /\ ext[t] \in Ext
          /\ entry' = [entry EXCEPT ![ext[t]].status = "starting"]
          /\ conn' = [conn EXCEPT ![t] = p] /\ ~Registered(p) /\ ~Kept(p)
          /\ pc' = [pc EXCEPT ![t] = "connecting"] /\ pc[t] = "ensure"
      BY <1>1 DEF Spawn, NeedsStart, GoTo, TypeOK
    <2>2. \A d \in Ext : (Known(d)' => Known(d)) /\ entry'[d].client = entry[d].client
      BY <2>1, EntryType, EntryAssumption DEF TypeOK, Known, Entry
    <2> SUFFICES ASSUME NEW u \in Actor, pc'[u] = "connecting"
                 PROVE  /\ \A e \in Ext : Known(e)' => entry'[e].client # conn'[u]
                        /\ \A v \in Actor \ {u} : conn'[v] # conn'[u]
      BY DEF FreshConn
    <2>3. CASE u = t
      BY <2>1, <2>2, <2>3 DEF Registered, Kept, TypeOK
    <2>4. CASE u # t
      BY <2>1, <2>2, <2>4 DEF FreshConn, Kept, TypeOK
    <2> QED BY <2>3, <2>4
  <1>2. ASSUME NEW t \in Actor, Connected(t)
        PROVE  FreshConn'
    <2>1. /\ Known(ext[t]) /\ ext[t] \in Ext /\ entry[ext[t]] \in Entry
          /\ pc[t] = "connecting" /\ conn[t] # None
      BY <1>2, EntryType DEF Connected, ServerInv, Connectors, ConnUsed, TypeOK
    <2>2. /\ \A d \in Ext \ {ext[t]} : entry'[d] = entry[d]
          /\ entry'[ext[t]].client = conn[t]
      BY <1>2, <2>1 DEF Connected, TypeOK, Entry
    <2>3. /\ conn' = [conn EXCEPT ![t] = None]
          /\ \A u \in Actor : pc'[u] = "connecting" => u # t /\ pc[u] = "connecting"
      BY <1>2 DEF Connected, GoTo, Started, TypeOK
    <2> QED BY <1>0, <2>1, <2>2, <2>3 DEF FreshConn, ConnUsed, Known, TypeOK
  <1>3. ASSUME NEW t \in Actor, LookUp(t)
        PROVE  FreshConn'
    <2>1. /\ UNCHANGED entry /\ ext[t] \in Ext
          /\ \A u \in Actor : pc'[u] = "connecting" => u # t /\ pc[u] = "connecting"
          /\ \A u \in Actor \ {t} : conn'[u] = conn[u]
          /\ \/ conn'[t] = conn[t]
             \/ Known(ext[t]) /\ conn'[t] = entry[ext[t]].client
      BY <1>3 DEF LookUp, GoTo, TypeOK
    <2> QED BY <2>1 DEF FreshConn, Known
  <1>4. ASSUME NEW t \in Actor, ConnectFails(t)
        PROVE  FreshConn'
    <2>1. Known(ext[t]) /\ ext[t] \in Ext /\ entry[ext[t]] \in Entry
      BY <1>4, EntryType DEF ConnectFails, ServerInv, Connectors, TypeOK
    <2>2. \A e \in Ext : (Known(e)' => Known(e)) /\ entry'[e].client = entry[e].client
      <3>1. PICK n, s : entry' = [entry EXCEPT ![ext[t]].attempts = n,
                                               ![ext[t]].status = s]
        BY <1>4 DEF ConnectFails
      <3>2. entry'[ext[t]].client = entry[ext[t]].client
        BY <2>1, <3>1 DEF TypeOK, Entry
      <3> QED BY <2>1, <3>1, <3>2 DEF TypeOK, Known
    <2>3. /\ conn' = [conn EXCEPT ![t] = None]
          /\ \A u \in Actor : pc'[u] = "connecting" => u # t /\ pc[u] = "connecting"
      BY <1>4 DEF ConnectFails, GoTo, TypeOK
    <2> QED BY <1>0, <2>2, <2>3, NoNewClient DEF TypeOK
  <1>5. ASSUME NEW t \in Actor, EnsureNothing(t) \/ EnsureFails(t) \/ Stop(t)
        PROVE  FreshConn'
    <2>1. /\ UNCHANGED conn /\ ext[t] \in Ext
          /\ \A u \in Actor : pc'[u] = "connecting" => pc[u] = "connecting"
      BY <1>5 DEF EnsureNothing, EnsureFails, Stop, StopReturns, Started, GoTo, TypeOK
    <2>2. \A e \in Ext : Known(e)' =>
            entry'[e].client = None \/ (Known(e) /\ entry'[e].client = entry[e].client)
      <3>1. CASE Stop(t)
        <4>1. CASE ~Known(ext[t])
          BY <3>1, <4>1 DEF Stop, Stopped, Known
        <4>2. CASE Known(ext[t])
          <5>1. entry' = [entry EXCEPT ![ext[t]].client = None,
                                       ![ext[t]].status = "disabled"]
            BY <3>1, <4>2 DEF Stop, Stopped
          <5>2. entry[ext[t]] \in Entry
            BY <2>1, <4>2, EntryType
          <5>3. entry'[ext[t]].client = None
            BY <2>1, <5>1, <5>2 DEF TypeOK, Entry
          <5>4. \A d \in Ext \ {ext[t]} : entry'[d] = entry[d]
            BY <5>1 DEF TypeOK
          <5> SUFFICES ASSUME NEW e \in Ext, Known(e)'
                       PROVE  \/ entry'[e].client = None
                              \/ Known(e) /\ entry'[e].client = entry[e].client
            BY DEF Known
          <5>5. CASE e = ext[t]
            BY <5>3, <5>5
          <5>6. CASE e # ext[t]
            <6>1. entry'[e] = entry[e]
              BY <5>4, <5>6
            <6> QED BY <6>1 DEF Known
          <5> QED BY <5>5, <5>6
        <4> QED BY <4>1, <4>2
      <3>2. CASE entry' = entry
        BY <3>2 DEF Known
      <3>3. CASE entry' # entry /\ (EnsureNothing(t) \/ EnsureFails(t))
        <4>1. /\ Known(ext[t])
              /\ \E s : entry' = [entry EXCEPT ![ext[t]].status = s]
          BY <3>3 DEF EnsureNothing, EnsureFails
        <4> QED BY <2>1, <4>1, EntryType DEF Known, TypeOK, Entry
      <3> QED BY <1>5, <3>1, <3>2, <3>3
    <2> QED BY <1>0, <2>1, <2>2, NoNewClient
  <1>6. ASSUME NEW t \in Actor, Apply(t)
        PROVE  FreshConn'
    <2>1. \A u \in Actor : pc[u] # "connecting"
      BY <1>6, HostNoneAssumption
         DEF Apply, ServerInv, Connectors, TypeOK, Actor
    <2> QED BY <1>6, <2>1 DEF Apply, GoTo, Refreshed, FreshConn, TypeOK
  <1>7. ASSUME NEW t \in Actor, \/ CallEnds(t) \/ Path(t) \/ ReadManifest(t)
                                \/ OpenManifest(t) \/ WriteManifest(t) \/ Discover(t)
        PROVE  FreshConn'
    <2>1. /\ UNCHANGED entry
          /\ \A u \in Actor : pc'[u] = "connecting" =>
                pc[u] = "connecting" /\ conn'[u] = conn[u]
          /\ \A u \in Actor : conn'[u] \in {conn[u], None}
      BY <1>7 DEF CallEnds, Path, ReadManifest, OpenManifest, WriteManifest,
                  Discover, GoTo, TypeOK
    <2> QED BY <1>0, <2>1, NoNewClient DEF Known
  <1>8. CASE \/ \E t \in Task, o \in DOMAIN First, e \in Ext : Request(t, o, e)
             \/ \E e \in Ext : BootNext(e)
             \/ \E p \in Pid : Dies(p)
             \/ \E e \in Ext, v \in Seen : Edit(e, v)
             \/ UNCHANGED vars
    <2>1. /\ UNCHANGED <<entry, conn>>
          /\ \A u \in Actor : pc'[u] = "connecting" => pc[u] = "connecting"
      BY <1>8 DEF Request, BootNext, Dies, Edit, vars, First, GoTo, TypeOK
    <2> QED BY <1>0, <2>1, NoNewClient DEF Known
  <1> QED BY <1>1, <1>2, <1>3, <1>4, <1>5, <1>6, <1>7, <1>8
          DEF Next, Locking, Proceed

-----------------------------------------------------------------------------
(* Theorems                                                                *)

HostInv == TypeOK /\ ServerInv

\* Every step keeps the types and the server invariant.
LEMMA HostStep == HostInv /\ [Next]_vars => HostInv'
  <1> SUFFICES ASSUME HostInv, [Next]_vars PROVE HostInv'
    OBVIOUS
  <1>0. TypeOK /\ ServerInv
    BY DEF HostInv
  <1>1. ASSUME NEW t \in Actor, Locking(t) \/ Proceed(t) PROVE HostInv'
    <2>1. pc[t] = "connecting" => Known(ext[t])
      BY <1>0 DEF ServerInv, Connectors
    <2>2. CASE EnsureNothing(t) \/ EnsureFails(t)
      BY <1>0, <2>1, <2>2, EnsureType, EnsureKeeps DEF HostInv
    <2>3. CASE \E p \in Pid : Spawn(t, p)
      BY <1>0, <2>1, <2>3, EnsureType, SpawnKeeps DEF HostInv
    <2>4. CASE Connected(t) \/ ConnectFails(t)
      BY <1>0, <2>1, <2>4, EnsureType, ConnectKeeps DEF HostInv
    <2>5. CASE LookUp(t) \/ CallEnds(t)
      BY <1>0, <2>5, CallType, CallKeeps DEF HostInv
    <2>6. CASE Stop(t)
      BY <1>0, <2>6, CallType, StopKeeps DEF HostInv
    <2>7. CASE Path(t) \/ ReadManifest(t) \/ OpenManifest(t) \/ WriteManifest(t)
      BY <1>0, <2>7, CallType, QuietSteps DEF HostInv
    <2>8. CASE Discover(t)
      BY <1>0, <2>8, RefreshType, QuietSteps DEF HostInv
    <2>9. CASE Apply(t)
      BY <1>0, <2>9, RefreshType, ApplyKeeps DEF HostInv
    <2> QED BY <1>1, <2>2, <2>3, <2>4, <2>5, <2>6, <2>7, <2>8, <2>9
            DEF Locking, Proceed
  <1>2. CASE \/ \E t \in Task, o \in DOMAIN First, e \in Ext : Request(t, o, e)
             \/ \E e \in Ext : BootNext(e)
    BY <1>0, <1>2, OtherType, QuietSteps DEF HostInv
  <1>3. CASE \/ \E p \in Pid : Dies(p)
             \/ \E e \in Ext, v \in Seen : Edit(e, v)
             \/ UNCHANGED vars
    BY <1>0, <1>3, OtherType, OutsideKeeps DEF HostInv
  <1> QED BY <1>1, <1>2, <1>3 DEF Next

\* At start-up no server runs and no one connects.
LEMMA HostInit == Init => HostInv
  <1> SUFFICES ASSUME Init PROVE HostInv
    OBVIOUS
  <1>1. Connectors /\ ConnUsed /\ NoStrayServer
    BY DEF Init, Connectors, ConnUsed, NoStrayServer
  <1>2. ClientRuns
    BY DEF Init, ClientRuns, Known, FromRecord
  <1> QED BY <1>1, <1>2, InitType DEF HostInv, ServerInv

\* The state of the extension host keeps its types (host.rs).
THEOREM HostTyped == Spec => []TypeOK
  <1>1. HostInv => TypeOK
    BY DEF HostInv
  <1> QED BY <1>1, HostInit, HostStep, PTL DEF Spec

\* The mutex held across connect_stdio (host.rs:251-285) leaves an extension
\* one server, however requests and refreshes interleave.
THEOREM OneServerEach == Spec => []SoleServer
  <1>1. HostInv => SoleServer
    <2> SUFFICES ASSUME HostInv PROVE SoleServer
      OBVIOUS
    <2>1. ASSUME NEW e \in Ext, NEW p \in Servers(e), NEW q \in Servers(e)
          PROVE  p = q
      <3>1. p # None /\ q # None
        BY HostNoneAssumption DEF Servers
      <3> QED BY <3>1 DEF HostInv, ServerInv, Connectors, Servers
    <2>2. ASSUME NEW e \in Ext, Known(e), lock[e] = None
          PROVE  entry[e].status = "running" <=> entry[e].client # None
      BY <2>2 DEF HostInv, ServerInv, ClientRuns
    <2> QED BY <2>1, <2>2 DEF SoleServer
  <1> QED BY <1>1, HostInit, HostStep, PTL DEF Spec

\* Failed handshakes, stops, removals and ends of calls leave no process that
\* neither the catalog nor a request knows (Arc, kill_on_drop).
THEOREM ServersAccountedFor == Spec => []NoStrayServer
  <1>1. HostInv => NoStrayServer
    BY DEF HostInv, ServerInv
  <1> QED BY <1>1, HostInit, HostStep, PTL DEF Spec

\* The catalog keeps a reference of its own (Arc::try_unwrap, host.rs:330):
\* no stop, removal or other call kills a server under a call.
THEOREM CallsKeepServers == Spec => CallKeepsServer
  <1> DEFINE Inv == HostInv /\ FreshConn
             Kill == \A t \in Actor :
                       /\ pc[t] = "inCall" /\ pc'[t] = "inCall"
                       /\ conn[t] \in alive \ alive'
                       => Dies(conn[t])
  <1>1. Init => Inv
    <2>1. Init => FreshConn
      BY DEF Init, FreshConn
    <2> QED BY <2>1, HostInit
  <1>2. Inv /\ [Next]_vars => Inv'
    BY HostStep, FreshStep DEF HostInv
  <1>3. Inv /\ [Next]_vars => [Kill]_vars
    <2> SUFFICES ASSUME Inv, Next, NEW t \in Actor,
                        pc[t] = "inCall", pc'[t] = "inCall",
                        conn[t] \in alive, conn[t] \notin alive'
                 PROVE  Dies(conn[t])
      OBVIOUS
    <2>0. TypeOK /\ ServerInv /\ FreshConn /\ Kept(conn[t])
      BY DEF HostInv, Kept
    <2>1. ASSUME NEW u \in Actor, Locking(u) \/ Proceed(u) PROVE FALSE
      <3>1. CASE Connected(u)
        BY <2>0, <3>1 DEF Connected, ServerInv, ConnUsed, Connectors
      <3>2. CASE ConnectFails(u)
        BY <2>0, <3>2 DEF ConnectFails, FreshConn
      <3>3. CASE CallEnds(u)
        <4>1. u # t /\ conn[u] = conn[t]
          BY <3>3 DEF CallEnds, GoTo, TypeOK, HostInv
        <4> QED BY <3>3, <4>1 DEF CallEnds
      <3>4. CASE Stop(u)
        BY <2>0, <3>4 DEF Stop
      <3>5. CASE Apply(u)
        BY <2>0, <3>5 DEF Apply, Discarded
      <3>6. CASE \E p \in Pid : Spawn(u, p)
        BY <3>6 DEF Spawn
      <3> QED BY <2>1, <3>1, <3>2, <3>3, <3>4, <3>5, <3>6
              DEF Locking, Proceed, EnsureNothing, EnsureFails, LookUp, Path,
                  ReadManifest, OpenManifest, WriteManifest, Discover
    <2>2. ASSUME NEW p \in Pid, Dies(p) PROVE p = conn[t]
      BY <2>2 DEF Dies
    <2> QED BY <2>1, <2>2 DEF Next, Request, BootNext, Edit
  <1> QED BY <1>1, <1>2, <1>3, PTL DEF Spec, CallKeepsServer
=============================================================================
