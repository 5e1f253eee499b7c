------------------------------ MODULE Consent ------------------------------
(***************************************************************************)
(* The harness's per-tool consent gate: the decision store in              *)
(* consent.json, the gate every tool dispatch passes, the registry of      *)
(* pending prompts and its event stream (tooling/consent.rs,               *)
(* tooling/runner/mod.rs, api/consent.rs, api/mod.rs), and the chat        *)
(* panel's consent cards that live on that stream (chat_panel.rs).         *)
(*                                                                         *)
(* Dispatches and consent.* requests run concurrently.  The store and the  *)
(* pending registry have a lock each, held for one method; between the     *)
(* store's answer and the registry's update anything may happen.           *)
(*                                                                         *)
(* A file is a function of the tools and of NoAuth, whose entry is         *)
(* "approved" when no_auth is set.  An absent file is the empty one.       *)
(***************************************************************************)
EXTENDS Integers, Sequences

CONSTANTS
    Tool, NoAuth,
    Destructive,     \* tools whose registry entry says destructive
    Dispatch,        \* concurrent dispatch_tool calls
    Op,              \* concurrent consent.* requests
    Cap,             \* capacity of the event channel
    MaxPrompts,      \* bound: prompts recorded
    MaxGrants,       \* bound: one-time approvals given
    PersistMayFail,  \* whether writing consent.json may fail
    ReadMayFail,     \* whether reading or parsing it may fail
    None

Key == Tool \cup {NoAuth}
Decision == {"approved", "denied"}
File == [Key -> Decision \cup {None}]
Id == 1..MaxPrompts
Event == [type : {"pending", "resolved"}, id : Id, tool : Tool]

\* What subscribe_pending hands out: the entries copied, the receiver's events
\* and whether it will be told that it lags.
Subscription == [snap : SUBSET [id : Id, tool : Tool], rx : Seq(Event),
                 lagged : BOOLEAN]

ASSUME ConsentAssumption ==
    /\ NoAuth \notin Tool /\ Destructive \subseteq Tool
    /\ Cap \in Nat \ {0} /\ MaxPrompts \in Nat /\ MaxGrants \in Nat
    /\ PersistMayFail \in BOOLEAN /\ ReadMayFail \in BOOLEAN
    /\ None \notin Decision /\ None \notin Int
    /\ None \notin Tool /\ None \notin Subscription

VARIABLES
    file,     \* ConsentInner.file
    loaded,   \* ConsentInner.loaded
    oneTime,  \* ConsentInner.one_time
    disk,     \* consent.json
    pending,  \* PendingState.entries: the id of a tool's entry, or None
    prompts,  \* prompts recorded so far
    disp,     \* each dispatch: where it is, and its tool
    op,       \* each request: what is left of it to do
    sub,      \* the panel's subscription: snapshot, channel, lag; or None
    cards,    \* ChatPanel.pending_consents: the tool of a prompt's card
    failed,   \* keys whose last change need not be on disk (history)
    granted,  \* one-time approvals given (history)
    covered,  \* runs that nothing but such an approval covers (history)
    missed,   \* prompts whose card is gone and not answered (history)
    stale     \* prompts whose end the panel was not told (history)

store == <<file, loaded, oneTime, disk>>
stream == <<pending, prompts, sub>>
panel == <<cards, missed, stale>>
vars == <<store, stream, disp, op, panel, failed, granted, covered>>

Idle == [pc |-> "idle"]
Empty == [k \in Key |-> None]

Init ==
    /\ file = Empty /\ loaded = FALSE /\ disk = Empty
    /\ oneTime = [t \in Tool |-> None]
    /\ pending = [t \in Tool |-> None] /\ prompts = 0
    /\ disp = [x \in Dispatch |-> Idle]
    /\ op = [o \in Op |-> Idle]
    /\ sub = None
    /\ cards = [i \in Id |-> None]
    /\ failed = {}
    /\ granted = [t \in Tool |-> 0] /\ covered = [t \in Tool |-> 0]
    /\ missed = {} /\ stale = {}

-----------------------------------------------------------------------------
(* The store's file                                                        *)

\* ensure_loaded: what is in memory once the file has been read.  A read that
\* fails counts as an empty file.
Load == IF loaded THEN {file}
        ELSE {disk} \cup IF ReadMayFail THEN {Empty} ELSE {}

\* The keys whose stored decision such a read forgets.
Forgotten(f) == IF loaded THEN {} ELSE {k \in Key : f[k] # disk[k]}

\* Mutant of Persist: the file is replaced only when it was there already.
Persist_Skips(f) == disk' = IF disk = Empty THEN disk ELSE f

\* persist: a temporary file is renamed over consent.json.
Persist(f) == disk' = f

-----------------------------------------------------------------------------
(* The event stream                                                        *)

\* broadcast::Sender::send: a full channel loses its oldest event, and the
\* receiver will be told that it lags.
Send(e) ==
    sub' = IF sub = None THEN None
           ELSE IF Len(sub.rx) < Cap
           THEN [sub EXCEPT !.rx = Append(@, e)]
           ELSE [sub EXCEPT !.rx = Append(Tail(@), e), !.lagged = TRUE]

\* The prompts whose event of the given type one more event pushes out.
Overrun(type) ==
    IF sub # None /\ Len(sub.rx) = Cap /\ sub.rx[1].type = type
    THEN {sub.rx[1].id} ELSE {}

\* Mutant of Subscribe: the entries that are there already are not sent.
Subscribe_NoSnapshot ==
    /\ sub = None
    /\ sub' = [snap |-> {}, rx |-> <<>>, lagged |-> FALSE]
    /\ UNCHANGED <<store, pending, prompts, disp, op, panel, failed,
                   granted, covered>>

\* subscribe_pending, called by the panel whenever it has no stream: the
\* receiver and a copy of the entries, under one lock.  The panel keeps the
\* cards it has.
Subscribe ==
    /\ sub = None
    /\ sub' = [snap |-> {[id |-> pending[t], tool |-> t] :
                            t \in {u \in Tool : pending[u] # None}},
               rx |-> <<>>, lagged |-> FALSE]
    /\ UNCHANGED <<store, pending, prompts, disp, op, panel, failed,
                   granted, covered>>

\* A copied entry reaches the panel.
DeliverSnapshot(e) ==
    /\ sub # None /\ e \in sub.snap
    /\ sub' = [sub EXCEPT !.snap = @ \ {e}]
    /\ cards' = [cards EXCEPT ![e.id] = e.tool]
    /\ UNCHANGED <<store, pending, prompts, disp, op, missed, stale, failed,
                   granted, covered>>

\* Then the events do: a card appears or goes.
DeliverEvent ==
    /\ sub # None /\ sub.snap = {} /\ ~sub.lagged /\ sub.rx # <<>>
    /\ LET e == sub.rx[1] IN
       cards' = [cards EXCEPT ![e.id] =
                   IF e.type = "pending" THEN e.tool ELSE None]
    /\ sub' = [sub EXCEPT !.rx = Tail(@)]
    /\ UNCHANGED <<store, pending, prompts, disp, op, missed, stale, failed,
                   granted, covered>>

\* The lagged chunk, which the panel ignores.
DeliverLagged ==
    /\ sub # None /\ sub.snap = {} /\ sub.lagged
    /\ sub' = [sub EXCEPT !.lagged = FALSE]
    /\ UNCHANGED <<store, pending, prompts, disp, op, panel, failed,
                   granted, covered>>

\* The prompts whose end is still in the channel.
Undelivered ==
    IF sub = None THEN {}
    ELSE {sub.rx[k].id : k \in {j \in 1..Len(sub.rx) :
                                  sub.rx[j].type = "resolved"}}

\* The stream breaks, with what is in it.
Break ==
    /\ sub # None
    /\ sub' = None
    /\ stale' = stale \cup Undelivered
    /\ UNCHANGED <<store, pending, prompts, disp, op, cards, missed, failed,
                   granted, covered>>

-----------------------------------------------------------------------------
(* A dispatch                                                              *)

\* check_registry_tier: read_only runs nothing, destructive_tool_access
\* everything, any other tier what is not destructive.
TierAllows(tier, t) ==
    \/ tier = "destructive_tool_access"
    \/ tier = "tool_use" /\ t \notin Destructive

\* Mutant of Spend: the one-time decision is looked up and left.
Spend_Keeps(t) == UNCHANGED oneTime

\* A one-time decision is removed by the check that finds it.
Spend(t) == oneTime' = [oneTime EXCEPT ![t] = None]

\* ConsentStore::check with file f.
Outcome(f, t) ==
    IF f[NoAuth] = "approved" THEN "approved"
    ELSE IF oneTime[t] # None THEN oneTime[t]
    ELSE f[t]

\* dispatch_tool up to the gate's answer.  An approval runs the handler, and
\* so does a confirmation if the tool is undecided; a denial ends the call; an
\* undecided one goes on to be recorded.  A tier that forbids the tool ends
\* the call before the gate.
Check(x, t, tier, confirm) ==
    /\ disp[x].pc = "idle"
    /\ TierAllows(tier, t)
    /\ \E f \in Load :
        LET out == Outcome(f, t)
            runs == out = "approved" \/ (out = None /\ confirm)
            due == \/ f[NoAuth] = "approved" \/ f[t] = "approved"
                   \/ f[t] = None /\ confirm
        IN
        /\ file' = f /\ loaded' = TRUE
        /\ failed' = failed \cup Forgotten(f)
        /\ IF f[NoAuth] = "approved" THEN UNCHANGED oneTime ELSE Spend(t)
        /\ disp' = [disp EXCEPT ![x] =
                      IF runs THEN [pc |-> "run", tool |-> t]
                      ELSE IF out = None THEN [pc |-> "record", tool |-> t]
                      ELSE Idle]
        /\ covered' = IF runs /\ ~due THEN [covered EXCEPT ![t] = @ + 1]
                      ELSE covered
    /\ UNCHANGED <<disk, stream, op, panel, granted>>

\* record_pending: a tool has one entry at most, and only a new one is
\* announced.  The dispatch is answered with consent_required.
RecordPending(x) ==
    /\ disp[x].pc = "record"
    /\ LET t == disp[x].tool IN
       IF pending[t] # None THEN UNCHANGED <<stream, missed, stale>>
       ELSE /\ prompts < MaxPrompts
            /\ prompts' = prompts + 1
            /\ pending' = [pending EXCEPT ![t] = prompts + 1]
            /\ Send([type |-> "pending", id |-> prompts + 1, tool |-> t])
            /\ missed' = missed \cup Overrun("pending")
            /\ stale' = stale \cup Overrun("resolved")
    /\ disp' = [disp EXCEPT ![x] = Idle]
    /\ UNCHANGED <<store, op, cards, failed, granted, covered>>

\* The handler has run.
Finish(x) ==
    /\ disp[x].pc = "run"
    /\ disp' = [disp EXCEPT ![x] = Idle]
    /\ UNCHANGED <<store, stream, op, panel, failed, granted, covered>>

-----------------------------------------------------------------------------
(* consent.set, consent.respond, consent.clear, consent.set_no_auth,       *)
(* consent.reset                                                           *)

\* What a request asks: a decision on a key or None to clear it, whether for
\* one time, and the prompt whose card it answers.
Ask == [key : Key, val : Decision \cup {None}, once : BOOLEAN,
        id : Id \cup {None}]

\* Requests from elsewhere than a card come as they please.
Elsewhere ==
    {q \in [key : Key, val : Decision \cup {None}, once : BOOLEAN,
            id : {None}] :
        IF q.once THEN q.key # NoAuth /\ q.val # None
        ELSE q.key = NoAuth => q.val # "denied"}

\* The requests that handler o may begin with.
Arriving(o) == IF op[o].pc = "asked" THEN {op[o].ask}
               ELSE IF op[o].pc = "idle" THEN Elsewhere ELSE {}

\* A card is clicked: Allow, Once or Deny.  The card goes, and the request
\* is sent.
Click(o, i, v, once) ==
    /\ op[o].pc = "idle" /\ cards[i] # None
    /\ once => v = "approved"
    /\ cards' = [cards EXCEPT ![i] = None]
    /\ op' = [op EXCEPT ![o] =
                [pc |-> "asked",
                 ask |-> [key |-> cards[i], val |-> v, once |-> once,
                          id |-> i]]]
    /\ UNCHANGED <<store, stream, disp, missed, stale, failed, granted,
                   covered>>

\* The prompt a request that fails was to answer.
Unanswered(q) == IF q.id = None THEN {} ELSE {q.id}

\* The request does not reach the harness.
Unreached(o) ==
    /\ op[o].pc = "asked"
    /\ missed' = missed \cup Unanswered(op[o].ask)
    /\ op' = [op EXCEPT ![o] = Idle]
    /\ UNCHANGED <<store, stream, disp, cards, stale, failed, granted,
                   covered>>

\* What follows the store's part: a tool's prompt is resolved.
Resolving(k) == IF k = NoAuth THEN Idle ELSE [pc |-> "resolve", tool |-> k]

\* set, clear and set_no_auth: memory first, then the disk.
Remember(o, q) ==
    /\ ~q.once
    /\ \E f \in Load :
        LET g == [f EXCEPT ![q.key] = q.val] IN
        /\ file' = g /\ loaded' = TRUE
        /\ Persist(g)
        /\ failed' = (failed \cup Forgotten(f)) \ {q.key}
    /\ op' = [op EXCEPT ![o] = Resolving(q.key)]
    /\ UNCHANGED <<oneTime, stream, disp, panel, granted, covered>>

\* The disk fails: io_error, with the change in memory and the prompt open.
RememberFails(o, q) ==
    /\ ~q.once /\ PersistMayFail
    /\ \E f \in Load :
        /\ file' = [f EXCEPT ![q.key] = q.val] /\ loaded' = TRUE
        /\ failed' = failed \cup Forgotten(f) \cup {q.key}
    /\ missed' = missed \cup Unanswered(q)
    /\ op' = [op EXCEPT ![o] = Idle]
    /\ UNCHANGED <<oneTime, disk, stream, disp, cards, stale, granted,
                   covered>>

\* set_one_time.
Grant(o, q) ==
    /\ q.once
    /\ oneTime' = [oneTime EXCEPT ![q.key] = q.val]
    /\ IF q.val = "approved"
       THEN /\ granted[q.key] < MaxGrants
            /\ granted' = [granted EXCEPT ![q.key] = @ + 1]
       ELSE UNCHANGED granted
    /\ op' = [op EXCEPT ![o] = Resolving(q.key)]
    /\ UNCHANGED <<file, loaded, disk, stream, disp, panel, failed, covered>>

\* Mutant of Resolve: the subscribers are not told.
Resolve_Silent(o) ==
    /\ op[o].pc = "resolve"
    /\ pending' = [pending EXCEPT ![op[o].tool] = None]
    /\ op' = [op EXCEPT ![o] = Idle]
    /\ \E f \in Load :
        file' = f /\ loaded' = TRUE /\ failed' = failed \cup Forgotten(f)
    /\ UNCHANGED <<oneTime, disk, prompts, sub, disp, panel, granted,
                   covered>>

\* resolve_pending_for_tool, and the snapshot for the reply.
Resolve(o) ==
    /\ op[o].pc = "resolve"
    /\ LET t == op[o].tool IN
       /\ pending' = [pending EXCEPT ![t] = None]
       /\ IF pending[t] = None THEN UNCHANGED <<sub, missed, stale>>
          ELSE /\ Send([type |-> "resolved", id |-> pending[t], tool |-> t])
               /\ missed' = missed \cup Overrun("pending")
               /\ stale' = stale \cup Overrun("resolved") \cup
                             IF sub = None THEN {pending[t]} ELSE {}
    /\ \E f \in Load :
        file' = f /\ loaded' = TRUE /\ failed' = failed \cup Forgotten(f)
    /\ op' = [op EXCEPT ![o] = Idle]
    /\ UNCHANGED <<oneTime, disk, prompts, disp, cards, granted,
                   covered>>

\* reset, up to its persist.
Reset(o) ==
    /\ op[o].pc = "idle"
    /\ file' = Empty /\ loaded' = TRUE
    /\ oneTime' = [t \in Tool |-> None]
    /\ \/ /\ Persist(Empty)
          /\ failed' = {}
          /\ op' = [op EXCEPT ![o] = [pc |-> "clear"]]
       \/ /\ PersistMayFail
          /\ failed' = Key
          /\ UNCHANGED <<disk, op>>
    /\ UNCHANGED <<stream, disp, panel, granted, covered>>

\* clear_pending: no subscriber is told.
ClearPending(o) ==
    /\ op[o].pc = "clear"
    /\ pending' = [t \in Tool |-> None]
    /\ stale' = stale \cup {i \in Id : \E t \in Tool : pending[t] = i}
    /\ op' = [op EXCEPT ![o] = Idle]
    /\ UNCHANGED <<store, prompts, sub, disp, cards, missed, failed,
                   granted, covered>>

-----------------------------------------------------------------------------
\* cancel_active_turn: the panel drops its cards.
CancelTurn ==
    /\ missed' = missed \cup {i \in Id : cards[i] # None}
    /\ cards' = [i \in Id |-> None]
    /\ UNCHANGED <<store, stream, disp, op, stale, failed, granted,
                   covered>>

\* The harness goes down and comes back: it has the disk, the panel its cards.
Restart ==
    /\ file' = Empty /\ loaded' = FALSE
    /\ oneTime' = [t \in Tool |-> None]
    /\ pending' = [t \in Tool |-> None]
    /\ disp' = [x \in Dispatch |-> Idle] /\ op' = [o \in Op |-> Idle]
    /\ sub' = None
    /\ stale' = stale \cup 1..prompts
    /\ UNCHANGED <<disk, prompts, cards, missed, failed, granted,
                   covered>>

Tiers == {"read_only", "tool_use", "destructive_tool_access"}

Deliver == DeliverEvent \/ DeliverLagged \/
           \E e \in [id : Id, tool : Tool] : DeliverSnapshot(e)

Answer(i) == \E o \in Op, v \in Decision, once \in BOOLEAN :
                Click(o, i, v, once)

\* What the harness does for request handler o.
Serve(o) == \/ \E q \in Arriving(o) :
                Remember(o, q) \/ RememberFails(o, q) \/ Grant(o, q)
            \/ Resolve(o) \/ ClearPending(o)

Next ==
    \/ \E x \in Dispatch : RecordPending(x) \/ Finish(x)
    \/ \E x \in Dispatch, t \in Tool, tier \in Tiers, confirm \in BOOLEAN :
        Check(x, t, tier, confirm)
    \/ \E o \in Op : Serve(o) \/ Unreached(o) \/ Reset(o)
    \/ \E i \in Id : Answer(i)
    \/ Subscribe \/ Deliver \/ Break \/ CancelTurn \/ Restart

Spec == Init /\ [][Next]_vars

\* Requests are worked off, the panel reads its stream and reconnects, and
\* the user gets round to every card that stays or keeps coming back.
FairSpec ==
    /\ Spec
    /\ \A o \in Op :
        WF_vars(op[o].pc # "idle" /\ (Serve(o) \/ Unreached(o)))
    /\ WF_vars(Subscribe) /\ WF_vars(Deliver)
    /\ \A i \in Id : SF_vars(Answer(i))

-----------------------------------------------------------------------------
(* Properties                                                              *)

DispState == {Idle} \cup [pc : {"run", "record"}, tool : Tool]
OpState ==
    {Idle} \cup {[pc |-> "clear"]} \cup [pc : {"resolve"}, tool : Tool] \cup
    [pc : {"asked"}, ask : Ask]

\* Types; a one-time decision is for a tool; prompts have ids of their own.
TypeOK ==
    /\ file \in File /\ loaded \in BOOLEAN /\ disk \in File
    /\ oneTime \in [Tool -> Decision \cup {None}]
    /\ pending \in [Tool -> Id \cup {None}] /\ prompts \in 0..MaxPrompts
    /\ \A t, u \in Tool : pending[t] # None =>
        pending[t] <= prompts /\ (pending[t] = pending[u] => t = u)
    /\ disp \in [Dispatch -> DispState]
    /\ op \in [Op -> OpState]
    /\ \A o \in Op : op[o].pc = "asked" =>
        op[o].ask.key \in Tool /\ op[o].ask.val \in Decision
    /\ \/ sub = None
       \/ sub \in Subscription /\ Len(sub.rx) <= Cap
    /\ cards \in [Id -> Tool \cup {None}]
    /\ failed \in SUBSET Key
    /\ granted \in [Tool -> 0..MaxGrants] /\ covered \in [Tool -> Nat]
    /\ missed \in SUBSET Id /\ stale \in SUBSET Id

\* A handler runs on no_auth, on a stored approval or on a confirmation of an
\* undecided tool; any other run uses up a one-time approval of its own,
\* whatever dispatches of the tool race for it.
OneRunPerGrant == \A t \in Tool : covered[t] <= granted[t]

\* A restart changes no answer of the gate: what a consent.* request changed in
\* memory is on disk, whatever else was written since, unless the last request
\* for that key was refused with io_error or a failed read made the store
\* forget it.
RestartKeepsDecisions ==
    loaded => \A k \in Key \ failed : disk[k] = file[k]

\* Where the harness is done sending, the panel shows a card for exactly the
\* prompts that are pending, but for those it took down itself or lost in a
\* lag (missed), and those that ended while it was not subscribed or by a
\* reset (stale).
PanelShowsPending ==
    sub # None /\ sub.snap = {} /\ sub.rx = <<>> =>
        /\ \A t \in Tool :
            \/ pending[t] = None \/ pending[t] \in missed
            \/ cards[pending[t]] = t
            \/ \E o \in Op : \/ op[o].pc = "asked" /\ op[o].ask.id = pending[t]
                             \/ op[o].pc = "resolve" /\ op[o].tool = t
        /\ \A i \in Id : cards[i] # None /\ i \notin stale =>
            pending[cards[i]] = i

Open(i) == \E t \in Tool : pending[t] = i

\* Every prompt is answered once the stream stays up, unless its card was
\* lost: no order of subscription, announcement and resolution loses one.
PromptAnswered ==
    <>[](sub # None) => \A i \in Id : Open(i) /\ i \notin missed
                                      ~> ~Open(i) \/ i \in missed

\* "A remote/MCP caller can never override the user's local deny"
\* (mcp_surface.md:95): a deny leaves no earlier one-time approval standing.
DenyWins ==
    [][\A t \in Tool :
        loaded /\ file[t] # "denied" /\ file'[t] = "denied" =>
            oneTime'[t] # "approved"]_vars

\* The prompt is recorded "so the consent.stream_pending subscribers (GUI
\* toasts) see it in real time" (runner/mod.rs:155-157): once a dispatch was
\* told consent_required and the stream is drained, there is a card.
PromptVisible ==
    sub # None /\ sub.snap = {} /\ sub.rx = <<>> =>
        \A t \in Tool : pending[t] # None =>
            \/ cards[pending[t]] = t
            \/ \E o \in Op : \/ op[o].pc = "asked" /\ op[o].ask.key = t
                             \/ op[o].pc = "resolve" /\ op[o].tool = t
=============================================================================
