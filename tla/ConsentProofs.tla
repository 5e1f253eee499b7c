--------------------------- MODULE ConsentProofs ---------------------------
(***************************************************************************)
(* Safety of the consent gate for any tools, dispatches, requests, channel *)
(* capacity and failures: types, decisions that survive a restart, one     *)
(* run for each one-time approval, and cards that are the pending prompts. *)
(***************************************************************************)
EXTENDS Consent, TLAPS

USE DEF Subscription

-----------------------------------------------------------------------------
(* The shapes of the local states                                          *)

\* What a request handler's state holds, by its label.
LEMMA OpShape ==
  ASSUME NEW p \in OpState
  PROVE  /\ p.pc \in {"idle", "clear", "resolve", "asked"}
         /\ p.pc = "resolve" => p.tool \in Tool
         /\ p.pc = "asked" => p.ask \in Ask
  BY DEF OpState, Idle

\* What a dispatch's state holds, by its label.
LEMMA DispShape ==
  ASSUME NEW p \in DispState
  PROVE  /\ p.pc \in {"idle", "run", "record"}
         /\ p.pc \in {"run", "record"} => p.tool \in Tool
  BY DEF DispState, Idle

\* A request that a handler begins with is about a key; a one-time decision is
\* about a tool.
LEMMA ArrivingShape ==
  ASSUME TypeOK, NEW o \in Op, NEW q \in Arriving(o)
  PROVE  /\ q \in Ask /\ q.key \in Key /\ q.val \in Decision \cup {None}
         /\ q.once \in BOOLEAN /\ q.id \in Id \cup {None}
         /\ q.once => q.key \in Tool /\ q.val \in Decision
  <1>1. op[o] \in OpState
    BY DEF TypeOK
  <1>2. CASE op[o].pc = "asked"
    <2>1. q = op[o].ask /\ q \in Ask /\ q.key \in Tool /\ q.val \in Decision
      BY <1>1, <1>2, OpShape DEF Arriving, TypeOK
    <2> QED BY <2>1 DEF Ask, Key
  <1>3. CASE op[o].pc = "idle"
    <2>1. q \in Elsewhere
      BY <1>3 DEF Arriving
    <2> QED BY <2>1 DEF Elsewhere, Ask, Key, Decision
  <1> QED BY <1>2, <1>3 DEF Arriving

\* What ensure_loaded may leave in memory is a file.
LEMMA LoadShape ==
  ASSUME TypeOK, NEW f \in Load
  PROVE  /\ f \in File
         /\ Forgotten(f) \in SUBSET Key
         /\ loaded => f = file /\ Forgotten(f) = {}
         /\ ~loaded => \A k \in Key \ Forgotten(f) : f[k] = disk[k]
  <1>1. Empty \in File
    BY DEF Empty, File
  <1> QED BY <1>1 DEF TypeOK, Load, Forgotten

-----------------------------------------------------------------------------
(* Types                                                                   *)

ChannelOK(s) ==
    s = None \/
       /\ s \in Subscription
       /\ Len(s.rx) <= Cap

\* Sending keeps the channel within its capacity.
LEMMA SendShape ==
  ASSUME ChannelOK(sub), NEW e \in Event, Send(e)
  PROVE  ChannelOK(sub')
  <1>1. CASE sub = None
    BY <1>1 DEF Send, ChannelOK
  <1>2. CASE sub # None
    <2>1. /\ sub \in Subscription
          /\ Len(sub.rx) <= Cap
      BY <1>2 DEF ChannelOK
    <2>2. sub.rx \in Seq(Event) /\ Len(sub.rx) \in Nat
      BY <2>1
    <2>3. CASE Len(sub.rx) < Cap
      <3>1. Append(sub.rx, e) \in Seq(Event)
            /\ Len(Append(sub.rx, e)) = Len(sub.rx) + 1
        BY <2>2
      <3>2. sub' = [sub EXCEPT !.rx = Append(sub.rx, e)]
        BY <1>2, <2>3 DEF Send
      <3>3. sub' \in Subscription
            /\ sub'.rx = Append(sub.rx, e)
        BY <2>1, <3>1, <3>2
      <3>4. Len(sub.rx) + 1 <= Cap
        BY <2>2, <2>3, ConsentAssumption
      <3> QED BY <3>1, <3>3, <3>4 DEF ChannelOK
    <2>4. CASE ~(Len(sub.rx) < Cap)
      <3>1. Len(sub.rx) = Cap /\ sub.rx # <<>>
        BY <2>1, <2>2, <2>4, ConsentAssumption
      <3>2. Tail(sub.rx) \in Seq(Event) /\ Len(Tail(sub.rx)) = Cap - 1
        BY <2>2, <3>1
      <3>3. Append(Tail(sub.rx), e) \in Seq(Event)
            /\ Len(Append(Tail(sub.rx), e)) = Cap
        BY <3>2, ConsentAssumption
      <3>4. sub' = [sub EXCEPT !.rx = Append(Tail(sub.rx), e),
                               !.lagged = TRUE]
        BY <1>2, <2>4 DEF Send
      <3>5. sub' \in Subscription
            /\ sub'.rx = Append(Tail(sub.rx), e)
        BY <2>1, <3>3, <3>4
      <3> QED BY <3>3, <3>5, ConsentAssumption DEF ChannelOK
    <2> QED BY <2>3, <2>4
  <1> QED BY <1>1, <1>2

\* The event that is pushed out was about some prompt.
LEMMA OverrunShape ==
  ASSUME ChannelOK(sub), NEW type
  PROVE  Overrun(type) \in SUBSET Id
  <1>1. CASE sub # None /\ Len(sub.rx) = Cap
    <2>1. sub.rx \in Seq(Event) /\ Len(sub.rx) >= 1
      BY <1>1, ConsentAssumption DEF ChannelOK
    <2>2. sub.rx[1] \in Event
      BY <2>1
    <2> QED BY <2>2 DEF Overrun, Event
  <1> QED BY <1>1 DEF Overrun

\* The event-stream conjunct of TypeOK.
LEMMA TypeChannel == TypeOK => ChannelOK(sub)
  BY DEF TypeOK, ChannelOK

USE DEF Id

\* Every step keeps the types.
LEMMA TypeStep == TypeOK /\ [Next]_vars => TypeOK'
  <1> SUFFICES ASSUME TypeOK, [Next]_vars PROVE TypeOK'
    OBVIOUS
  <1> USE ConsentAssumption
  <1>0. ChannelOK(sub)
    BY TypeChannel
  <1>1. ASSUME NEW x \in Dispatch, RecordPending(x) PROVE TypeOK'
    <2>1. disp[x].tool \in Tool /\ Idle \in DispState
      BY <1>1, DispShape DEF TypeOK, RecordPending, DispState
    <2> DEFINE t == disp[x].tool
    <2>2. CASE pending[t] # None
      <3>1. /\ UNCHANGED <<store, stream, missed, stale, op, cards, failed,
                           granted, covered>>
            /\ disp' = [disp EXCEPT ![x] = Idle]
        BY <1>1, <2>2 DEF RecordPending
      <3>2. disp' \in [Dispatch -> DispState]
        BY <2>1, <3>1 DEF TypeOK
      <3> QED BY <3>1, <3>2 DEF TypeOK, store, stream
    <2>3. CASE pending[t] = None
      <3> DEFINE e == [type |-> "pending", id |-> prompts + 1, tool |-> t]
      <3>1. prompts + 1 \in Id /\ prompts' = prompts + 1 /\ prompts \in Nat
        BY <1>1, <2>3 DEF RecordPending, TypeOK
      <3>2. e \in Event
        BY <2>1, <3>1 DEF Event
      <3>3. ChannelOK(sub')
        BY <1>0, <1>1, <2>3, <3>2, SendShape DEF RecordPending
      <3>4. missed' \in SUBSET Id /\ stale' \in SUBSET Id
        BY <1>0, <1>1, <2>3, OverrunShape DEF RecordPending, TypeOK
      <3>5. /\ pending' \in [Tool -> Id \cup {None}]
            /\ prompts' \in 0..MaxPrompts
            /\ \A v, u \in Tool : pending'[v] # None =>
                 /\ pending'[v] <= prompts'
                 /\ pending'[v] = pending'[u] => v = u
        <4>1. pending' = [pending EXCEPT ![t] = prompts + 1]
          BY <1>1, <2>3 DEF RecordPending
        <4>2. /\ pending \in [Tool -> Id \cup {None}]
              /\ \A v, u \in Tool : pending[v] # None =>
                  pending[v] <= prompts /\ (pending[v] = pending[u] => v = u)
          BY DEF TypeOK
        <4> QED BY <2>1, <3>1, <4>1, <4>2
      <3> QED BY <1>1, <2>1, <3>3, <3>4, <3>5
              DEF RecordPending, TypeOK, ChannelOK, store
    <2> QED BY <2>2, <2>3
  <1>2. ASSUME NEW x \in Dispatch, Finish(x) PROVE TypeOK'
    BY <1>2 DEF Finish, TypeOK, store, stream, panel, DispState
  <1>3. ASSUME NEW x \in Dispatch, NEW t \in Tool, NEW tier \in Tiers,
               NEW confirm \in BOOLEAN, Check(x, t, tier, confirm)
        PROVE  TypeOK'
    <2>1. PICK f \in Load :
            /\ file' = f /\ loaded' = TRUE
            /\ failed' = failed \cup Forgotten(f)
            /\ oneTime' \in {oneTime, [oneTime EXCEPT ![t] = None]}
            /\ \E s \in {[pc |-> "run", tool |-> t],
                         [pc |-> "record", tool |-> t], Idle} :
                 disp' = [disp EXCEPT ![x] = s]
            /\ covered' \in {covered, [covered EXCEPT ![t] = @ + 1]}
      BY <1>3 DEF Check, Spend
    <2>2. f \in File /\ failed' \in SUBSET Key
      BY <2>1, LoadShape DEF TypeOK
    <2>3. disp' \in [Dispatch -> DispState]
      BY <2>1 DEF TypeOK, DispState
    <2>4. /\ oneTime' \in [Tool -> Decision \cup {None}]
          /\ covered' \in [Tool -> Nat]
      <3>1. oneTime \in [Tool -> Decision \cup {None}]
            /\ covered \in [Tool -> Nat] /\ covered[t] + 1 \in Nat
        BY DEF TypeOK
      <3>2. oneTime' = oneTime \/ oneTime' = [oneTime EXCEPT ![t] = None]
        BY <2>1
      <3>3. covered' = covered
            \/ covered' = [covered EXCEPT ![t] = covered[t] + 1]
        BY <2>1
      <3>4. oneTime' \in [Tool -> Decision \cup {None}]
        BY <3>1, <3>2
      <3>5. covered' \in [Tool -> Nat]
        BY <3>1, <3>3
      <3> QED BY <3>4, <3>5
    <2>5. UNCHANGED <<disk, stream, op, panel, granted>>
      BY <1>3 DEF Check
    <2> QED BY <2>1, <2>2, <2>3, <2>4, <2>5 DEF TypeOK, stream, panel
  <1>4. ASSUME NEW o \in Op, NEW q \in Arriving(o), Remember(o, q)
        PROVE  TypeOK'
    <2>1. PICK f \in Load :
            LET g == [f EXCEPT ![q.key] = q.val] IN
            /\ file' = g /\ loaded' = TRUE
            /\ disk' = g
            /\ failed' = (failed \cup Forgotten(f)) \ {q.key}
      BY <1>4 DEF Remember, Persist
    <2>2. file' \in File /\ disk' \in File /\ failed' \in SUBSET Key
      BY <2>1, LoadShape, ArrivingShape DEF TypeOK, File
    <2>3. Resolving(q.key) \in OpState /\ Resolving(q.key).pc # "asked"
      BY ArrivingShape DEF Resolving, OpState, Idle, Key
    <2> QED BY <1>4, <2>1, <2>2, <2>3
            DEF Remember, TypeOK, stream, panel
  <1>5. ASSUME NEW o \in Op, NEW q \in Arriving(o), RememberFails(o, q)
        PROVE  TypeOK'
    <2>1. PICK f \in Load :
            /\ file' = [f EXCEPT ![q.key] = q.val] /\ loaded' = TRUE
            /\ failed' = failed \cup Forgotten(f) \cup {q.key}
      BY <1>5 DEF RememberFails
    <2>2. file' \in File /\ failed' \in SUBSET Key
      BY <2>1, LoadShape, ArrivingShape DEF TypeOK, File
    <2>3. missed' \in SUBSET Id
      BY <1>5, ArrivingShape DEF RememberFails, Unanswered, TypeOK
    <2>4. op' \in [Op -> OpState]
          /\ \A r \in Op : op'[r].pc = "asked" => r # o
      BY <1>5 DEF RememberFails, TypeOK, OpState, Idle
    <2> QED BY <1>5, <2>1, <2>2, <2>3, <2>4
            DEF RememberFails, TypeOK, stream
  <1>6. ASSUME NEW o \in Op, NEW q \in Arriving(o), Grant(o, q)
        PROVE  TypeOK'
    <2>1. q.key \in Tool /\ q.val \in Decision
      BY <1>6, ArrivingShape DEF Grant
    <2>2. Resolving(q.key) \in OpState /\ Resolving(q.key).pc # "asked"
      BY ArrivingShape DEF Resolving, OpState, Idle, Key
    <2>3. granted' \in [Tool -> 0..MaxGrants]
      <3>1. granted \in [Tool -> 0..MaxGrants]
        BY DEF TypeOK
      <3>2. \/ granted' = granted
            \/ /\ granted[q.key] < MaxGrants
               /\ granted' = [granted EXCEPT ![q.key] = granted[q.key] + 1]
        BY <1>6 DEF Grant
      <3>3. granted[q.key] < MaxGrants => granted[q.key] + 1 \in 0..MaxGrants
        BY <2>1, <3>1
      <3> QED BY <3>1, <3>2, <3>3
    <2> QED BY <1>6, <2>1, <2>2, <2>3 DEF Grant, TypeOK, stream, panel
  <1>7. ASSUME NEW o \in Op, Resolve(o) PROVE TypeOK'
    <2> DEFINE t == op[o].tool
    <2>1. t \in Tool /\ op[o] \in OpState
      BY <1>7, OpShape DEF Resolve, TypeOK
    <2>2. PICK f \in Load :
            file' = f /\ loaded' = TRUE /\ failed' = failed \cup Forgotten(f)
      BY <1>7 DEF Resolve
    <2>3. file' \in File /\ failed' \in SUBSET Key
      BY <2>2, LoadShape DEF TypeOK
    <2>4. /\ pending' \in [Tool -> Id \cup {None}]
          /\ \A v, u \in Tool : pending'[v] # None =>
               pending'[v] <= prompts /\ (pending'[v] = pending'[u] => v = u)
      BY <1>7, <2>1 DEF Resolve, TypeOK
    <2>5. ChannelOK(sub') /\ missed' \in SUBSET Id /\ stale' \in SUBSET Id
      <3>1. CASE pending[t] = None
        BY <1>0, <1>7, <3>1 DEF Resolve, TypeOK
      <3>2. CASE pending[t] # None
        <4>1. pending[t] \in Id
          BY <2>1, <3>2 DEF TypeOK
        <4>2. [type |-> "resolved", id |-> pending[t], tool |-> t] \in Event
          BY <2>1, <4>1 DEF Event
        <4>3. ChannelOK(sub')
          BY <1>0, <1>7, <3>2, <4>2, SendShape DEF Resolve
        <4>4. missed' \in SUBSET Id /\ stale' \in SUBSET Id
          <5>1. /\ Overrun("pending") \in SUBSET Id
                /\ Overrun("resolved") \in SUBSET Id
            BY <1>0, OverrunShape
          <5>2. /\ missed' = missed \cup Overrun("pending")
                /\ stale' = stale \cup Overrun("resolved") \cup
                             IF sub = None THEN {pending[t]} ELSE {}
            BY <1>7, <3>2 DEF Resolve
          <5> QED BY <4>1, <5>1, <5>2 DEF TypeOK
        <4> QED BY <4>3, <4>4
      <3> QED BY <3>1, <3>2
    <2>6. op' \in [Op -> OpState]
          /\ \A r \in Op : op'[r].pc = "asked" => r # o
      BY <1>7 DEF Resolve, TypeOK, OpState, Idle
    <2> QED BY <1>7, <2>2, <2>3, <2>4, <2>5, <2>6
            DEF Resolve, TypeOK, ChannelOK
  <1>8. ASSUME NEW o \in Op, ClearPending(o) PROVE TypeOK'
    <2>1. op' \in [Op -> OpState]
          /\ \A r \in Op : op'[r].pc = "asked" => r # o
      BY <1>8 DEF ClearPending, TypeOK, OpState, Idle
    <2> QED BY <1>8, <2>1 DEF ClearPending, TypeOK, store
  <1>9. ASSUME NEW o \in Op, Unreached(o) PROVE TypeOK'
    <2>1. op' \in [Op -> OpState]
          /\ \A r \in Op : op'[r].pc = "asked" => r # o
      BY <1>9 DEF Unreached, TypeOK, OpState, Idle
    <2>2. op[o].ask \in Ask
      BY <1>9, OpShape DEF Unreached, TypeOK
    <2>3. missed' \in SUBSET Id
      BY <1>9, <2>2 DEF Unreached, Unanswered, TypeOK, Ask
    <2> QED BY <1>9, <2>1, <2>3 DEF Unreached, TypeOK, store, stream
  <1>10. ASSUME NEW o \in Op, Reset(o) PROVE TypeOK'
    <2>1. Empty \in File
      BY DEF Empty, File
    <2>2. op' \in [Op -> OpState]
          /\ \A r \in Op : op'[r].pc = "asked" => op'[r] = op[r]
      <3>1. \/ op' = [op EXCEPT ![o] = [pc |-> "clear"]]
            \/ op' = op
        BY <1>10 DEF Reset
      <3>2. [pc |-> "clear"] \in OpState /\ op \in [Op -> OpState]
        BY DEF OpState, TypeOK
      <3> QED BY <3>1, <3>2
    <2> QED BY <1>10, <2>1, <2>2 DEF Reset, Persist, TypeOK, stream, panel
  <1>11. ASSUME NEW i \in Id, Answer(i) PROVE TypeOK'
    <2>1. PICK o \in Op, v \in Decision, once \in BOOLEAN :
            Click(o, i, v, once)
      BY <1>11 DEF Answer
    <2> DEFINE q == [key |-> cards[i], val |-> v, once |-> once, id |-> i]
    <2>2. cards[i] \in Tool
      BY <2>1 DEF Click, TypeOK
    <2>3. q \in Ask
      BY <2>2 DEF Ask, Key
    <2>4. [pc |-> "asked", ask |-> q] \in OpState
      BY <2>3 DEF OpState
    <2>5. /\ op' \in [Op -> OpState]
          /\ op'[o].ask.key \in Tool /\ op'[o].ask.val \in Decision
          /\ \A r \in Op : r # o => op'[r] = op[r]
      BY <2>1, <2>2, <2>4 DEF Click, TypeOK
    <2> QED BY <2>1, <2>5 DEF Click, TypeOK, store, stream
  <1>12. CASE Subscribe
    <2>1. ChannelOK(sub')
      BY <1>12 DEF Subscribe, ChannelOK, TypeOK
    <2> QED BY <1>12, <2>1 DEF Subscribe, TypeOK, ChannelOK, store, panel
  <1>13. ASSUME NEW e \in [id : Id, tool : Tool], DeliverSnapshot(e)
         PROVE  TypeOK'
    BY <1>13 DEF DeliverSnapshot, TypeOK, store
  <1>14. CASE DeliverEvent
    <2>1. sub.rx \in Seq(Event) /\ sub.rx # <<>> /\ Len(sub.rx) <= Cap
      BY <1>0, <1>14 DEF DeliverEvent, ChannelOK
    <2>2. sub.rx[1] \in Event /\ Tail(sub.rx) \in Seq(Event)
          /\ Len(Tail(sub.rx)) <= Cap
      BY <2>1
    <2>3. cards' \in [Id -> Tool \cup {None}]
      BY <1>14, <2>2 DEF DeliverEvent, TypeOK, Event
    <2>4. ChannelOK(sub')
      BY <1>0, <1>14, <2>2 DEF DeliverEvent, ChannelOK
    <2> QED BY <1>14, <2>3, <2>4 DEF DeliverEvent, TypeOK, ChannelOK, store
  <1>15. CASE DeliverLagged
    BY <1>15 DEF DeliverLagged, TypeOK, store, panel
  <1>16. CASE Break
    <2>1. Undelivered \in SUBSET Id
      <3>1. CASE sub # None
        <4>1. sub.rx \in Seq(Event)
          BY <1>0, <3>1 DEF ChannelOK
        <4>2. \A k \in 1..Len(sub.rx) : sub.rx[k].id \in Id
          <5>1. \A k \in 1..Len(sub.rx) : sub.rx[k] \in Event
            BY <4>1
          <5>2. \A z \in Event : z.id \in Id
            BY DEF Event
          <5> QED BY <5>1, <5>2
        <4> QED BY <3>1, <4>2 DEF Undelivered
      <3> QED BY <3>1 DEF Undelivered
    <2> QED BY <1>16, <2>1 DEF Break, TypeOK, store
  <1>17. CASE CancelTurn
    BY <1>17 DEF CancelTurn, TypeOK, store, stream
  <1>18. CASE Restart
    <2>1. Empty \in File /\ Idle \in OpState /\ Idle \in DispState
          /\ Idle.pc # "asked"
      BY DEF Empty, File, OpState, DispState, Idle
    <2>2. stale' \in SUBSET Id
      BY <1>18 DEF Restart, TypeOK
    <2> QED BY <1>18, <2>1, <2>2 DEF Restart, TypeOK
  <1>19. CASE UNCHANGED vars
    BY <1>19 DEF vars, store, stream, panel, TypeOK
  <1> QED BY <1>1, <1>2, <1>3, <1>4, <1>5, <1>6, <1>7, <1>8, <1>9, <1>10,
             <1>11, <1>12, <1>13, <1>14, <1>15, <1>16, <1>17, <1>18, <1>19
          DEF Next, Serve, Deliver

\* No interleaving of dispatches, requests, stream and restarts leaves the
\* types; the channel never outgrows its capacity and prompts have ids of
\* their own.
THEOREM ConsentTypes == Spec => []TypeOK
  <1>1. Init => TypeOK
    <2> SUFFICES ASSUME Init PROVE TypeOK
      OBVIOUS
    <2>1. Empty \in File /\ Idle \in OpState /\ Idle \in DispState
          /\ Idle.pc # "asked"
      BY DEF Empty, File, OpState, DispState, Idle
    <2>2. /\ file \in File /\ loaded \in BOOLEAN /\ disk \in File
          /\ oneTime \in [Tool -> Decision \cup {None}]
          /\ failed \in SUBSET Key
      BY <2>1 DEF Init
    <2>3. /\ pending \in [Tool -> Id \cup {None}]
          /\ prompts \in 0..MaxPrompts
          /\ \A t \in Tool : pending[t] = None
      BY ConsentAssumption DEF Init
    <2>4. /\ disp \in [Dispatch -> DispState] /\ op \in [Op -> OpState]
          /\ \A o \in Op : op[o].pc # "asked"
      BY <2>1 DEF Init
    <2>5. /\ sub = None /\ cards \in [Id -> Tool \cup {None}]
          /\ missed \in SUBSET Id /\ stale \in SUBSET Id
      BY DEF Init
    <2>6. /\ granted \in [Tool -> 0..MaxGrants]
          /\ covered \in [Tool -> Nat]
      BY ConsentAssumption DEF Init
    <2> QED BY <2>2, <2>3, <2>4, <2>5, <2>6 DEF TypeOK
  <1> QED BY <1>1, TypeStep, PTL DEF Spec

-----------------------------------------------------------------------------
(* Decisions survive a restart                                             *)

\* Every step keeps memory and disk in agreement on the keys not in failed.
LEMMA DecisionStep ==
    TypeOK /\ RestartKeepsDecisions /\ [Next]_vars => RestartKeepsDecisions'
  <1> SUFFICES ASSUME TypeOK, RestartKeepsDecisions, [Next]_vars
               PROVE  RestartKeepsDecisions'
    OBVIOUS
  <1>1. ASSUME NEW f \in Load, file' = f, disk' = disk,
               failed' = failed \cup Forgotten(f)
        PROVE  RestartKeepsDecisions'
    BY <1>1, LoadShape DEF RestartKeepsDecisions
  <1>2. ASSUME UNCHANGED <<store, failed>> PROVE RestartKeepsDecisions'
    BY <1>2 DEF store, RestartKeepsDecisions
  <1>3. ASSUME NEW x \in Dispatch, RecordPending(x) \/ Finish(x)
        PROVE  RestartKeepsDecisions'
    BY <1>2, <1>3 DEF RecordPending, Finish
  <1>4. ASSUME NEW x \in Dispatch, NEW t \in Tool, NEW tier \in Tiers,
               NEW confirm \in BOOLEAN, Check(x, t, tier, confirm)
        PROVE  RestartKeepsDecisions'
    <2>1. \E f \in Load : file' = f /\ failed' = failed \cup Forgotten(f)
      BY <1>4 DEF Check
    <2>2. disk' = disk
      BY <1>4 DEF Check
    <2> QED BY <1>1, <2>1, <2>2
  <1>5. ASSUME NEW o \in Op, NEW q \in Arriving(o), Remember(o, q)
        PROVE  RestartKeepsDecisions'
    <2>1. file' = disk'
      BY <1>5 DEF Remember, Persist
    <2> QED BY <2>1 DEF RestartKeepsDecisions
  <1>6. ASSUME NEW o \in Op, NEW q \in Arriving(o), RememberFails(o, q)
        PROVE  RestartKeepsDecisions'
    <2>1. PICK f \in Load :
            /\ file' = [f EXCEPT ![q.key] = q.val]
            /\ failed' = failed \cup Forgotten(f) \cup {q.key}
      BY <1>6 DEF RememberFails
    <2>2. \A k \in Key \ (failed \cup Forgotten(f)) : disk[k] = f[k]
      BY LoadShape DEF RestartKeepsDecisions
    <2>3. \A k \in Key \ {q.key} : file'[k] = f[k]
      BY <2>1, LoadShape, ArrivingShape DEF File
    <2>4. disk' = disk
      BY <1>6 DEF RememberFails
    <2> QED BY <2>1, <2>2, <2>3, <2>4 DEF RestartKeepsDecisions
  <1>7. ASSUME NEW o \in Op, NEW q \in Arriving(o), Grant(o, q)
        PROVE  RestartKeepsDecisions'
    BY <1>7 DEF Grant, RestartKeepsDecisions
  <1>8. ASSUME NEW o \in Op, Resolve(o) PROVE RestartKeepsDecisions'
    <2>1. \E f \in Load : file' = f /\ failed' = failed \cup Forgotten(f)
      BY <1>8 DEF Resolve
    <2>2. disk' = disk
      BY <1>8 DEF Resolve
    <2> QED BY <1>1, <2>1, <2>2
  <1>9. ASSUME NEW o \in Op, ClearPending(o) \/ Unreached(o)
        PROVE  RestartKeepsDecisions'
    BY <1>2, <1>9 DEF ClearPending, Unreached
  <1>10. ASSUME NEW o \in Op, Reset(o) PROVE RestartKeepsDecisions'
    <2>1. \/ file' = disk'
          \/ failed' = Key
      BY <1>10 DEF Reset, Persist
    <2> QED BY <2>1 DEF RestartKeepsDecisions
  <1>11. ASSUME NEW i \in Id, Answer(i) PROVE RestartKeepsDecisions'
    BY <1>2, <1>11 DEF Answer, Click
  <1>12. CASE Subscribe \/ Deliver \/ Break \/ CancelTurn
    BY <1>2, <1>12 DEF Subscribe, Deliver, DeliverEvent, DeliverLagged,
                       DeliverSnapshot, Break, CancelTurn
  <1>13. CASE Restart
    BY <1>13 DEF Restart, RestartKeepsDecisions
  <1>14. CASE UNCHANGED vars
    BY <1>2, <1>14 DEF vars
  <1> QED BY <1>3, <1>4, <1>5, <1>6, <1>7, <1>8, <1>9, <1>10, <1>11, <1>12,
             <1>13, <1>14
          DEF Next, Serve

\* What the gate holds in memory is on disk, so a restart answers alike, but
\* for keys whose last write failed or that a failed read forgot.
THEOREM DecisionsSurvive == Spec => []RestartKeepsDecisions
  <1>1. Init => RestartKeepsDecisions
    BY DEF Init, RestartKeepsDecisions
  <1> QED BY <1>1, ConsentTypes, DecisionStep, PTL DEF Spec

-----------------------------------------------------------------------------
(* One-time approvals                                                      *)

\* Runs so far and the approval that stands together never exceed what was
\* granted: the strengthening of OneRunPerGrant that is inductive.
Budget ==
    \A t \in Tool :
        /\ covered[t] <= granted[t]
        /\ oneTime[t] = "approved" => covered[t] < granted[t]

\* Every step keeps the budget.
LEMMA BudgetStep == TypeOK /\ Budget /\ [Next]_vars => Budget'
  <1> SUFFICES ASSUME TypeOK, Budget, [Next]_vars PROVE Budget'
    OBVIOUS
  <1>0. /\ oneTime \in [Tool -> Decision \cup {None}]
        /\ granted \in [Tool -> Nat] /\ covered \in [Tool -> Nat]
    BY DEF TypeOK
  <1>1. ASSUME UNCHANGED <<oneTime, granted, covered>> PROVE Budget'
    BY <1>1 DEF Budget
  <1>2. ASSUME NEW x \in Dispatch, NEW t \in Tool, NEW tier \in Tiers,
               NEW confirm \in BOOLEAN, Check(x, t, tier, confirm)
        PROVE  Budget'
    <2>1. granted' = granted
      BY <1>2 DEF Check
    <2>2. PICK f \in Load :
        LET out == Outcome(f, t)
            runs == out = "approved" \/ (out = None /\ confirm)
            due == \/ f[NoAuth] = "approved" \/ f[t] = "approved"
                   \/ f[t] = None /\ confirm
        IN
        /\ IF f[NoAuth] = "approved" THEN UNCHANGED oneTime ELSE Spend(t)
        /\ covered' = IF runs /\ ~due THEN [covered EXCEPT ![t] = @ + 1]
                      ELSE covered
      BY <1>2 DEF Check
    <2>3. CASE covered' = covered
      <3>1. oneTime' = oneTime \/ oneTime' = [oneTime EXCEPT ![t] = None]
        BY <2>2 DEF Spend
      <3>2. \A u \in Tool : oneTime'[u] = "approved" =>
                               oneTime[u] = "approved"
        BY <1>0, <3>1, ConsentAssumption DEF Decision
      <3> QED BY <2>1, <2>3, <3>2 DEF Budget
    <2>4. CASE covered' # covered
      <3>1. /\ covered' = [covered EXCEPT ![t] = covered[t] + 1]
            /\ f[NoAuth] # "approved" /\ f[t] # "approved"
            /\ Outcome(f, t) = "approved" \/ (Outcome(f, t) = None /\ confirm)
            /\ ~(f[t] = None /\ confirm)
        BY <2>2, <2>4
      <3>2. oneTime[t] = "approved"
        BY <1>0, <3>1, ConsentAssumption DEF Outcome, Decision
      <3>3. oneTime' = [oneTime EXCEPT ![t] = None]
        BY <2>2, <3>1 DEF Spend
      <3>4. covered[t] + 1 <= granted[t]
        BY <1>0, <3>2 DEF Budget
      <3>5. None # "approved"
        BY ConsentAssumption DEF Decision
      <3> QED BY <1>0, <2>1, <3>1, <3>3, <3>4, <3>5 DEF Budget
    <2> QED BY <2>3, <2>4
  <1>3. ASSUME NEW o \in Op, NEW q \in Arriving(o), Grant(o, q)
        PROVE  Budget'
    <2>1. q.key \in Tool
      BY <1>3, ArrivingShape DEF Grant
    <2>2. oneTime' = [oneTime EXCEPT ![q.key] = q.val] /\ covered' = covered
      BY <1>3 DEF Grant
    <2>3. CASE q.val = "approved"
      <3>1. granted' = [granted EXCEPT ![q.key] = granted[q.key] + 1]
        BY <1>3, <2>3 DEF Grant
      <3> QED BY <1>0, <2>1, <2>2, <3>1 DEF Budget
    <2>4. CASE q.val # "approved"
      <3>1. granted' = granted
        BY <1>3, <2>4 DEF Grant
      <3> QED BY <1>0, <2>1, <2>2, <2>4, <3>1 DEF Budget
    <2> QED BY <2>3, <2>4
  <1>4. ASSUME NEW o \in Op, Reset(o) PROVE Budget'
    <2>1. /\ oneTime' = [t \in Tool |-> None]
          /\ UNCHANGED <<granted, covered>>
      BY <1>4 DEF Reset
    <2> QED BY <2>1, ConsentAssumption DEF Budget, Decision
  <1>5. CASE Restart
    <2>1. /\ oneTime' = [t \in Tool |-> None]
          /\ UNCHANGED <<granted, covered>>
      BY <1>5 DEF Restart
    <2> QED BY <2>1, ConsentAssumption DEF Budget, Decision
  <1>6. ASSUME NEW x \in Dispatch, RecordPending(x) \/ Finish(x) PROVE Budget'
    BY <1>1, <1>6 DEF RecordPending, Finish, store
  <1>7. ASSUME NEW o \in Op, NEW q \in Arriving(o),
               Remember(o, q) \/ RememberFails(o, q)
        PROVE  Budget'
    BY <1>1, <1>7 DEF Remember, RememberFails
  <1>8. ASSUME NEW o \in Op, Resolve(o) \/ ClearPending(o) \/ Unreached(o)
        PROVE  Budget'
    BY <1>1, <1>8 DEF Resolve, ClearPending, Unreached, store
  <1>9. ASSUME NEW i \in Id, Answer(i) PROVE Budget'
    BY <1>1, <1>9 DEF Answer, Click, store
  <1>10. CASE Subscribe \/ Deliver \/ Break \/ CancelTurn
    BY <1>1, <1>10 DEF Subscribe, Deliver, DeliverEvent, DeliverLagged,
                       DeliverSnapshot, Break, CancelTurn, store
  <1>11. CASE UNCHANGED vars
    BY <1>1, <1>11 DEF vars, store
  <1> QED BY <1>2, <1>3, <1>4, <1>5, <1>6, <1>7, <1>8, <1>9, <1>10, <1>11
          DEF Next, Serve

\* However many dispatches race, no more handlers run on one-time approvals
\* than the user gave.
THEOREM GrantsSpentOnce == Spec => []OneRunPerGrant
  <1>1. Init => Budget
    <2> SUFFICES ASSUME Init, NEW t \in Tool
                 PROVE  /\ covered[t] <= granted[t]
                        /\ oneTime[t] # "approved"
      BY DEF Budget
    <2>1. "approved" # None
      BY ConsentAssumption DEF Decision
    <2>2. covered[t] = 0 /\ granted[t] = 0 /\ oneTime[t] = None
      BY DEF Init
    <2> QED BY <2>1, <2>2
  <1>2. Budget => OneRunPerGrant
    BY DEF Budget, OneRunPerGrant
  <1> QED BY <1>1, <1>2, ConsentTypes, BudgetStep, PTL DEF Spec
-----------------------------------------------------------------------------
(* The panel's cards and the pending prompts                               *)

\* What is on its way to the panel.
Copied == IF sub = None THEN {} ELSE sub.snap
Queue == IF sub = None THEN <<>> ELSE sub.rx

\* A request that answers tool t's prompt is under way.
Handled(t) ==
    \E o \in Op : \/ op[o].pc = "asked" /\ op[o].ask.id = pending[t]
                  \/ op[o].pc = "resolve" /\ op[o].tool = t

\* A subscribed panel has, will get or has answered the card of every pending
\* prompt that it did not miss.
Announced ==
    sub # None => \A t \in Tool :
        \/ pending[t] = None \/ pending[t] \in missed
        \/ cards[pending[t]] = t \/ Handled(t)
        \/ [id |-> pending[t], tool |-> t] \in Copied
        \/ \E k \in 1..Len(Queue) :
            Queue[k] = [type |-> "pending", id |-> pending[t], tool |-> t]

\* The end of a prompt is sent once it has ended, and its id never comes back.
EndsLast ==
    \A k \in 1..Len(Queue), t \in Tool :
        Queue[k].type = "resolved" => pending[t] # Queue[k].id

\* Prompt i was recorded, and for no tool but t.
IsFor(i, t) == i \in 1..prompts /\ \A u \in Tool : pending[u] = i => u = t

\* Every mention of a prompt, by a card, a copied entry, an event or a click
\* that is under way, names its tool.
NamesAgree ==
    /\ \A i \in Id : cards[i] # None => IsFor(i, cards[i])
    /\ \A e \in Copied : IsFor(e.id, e.tool)
    /\ \A k \in 1..Len(Queue) : IsFor(Queue[k].id, Queue[k].tool)
    /\ \A o \in Op : op[o].pc = "asked" /\ op[o].ask.id # None =>
        IsFor(op[o].ask.id, op[o].ask.key)

\* A card for prompt i of tool t that is due before what follows position k
\* of the queue is right, or will be taken back, or is known to be stale.
Settled(i, t, k) ==
    \/ i \in stale \/ pending[t] = i
    \/ \E m \in 1..Len(Queue) :
        m > k /\ Queue[m].type = "resolved" /\ Queue[m].id = i

\* Every card that is there, or is to come, is settled.
CardsSettled ==
    /\ \A i \in Id : cards[i] # None => Settled(i, cards[i], 0)
    /\ \A e \in Copied : Settled(e.id, e.tool, 0)
    /\ \A k \in 1..Len(Queue) : Queue[k].type = "pending" =>
        Settled(Queue[k].id, Queue[k].tool, k)

PanelInv == Announced /\ EndsLast /\ NamesAgree /\ CardsSettled

\* The stream, when there is one, is what the types say.
LEMMA QueueShape ==
  ASSUME TypeOK
  PROVE  /\ Queue \in Seq(Event) /\ Len(Queue) \in Nat
         /\ Copied \in SUBSET [id : Id, tool : Tool]
         /\ \A k \in 1..Len(Queue) :
              /\ Queue[k].type \in {"pending", "resolved"}
              /\ Queue[k].id \in Id /\ Queue[k].tool \in Tool
  <1>1. Queue \in Seq(Event) /\ Copied \in SUBSET [id : Id, tool : Tool]
    <2>1. CASE sub = None
      BY <2>1 DEF Queue, Copied
    <2>2. CASE sub # None
      BY <2>2 DEF TypeOK, Queue, Copied
    <2> QED BY <2>1, <2>2
  <1>2. \A k \in 1..Len(Queue) : Queue[k] \in Event
    BY <1>1
  <1> QED BY <1>1, <1>2 DEF Event

\* What send does to the channel: e goes last, and the others move up by d
\* places, where d is 1 when the channel was full; the event lost then is the
\* one that Overrun names.
LEMMA SendQueue ==
  ASSUME TypeOK, NEW e \in Event, Send(e), sub # None
  PROVE  /\ sub' # None /\ Copied' = Copied
         /\ \E d \in {0, 1} :
              /\ Len(Queue') = Len(Queue) + 1 - d /\ Len(Queue') >= 1
              /\ Queue'[Len(Queue')] = e
              /\ \A k \in 1..Len(Queue) : k > d =>
                   k - d \in 1..Len(Queue') /\ Queue'[k - d] = Queue[k]
              /\ \A k \in 1..Len(Queue') : k < Len(Queue') =>
                   k + d \in 1..Len(Queue) /\ Queue'[k] = Queue[k + d]
              /\ d = 1 => 1 \in 1..Len(Queue) /\
                          Queue[1].id \in Overrun(Queue[1].type)
  
  <1>1. /\ sub \in Subscription
        /\ Len(sub.rx) <= Cap
    BY DEF TypeOK
  <1>2. sub.rx \in Seq(Event) /\ Len(sub.rx) \in Nat /\ Queue = sub.rx
        /\ Copied = sub.snap
    BY <1>1 DEF Queue, Copied
  <1> DEFINE n == Len(sub.rx)
  <1>3. CASE n < Cap
    <2>1. sub' = [sub EXCEPT !.rx = Append(sub.rx, e)]
      BY <1>3 DEF Send
    <2>2. sub'.rx = Append(sub.rx, e) /\ sub'.snap = sub.snap
      BY <1>1, <2>1
    <2>3. sub' # None
      <3>1. Append(sub.rx, e) \in Seq(Event)
        BY <1>2
      <3> QED BY <1>1, <2>1, <3>1, ConsentAssumption
    <2>4. Queue' = Append(sub.rx, e) /\ Copied' = Copied
      BY <1>2, <2>2, <2>3 DEF Queue, Copied
    <2>5. /\ Len(Queue') = n + 1
          /\ \A k \in 1..n : Queue'[k] = sub.rx[k]
          /\ Queue'[n + 1] = e
      BY <1>2, <2>4
    <2> HIDE DEF n
    <2>6. n \in Nat
      BY <1>2 DEF n
    <2>7. Len(Queue) = n /\ \A k \in 1..n : Queue'[k] = Queue[k]
      BY <1>2, <2>5 DEF n
    <2> QED BY <2>3, <2>4, <2>5, <2>6, <2>7
  <1>4. CASE ~(n < Cap)
    <2>0. n = Cap /\ sub.rx # <<>> /\ n >= 1
      BY <1>1, <1>2, <1>4, ConsentAssumption
    <2>1. sub' = [sub EXCEPT !.rx = Append(Tail(sub.rx), e), !.lagged = TRUE]
      BY <1>4 DEF Send
    <2>2. sub'.rx = Append(Tail(sub.rx), e) /\ sub'.snap = sub.snap
      BY <1>1, <2>1
    <2>3. sub' # None
      <3>1. Append(Tail(sub.rx), e) \in Seq(Event)
        BY <1>2, <2>0
      <3> QED BY <1>1, <2>1, <3>1, ConsentAssumption
    <2>4. Queue' = Append(Tail(sub.rx), e) /\ Copied' = Copied
      BY <1>2, <2>2, <2>3 DEF Queue, Copied
    <2>5. /\ Tail(sub.rx) \in Seq(Event) /\ Len(Tail(sub.rx)) = n - 1
          /\ \A k \in 1..(n - 1) : Tail(sub.rx)[k] = sub.rx[k + 1]
      BY <1>2, <2>0
    <2>6. /\ Len(Queue') = n
          /\ \A k \in 1..(n - 1) : Queue'[k] = sub.rx[k + 1]
          /\ Queue'[n] = e
      BY <1>2, <2>0, <2>4, <2>5
    <2>7. Queue[1].id \in Overrun(Queue[1].type)
      BY <1>2, <2>0 DEF Overrun
    <2> HIDE DEF n
    <2>8. n \in Nat /\ n >= 1
      BY <1>2, <2>0 DEF n
    <2>9. Len(Queue) = n /\ \A k \in 1..(n - 1) : Queue'[k] = Queue[k + 1]
      BY <1>2, <2>6 DEF n
    <2>10. \A k \in 1..n : k > 1 => Queue'[k - 1] = Queue[k]
      <3> SUFFICES ASSUME NEW k \in 1..n, k > 1
                   PROVE  Queue'[k - 1] = Queue[k]
        OBVIOUS
      <3>1. k - 1 \in 1..(n - 1) /\ (k - 1) + 1 = k
        BY <2>8
      <3> QED BY <2>9, <3>1
    <2> QED BY <2>3, <2>4, <2>6, <2>7, <2>8, <2>9, <2>10
  <1> QED BY <1>3, <1>4

\* Steps that leave prompts, stream and cards alone, and drop no answer but to
\* count its prompt as missed.
LEMMA PanelQuiet ==
  ASSUME PanelInv, UNCHANGED <<pending, prompts, sub, cards, stale>>,
         missed \subseteq missed',
         \A o \in Op : op'[o].pc = "asked" => op'[o] = op[o],
         \A t \in Tool : Handled(t) /\ pending[t] # None =>
                            Handled(t)' \/ pending[t] \in missed'
  PROVE  PanelInv'
  <1>1. Queue' = Queue /\ Copied' = Copied
    BY DEF Queue, Copied
  <1>2. Announced'
    <2> SUFFICES ASSUME sub # None, NEW t \in Tool, pending[t] # None,
                        pending[t] \notin missed', cards[pending[t]] # t,
                        ~Handled(t)'
                 PROVE  \/ [id |-> pending[t], tool |-> t] \in Copied
                        \/ \E k \in 1..Len(Queue) :
                             Queue[k] = [type |-> "pending",
                                         id |-> pending[t], tool |-> t]
      BY <1>1 DEF Announced
    <2> QED BY DEF PanelInv, Announced
  <1>3. EndsLast'
    BY <1>1 DEF PanelInv, EndsLast
  <1>4. \A i, t : IsFor(i, t)' <=> IsFor(i, t)
    BY DEF IsFor
  <1>5. NamesAgree'
    BY <1>1, <1>4 DEF PanelInv, NamesAgree
  <1>6. \A i, t, k : Settled(i, t, k)' <=> Settled(i, t, k)
    BY <1>1 DEF Settled
  <1>7. CardsSettled'
    BY <1>1, <1>6 DEF PanelInv, CardsSettled
  <1> QED BY <1>2, <1>3, <1>5, <1>7 DEF PanelInv

\* Without a stream only the cards and the clicks have to agree with the
\* registry.
LEMMA PanelClosed ==
  ASSUME sub' = None,
         \A i \in Id : cards'[i] # None =>
            /\ IsFor(i, cards[i])'
            /\ i \in stale' \/ pending'[cards'[i]] = i,
         \A o \in Op : op'[o].pc = "asked" /\ op'[o].ask.id # None =>
            IsFor(op[o].ask.id, op[o].ask.key)'
  PROVE  PanelInv'
  <1>1. Queue' = <<>> /\ Copied' = {}
    BY DEF Queue, Copied
  <1>2. \A k \in 1..Len(Queue') : FALSE
    BY <1>1
  <1>3. Announced'
    BY DEF Announced
  <1>4. EndsLast'
    BY <1>2 DEF EndsLast
  <1>5. NamesAgree'
    BY <1>1, <1>2 DEF NamesAgree
  <1>6. CardsSettled'
    BY <1>1, <1>2 DEF CardsSettled, Settled
  <1> QED BY <1>3, <1>4, <1>5, <1>6 DEF PanelInv

\* Sending one event e along with the change of the registry that it tells.
LEMMA PanelSend ==
  ASSUME TypeOK, PanelInv, NEW e \in Event, Send(e), sub # None,
         cards' = cards,
         \A o \in Op : op'[o].pc = "asked" => op'[o] = op[o],
         prompts' \in Nat, prompts <= prompts',
         missed \cup Overrun("pending") \subseteq missed',
         stale \cup Overrun("resolved") \subseteq stale',
         \A i \in 1..prompts, u \in Tool : pending'[u] = i => pending[u] = i,
         \A u \in Tool :
            \/ pending'[u] = None
            \/ pending'[u] = pending[u] /\ (Handled(u) => Handled(u)')
            \/ e = [type |-> "pending", id |-> pending'[u], tool |-> u],
         \A u \in Tool : pending[u] # None =>
            \/ pending'[u] = pending[u]
            \/ e.type = "resolved" /\ e.id = pending[u],
         IsFor(e.id, e.tool)',
         e.type = "resolved" => \A u \in Tool : pending'[u] # e.id,
         e.type = "pending" => pending'[e.tool] = e.id
  PROVE  PanelInv'
  <1>0. /\ prompts \in Nat /\ Len(Queue) \in Nat
        /\ \A k \in 1..Len(Queue) :
             /\ Queue[k].type \in {"pending", "resolved"}
             /\ Queue[k].id \in Id /\ Queue[k].tool \in Tool
        /\ Copied \in SUBSET [id : Id, tool : Tool]
        /\ cards \in [Id -> Tool \cup {None}]
    BY QueueShape DEF TypeOK
  <1>1. PICK d \in {0, 1} :
              /\ Len(Queue') = Len(Queue) + 1 - d /\ Len(Queue') >= 1
              /\ Queue'[Len(Queue')] = e
              /\ \A k \in 1..Len(Queue) : k > d =>
                   k - d \in 1..Len(Queue') /\ Queue'[k - d] = Queue[k]
              /\ \A k \in 1..Len(Queue') : k < Len(Queue') =>
                   k + d \in 1..Len(Queue) /\ Queue'[k] = Queue[k + d]
              /\ d = 1 => 1 \in 1..Len(Queue) /\
                          Queue[1].id \in Overrun(Queue[1].type)
    BY SendQueue
  <1>2. sub' # None /\ Copied' = Copied
    BY SendQueue
  <1>3. Len(Queue') \in Nat /\ Len(Queue') \in 1..Len(Queue')
    BY <1>0, <1>1
  <1>4. \A i, t : IsFor(i, t) => IsFor(i, t)'
    BY <1>0 DEF IsFor
  <1>5. \A k \in 1..Len(Queue') : k # Len(Queue') =>
            k + d \in 1..Len(Queue) /\ Queue'[k] = Queue[k + d]
    BY <1>1, <1>3
  <1>6. Announced'
    <2> SUFFICES ASSUME NEW t \in Tool, pending'[t] # None,
                        pending'[t] \notin missed', cards[pending'[t]] # t,
                        ~Handled(t)',
                        [id |-> pending'[t], tool |-> t] \notin Copied
                 PROVE  \E k \in 1..Len(Queue') :
                          Queue'[k] = [type |-> "pending",
                                       id |-> pending'[t], tool |-> t]
      BY <1>2 DEF Announced
    <2>1. CASE e = [type |-> "pending", id |-> pending'[t], tool |-> t]
      BY <1>1, <1>3, <2>1
    <2>2. CASE pending'[t] = pending[t] /\ (Handled(t) => Handled(t)')
      <3>1. PICK k \in 1..Len(Queue) :
              Queue[k] = [type |-> "pending", id |-> pending[t], tool |-> t]
        BY <2>2 DEF PanelInv, Announced
      <3>2. CASE k > d
        BY <1>1, <2>2, <3>1, <3>2
      <3>3. CASE ~(k > d)
        <4>1. k = 1 /\ d = 1
          BY <1>0, <3>3
        <4>2. pending[t] \in Overrun("pending")
          BY <1>1, <3>1, <4>1
        <4> QED BY <2>2, <4>2
      <3> QED BY <3>2, <3>3
    <2> QED BY <2>1, <2>2
  <1>7. EndsLast'
    <2> SUFFICES ASSUME NEW k \in 1..Len(Queue'), NEW t \in Tool,
                        Queue'[k].type = "resolved"
                 PROVE  pending'[t] # Queue'[k].id
      BY DEF EndsLast
    <2>1. CASE k = Len(Queue')
      BY <1>1, <2>1
    <2>2. CASE k # Len(Queue')
      <3>1. k + d \in 1..Len(Queue) /\ Queue'[k] = Queue[k + d]
        BY <1>5, <2>2
      <3>2. Queue[k + d].id \in 1..prompts
        BY <3>1 DEF PanelInv, NamesAgree, IsFor
      <3>3. pending[t] # Queue[k + d].id
        BY <3>1 DEF PanelInv, EndsLast
      <3> QED BY <3>1, <3>2, <3>3
    <2> QED BY <2>1, <2>2
  <1>8. NamesAgree'
    <2>1. \A k \in 1..Len(Queue') : IsFor(Queue[k].id, Queue[k].tool)'
      <3> SUFFICES ASSUME NEW k \in 1..Len(Queue')
                   PROVE  IsFor(Queue[k].id, Queue[k].tool)'
        OBVIOUS
      <3>1. CASE k = Len(Queue')
        BY <1>1, <3>1
      <3>2. CASE k # Len(Queue')
        <4>1. IsFor(Queue[k + d].id, Queue[k + d].tool)
              /\ Queue'[k] = Queue[k + d]
          BY <1>5, <3>2 DEF PanelInv, NamesAgree
        <4> QED BY <1>0, <4>1 DEF IsFor
      <3> QED BY <3>1, <3>2
    <2>2. \A i \in Id : cards'[i] # None => IsFor(i, cards[i])'
      BY <1>4 DEF PanelInv, NamesAgree
    <2>3. \A z \in Copied' : IsFor(z.id, z.tool)'
      BY <1>2, <1>4 DEF PanelInv, NamesAgree
    <2>4. \A o \in Op : op'[o].pc = "asked" /\ op'[o].ask.id # None =>
            IsFor(op[o].ask.id, op[o].ask.key)'
      BY <1>4 DEF PanelInv, NamesAgree
    <2> QED BY <2>1, <2>2, <2>3, <2>4 DEF NamesAgree
  <1>9. ASSUME NEW i \in Id, NEW t \in Tool, NEW k \in Nat, NEW l \in Nat,
               Settled(i, t, k), l < Len(Queue'), l = 0 \/ l <= k - d
        PROVE  Settled(i, t, l)'
    <2>1. CASE i \in stale
      BY <2>1 DEF Settled
    <2>2. CASE pending[t] = i
      <3>1. i # None
        BY ConsentAssumption
      <3>2. \/ pending'[t] = i
            \/ e.type = "resolved" /\ e.id = i
        BY <2>2, <3>1
      <3>3. CASE pending'[t] = i
        BY <3>3 DEF Settled
      <3>4. CASE e.type = "resolved" /\ e.id = i
        BY <1>1, <1>3, <1>9, <3>4 DEF Settled
      <3> QED BY <3>2, <3>3, <3>4
    <2>3. CASE \E m \in 1..Len(Queue) :
                 m > k /\ Queue[m].type = "resolved" /\ Queue[m].id = i
      <3>1. PICK m \in 1..Len(Queue) :
                 m > k /\ Queue[m].type = "resolved" /\ Queue[m].id = i
        BY <2>3
      <3>2. CASE m > d
        <4>1. m - d \in 1..Len(Queue') /\ Queue'[m - d] = Queue[m]
          BY <1>1, <3>2
        <4>2. m - d > l
          BY <1>0, <1>9, <3>1, <3>2
        <4> QED BY <3>1, <4>1, <4>2 DEF Settled
      <3>3. CASE ~(m > d)
        <4>1. m = 1 /\ d = 1
          BY <1>0, <3>3
        <4>2. i \in Overrun("resolved")
          BY <1>1, <3>1, <4>1
        <4> QED BY <4>2 DEF Settled
      <3> QED BY <3>2, <3>3
    <2> QED BY <1>9, <2>1, <2>2, <2>3 DEF Settled
  <1>10. CardsSettled'
    <2>0. 0 < Len(Queue')
      BY <1>1, <1>3
    <2>1. ASSUME NEW i \in Id, cards'[i] # None
          PROVE  Settled(i, cards[i], 0)'
      <3>1. cards[i] \in Tool /\ Settled(i, cards[i], 0)
        BY <1>0, <2>1 DEF PanelInv, CardsSettled
      <3>2. \A t \in Tool : Settled(i, t, 0) => Settled(i, t, 0)'
        BY <1>9, <2>0
      <3>3. \A t \in Tool : cards[i] = t => Settled(i, cards[i], 0)'
        BY <3>1, <3>2 DEF Settled
      <3> QED BY <3>1, <3>3
    <2>2. ASSUME NEW z \in Copied' PROVE Settled(z.id, z.tool, 0)'
      <3>1. z.id \in Id /\ z.tool \in Tool /\ Settled(z.id, z.tool, 0)
        BY <1>0, <1>2, <2>2 DEF PanelInv, CardsSettled
      <3> QED BY <1>9, <2>0, <3>1
    <2>3. ASSUME NEW k \in 1..Len(Queue'), Queue'[k].type = "pending"
          PROVE  Settled(Queue[k].id, Queue[k].tool, k)'
      <3>1. CASE k = Len(Queue')
        BY <1>1, <2>3, <3>1 DEF Settled
      <3>2. CASE k # Len(Queue')
        <4>1. k + d \in 1..Len(Queue) /\ Queue'[k] = Queue[k + d]
              /\ k < Len(Queue')
          BY <1>3, <1>5, <3>2
        <4> DEFINE z == Queue[k + d]
        <4>2. z.id \in Id /\ z.tool \in Tool /\ Settled(z.id, z.tool, k + d)
          BY <1>0, <2>3, <4>1 DEF PanelInv, CardsSettled
        <4>3. k \in Nat /\ k + d \in Nat /\ k <= (k + d) - d
          BY <1>3
        <4>4. \A i \in Id, t \in Tool :
                Settled(i, t, k + d) => Settled(i, t, k)'
          BY <1>9, <4>1, <4>3
        <4>5. \A i \in Id, t \in Tool :
                i = z.id /\ t = z.tool =>
                  (Settled(i, t, k)' <=>
                     Settled(Queue[k].id, Queue[k].tool, k)')
          BY <4>1 DEF Settled
        <4> QED BY <4>2, <4>4, <4>5
      <3> QED BY <3>1, <3>2
    <2> QED BY <2>1, <2>2, <2>3 DEF CardsSettled
  <1> QED BY <1>6, <1>7, <1>8, <1>10 DEF PanelInv

\* record_pending keeps panel and registry in step.
LEMMA PanelRecord ==
  ASSUME TypeOK, TypeOK', PanelInv, NEW x \in Dispatch, RecordPending(x)
  PROVE  PanelInv'
  <1> DEFINE t == disp[x].tool
  <1>1. t \in Tool
    BY DispShape DEF TypeOK, RecordPending
  <1>2. op' = op /\ cards' = cards
    BY DEF RecordPending
  <1>3. CASE pending[t] # None
    <2>1. UNCHANGED <<pending, prompts, sub, missed, stale>>
      BY <1>3 DEF RecordPending, stream
    <2>2. \A u \in Tool : Handled(u) => Handled(u)'
      BY <1>2, <2>1 DEF Handled
    <2> QED BY <1>2, <2>1, <2>2, PanelQuiet
  <1>4. CASE pending[t] = None
    <2> DEFINE p == prompts + 1
    <2>1. /\ prompts' = p /\ pending' = [pending EXCEPT ![t] = p]
          /\ Send([type |-> "pending", id |-> p, tool |-> t])
          /\ missed' = missed \cup Overrun("pending")
          /\ stale' = stale \cup Overrun("resolved")
      BY <1>4 DEF RecordPending
    <2>2. /\ pending \in [Tool -> Id \cup {None}]
          /\ prompts \in Nat /\ p \in Id
          /\ \A u \in Tool : pending[u] # None => pending[u] <= prompts
          /\ cards \in [Id -> Tool \cup {None}]
      BY <1>4 DEF TypeOK, RecordPending
    <2>3. pending'[t] = p /\ \A u \in Tool : u # t => pending'[u] = pending[u]
      BY <1>1, <2>1, <2>2
    <2>4. \A i \in 1..prompts, u \in Tool : pending'[u] = i => pending[u] = i
      BY <2>2, <2>3
    <2>5. \A u \in Tool : pending[u] # None => pending'[u] = pending[u]
      BY <1>4, <2>3
    <2>6. \A i, u : IsFor(i, u) => IsFor(i, u)'
      BY <2>1, <2>2, <2>4 DEF IsFor
    <2>7. CASE sub = None
      <3>1. sub' = None
        BY <2>1, <2>7 DEF Send
      <3>2. Queue = <<>>
        BY <2>7 DEF Queue
      <3>3. ASSUME NEW i \in Id, cards[i] # None
            PROVE  /\ IsFor(i, cards[i])'
                   /\ i \in stale' \/ pending'[cards[i]] = i
        <4>1. IsFor(i, cards[i]) /\ cards[i] \in Tool
          BY <2>2, <3>3 DEF PanelInv, NamesAgree
        <4>2. i \in stale \/ pending[cards[i]] = i
          BY <3>2, <3>3 DEF PanelInv, CardsSettled, Settled
        <4>3. i # None
          BY ConsentAssumption
        <4>4. i \in stale' \/ pending'[cards[i]] = i
          BY <2>1, <2>5, <4>1, <4>2, <4>3
        <4> QED BY <1>2, <2>6, <4>1, <4>4
      <3>4. \A o \in Op : op'[o].pc = "asked" /\ op'[o].ask.id # None =>
              IsFor(op[o].ask.id, op[o].ask.key)'
        BY <1>2, <2>6 DEF PanelInv, NamesAgree
      <3> QED BY <1>2, <3>1, <3>3, <3>4, PanelClosed
    <2>8. CASE sub # None
      <3>1. PICK e \in Event : e = [type |-> "pending", id |-> p, tool |-> t]
        BY <1>1, <2>2 DEF Event
      <3>2. IsFor(e.id, e.tool)'
        <4>1. e.id = p /\ e.tool = t /\ p # None
          BY <2>2, <3>1, ConsentAssumption
        <4>2. \A u \in Tool : pending'[u] = p => u = t
          BY <2>2, <2>3, <4>1
        <4> QED BY <2>1, <2>2, <4>1, <4>2 DEF IsFor
      <3>3. \A u \in Tool : u # t =>
              pending'[u] = pending[u] /\ (Handled(u) => Handled(u)')
        BY <1>2, <2>3 DEF Handled
      <3>4. \A u \in Tool :
              \/ pending'[u] = None
              \/ pending'[u] = pending[u] /\ (Handled(u) => Handled(u)')
              \/ e = [type |-> "pending", id |-> pending'[u], tool |-> u]
        BY <2>3, <3>1, <3>3
      <3>5. e.type = "pending" /\ e.tool = t /\ e.id = p
        BY <3>1
      <3>6. /\ prompts' \in Nat /\ prompts <= prompts'
            /\ missed \cup Overrun("pending") \subseteq missed'
            /\ stale \cup Overrun("resolved") \subseteq stale'
            /\ Send(e)
        BY <2>1, <2>2, <3>1
      <3> QED BY <1>2, <2>3, <2>4, <2>5, <2>8, <3>1, <3>2, <3>4, <3>5,
                 <3>6, PanelSend
    <2> QED BY <2>7, <2>8
  <1> QED BY <1>3, <1>4

\* So does resolve_pending_for_tool.
LEMMA PanelResolve ==
  ASSUME TypeOK, TypeOK', PanelInv, NEW o \in Op, Resolve(o)
  PROVE  PanelInv'
  <1> DEFINE t == op[o].tool
  <1>1. t \in Tool /\ op[o].pc = "resolve"
    BY OpShape DEF TypeOK, Resolve
  <1>2. /\ op' = [op EXCEPT ![o] = Idle] /\ cards' = cards
        /\ prompts' = prompts /\ pending' = [pending EXCEPT ![t] = None]
    BY DEF Resolve
  <1>3. /\ pending \in [Tool -> Id \cup {None}] /\ op \in [Op -> OpState]
        /\ prompts \in Nat /\ cards \in [Id -> Tool \cup {None}]
        /\ \A u, v \in Tool : pending[u] # None =>
             pending[u] <= prompts /\ (pending[u] = pending[v] => u = v)
    BY DEF TypeOK
  <1>4. /\ \A q \in Op : op'[q].pc = "asked" => op'[q] = op[q]
        /\ \A q \in Op : q # o => op'[q] = op[q]
    BY <1>2, <1>3 DEF Idle
  <1>5. pending'[t] = None /\ \A u \in Tool : u # t => pending'[u] = pending[u]
    BY <1>1, <1>2, <1>3
  <1>6. \A u \in Tool : u # t /\ Handled(u) => Handled(u)'
    BY <1>1, <1>4, <1>5 DEF Handled
  <1>7. CASE pending[t] = None
    <2>1. UNCHANGED <<sub, missed, stale>>
      BY <1>7 DEF Resolve
    <2>2. pending' = pending
      BY <1>2, <1>3, <1>5, <1>7
    <2>3. \A u \in Tool : Handled(u) /\ pending[u] # None =>
            Handled(u)' \/ pending[u] \in missed'
      BY <1>6, <1>7
    <2> QED BY <1>2, <1>4, <2>1, <2>2, <2>3, PanelQuiet
  <1>8. CASE pending[t] # None
    <2> DEFINE i == pending[t]
    <2>0. i \in Id /\ i \in 1..prompts
      BY <1>1, <1>3, <1>8
    <2>1. /\ Send([type |-> "resolved", id |-> i, tool |-> t])
          /\ missed' = missed \cup Overrun("pending")
          /\ stale' = stale \cup Overrun("resolved") \cup
                        IF sub = None THEN {i} ELSE {}
      BY <1>8 DEF Resolve
    <2>2. None \notin Int
      BY ConsentAssumption
    <2>3. \A j \in 1..prompts, u \in Tool : pending'[u] = j => pending[u] = j
      BY <1>5, <2>2
    <2>4. \A u \in Tool : pending'[u] # i
      BY <1>1, <1>3, <1>5, <1>8
    <2>5. \A j, u : IsFor(j, u) => IsFor(j, u)'
      BY <1>2, <2>3 DEF IsFor
    <2>6. CASE sub = None
      <3>1. sub' = None
        BY <2>1, <2>6 DEF Send
      <3>2. Queue = <<>>
        BY <2>6 DEF Queue
      <3>3. ASSUME NEW j \in Id, cards[j] # None
            PROVE  /\ IsFor(j, cards[j])'
                   /\ j \in stale' \/ pending'[cards[j]] = j
        <4>1. IsFor(j, cards[j]) /\ cards[j] \in Tool
          BY <1>3, <3>3 DEF PanelInv, NamesAgree
        <4>2. j \in stale \/ pending[cards[j]] = j
          BY <3>2, <3>3 DEF PanelInv, CardsSettled, Settled
        <4>3. j \in stale' \/ pending'[cards[j]] = j
          BY <1>5, <2>1, <2>6, <4>1, <4>2
        <4> QED BY <1>2, <2>5, <4>1, <4>3
      <3>4. \A q \in Op : op'[q].pc = "asked" /\ op'[q].ask.id # None =>
              IsFor(op[q].ask.id, op[q].ask.key)'
        BY <1>4, <2>5 DEF PanelInv, NamesAgree
      <3> QED BY <1>2, <3>1, <3>3, <3>4, PanelClosed
    <2>7. CASE sub # None
      <3>1. PICK e \in Event : e = [type |-> "resolved", id |-> i, tool |-> t]
        BY <1>1, <2>0 DEF Event
      <3>2. e.type = "resolved" /\ e.tool = t /\ e.id = i
        BY <3>1
      <3>3. IsFor(e.id, e.tool)'
        BY <1>2, <2>0, <2>4, <3>2 DEF IsFor
      <3>4. \A u \in Tool :
              \/ pending'[u] = None
              \/ pending'[u] = pending[u] /\ (Handled(u) => Handled(u)')
        BY <1>5, <1>6
      <3>5. \A u \in Tool : pending[u] # None =>
              \/ pending'[u] = pending[u]
              \/ e.type = "resolved" /\ e.id = pending[u]
        BY <1>5, <3>2
      <3>6. /\ prompts' \in Nat /\ prompts <= prompts'
            /\ missed \cup Overrun("pending") \subseteq missed'
            /\ stale \cup Overrun("resolved") \subseteq stale'
            /\ Send(e)
        BY <1>2, <1>3, <2>1, <3>1
      <3> QED BY <1>2, <1>4, <2>3, <2>4, <2>7, <3>1, <3>2, <3>3, <3>4, <3>5,
                 <3>6, PanelSend
    <2> QED BY <2>6, <2>7
  <1> QED BY <1>7, <1>8

\* The panel's own steps and those of the stream.
LEMMA PanelSide ==
  ASSUME TypeOK, TypeOK', PanelInv,
         \/ \E i \in Id : Answer(i)
         \/ Subscribe \/ Deliver \/ Break \/ CancelTurn \/ Restart
  PROVE  PanelInv'
  <1>0. /\ prompts \in Nat /\ Len(Queue) \in Nat /\ Queue \in Seq(Event)
        /\ \A k \in 1..Len(Queue) :
             /\ Queue[k].type \in {"pending", "resolved"}
             /\ Queue[k].id \in Id /\ Queue[k].tool \in Tool
        /\ Copied \in SUBSET [id : Id, tool : Tool]
        /\ cards \in [Id -> Tool \cup {None}]
        /\ pending \in [Tool -> Id \cup {None}] /\ op \in [Op -> OpState]
    BY QueueShape DEF TypeOK
  <1>a. None \notin Id /\ None \notin Tool
    BY ConsentAssumption
  <1>1. ASSUME NEW i \in Id, Answer(i) PROVE PanelInv'
    <2>1. PICK o \in Op, v \in Decision, once \in BOOLEAN :
            Click(o, i, v, once)
      BY <1>1 DEF Answer
    <2>2. UNCHANGED <<pending, prompts, sub, missed, stale>>
      BY <2>1 DEF Click, stream
    <2>3. /\ op[o].pc = "idle" /\ cards[i] # None
          /\ op'[o].pc = "asked" /\ op'[o].ask.id = i
          /\ op'[o].ask.key = cards[i]
          /\ \A q \in Op : q # o => op'[q] = op[q]
      BY <1>0, <2>1 DEF Click
    <2>4. cards'[i] = None /\ \A j \in Id : j # i => cards'[j] = cards[j]
      BY <1>0, <2>1 DEF Click
    <2>5. Queue' = Queue /\ Copied' = Copied
      BY <2>2 DEF Queue, Copied
    <2>6. \A t \in Tool : Handled(t) \/ pending[t] = i => Handled(t)'
      BY <2>2, <2>3 DEF Handled
    <2>7. Announced'
      <3> SUFFICES ASSUME sub # None, NEW t \in Tool, pending[t] # None,
                          pending[t] \notin missed, cards'[pending[t]] # t,
                          ~Handled(t)',
                          [id |-> pending[t], tool |-> t] \notin Copied
                   PROVE  \E k \in 1..Len(Queue) :
                            Queue[k] = [type |-> "pending",
                                        id |-> pending[t], tool |-> t]
        BY <2>2, <2>5 DEF Announced
      <3>1. pending[t] \in Id /\ pending[t] # i /\ ~Handled(t)
        BY <1>0, <2>6
      <3> QED BY <2>4, <3>1 DEF PanelInv, Announced
    <2>8. EndsLast'
      BY <2>2, <2>5 DEF PanelInv, EndsLast
    <2>9. \A j, t : IsFor(j, t)' <=> IsFor(j, t)
      BY <2>2 DEF IsFor
    <2>10. NamesAgree'
      <3>1. \A j \in Id : cards'[j] # None => IsFor(j, cards[j])'
        BY <2>2, <2>4, <2>9 DEF PanelInv, NamesAgree, IsFor
      <3>2. \A q \in Op : op'[q].pc = "asked" /\ op'[q].ask.id # None =>
              IsFor(op[q].ask.id, op[q].ask.key)'
        <4>1. IsFor(i, cards[i])
          BY <2>3 DEF PanelInv, NamesAgree
        <4>2. \A q \in Op : op[q].pc = "asked" /\ op[q].ask.id # None =>
                IsFor(op[q].ask.id, op[q].ask.key)
          BY DEF PanelInv, NamesAgree
        <4> QED BY <2>2, <2>3, <4>1, <4>2 DEF IsFor
      <3> QED BY <2>5, <2>9, <3>1, <3>2 DEF PanelInv, NamesAgree
    <2>11. CardsSettled'
      <3>1. \A j, t, k : Settled(j, t, k)' <=> Settled(j, t, k)
        BY <2>2, <2>5 DEF Settled
      <3>2. \A j \in Id : cards'[j] # None => Settled(j, cards[j], 0)'
        BY <2>2, <2>4, <2>5 DEF PanelInv, CardsSettled, Settled
      <3> QED BY <2>5, <3>1, <3>2 DEF PanelInv, CardsSettled
    <2> QED BY <2>7, <2>8, <2>10, <2>11 DEF PanelInv
  <1>2. CASE Subscribe
    <2>1. UNCHANGED <<pending, prompts, op, cards, missed, stale>>
      BY <1>2 DEF Subscribe, panel
    <2>2. /\ sub = None
          /\ sub' = [snap |-> {[id |-> pending[t], tool |-> t] :
                                 t \in {u \in Tool : pending[u] # None}},
                     rx |-> <<>>, lagged |-> FALSE]
      BY <1>2 DEF Subscribe
    <2>3. sub' # None
      <3>1. sub' \in Subscription
        BY <1>0, <2>2
      <3> QED BY <3>1, ConsentAssumption
    <2>4. /\ Queue' = <<>> /\ Queue = <<>>
          /\ Copied' = {[id |-> pending[t], tool |-> t] :
                          t \in {u \in Tool : pending[u] # None}}
      BY <2>2, <2>3 DEF Queue, Copied
    <2>5. \A k \in 1..Len(Queue') : FALSE
      BY <2>4
    <2>6. \A e \in Copied' : \E t \in Tool :
            /\ pending[t] # None /\ e.id = pending[t] /\ e.tool = t
      BY <2>4
    <2>7. Announced'
      BY <2>1, <2>4 DEF Announced
    <2>8. EndsLast'
      BY <2>5 DEF EndsLast
    <2>9. \A j, t : IsFor(j, t)' <=> IsFor(j, t)
      BY <2>1 DEF IsFor
    <2>10. NamesAgree'
      <3>1. \A e \in Copied' : IsFor(e.id, e.tool)'
        <4> SUFFICES ASSUME NEW e \in Copied' PROVE IsFor(e.id, e.tool)'
          OBVIOUS
        <4>1. PICK t \in Tool :
                pending[t] # None /\ e.id = pending[t] /\ e.tool = t
          BY <2>6
        <4>2. pending[t] \in 1..prompts
              /\ \A u \in Tool : pending[u] = pending[t] => u = t
          BY <1>0, <4>1 DEF TypeOK
        <4> QED BY <2>1, <4>1, <4>2 DEF IsFor
      <3>2. \A j \in Id : cards'[j] # None => IsFor(j, cards[j])'
        BY <2>1, <2>9 DEF PanelInv, NamesAgree
      <3>3. \A q \in Op : op'[q].pc = "asked" /\ op'[q].ask.id # None =>
              IsFor(op[q].ask.id, op[q].ask.key)'
        BY <2>1, <2>9 DEF PanelInv, NamesAgree
      <3> QED BY <2>5, <3>1, <3>2, <3>3 DEF NamesAgree
    <2>11. CardsSettled'
      <3>1. \A j, t, k : Settled(j, t, k)' <=> Settled(j, t, k)
        BY <2>1, <2>4 DEF Settled
      <3>2. \A e \in Copied' : Settled(e.id, e.tool, 0)'
        BY <2>1, <2>6 DEF Settled
      <3>3. \A j \in Id : cards'[j] # None => Settled(j, cards[j], 0)'
        BY <2>1, <3>1 DEF PanelInv, CardsSettled
      <3> QED BY <2>5, <3>2, <3>3 DEF CardsSettled
    <2> QED BY <2>7, <2>8, <2>10, <2>11 DEF PanelInv
  <1>3. ASSUME NEW e \in [id : Id, tool : Tool], DeliverSnapshot(e)
        PROVE  PanelInv'
    <2>1. UNCHANGED <<pending, prompts, op, missed, stale>>
      BY <1>3 DEF DeliverSnapshot
    <2>2. /\ sub # None /\ sub' # None /\ e \in Copied
          /\ Queue' = Queue /\ Copied' = Copied \ {e}
      <3>1. /\ sub # None /\ e \in sub.snap
            /\ sub' = [sub EXCEPT !.snap = @ \ {e}]
            /\ sub \in Subscription
        BY <1>3 DEF DeliverSnapshot, TypeOK
      <3>2. sub' \in Subscription /\ sub'.rx = sub.rx
            /\ sub'.snap = sub.snap \ {e}
        BY <3>1
      <3>3. sub' # None
        BY <3>2, ConsentAssumption
      <3> QED BY <3>1, <3>2, <3>3 DEF Queue, Copied
    <2>3. /\ cards'[e.id] = e.tool /\ e.id \in Id /\ e.tool \in Tool
          /\ \A j \in Id : j # e.id => cards'[j] = cards[j]
      BY <1>0, <1>3 DEF DeliverSnapshot
    <2>4. IsFor(e.id, e.tool) /\ Settled(e.id, e.tool, 0)
      BY <2>2 DEF PanelInv, NamesAgree, CardsSettled
    <2>5. Announced'
      <3> SUFFICES ASSUME NEW t \in Tool, pending[t] # None,
                          pending[t] \notin missed, cards'[pending[t]] # t,
                          ~Handled(t),
                          [id |-> pending[t], tool |-> t] \notin Copied \ {e}
                   PROVE  \E k \in 1..Len(Queue) :
                            Queue[k] = [type |-> "pending",
                                        id |-> pending[t], tool |-> t]
        BY <2>1, <2>2 DEF Announced, Handled
      <3>1. pending[t] \in Id /\ pending[t] # e.id
        BY <1>0, <2>3, <2>4 DEF IsFor
      <3>2. cards[pending[t]] # t
        BY <2>3, <3>1
      <3>3. [id |-> pending[t], tool |-> t] \notin Copied
        BY <3>1
      <3> QED BY <2>2, <3>2, <3>3 DEF PanelInv, Announced
    <2>6. EndsLast'
      BY <2>1, <2>2 DEF PanelInv, EndsLast
    <2>7. \A j, t : IsFor(j, t)' <=> IsFor(j, t)
      BY <2>1 DEF IsFor
    <2>8. \A j, t, k : Settled(j, t, k)' <=> Settled(j, t, k)
      BY <2>1, <2>2 DEF Settled
    <2>9. ASSUME NEW j \in Id, cards'[j] # None
          PROVE  IsFor(j, cards[j])' /\ Settled(j, cards[j], 0)'
      <3>1. CASE j = e.id
        BY <2>1, <2>2, <2>3, <2>4, <3>1 DEF IsFor, Settled
      <3>2. CASE j # e.id
        <4>1. cards'[j] = cards[j]
              /\ IsFor(j, cards[j]) /\ Settled(j, cards[j], 0)
          BY <2>3, <2>9, <3>2 DEF PanelInv, NamesAgree, CardsSettled
        <4> QED BY <2>1, <2>2, <4>1 DEF IsFor, Settled
      <3> QED BY <3>1, <3>2
    <2>10. NamesAgree'
      BY <2>1, <2>2, <2>7, <2>9 DEF PanelInv, NamesAgree
    <2>11. CardsSettled'
      BY <2>2, <2>8, <2>9 DEF PanelInv, CardsSettled
    <2> QED BY <2>5, <2>6, <2>10, <2>11 DEF PanelInv
  <1>4. CASE DeliverEvent
    <2> DEFINE h == Queue[1]
    <2>1. UNCHANGED <<pending, prompts, op, missed, stale>>
      BY <1>4 DEF DeliverEvent
    <2>2. /\ sub # None /\ sub' # None /\ Queue # <<>>
          /\ Queue' = Tail(Queue) /\ Copied = {} /\ Copied' = {}
          /\ cards' = [cards EXCEPT ![h.id] =
                         IF h.type = "pending" THEN h.tool ELSE None]
      <3>1. /\ sub # None /\ sub.snap = {} /\ sub.rx # <<>>
            /\ sub' = [sub EXCEPT !.rx = Tail(@)]
            /\ sub \in Subscription
        BY <1>4 DEF DeliverEvent, TypeOK
      <3>2. sub' \in Subscription /\ sub'.rx = Tail(sub.rx) /\ sub'.snap = {}
        <4>1. sub.rx \in Seq(Event) /\ Tail(sub.rx) \in Seq(Event)
          BY <3>1
        <4> QED BY <3>1, <4>1
      <3>3. sub' # None
        BY <3>2, ConsentAssumption
      <3> QED BY <1>4, <3>1, <3>2, <3>3 DEF DeliverEvent, Queue, Copied
    <2>3. /\ 1 \in 1..Len(Queue) /\ Len(Queue') = Len(Queue) - 1
          /\ \A k \in 1..Len(Queue') :
               k + 1 \in 1..Len(Queue) /\ Queue'[k] = Queue[k + 1]
      BY <1>0, <2>2
    <2>4. \A k \in 1..Len(Queue) : k # 1 =>
            k - 1 \in 1..Len(Queue') /\ Queue'[k - 1] = Queue[k]
      <3> SUFFICES ASSUME NEW k \in 1..Len(Queue), k # 1
                   PROVE  k - 1 \in 1..Len(Queue') /\ Queue'[k - 1] = Queue[k]
        OBVIOUS
      <3>1. k - 1 \in 1..Len(Queue') /\ (k - 1) + 1 = k
        BY <1>0, <2>3
      <3> QED BY <2>3, <3>1
    <2>5. /\ h.id \in Id /\ h.tool \in Tool
          /\ h.type \in {"pending", "resolved"}
          /\ cards'[h.id] = IF h.type = "pending" THEN h.tool ELSE None
          /\ \A j \in Id : j # h.id => cards'[j] = cards[j]
      BY <1>0, <2>2, <2>3
    <2>6. /\ IsFor(h.id, h.tool)
          /\ h.type = "pending" => Settled(h.id, h.tool, 1)
          /\ h.type = "resolved" => \A t \in Tool : pending[t] # h.id
      BY <2>3 DEF PanelInv, NamesAgree, CardsSettled, EndsLast
    <2> HIDE DEF h
    <2>7. Announced'
      <3> SUFFICES ASSUME NEW t \in Tool, pending[t] # None,
                          pending[t] \notin missed, cards'[pending[t]] # t,
                          ~Handled(t)
                   PROVE  \E k \in 1..Len(Queue') :
                            Queue'[k] = [type |-> "pending",
                                         id |-> pending[t], tool |-> t]
        BY <2>1, <2>2 DEF Announced, Handled
      <3>1. pending[t] \in Id /\ pending[t] # h.id
        BY <1>0, <2>5, <2>6 DEF IsFor
      <3>2. cards[pending[t]] # t
        BY <2>5, <3>1
      <3>3. PICK k \in 1..Len(Queue) :
              Queue[k] = [type |-> "pending", id |-> pending[t], tool |-> t]
        BY <2>2, <3>2 DEF PanelInv, Announced
      <3>4. k # 1
        BY <3>1, <3>3 DEF h
      <3> QED BY <2>4, <3>3, <3>4
    <2>8. EndsLast'
      BY <2>1, <2>3 DEF PanelInv, EndsLast
    <2>9. \A j, t : IsFor(j, t)' <=> IsFor(j, t)
      BY <2>1 DEF IsFor
    <2>10. NamesAgree'
      <3>1. ASSUME NEW j \in Id, cards'[j] # None PROVE IsFor(j, cards[j])'
        <4>1. CASE j = h.id
          <5>1. cards'[j] = h.tool
            BY <2>5, <3>1, <4>1
          <5> QED BY <2>1, <2>6, <4>1, <5>1 DEF IsFor
        <4>2. CASE j # h.id
          <5>1. cards'[j] = cards[j] /\ IsFor(j, cards[j])
            BY <2>5, <3>1, <4>2 DEF PanelInv, NamesAgree
          <5> QED BY <2>1, <5>1 DEF IsFor
        <4> QED BY <4>1, <4>2
      <3>2. ASSUME NEW k \in 1..Len(Queue')
            PROVE  IsFor(Queue[k].id, Queue[k].tool)'
        <4>1. Queue'[k] = Queue[k + 1]
              /\ IsFor(Queue[k + 1].id, Queue[k + 1].tool)
          BY <2>3 DEF PanelInv, NamesAgree
        <4> QED BY <2>1, <4>1 DEF IsFor
      <3>3. \A q \in Op : op'[q].pc = "asked" /\ op'[q].ask.id # None =>
              IsFor(op[q].ask.id, op[q].ask.key)'
        BY <2>1, <2>9 DEF PanelInv, NamesAgree
      <3> QED BY <2>2, <3>1, <3>2, <3>3 DEF NamesAgree
    <2>11. ASSUME NEW j \in Id, NEW t \in Tool, NEW k \in Nat,
                  Settled(j, t, k + 1)
           PROVE  Settled(j, t, k)'
      <3>1. CASE j \in stale \/ pending[t] = j
        BY <2>1, <3>1 DEF Settled
      <3>2. CASE \E m \in 1..Len(Queue) : m > k + 1 /\
                   Queue[m].type = "resolved" /\ Queue[m].id = j
        <4>1. PICK m \in 1..Len(Queue) : m > k + 1 /\
                     Queue[m].type = "resolved" /\ Queue[m].id = j
          BY <3>2
        <4>2. m # 1 /\ m - 1 > k
          BY <1>0, <4>1
        <4> QED BY <2>4, <4>1, <4>2 DEF Settled
      <3> QED BY <2>11, <3>1, <3>2 DEF Settled
    <2>12. CardsSettled'
      <3>1. ASSUME NEW j \in Id, cards'[j] # None
            PROVE  Settled(j, cards[j], 0)'
        <4>1. CASE j = h.id
          <5>1. cards'[j] = h.tool /\ h.type = "pending"
            BY <2>5, <3>1, <4>1
          <5>2. Settled(j, h.tool, 0 + 1)
            BY <2>6, <4>1, <5>1
          <5>3. \A t \in Tool : Settled(j, t, 0 + 1) => Settled(j, t, 0)'
            BY <2>11
          <5>4. \A t \in Tool : t = cards'[j] /\ Settled(j, t, 0)' =>
                                  Settled(j, cards[j], 0)'
            BY DEF Settled
          <5>5. \E t \in Tool : t = cards'[j] /\ Settled(j, t, 0 + 1)
            BY <2>5, <5>1, <5>2
          <5> QED BY <5>3, <5>4, <5>5
        <4>2. CASE j # h.id
          <5>1. cards'[j] = cards[j] /\ cards[j] # None /\ cards[j] \in Tool
            BY <1>0, <2>5, <3>1, <4>2
          <5>2. Settled(j, cards[j], 0)
            BY <5>1 DEF PanelInv, CardsSettled
          <5>3. CASE j \in stale \/ pending[cards[j]] = j
            BY <2>1, <5>1, <5>3 DEF Settled
          <5>4. CASE \E m \in 1..Len(Queue) :
                       Queue[m].type = "resolved" /\ Queue[m].id = j
            <6>1. PICK m \in 1..Len(Queue) :
                       Queue[m].type = "resolved" /\ Queue[m].id = j
              BY <5>4
            <6>2. m # 1
              BY <4>2, <6>1 DEF h
            <6>3. m - 1 > 0
              BY <1>0, <6>2
            <6> QED BY <2>4, <6>1, <6>2, <6>3 DEF Settled
          <5> QED BY <5>2, <5>3, <5>4 DEF Settled
        <4> QED BY <4>1, <4>2
      <3>2. ASSUME NEW k \in 1..Len(Queue'), Queue'[k].type = "pending"
            PROVE  Settled(Queue[k].id, Queue[k].tool, k)'
        <4>1. /\ k + 1 \in 1..Len(Queue) /\ Queue'[k] = Queue[k + 1]
              /\ k \in Nat
          BY <1>0, <2>3
        <4>2. /\ Settled(Queue[k + 1].id, Queue[k + 1].tool, k + 1)
              /\ Queue[k + 1].id \in Id /\ Queue[k + 1].tool \in Tool
          BY <1>0, <3>2, <4>1 DEF PanelInv, CardsSettled
        <4>3. \A j \in Id, t \in Tool :
                Settled(j, t, k + 1) => Settled(j, t, k)'
          BY <2>11, <4>1
        <4>4. \A j \in Id, t \in Tool :
                j = Queue[k + 1].id /\ t = Queue[k + 1].tool =>
                  (Settled(j, t, k)' <=>
                     Settled(Queue[k].id, Queue[k].tool, k)')
          BY <4>1 DEF Settled
        <4> QED BY <4>2, <4>3, <4>4
      <3> QED BY <2>2, <3>1, <3>2 DEF CardsSettled
    <2> QED BY <2>7, <2>8, <2>10, <2>12 DEF PanelInv
  <1>5. CASE DeliverLagged
    <2>1. UNCHANGED <<pending, prompts, op, cards, missed, stale>>
      BY <1>5 DEF DeliverLagged, panel
    <2>2. sub # None /\ sub' # None /\ Queue' = Queue /\ Copied' = Copied
      <3>1. /\ sub # None /\ sub \in Subscription
            /\ sub' = [sub EXCEPT !.lagged = FALSE]
        BY <1>5 DEF DeliverLagged, TypeOK
      <3>2. sub' \in Subscription /\ sub'.rx = sub.rx /\ sub'.snap = sub.snap
        BY <3>1
      <3>3. sub' # None
        BY <3>2, ConsentAssumption
      <3> QED BY <3>1, <3>2, <3>3 DEF Queue, Copied
    <2>3. Announced'
      BY <2>1, <2>2 DEF PanelInv, Announced, Handled
    <2>4. EndsLast'
      BY <2>1, <2>2 DEF PanelInv, EndsLast
    <2>5. NamesAgree'
      BY <2>1, <2>2 DEF PanelInv, NamesAgree, IsFor
    <2>6. CardsSettled'
      BY <2>1, <2>2 DEF PanelInv, CardsSettled, Settled
    <2> QED BY <2>3, <2>4, <2>5, <2>6 DEF PanelInv
  <1>6. CASE Break
    <2>1. UNCHANGED <<pending, prompts, op, cards>> /\ sub' = None
          /\ stale' = stale \cup Undelivered /\ sub # None
      BY <1>6 DEF Break
    <2>2. \A k \in 1..Len(Queue) : Queue[k].type = "resolved" =>
            Queue[k].id \in Undelivered
      BY <2>1 DEF Queue, Undelivered
    <2>3. \A j \in Id : cards'[j] # None =>
            /\ IsFor(j, cards[j])'
            /\ j \in stale' \/ pending'[cards'[j]] = j
      BY <2>1, <2>2 DEF PanelInv, NamesAgree, CardsSettled, IsFor, Settled
    <2>4. \A q \in Op : op'[q].pc = "asked" /\ op'[q].ask.id # None =>
            IsFor(op[q].ask.id, op[q].ask.key)'
      BY <2>1 DEF PanelInv, NamesAgree, IsFor
    <2> QED BY <2>1, <2>3, <2>4, PanelClosed
  <1>7. CASE CancelTurn
    <2>1. /\ UNCHANGED <<pending, prompts, sub, op, stale>>
          /\ missed' = missed \cup {i \in Id : cards[i] # None}
          /\ cards' = [i \in Id |-> None]
      BY <1>7 DEF CancelTurn, stream
    <2>2. Queue' = Queue /\ Copied' = Copied
      BY <2>1 DEF Queue, Copied
    <2>3. Announced'
      <3> SUFFICES ASSUME sub # None, NEW t \in Tool, pending[t] # None,
                          pending[t] \notin missed', ~Handled(t),
                          [id |-> pending[t], tool |-> t] \notin Copied
                   PROVE  \E k \in 1..Len(Queue) :
                            Queue[k] = [type |-> "pending",
                                        id |-> pending[t], tool |-> t]
        BY <2>1, <2>2 DEF Announced, Handled
      <3>1. pending[t] \in Id /\ cards[pending[t]] = None
        BY <1>0, <2>1
      <3>2. cards[pending[t]] # t /\ pending[t] \notin missed
        BY <1>a, <2>1, <3>1
      <3> QED BY <3>2 DEF PanelInv, Announced
    <2>4. EndsLast'
      BY <2>1, <2>2 DEF PanelInv, EndsLast
    <2>5. NamesAgree'
      BY <2>1, <2>2 DEF PanelInv, NamesAgree, IsFor
    <2>6. CardsSettled'
      <3>1. \A i \in Id : cards'[i] = None
        BY <2>1
      <3>2. \A j, t, k : Settled(j, t, k)' <=> Settled(j, t, k)
        BY <2>1, <2>2 DEF Settled
      <3> QED BY <2>2, <3>1, <3>2 DEF PanelInv, CardsSettled
    <2> QED BY <2>3, <2>4, <2>5, <2>6 DEF PanelInv
  <1>8. CASE Restart
    <2>1. /\ pending' = [t \in Tool |-> None] /\ op' = [o \in Op |-> Idle]
          /\ sub' = None /\ stale' = stale \cup 1..prompts
          /\ prompts' = prompts /\ cards' = cards
      BY <1>8 DEF Restart
    <2>2. \A i \in Id, t \in Tool : IsFor(i, t) => IsFor(i, t)'
      BY <1>a, <2>1 DEF IsFor
    <2>3. ASSUME NEW j \in Id, cards'[j] # None
          PROVE  IsFor(j, cards[j])' /\ j \in stale'
      <3>1. IsFor(j, cards[j]) /\ cards[j] \in Tool
        BY <1>0, <2>1, <2>3 DEF PanelInv, NamesAgree
      <3>2. j \in stale'
        BY <2>1, <3>1 DEF IsFor
      <3>3. IsFor(j, cards[j])'
        BY <1>a, <2>1, <3>1 DEF IsFor
      <3> QED BY <3>2, <3>3
    <2>4. \A q \in Op : op'[q].pc # "asked"
      BY <2>1 DEF Idle
    <2> QED BY <2>1, <2>3, <2>4, PanelClosed
  <1> QED BY <1>1, <1>2, <1>3, <1>4, <1>5, <1>6, <1>7, <1>8 DEF Deliver

\* consent.reset clears the registry and tells nobody: its prompts are stale.
LEMMA PanelClear ==
  ASSUME TypeOK, PanelInv, NEW o \in Op, ClearPending(o)
  PROVE  PanelInv'
  <1>1. /\ pending' = [t \in Tool |-> None]
        /\ stale' = stale \cup {i \in Id : \E t \in Tool : pending[t] = i}
        /\ op' = [op EXCEPT ![o] = Idle]
        /\ UNCHANGED <<prompts, sub, cards, missed>>
    BY DEF ClearPending
  <1>2. None \notin Int /\ \A t \in Tool : pending'[t] = None
    BY <1>1, ConsentAssumption
  <1>3. Queue' = Queue /\ Copied' = Copied
    BY <1>1 DEF Queue, Copied
  <1>4. /\ \A k \in 1..Len(Queue) : Queue[k].id \in Id /\ Queue[k].tool \in Tool
        /\ Copied \in SUBSET [id : Id, tool : Tool]
        /\ cards \in [Id -> Tool \cup {None}] /\ op \in [Op -> OpState]
    BY QueueShape DEF TypeOK
  <1>5. Announced'
    BY <1>2 DEF Announced
  <1>6. EndsLast'
    BY <1>2, <1>3, <1>4 DEF EndsLast
  <1>7. \A i, t : IsFor(i, t) => IsFor(i, t)'
    BY <1>1, <1>2 DEF IsFor
  <1>8. \A q \in Op : op'[q].pc = "asked" => op'[q] = op[q]
    BY <1>1, <1>4 DEF Idle
  <1>9. NamesAgree'
    BY <1>1, <1>3, <1>7, <1>8 DEF PanelInv, NamesAgree
  <1>10. \A i \in Id, t \in Tool : \A k :
             Settled(i, t, k) => Settled(i, t, k)'
    BY <1>1, <1>3 DEF Settled
  <1>11. CardsSettled'
    <2>1. \A i \in Id : cards[i] # None => cards[i] \in Tool
      BY <1>4
    <2>2. \A e \in Copied : e.id \in Id /\ e.tool \in Tool
      BY <1>4
    <2> QED BY <1>1, <1>3, <1>4, <1>10, <2>1, <2>2 DEF PanelInv, CardsSettled
  <1> QED BY <1>5, <1>6, <1>9, <1>11 DEF PanelInv

\* Every step keeps the panel in step with the registry and the stream.
LEMMA PanelStep == TypeOK /\ PanelInv /\ [Next]_vars => PanelInv'
  <1> SUFFICES ASSUME TypeOK, PanelInv, [Next]_vars PROVE PanelInv'
    OBVIOUS
  <1>0. /\ TypeOK' /\ op \in [Op -> OpState]
        /\ pending \in [Tool -> Id \cup {None}]
    BY TypeStep DEF TypeOK
  <1>1. ASSUME UNCHANGED <<stream, op, panel>> PROVE PanelInv'
    <2>1. UNCHANGED <<pending, prompts, sub, cards, stale, missed, op>>
      BY <1>1 DEF stream, panel
    <2>2. \A t \in Tool : Handled(t) => Handled(t)'
      BY <2>1 DEF Handled
    <2> QED BY <2>1, <2>2, PanelQuiet
  <1>2. ASSUME NEW x \in Dispatch, RecordPending(x) PROVE PanelInv'
    BY <1>0, <1>2, PanelRecord
  <1>3. ASSUME NEW x \in Dispatch, Finish(x) PROVE PanelInv'
    BY <1>1, <1>3 DEF Finish
  <1>4. ASSUME NEW x \in Dispatch, NEW t \in Tool, NEW tier \in Tiers,
               NEW confirm \in BOOLEAN, Check(x, t, tier, confirm)
        PROVE  PanelInv'
    BY <1>1, <1>4 DEF Check
  <1>5. ASSUME NEW o \in Op, NEW q \in Arriving(o),
               Remember(o, q) \/ Grant(o, q)
        PROVE  PanelInv'
    <2>1. /\ UNCHANGED <<pending, prompts, sub, cards, stale, missed>>
          /\ op' = [op EXCEPT ![o] = Resolving(q.key)]
      BY <1>5 DEF Remember, Grant, stream, panel
    <2>2. Resolving(q.key).pc # "asked"
      BY DEF Resolving, Idle
    <2>3. /\ op'[o] = Resolving(q.key)
          /\ \A r \in Op : r # o => op'[r] = op[r]
      BY <1>0, <2>1
    <2>4. ASSUME NEW t \in Tool, Handled(t), pending[t] # None
          PROVE  Handled(t)'
      <3>1. PICK r \in Op : \/ op[r].pc = "asked" /\ op[r].ask.id = pending[t]
                            \/ op[r].pc = "resolve" /\ op[r].tool = t
        BY <2>4 DEF Handled
      <3>2. CASE r # o
        BY <2>1, <2>3, <3>1, <3>2 DEF Handled
      <3>3. CASE r = o
        <4>1. op[o].pc = "asked" /\ q = op[o].ask /\ q.id = pending[t]
          BY <3>1, <3>3 DEF Arriving
        <4>2. q.key \in Tool /\ IsFor(q.id, q.key)
          BY <2>4, <4>1 DEF TypeOK, PanelInv, NamesAgree
        <4>3. q.key = t /\ q.key # NoAuth
          BY <4>1, <4>2, ConsentAssumption DEF IsFor
        <4>4. op'[o].pc = "resolve" /\ op'[o].tool = t
          BY <2>3, <4>3 DEF Resolving
        <4> QED BY <4>4 DEF Handled
      <3> QED BY <3>2, <3>3
    <2> QED BY <2>1, <2>2, <2>3, <2>4, PanelQuiet
  <1>6. ASSUME NEW o \in Op, NEW q,
               op[o].pc = "asked" => q = op[o].ask,
               op[o].pc \in {"asked", "idle"},
               UNCHANGED <<stream, cards, stale>>,
               missed' = missed \cup Unanswered(q),
               op' = [op EXCEPT ![o] = Idle]
        PROVE  PanelInv'
    <2>1. UNCHANGED <<pending, prompts, sub, cards, stale>>
      BY <1>6 DEF stream
    <2>2. op'[o] = Idle /\ \A r \in Op : r # o => op'[r] = op[r]
      BY <1>0, <1>6
    <2>3. \A r \in Op : op'[r].pc = "asked" => op'[r] = op[r]
      BY <2>2 DEF Idle
    <2>4. \A t \in Tool : Handled(t) /\ pending[t] # None =>
            Handled(t)' \/ pending[t] \in missed'
      <3> SUFFICES ASSUME NEW t \in Tool, Handled(t), pending[t] # None
                   PROVE  Handled(t)' \/ pending[t] \in missed'
        OBVIOUS
      <3>1. PICK r \in Op : \/ op[r].pc = "asked" /\ op[r].ask.id = pending[t]
                            \/ op[r].pc = "resolve" /\ op[r].tool = t
        BY DEF Handled
      <3>2. CASE r # o
        BY <2>1, <2>2, <3>1, <3>2 DEF Handled
      <3>3. CASE r = o
        <4>1. q.id = pending[t]
          BY <1>6, <3>1, <3>3
        <4> QED BY <1>6, <4>1 DEF Unanswered
      <3> QED BY <3>2, <3>3
    <2>5. missed \subseteq missed'
      BY <1>6
    <2> QED BY <2>1, <2>3, <2>4, <2>5, PanelQuiet
  <1>7. ASSUME NEW o \in Op, NEW q \in Arriving(o), RememberFails(o, q)
        PROVE  PanelInv'
    <2>1. /\ op[o].pc = "asked" => q = op[o].ask
          /\ op[o].pc \in {"asked", "idle"}
      BY DEF Arriving
    <2> QED BY <1>6, <1>7, <2>1 DEF RememberFails
  <1>8. ASSUME NEW o \in Op, Unreached(o) PROVE PanelInv'
    BY <1>6, <1>8 DEF Unreached
  <1>9. ASSUME NEW o \in Op, Resolve(o) PROVE PanelInv'
    BY <1>0, <1>9, PanelResolve
  <1>10. ASSUME NEW o \in Op, ClearPending(o) PROVE PanelInv'
    BY <1>10, PanelClear
  <1>11. ASSUME NEW o \in Op, Reset(o) PROVE PanelInv'
    <2>1. /\ UNCHANGED <<pending, prompts, sub, cards, stale, missed>>
          /\ op[o].pc = "idle"
          /\ \/ op' = op
             \/ op' = [op EXCEPT ![o] = [pc |-> "clear"]]
      BY <1>11 DEF Reset, stream, panel
    <2>2. \A r \in Op : op'[r] = op[r] \/ (r = o /\ op'[r].pc = "clear")
      BY <1>0, <2>1
    <2>3. \A r \in Op : op'[r].pc = "asked" => op'[r] = op[r]
      BY <2>2
    <2>4. \A t \in Tool : Handled(t) => Handled(t)'
      BY <2>1, <2>2 DEF Handled
    <2> QED BY <2>1, <2>3, <2>4, PanelQuiet
  <1>12. CASE \/ \E i \in Id : Answer(i)
              \/ Subscribe \/ Deliver \/ Break \/ CancelTurn \/ Restart
    BY <1>0, <1>12, PanelSide
  <1>13. CASE UNCHANGED vars
    BY <1>1, <1>13 DEF vars
  <1> QED BY <1>2, <1>3, <1>4, <1>5, <1>7, <1>8, <1>9, <1>10, <1>11, <1>12,
             <1>13
          DEF Next, Serve

\* Whatever order prompts, answers, subscriptions, lost events and restarts
\* come in, once the stream is drained the panel's cards are the pending
\* prompts, but for those it took down or lost and those whose end it was not
\* told.
THEOREM PanelTheorem == Spec => []PanelShowsPending
  <1>1. Init => PanelInv
    <2> SUFFICES ASSUME Init PROVE PanelInv
      OBVIOUS
    <2>1. Queue = <<>> /\ Copied = {} /\ sub = None
      BY DEF Init, Queue, Copied
    <2>2. (\A i \in Id : cards[i] = None) /\ \A o \in Op : op[o].pc # "asked"
      BY DEF Init, Idle
    <2>3. \A k \in 1..Len(Queue) : FALSE
      BY <2>1
    <2> QED BY <2>1, <2>2, <2>3
            DEF PanelInv, Announced, EndsLast, NamesAgree, CardsSettled
  <1>2. TypeOK /\ PanelInv => PanelShowsPending
    <2> SUFFICES ASSUME TypeOK, PanelInv, sub # None, sub.snap = {},
                        sub.rx = <<>>
                 PROVE  PanelShowsPending
      BY DEF PanelShowsPending
    <2>1. Queue = <<>> /\ Copied = {}
      BY DEF Queue, Copied
    <2>2. \A k \in 1..Len(Queue) : FALSE
      BY <2>1
    <2>3. \A t \in Tool : \/ pending[t] = None \/ pending[t] \in missed
                          \/ cards[pending[t]] = t \/ Handled(t)
      BY <2>1, <2>2 DEF PanelInv, Announced
    <2>4. \A i \in Id : cards[i] # None /\ i \notin stale =>
            pending[cards[i]] = i
      BY <2>2 DEF PanelInv, CardsSettled, Settled
    <2> QED BY <2>3, <2>4 DEF PanelShowsPending, Handled
  <1> QED BY <1>1, <1>2, ConsentTypes, PanelStep, PTL DEF Spec
=============================================================================
