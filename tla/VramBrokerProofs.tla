-------------------------- MODULE VramBrokerProofs --------------------------
(***************************************************************************)
(* Machine-checked theorems about VramBroker, for any number of calls,     *)
(* models and nonces and any configuration: what holds of any interleaving *)
(* (IndInv), and what the races of its reserve handlers leave intact       *)
(* (RaceInv).                                                              *)
(***************************************************************************)
EXTENDS VramBroker, FiniteSetTheorems, TLAPS

\* A saturating difference is a natural number no larger than its minuend,
\* whatever is subtracted (free_for_grant subtracts a sum over the leases).
LEMMA SatSubBound ==
    ASSUME NEW a \in Nat, NEW b
    PROVE  SatSub(a, b) \in Nat /\ SatSub(a, b) <= a
  BY DEF SatSub

\* Neither headroom exceeds what the margins leave.
LEMMA FreeType ==
    /\ FreeForGrant \in Nat
    /\ FreeForGrant <= SatSub(TotalVram, SafetyMargin)
    /\ FreeForGrantDram \in Nat
    /\ FreeForGrantDram <= SatSub(TotalDram, DramSafetyMargin)
  BY SatSubBound, ConfigAssumption DEF FreeForGrant, FreeForGrantDram, SatSub

-----------------------------------------------------------------------------
(* Type correctness                                                        *)

\* The broker starts well typed.
LEMMA TypeInit == Init => TypeOK
  BY RequestAssumption, IdAssumption
  DEF Init, TypeOK, PCs, Codes, LeaseId

\* Removing any set of leases keeps the registry well typed.
LEMMA RemoveType ==
    ASSUME TypeOK, NEW S, RemoveAll(S)
    PROVE  /\ leases' \in [LeaseId -> LeaseType \cup {None}]
           /\ byNonce' \in [Nonces -> LeaseId \cup {None}]
  BY DEF TypeOK, RemoveAll

\* Answering, moving on and deciding are well typed.
LEMMA AnswerType ==
    ASSUME TypeOK, NEW r \in Req, NEW code \in Codes,
           NEW l \in LeaseId \cup {None}, Answer(r, code, l)
    PROVE  /\ pc' \in [Req -> PCs]
           /\ reply' \in [Req -> [code: Codes, lease: LeaseId \cup {None}]]
  BY DEF TypeOK, Answer, Goto, PCs

\* A handler only goes to labels.
LEMMA GotoType ==
    ASSUME TypeOK, NEW r \in Req, NEW label \in PCs, Goto(r, label)
    PROVE  pc' \in [Req -> PCs]
  BY DEF TypeOK, Goto

\* A decided split is a pair of sizes.
LEMMA DecideType ==
    ASSUME TypeOK, NEW r \in Req, NEW v \in Nat, NEW d \in Nat,
           Decide(r, v, d)
    PROVE  /\ pc' \in [Req -> PCs]
           /\ split' \in [Req -> [vram: Nat, dram: Nat]]
  BY DEF TypeOK, Decide, Goto, PCs

\* Every step keeps the types.
LEMMA TypeStep == TypeOK /\ [Next]_vars => TypeOK'
  <1> SUFFICES ASSUME TypeOK, [Next]_vars PROVE TypeOK'
    OBVIOUS
  <1> USE DEF registry, locals, history, Goto
  <1>1. ASSUME NEW r \in Req, Arrive(r) PROVE TypeOK'
    BY <1>1 DEF TypeOK, Arrive, PCs
  <1>2. ASSUME NEW r \in Req, Handler(r) PROVE TypeOK'
    <2>1. CASE Estimate(r)
      <3>1. request[r] \in RequestType /\ request[r].model \in Models
            /\ request[r].bytes \in Nat
        BY DEF TypeOK, RequestType
      <3>2. EstimateFor(request[r].model) \in Nat
        BY <3>1, ConfigAssumption, IdAssumption
        DEF TypeOK, EstimateFor, LeaseType, LeaseId
      <3> DEFINE want == IF request[r].bytes > 0 THEN request[r].bytes
                         ELSE EstimateFor(request[r].model)
      <3>3. want \in Nat
        BY <3>1, <3>2
      <3>4. nbytes' = [nbytes EXCEPT ![r] = want]
        BY <2>1 DEF Estimate
      <3> HIDE DEF want
      <3>5. nbytes' \in [Req -> Nat]
        BY <3>3, <3>4 DEF TypeOK
      <3>6. /\ pc' \in [Req -> PCs]
            /\ reply' \in [Req -> [code: Codes, lease: LeaseId \cup {None}]]
        <4>1. CASE Answer(r, "invalid_request", None)
          BY <4>1, AnswerType DEF Codes
        <4>2. CASE Answer(r, "would_exceed_total", None)
          BY <4>2, AnswerType DEF Codes
        <4>3. CASE Goto(r, "dedup") /\ UNCHANGED reply
          BY <4>3, GotoType DEF PCs, TypeOK
        <4> QED
          BY <2>1, <4>1, <4>2, <4>3 DEF Estimate
      <3> QED
        BY <2>1, <3>5, <3>6 DEF TypeOK, Estimate
    <2>2. CASE Dedup(r)
      <3>1. FindByNonce(request[r].nonce) \in LeaseId \cup {None}
        BY DEF TypeOK, FindByNonce, RequestType
      <3>2. /\ pc' \in [Req -> PCs]
            /\ reply' \in [Req -> [code: Codes, lease: LeaseId \cup {None}]]
        BY <2>2, <3>1, AnswerType, GotoType DEF Dedup, TypeOK, PCs, Codes
      <3> QED
        BY <2>2, <3>1, <3>2 DEF TypeOK, Dedup
    <2>3. CASE CheckFits(r)
      <3>1. /\ pc' \in [Req -> PCs]
            /\ split' \in [Req -> [vram: Nat, dram: Nat]]
        <4>1. CASE Decide(r, nbytes[r], 0)
          BY <4>1, DecideType DEF TypeOK
        <4>2. CASE /\ Goto(r, IF EnableSpillover THEN "spill_vram"
                                                ELSE "blockers")
                   /\ UNCHANGED split
          BY <4>2, GotoType DEF TypeOK, PCs
        <4> QED
          BY <2>3, <4>1, <4>2 DEF CheckFits
      <3> QED
        BY <2>3, <3>1 DEF TypeOK, CheckFits
    <2>4. CASE SpillVram(r)
      BY <2>4, FreeType DEF TypeOK, SpillVram, PCs
    <2>5. CASE SpillDram(r)
      <3>1. SatSub(nbytes[r], split[r].vram) \in Nat
        BY SatSubBound DEF TypeOK
      <3>2. /\ pc' \in [Req -> PCs]
            /\ split' \in [Req -> [vram: Nat, dram: Nat]]
        <4>1. CASE Decide(r, split[r].vram, SatSub(nbytes[r], split[r].vram))
          BY <4>1, <3>1, DecideType DEF TypeOK
        <4>2. CASE Goto(r, "blockers") /\ UNCHANGED split
          BY <4>2, GotoType DEF TypeOK, PCs
        <4> QED
          BY <2>5, <4>1, <4>2 DEF SpillDram
      <3> QED
        BY <2>5, <3>2 DEF TypeOK, SpillDram
    <2>6. CASE Grant(r)
      <3>1. request[r] \in RequestType /\ split[r] \in [vram: Nat, dram: Nat]
        BY DEF TypeOK
      <3>2. leases' \in [LeaseId -> LeaseType \cup {None}]
        <4> DEFINE new == [model |-> request[r].model,
                           bytes |-> split[r].vram, dram |-> split[r].dram,
                           priority |-> request[r].priority,
                           synthetic |-> FALSE,
                           estimated |-> (request[r].bytes = 0),
                           nonce |-> request[r].nonce, left |-> TTL]
        <4>1. new \in LeaseType
          BY <3>1, ConfigAssumption DEF LeaseType, RequestType
        <4>2. leases' = [leases EXCEPT ![r] = new]
          BY <2>6 DEF Grant, Add
        <4> HIDE DEF new
        <4> QED
          BY <4>1, <4>2 DEF TypeOK
      <3>3. byNonce' \in [Nonces -> LeaseId \cup {None}]
        BY <2>6 DEF TypeOK, Grant, Add, LeaseId
      <3>4. cache' \in [Models -> Nat \cup {None}]
        BY <2>6, <3>1 DEF TypeOK, Grant, RequestType
      <3>5. crowded' \in SUBSET Req /\ doubled' \in SUBSET Nonces
        <4>1. {request[r].nonce} \ {None} \subseteq Nonces
          BY <3>1 DEF RequestType
        <4> QED
          BY <2>6, <4>1 DEF TypeOK, Grant
      <3> QED
        BY <2>6, <3>2, <3>3, <3>4, <3>5
        DEF TypeOK, Grant, Answer, PCs, Codes, LeaseId
    <2>7. CASE ListBlockers(r)
      <3>1. Blockers(r) \in SUBSET TargetType
        BY DEF TypeOK, Blockers, RealLeases, Live, TargetType, LeaseType
      <3> QED
        BY <2>7, <3>1 DEF TypeOK, ListBlockers, PCs
    <2>8. CASE PickVictims(r)
      <3>1. targets' \in [Req -> SUBSET TargetType]
        BY <2>8 DEF TypeOK, PickVictims, ToEvict
      <3>2. /\ pc' \in [Req -> PCs]
            /\ reply' \in [Req -> [code: Codes, lease: LeaseId \cup {None}]]
        <4>1. CASE Answer(r, "insufficient_vram", None)
          BY <4>1, AnswerType DEF Codes
        <4>2. CASE /\ Goto(r, IF GracePeriod > 0 THEN "grace" ELSE "drain")
                   /\ UNCHANGED reply
          BY <4>2, GotoType DEF TypeOK, PCs
        <4> QED
          BY <2>8, <4>1, <4>2 DEF PickVictims
      <3> QED
        BY <2>8, <3>1, <3>2 DEF TypeOK, PickVictims
    <2>9. CASE WaitFits(r)
      BY <2>9 DEF TypeOK, WaitFits, Decide, PCs
    <2>10. CASE GraceOver(r)
      BY <2>10 DEF TypeOK, GraceOver, PCs
    <2>11. CASE DrainOver(r)
      BY <2>11 DEF TypeOK, DrainOver, Answer, PCs, Codes
    <2> QED
      BY <1>2, <2>1, <2>2, <2>3, <2>4, <2>5, <2>6, <2>7, <2>8, <2>9, <2>10,
         <2>11 DEF Handler
  <1>3. ASSUME NEW r \in Req, Release(r) PROVE TypeOK'
    BY <1>3, RemoveType DEF TypeOK, Release
  <1>4. ASSUME NEW r \in Req, Heartbeat(r) PROVE TypeOK'
    <2>1. reply[r].lease \in LeaseId /\ leases[reply[r].lease] \in LeaseType
      BY <1>4 DEF TypeOK, Heartbeat, Holds
    <2>2. [leases[reply[r].lease] EXCEPT !.left = TTL] \in LeaseType
      BY <2>1, ConfigAssumption DEF LeaseType
    <2>3. leases' \in [LeaseId -> LeaseType \cup {None}]
      BY <1>4, <2>1, <2>2 DEF TypeOK, Heartbeat
    <2> QED
      BY <1>4, <2>3 DEF TypeOK, Heartbeat
  <1>5. ASSUME NEW r \in Req, CallerGone(r) PROVE TypeOK'
    BY <1>5 DEF TypeOK, CallerGone
  <1>6. ASSUME NEW l \in LeaseId, Evict(l) PROVE TypeOK'
    BY <1>6, RemoveType DEF TypeOK, Evict
  <1>7. ASSUME NEW m \in Models, CacheExpires(m) PROVE TypeOK'
    BY <1>7 DEF TypeOK, CacheExpires
  <1>8. CASE Tick
    <2>1. ASSUME NEW l \in LeaseId, leases[l] \in LeaseType
          PROVE  [leases[l] EXCEPT !.left = @ - 1] \in LeaseType
      BY <2>1 DEF LeaseType
    <2>2. leases' \in [LeaseId -> LeaseType \cup {None}]
      BY <1>8, <2>1 DEF TypeOK, Tick, RealLeases, Live
    <2> QED
      BY <1>8, <2>2 DEF TypeOK, Tick
  <1>9. CASE Reap
    BY <1>9, RemoveType DEF TypeOK, Reap
  <1>10. CASE OllamaPoll
    <2>1. ASSUME NEW ps \in PsReplies \cup {NothingLoaded}, NEW l \in Models
          PROVE  SyntheticLease(l, ps[l]) \in LeaseType
      BY PsAssumption DEF NothingLoaded, SyntheticLease, LeaseType
    <2>2. leases' \in [LeaseId -> LeaseType \cup {None}]
      BY <1>10, <2>1 DEF TypeOK, OllamaPoll, ReplaceSynthetic, LeaseId
    <2> QED
      BY <1>10, <2>2 DEF TypeOK, OllamaPoll
  <1>11. CASE UNCHANGED vars
    BY <1>11 DEF TypeOK, vars
  <1> QED
    BY <1>1, <1>2, <1>3, <1>4, <1>5, <1>6, <1>7, <1>8, <1>9, <1>10, <1>11
    DEF Next

\* Type correctness of the broker, for every configuration and any number of
\* concurrent calls.
THEOREM TypeCorrect == Spec => []TypeOK
  BY TypeInit, TypeStep, PTL DEF Spec

-----------------------------------------------------------------------------
(* The inductive invariant                                                 *)

\* Which leases are synthetic is decided by their id, and they carry no nonce.
SyntheticShape ==
    \A l \in LeaseId : leases[l] # None =>
        /\ leases[l].synthetic <=> l \in Models
        /\ leases[l].synthetic => leases[l].nonce = None

\* A real lease is what its own call, which is over, decided to grant.
LeaseFromCall ==
    \A l \in Req : leases[l] # None =>
        /\ pc[l] = "done"
        /\ reply[l].lease = l
        /\ leases[l].nonce = request[l].nonce
        /\ leases[l].priority = request[l].priority
        /\ leases[l].bytes = split[l].vram
        /\ leases[l].dram = split[l].dram

\* A victim is the copy of a lease some finished call was granted, and of
\* lower priority, whether or not that lease still exists.
TargetFromCall ==
    \A r \in Req : \A t \in targets[r] :
        /\ t.id \in Req
        /\ pc[t.id] = "done"
        /\ t.priority = request[t.id].priority
        /\ t.bytes = split[t.id].vram
        /\ t.priority < request[r].priority

AnsweredIsDone == \A r \in Req : reply[r].lease # None => pc[r] = "done"

\* A split that will be granted, and one that was, stays inside the margins.
SplitFits ==
    \A r \in Req :
        /\ split[r].vram <= SatSub(TotalVram, SafetyMargin)
        /\ split[r].dram <= SatSub(TotalDram, DramSafetyMargin)

IndInv ==
    /\ TypeOK
    /\ SyntheticShape
    /\ LeaseFromCall
    /\ TargetFromCall
    /\ AnsweredIsDone
    /\ SplitFits
    /\ NonceIndexSound
    /\ ReplyIsCallersLease

\* The broker starts in IndInv.
LEMMA IndInit == Init => IndInv
  <1> SUFFICES ASSUME Init PROVE IndInv
    OBVIOUS
  <1>1. TypeOK
    BY TypeInit
  <1>2. SplitFits
    BY SatSubBound, ConfigAssumption DEF Init, SplitFits
  <1>3. SyntheticShape /\ LeaseFromCall /\ NonceIndexSound
    BY DEF Init, SyntheticShape, LeaseFromCall, NonceIndexSound, LeaseId
  <1>4. TargetFromCall /\ AnsweredIsDone /\ ReplyIsCallersLease
    BY DEF Init, TargetFromCall, AnsweredIsDone, ReplyIsCallersLease
  <1> QED
    BY <1>1, <1>2, <1>3, <1>4 DEF IndInv

\* Removing leases, with the index entries of their nonces, disturbs nothing.
LEMMA RemoveKeeps ==
    ASSUME IndInv, NEW S, RemoveAll(S),
           UNCHANGED <<cache, pc, locals, reply>>
    PROVE  /\ SyntheticShape' /\ LeaseFromCall' /\ TargetFromCall'
           /\ AnsweredIsDone' /\ SplitFits'
           /\ NonceIndexSound' /\ ReplyIsCallersLease'
  <1> USE DEF IndInv, locals
  <1>1. \A l \in LeaseId : leases'[l] # None => leases'[l] = leases[l]
    BY DEF RemoveAll
  <1>2. SyntheticShape' /\ LeaseFromCall'
    BY <1>1 DEF SyntheticShape, LeaseFromCall, LeaseId
  <1>3. NonceIndexSound'
    <2> SUFFICES ASSUME NEW n \in Nonces, byNonce'[n] # None
                 PROVE  /\ byNonce'[n] \in Req
                        /\ leases'[byNonce'[n]] = leases[byNonce[n]]
                        /\ byNonce'[n] = byNonce[n]
      BY DEF NonceIndexSound
    <2>1. byNonce'[n] = byNonce[n] /\ byNonce[n] \in Req
      BY DEF RemoveAll, NonceIndexSound
    <2>2. byNonce[n] \notin S
      BY <2>1 DEF RemoveAll, NonceIndexSound, Live, LeaseId
    <2> QED
      BY <2>1, <2>2 DEF RemoveAll, LeaseId
  <1>4. TargetFromCall' /\ AnsweredIsDone' /\ SplitFits'
        /\ ReplyIsCallersLease'
    BY DEF TargetFromCall, AnsweredIsDone, SplitFits, ReplyIsCallersLease
  <1> QED
    BY <1>2, <1>3, <1>4

\* A handler step that leaves registry, request and answers alone: the
\* handler r was not done, so what finished calls left behind stays.
LEMMA InnerStep ==
    ASSUME IndInv, NEW r \in Req, pc[r] # "done",
           NEW label \in PCs, Goto(r, label),
           UNCHANGED <<leases, byNonce, request, reply>>,
           \A k \in Req : k # r => split'[k] = split[k]
    PROVE  /\ SyntheticShape' /\ LeaseFromCall' /\ AnsweredIsDone'
           /\ NonceIndexSound' /\ ReplyIsCallersLease'
           /\ UNCHANGED targets => TargetFromCall'
  <1> USE DEF IndInv
  <1>1. \A k \in Req : pc[k] = "done" => pc'[k] = "done" /\ k # r
    BY DEF Goto, TypeOK
  <1>2. SyntheticShape' /\ NonceIndexSound' /\ ReplyIsCallersLease'
    BY DEF SyntheticShape, NonceIndexSound, ReplyIsCallersLease
  <1>3. LeaseFromCall' /\ AnsweredIsDone'
    BY <1>1 DEF LeaseFromCall, AnsweredIsDone
  <1>4. UNCHANGED targets => TargetFromCall'
    BY <1>1 DEF TargetFromCall
  <1> QED
    BY <1>2, <1>3, <1>4

\* Refusing r: the answer names no lease.
LEMMA RefuseStep ==
    ASSUME IndInv, NEW r \in Req, pc[r] # "done", NEW code,
           Answer(r, code, None),
           UNCHANGED <<leases, byNonce, request, split>>
    PROVE  /\ SyntheticShape' /\ LeaseFromCall' /\ AnsweredIsDone'
           /\ NonceIndexSound' /\ ReplyIsCallersLease' /\ SplitFits'
           /\ UNCHANGED targets => TargetFromCall'
  <1> USE DEF IndInv
  <1>1. \A k \in Req : pc[k] = "done" => pc'[k] = "done" /\ k # r
    BY DEF Answer, Goto, TypeOK
  <1>2. \A k \in Req : reply'[k].lease = IF k = r THEN None ELSE reply[k].lease
    BY DEF Answer, TypeOK
  <1>3. SyntheticShape' /\ NonceIndexSound' /\ SplitFits'
    BY DEF SyntheticShape, NonceIndexSound, SplitFits
  <1>4. LeaseFromCall'
    BY <1>1, <1>2 DEF LeaseFromCall
  <1>5. AnsweredIsDone' /\ ReplyIsCallersLease'
    BY <1>1, <1>2 DEF AnsweredIsDone, ReplyIsCallersLease
  <1>6. UNCHANGED targets => TargetFromCall'
    BY <1>1 DEF TargetFromCall
  <1> QED
    BY <1>3, <1>4, <1>5, <1>6

\* Deciding on a split inside the margins.
LEMMA DecideStep ==
    ASSUME IndInv, NEW r \in Req, pc[r] # "done", NEW v, NEW d,
           Decide(r, v, d),
           v <= SatSub(TotalVram, SafetyMargin),
           d <= SatSub(TotalDram, DramSafetyMargin),
           UNCHANGED <<leases, byNonce, request, reply, targets>>
    PROVE  /\ SyntheticShape' /\ LeaseFromCall' /\ AnsweredIsDone'
           /\ NonceIndexSound' /\ ReplyIsCallersLease' /\ SplitFits'
           /\ TargetFromCall'
  <1>1. \A k \in Req : split'[k] = IF k = r THEN [vram |-> v, dram |-> d]
                                            ELSE split[k]
    BY DEF IndInv, TypeOK, Decide
  <1>2. SplitFits'
    BY <1>1 DEF IndInv, SplitFits
  <1>3. Goto(r, "grant") /\ "grant" \in PCs
    BY DEF Decide, PCs
  <1> QED
    BY <1>1, <1>2, <1>3, InnerStep

\* Two versions of a lease that differ at most in their expiry.
Retimed(x, y) ==
    /\ x # None /\ y # None
    /\ y.synthetic = x.synthetic /\ y.nonce = x.nonce
    /\ y.priority = x.priority
    /\ y.bytes = x.bytes /\ y.dram = x.dram

SameUpToTime ==
    \A l \in LeaseId : leases'[l] = leases[l] \/ Retimed(leases[l], leases'[l])

\* Setting the time left changes nothing else of a lease.
LEMMA RetimedLease ==
    ASSUME NEW x \in LeaseType, NEW n \in Int
    PROVE  Retimed(x, [x EXCEPT !.left = n])
  <1>1. [x EXCEPT !.left = n] \in LeaseType
    BY DEF LeaseType
  <1> QED
    BY <1>1, IdAssumption DEF LeaseType, Retimed

\* A heartbeat, and a tick, change nothing but expiry times.
LEMMA HeartbeatRetimes ==
    ASSUME TypeOK, NEW r \in Req, Heartbeat(r) PROVE SameUpToTime
  <1> DEFINE x == reply[r].lease
  <1>1. x \in LeaseId /\ leases[x] \in LeaseType
    BY DEF TypeOK, Heartbeat, Holds
  <1> DEFINE y == [leases[x] EXCEPT !.left = TTL]
  <1>2. \A l \in LeaseId : leases'[l] = IF l = x THEN y ELSE leases[l]
    BY DEF Heartbeat, TypeOK
  <1>3. Retimed(leases[x], y)
    BY <1>1, RetimedLease, ConfigAssumption
  <1> HIDE DEF y
  <1> QED
    BY <1>2, <1>3 DEF SameUpToTime

\* Time passing changes nothing of a lease but the time it has left.
LEMMA TickRetimes == ASSUME TypeOK, Tick PROVE SameUpToTime
  <1> SUFFICES ASSUME NEW l \in LeaseId
               PROVE  leases'[l] = leases[l] \/ Retimed(leases[l], leases'[l])
    BY DEF SameUpToTime
  <1>1. CASE leases[l] \in LeaseType
    <2> DEFINE y == [leases[l] EXCEPT !.left = leases[l].left - 1]
    <2>1. leases[l].left - 1 \in Int
      BY <1>1 DEF LeaseType
    <2>2. Retimed(leases[l], y)
      BY <1>1, <2>1, RetimedLease
    <2>3. leases'[l] = leases[l] \/ leases'[l] = y
      BY DEF Tick
    <2> HIDE DEF y
    <2> QED
      BY <2>2, <2>3
  <1>2. CASE leases[l] = None
    BY <1>2 DEF Tick, RealLeases, Live
  <1> QED
    BY <1>1, <1>2 DEF TypeOK

\* Extending or running down the lifetime of leases disturbs nothing.
LEMMA RetimeKeeps ==
    ASSUME IndInv, SameUpToTime, UNCHANGED <<byNonce, pc, locals, reply>>
    PROVE  /\ SyntheticShape' /\ LeaseFromCall' /\ TargetFromCall'
           /\ AnsweredIsDone' /\ SplitFits'
           /\ NonceIndexSound' /\ ReplyIsCallersLease'
  <1> USE DEF IndInv, SameUpToTime, Retimed, locals, LeaseId
  <1>1. SyntheticShape'
    BY DEF SyntheticShape
  <1>2. LeaseFromCall'
    BY DEF LeaseFromCall
  <1>3. NonceIndexSound'
    BY DEF NonceIndexSound
  <1>4. TargetFromCall' /\ AnsweredIsDone' /\ SplitFits'
        /\ ReplyIsCallersLease'
    BY DEF TargetFromCall, AnsweredIsDone, SplitFits, ReplyIsCallersLease
  <1> QED
    BY <1>1, <1>2, <1>3, <1>4

\* Every step keeps IndInv.
LEMMA IndStep == IndInv /\ [Next]_vars => IndInv'
  <1> SUFFICES ASSUME IndInv, [Next]_vars PROVE IndInv'
    OBVIOUS
  <1>0. TypeOK /\ TypeOK'
    BY TypeStep DEF IndInv
  <1> USE DEF registry, locals
  <1>1. ASSUME NEW r \in Req, Arrive(r) PROVE IndInv'
    <2>1. SplitFits'
      BY <1>1 DEF Arrive, IndInv, SplitFits
    <2> QED
      BY <1>0, <1>1, <2>1, InnerStep DEF Arrive, IndInv, PCs
  <1>2. ASSUME NEW r \in Req, Handler(r) PROVE IndInv'
    <2>1. CASE Estimate(r)
      <3>1. CASE Answer(r, "invalid_request", None)
        BY <1>0, <2>1, <3>1, RefuseStep DEF Estimate, IndInv
      <3>2. CASE Answer(r, "would_exceed_total", None)
        BY <1>0, <2>1, <3>2, RefuseStep DEF Estimate, IndInv
      <3>3. CASE Goto(r, "dedup") /\ UNCHANGED reply
        <4>1. SplitFits'
          BY <2>1 DEF Estimate, IndInv, SplitFits
        <4> QED
          BY <1>0, <2>1, <3>3, <4>1, InnerStep DEF Estimate, IndInv, PCs
      <3> QED
        BY <2>1, <3>1, <3>2, <3>3 DEF Estimate
    <2>2. CASE Dedup(r)
      <3>1. SplitFits'
        BY <2>2 DEF Dedup, IndInv, SplitFits
      <3>2. CASE Goto(r, "fits") /\ UNCHANGED reply
        BY <1>0, <2>2, <3>1, <3>2, InnerStep DEF Dedup, IndInv, PCs
      <3> DEFINE l == FindByNonce(request[r].nonce)
      <3>3. CASE l # None /\ Answer(r, "ok", l)
        <4>1. /\ request[r].nonce \in Nonces /\ request[r].nonce # None
              /\ l = byNonce[request[r].nonce]
          BY <1>0, <3>3 DEF FindByNonce, TypeOK, RequestType
        <4>2. /\ l \in Req /\ leases[l] # None
              /\ leases[l].nonce = request[r].nonce
          BY <4>1, <3>3 DEF IndInv, NonceIndexSound
        <4>3. request[l].nonce = request[r].nonce
          BY <4>2 DEF IndInv, LeaseFromCall
        <4> HIDE DEF l
        <4>4. /\ \A k \in Req : pc[k] = "done" => pc'[k] = "done" /\ k # r
              /\ pc'[r] = "done"
          BY <1>0, <2>2, <3>3 DEF Dedup, Answer, Goto, TypeOK
        <4>5. \A k \in Req : reply'[k].lease = IF k = r THEN l
                                                        ELSE reply[k].lease
          BY <1>0, <3>3 DEF Answer, TypeOK
        <4>6. SyntheticShape' /\ NonceIndexSound'
          BY <2>2 DEF Dedup, IndInv, SyntheticShape, NonceIndexSound
        <4>7. LeaseFromCall' /\ TargetFromCall'
          BY <2>2, <4>4, <4>5 DEF Dedup, IndInv, LeaseFromCall, TargetFromCall
        <4>8. AnsweredIsDone' /\ ReplyIsCallersLease'
          BY <2>2, <4>1, <4>2, <4>3, <4>4, <4>5
          DEF Dedup, IndInv, AnsweredIsDone, ReplyIsCallersLease
        <4> QED
          BY <1>0, <3>1, <4>6, <4>7, <4>8 DEF IndInv
      <3> QED
        BY <2>2, <3>2, <3>3 DEF Dedup
    <2>3. CASE CheckFits(r)
      <3>1. CASE nbytes[r] <= FreeForGrant /\ Decide(r, nbytes[r], 0)
        <4>1. /\ nbytes[r] <= SatSub(TotalVram, SafetyMargin)
              /\ 0 <= SatSub(TotalDram, DramSafetyMargin)
          BY <1>0, <3>1, FreeType, SatSubBound, ConfigAssumption DEF TypeOK
        <4> QED
          BY <1>0, <2>3, <3>1, <4>1, DecideStep DEF CheckFits, IndInv
      <3>2. CASE UNCHANGED split
        <4>1. SplitFits'
          BY <3>2 DEF IndInv, SplitFits
        <4>2. PICK label \in PCs : pc[r] # "done" /\ Goto(r, label)
          BY <2>3 DEF CheckFits, Decide, PCs
        <4> QED
          BY <1>0, <2>3, <3>2, <4>1, <4>2, InnerStep DEF CheckFits, IndInv
      <3> QED
        BY <2>3, <3>1, <3>2 DEF CheckFits
    <2>4. CASE SpillVram(r)
      <3>1. \A k \in Req : split'[k] = IF k = r
                                       THEN [vram |-> FreeForGrant, dram |-> 0]
                                       ELSE split[k]
        BY <1>0, <2>4 DEF SpillVram, TypeOK
      <3>2. SplitFits'
        BY <3>1, FreeType, SatSubBound, ConfigAssumption DEF IndInv, SplitFits
      <3> QED
        BY <1>0, <2>4, <3>1, <3>2, InnerStep DEF SpillVram, IndInv, PCs
    <2>5. CASE SpillDram(r)
      <3> DEFINE d == SatSub(nbytes[r], split[r].vram)
      <3>1. CASE d <= FreeForGrantDram /\ Decide(r, split[r].vram, d)
        <4>1. d \in Nat /\ split[r].vram <= SatSub(TotalVram, SafetyMargin)
          BY <1>0, SatSubBound DEF TypeOK, IndInv, SplitFits
        <4> HIDE DEF d
        <4>2. SatSub(TotalDram, DramSafetyMargin) \in Nat
          BY SatSubBound, ConfigAssumption
        <4>3. d <= SatSub(TotalDram, DramSafetyMargin)
          BY <3>1, <4>1, <4>2, FreeType
        <4> QED
          BY <1>0, <2>5, <3>1, <4>1, <4>3, DecideStep DEF SpillDram, IndInv
      <3>2. CASE Goto(r, "blockers") /\ UNCHANGED split
        <4>1. SplitFits'
          BY <3>2 DEF IndInv, SplitFits
        <4> QED
          BY <1>0, <2>5, <3>2, <4>1, InnerStep DEF SpillDram, IndInv, PCs
      <3> QED
        BY <2>5, <3>1, <3>2 DEF SpillDram
    <2>6. CASE Grant(r)
      <3> DEFINE new == [model |-> request[r].model,
                         bytes |-> split[r].vram, dram |-> split[r].dram,
                         priority |-> request[r].priority,
                         synthetic |-> FALSE,
                         estimated |-> (request[r].bytes = 0),
                         nonce |-> request[r].nonce, left |-> TTL]
      <3>1. \A l \in LeaseId : leases'[l] = IF l = r THEN new ELSE leases[l]
        BY <1>0, <2>6 DEF Grant, Add, TypeOK
      <3>2. /\ new.synthetic = FALSE /\ new.nonce = request[r].nonce
            /\ new.priority = request[r].priority
            /\ new.bytes = split[r].vram /\ new.dram = split[r].dram
        OBVIOUS
      <3>3. \A n \in Nonces : byNonce'[n] = IF n = request[r].nonce THEN r
                                            ELSE byNonce[n]
        BY <2>6 DEF Grant, Add
      <3>4. leases'[r] # None
        <4>1. new \in LeaseType
          BY <1>0, ConfigAssumption DEF TypeOK, LeaseType, RequestType
        <4> QED
          BY <3>1, <4>1, IdAssumption DEF LeaseId
      <3> HIDE DEF new
      <3>5. /\ \A k \in Req : pc[k] = "done" => pc'[k] = "done" /\ k # r
            /\ pc'[r] = "done"
        BY <1>0, <2>6 DEF Grant, Answer, Goto, TypeOK
      <3>6. \A k \in Req : reply'[k].lease = IF k = r THEN r
                                                      ELSE reply[k].lease
        BY <1>0, <2>6 DEF Grant, Answer, TypeOK
      <3>7. leases[r] = None
        BY <2>6 DEF Grant, IndInv, LeaseFromCall
      <3>8. SyntheticShape'
        BY <3>1, <3>2, IdAssumption DEF IndInv, SyntheticShape, LeaseId
      <3>9. LeaseFromCall'
        BY <2>6, <3>1, <3>2, <3>5, <3>6
        DEF Grant, IndInv, LeaseFromCall, LeaseId
      <3>10. TargetFromCall' /\ SplitFits' /\ AnsweredIsDone'
        BY <2>6, <3>5, <3>6
        DEF Grant, IndInv, TargetFromCall, SplitFits, AnsweredIsDone
      <3>11. NonceIndexSound'
        <4> SUFFICES ASSUME NEW n \in Nonces, byNonce'[n] # None
                     PROVE  /\ byNonce'[n] \in Req
                            /\ leases'[byNonce'[n]] # None
                            /\ leases'[byNonce'[n]].nonce = n
                            /\ ~leases'[byNonce'[n]].synthetic
          BY DEF NonceIndexSound
        <4>1. CASE n = request[r].nonce
          BY <4>1, <3>1, <3>2, <3>3, <3>4 DEF LeaseId
        <4>2. CASE n # request[r].nonce
          BY <4>2, <3>1, <3>3, <3>7 DEF IndInv, NonceIndexSound, LeaseId
        <4> QED
          BY <4>1, <4>2
      <3>12. ReplyIsCallersLease'
        BY <2>6, <3>6 DEF Grant, IndInv, ReplyIsCallersLease
      <3> QED
        BY <1>0, <3>8, <3>9, <3>10, <3>11, <3>12 DEF IndInv
    <2>7. CASE ListBlockers(r)
      <3>1. \A k \in Req : targets'[k] = IF k = r THEN Blockers(r)
                                                  ELSE targets[k]
        BY <1>0, <2>7 DEF ListBlockers, TypeOK
      <3>2. \A t \in Blockers(r) :
                /\ t.id \in Req /\ leases[t.id] # None
                /\ t.priority = leases[t.id].priority
                /\ t.bytes = leases[t.id].bytes
                /\ t.priority < request[r].priority
        BY DEF Blockers, RealLeases, Live, LeaseId, IndInv, SyntheticShape
      <3>3. \A k \in Req : pc[k] = "done" => pc'[k] = "done"
        BY <1>0, <2>7 DEF ListBlockers, Goto, TypeOK
      <3>4. TargetFromCall'
        BY <2>7, <3>1, <3>2, <3>3
        DEF ListBlockers, IndInv, TargetFromCall, LeaseFromCall
      <3>5. SplitFits'
        BY <2>7 DEF ListBlockers, IndInv, SplitFits
      <3> QED
        BY <1>0, <2>7, <3>4, <3>5, InnerStep DEF ListBlockers, IndInv, PCs
    <2>8. CASE PickVictims(r)
      <3>1. \A k \in Req : targets'[k] \subseteq targets[k]
        BY <1>0, <2>8 DEF PickVictims, ToEvict, TypeOK
      <3>2. \A k \in Req : pc[k] = "done" => pc'[k] = "done"
        BY <1>0, <2>8 DEF PickVictims, Answer, Goto, TypeOK
      <3>3. TargetFromCall' /\ SplitFits'
        BY <2>8, <3>1, <3>2
        DEF PickVictims, IndInv, TargetFromCall, SplitFits
      <3>4. CASE Answer(r, "insufficient_vram", None)
        BY <1>0, <2>8, <3>3, <3>4, RefuseStep DEF PickVictims, IndInv
      <3>5. CASE UNCHANGED reply
        <4>1. PICK label \in PCs : pc[r] # "done" /\ Goto(r, label)
          BY <2>8 DEF PickVictims, Answer, PCs
        <4> QED
          BY <1>0, <2>8, <3>3, <3>5, <4>1, InnerStep DEF PickVictims, IndInv
      <3> QED
        BY <2>8, <3>4, <3>5 DEF PickVictims
    <2>9. CASE WaitFits(r)
      <3>1. /\ nbytes[r] <= SatSub(TotalVram, SafetyMargin)
            /\ 0 <= SatSub(TotalDram, DramSafetyMargin)
        BY <1>0, <2>9, FreeType, SatSubBound, ConfigAssumption
        DEF TypeOK, WaitFits
      <3> QED
        BY <1>0, <2>9, <3>1, DecideStep DEF WaitFits, IndInv
    <2>10. CASE GraceOver(r)
      <3>1. SplitFits'
        BY <2>10 DEF GraceOver, IndInv, SplitFits
      <3> QED
        BY <1>0, <2>10, <3>1, InnerStep DEF GraceOver, IndInv, PCs
    <2>11. CASE DrainOver(r)
      BY <1>0, <2>11, RefuseStep DEF DrainOver, IndInv
    <2> QED
      BY <1>2, <2>1, <2>2, <2>3, <2>4, <2>5, <2>6, <2>7, <2>8, <2>9, <2>10,
         <2>11 DEF Handler
  <1>3. ASSUME NEW r \in Req, Release(r) PROVE IndInv'
    BY <1>0, <1>3, RemoveKeeps DEF Release, IndInv
  <1>4. ASSUME NEW r \in Req, Heartbeat(r) PROVE IndInv'
    BY <1>0, <1>4, HeartbeatRetimes, RetimeKeeps DEF Heartbeat, IndInv
  <1>5. ASSUME NEW r \in Req, CallerGone(r) PROVE IndInv'
    BY <1>0, <1>5
    DEF CallerGone, IndInv, SyntheticShape, LeaseFromCall, TargetFromCall,
        AnsweredIsDone, SplitFits, NonceIndexSound, ReplyIsCallersLease
  <1>6. ASSUME NEW l \in LeaseId, Evict(l) PROVE IndInv'
    BY <1>0, <1>6, RemoveKeeps DEF Evict, IndInv
  <1>7. ASSUME NEW m \in Models, CacheExpires(m) PROVE IndInv'
    BY <1>0, <1>7
    DEF CacheExpires, IndInv, SyntheticShape, LeaseFromCall, TargetFromCall,
        AnsweredIsDone, SplitFits, NonceIndexSound, ReplyIsCallersLease
  <1>8. CASE Tick
    BY <1>0, <1>8, TickRetimes, RetimeKeeps DEF Tick, IndInv
  <1>9. CASE Reap
    BY <1>0, <1>9, RemoveKeeps DEF Reap, IndInv
  <1>10. CASE OllamaPoll
    <2>1. /\ \A l \in Req : leases'[l] = leases[l]
          /\ \A m \in Models : leases'[m] # None =>
                leases'[m].synthetic = TRUE /\ leases'[m].nonce = None
      BY <1>10, IdAssumption
      DEF OllamaPoll, ReplaceSynthetic, SyntheticLease, LeaseId
    <2>2. SyntheticShape'
      BY <2>1, IdAssumption DEF IndInv, SyntheticShape, LeaseId
    <2> QED
      BY <1>0, <1>10, <2>1, <2>2
      DEF OllamaPoll, IndInv, LeaseFromCall, TargetFromCall,
          AnsweredIsDone, SplitFits, NonceIndexSound, ReplyIsCallersLease
  <1>11. CASE UNCHANGED vars
    BY <1>0, <1>11
    DEF vars, IndInv, SyntheticShape, LeaseFromCall, TargetFromCall,
        AnsweredIsDone, SplitFits, NonceIndexSound, ReplyIsCallersLease
  <1> QED
    BY <1>1, <1>2, <1>3, <1>4, <1>5, <1>6, <1>7, <1>8, <1>9, <1>10, <1>11
    DEF Next

-----------------------------------------------------------------------------
(* Safety                                                                  *)

\* The inductive invariant holds for any interleaving of reserve handlers,
\* client calls, polls and reaps.
THEOREM BrokerInvariant == Spec => []IndInv
  BY IndInit, IndStep, PTL DEF Spec

\* The nonce index never dangles (Registry::add / remove / reap_expired),
\* although removal does not look at what an entry names.
THEOREM NonceIndexTheorem == Spec => []NonceIndexSound
  BY BrokerInvariant, PTL DEF IndInv

\* A retry is answered with a lease of its own nonce (find_by_nonce).
THEOREM ReplyTheorem == Spec => []ReplyIsCallersLease
  BY BrokerInvariant, PTL DEF IndInv

\* Preemption only ever targets real leases of strictly lower priority, and
\* a stale copy never describes another lease (try_grant's blockers).
THEOREM VictimsTheorem == Spec => []VictimsBelowRequester
  <1>1. IndInv => VictimsBelowRequester
    BY DEF IndInv, TargetFromCall, LeaseFromCall, VictimsBelowRequester
  <1> QED
    BY <1>1, BrokerInvariant, PTL

\* No lease exceeds what the machine can hand out with its margins kept.
THEOREM LeaseFitsTheorem == Spec => []LeaseFitsMachine
  <1>1. IndInv => LeaseFitsMachine
    BY DEF IndInv, SyntheticShape, LeaseFromCall, SplitFits,
           LeaseFitsMachine, RealLeases, Live, LeaseId
  <1> QED
    BY <1>1, BrokerInvariant, PTL

-----------------------------------------------------------------------------
(* The broker implements the ledger                                        *)

\* The broker starts as an empty ledger.
LEMMA LedgerInit == Init => Ledger!Init
  BY DEF Init, Ledger!Init, InFlight, Live, LeaseId

\* Removing leases ends them in the ledger.
LEMMA LedgerEnd ==
    ASSUME TypeOK, NEW S, RemoveAll(S), UNCHANGED <<pc, reply>>
    PROVE  Ledger!End
  <1>1. (Live \cap Req)' = (Live \cap Req) \ S
    BY DEF RemoveAll, Live, LeaseId
  <1>2. (Live \cap Req) \ S = (Live \cap Req) \ (S \cap Live \cap Req)
    OBVIOUS
  <1>3. UNCHANGED <<InFlight, {r \in Req : pc[r] = "done"},
                    [r \in Req |-> reply[r].lease]>>
    BY DEF InFlight
  <1> QED
    BY <1>1, <1>2, <1>3 DEF Ledger!End

\* Steps that keep the set of live leases, the answers and who is being
\* served are invisible in the ledger.
LEMMA LedgerStutter ==
    ASSUME \A l \in Req : (leases'[l] = None) = (leases[l] = None),
           UNCHANGED <<InFlight, {r \in Req : pc[r] = "done"}, reply>>
    PROVE  UNCHANGED Ledger!vars
  <1>1. (Live \cap Req)' = Live \cap Req
    BY DEF Live, LeaseId
  <1> QED
    BY <1>1 DEF Ledger!vars

\* Every step is a step of the ledger or leaves it alone.
LEMMA LedgerStep == IndInv /\ [Next]_vars => [Ledger!Next]_(Ledger!vars)
  <1> SUFFICES ASSUME IndInv, [Next]_vars
               PROVE  Ledger!Next \/ UNCHANGED Ledger!vars
    OBVIOUS
  <1>0. TypeOK
    BY DEF IndInv
  <1> USE DEF registry, locals
  <1> DEFINE Done == {r \in Req : pc[r] = "done"}
             Named == [r \in Req |-> reply[r].lease]
  <1>1. ASSUME NEW r \in Req, pc[r] \notin {"idle", "done"},
               NEW code, NEW l, Answer(r, code, l)
        PROVE  /\ r \in InFlight /\ InFlight' = InFlight \ {r}
               /\ Done' = Done \cup {r}
               /\ Named' = [Named EXCEPT ![r] = l]
    <2>1. /\ pc' = [pc EXCEPT ![r] = "done"]
          /\ reply' = [reply EXCEPT ![r] = [code |-> code, lease |-> l]]
          /\ pc \in [Req -> PCs] /\ DOMAIN reply = Req
      BY <1>0, <1>1 DEF TypeOK, Answer, Goto
    <2>2. r \in InFlight /\ InFlight' = InFlight \ {r}
      BY <1>1, <2>1 DEF InFlight
    <2>3. Done' = Done \cup {r}
      BY <2>1
    <2>4. Named' = [Named EXCEPT ![r] = l]
      BY <2>1
    <2> QED BY <2>2, <2>3, <2>4
  <1>2. ASSUME NEW r \in Req, pc[r] \notin {"idle", "done"},
               NEW label, label \notin {"idle", "done"}, Goto(r, label)
        PROVE  UNCHANGED <<InFlight, Done>>
    BY <1>0, <1>2 DEF TypeOK, Goto, InFlight
  <1>3. ASSUME NEW r \in Req, Arrive(r) PROVE Ledger!Next
    <2>1. InFlight' = InFlight \cup {r} /\ Done' = Done
          /\ r \notin InFlight \cup Done
      BY <1>0, <1>3 DEF TypeOK, Arrive, Goto, InFlight
    <2>2. (Live \cap Req)' = Live \cap Req /\ Named' = Named
      BY <1>3 DEF Arrive, Live
    <2>3. Ledger!Open(r)
      BY <2>1, <2>2 DEF Ledger!Open
    <2> QED
      BY <2>3 DEF Ledger!Next
  <1>4. ASSUME NEW r \in Req, pc[r] \notin {"idle", "done"}, NEW code,
               Answer(r, code, None), UNCHANGED leases
        PROVE  Ledger!Next
    <2>1. (Live \cap Req)' = Live \cap Req
      BY <1>4 DEF Live
    <2>2. Ledger!Refuse(r)
      BY <1>1, <1>4, <2>1 DEF Ledger!Refuse, Ledger!AnswerWith
    <2> QED
      BY <2>2 DEF Ledger!Next
  <1>5. ASSUME NEW r \in Req, pc[r] \notin {"idle", "done"},
               NEW label, label \notin {"idle", "done"}, Goto(r, label),
               UNCHANGED <<leases, reply>>
        PROVE  UNCHANGED Ledger!vars
    BY <1>2, <1>5, LedgerStutter
  <1>6. ASSUME NEW r \in Req, Handler(r)
        PROVE  Ledger!Next \/ UNCHANGED Ledger!vars
    <2>1. CASE Estimate(r)
      BY <2>1, <1>4, <1>5 DEF Estimate
    <2>2. CASE Dedup(r)
      <3> DEFINE l == FindByNonce(request[r].nonce)
      <3>1. CASE Goto(r, "fits") /\ UNCHANGED reply
        BY <2>2, <3>1, <1>5 DEF Dedup
      <3>2. CASE l # None /\ Answer(r, "ok", l)
        <4>1. request[r].nonce \in Nonces /\ l = byNonce[request[r].nonce]
          BY <1>0, <3>2 DEF FindByNonce, TypeOK, RequestType
        <4>2. l \in Live \cap Req
          BY <4>1, <3>2 DEF IndInv, NonceIndexSound, Live, LeaseId
        <4> HIDE DEF l
        <4>3. (Live \cap Req)' = Live \cap Req
          BY <2>2 DEF Dedup, Live
        <4>4. Ledger!AnswerWith(r, l)
          BY <1>1, <2>2, <3>2 DEF Dedup, Ledger!AnswerWith
        <4>5. Ledger!Reuse(r)
          <5>1. \E k \in Live \cap Req : Ledger!AnswerWith(r, k)
            BY <4>2, <4>4 DEF Ledger!AnswerWith
          <5> QED
            BY <4>3, <5>1 DEF Ledger!Reuse
        <4> QED
          BY <4>5 DEF Ledger!Next
      <3> QED
        BY <2>2, <3>1, <3>2 DEF Dedup
    <2>3. CASE CheckFits(r)
      BY <2>3, <1>5 DEF CheckFits, Decide
    <2>4. CASE SpillVram(r)
      BY <2>4, <1>5 DEF SpillVram
    <2>5. CASE SpillDram(r)
      BY <2>5, <1>5 DEF SpillDram, Decide
    <2>6. CASE Grant(r)
      <3>1. leases'[r] # None /\ \A k \in Req : k # r => leases'[k] = leases[k]
        <4>1. leases' \in [LeaseId -> LeaseType \cup {None}]
          BY <1>0, TypeStep DEF TypeOK
        <4>2. leases'[r] = [model |-> request[r].model,
                            bytes |-> split[r].vram, dram |-> split[r].dram,
                            priority |-> request[r].priority,
                            synthetic |-> FALSE,
                            estimated |-> (request[r].bytes = 0),
                            nonce |-> request[r].nonce, left |-> TTL]
          BY <1>0, <2>6 DEF Grant, Add, TypeOK, LeaseId
        <4>3. leases'[r] \in LeaseType
          BY <1>0, <4>2, ConfigAssumption DEF TypeOK, LeaseType, RequestType
        <4>4. \A k \in Req : k # r => leases'[k] = leases[k]
          BY <1>0, <2>6 DEF Grant, Add, TypeOK, LeaseId
        <4> QED
          BY <4>3, <4>4, IdAssumption
      <3>2. (Live \cap Req)' = (Live \cap Req) \cup {r}
        BY <3>1 DEF Live, LeaseId
      <3>3. Ledger!Grant(r)
        BY <1>1, <2>6, <3>2 DEF Grant, Ledger!Grant, Ledger!AnswerWith
      <3> QED
        BY <3>3 DEF Ledger!Next
    <2>7. CASE ListBlockers(r)
      BY <2>7, <1>5 DEF ListBlockers
    <2>8. CASE PickVictims(r)
      BY <2>8, <1>4, <1>5 DEF PickVictims
    <2>9. CASE WaitFits(r)
      BY <2>9, <1>5 DEF WaitFits, Decide
    <2>10. CASE GraceOver(r)
      BY <2>10, <1>5 DEF GraceOver
    <2>11. CASE DrainOver(r)
      BY <2>11, <1>4 DEF DrainOver
    <2> QED
      BY <1>6, <2>1, <2>2, <2>3, <2>4, <2>5, <2>6, <2>7, <2>8, <2>9, <2>10,
         <2>11 DEF Handler
  <1>7. ASSUME NEW S, RemoveAll(S), UNCHANGED <<pc, reply>>
        PROVE  Ledger!Next
    BY <1>0, <1>7, LedgerEnd DEF Ledger!Next
  <1>8. ASSUME NEW r \in Req, Heartbeat(r) PROVE UNCHANGED Ledger!vars
    <2>1. \A l \in Req : (leases'[l] = None) = (leases[l] = None)
      BY <1>0, <1>8, HeartbeatRetimes DEF SameUpToTime, Retimed, LeaseId
    <2> QED
      BY <1>8, <2>1, LedgerStutter DEF Heartbeat, InFlight
  <1>9. CASE Tick
    <2>1. \A l \in Req : (leases'[l] = None) = (leases[l] = None)
      BY <1>0, <1>9, TickRetimes DEF SameUpToTime, Retimed, LeaseId
    <2> QED
      BY <1>9, <2>1, LedgerStutter DEF Tick, InFlight
  <1>10. CASE OllamaPoll
    <2>1. \A l \in Req : leases'[l] = leases[l]
      BY <1>10 DEF OllamaPoll, ReplaceSynthetic, LeaseId
    <2> QED
      BY <1>10, <2>1, LedgerStutter DEF OllamaPoll, InFlight
  <1>11. ASSUME UNCHANGED <<leases, pc, reply>> PROVE UNCHANGED Ledger!vars
    BY <1>11, LedgerStutter DEF InFlight
  <1>12. ASSUME NEW r \in Req, Release(r) PROVE Ledger!Next
    BY <1>12, <1>7 DEF Release
  <1>13. ASSUME NEW r \in Req, CallerGone(r) PROVE UNCHANGED Ledger!vars
    BY <1>13, <1>11 DEF CallerGone
  <1>14. ASSUME NEW l \in LeaseId, Evict(l) PROVE Ledger!Next
    BY <1>14, <1>7 DEF Evict
  <1>15. ASSUME NEW m \in Models, CacheExpires(m)
         PROVE  UNCHANGED Ledger!vars
    BY <1>15, <1>11 DEF CacheExpires
  <1>16. CASE Reap
    BY <1>16, <1>7 DEF Reap
  <1>17. CASE UNCHANGED vars
    BY <1>17, <1>11 DEF vars
  <1> QED
    BY <1>3, <1>6, <1>8, <1>9, <1>10, <1>12, <1>13, <1>14, <1>15, <1>16,
       <1>17 DEF Next

\* The broker, with its lock-sized steps and races, implements the ledger:
\* every call is answered at most once, a lease is created only by its own
\* call, a retry gets a lease that is live, and no lease ever comes back.
THEOREM LedgerTheorem == Spec => LedgerSpec
  BY LedgerInit, LedgerStep, BrokerInvariant, PTL
  DEF Spec, LedgerSpec, Ledger!Spec

-----------------------------------------------------------------------------
(* Sums over finite sets                                                   *)
(*                                                                         *)
(* SumFunction takes a set apart in an order of CHOOSE.  The lemmas below  *)
(* show, by induction on cardinality, that it is defined on every finite   *)
(* domain, does not depend on that order, grows with the domain and the    *)
(* weights, and adds the weight of an added element.                       *)

\* Induction on the natural numbers for a set of them.
LEMMA NatSetInduction ==
    ASSUME NEW I, 0 \in I, \A n \in Nat : n \in I => n + 1 \in I
    PROVE  Nat \subseteq I
  <1> SUFFICES ASSUME ~(Nat \subseteq I) PROVE FALSE
    OBVIOUS
  <1> DEFINE T == Nat \ I
  <1>1. PICK x \in T : \A y \in T : ~(<<y, x>> \in OpToRel(<, Nat))
    <2> HIDE DEF T
    <2>1. T \subseteq Nat /\ T # {}
      BY DEF T
    <2> QED BY <2>1, WFMin, NatLessThanWellFounded
  <1>2. x # 0 /\ x - 1 \in Nat
    OBVIOUS
  <1>3. x - 1 \in T
    BY <1>2
  <1>4. <<x - 1, x>> \in OpToRel(<, Nat)
    BY <1>2 DEF OpToRel
  <1> QED BY <1>1, <1>3, <1>4

Chosen(s) == CHOOSE x \in s : TRUE

\* g sums w over the subsets of a set, taken apart as SumFunction does.
Sums(g, w, D) ==
    g = [s \in D |-> IF s = {} THEN 0
                     ELSE w[Chosen(s)] + g[s \ {Chosen(s)}]]

\* The community module's fold, as the recursive function it chooses.
LEMMA SumIsFold ==
    ASSUME NEW w, NEW S
    PROVE  SumFunctionOnSet(w, S) = (CHOOSE g : Sums(g, w, SUBSET S))[S]
  BY DEF SumFunctionOnSet, FoldFunctionOnSet, MapThenFoldSet, Sums, Chosen

\* A finite set's subsets are finite, and without an element they are smaller.
LEMMA Smaller ==
    ASSUME NEW S, IsFiniteSet(S), NEW s \in SUBSET S
    PROVE  /\ IsFiniteSet(s) /\ Cardinality(s) \in Nat
           /\ Cardinality(s) = 0 <=> s = {}
           /\ \A x \in s : /\ s \ {x} \in SUBSET S
                           /\ Cardinality(s \ {x}) = Cardinality(s) - 1
  <1>1. IsFiniteSet(s)
    BY FS_Subset
  <1>2. Cardinality(s) \in Nat /\ (Cardinality(s) = 0 <=> s = {})
    BY <1>1, FS_CardinalityType, FS_EmptySet
  <1>3. \A x \in s : Cardinality(s \ {x}) = Cardinality(s) - 1
    BY <1>1, FS_RemoveElement
  <1> QED
    BY <1>1, <1>2, <1>3

\* The element taken next is one of the set.
LEMMA ChosenIn == ASSUME NEW s, s # {} PROVE Chosen(s) \in s
  BY DEF Chosen

\* What Sums says of one subset.
LEMMA SumsAt ==
    ASSUME NEW g, NEW w, NEW S, Sums(g, w, SUBSET S)
    PROVE  /\ g[{}] = 0
           /\ \A s \in SUBSET S : s # {} =>
                g[s] = w[Chosen(s)] + g[s \ {Chosen(s)}]
  <1> DEFINE f == [s \in SUBSET S |-> IF s = {} THEN 0
                     ELSE w[Chosen(s)] + g[s \ {Chosen(s)}]]
  <1>1. g = f
    BY DEF Sums
  <1>2. \A s \in SUBSET S : f[s] = IF s = {} THEN 0
                     ELSE w[Chosen(s)] + g[s \ {Chosen(s)}]
    OBVIOUS
  <1> HIDE DEF f
  <1> QED
    BY <1>1, <1>2

\* The sums exist: those of sets of n + 1 elements are made from those of n.
LEMMA SumsExist ==
    ASSUME NEW w, NEW S, IsFiniteSet(S)
    PROVE  \E g : Sums(g, w, SUBSET S)
  <1> DEFINE D(n) == {s \in SUBSET S : Cardinality(s) <= n}
             I == {n \in Nat : \E g : Sums(g, w, D(n))}
  <1>1. 0 \in I
    <2> DEFINE g == [s \in D(0) |-> 0]
    <2>1. \A s \in D(0) : s = {}
      BY Smaller
    <2>2. g = [s \in D(0) |-> IF s = {} THEN 0
                     ELSE w[Chosen(s)] + g[s \ {Chosen(s)}]]
      BY <2>1
    <2> QED
      BY <2>2 DEF Sums
  <1>2. ASSUME NEW n \in Nat, n \in I PROVE n + 1 \in I
    <2>1. PICK g : Sums(g, w, D(n))
      BY <1>2
    <2> DEFINE h == [s \in D(n + 1) |-> IF s = {} THEN 0
                       ELSE w[Chosen(s)] + g[s \ {Chosen(s)}]]
               f == [s \in D(n) |-> IF s = {} THEN 0
                       ELSE w[Chosen(s)] + g[s \ {Chosen(s)}]]
    <2>2. \A s \in D(n) : h[s] = g[s]
      <3>1. g = f
        BY <2>1 DEF Sums
      <3>2. \A s \in D(n) : s \in D(n + 1)
        BY Smaller
      <3>3. \A s \in D(n) : f[s] = h[s]
        BY <3>2
      <3> HIDE DEF f, h, D
      <3> QED
        BY <3>1, <3>3
    <2>3. \A s \in D(n + 1) : s # {} => s \ {Chosen(s)} \in D(n)
      BY Smaller, ChosenIn
    <2> DEFINE k == [s \in D(n + 1) |-> IF s = {} THEN 0
                       ELSE w[Chosen(s)] + h[s \ {Chosen(s)}]]
    <2>4. \A s \in D(n + 1) : h[s] = k[s]
      <3>1. \A s \in D(n + 1) : s # {} =>
               h[s \ {Chosen(s)}] = g[s \ {Chosen(s)}]
        BY <2>2, <2>3
      <3>2. \A s \in D(n + 1) : h[s] = IF s = {} THEN 0
                       ELSE w[Chosen(s)] + g[s \ {Chosen(s)}]
        OBVIOUS
      <3>3. \A s \in D(n + 1) : k[s] = IF s = {} THEN 0
                       ELSE w[Chosen(s)] + h[s \ {Chosen(s)}]
        OBVIOUS
      <3> HIDE DEF h, k, D
      <3> QED
        BY <3>1, <3>2, <3>3
    <2>5. h = k
      <3>1. h = [s \in D(n + 1) |-> h[s]] /\ k = [s \in D(n + 1) |-> k[s]]
        OBVIOUS
      <3> HIDE DEF h, k, D
      <3> QED
        BY <2>4, <3>1
    <2>6. Sums(h, w, D(n + 1))
      BY <2>5 DEF Sums
    <2>7. \E f2 : Sums(f2, w, D(n + 1))
      <3> HIDE DEF h, D
      <3> QED BY <2>6
    <2> HIDE DEF D
    <2> QED
      BY <2>7
  <1>3. Nat \subseteq I
    <2> HIDE DEF I
    <2> QED BY <1>1, <1>2, NatSetInduction
  <1>4. Cardinality(S) \in Nat /\ D(Cardinality(S)) = SUBSET S
    <2>1. Cardinality(S) \in Nat
      BY FS_CardinalityType
    <2>2. \A s \in SUBSET S : Cardinality(s) <= Cardinality(S)
      BY FS_Subset
    <2>3. \A s : s \in D(Cardinality(S)) <=> s \in SUBSET S
      BY <2>2
    <2> QED BY <2>1, <2>3
  <1>5. Cardinality(S) \in I
    BY <1>3, <1>4
  <1> QED
    BY <1>4, <1>5

\* Sums of natural numbers are natural numbers.
LEMMA SumsType ==
    ASSUME NEW S, IsFiniteSet(S), NEW w, \A x \in S : w[x] \in Nat,
           NEW g, Sums(g, w, SUBSET S)
    PROVE  \A s \in SUBSET S : g[s] \in Nat
  <1> DEFINE I == {n \in Nat : \A s \in SUBSET S :
                                 Cardinality(s) = n => g[s] \in Nat}
  <1>1. 0 \in I
    <2>1. ASSUME NEW s \in SUBSET S, Cardinality(s) = 0 PROVE g[s] = 0
      BY <2>1, Smaller, SumsAt
    <2> QED BY <2>1
  <1>2. ASSUME NEW n \in Nat, n \in I PROVE n + 1 \in I
    <2> SUFFICES ASSUME NEW s \in SUBSET S, Cardinality(s) = n + 1
                 PROVE  g[s] \in Nat
      OBVIOUS
    <2>1. s # {} /\ Chosen(s) \in s
      BY Smaller, ChosenIn
    <2> DEFINE t == s \ {Chosen(s)}
    <2>2. t \in SUBSET S /\ Cardinality(t) = n
      BY <2>1, Smaller
    <2>3. g[s] = w[Chosen(s)] + g[t]
      BY <2>1, SumsAt
    <2> HIDE DEF t
    <2>4. g[t] \in Nat /\ w[Chosen(s)] \in Nat
      BY <1>2, <2>1, <2>2
    <2> QED
      BY <2>3, <2>4
  <1>3. Nat \subseteq I
    <2> HIDE DEF I
    <2> QED BY <1>1, <1>2, NatSetInduction
  <1> SUFFICES ASSUME NEW s \in SUBSET S PROVE g[s] \in Nat
    OBVIOUS
  <1>4. Cardinality(s) \in I
    BY <1>3, Smaller
  <1> QED
    BY <1>4

\* g can take any element out first.
Splits(g, w, S) ==
    \A s \in SUBSET S : \A x \in s : g[s] = w[x] + g[s \ {x}]

\* The order in which a set is taken apart does not matter.
LEMMA SumsSplit ==
    ASSUME NEW S, IsFiniteSet(S), NEW w, \A x \in S : w[x] \in Nat,
           NEW g, Sums(g, w, SUBSET S)
    PROVE  Splits(g, w, S)
  <1> DEFINE I == {n \in Nat : \A s \in SUBSET S : Cardinality(s) = n =>
                                 \A x \in s : g[s] = w[x] + g[s \ {x}]}
  <1>1. 0 \in I
    BY Smaller
  <1>2. ASSUME NEW n \in Nat, n \in I PROVE n + 1 \in I
    <2> SUFFICES ASSUME NEW s \in SUBSET S, Cardinality(s) = n + 1,
                        NEW x \in s
                 PROVE  g[s] = w[x] + g[s \ {x}]
      OBVIOUS
    <2> DEFINE c == Chosen(s)
    <2>1. c \in s /\ g[s] = w[c] + g[s \ {c}]
      BY ChosenIn, SumsAt
    <2> HIDE DEF c
    <2>2. CASE x = c
      BY <2>1, <2>2
    <2>3. CASE x # c
      <3>1. /\ s \ {c} \in SUBSET S /\ Cardinality(s \ {c}) = n
            /\ s \ {x} \in SUBSET S /\ Cardinality(s \ {x}) = n
        BY <2>1, Smaller
      <3>2. g[s \ {c}] = w[x] + g[(s \ {c}) \ {x}]
        BY <1>2, <2>1, <2>3, <3>1
      <3>3. g[s \ {x}] = w[c] + g[(s \ {x}) \ {c}]
        BY <1>2, <2>1, <2>3, <3>1
      <3> DEFINE t == (s \ {c}) \ {x}
      <3>4. t = (s \ {x}) \ {c} /\ t \in SUBSET S
        OBVIOUS
      <3>5. g[s \ {c}] = w[x] + g[t] /\ g[s \ {x}] = w[c] + g[t]
        BY <3>2, <3>3, <3>4
      <3> HIDE DEF t
      <3>6. g[t] \in Nat /\ w[x] \in Nat /\ w[c] \in Nat
        BY <2>1, <3>4, SumsType
      <3>7. /\ g[s] = w[c] + (w[x] + g[t])
            /\ w[x] + (w[c] + g[t]) = w[x] + g[s \ {x}]
        BY <2>1, <3>5
      <3> QED
        BY <3>6, <3>7
    <2> QED
      BY <2>2, <2>3
  <1>3. Nat \subseteq I
    <2> HIDE DEF I
    <2> QED BY <1>1, <1>2, NatSetInduction
  <1> SUFFICES ASSUME NEW s \in SUBSET S
               PROVE  \A x \in s : g[s] = w[x] + g[s \ {x}]
    BY DEF Splits
  <1>4. Cardinality(s) \in I
    BY <1>3, Smaller
  <1> QED
    BY <1>4

\* What is summed over fewer elements, or with smaller weights, is no larger.
LEMMA SumsMonotone ==
    ASSUME NEW S, IsFiniteSet(S), NEW w, \A x \in S : w[x] \in Nat,
           NEW g, Sums(g, w, SUBSET S),
           NEW T, IsFiniteSet(T), NEW v, \A x \in T : v[x] \in Nat,
           NEW h, Sums(h, v, SUBSET T),
           \A x \in S \cap T : v[x] <= w[x]
    PROVE  \A s \in SUBSET S : h[s \cap T] <= g[s]
  <1> DEFINE I == {n \in Nat : \A s \in SUBSET S :
                                 Cardinality(s) = n => h[s \cap T] <= g[s]}
  <1>1. 0 \in I
    <2>1. ASSUME NEW s \in SUBSET S, Cardinality(s) = 0
          PROVE  h[s \cap T] <= g[s]
      <3>1. s = {} /\ s \cap T = {}
        BY <2>1, Smaller
      <3>2. h[s \cap T] = 0 /\ g[s] = 0
        BY <3>1, SumsAt
      <3> QED BY <3>2
    <2> QED BY <2>1
  <1>2. ASSUME NEW n \in Nat, n \in I PROVE n + 1 \in I
    <2>0. SUFFICES ASSUME NEW s \in SUBSET S, Cardinality(s) = n + 1
                 PROVE  h[s \cap T] <= g[s]
      BY <1>2
    <2> HIDE DEF I
    <2>1. PICK x : x \in s
      BY <2>0, Smaller
    <2> DEFINE t == s \ {x}
               a == h[t \cap T]
               b == g[t]
    <2>2. t \in SUBSET S /\ Cardinality(t) = n
      BY <2>0, <2>1, Smaller
    <2>3. g[s] = w[x] + b /\ w[x] \in Nat /\ b \in Nat
      <3>1. Splits(g, w, S)
        BY SumsSplit
      <3>2. \A u \in SUBSET S : g[u] \in Nat
        BY SumsType
      <3>3. g[s] = w[x] + b
        BY <2>1, <3>1 DEF Splits
      <3>4. b \in Nat
        BY <2>2, <3>2
      <3> QED BY <2>1, <3>3, <3>4
    <2>4. a <= b
      <3> HIDE DEF t
      <3> QED BY <1>2, <2>2 DEF I
    <2>5. s \cap T \in SUBSET T /\ t \cap T \in SUBSET T
      OBVIOUS
    <2>6. a \in Nat
      BY <2>5, SumsType
    <2>7. CASE x \in T
      <3>1. (s \cap T) \ {x} = t \cap T /\ x \in s \cap T
        BY <2>1, <2>7
      <3>2. h[s \cap T] = v[x] + h[(s \cap T) \ {x}]
        <4>1. Splits(h, v, T)
          BY SumsSplit
        <4> QED BY <2>5, <3>1, <4>1 DEF Splits
      <3>3. h[s \cap T] = v[x] + a
        BY <3>1, <3>2
      <3>4. v[x] <= w[x] /\ v[x] \in Nat
        BY <2>1, <2>7
      <3> HIDE DEF a, b
      <3> QED
        BY <2>3, <2>4, <2>6, <3>3, <3>4
    <2>8. CASE x \notin T
      <3>1. s \cap T = t \cap T
        BY <2>8
      <3>2. h[s \cap T] = a
        BY <3>1
      <3> HIDE DEF a, b
      <3> QED
        BY <2>3, <2>4, <2>6, <3>2
    <2> QED
      BY <2>7, <2>8
  <1>3. Nat \subseteq I
    <2> HIDE DEF I
    <2> QED BY <1>1, <1>2, NatSetInduction
  <1> SUFFICES ASSUME NEW s \in SUBSET S PROVE h[s \cap T] <= g[s]
    OBVIOUS
  <1>4. Cardinality(s) \in I
    BY <1>3, Smaller
  <1> QED
    BY <1>4

\* SumFunction of a function with finite domain, by the sums of its subsets.
LEMMA SumFunctionSums ==
    ASSUME NEW w, IsFiniteSet(DOMAIN w)
    PROVE  \E g : /\ Sums(g, w, SUBSET DOMAIN w)
                  /\ SumFunction(w) = g[DOMAIN w]
  <1> DEFINE g == CHOOSE f : Sums(f, w, SUBSET DOMAIN w)
  <1>1. Sums(g, w, SUBSET DOMAIN w)
    BY SumsExist
  <1>2. SumFunction(w) = g[DOMAIN w]
    BY SumIsFold DEF SumFunction
  <1> HIDE DEF g
  <1> QED
    BY <1>1, <1>2

\* A finite sum of naturals is a natural.
LEMMA SumType ==
    ASSUME NEW w, IsFiniteSet(DOMAIN w), \A x \in DOMAIN w : w[x] \in Nat
    PROVE  SumFunction(w) \in Nat
  BY SumFunctionSums, SumsType

\* The sum of nothing is 0.
LEMMA SumEmpty == ASSUME NEW w, DOMAIN w = {} PROVE SumFunction(w) = 0
  BY SumFunctionSums, SumsAt, FS_EmptySet

\* Fewer and smaller summands sum to no more.
LEMMA SumMonotone ==
    ASSUME NEW w, IsFiniteSet(DOMAIN w), \A x \in DOMAIN w : w[x] \in Nat,
           NEW v, DOMAIN v \subseteq DOMAIN w,
           \A x \in DOMAIN v : v[x] \in Nat /\ v[x] <= w[x]
    PROVE  SumFunction(v) <= SumFunction(w)
  <1>1. IsFiniteSet(DOMAIN v)
    BY FS_Subset
  <1>2. PICK g : Sums(g, w, SUBSET DOMAIN w) /\ SumFunction(w) = g[DOMAIN w]
    BY SumFunctionSums
  <1>3. PICK h : Sums(h, v, SUBSET DOMAIN v) /\ SumFunction(v) = h[DOMAIN v]
    BY <1>1, SumFunctionSums
  <1>4. \A s \in SUBSET DOMAIN w : h[s \cap DOMAIN v] <= g[s]
    BY <1>1, <1>2, <1>3, SumsMonotone
  <1>5. DOMAIN w \cap DOMAIN v = DOMAIN v /\ DOMAIN w \in SUBSET DOMAIN w
    OBVIOUS
  <1> QED
    BY <1>2, <1>3, <1>4, <1>5

\* One element more adds its weight.
LEMMA SumAdd ==
    ASSUME NEW w, IsFiniteSet(DOMAIN w), \A y \in DOMAIN w : w[y] \in Nat,
           NEW x \in DOMAIN w,
           NEW v, DOMAIN v = DOMAIN w \ {x}, \A y \in DOMAIN v : v[y] = w[y]
    PROVE  SumFunction(w) = w[x] + SumFunction(v)
  <1> DEFINE S == DOMAIN w
             T == DOMAIN v
  <1>1. IsFiniteSet(T) /\ T \in SUBSET S /\ T \in SUBSET T
    BY FS_Subset
  <1>2. PICK g : Sums(g, w, SUBSET S) /\ SumFunction(w) = g[S]
    BY SumFunctionSums
  <1>3. PICK h : Sums(h, v, SUBSET T) /\ SumFunction(v) = h[T]
    BY <1>1, SumFunctionSums
  <1>4. /\ \A y \in T : v[y] \in Nat
        /\ \A y \in S \cap T : v[y] <= w[y]
    OBVIOUS
  <1>11. \A y \in T \cap S : w[y] <= v[y]
    OBVIOUS
  <1>5. T \cap T = T /\ T \cap S = T /\ S \in SUBSET S /\ T = S \ {x}
    OBVIOUS
  <1> HIDE DEF S, T
  <1>6. IsFiniteSet(S) /\ x \in S /\ \A y \in S : w[y] \in Nat
    BY DEF S
  <1>7. h[T] <= g[T]
    <2>1. \A s \in SUBSET S : h[s \cap T] <= g[s]
      BY <1>1, <1>2, <1>3, <1>4, <1>6, SumsMonotone
    <2> QED BY <1>1, <1>5, <2>1
  <1>8. g[T] <= h[T]
    <2>1. \A s \in SUBSET T : g[s \cap S] <= h[s]
      <3>1. Sums(g, w, SUBSET S) /\ Sums(h, v, SUBSET T)
        BY <1>2, <1>3
      <3>2. IsFiniteSet(S) /\ IsFiniteSet(T)
        BY <1>1, <1>6
      <3>3. \A y \in T : v[y] \in Nat
        BY <1>4
      <3>4. \A y \in S : w[y] \in Nat
        BY <1>6
      <3> QED BY <1>11, <3>1, <3>2, <3>3, <3>4, SumsMonotone
    <2> QED BY <1>1, <1>5, <2>1
  <1>9. g[T] \in Nat /\ h[T] \in Nat
    BY <1>1, <1>2, <1>3, <1>4, <1>6, SumsType
  <1>10. g[S] = w[x] + g[T]
    <2>1. g[S] = w[x] + g[S \ {x}]
      <3>1. Splits(g, w, S)
        BY <1>2, <1>6, SumsSplit
      <3> QED BY <1>5, <1>6, <3>1 DEF Splits
    <2> QED BY <1>5, <2>1
  <1> QED
    BY <1>2, <1>3, <1>7, <1>8, <1>9, <1>10

-----------------------------------------------------------------------------
(* What the races leave intact                                             *)

\* The index misses no lease whose nonce no two overlapping calls shared: the
\* converse of NonceIndexSound.
IndexComplete ==
    \A l \in LeaseId :
        /\ leases[l] # None
        /\ leases[l].nonce # None
        /\ leases[l].nonce \notin doubled
        => byNonce[leases[l].nonce] = l

\* What a handler saw when it looked its nonce up still holds.
FreshNonce ==
    \A r \in Req :
        /\ PastLookup(r)
        /\ request[r].nonce # None
        /\ request[r].nonce \notin doubled
        => byNonce[request[r].nonce] = None

LiveFinite == IsFiniteSet(Live)

VramBudget == SatSub(TotalVram, SafetyMargin)
DramBudget == SatSub(TotalDram, DramSafetyMargin)

\* (v, d) fits next to everything granted so far, where it takes anything.
Fits(v, d) == /\ v = 0 \/ GrantedVram + v <= VramBudget
              /\ d = 0 \/ GrantedDram + d <= DramBudget

\* What a handler read of the headroom still holds, unless a grant overtook
\* it.
Headroom ==
    \A r \in Req \ crowded :
        /\ HeadroomRead(r) => Fits(split[r].vram, 0)
        /\ pc[r] = "grant" => Fits(split[r].vram, split[r].dram)

RaceInv ==
    /\ IndexComplete
    /\ FreshNonce
    /\ LiveFinite
    /\ MarginUnlessCrowded
    /\ Headroom

\* The budgets are numbers.
LEMMA BudgetType == VramBudget \in Nat /\ DramBudget \in Nat
  BY SatSubBound, ConfigAssumption DEF VramBudget, DramBudget

\* Sums over sets of leases are numbers, and smaller for fewer leases.
LEMMA VramOfSubset ==
    ASSUME TypeOK, NEW S \in SUBSET Live, IsFiniteSet(S), NEW T \in SUBSET S
    PROVE  /\ VramOf(S) \in Nat /\ VramOf(T) \in Nat
           /\ VramOf(T) <= VramOf(S)
           /\ DramOf(S) \in Nat /\ DramOf(T) \in Nat
           /\ DramOf(T) <= DramOf(S)
  <1>1. /\ IsFiniteSet(T)
        /\ \A l \in S : leases[l].bytes \in Nat /\ leases[l].dram \in Nat
    BY FS_Subset DEF TypeOK, Live, LeaseType
  <1>2. VramOf(S) \in Nat /\ VramOf(T) \in Nat /\ VramOf(T) <= VramOf(S)
    <2> DEFINE w == [l \in S |-> leases[l].bytes]
               v == [l \in T |-> leases[l].bytes]
    <2>1. /\ DOMAIN w = S /\ DOMAIN v = T
          /\ \A l \in S : w[l] \in Nat
          /\ \A l \in T : v[l] \in Nat /\ v[l] <= w[l]
      BY <1>1
    <2>2. VramOf(S) = SumFunction(w) /\ VramOf(T) = SumFunction(v)
      BY DEF VramOf
    <2> HIDE DEF w, v
    <2> QED
      BY <1>1, <2>1, <2>2, SumType, SumMonotone
  <1>3. DramOf(S) \in Nat /\ DramOf(T) \in Nat /\ DramOf(T) <= DramOf(S)
    <2> DEFINE w == [l \in S |-> leases[l].dram]
               v == [l \in T |-> leases[l].dram]
    <2>1. /\ DOMAIN w = S /\ DOMAIN v = T
          /\ \A l \in S : w[l] \in Nat
          /\ \A l \in T : v[l] \in Nat /\ v[l] <= w[l]
      BY <1>1
    <2>2. DramOf(S) = SumFunction(w) /\ DramOf(T) = SumFunction(v)
      BY DEF DramOf
    <2> HIDE DEF w, v
    <2> QED
      BY <1>1, <2>1, <2>2, SumType, SumMonotone
  <1> QED
    BY <1>2, <1>3

\* What was granted is part of what is reserved, and what the calls that no
\* grant overtook were granted is part of that.
LEMMA GrantedReserved ==
    ASSUME TypeOK, LiveFinite
    PROVE  /\ GrantedVram \in Nat /\ Reserved \in Nat
           /\ GrantedVram <= Reserved
           /\ GrantedDram \in Nat /\ ReservedDram \in Nat
           /\ GrantedDram <= ReservedDram
           /\ VramOf(RealLeases \ crowded) \in Nat
           /\ VramOf(RealLeases \ crowded) <= GrantedVram
           /\ DramOf(RealLeases \ crowded) \in Nat
           /\ DramOf(RealLeases \ crowded) <= GrantedDram
  <1>1. RealLeases \in SUBSET Live /\ Live \in SUBSET Live
        /\ RealLeases \ crowded \in SUBSET RealLeases
    BY DEF RealLeases
  <1>2. IsFiniteSet(Live) /\ IsFiniteSet(RealLeases)
    BY <1>1, FS_Subset DEF LiveFinite
  <1> QED
    BY <1>1, <1>2, VramOfSubset
    DEF GrantedVram, GrantedDram, Reserved, ReservedDram

\* What fits the headroom fits next to what was granted.
LEMMA FitsBeside ==
    ASSUME TypeOK, LiveFinite, NEW n \in Nat
    PROVE  /\ n <= FreeForGrant => n = 0 \/ GrantedVram + n <= VramBudget
           /\ n <= FreeForGrantDram => n = 0 \/ GrantedDram + n <= DramBudget
  <1>1. /\ GrantedVram \in Nat /\ Reserved \in Nat
        /\ GrantedVram <= Reserved
        /\ GrantedDram \in Nat /\ ReservedDram \in Nat
        /\ GrantedDram <= ReservedDram
    BY GrantedReserved
  <1>2. ASSUME NEW total \in Nat, NEW margin \in Nat, NEW res \in Nat,
               NEW g \in Nat, g <= res,
               n <= SatSub(SatSub(total, res), margin)
        PROVE  n = 0 \/ g + n <= SatSub(total, margin)
    BY <1>2 DEF SatSub
  <1> QED
    BY <1>1, <1>2, ConfigAssumption
    DEF FreeForGrant, FreeForGrantDram, VramBudget, DramBudget

\* The sums of a set of leases before and after a step that keeps its sizes.
LEMMA SameSums ==
    ASSUME NEW S, \A l \in S : /\ leases'[l].bytes = leases[l].bytes
                               /\ leases'[l].dram = leases[l].dram
    PROVE  /\ VramOf(S)' = VramOf(S)
           /\ DramOf(S)' = DramOf(S)
  <1>1. /\ [l \in S |-> leases'[l].bytes] = [l \in S |-> leases[l].bytes]
        /\ [l \in S |-> leases'[l].dram] = [l \in S |-> leases[l].dram]
    OBVIOUS
  <1> QED
    BY <1>1 DEF VramOf, DramOf

\* When no real lease is added or resized, both margins, and what handlers
\* read of the headroom, stay.
LEMMA ShrinkKeeps ==
    ASSUME TypeOK, TypeOK', LiveFinite, MarginUnlessCrowded, Headroom,
           RealLeases' \subseteq RealLeases,
           \A l \in RealLeases' : /\ leases'[l].bytes = leases[l].bytes
                                  /\ leases'[l].dram = leases[l].dram,
           UNCHANGED <<pc, split, crowded>>
    PROVE  MarginUnlessCrowded' /\ Headroom'
  <1>1. PICK S : S = RealLeases'
    OBVIOUS
  <1>2. PICK U : U = RealLeases' \ crowded
    OBVIOUS
  <1>3. /\ RealLeases \in SUBSET Live /\ S \in SUBSET RealLeases
        /\ RealLeases \ crowded \in SUBSET Live
        /\ U \in SUBSET (RealLeases \ crowded)
    BY <1>1, <1>2 DEF RealLeases
  <1>4. IsFiniteSet(RealLeases) /\ IsFiniteSet(RealLeases \ crowded)
    BY <1>3, FS_Subset DEF LiveFinite
  <1>5. /\ GrantedVram' = VramOf(S) /\ GrantedDram' = DramOf(S)
        /\ VramOf(RealLeases \ crowded)' = VramOf(U)
        /\ DramOf(RealLeases \ crowded)' = DramOf(U)
    <2>1. /\ VramOf(S)' = VramOf(S) /\ DramOf(S)' = DramOf(S)
          /\ VramOf(U)' = VramOf(U) /\ DramOf(U)' = DramOf(U)
      BY <1>1, <1>2, SameSums
    <2>2. GrantedVram' = VramOf(S)' /\ GrantedDram' = DramOf(S)'
      BY <1>1 DEF GrantedVram, GrantedDram, VramOf, DramOf
    <2>3. /\ VramOf(RealLeases \ crowded)' = VramOf(U)'
          /\ DramOf(RealLeases \ crowded)' = DramOf(U)'
      BY <1>2 DEF VramOf, DramOf
    <2> QED
      BY <2>1, <2>2, <2>3
  <1>6. /\ GrantedVram \in Nat /\ VramOf(S) \in Nat
        /\ VramOf(S) <= GrantedVram
        /\ GrantedDram \in Nat /\ DramOf(S) \in Nat
        /\ DramOf(S) <= GrantedDram
    BY <1>3, <1>4, VramOfSubset DEF GrantedVram, GrantedDram
  <1>7. /\ VramOf(U) \in Nat /\ VramOf(RealLeases \ crowded) \in Nat
        /\ VramOf(U) <= VramOf(RealLeases \ crowded)
        /\ DramOf(U) \in Nat /\ DramOf(RealLeases \ crowded) \in Nat
        /\ DramOf(U) <= DramOf(RealLeases \ crowded)
    BY <1>3, <1>4, VramOfSubset
  <1>8. MarginUnlessCrowded'
    BY <1>5, <1>7, BudgetType
    DEF MarginUnlessCrowded, VramBudget, DramBudget
  <1>9. \A r \in Req : split[r].vram \in Nat /\ split[r].dram \in Nat
    BY DEF TypeOK
  <1>10. ASSUME NEW v \in Nat, NEW d \in Nat, Fits(v, d) PROVE Fits(v, d)'
    <2>1. VramBudget' = VramBudget /\ DramBudget' = DramBudget
      BY DEF VramBudget, DramBudget, SatSub
    <2> QED
      BY <1>5, <1>6, <1>10, <2>1, BudgetType DEF Fits
  <1>11. Headroom'
    <2> SUFFICES ASSUME NEW r \in Req \ crowded
                 PROVE  /\ HeadroomRead(r) => Fits(split[r].vram, 0)'
                        /\ pc[r] = "grant" =>
                             Fits(split[r].vram, split[r].dram)'
      BY DEF Headroom, HeadroomRead
    <2>1. PICK v \in Nat, d \in Nat : v = split[r].vram /\ d = split[r].dram
      BY <1>9
    <2>2. /\ HeadroomRead(r) => Fits(v, 0)
          /\ pc[r] = "grant" => Fits(v, d)
      BY <2>1 DEF Headroom
    <2>3. /\ HeadroomRead(r) => Fits(v, 0)'
          /\ pc[r] = "grant" => Fits(v, d)'
      BY <1>10, <2>2
    <2>4. split'[r].vram = v /\ split'[r].dram = d
      BY <2>1
    <2> QED
      BY <2>3, <2>4 DEF Fits
  <1> QED
    BY <1>8, <1>11

\* One handler moves on, and the registry stays as it is.  It may read the
\* headroom afresh (crowded' without r).
LEMMA MoveKeeps ==
    ASSUME IndInv, RaceInv, NEW r \in Req, pc[r] # "done",
           NEW label, Goto(r, label),
           UNCHANGED <<leases, byNonce, request, doubled>>,
           crowded' \in {crowded, crowded \ {r}},
           \A k \in Req : k # r => split'[k] = split[k],
           PastLookup(r)' /\ request[r].nonce \notin doubled \cup {None} =>
             byNonce[request[r].nonce] = None,
           label \in {"spill_dram", "grant"} /\ r \notin crowded' =>
             split'[r].vram = 0 \/ GrantedVram + split'[r].vram <= VramBudget,
           label = "grant" /\ r \notin crowded' =>
             split'[r].dram = 0 \/ GrantedDram + split'[r].dram <= DramBudget
    PROVE  RaceInv'
  <1>1. \A k \in Req : pc'[k] = IF k = r THEN label ELSE pc[k]
    BY DEF IndInv, TypeOK, Goto
  <1>2. IndexComplete'
    BY DEF RaceInv, IndexComplete
  <1>3. FreshNonce'
    BY <1>1 DEF RaceInv, FreshNonce, PastLookup
  <1>4. /\ Live' = Live /\ RealLeases' = RealLeases
        /\ GrantedVram' = GrantedVram /\ GrantedDram' = GrantedDram
    BY DEF Live, RealLeases, GrantedVram, GrantedDram, VramOf, DramOf
  <1>5. LiveFinite'
    BY <1>4 DEF RaceInv, LiveFinite
  <1>6. r \notin RealLeases
    BY DEF IndInv, LeaseFromCall, RealLeases, Live
  <1>7. RealLeases' \ crowded' = RealLeases \ crowded
    BY <1>4, <1>6
  <1>8. MarginUnlessCrowded'
    BY <1>7 DEF RaceInv, MarginUnlessCrowded, VramOf, DramOf, SatSub
  <1>9. VramBudget' = VramBudget /\ DramBudget' = DramBudget
    BY DEF VramBudget, DramBudget, SatSub
  <1>10. Headroom'
    <2> SUFFICES ASSUME NEW k \in Req, k \notin crowded'
                 PROVE  /\ HeadroomRead(k)' => Fits(split[k].vram, 0)'
                        /\ pc'[k] = "grant" =>
                             Fits(split[k].vram, split[k].dram)'
      BY DEF Headroom
    <2>1. CASE k = r
      BY <1>1, <1>4, <1>9, <2>1 DEF HeadroomRead, Fits
    <2>2. CASE k # r
      BY <1>1, <1>4, <1>9, <2>2 DEF RaceInv, Headroom, HeadroomRead, Fits
    <2> QED
      BY <2>1, <2>2
  <1> QED
    BY <1>2, <1>3, <1>5, <1>8, <1>10 DEF RaceInv

\* Removing leases: a lease that stays keeps its index entry, because the
\* entry that a removed lease takes along is its own.
LEMMA RemoveRace ==
    ASSUME IndInv, TypeOK', RaceInv, NEW S, RemoveAll(S),
           UNCHANGED <<pc, request, split, history>>
    PROVE  RaceInv'
  <1> USE DEF IndInv, history
  <1>1. \A l \in LeaseId : leases'[l] # None => leases'[l] = leases[l]
    BY DEF RemoveAll
  <1>2. IndexComplete'
    <2> SUFFICES ASSUME NEW l \in LeaseId, leases'[l] # None,
                        leases'[l].nonce # None,
                        leases'[l].nonce \notin doubled
                 PROVE  byNonce'[leases'[l].nonce] = l
      BY DEF IndexComplete
    <2> DEFINE n == leases[l].nonce
    <2>1. l \notin S /\ leases'[l] = leases[l] /\ leases[l] # None
      BY <1>1 DEF RemoveAll
    <2>2. n \in Nonces /\ byNonce[n] = l
      BY <2>1 DEF TypeOK, LeaseType, RaceInv, IndexComplete
    <2>3. \A k \in S \cap Live : leases[k].nonce # n
      BY <2>1, <2>2 DEF Live, RaceInv, IndexComplete
    <2> QED
      BY <2>1, <2>2, <2>3 DEF RemoveAll
  <1>3. FreshNonce'
    <2>1. \A n \in Nonces : byNonce[n] = None => byNonce'[n] = None
      BY DEF RemoveAll
    <2>2. \A r \in Req : request[r].nonce \in Nonces \cup {None}
      BY DEF TypeOK, RequestType
    <2> QED
      BY <2>1, <2>2 DEF RaceInv, FreshNonce, PastLookup
  <1>4. Live' \subseteq Live /\ RealLeases' \subseteq RealLeases
    BY <1>1 DEF Live, RealLeases
  <1>5. LiveFinite'
    BY <1>4, FS_Subset DEF RaceInv, LiveFinite
  <1>6. \A l \in RealLeases' : leases'[l] = leases[l]
    BY <1>1 DEF RealLeases, Live
  <1>7. MarginUnlessCrowded' /\ Headroom'
    BY <1>4, <1>6, ShrinkKeeps DEF RaceInv
  <1> QED
    BY <1>2, <1>3, <1>5, <1>7 DEF RaceInv

\* Extending or running down the lifetime of leases.
LEMMA RetimeRace ==
    ASSUME IndInv, TypeOK', RaceInv, SameUpToTime,
           UNCHANGED <<byNonce, pc, request, split, history>>
    PROVE  RaceInv'
  <1> USE DEF history
  <1>1. FreshNonce'
    BY DEF RaceInv, FreshNonce, PastLookup
  <1>2. IndexComplete'
    BY DEF RaceInv, IndexComplete, SameUpToTime, Retimed
  <1>3. Live' = Live /\ RealLeases' \subseteq RealLeases
    BY DEF Live, RealLeases, SameUpToTime, Retimed
  <1>4. LiveFinite'
    BY <1>3 DEF RaceInv, LiveFinite
  <1>5. \A l \in RealLeases' : /\ leases'[l].bytes = leases[l].bytes
                               /\ leases'[l].dram = leases[l].dram
    BY DEF RealLeases, Live, SameUpToTime, Retimed
  <1>6. MarginUnlessCrowded' /\ Headroom'
    BY <1>3, <1>5, ShrinkKeeps DEF RaceInv, IndInv
  <1> QED
    BY <1>1, <1>2, <1>4, <1>6 DEF RaceInv

\* A poll replaces synthetic leases only, by finitely many.
LEMMA PollRace ==
    ASSUME IndInv, IndInv', RaceInv, OllamaPoll
    PROVE  RaceInv'
  <1> USE DEF locals, history
  <1>1. PICK ps \in PsReplies \cup {NothingLoaded} : ReplaceSynthetic(ps)
    BY DEF OllamaPoll
  <1>2. /\ \A l \in Req : leases'[l] = leases[l]
        /\ \A m \in Models : leases'[m] # None =>
              /\ leases'[m].nonce = None
              /\ leases'[m].synthetic = TRUE
              /\ ps[m].bytes + ps[m].dram # 0
    BY <1>1, IdAssumption DEF ReplaceSynthetic, SyntheticLease, LeaseId
  <1>3. FreshNonce'
    BY DEF OllamaPoll, RaceInv, FreshNonce, PastLookup
  <1>4. IndexComplete'
    BY <1>2 DEF OllamaPoll, RaceInv, IndexComplete, LeaseId
  <1>5. RealLeases' \subseteq RealLeases
        /\ \A l \in RealLeases' : leases'[l] = leases[l]
    BY <1>2 DEF RealLeases, Live, LeaseId
  <1>6. LiveFinite'
    <2> DEFINE Loaded == {m \in Models : ps[m].bytes + ps[m].dram # 0}
    <2>1. IsFiniteSet(Loaded)
      <3>1. CASE ps \in PsReplies
        BY <3>1, PsAssumption
      <3>2. CASE ps = NothingLoaded
        <4>1. Loaded = {}
          BY <3>2 DEF NothingLoaded
        <4> QED BY <4>1, FS_EmptySet
      <3> QED BY <1>1, <3>1, <3>2
    <2>2. Live' \subseteq Live \cup Loaded
      BY <1>2 DEF Live, LeaseId
    <2> HIDE DEF Loaded
    <2> QED
      BY <2>1, <2>2, FS_Union, FS_Subset DEF RaceInv, LiveFinite
  <1>7. MarginUnlessCrowded' /\ Headroom'
    BY <1>5, ShrinkKeeps DEF OllamaPoll, RaceInv, IndInv
  <1> QED
    BY <1>3, <1>4, <1>6, <1>7 DEF RaceInv

\* A set of leases with one new in it sums to the new one and the others.
LEMMA SumWithNew ==
    ASSUME TypeOK', NEW W, W \subseteq Live', IsFiniteSet(W), NEW r \in W,
           \A l \in W \ {r} : leases'[l] = leases[l]
    PROVE  /\ VramOf(W)' = leases'[r].bytes + VramOf(W \ {r})
           /\ DramOf(W)' = leases'[r].dram + DramOf(W \ {r})
  <1>1. \A l \in W : leases'[l].bytes \in Nat /\ leases'[l].dram \in Nat
    BY DEF TypeOK, Live, LeaseType
  <1>2. VramOf(W)' = leases'[r].bytes + VramOf(W \ {r})
    <2> DEFINE w == [l \in W |-> leases'[l].bytes]
               v == [l \in W \ {r} |-> leases[l].bytes]
    <2>1. /\ DOMAIN w = W /\ DOMAIN v = DOMAIN w \ {r}
          /\ \A l \in DOMAIN w : w[l] \in Nat
          /\ \A l \in DOMAIN v : v[l] = w[l]
          /\ w[r] = leases'[r].bytes /\ r \in DOMAIN w
      BY <1>1
    <2>2. VramOf(W)' = SumFunction(w) /\ VramOf(W \ {r}) = SumFunction(v)
      BY DEF VramOf
    <2>3. IsFiniteSet(DOMAIN w)
      OBVIOUS
    <2> HIDE DEF w, v
    <2>4. SumFunction(w) = w[r] + SumFunction(v)
      BY <2>1, <2>3, SumAdd
    <2> QED
      BY <2>1, <2>2, <2>4
  <1>3. DramOf(W)' = leases'[r].dram + DramOf(W \ {r})
    <2> DEFINE w == [l \in W |-> leases'[l].dram]
               v == [l \in W \ {r} |-> leases[l].dram]
    <2>1. /\ DOMAIN w = W /\ DOMAIN v = DOMAIN w \ {r}
          /\ \A l \in DOMAIN w : w[l] \in Nat
          /\ \A l \in DOMAIN v : v[l] = w[l]
          /\ w[r] = leases'[r].dram /\ r \in DOMAIN w
      BY <1>1
    <2>2. DramOf(W)' = SumFunction(w) /\ DramOf(W \ {r}) = SumFunction(v)
      BY DEF DramOf
    <2>3. IsFiniteSet(DOMAIN w)
      OBVIOUS
    <2> HIDE DEF w, v
    <2>4. SumFunction(w) = w[r] + SumFunction(v)
      BY <2>1, <2>3, SumAdd
    <2> QED
      BY <2>1, <2>2, <2>4
  <1> QED
    BY <1>2, <1>3

\* Granting: the new lease takes the index entry Dedup found free, unless its
\* nonce is doubled, and the room read free for it, unless it was overtaken.
LEMMA GrantRace ==
    ASSUME IndInv, IndInv', RaceInv, NEW r \in Req, Grant(r)
    PROVE  RaceInv'
  <1> USE DEF locals
  <1>0. TypeOK /\ TypeOK' /\ pc[r] = "grant"
    BY DEF IndInv, Grant
  <1>1. /\ leases'[r].nonce = request[r].nonce
        /\ leases'[r].bytes = split[r].vram
        /\ leases'[r].dram = split[r].dram
        /\ leases'[r].synthetic = FALSE
        /\ \A l \in LeaseId : l # r => leases'[l] = leases[l]
    BY <1>0 DEF Grant, Add, TypeOK, LeaseId
  <1>2. /\ \A n \in Nonces : byNonce'[n] = IF n = request[r].nonce THEN r
                                           ELSE byNonce[n]
        /\ leases[r] = None
    BY <1>0 DEF Grant, Add, IndInv, LeaseFromCall
  <1>3. /\ pc'[r] = "done" /\ \A k \in Req : k # r => pc'[k] = pc[k]
        /\ request' = request /\ split' = split
    BY <1>0 DEF Grant, Answer, Goto, TypeOK
  <1>4. /\ crowded' = crowded \cup {k \in Req \ {r} : HeadroomRead(k)}
        /\ doubled \subseteq doubled'
        /\ \A k \in Req \ {r} :
             /\ PastLookup(k) /\ request[k].nonce = request[r].nonce
             /\ request[r].nonce # None
             => request[r].nonce \in doubled'
    BY DEF Grant
  <1>5. \A k \in Req : request[k].nonce \in Nonces \cup {None}
    BY <1>0 DEF TypeOK, RequestType
  <1>6. FreshNonce'
    <2> SUFFICES ASSUME NEW k \in Req, PastLookup(k)',
                        request[k].nonce # None,
                        request[k].nonce \notin doubled'
                 PROVE  byNonce'[request[k].nonce] = None
      BY <1>3 DEF FreshNonce
    <2>1. k # r /\ PastLookup(k)
      BY <1>3 DEF PastLookup
    <2>2. request[k].nonce # request[r].nonce
      BY <1>4, <2>1
    <2> QED
      BY <1>2, <1>4, <1>5, <2>1, <2>2 DEF RaceInv, FreshNonce
  <1>7. IndexComplete'
    <2> SUFFICES ASSUME NEW l \in LeaseId, leases'[l] # None,
                        leases'[l].nonce # None,
                        leases'[l].nonce \notin doubled'
                 PROVE  byNonce'[leases'[l].nonce] = l
      BY DEF IndexComplete
    <2>1. leases'[l].nonce \in Nonces
      BY <1>0 DEF TypeOK, LeaseType
    <2>2. CASE l = r
      BY <1>1, <1>2, <2>1, <2>2
    <2>3. CASE l # r
      <3>1. leases'[l] = leases[l] /\ byNonce[leases[l].nonce] = l
        BY <1>1, <1>4, <2>3 DEF RaceInv, IndexComplete
      <3>2. leases[l].nonce # request[r].nonce
        <4>1. SUFFICES ASSUME leases[l].nonce = request[r].nonce PROVE FALSE
          OBVIOUS
        <4>2. byNonce[request[r].nonce] = None
          BY <1>0, <1>4, <3>1, <4>1 DEF RaceInv, FreshNonce, PastLookup
        <4> QED
          BY <3>1, <4>1, <4>2, IdAssumption
      <3> QED
        BY <1>2, <2>1, <3>1, <3>2
    <2> QED
      BY <2>2, <2>3
  <1>8. leases'[r] # None
    <2> DEFINE new == [model |-> request[r].model,
                       bytes |-> split[r].vram, dram |-> split[r].dram,
                       priority |-> request[r].priority,
                       synthetic |-> FALSE,
                       estimated |-> (request[r].bytes = 0),
                       nonce |-> request[r].nonce, left |-> TTL]
    <2>1. new \in LeaseType
      BY <1>0, ConfigAssumption DEF TypeOK, LeaseType, RequestType
    <2>2. leases'[r] = new
      BY <1>0 DEF Grant, Add, TypeOK, LeaseId
    <2> HIDE DEF new
    <2> QED
      BY <2>1, <2>2, IdAssumption
  <1>9. Live' = Live \cup {r} /\ RealLeases' = RealLeases \cup {r}
        /\ r \notin RealLeases
    BY <1>1, <1>2, <1>8 DEF Live, RealLeases, LeaseId
  <1>10. LiveFinite'
    BY <1>9, FS_AddElement DEF RaceInv, LiveFinite
  <1>11. Headroom'
    <2> SUFFICES ASSUME NEW k \in Req, k \notin crowded', HeadroomRead(k)'
                 PROVE  FALSE
      BY DEF Headroom, HeadroomRead
    <2>1. k # r /\ HeadroomRead(k)
      BY <1>3 DEF HeadroomRead
    <2> QED
      BY <1>4, <2>1
  <1>12. RealLeases' \ crowded' = (RealLeases \ crowded) \cup ({r} \ crowded)
    <2>1. \A k \in Req : HeadroomRead(k) => k \notin RealLeases
      BY DEF IndInv, LeaseFromCall, HeadroomRead, RealLeases, Live
    <2> QED
      BY <1>4, <1>9, <2>1
  <1>13. PICK W : W = RealLeases' \ crowded'
    OBVIOUS
  <1>14. W \subseteq Live' /\ IsFiniteSet(W)
    <2>1. W \subseteq Live'
      BY <1>13 DEF RealLeases
    <2> QED BY <1>10, <2>1, FS_Subset DEF LiveFinite
  <1>15. /\ VramOf(RealLeases \ crowded)' = VramOf(W)'
         /\ DramOf(RealLeases \ crowded)' = DramOf(W)'
    BY <1>13 DEF VramOf, DramOf
  <1>16. \A l \in W : l # r => leases'[l] = leases[l]
    BY <1>1, <1>13 DEF RealLeases, Live
  <1>17. MarginUnlessCrowded'
    <2>1. CASE r \in crowded
      <3>1. W = RealLeases \ crowded /\ r \notin W
        BY <1>12, <1>13, <2>1
      <3>2. VramOf(W)' = VramOf(W) /\ DramOf(W)' = DramOf(W)
        BY <1>16, <3>1, SameSums
      <3> QED
        BY <1>15, <3>1, <3>2 DEF RaceInv, MarginUnlessCrowded, SatSub
    <2>2. CASE r \notin crowded
      <3>1. W \ {r} = RealLeases \ crowded /\ r \in W
        BY <1>9, <1>12, <1>13, <2>2
      <3>2. /\ VramOf(W)' = split[r].vram + VramOf(RealLeases \ crowded)
            /\ DramOf(W)' = split[r].dram + DramOf(RealLeases \ crowded)
        BY <1>0, <1>1, <1>14, <1>16, <3>1, SumWithNew
      <3>3. Fits(split[r].vram, split[r].dram)
        BY <1>0, <2>2 DEF RaceInv, Headroom
      <3>4. /\ GrantedVram \in Nat /\ GrantedDram \in Nat
            /\ VramOf(RealLeases \ crowded) \in Nat
            /\ VramOf(RealLeases \ crowded) <= GrantedVram
            /\ DramOf(RealLeases \ crowded) \in Nat
            /\ DramOf(RealLeases \ crowded) <= GrantedDram
            /\ split[r].vram \in Nat /\ split[r].dram \in Nat
        BY <1>0, GrantedReserved DEF RaceInv, TypeOK
      <3>5. /\ VramOf(RealLeases \ crowded) <= VramBudget
            /\ DramOf(RealLeases \ crowded) <= DramBudget
        BY DEF RaceInv, MarginUnlessCrowded, VramBudget, DramBudget
      <3>6. VramOf(W)' <= VramBudget /\ DramOf(W)' <= DramBudget
        BY <3>2, <3>3, <3>4, <3>5, BudgetType DEF Fits
      <3> QED
        BY <1>15, <3>6
        DEF MarginUnlessCrowded, VramBudget, DramBudget, SatSub
    <2> QED
      BY <2>1, <2>2
  <1> QED
    BY <1>6, <1>7, <1>10, <1>11, <1>17 DEF RaceInv

\* Nothing is lost when the registry and the handlers stay as they are.
LEMMA StutterRace ==
    ASSUME RaceInv, UNCHANGED <<leases, byNonce, pc, request, split, history>>
    PROVE  RaceInv'
  <1> USE DEF history
  <1>1. IndexComplete' /\ FreshNonce'
    BY DEF RaceInv, IndexComplete, FreshNonce, PastLookup
  <1>2. /\ Live' = Live /\ RealLeases' = RealLeases
        /\ GrantedVram' = GrantedVram /\ GrantedDram' = GrantedDram
    BY DEF Live, RealLeases, GrantedVram, GrantedDram, VramOf, DramOf
  <1>3. LiveFinite' /\ MarginUnlessCrowded'
    BY <1>2 DEF RaceInv, LiveFinite, MarginUnlessCrowded, VramOf, DramOf,
                SatSub
  <1>4. Headroom'
    BY <1>2 DEF RaceInv, Headroom, HeadroomRead, Fits, VramBudget,
                DramBudget, SatSub
  <1> QED
    BY <1>1, <1>3, <1>4 DEF RaceInv

\* The broker starts in RaceInv.
LEMMA RaceInit == Init => RaceInv
  <1> SUFFICES ASSUME Init PROVE RaceInv
    OBVIOUS
  <1>1. Live = {} /\ RealLeases = {}
    BY DEF Init, Live, RealLeases
  <1>2. IndexComplete /\ FreshNonce /\ Headroom
    BY DEF Init, IndexComplete, FreshNonce, Headroom, PastLookup,
           HeadroomRead, LeaseId
  <1>3. LiveFinite
    BY <1>1, FS_EmptySet DEF LiveFinite
  <1>4. VramOf(RealLeases \ crowded) = 0 /\ DramOf(RealLeases \ crowded) = 0
    <2> DEFINE w == [l \in RealLeases \ crowded |-> leases[l].bytes]
               v == [l \in RealLeases \ crowded |-> leases[l].dram]
    <2>1. DOMAIN w = {} /\ DOMAIN v = {}
      BY <1>1
    <2>2. /\ VramOf(RealLeases \ crowded) = SumFunction(w)
          /\ DramOf(RealLeases \ crowded) = SumFunction(v)
      BY DEF VramOf, DramOf
    <2> HIDE DEF w, v
    <2> QED
      BY <2>1, <2>2, SumEmpty
  <1>5. MarginUnlessCrowded
    BY <1>4, BudgetType DEF MarginUnlessCrowded, VramBudget, DramBudget
  <1> QED
    BY <1>2, <1>3, <1>5 DEF RaceInv

\* Every step keeps RaceInv.
LEMMA RaceStep == IndInv /\ RaceInv /\ [Next]_vars => RaceInv'
  <1> SUFFICES ASSUME IndInv, RaceInv, [Next]_vars PROVE RaceInv'
    OBVIOUS
  <1>0. TypeOK /\ IndInv' /\ TypeOK'
    BY IndStep DEF IndInv
  <1> USE DEF registry, locals, history
  <1>1. ASSUME NEW r \in Req, Arrive(r) PROVE RaceInv'
    <2>1. ~PastLookup(r)'
      BY <1>0, <1>1 DEF Arrive, Goto, PastLookup, TypeOK
    <2> QED
      BY <1>1, <2>1, MoveKeeps DEF Arrive
  <1>2. ASSUME NEW r \in Req, Handler(r) PROVE RaceInv'
    <2>0. pc[r] # "done"
      BY <1>2 DEF Handler, Estimate, Dedup, CheckFits, SpillVram,
             SpillDram, Grant, ListBlockers, PickVictims, WaitFits,
             GraceOver, DrainOver
    <2>1. ASSUME PastLookup(r), NEW label, Goto(r, label),
                 label \notin {"spill_dram", "grant"},
                 UNCHANGED <<leases, byNonce, request, split, history>>
          PROVE  RaceInv'
      BY <2>0, <2>1, MoveKeeps DEF RaceInv, FreshNonce
    <2>2. ASSUME PastLookup(r), Decide(r, nbytes[r], 0),
                 nbytes[r] <= FreeForGrant,
                 crowded' \in {crowded, crowded \ {r}},
                 UNCHANGED <<leases, byNonce, request, doubled>>
          PROVE  RaceInv'
      <3>1. nbytes[r] = 0 \/ GrantedVram + nbytes[r] <= VramBudget
        BY <1>0, <2>2, FitsBeside DEF RaceInv, TypeOK
      <3>2. /\ split'[r] = [vram |-> nbytes[r], dram |-> 0]
            /\ \A k \in Req : k # r => split'[k] = split[k]
        BY <1>0, <2>2 DEF Decide, TypeOK
      <3>3. Goto(r, "grant")
        BY <2>2 DEF Decide
      <3> QED
        BY <2>0, <2>2, <3>1, <3>2, <3>3, MoveKeeps DEF RaceInv, FreshNonce
    <2>3. CASE Estimate(r)
      <3>1. PICK label \in {"dedup", "done"} : Goto(r, label)
        BY <2>3 DEF Estimate, Answer
      <3>2. ~PastLookup(r)'
        BY <1>0, <3>1 DEF Goto, PastLookup, TypeOK
      <3> QED
        BY <2>0, <2>3, <3>1, <3>2, MoveKeeps DEF Estimate
    <2>4. CASE Dedup(r)
      <3> DEFINE n == request[r].nonce
      <3>1. CASE FindByNonce(n) = None /\ Goto(r, "fits")
        <4>1. n # None => byNonce[n] = None
          <5>1. n \in Nonces \cup {None}
            BY <1>0 DEF TypeOK, RequestType
          <5> QED
            BY <3>1, <5>1 DEF FindByNonce, IndInv, NonceIndexSound
        <4> QED
          BY <2>0, <2>4, <3>1, <4>1, MoveKeeps DEF Dedup
      <3>2. CASE Goto(r, "done")
        <4>1. ~PastLookup(r)'
          BY <1>0, <3>2 DEF Goto, PastLookup, TypeOK
        <4> QED
          BY <2>0, <2>4, <3>2, <4>1, MoveKeeps DEF Dedup
      <3> QED
        BY <2>4, <3>1, <3>2 DEF Dedup, Answer
    <2>5. CASE CheckFits(r)
      BY <2>1, <2>2, <2>5 DEF CheckFits, PastLookup
    <2>6. CASE SpillVram(r)
      <3>1. FreeForGrant = 0 \/ GrantedVram + FreeForGrant <= VramBudget
        BY <1>0, FitsBeside, FreeType DEF RaceInv
      <3>2. /\ split'[r].vram = FreeForGrant
            /\ \A k \in Req : k # r => split'[k] = split[k]
        BY <1>0, <2>6 DEF SpillVram, TypeOK
      <3>3. request[r].nonce \notin doubled \cup {None} =>
              byNonce[request[r].nonce] = None
        BY <2>6 DEF SpillVram, RaceInv, FreshNonce, PastLookup
      <3> QED
        BY <2>0, <2>6, <3>1, <3>2, <3>3, MoveKeeps DEF SpillVram
    <2>7. CASE SpillDram(r)
      <3> DEFINE d == SatSub(nbytes[r], split[r].vram)
      <3>1. CASE d <= FreeForGrantDram /\ Decide(r, split[r].vram, d)
        <4>1. d \in Nat
          BY <1>0, SatSubBound DEF TypeOK
        <4> HIDE DEF d
        <4>2. d = 0 \/ GrantedDram + d <= DramBudget
          BY <1>0, <3>1, <4>1, FitsBeside DEF RaceInv
        <4>3. r \notin crowded => split[r].vram = 0
                                 \/ GrantedVram + split[r].vram <= VramBudget
          BY <2>7 DEF SpillDram, RaceInv, Headroom, HeadroomRead, Fits
        <4>4. /\ split'[r].vram = split[r].vram /\ split'[r].dram = d
              /\ \A k \in Req : k # r => split'[k] = split[k]
              /\ Goto(r, "grant")
          BY <1>0, <3>1 DEF Decide, TypeOK
        <4>5. request[r].nonce \notin doubled \cup {None} =>
                byNonce[request[r].nonce] = None
          BY <2>7 DEF SpillDram, RaceInv, FreshNonce, PastLookup
        <4> QED
          BY <2>0, <2>7, <4>2, <4>3, <4>4, <4>5, MoveKeeps DEF SpillDram
      <3>2. CASE Goto(r, "blockers") /\ UNCHANGED split
        BY <2>1, <2>7, <3>2 DEF SpillDram, PastLookup
      <3> QED
        BY <2>7, <3>1, <3>2 DEF SpillDram
    <2>8. CASE Grant(r)
      BY <1>0, <2>8, GrantRace
    <2>9. CASE ListBlockers(r)
      BY <2>1, <2>9 DEF ListBlockers, PastLookup
    <2>10. CASE PickVictims(r)
      <3>1. PICK label \in {"done", "grace", "drain"} : Goto(r, label)
        BY <2>10 DEF PickVictims, Answer
      <3> QED
        BY <2>1, <2>10, <3>1 DEF PickVictims, PastLookup
    <2>11. CASE WaitFits(r)
      BY <2>2, <2>11 DEF WaitFits, PastLookup
    <2>12. CASE GraceOver(r)
      BY <2>1, <2>12 DEF GraceOver, PastLookup
    <2>13. CASE DrainOver(r)
      BY <2>1, <2>13 DEF DrainOver, Answer, PastLookup
    <2> QED
      BY <1>2, <2>3, <2>4, <2>5, <2>6, <2>7, <2>8, <2>9, <2>10, <2>11,
         <2>12, <2>13 DEF Handler
  <1>3. ASSUME NEW r \in Req, Release(r) PROVE RaceInv'
    BY <1>0, <1>3, RemoveRace DEF Release
  <1>4. ASSUME NEW r \in Req, Heartbeat(r) PROVE RaceInv'
    BY <1>0, <1>4, HeartbeatRetimes, RetimeRace DEF Heartbeat
  <1>5. ASSUME NEW r \in Req, CallerGone(r) PROVE RaceInv'
    BY <1>5, StutterRace DEF CallerGone
  <1>6. ASSUME NEW l \in LeaseId, Evict(l) PROVE RaceInv'
    BY <1>0, <1>6, RemoveRace DEF Evict
  <1>7. ASSUME NEW m \in Models, CacheExpires(m) PROVE RaceInv'
    BY <1>7, StutterRace DEF CacheExpires
  <1>8. CASE Tick
    BY <1>0, <1>8, TickRetimes, RetimeRace DEF Tick
  <1>9. CASE Reap
    BY <1>0, <1>9, RemoveRace DEF Reap
  <1>10. CASE OllamaPoll
    BY <1>0, <1>10, PollRace
  <1>11. CASE UNCHANGED vars
    BY <1>11, StutterRace DEF vars
  <1> QED
    BY <1>1, <1>2, <1>3, <1>4, <1>5, <1>6, <1>7, <1>8, <1>9, <1>10, <1>11
    DEF Next

\* What the races of any number of handlers leave intact.
LEMMA RaceInvariant == Spec => []RaceInv
  BY RaceStep, RaceInit, BrokerInvariant, PTL DEF Spec

\* However many reserve calls run at once, two leases share a nonce only if
\* two calls of that nonce overlapped (handle_reserve's find_by_nonce and
\* Registry::add run under two locks).
THEOREM OneLeaseTheorem == Spec => []OneLeaseUnlessDoubled
  <1>1. RaceInv => OneLeaseUnlessDoubled
    BY DEF RaceInv, IndexComplete, OneLeaseUnlessDoubled, RealLeases, Live
  <1> QED
    BY <1>1, RaceInvariant, PTL

\* However many reserve calls run at once, the leases whose headroom reading
\* no other grant overtook leave both safety margins free (try_grant reads
\* free_for_grant and adds the lease under two locks).
THEOREM MarginTheorem == Spec => []MarginUnlessCrowded
  <1>1. RaceInv => MarginUnlessCrowded
    BY DEF RaceInv
  <1> QED
    BY <1>1, RaceInvariant, PTL
=============================================================================
