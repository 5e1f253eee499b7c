------------------------- MODULE GatewayAuthProofs -------------------------
(***************************************************************************)
(* Safety of the gateway's device tier for any devices, tokens, tiers,     *)
(* concurrent calls, TTLs and failures.                                    *)
(***************************************************************************)
EXTENDS GatewayAuth, TLAPS

-----------------------------------------------------------------------------
(* The shapes of the local states                                          *)

\* What a request's state holds, by its label.
LEMMA ReqShape ==
  ASSUME NEW p \in ReqState
  PROVE  /\ p.pc \in {"idle", "lookup", "calling", "invalid"} \cup Found
         /\ p.pc # "idle" => p.token \in Token
         /\ p.pc \in Found => p.device \in Device /\ p.tier \in Tier
         /\ p.pc = "idle" => p = Idle
         /\ p.pc \in {"lookup", "calling", "invalid"} =>
              p = [pc |-> p.pc, token |-> p.token]
         /\ p.pc \in Found =>
              p = [pc |-> p.pc, token |-> p.token, device |-> p.device,
                   tier |-> p.tier]
  BY DEF ReqState, Idle, Found

\* What a complete_pairing call's state holds.
LEMMA PairShape ==
  ASSUME NEW p \in PairState
  PROVE  /\ p.pc \in {"idle", "add", "reset"}
         /\ p.pc # "idle" => p.code \in 1..MaxWindows
         /\ p.pc # "idle" => p = [pc |-> p.pc, code |-> p.code]
  BY DEF PairState, Idle

\* What an operation's state holds.
LEMMA OpShape ==
  ASSUME NEW p \in OpState
  PROVE  /\ p.pc \in {"idle", "rotate", "remove", "enqueue"}
         /\ p.pc # "idle" => p.device \in Device
         /\ p.pc = "enqueue" => p.event \in Event
  BY DEF OpState, Idle

\* find_by_token's answer has the token.
LEMMA FindShape ==
  ASSUME NEW t
  PROVE  FindByToken(t) # None =>
           /\ FindByToken(t) \in Device
           /\ file[FindByToken(t)] # None
           /\ file[FindByToken(t)].token = t
  BY DEF FindByToken

\* A record with another tier, or another token, is a record.
LEMMA RecordShape ==
  ASSUME NEW r \in Record
  PROVE  /\ \A tier \in Tier :
              /\ [r EXCEPT !.tier = tier] \in Record
              /\ [r EXCEPT !.tier = tier].token = r.token
         /\ \A t \in Token :
              /\ [r EXCEPT !.token = t] \in Record
              /\ [r EXCEPT !.token = t].token = t
  BY DEF Record

\* A slot of the token cache.
Slot == [device : Device, tier : Tier, left : 0..TokenTtl]

-----------------------------------------------------------------------------
(* Types of the two halves                                                 *)

GateTypes ==
    /\ file \in [Device -> Record \cup {None}]
    /\ minted \in SUBSET Device /\ issued \in SUBSET Token
    /\ \A d \in Device : file[d] # None =>
        d \in minted /\ file[d].token \in issued
    /\ code \in 1..MaxWindows \cup {None}
    /\ windows \in 0..MaxWindows
    /\ lock \in Pairer \cup {None}
    /\ pair \in [Pairer -> PairState]
    /\ paired \in [1..MaxWindows -> Nat]
    /\ op \in [Op -> OpState] /\ ops \in 0..MaxOps
    /\ events \in [Device -> Seq(Event)]
    /\ lost \in SUBSET Device /\ crossed \in SUBSET Device

GatewayTypes ==
    /\ req \in [Req -> ReqState]
    /\ timer \in [Req -> 0..CallTime]
    /\ cache \in [Token -> Slot \cup {None}]

AgeType == age \in [Token \X Tier -> 0..MaxAge]

\* TypeOK is the types of the gate, of the gateway and of the ages.
LEMMA TypeParts == TypeOK <=> GateTypes /\ GatewayTypes /\ AgeType
  BY DEF TypeOK, GateTypes, GatewayTypes, AgeType, Slot

\* The same of the next state.
LEMMA NextTypeParts == TypeOK' <=> GateTypes' /\ GatewayTypes' /\ AgeType'
  BY DEF TypeOK, GateTypes, GatewayTypes, AgeType, Slot

\* save leaves a list of records.
LEMMA SaveShape ==
  ASSUME GateTypes, NEW d \in Device, NEW r \in Record \cup {None},
         r # None => d \in minted /\ r.token \in issued',
         issued \subseteq issued', Save(d, r)
  PROVE  /\ file' \in [Device -> Record \cup {None}]
         /\ lost' \in SUBSET Device
         /\ \A e \in Device : file'[e] # None =>
              e \in minted /\ file'[e].token \in issued'
         /\ \A e \in Device : e # d => file'[e] = file[e]
         /\ file'[d] \in {file[d], r}
  <1>1. file' = file \/ file' = [file EXCEPT ![d] = r]
    BY DEF Save
  <1>2. lost' \in SUBSET Device
    BY DEF Save, GateTypes
  <1> QED BY <1>1, <1>2 DEF GateTypes

\* Every step of the gate keeps its types.
LEMMA GateTypeStep == GateTypes /\ GateStep => GateTypes'
  <1> SUFFICES ASSUME GateTypes, GateStep PROVE GateTypes'
    OBVIOUS
  <1> USE GateAssumption, GateNoneAssumption
  <1>i. Idle \in PairState /\ Idle \in OpState
    BY DEF PairState, OpState
  <1>1. CASE StartPairing
    BY <1>1 DEF StartPairing, history, GateTypes
  <1>2. CASE EndPairing
    BY <1>2 DEF EndPairing, history, GateTypes
  <1>3. ASSUME NEW q \in Pairer, CompletePairing(q) PROVE GateTypes'
    <2>1. [pc |-> "add", code |-> code] \in PairState
      BY <1>3 DEF CompletePairing, PairState, GateTypes
    <2> QED BY <1>3, <2>1 DEF CompletePairing, history, GateTypes
  <1>4. ASSUME NEW q \in Pairer, AddFails(q) \/ ResetPairing(q)
        PROVE  GateTypes'
    <2>1. /\ pair' = [pair EXCEPT ![q] = Idle] /\ lock' = None
          /\ code' = code \/ code' = None
          /\ UNCHANGED <<ops, file, minted, issued, windows, paired, op,
                         events, lost, crossed>>
      BY <1>4 DEF AddFails, ResetPairing, history
    <2>2. pair' \in [Pairer -> PairState]
      BY <1>i, <2>1 DEF GateTypes
    <2> QED BY <2>1, <2>2 DEF GateTypes
  <1>5. ASSUME NEW q \in Pairer, NEW d \in Device, NEW t \in Token,
               AddDevice(q, d, t) \/ AddForgets(q, d, t)
        PROVE  GateTypes'
    <2>1. /\ minted' = minted \cup {d} /\ issued' = issued \cup {t}
          /\ paired' = [paired EXCEPT ![pair[q].code] = @ + 1]
          /\ pair' = [pair EXCEPT ![q].pc = "reset"]
          /\ pair[q].pc = "add"
          /\ UNCHANGED <<ops, code, windows, lock, op, events, crossed>>
      BY <1>5 DEF AddDevice, AddForgets, history
    <2>2. pair[q] \in PairState
      BY DEF GateTypes
    <2>3. pair[q].code \in 1..MaxWindows
      BY <2>1, <2>2, PairShape
    <2>4. pair' \in [Pairer -> PairState]
      <3>1. [pair[q] EXCEPT !.pc = "reset"]
              = [pc |-> "reset", code |-> pair[q].code]
        BY <2>1, <2>2, PairShape
      <3>2. [pc |-> "reset", code |-> pair[q].code] \in PairState
        BY <2>3 DEF PairState
      <3> QED BY <2>1, <3>1, <3>2 DEF GateTypes
    <2>5. paired' \in [1..MaxWindows -> Nat]
      BY <2>1, <2>3 DEF GateTypes
    <2>6. [token |-> t, tier |-> ReadOnly] \in Record
      BY DEF Record
    <2>7. lost' \in SUBSET Device
      BY <1>5 DEF AddDevice, AddForgets, history, GateTypes
    <2>8. file' \in [Device -> Record \cup {None}]
          /\ \A e \in Device : file'[e] # None =>
               \/ e = d /\ file'[e] = [token |-> t, tier |-> ReadOnly]
               \/ file'[e] = file[e]
      <3>1. CASE AddDevice(q, d, t)
        BY <2>6, <3>1 DEF AddDevice, GateTypes
      <3>2. CASE AddForgets(q, d, t)
        <4>1. file' = [e \in Device |->
                IF e = d THEN [token |-> t, tier |-> ReadOnly] ELSE None]
          BY <3>2 DEF AddForgets
        <4> QED BY <2>6, <4>1
      <3> QED BY <1>5, <3>1, <3>2
    <2> QED BY <2>1, <2>4, <2>5, <2>7, <2>8 DEF GateTypes
  <1>6. ASSUME NEW o \in Op, Enqueue(o) PROVE GateTypes'
    <2>1. op[o].device \in Device /\ op[o].event \in Event
      BY <1>6, OpShape DEF Enqueue, GateTypes
    <2>2. Append(events[op[o].device], op[o].event) \in Seq(Event)
      BY <2>1 DEF GateTypes
    <2>3. events' \in [Device -> Seq(Event)]
      BY <1>6, <2>1, <2>2 DEF Enqueue, GateTypes
    <2> QED BY <1>i, <1>6, <2>3 DEF Enqueue, history, GateTypes
  <1>7. ASSUME NEW o \in Op, Vanished(o) PROVE GateTypes'
    BY <1>i, <1>7 DEF Vanished, history, GateTypes
  <1>8. ASSUME NEW o \in Op, Revoke(o) PROVE GateTypes'
    <2>1. op[o].device \in Device
      BY <1>8, OpShape DEF Revoke, GateTypes
    <2>2. /\ Save(op[o].device, None)
          /\ UNCHANGED <<ops, minted, issued, code, windows, lock, pair,
                         paired, events>>
          /\ op' = [op EXCEPT ![o] = [pc |-> "enqueue",
                      device |-> op[o].device,
                      event |-> [type |-> "revoked"]]]
          /\ crossed' \in {crossed, crossed \cup {op[o].device}}
      BY <1>8 DEF Revoke, Changes
    <2>3. op' \in [Op -> OpState]
      <3>1. [pc |-> "enqueue", device |-> op[o].device,
             event |-> [type |-> "revoked"]] \in OpState
        BY <2>1 DEF OpState, Event
      <3> QED BY <2>2, <3>1 DEF GateTypes
    <2>4. /\ file' \in [Device -> Record \cup {None}]
          /\ lost' \in SUBSET Device
          /\ \A e \in Device : file'[e] # None =>
               e \in minted /\ file'[e].token \in issued'
      BY <2>1, <2>2, SaveShape
    <2> QED BY <2>1, <2>2, <2>3, <2>4 DEF GateTypes
  <1>9. ASSUME NEW o \in Op, NEW d \in Device, NEW tier \in Tier,
               SetTier(o, d, tier)
        PROVE  GateTypes'
    <2> DEFINE r == [file[d] EXCEPT !.tier = tier]
    <2>1. /\ file[d] # None /\ Save(d, r)
          /\ UNCHANGED <<minted, issued, code, windows, lock, pair, paired,
                         events>>
          /\ op' = [op EXCEPT ![o] = [pc |-> "enqueue", device |-> d,
                                event |-> [type |-> "tier_changed"]]]
          /\ ops' = ops + 1 /\ ops < MaxOps
          /\ crossed' \in {crossed, crossed \cup {d}}
      BY <1>9 DEF SetTier, Changes
    <2>2. file[d] \in Record /\ d \in minted /\ file[d].token \in issued
      BY <2>1 DEF GateTypes
    <2>3. r \in Record /\ r.token = file[d].token
      BY <2>2, RecordShape
    <2>4. op' \in [Op -> OpState]
      <3>1. [pc |-> "enqueue", device |-> d,
             event |-> [type |-> "tier_changed"]] \in OpState
        BY DEF OpState, Event
      <3> QED BY <2>1, <3>1 DEF GateTypes
    <2>5. /\ file' \in [Device -> Record \cup {None}]
          /\ lost' \in SUBSET Device
          /\ \A e \in Device : file'[e] # None =>
               e \in minted /\ file'[e].token \in issued'
      <3> HIDE DEF r
      <3>1. issued' = issued
        BY <2>1
      <3>2. r \in Record \cup {None} /\ d \in minted /\ r.token \in issued'
        BY <2>2, <2>3, <3>1
      <3> QED BY <2>1, <3>1, <3>2, SaveShape
    <2> QED BY <2>1, <2>4, <2>5 DEF GateTypes
  <1>10. ASSUME NEW o \in Op, NEW d \in Device,
                NEW next \in {"rotate", "remove"}, LookUp(o, d, next)
         PROVE  GateTypes'
    <2>1. [pc |-> next, device |-> d] \in OpState
      BY DEF OpState
    <2> QED BY <1>10, <2>1 DEF LookUp, history, GateTypes
  <1>11. ASSUME NEW o \in Op, NEW t \in Token, RotateToken(o, t)
         PROVE  GateTypes'
    <2> DEFINE d == op[o].device
               r == [file[d] EXCEPT !.token = t]
    <2>1. d \in Device
      BY <1>11, OpShape DEF RotateToken, GateTypes
    <2>2. /\ file[d] # None /\ Save(d, r) /\ issued' = issued \cup {t}
          /\ UNCHANGED <<ops, minted, code, windows, lock, pair, paired,
                         events>>
          /\ op' = [op EXCEPT ![o] = [pc |-> "enqueue", device |-> d,
                      event |-> [type |-> "token_rotated", token |-> t]]]
          /\ crossed' \in {crossed, crossed \cup {d}}
      BY <1>11 DEF RotateToken, Changes
    <2>3. file[d] \in Record /\ d \in minted
      BY <2>1, <2>2 DEF GateTypes
    <2>4. r \in Record /\ r.token = t
      BY <2>3, RecordShape
    <2>5. op' \in [Op -> OpState]
      <3>1. [pc |-> "enqueue", device |-> d,
             event |-> [type |-> "token_rotated", token |-> t]] \in OpState
        BY <2>1 DEF OpState, Event
      <3> QED BY <2>2, <3>1 DEF GateTypes
    <2>6. /\ file' \in [Device -> Record \cup {None}]
          /\ lost' \in SUBSET Device
          /\ \A e \in Device : file'[e] # None =>
               e \in minted /\ file'[e].token \in issued'
      <3> HIDE DEF r, d
      <3>1. r \in Record \cup {None} /\ r.token \in issued'
            /\ issued \subseteq issued'
        BY <2>2, <2>4
      <3> QED BY <2>1, <2>2, <2>3, <3>1, SaveShape
    <2> QED BY <2>1, <2>2, <2>5, <2>6 DEF GateTypes
  <1> QED BY <1>1, <1>2, <1>3, <1>4, <1>5, <1>6, <1>7, <1>8, <1>9, <1>10,
             <1>11
          DEF GateStep

\* store.touch, once last_seen is abstracted, leaves the list as it was.
LEMMA TouchKeeps ==
  ASSUME GateTypes, NEW d \in Device, NEW r, Touch(d, r)
  PROVE  file' = file
  BY DEF Touch, GateTypes

\* What a step of a request does to the gate: nothing, or it consumes a
\* device's events.
LEMMA RequestKeepsGate ==
  ASSUME TypeOK, NEW r \in Req, RequestStep(r)
  PROVE  /\ UNCHANGED <<file, minted, issued, code, windows, lock, pair,
                        paired, op, ops, lost, crossed>>
         /\ GateTypes'
  <1> USE TypeParts
  <1>1. CASE CacheHit(r) \/ CacheMiss(r) \/ GateFinds(r) \/ Verified(r)
             \/ Refused(r)
    <2>1. UNCHANGED gateVars
      BY <1>1 DEF CacheHit, CacheMiss, GateFinds, Verified, Refused
    <2> QED BY <2>1 DEF gateVars, history, GateTypes
  <1>2. CASE GateTouches(r)
    <2>1. req[r] \in ReqState
      BY DEF GatewayTypes
    <2>2. req[r].device \in Device
      BY <1>2, <2>1, ReqShape DEF GateTouches, Found
    <2>3. file' = file
      BY <1>2, <2>2, TouchKeeps DEF GateTouches
    <2> QED BY <1>2, <2>3 DEF GateTouches, history, GateTypes
  <1>3. CASE Respond(r)
    <2>1. req[r] \in ReqState
      BY DEF GatewayTypes
    <2>2. req[r].device \in Device
      BY <1>3, <2>1, ReqShape DEF Respond, Found
    <2>3. events' \in [Device -> Seq(Event)]
      <3>1. <<>> \in Seq(Event)
        OBVIOUS
      <3> QED BY <1>3, <2>2, <3>1 DEF Respond, Consume, GateTypes
    <2> QED BY <1>3, <2>3 DEF Respond, history, GateTypes
  <1> QED BY <1>1, <1>2, <1>3 DEF RequestStep

\* Looking at the store keeps the ages' types, and no age grows.
LEMMA ObserveAges ==
  ASSUME AgeType, Observe
  PROVE  /\ AgeType'
         /\ \A p \in Token \X Tier : age'[p] <= age[p] /\ age'[p] \in 0..MaxAge
         /\ \A p \in Token \X Tier : p \in Standing(file') => age'[p] = 0
  BY GatewayAssumption DEF AgeType, Observe

\* No step of a request makes an age grow.
LEMMA RequestAges ==
  ASSUME TypeOK, NEW r \in Req, RequestStep(r)
  PROVE  /\ AgeType'
         /\ \A p \in Token \X Tier : age'[p] <= age[p]
  <1>1. CASE GateTouches(r)
    <2>1. Observe
      BY <1>1 DEF GateTouches
    <2> QED BY <2>1, GatewayAssumption, ObserveAges, TypeParts
  <1>2. CASE ~GateTouches(r)
    <2>1. age' = age
      BY <1>2 DEF RequestStep, CacheHit, CacheMiss, GateFinds, Verified,
                  Refused, Respond
    <2> QED BY <2>1, TypeParts, GatewayAssumption DEF AgeType
  <1> QED BY <1>1, <1>2

\* Every step of a request keeps the gateway's types.
LEMMA RequestTypeStep ==
  ASSUME TypeOK, NEW r \in Req, RequestStep(r)
  PROVE  GatewayTypes'
  <1> USE TypeParts, GatewayAssumption
  <1>i. Idle \in ReqState
    BY DEF ReqState
  <1>r. req[r] \in ReqState
    BY DEF GatewayTypes
  <1>1. CASE CacheHit(r)
    <2> DEFINE t == req[r].token
    <2>1. t \in Token /\ cache[t] # None
      BY <1>1, <1>r, ReqShape DEF CacheHit, Live
    <2>2. cache[t] \in Slot
      BY <2>1 DEF GatewayTypes
    <2>3. [pc |-> "accepted", token |-> t, device |-> cache[t].device,
           tier |-> cache[t].tier] \in ReqState
      BY <2>1, <2>2 DEF Slot, ReqState, Found
    <2>4. req' = [req EXCEPT ![r] = [pc |-> "accepted", token |-> t,
                    device |-> cache[t].device, tier |-> cache[t].tier]]
      BY <1>1 DEF CacheHit
    <2>5. req' \in [Req -> ReqState]
      BY <2>3, <2>4 DEF GatewayTypes
    <2> QED BY <1>1, <2>5 DEF CacheHit, GatewayTypes
  <1>2. CASE CacheMiss(r)
    <2>1. req[r].token \in Token /\ req[r] = [pc |-> "lookup",
                                              token |-> req[r].token]
      BY <1>2, <1>r, ReqShape DEF CacheMiss
    <2>2. [req[r] EXCEPT !.pc = "calling"]
            = [pc |-> "calling", token |-> req[r].token]
      BY <2>1
    <2>3. [pc |-> "calling", token |-> req[r].token] \in ReqState
      BY <2>1 DEF ReqState
    <2>4. req' = [req EXCEPT ![r] = [req[r] EXCEPT !.pc = "calling"]]
      BY <1>2 DEF CacheMiss
    <2>5. req' \in [Req -> ReqState]
      BY <2>2, <2>3, <2>4 DEF GatewayTypes
    <2> QED BY <1>2, <2>1, <2>5 DEF CacheMiss, GatewayTypes
  <1>3. CASE GateFinds(r)
    <2>1. req[r].token \in Token
      BY <1>3, <1>r, ReqShape DEF GateFinds
    <2>2. PICK d \in {FindByToken(req[r].token)} \cup {None} :
            req' = [req EXCEPT ![r] =
              IF d = None THEN [pc |-> "invalid", token |-> req[r].token]
              ELSE [pc |-> "touching", token |-> req[r].token, device |-> d,
                    tier |-> file[d].tier]]
      BY <1>3 DEF GateFinds
    <2>3. [pc |-> "invalid", token |-> req[r].token] \in ReqState
      BY <2>1 DEF ReqState
    <2>4. ASSUME d # None
          PROVE  [pc |-> "touching", token |-> req[r].token, device |-> d,
                  tier |-> file[d].tier] \in ReqState
      <3>1. d \in Device /\ file[d] # None
        BY <2>2, <2>4, FindShape
      <3>2. file[d] \in Record
        BY <3>1 DEF GateTypes
      <3> QED BY <2>1, <3>1, <3>2 DEF ReqState, Found, Record
    <2>5. req' \in [Req -> ReqState]
      BY <2>2, <2>3, <2>4 DEF GatewayTypes
    <2> QED BY <1>3, <2>5 DEF GateFinds, GatewayTypes
  <1>4. CASE GateTouches(r) \/ Verified(r)
    <2>1. req[r].pc \in {"touching", "verified"}
      BY <1>4 DEF GateTouches, Verified
    <2>2. req[r].token \in Token /\ req[r].device \in Device
          /\ req[r].tier \in Tier
          /\ req[r] = [pc |-> req[r].pc, token |-> req[r].token,
                       device |-> req[r].device, tier |-> req[r].tier]
      BY <2>1, <1>r, ReqShape DEF Found
    <2>3. PICK c \in {"verified", "accepted"} :
            req' = [req EXCEPT ![r] = [req[r] EXCEPT !.pc = c]]
      BY <1>4 DEF GateTouches, Verified
    <2>4. [req[r] EXCEPT !.pc = c]
            = [pc |-> c, token |-> req[r].token,
               device |-> req[r].device, tier |-> req[r].tier]
      BY <2>2
    <2>5. [pc |-> c, token |-> req[r].token, device |-> req[r].device,
           tier |-> req[r].tier] \in ReqState
      BY <2>2 DEF ReqState, Found
    <2>6. req' \in [Req -> ReqState]
      BY <2>3, <2>4, <2>5 DEF GatewayTypes
    <2>7. timer' \in [Req -> 0..CallTime]
      BY <1>4 DEF GateTouches, Verified, GatewayTypes
    <2>8. cache' \in [Token -> Slot \cup {None}]
      <3>1. [device |-> req[r].device, tier |-> req[r].tier,
             left |-> TokenTtl] \in Slot
        BY <2>2 DEF Slot
      <3> QED BY <1>4, <2>2, <3>1
              DEF GateTouches, Verified, Insert, GatewayTypes
    <2> QED BY <2>6, <2>7, <2>8 DEF GatewayTypes
  <1>5. CASE Refused(r)
    BY <1>i, <1>5 DEF Refused, GatewayTypes
  <1>6. CASE Respond(r)
    BY <1>i, <1>6 DEF Respond, GatewayTypes
  <1> QED BY <1>1, <1>2, <1>3, <1>4, <1>5, <1>6 DEF RequestStep

-----------------------------------------------------------------------------
(* Types                                                                   *)

\* The first state has the types.
LEMMA TypeInit == Init => TypeOK
  <1> SUFFICES ASSUME Init PROVE GateTypes /\ GatewayTypes /\ AgeType
    BY TypeParts
  <1> USE GateAssumption, StoredAssumption, GatewayAssumption
  <1>i. Idle \in PairState /\ Idle \in OpState /\ Idle \in ReqState
    BY DEF PairState, OpState, ReqState
  <1>1. \A d \in Device : Stored[d] # None => Stored[d].token \in Token
    BY DEF Record
  <1>2. minted = {d \in Device : Stored[d] # None}
        /\ issued = {Stored[d].token : d \in minted} /\ file = Stored
    BY DEF Init, GateInit
  <1>3. minted \in SUBSET Device /\ issued \in SUBSET Token
        /\ \A d \in Device : file[d] # None =>
             d \in minted /\ file[d].token \in issued
    BY <1>1, <1>2
  <1>4. events \in [Device -> Seq(Event)]
    <2>1. <<>> \in Seq(Event)
      OBVIOUS
    <2> QED BY <2>1 DEF Init, GateInit
  <1>5. GateTypes
    <2>1. /\ file \in [Device -> Record \cup {None}]
          /\ lock \in Pairer \cup {None}
          /\ lost \in SUBSET Device /\ crossed \in SUBSET Device
          /\ pair \in [Pairer -> PairState] /\ op \in [Op -> OpState]
      BY <1>i, <1>2 DEF Init, GateInit
    <2>2. /\ code \in 1..MaxWindows \cup {None}
          /\ windows \in 0..MaxWindows /\ ops \in 0..MaxOps
          /\ paired \in [1..MaxWindows -> Nat]
      BY DEF Init, GateInit
    <2> QED BY <1>3, <1>4, <2>1, <2>2 DEF GateTypes
  <1>6. GatewayTypes
    BY <1>i DEF Init, GatewayTypes
  <1>7. AgeType
    BY DEF Init, AgeType
  <1> QED BY <1>5, <1>6, <1>7

\* A tick keeps the types: what runs down stops at 0, an age at its bound.
LEMMA TickTypes ==
  ASSUME TypeOK, Tick
  PROVE  /\ GateTypes' /\ GatewayTypes' /\ AgeType'
         /\ \A t \in Token :
              /\ cache[t] = None => cache'[t] = None
              /\ cache[t] # None =>
                   /\ cache'[t].tier = cache[t].tier
                   /\ cache'[t].left = Less(cache[t].left)
  <1> USE TypeParts, GatewayAssumption
  <1>1. GateTypes'
    BY DEF Tick, gateVars, history, GateTypes
  <1>2. AgeType'
    BY DEF Tick, AgeType
  <1>3. timer' \in [Req -> 0..CallTime] /\ req' = req
    <2>1. \A n \in 0..CallTime : Less(n) \in 0..CallTime
      BY DEF Less
    <2>2. timer' = [r \in Req |-> Less(timer[r])] /\ req' = req
      BY DEF Tick
    <2> QED BY <2>1, <2>2 DEF GatewayTypes
  <1>4. ASSUME NEW s \in Slot
        PROVE  /\ [s EXCEPT !.left = Less(@)]
                    = [device |-> s.device, tier |-> s.tier,
                       left |-> Less(s.left)]
               /\ Less(s.left) \in 0..TokenTtl
    BY <1>4 DEF Slot, Less
  <1>5. ASSUME NEW t \in Token
        PROVE  /\ cache'[t] \in Slot \cup {None}
               /\ cache[t] = None => cache'[t] = None
               /\ cache[t] # None =>
                    /\ cache'[t].tier = cache[t].tier
                    /\ cache'[t].left = Less(cache[t].left)
    <2>1. CASE cache[t] = None
      BY <2>1 DEF Tick
    <2>2. CASE cache[t] # None
      <3>1. cache[t] \in Slot
        BY <2>2 DEF GatewayTypes
      <3>2. cache'[t] = [device |-> cache[t].device, tier |-> cache[t].tier,
                         left |-> Less(cache[t].left)]
        BY <1>4, <2>2, <3>1 DEF Tick
      <3>3. cache'[t] \in Slot
        BY <1>4, <3>1, <3>2 DEF Slot
      <3> QED BY <2>2, <3>2, <3>3
    <2> QED BY <2>1, <2>2
  <1>6. cache' \in [Token -> Slot \cup {None}]
    BY <1>5 DEF Tick
  <1> QED BY <1>1, <1>2, <1>3, <1>5, <1>6 DEF GatewayTypes

\* A restart keeps the types.
LEMMA RestartTypes ==
  ASSUME TypeOK, Restart
  PROVE  TypeOK'
  <1> USE TypeParts, GatewayAssumption
  <1>i. Idle \in PairState /\ Idle \in OpState /\ Idle \in ReqState
    BY DEF PairState, OpState, ReqState
  <1>1. events' \in [Device -> Seq(Event)]
    <2>1. <<>> \in Seq(Event)
      OBVIOUS
    <2> QED BY <2>1 DEF Restart, GateRestart
  <1>2. GateTypes'
    BY <1>i, <1>1 DEF Restart, GateRestart, GateTypes
  <1>3. GatewayTypes'
    BY <1>i DEF Restart, GatewayTypes
  <1>4. AgeType'
    BY DEF Restart, AgeType
  <1> QED BY <1>2, <1>3, <1>4, NextTypeParts

\* Every step keeps the types.
LEMMA TypeStep == TypeOK /\ [Next]_vars => TypeOK'
  <1> SUFFICES ASSUME TypeOK, [Next]_vars PROVE TypeOK'
    OBVIOUS
  <1>1. CASE GateStep /\ Observe /\ UNCHANGED gatewayVars
    <2>1. GateTypes' /\ AgeType'
      BY <1>1, TypeParts, GateTypeStep, ObserveAges, GatewayAssumption
    <2>2. GatewayTypes'
      BY <1>1, TypeParts DEF gatewayVars, GatewayTypes
    <2> QED BY <2>1, <2>2, NextTypeParts
  <1>2. ASSUME NEW r \in Req, RequestStep(r) PROVE TypeOK'
    BY <1>2, RequestKeepsGate, RequestAges, RequestTypeStep,
       NextTypeParts
  <1>3. ASSUME NEW r \in Req, NEW t \in Token, Request(r, t) PROVE TypeOK'
    <2>1. [pc |-> "lookup", token |-> t] \in ReqState
      BY DEF ReqState
    <2>2. GatewayTypes'
      BY <1>3, <2>1, TypeParts DEF Request, GatewayTypes
    <2>3. GateTypes' /\ AgeType'
      BY <1>3, TypeParts DEF Request, gateVars, history, GateTypes, AgeType
    <2> QED BY <2>2, <2>3, NextTypeParts
  <1>4. CASE Tick
    BY <1>4, TickTypes, NextTypeParts
  <1>5. CASE Restart
    BY <1>5, RestartTypes
  <1>6. CASE UNCHANGED vars
    BY <1>6, TypeParts, NextTypeParts
       DEF vars, gateVars, history, gatewayVars, GateTypes, GatewayTypes,
           AgeType
  <1> QED BY <1>1, <1>2, <1>3, <1>4, <1>5, <1>6 DEF Next

\* Types hold throughout, and with them that devices.json holds no token that
\* was not issued and no device that was not minted.
THEOREM GatewayTyped == Spec => []TypeOK
  BY TypeInit, TypeStep, PTL DEF Spec

-----------------------------------------------------------------------------
(* What is revoked stays revoked                                           *)

\* A device that was minted and is gone is not written back by a gate's step.
LEMMA GateKeepsGone ==
  ASSUME GateTypes, GateStep, NEW e \in minted, file[e] = None
  PROVE  file'[e] = None
  <1> USE GateAssumption
  <1>e. e \in Device
    BY DEF GateTypes
  <1>1. CASE StartPairing \/ EndPairing
    BY <1>1 DEF StartPairing, EndPairing
  <1>2. ASSUME NEW q \in Pairer,
               CompletePairing(q) \/ AddFails(q) \/ ResetPairing(q)
        PROVE  file'[e] = None
    BY <1>2 DEF CompletePairing, AddFails, ResetPairing
  <1>3. ASSUME NEW q \in Pairer, NEW d \in Device, NEW t \in Token,
               AddDevice(q, d, t) \/ AddForgets(q, d, t)
        PROVE  file'[e] = None
    <2>1. CASE AddDevice(q, d, t)
      BY <1>e, <2>1 DEF AddDevice, GateTypes
    <2>2. CASE AddForgets(q, d, t)
      BY <1>e, <2>2 DEF AddForgets
    <2> QED BY <1>3, <2>1, <2>2
  <1>4. ASSUME NEW o \in Op, Enqueue(o) \/ Vanished(o) PROVE file'[e] = None
    BY <1>4 DEF Enqueue, Vanished
  <1>5. ASSUME NEW o \in Op, Revoke(o) PROVE file'[e] = None
    BY <1>e, <1>5 DEF Revoke, Changes, Save, GateTypes
  <1>6. ASSUME NEW o \in Op, NEW d \in Device, NEW tier \in Tier,
               SetTier(o, d, tier)
        PROVE  file'[e] = None
    <2>1. d # e
      BY <1>6 DEF SetTier
    <2>2. file' = file
            \/ file' = [file EXCEPT ![d] = [file[d] EXCEPT !.tier = tier]]
      BY <1>6 DEF SetTier, Changes, Save
    <2> QED BY <1>e, <2>1, <2>2 DEF GateTypes
  <1>7. ASSUME NEW o \in Op, NEW d \in Device,
               NEW next \in {"rotate", "remove"}, LookUp(o, d, next)
        PROVE  file'[e] = None
    BY <1>7 DEF LookUp
  <1>8. ASSUME NEW o \in Op, NEW t \in Token, RotateToken(o, t)
        PROVE  file'[e] = None
    <2>1. op[o].device # e
      BY <1>8 DEF RotateToken
    <2>2. \/ file' = file
          \/ file' = [file EXCEPT ![op[o].device] =
                        [file[op[o].device] EXCEPT !.token = t]]
      BY <1>8 DEF RotateToken, Changes, Save
    <2> QED BY <1>e, <2>1, <2>2 DEF GateTypes
  <1> QED BY <1>1, <1>2, <1>3, <1>4, <1>5, <1>6, <1>7, <1>8 DEF GateStep

\* No touch, rotation, change of tier or pairing that overlaps a revocation
\* writes the revoked record back.
THEOREM RevocationSticks == Spec => RevokedStaysGone
  <1>1. ASSUME TypeOK, [Next]_vars
        PROVE  \A d \in minted : file[d] = None => file'[d] = None
    <2>1. CASE GateStep
      BY <1>1, <2>1, GateKeepsGone, TypeParts
    <2>2. CASE UNCHANGED file
      BY <2>2
    <2>3. ASSUME NEW r \in Req, RequestStep(r) PROVE UNCHANGED file
      BY <1>1, <2>3, RequestKeepsGate
    <2>4. CASE Tick \/ Restart \/ UNCHANGED vars
               \/ \E r \in Req, t \in Token : Request(r, t)
      BY <2>4, <2>2
         DEF Tick, Restart, GateRestart, Request, vars, gateVars
    <2> QED BY <1>1, <2>1, <2>2, <2>3, <2>4 DEF Next
  <1>2. TypeOK /\ [Next]_vars =>
          [\A d \in minted : file[d] = None => file'[d] = None]_vars
    BY <1>1
  <1> QED BY <1>2, GatewayTyped, PTL DEF Spec, RevokedStaysGone

-----------------------------------------------------------------------------
(* One device per code                                                     *)

\* Whoever is inside complete_pairing holds the lock, and has not added a
\* device under the open code before it does; a code nobody is completing
\* has paired no one, nor has one that was not yet drawn.
CodeInv ==
    /\ \A q \in Pairer : pair[q].pc # "idle" => lock = q
    /\ \A q \in Pairer : pair[q].pc = "add" =>
        code # None /\ pair[q].code = code /\ paired[code] = 0
    /\ code # None => code <= windows
    /\ code # None /\ lock = None => paired[code] = 0
    /\ \A w \in 1..MaxWindows : w > windows => paired[w] = 0
    /\ OneDevicePerCode

codeVars == <<code, windows, lock, pair, paired>>

\* What CodeInv speaks of is all that it depends on.
LEMMA CodeStutter == CodeInv /\ UNCHANGED codeVars => CodeInv'
  BY DEF CodeInv, codeVars, OneDevicePerCode

\* A step of the gate keeps it.
LEMMA CodeGateStep ==
  ASSUME GateTypes, CodeInv, GateStep
  PROVE  CodeInv'
  <1> USE GateAssumption, GateNoneAssumption
  <1>t. /\ windows \in 0..MaxWindows /\ code \in 1..MaxWindows \cup {None}
        /\ paired \in [1..MaxWindows -> Nat] /\ pair \in [Pairer -> PairState]
        /\ \A n \in Nat : n # None
        /\ \A q \in Pairer : q # None
    BY DEF GateTypes
  <1>1. CASE StartPairing
    <2>1. /\ lock = None /\ windows < MaxWindows /\ windows' = windows + 1
          /\ code' = windows + 1 /\ UNCHANGED <<lock, pair, paired>>
      BY <1>1 DEF StartPairing
    <2>2. windows + 1 \in 1..MaxWindows /\ paired[windows + 1] = 0
      BY <1>t, <2>1 DEF CodeInv
    <2>3. \A q \in Pairer : pair[q].pc = "idle"
      BY <1>t, <2>1 DEF CodeInv
    <2> QED BY <1>t, <2>1, <2>2, <2>3 DEF CodeInv, OneDevicePerCode
  <1>2. CASE EndPairing
    <2>1. /\ lock = None /\ code' = None
          /\ UNCHANGED <<windows, lock, pair, paired>>
      BY <1>2 DEF EndPairing
    <2>2. \A q \in Pairer : pair[q].pc = "idle"
      BY <1>t, <2>1 DEF CodeInv
    <2> QED BY <2>1, <2>2 DEF CodeInv, OneDevicePerCode
  <1>3. ASSUME NEW q \in Pairer, CompletePairing(q) PROVE CodeInv'
    <2>1. /\ lock = None /\ code # None /\ lock' = q
          /\ pair' = [pair EXCEPT ![q] = [pc |-> "add", code |-> code]]
          /\ UNCHANGED <<code, windows, paired>>
      BY <1>3 DEF CompletePairing
    <2>2. \A p \in Pairer : pair[p].pc = "idle"
      BY <1>t, <2>1 DEF CodeInv
    <2>3. \A p \in Pairer : pair'[p] =
            IF p = q THEN [pc |-> "add", code |-> code] ELSE pair[p]
      BY <1>t, <2>1
    <2>4. paired[code] = 0
      BY <2>1 DEF CodeInv
    <2> QED BY <1>t, <2>1, <2>2, <2>3, <2>4 DEF CodeInv, OneDevicePerCode
  <1>4. ASSUME NEW q \in Pairer, AddFails(q) PROVE CodeInv'
    <2>1. /\ pair[q].pc = "add" /\ lock' = None
          /\ pair' = [pair EXCEPT ![q] = Idle]
          /\ UNCHANGED <<code, windows, paired>>
      BY <1>4 DEF AddFails
    <2>2. \A p \in Pairer : p # q => pair[p].pc = "idle"
      BY <2>1 DEF CodeInv
    <2>3. \A p \in Pairer : pair'[p].pc = "idle"
      BY <1>t, <2>1, <2>2 DEF Idle
    <2>4. paired[code] = 0
      BY <2>1 DEF CodeInv
    <2> QED BY <2>1, <2>3, <2>4 DEF CodeInv, OneDevicePerCode
  <1>5. ASSUME NEW q \in Pairer, ResetPairing(q) PROVE CodeInv'
    <2>1. /\ pair[q].pc = "reset" /\ lock' = None /\ code' = None
          /\ pair' = [pair EXCEPT ![q] = Idle]
          /\ UNCHANGED <<windows, paired>>
      BY <1>5 DEF ResetPairing
    <2>2. \A p \in Pairer : p # q => pair[p].pc = "idle"
      BY <2>1 DEF CodeInv
    <2>3. \A p \in Pairer : pair'[p].pc = "idle"
      BY <1>t, <2>1, <2>2 DEF Idle
    <2> QED BY <2>1, <2>3 DEF CodeInv, OneDevicePerCode
  <1>6. ASSUME NEW q \in Pairer, NEW d \in Device, NEW t \in Token,
               AddDevice(q, d, t) \/ AddForgets(q, d, t)
        PROVE  CodeInv'
    <2>1. /\ pair[q].pc = "add"
          /\ paired' = [paired EXCEPT ![pair[q].code] = @ + 1]
          /\ pair' = [pair EXCEPT ![q].pc = "reset"]
          /\ UNCHANGED <<code, windows, lock>>
      BY <1>6 DEF AddDevice, AddForgets
    <2>2. /\ lock = q /\ code \in 1..MaxWindows /\ pair[q].code = code
          /\ paired[code] = 0 /\ code <= windows
          /\ \A p \in Pairer : p # q => pair[p].pc = "idle"
      BY <1>t, <2>1 DEF CodeInv
    <2>3. \A p \in Pairer : pair'[p].pc = IF p = q THEN "reset" ELSE "idle"
      <3>1. pair[q] = [pc |-> pair[q].pc, code |-> pair[q].code]
        BY <1>t, <2>1, PairShape
      <3>2. [pair[q] EXCEPT !.pc = "reset"].pc = "reset"
        BY <3>1
      <3> QED BY <1>t, <2>1, <2>2, <3>2
    <2>4. \A w \in 1..MaxWindows :
            paired'[w] = IF w = code THEN 1 ELSE paired[w]
      BY <1>t, <2>1, <2>2
    <2> QED BY <1>t, <2>1, <2>2, <2>3, <2>4 DEF CodeInv, OneDevicePerCode
  <1>7. ASSUME NEW o \in Op, Enqueue(o) \/ Vanished(o) \/ Revoke(o)
        PROVE  CodeInv'
    BY <1>7, CodeStutter DEF Enqueue, Vanished, Revoke, codeVars
  <1>8. ASSUME NEW o \in Op, NEW d \in Device, NEW tier \in Tier,
               SetTier(o, d, tier)
        PROVE  CodeInv'
    BY <1>8, CodeStutter DEF SetTier, codeVars
  <1>9. ASSUME NEW o \in Op, NEW d \in Device,
               NEW next \in {"rotate", "remove"}, LookUp(o, d, next)
        PROVE  CodeInv'
    BY <1>9, CodeStutter DEF LookUp, codeVars
  <1>10. ASSUME NEW o \in Op, NEW t \in Token, RotateToken(o, t)
         PROVE  CodeInv'
    BY <1>10, CodeStutter DEF RotateToken, codeVars
  <1> QED BY <1>1, <1>2, <1>3, <1>4, <1>5, <1>6, <1>7, <1>8, <1>9, <1>10
          DEF GateStep

\* "One-shot": a code pairs at most one device, however complete_pairing calls
\* race, writes fail and the service restarts.
THEOREM CodesPairOnce == Spec => []OneDevicePerCode
  <1>1. Init => CodeInv
    BY GateAssumption DEF Init, GateInit, CodeInv, OneDevicePerCode, Idle
  <1>2. TypeOK /\ CodeInv /\ [Next]_vars => CodeInv'
    <2> SUFFICES ASSUME TypeOK, CodeInv, [Next]_vars PROVE CodeInv'
      OBVIOUS
    <2>1. CASE GateStep
      BY <2>1, CodeGateStep, TypeParts
    <2>2. ASSUME NEW r \in Req, RequestStep(r) PROVE CodeInv'
      BY <2>2, RequestKeepsGate, CodeStutter DEF codeVars
    <2>3. CASE Tick \/ UNCHANGED vars
               \/ \E r \in Req, t \in Token : Request(r, t)
      BY <2>3, CodeStutter DEF Tick, Request, vars, gateVars, codeVars
    <2>4. CASE Restart
      BY <2>4 DEF Restart, GateRestart, CodeInv, OneDevicePerCode, Idle
    <2> QED BY <2>1, <2>2, <2>3, <2>4 DEF Next
  <1>3. CodeInv => OneDevicePerCode
    BY DEF CodeInv
  <1> QED BY <1>1, <1>2, <1>3, GatewayTyped, PTL DEF Spec

-----------------------------------------------------------------------------
(* How long a token that was taken back still works                        *)

Waiting == {"touching", "verified"}

\* A record in the store has no age; a live slot was inserted at the end of a
\* call that found its record at most CallTime before; and a call that found
\* one has not run longer than since then.
AgeInv ==
    /\ \A p \in Token \X Tier : p \in Standing(file) => age[p] = 0
    /\ \A t \in Token : Live(t) =>
        age[<<t, cache[t].tier>>] + cache[t].left <= TokenTtl + CallTime
    /\ \A r \in Req : req[r].pc \in Waiting =>
        age[<<req[r].token, req[r].tier>>] + timer[r] <= CallTime

\* What a waiting request names is a pair that has an age.
LEMMA WaitingShape ==
  ASSUME TypeOK, NEW r \in Req, req[r].pc \in Waiting
  PROVE  /\ req[r].token \in Token /\ req[r].tier \in Tier
         /\ <<req[r].token, req[r].tier>> \in Token \X Tier
         /\ age[<<req[r].token, req[r].tier>>] \in 0..MaxAge
         /\ timer[r] \in 0..CallTime
  <1>1. req[r] \in ReqState /\ timer[r] \in 0..CallTime
    BY TypeParts DEF GatewayTypes
  <1>2. req[r].token \in Token /\ req[r].tier \in Tier
    BY <1>1, ReqShape DEF Waiting, Found
  <1>3. <<req[r].token, req[r].tier>> \in Token \X Tier
    BY <1>2
  <1> QED BY <1>1, <1>2, <1>3, TypeParts DEF AgeType

\* So does a slot of the cache.
LEMMA SlotShape ==
  ASSUME TypeOK, NEW t \in Token, cache[t] # None
  PROVE  /\ cache[t].tier \in Tier /\ cache[t].left \in 0..TokenTtl
         /\ <<t, cache[t].tier>> \in Token \X Tier
         /\ age[<<t, cache[t].tier>>] \in 0..MaxAge
  <1>1. cache[t] \in Slot
    BY TypeParts DEF GatewayTypes
  <1>2. cache[t].tier \in Tier /\ cache[t].left \in 0..TokenTtl
    BY <1>1 DEF Slot
  <1>3. <<t, cache[t].tier>> \in Token \X Tier
    BY <1>2
  <1> QED BY <1>2, <1>3, TypeParts DEF AgeType

\* A step that lets no age grow, and leaves the slots and the calls as they
\* were, keeps what AgeInv says of them.
LEMMA AgesShrink ==
  ASSUME TypeOK, AgeInv, AgeType',
         \A p \in Token \X Tier : age'[p] <= age[p]
  PROVE  /\ \A t \in Token : cache'[t] = cache[t] =>
              (Live(t)' => age'[<<t, cache'[t].tier>>] + cache'[t].left
                              <= TokenTtl + CallTime)
         /\ \A r \in Req :
              req'[r] = req[r] /\ timer'[r] = timer[r]
                  /\ req'[r].pc \in Waiting =>
                age'[<<req'[r].token, req'[r].tier>>] + timer'[r] <= CallTime
  <1> USE GatewayAssumption
  <1>1. ASSUME NEW t \in Token, cache'[t] = cache[t], Live(t)'
        PROVE  age'[<<t, cache'[t].tier>>] + cache'[t].left
                 <= TokenTtl + CallTime
    <2> DEFINE p == <<t, cache[t].tier>>
    <2>1. Live(t) /\ cache[t] # None
      BY <1>1 DEF Live
    <2>2. p \in Token \X Tier /\ age[p] \in 0..MaxAge
          /\ cache[t].left \in 0..TokenTtl
      BY <2>1, SlotShape
    <2>3. age'[p] \in 0..MaxAge
      BY <2>2 DEF AgeType
    <2>4. age[p] + cache[t].left <= TokenTtl + CallTime
      BY <2>1 DEF AgeInv
    <2> HIDE DEF p
    <2>5. age'[p] + cache[t].left <= TokenTtl + CallTime
      BY <2>2, <2>3, <2>4
    <2> QED BY <1>1, <2>5 DEF p
  <1>2. ASSUME NEW r \in Req, req'[r] = req[r], timer'[r] = timer[r],
               req'[r].pc \in Waiting
        PROVE  age'[<<req'[r].token, req'[r].tier>>] + timer'[r] <= CallTime
    <2> DEFINE p == <<req[r].token, req[r].tier>>
    <2>1. p \in Token \X Tier /\ age[p] \in 0..MaxAge
          /\ timer[r] \in 0..CallTime
      BY <1>2, WaitingShape
    <2>2. age'[p] \in 0..MaxAge
      BY <2>1 DEF AgeType
    <2>3. age[p] + timer[r] <= CallTime
      BY <1>2 DEF AgeInv
    <2> HIDE DEF p
    <2>4. age'[p] + timer[r] <= CallTime
      BY <2>1, <2>2, <2>3
    <2> QED BY <1>2, <2>4 DEF p
  <1> QED BY <1>1, <1>2

\* While a record stands its age is 0, whatever a request does.
LEMMA StandingAges ==
  ASSUME TypeOK, AgeInv, NEW r \in Req, RequestStep(r)
  PROVE  \A p \in Token \X Tier : p \in Standing(file') => age'[p] = 0
  <1>1. file' = file
    BY RequestKeepsGate
  <1>2. CASE GateTouches(r)
    BY <1>2, ObserveAges, TypeParts, GatewayAssumption DEF GateTouches
  <1>3. CASE ~GateTouches(r)
    <2>1. age' = age
      BY <1>3 DEF RequestStep, CacheHit, CacheMiss, GateFinds, Verified,
                  Refused, Respond
    <2> QED BY <1>1, <2>1 DEF AgeInv
  <1> QED BY <1>2, <1>3

\* A step of a request leaves the other requests alone.
LEMMA OtherRequests ==
  ASSUME TypeOK, NEW r \in Req, RequestStep(r), NEW s \in Req, s # r
  PROVE  req'[s] = req[s] /\ timer'[s] = timer[s]
  BY TypeParts
     DEF RequestStep, CacheHit, CacheMiss, GateFinds, GateTouches, Verified,
         Refused, Respond, GatewayTypes

\* A step of a request keeps AgeInv: a call that finds a record starts at age
\* 0, and the slot it makes carries what the call took over to its TTL.
LEMMA AgeRequestStep ==
  ASSUME TypeOK, AgeInv, NEW r \in Req, RequestStep(r)
  PROVE  AgeInv'
  <1> USE GatewayAssumption
  <1>a. /\ AgeType'
        /\ \A p \in Token \X Tier : age'[p] <= age[p]
    BY RequestAges
  <1>r. req \in [Req -> ReqState] /\ req[r] \in ReqState
    BY TypeParts DEF GatewayTypes
  <1>1. ASSUME NEW t \in Token, Live(t)'
        PROVE  age'[<<t, cache'[t].tier>>] + cache'[t].left
                 <= TokenTtl + CallTime
    <2>1. CASE cache'[t] = cache[t]
      BY <1>1, <1>a, <2>1, AgesShrink
    <2>2. CASE CacheMiss(r) /\ cache'[t] # cache[t]
      <3>1. cache'[t] = None
        BY <2>2, TypeParts DEF CacheMiss, GatewayTypes
      <3> QED BY <1>1, <3>1 DEF Live
    <2>3. CASE Verified(r) /\ cache'[t] # cache[t]
      <3> DEFINE p == <<req[r].token, req[r].tier>>
      <3>1. /\ req[r].pc \in Waiting
            /\ cache' = [cache EXCEPT ![req[r].token] =
                 [device |-> req[r].device, tier |-> req[r].tier,
                  left |-> TokenTtl]]
            /\ age' = age
        BY <2>3 DEF Verified, Insert, Waiting
      <3>2. t = req[r].token /\ cache'[t].tier = req[r].tier
            /\ cache'[t].left = TokenTtl
        BY <2>3, <3>1, TypeParts DEF GatewayTypes
      <3>3. age[p] \in 0..MaxAge /\ timer[r] \in 0..CallTime
        BY <3>1, WaitingShape
      <3>4. age[p] + timer[r] <= CallTime
        BY <3>1 DEF AgeInv
      <3> HIDE DEF p
      <3>5. age'[p] + TokenTtl <= TokenTtl + CallTime
        BY <3>1, <3>3, <3>4
      <3> QED BY <3>2, <3>5 DEF p
    <2>4. CacheMiss(r) \/ Verified(r) \/ cache' = cache
      BY DEF RequestStep, CacheHit, GateFinds, GateTouches, Refused, Respond
    <2> QED BY <2>1, <2>2, <2>3, <2>4
  <1>2. ASSUME NEW s \in Req, req'[s].pc \in Waiting
        PROVE  age'[<<req'[s].token, req'[s].tier>>] + timer'[s] <= CallTime
    <2>1. CASE s # r
      BY <1>2, <1>a, <2>1, OtherRequests, AgesShrink
    <2>2. CASE s = r /\ GateFinds(r)
      <3>1. PICK d \in {FindByToken(req[r].token)} \cup {None} :
              req' = [req EXCEPT ![r] =
                IF d = None THEN [pc |-> "invalid", token |-> req[r].token]
                ELSE [pc |-> "touching", token |-> req[r].token,
                      device |-> d, tier |-> file[d].tier]]
        BY <2>2 DEF GateFinds
      <3>2. d # None /\ req'[r].token = req[r].token
            /\ req'[r].tier = file[d].tier
        BY <1>r, <1>2, <2>2, <3>1 DEF Waiting
      <3>3. d \in Device /\ file[d] # None /\ file[d].token = req[r].token
        BY <3>1, <3>2, FindShape
      <3>4. file[d] \in Record
        BY <3>3, TypeParts DEF GateTypes
      <3> DEFINE p == <<file[d].token, file[d].tier>>
      <3>5. p \in Token \X Tier /\ p \in Standing(file)
        BY <3>3, <3>4 DEF Standing, Record
      <3>6. age[p] = 0 /\ age' = age /\ timer' = timer
        BY <2>2, <3>5 DEF AgeInv, GateFinds
      <3>7. timer[r] \in 0..CallTime
        BY TypeParts DEF GatewayTypes
      <3> HIDE DEF p
      <3>8. age'[p] + timer'[r] <= CallTime
        BY <3>6, <3>7
      <3> QED BY <2>2, <3>2, <3>3, <3>8 DEF p
    <2>3. CASE s = r /\ GateTouches(r)
      <3> DEFINE p == <<req[r].token, req[r].tier>>
      <3>1. req[r].pc \in Waiting /\ timer' = timer
            /\ req' = [req EXCEPT ![r] = [req[r] EXCEPT !.pc = "verified"]]
        BY <2>3 DEF GateTouches, Waiting
      <3>2. req[r] = [pc |-> req[r].pc, token |-> req[r].token,
                      device |-> req[r].device, tier |-> req[r].tier]
        BY <1>r, <3>1, ReqShape DEF Waiting, Found
      <3>3. req'[r].token = req[r].token /\ req'[r].tier = req[r].tier
        BY <1>r, <3>1, <3>2
      <3>4. p \in Token \X Tier /\ age[p] \in 0..MaxAge
            /\ timer[r] \in 0..CallTime
        BY <3>1, WaitingShape
      <3>5. age[p] + timer[r] <= CallTime
        BY <3>1 DEF AgeInv
      <3> HIDE DEF p
      <3>6. age'[p] <= age[p] /\ age'[p] \in 0..MaxAge
        BY <1>a, <3>4 DEF AgeType
      <3>7. age'[p] + timer'[r] <= CallTime
        BY <3>1, <3>4, <3>5, <3>6
      <3> QED BY <2>3, <3>3, <3>7 DEF p
    <2>4. CASE s = r /\ ~GateFinds(r) /\ ~GateTouches(r)
      <3>1. req'[r].pc \in {"accepted", "calling", "idle"}
        <4>1. CASE CacheHit(r)
          BY <1>r, <4>1 DEF CacheHit
        <4>2. CASE CacheMiss(r)
          <5>1. req[r] = [pc |-> "lookup", token |-> req[r].token]
            BY <1>r, <4>2, ReqShape DEF CacheMiss
          <5>2. req'[r] = [req[r] EXCEPT !.pc = "calling"]
            BY <1>r, <4>2 DEF CacheMiss
          <5> QED BY <5>1, <5>2
        <4>3. CASE Verified(r)
          <5>1. req[r] = [pc |-> req[r].pc, token |-> req[r].token,
                          device |-> req[r].device, tier |-> req[r].tier]
            BY <1>r, <4>3, ReqShape DEF Verified, Found
          <5>2. req'[r] = [req[r] EXCEPT !.pc = "accepted"]
            BY <1>r, <4>3 DEF Verified
          <5> QED BY <5>1, <5>2
        <4>4. CASE Refused(r) \/ Respond(r)
          BY <1>r, <4>4 DEF Refused, Respond, Idle
        <4> QED BY <2>4, <4>1, <4>2, <4>3, <4>4 DEF RequestStep
      <3> QED BY <1>2, <2>4, <3>1 DEF Waiting
    <2> QED BY <2>1, <2>2, <2>3, <2>4
  <1> QED BY <1>1, <1>2, StandingAges DEF AgeInv

\* A tick keeps AgeInv: an age grows by no more than the slot's and the call's
\* time runs down, and no tick passes the end of a call.
LEMMA AgeTick ==
  ASSUME TypeOK, AgeInv, Tick
  PROVE  AgeInv'
  <1> USE GatewayAssumption
  <1>a. \A p \in Token \X Tier :
          /\ age[p] \in 0..MaxAge
          /\ age'[p] \in 0..MaxAge /\ age'[p] <= age[p] + 1
          /\ p \in Standing(file) => age'[p] = 0
    BY TypeParts DEF AgeType, Tick
  <1>1. \A p \in Token \X Tier : p \in Standing(file') => age'[p] = 0
    BY <1>a DEF Tick, gateVars
  <1>2. ASSUME NEW t \in Token, Live(t)'
        PROVE  age'[<<t, cache'[t].tier>>] + cache'[t].left
                 <= TokenTtl + CallTime
    <2> DEFINE p == <<t, cache[t].tier>>
    <2>1. cache[t] # None /\ cache'[t].tier = cache[t].tier
          /\ cache'[t].left = Less(cache[t].left) /\ cache'[t].left > 0
      BY <1>2, TickTypes DEF Live
    <2>2. p \in Token \X Tier /\ cache[t].left \in 0..TokenTtl
      BY <2>1, SlotShape
    <2>3. cache[t].left > 0 /\ cache'[t].left = cache[t].left - 1
      BY <2>1, <2>2 DEF Less
    <2>4. age[p] + cache[t].left <= TokenTtl + CallTime
      BY <2>1, <2>3 DEF AgeInv, Live
    <2> HIDE DEF p
    <2>5. age'[p] + cache'[t].left <= TokenTtl + CallTime
      BY <1>a, <2>2, <2>3, <2>4
    <2> QED BY <2>1, <2>5 DEF p
  <1>3. ASSUME NEW r \in Req, req'[r].pc \in Waiting
        PROVE  age'[<<req'[r].token, req'[r].tier>>] + timer'[r] <= CallTime
    <2> DEFINE p == <<req[r].token, req[r].tier>>
    <2>1. req' = req /\ req[r].pc \in Waiting
      BY <1>3 DEF Tick
    <2>2. p \in Token \X Tier /\ timer[r] \in 0..CallTime
      BY <2>1, WaitingShape
    <2>3. timer[r] > 0 /\ timer'[r] = timer[r] - 1
      BY <2>1, <2>2 DEF Tick, Pending, Waiting, Less
    <2>4. age[p] + timer[r] <= CallTime
      BY <2>1 DEF AgeInv
    <2> HIDE DEF p
    <2>5. age'[p] + timer'[r] <= CallTime
      BY <1>a, <2>2, <2>3, <2>4
    <2> QED BY <2>1, <2>5 DEF p
  <1> QED BY <1>1, <1>2, <1>3 DEF AgeInv

\* AgeInv holds throughout.
LEMMA AgeAlways == Spec => []AgeInv
  <1> USE GatewayAssumption
  <1>1. Init => AgeInv
    <2> SUFFICES ASSUME Init PROVE AgeInv
      OBVIOUS
    <2>1. \A p \in Token \X Tier : p \in Standing(file) => age[p] = 0
      BY DEF Init, GateInit
    <2>2. \A t \in Token : ~Live(t)
      BY DEF Init, Live
    <2>3. \A r \in Req : req[r].pc = "idle"
      BY DEF Init, Idle
    <2> QED BY <2>1, <2>2, <2>3 DEF AgeInv, Waiting
  <1>2. TypeOK /\ AgeInv /\ [Next]_vars => AgeInv'
    <2> SUFFICES ASSUME TypeOK, AgeInv, [Next]_vars PROVE AgeInv'
      OBVIOUS
    <2>a. \A p \in Token \X Tier : age[p] \in 0..MaxAge
      BY TypeParts DEF AgeType
    <2>1. CASE GateStep /\ Observe /\ UNCHANGED gatewayVars
      <3>1. /\ AgeType'
            /\ \A p \in Token \X Tier : age'[p] <= age[p]
            /\ \A p \in Token \X Tier : p \in Standing(file') => age'[p] = 0
        BY <2>1, ObserveAges, TypeParts
      <3>2. UNCHANGED <<req, timer, cache>>
        BY <2>1 DEF gatewayVars
      <3> QED BY <3>1, <3>2, AgesShrink DEF AgeInv
    <2>2. ASSUME NEW r \in Req, RequestStep(r) PROVE AgeInv'
      BY <2>2, AgeRequestStep
    <2>3. ASSUME NEW r \in Req, NEW t \in Token, Request(r, t)
          PROVE  AgeInv'
      <3>1. /\ req' = [req EXCEPT ![r] = [pc |-> "lookup", token |-> t]]
            /\ UNCHANGED <<file, timer, cache, age>>
        BY <2>3 DEF Request, gateVars
      <3>2. req \in [Req -> ReqState]
        BY TypeParts DEF GatewayTypes
      <3>3. \A s \in Req : req'[s].pc \in Waiting => req'[s] = req[s]
        BY <3>1, <3>2 DEF Waiting
      <3> QED BY <3>1, <3>3 DEF AgeInv, Live
    <2>4. CASE Tick
      BY <2>4, AgeTick
    <2>5. CASE Restart
      <3>1. UNCHANGED <<file, cache, age>>
        BY <2>5 DEF Restart, GateRestart
      <3>2. \A r \in Req : req'[r].pc \notin Waiting
        BY <2>5 DEF Restart, Pending, Waiting, Idle
      <3> QED BY <3>1, <3>2 DEF AgeInv, Live
    <2>6. CASE UNCHANGED vars
      BY <2>6 DEF AgeInv, Live, vars, gateVars, gatewayVars
    <2> QED BY <2>1, <2>2, <2>3, <2>4, <2>5, <2>6 DEF Next
  <1> QED BY <1>1, <1>2, GatewayTyped, PTL DEF Spec

\* A token that was revoked or rotated away, or a tier that was taken back,
\* lets no request through once a TTL and a call's timeout have passed,
\* whichever verification was under way when it happened.
THEOREM AcceptanceBounded == Spec => AcceptBounded
  <1> USE GatewayAssumption
  <1>1. ASSUME TypeOK, AgeInv, [Next]_vars, NEW r \in Req,
               req[r].pc # "accepted", req'[r].pc = "accepted"
        PROVE  age[<<req'[r].token, req'[r].tier>>] <= TokenTtl + CallTime
    <2>r. req \in [Req -> ReqState] /\ req[r] \in ReqState
      BY <1>1, TypeParts DEF GatewayTypes
    <2>1. CASE CacheHit(r)
      <3> DEFINE t == req[r].token
      <3>1. Live(t) /\ cache[t] # None /\ t \in Token
        BY <2>1, <2>r, ReqShape DEF CacheHit, Live
      <3>2. req'[r].token = t /\ req'[r].tier = cache[t].tier
        BY <2>r, <2>1 DEF CacheHit
      <3>3. /\ cache[t].left \in 0..TokenTtl
            /\ age[<<t, cache[t].tier>>] \in 0..MaxAge
        BY <1>1, <3>1, SlotShape
      <3>4. age[<<t, cache[t].tier>>] + cache[t].left <= TokenTtl + CallTime
        BY <1>1, <3>1 DEF AgeInv
      <3> QED BY <3>2, <3>3, <3>4
    <2>2. CASE Verified(r)
      <3>1. req[r].pc \in Waiting
            /\ req' = [req EXCEPT ![r] = [req[r] EXCEPT !.pc = "accepted"]]
        BY <2>2 DEF Verified, Waiting
      <3>2. req[r] = [pc |-> req[r].pc, token |-> req[r].token,
                      device |-> req[r].device, tier |-> req[r].tier]
        BY <2>r, <3>1, ReqShape DEF Waiting, Found
      <3>3. req'[r].token = req[r].token /\ req'[r].tier = req[r].tier
        BY <2>r, <3>1, <3>2
      <3>4. timer[r] \in 0..CallTime
            /\ age[<<req[r].token, req[r].tier>>] \in 0..MaxAge
        BY <1>1, <3>1, WaitingShape
      <3>5. age[<<req[r].token, req[r].tier>>] + timer[r] <= CallTime
        BY <1>1, <3>1 DEF AgeInv
      <3> QED BY <3>3, <3>4, <3>5
    <2>3. CASE RequestStep(r) /\ ~CacheHit(r) /\ ~Verified(r)
      <3>1. CASE CacheMiss(r) \/ GateTouches(r)
        <4>1. PICK c \in {"calling", "verified"} :
                req'[r] = [req[r] EXCEPT !.pc = c]
          BY <2>r, <3>1 DEF CacheMiss, GateTouches
        <4>2. \/ req[r] = [pc |-> req[r].pc, token |-> req[r].token]
              \/ req[r] = [pc |-> req[r].pc, token |-> req[r].token,
                           device |-> req[r].device, tier |-> req[r].tier]
          BY <2>r, <3>1, ReqShape DEF CacheMiss, GateTouches, Found
        <4>3. req'[r].pc = c
          BY <4>1, <4>2
        <4> QED BY <1>1, <4>3
      <3>2. CASE GateFinds(r)
        BY <1>1, <2>r, <3>2 DEF GateFinds
      <3>3. CASE Refused(r) \/ Respond(r)
        BY <1>1, <2>r, <3>3 DEF Refused, Respond, Idle
      <3> QED BY <2>3, <3>1, <3>2, <3>3 DEF RequestStep
    <2>4. ASSUME NEW s \in Req, RequestStep(s), s # r PROVE FALSE
      BY <1>1, <2>4, OtherRequests
    <2>5. ASSUME NEW s \in Req, NEW t \in Token, Request(s, t) PROVE FALSE
      BY <1>1, <2>r, <2>5 DEF Request
    <2>6. CASE Restart
      BY <1>1, <2>6 DEF Restart, Idle
    <2>7. CASE (GateStep /\ Observe /\ UNCHANGED gatewayVars)
               \/ Tick \/ UNCHANGED vars
      BY <1>1, <2>7 DEF Tick, vars, gatewayVars
    <2> QED BY <1>1, <2>1, <2>2, <2>3, <2>4, <2>5, <2>6, <2>7 DEF Next
  <1>2. TypeOK /\ AgeInv /\ [Next]_vars =>
          [\A r \in Req :
             req[r].pc # "accepted" /\ req'[r].pc = "accepted" =>
               age[<<req'[r].token, req'[r].tier>>]
                 <= TokenTtl + CallTime]_vars
    BY <1>1
  <1> QED BY <1>2, GatewayTyped, AgeAlways, PTL DEF Spec, AcceptBounded

-----------------------------------------------------------------------------
(* The events a device was sent and what the store holds                   *)

\* What the queue q, followed to its end, says of a record f of its device:
\* whether it was revoked, and the token of the last rotation.
Tells(q, f) ==
    q # <<>> =>
        /\ f = None <=> q[Len(q)].type = "revoked"
        /\ \A i \in 1..Len(q) :
             /\ q[i].type = "token_rotated"
             /\ \A j \in (i + 1)..Len(q) : q[j].type # "token_rotated"
             => f = None \/ f.token = q[i].token

\* With the event that is still owed, the queue tells what the store holds;
\* one operation at most owes it.
Telling(d) ==
    /\ \A o, p \in Op : Owes(o, d) /\ Owes(p, d) => o = p
    /\ (\A o \in Op : ~Owes(o, d)) => Tells(events[d], file[d])
    /\ \A o \in Op : Owes(o, d) =>
         Tells(Append(events[d], op[o].event), file[d])

\* So it is for every device whose changes were written and did not cross;
\* an id that was never handed out has no queue and no operation.
TellInv ==
    /\ \A d \in Device \ (lost \cup crossed) : Telling(d)
    /\ \A d \in Device : events[d] # <<>> => d \in minted
    /\ \A o \in Op : op[o].pc # "idle" => op[o].device \in minted

\* An event more: a change of tier of a device that stands, ...
LEMMA TellsTier ==
  ASSUME NEW q \in Seq(Event), NEW f, NEW g, Tells(q, f), f # None, g # None,
         g.token = f.token, NEW e \in Event, e.type = "tier_changed"
  PROVE  Tells(Append(q, e), g)
  <1> DEFINE a == Append(q, e)
  <1>1. /\ a \in Seq(Event) /\ Len(a) = Len(q) + 1 /\ Len(q) \in Nat
        /\ a[Len(a)] = e /\ \A i \in 1..Len(q) : a[i] = q[i]
    OBVIOUS
  <1> HIDE DEF a
  <1>2. g = None <=> a[Len(a)].type = "revoked"
    BY <1>1
  <1>3. ASSUME NEW i \in 1..Len(a), a[i].type = "token_rotated",
               \A j \in (i + 1)..Len(a) : a[j].type # "token_rotated"
        PROVE  g.token = a[i].token
    <2>1. i \in 1..Len(q) /\ q # <<>>
      BY <1>1, <1>3
    <2>2. \A j \in (i + 1)..Len(q) : q[j].type # "token_rotated"
      BY <1>1, <1>3, <2>1
    <2>3. q[i].type = "token_rotated"
      BY <1>1, <1>3, <2>1
    <2>4. f.token = q[i].token
      BY <2>1, <2>2, <2>3 DEF Tells
    <2> QED BY <1>1, <2>1, <2>4
  <1> QED BY <1>2, <1>3 DEF Tells, a

\* ... a rotation, ...
LEMMA TellsRotated ==
  ASSUME NEW q \in Seq(Event), NEW f, f # None,
         NEW e \in Event, e.type = "token_rotated", f.token = e.token
  PROVE  Tells(Append(q, e), f)
  <1> DEFINE a == Append(q, e)
  <1>1. /\ a \in Seq(Event) /\ Len(a) = Len(q) + 1 /\ Len(q) \in Nat
        /\ a[Len(a)] = e
    OBVIOUS
  <1> HIDE DEF a
  <1>2. ASSUME NEW i \in 1..Len(a),
               \A j \in (i + 1)..Len(a) : a[j].type # "token_rotated"
        PROVE  f.token = a[i].token
    <2>1. i = Len(a)
      BY <1>1, <1>2
    <2> QED BY <1>1, <2>1
  <1>3. f = None <=> a[Len(a)].type = "revoked"
    BY <1>1
  <1> QED BY <1>2, <1>3 DEF Tells, a

\* ... a revocation.
LEMMA TellsRevoked ==
  ASSUME NEW q \in Seq(Event), NEW e \in Event, e.type = "revoked"
  PROVE  Tells(Append(q, e), None)
  <1> DEFINE a == Append(q, e)
  <1>1. a[Len(a)] = e
    OBVIOUS
  <1> HIDE DEF a
  <1> QED BY <1>1 DEF Tells, a

\* An empty queue says nothing.
LEMMA TellsNothing == ASSUME NEW f PROVE Tells(<<>>, f)
  BY DEF Tells

\* Consuming what was queued before the last event loses nothing.
LEMMA TellsAlone ==
  ASSUME NEW q \in Seq(Event), NEW f, NEW e \in Event,
         Tells(Append(q, e), f)
  PROVE  Tells(Append(<<>>, e), f)
  <1> DEFINE a == Append(q, e)
             b == Append(<<>>, e)
  <1>1. /\ Len(a) = Len(q) + 1 /\ Len(q) \in Nat /\ a[Len(a)] = e
        /\ a # <<>> /\ Len(a) \in 1..Len(a)
    OBVIOUS
  <1>2. Len(b) = 1 /\ b[1] = e
    OBVIOUS
  <1>3. Tells(a, f)
    OBVIOUS
  <1> HIDE DEF a, b
  <1>4. f = None <=> e.type = "revoked"
    BY <1>1, <1>3 DEF Tells
  <1>5. e.type = "token_rotated" => f = None \/ f.token = e.token
    <2>1. \A j \in (Len(a) + 1)..Len(a) : a[j].type # "token_rotated"
      BY <1>1
    <2> QED BY <1>1, <1>3, <2>1 DEF Tells
  <1>6. Tells(b, f)
    BY <1>2, <1>4, <1>5 DEF Tells
  <1> QED BY <1>6 DEF b

tellVars == <<file, minted, op, events, history>>

\* Steps that change neither store, queues nor operations.
LEMMA TellStutter == TellInv /\ UNCHANGED tellVars => TellInv'
  BY DEF TellInv, Telling, Owes, tellVars, history

\* An operation changes the record of d, or loses the change, and owes e: if
\* another one owed d an event, the two cross.
LEMMA TellChange ==
  ASSUME GateTypes, TellInv,
         NEW o \in Op, op[o].pc # "enqueue", NEW d \in minted,
         NEW e \in Event, NEW r, Changes(o, d, r, e),
         UNCHANGED <<minted, events>>,
         \A c \in Device : c # d => file'[c] = file[c],
         lost \subseteq lost',
         d \notin lost' /\ Tells(events[d], file[d]) =>
           Tells(Append(events[d], e), file'[d])
  PROVE  TellInv'
  <1>1. /\ op' = [op EXCEPT ![o] = [pc |-> "enqueue", device |-> d,
                                    event |-> e]]
        /\ crossed \subseteq crossed'
        /\ d \notin crossed' => \A p \in Op : ~Owes(p, d)
    BY DEF Changes
  <1>2. /\ op'[o] = [pc |-> "enqueue", device |-> d, event |-> e]
        /\ \A p \in Op : p # o => op'[p] = op[p]
    BY <1>1 DEF GateTypes
  <1>3. ASSUME NEW c \in Device \ (lost' \cup crossed') PROVE Telling(c)'
    <2>1. Telling(c) /\ c \in Device /\ c \notin lost'
      BY <1>1, <1>3 DEF TellInv
    <2>2. CASE c = d
      <3>1. \A p \in Op : ~Owes(p, d)
        BY <1>1, <1>3, <2>2
      <3>2. \A p \in Op : Owes(p, d)' <=> p = o
        BY <1>2, <3>1 DEF Owes
      <3>3. Tells(Append(events[d], e), file'[d])
        BY <2>1, <2>2, <3>1 DEF Telling
      <3>4. Tells(Append(events'[d], op'[o].event), file'[d])
        BY <1>2, <3>3
      <3> QED BY <2>2, <3>2, <3>4 DEF Telling
    <2>3. CASE c # d
      <3>1. \A p \in Op : Owes(p, c)' <=> Owes(p, c)
        BY <1>2, <2>3 DEF Owes
      <3>2. \A p \in Op : Owes(p, c) => op'[p] = op[p]
        BY <1>2 DEF Owes
      <3>3. file'[c] = file[c] /\ events'[c] = events[c]
        BY <2>1, <2>3
      <3> QED BY <2>1, <3>1, <3>2, <3>3 DEF Telling
    <2> QED BY <2>2, <2>3
  <1>4. \A c \in Device : events'[c] # <<>> => c \in minted'
    BY DEF TellInv
  <1>5. \A p \in Op : op'[p].pc # "idle" => op'[p].device \in minted'
    BY <1>2 DEF TellInv
  <1> QED BY <1>3, <1>4, <1>5 DEF TellInv

\* A step of the gate keeps the queues and the store in agreement.
LEMMA TellGateStep ==
  ASSUME GateTypes, TellInv, GateStep
  PROVE  TellInv'
  <1> USE GateAssumption, GateNoneAssumption
  <1>1. CASE StartPairing \/ EndPairing
    BY <1>1, TellStutter DEF StartPairing, EndPairing, tellVars
  <1>2. ASSUME NEW q \in Pairer,
               CompletePairing(q) \/ AddFails(q) \/ ResetPairing(q)
        PROVE  TellInv'
    BY <1>2, TellStutter
       DEF CompletePairing, AddFails, ResetPairing, tellVars
  <1>3. ASSUME NEW q \in Pairer, NEW d \in Device, NEW t \in Token,
               AddDevice(q, d, t) \/ AddForgets(q, d, t)
        PROVE  TellInv'
    <2>1. /\ d \notin minted /\ minted' = minted \cup {d}
          /\ UNCHANGED <<op, events, crossed>> /\ lost \subseteq lost'
          /\ \A c \in Device \ lost' : c # d => file'[c] = file[c]
      <3>1. CASE AddDevice(q, d, t)
        BY <3>1 DEF AddDevice, history, GateTypes
      <3>2. CASE AddForgets(q, d, t)
        BY <3>2 DEF AddForgets
      <3> QED BY <1>3, <3>1, <3>2
    <2>2. events[d] = <<>> /\ \A o \in Op : ~Owes(o, d)
      BY <2>1 DEF TellInv, Owes
    <2>3. ASSUME NEW c \in Device \ (lost' \cup crossed')
          PROVE  Telling(c)'
      <3>1. CASE c = d
        BY <2>1, <2>2, <3>1, TellsNothing DEF Telling, Owes
      <3>2. CASE c # d
        <4>1. Telling(c) /\ file'[c] = file[c]
          BY <2>1, <2>3, <3>2 DEF TellInv
        <4> QED BY <2>1, <4>1 DEF Telling, Owes
      <3> QED BY <3>1, <3>2
    <2> QED BY <2>1, <2>3 DEF TellInv
  <1>4. ASSUME NEW o \in Op, Enqueue(o) PROVE TellInv'
    <2> DEFINE d == op[o].device
    <2>1. d \in Device /\ op[o].event \in Event
      BY <1>4, OpShape DEF Enqueue, GateTypes
    <2>2. /\ op[o].pc = "enqueue" /\ op'[o].pc = "idle"
          /\ \A p \in Op : p # o => op'[p] = op[p]
          /\ events' = [events EXCEPT ![d] = Append(events[d], op[o].event)]
          /\ UNCHANGED <<file, minted, lost, crossed>>
      BY <1>4 DEF Enqueue, GateTypes, Idle, history
    <2>3. ASSUME NEW c \in Device \ (lost \cup crossed) PROVE Telling(c)'
      <3>0. Telling(c)
        BY <2>3 DEF TellInv
      <3>1. CASE c = d
        <4>1. Owes(o, c)
          BY <2>2, <3>1 DEF Owes
        <4>2. \A p \in Op : p = o \/ ~Owes(p, c)
          BY <3>0, <4>1 DEF Telling
        <4>3. \A p \in Op : ~Owes(p, c)'
          BY <2>2, <4>2 DEF Owes
        <4>4. Tells(Append(events[c], op[o].event), file[c])
          BY <3>0, <4>1 DEF Telling
        <4>5. events'[c] = Append(events[c], op[o].event)
          BY <2>1, <2>2, <3>1 DEF GateTypes
        <4>6. Tells(events'[c], file'[c])
          BY <2>2, <4>4, <4>5
        <4> QED BY <4>3, <4>6 DEF Telling
      <3>2. CASE c # d
        <4>1. \A p \in Op : Owes(p, c)' <=> Owes(p, c)
          BY <2>2, <3>2 DEF Owes
        <4>2. \A p \in Op : Owes(p, c) => op'[p] = op[p]
          BY <2>2, <3>2 DEF Owes
        <4>3. file'[c] = file[c] /\ events'[c] = events[c]
          BY <2>1, <2>2, <2>3, <3>2 DEF GateTypes
        <4> QED BY <3>0, <4>1, <4>2, <4>3 DEF Telling
      <3> QED BY <3>1, <3>2
    <2>4. \A c \in Device : events'[c] # <<>> => c \in minted
      BY <2>1, <2>2 DEF TellInv, GateTypes
    <2>5. \A p \in Op : op'[p].pc # "idle" => op'[p].device \in minted
      BY <2>2 DEF TellInv
    <2> QED BY <2>2, <2>3, <2>4, <2>5 DEF TellInv
  <1>5. ASSUME NEW o \in Op, NEW d \in minted,
               op[o].pc # "enqueue",
               \/ op' = [op EXCEPT ![o] = Idle]
               \/ \E next \in {"rotate", "remove"} :
                    op' = [op EXCEPT ![o] = [pc |-> next, device |-> d]],
               UNCHANGED <<file, minted, events, history>>
        PROVE  TellInv'
    <2>1. /\ op'[o].pc # "enqueue"
          /\ op'[o].pc # "idle" => op'[o].device \in minted
          /\ \A p \in Op : p # o => op'[p] = op[p]
      BY <1>5 DEF GateTypes, Idle
    <2>2. \A c \in Device, p \in Op :
            (Owes(p, c)' <=> Owes(p, c)) /\ (Owes(p, c) => op'[p] = op[p])
      BY <1>5, <2>1 DEF Owes
    <2>3. \A c \in Device : Telling(c) => Telling(c)'
      BY <1>5, <2>2 DEF Telling
    <2> QED BY <1>5, <2>1, <2>3 DEF TellInv, history
  <1>6. ASSUME NEW o \in Op, Vanished(o) PROVE TellInv'
    <2>1. op[o].device \in minted
      BY <1>6 DEF Vanished, TellInv
    <2> QED BY <1>5, <1>6, <2>1 DEF Vanished
  <1>7. ASSUME NEW o \in Op, NEW d \in Device,
               NEW next \in {"rotate", "remove"}, LookUp(o, d, next)
        PROVE  TellInv'
    <2>1. d \in minted
      BY <1>7 DEF LookUp, GateTypes
    <2> QED BY <1>5, <1>7, <2>1 DEF LookUp
  <1>8. ASSUME NEW o \in Op, Revoke(o) PROVE TellInv'
    <2> DEFINE d == op[o].device
               e == [type |-> "revoked"]
    <2>1. d \in minted /\ d \in Device
      BY <1>8 DEF Revoke, TellInv, GateTypes
    <2>2. /\ op[o].pc = "remove" /\ Changes(o, d, None, e)
          /\ UNCHANGED <<minted, events>>
      BY <1>8 DEF Revoke
    <2>3. e \in Event /\ e.type = "revoked" /\ events[d] \in Seq(Event)
      BY <2>1 DEF Event, GateTypes
    <2> HIDE DEF d, e
    <2>4. /\ \A c \in Device : c # d => file'[c] = file[c]
          /\ lost \subseteq lost'
          /\ d \notin lost' => file'[d] = None
      BY <2>1, <2>2 DEF Changes, Save, GateTypes
    <2>5. Tells(Append(events[d], e), None)
      BY <2>3, TellsRevoked
    <2> QED BY <2>1, <2>2, <2>3, <2>4, <2>5, TellChange
  <1>9. ASSUME NEW o \in Op, NEW d \in Device, NEW tier \in Tier,
               SetTier(o, d, tier)
        PROVE  TellInv'
    <2> DEFINE r == [file[d] EXCEPT !.tier = tier]
               e == [type |-> "tier_changed"]
    <2>1. /\ op[o].pc = "idle" /\ file[d] # None
          /\ Changes(o, d, r, e) /\ UNCHANGED <<minted, events>>
      BY <1>9 DEF SetTier
    <2>2. file[d] \in Record /\ d \in minted /\ events[d] \in Seq(Event)
      BY <2>1 DEF GateTypes
    <2>3. r \in Record /\ r.token = file[d].token
      BY <2>2, RecordShape
    <2>4. e \in Event /\ e.type = "tier_changed"
      BY DEF Event
    <2> HIDE DEF r, e
    <2>5. /\ \A c \in Device : c # d => file'[c] = file[c]
          /\ lost \subseteq lost'
          /\ d \notin lost' => file'[d] = r
      BY <2>1 DEF Changes, Save, GateTypes
    <2>6. Tells(events[d], file[d]) => Tells(Append(events[d], e), r)
      BY <2>1, <2>2, <2>3, <2>4, TellsTier
    <2> QED BY <2>1, <2>2, <2>4, <2>5, <2>6, TellChange
  <1>10. ASSUME NEW o \in Op, NEW t \in Token, RotateToken(o, t)
         PROVE  TellInv'
    <2> DEFINE d == op[o].device
               r == [file[d] EXCEPT !.token = t]
               e == [type |-> "token_rotated", token |-> t]
    <2>1. d \in minted /\ d \in Device
      BY <1>10 DEF RotateToken, TellInv, GateTypes
    <2>2. /\ op[o].pc = "rotate" /\ file[d] # None
          /\ Changes(o, d, r, e) /\ UNCHANGED <<minted, events>>
      BY <1>10 DEF RotateToken
    <2>3. file[d] \in Record /\ events[d] \in Seq(Event)
      BY <2>1, <2>2 DEF GateTypes
    <2>4. r \in Record /\ r.token = t
      BY <2>3, RecordShape
    <2>5. e \in Event /\ e.type = "token_rotated" /\ e.token = t
      BY DEF Event
    <2> HIDE DEF r, e, d
    <2>6. /\ \A c \in Device : c # d => file'[c] = file[c]
          /\ lost \subseteq lost'
          /\ d \notin lost' => file'[d] = r
      BY <2>1, <2>2 DEF Changes, Save, GateTypes
    <2>7. Tells(Append(events[d], e), r)
      BY <2>3, <2>4, <2>5, TellsRotated
    <2> QED BY <2>1, <2>2, <2>5, <2>6, <2>7, TellChange
  <1> QED BY <1>1, <1>2, <1>3, <1>4, <1>6, <1>7, <1>8, <1>9, <1>10
          DEF GateStep

\* A request's step consumes at most the events of one device; the event that
\* is still owed then comes first.
LEMMA TellRequestStep ==
  ASSUME TypeOK, TellInv, NEW r \in Req, RequestStep(r)
  PROVE  TellInv'
  <1>1. UNCHANGED <<file, minted, op, lost, crossed>>
    BY RequestKeepsGate
  <1>2. \A d \in Device : events'[d] = events[d] \/ events'[d] = <<>>
    <2>1. CASE Respond(r)
      BY <2>1, TypeParts DEF Respond, Consume, GateTypes
    <2>2. CASE ~Respond(r)
      BY <2>2 DEF RequestStep, CacheHit, CacheMiss, GateFinds, GateTouches,
                  Verified, Refused, gateVars
    <2> QED BY <2>1, <2>2
  <1>3. ASSUME NEW d \in Device \ (lost \cup crossed) PROVE Telling(d)'
    <2>0. Telling(d)
      BY <1>3 DEF TellInv
    <2>1. CASE events'[d] = events[d]
      BY <1>1, <2>0, <2>1 DEF Telling, Owes
    <2>2. CASE events'[d] = <<>>
      <3>1. ASSUME NEW o \in Op, Owes(o, d)
            PROVE  Tells(Append(<<>>, op[o].event), file[d])
        <4>1. op[o].event \in Event /\ events[d] \in Seq(Event)
          BY <3>1, OpShape, TypeParts DEF Owes, GateTypes
        <4>2. Tells(Append(events[d], op[o].event), file[d])
          BY <2>0, <3>1 DEF Telling
        <4> QED BY <4>1, <4>2, TellsAlone
      <3> QED BY <1>1, <2>0, <2>2, <3>1, TellsNothing DEF Telling, Owes
    <2> QED BY <1>2, <2>1, <2>2
  <1> QED BY <1>1, <1>2, <1>3 DEF TellInv

\* store.update and enqueue_event run under two locks (core.rs), so a client
\* that follows its events may end with something else than the store holds;
\* but, however many operations run, consume and restart, only where a change
\* was lost in a failed write, or the device was changed again while the event
\* of the change before was still to be queued.
THEOREM EventsTheorem == Spec => []EventsUnlessCrossed
  <1>1. Init => TellInv
    <2> SUFFICES ASSUME Init PROVE TellInv
      OBVIOUS
    <2>1. /\ \A d \in Device : events[d] = <<>>
          /\ \A o \in Op : op[o].pc = "idle"
      BY DEF Init, GateInit, Idle
    <2> QED BY <2>1, TellsNothing DEF TellInv, Telling, Owes
  <1>2. TypeOK /\ TellInv /\ [Next]_vars => TellInv'
    <2> SUFFICES ASSUME TypeOK, TellInv, [Next]_vars PROVE TellInv'
      OBVIOUS
    <2>1. CASE GateStep
      BY <2>1, TellGateStep, TypeParts
    <2>2. ASSUME NEW r \in Req, RequestStep(r) PROVE TellInv'
      BY <2>2, TellRequestStep
    <2>3. CASE Tick \/ UNCHANGED vars
               \/ \E r \in Req, t \in Token : Request(r, t)
      BY <2>3, TellStutter DEF Tick, Request, vars, gateVars, tellVars
    <2>4. CASE Restart
      <3>1. /\ \A d \in Device : events'[d] = <<>>
            /\ \A o \in Op : op'[o].pc = "idle"
        BY <2>4 DEF Restart, GateRestart, Idle
      <3> QED BY <3>1, TellsNothing DEF TellInv, Telling, Owes
    <2> QED BY <2>1, <2>2, <2>3, <2>4 DEF Next
  <1>3. TellInv => EventsUnlessCrossed
    BY DEF TellInv, Telling, Tells, EventsUnlessCrossed, Told, TellsTheStore
  <1> QED BY <1>1, <1>2, <1>3, GatewayTyped, PTL DEF Spec
=============================================================================
