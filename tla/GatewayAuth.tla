----------------------------- MODULE GatewayAuth -----------------------------
(***************************************************************************)
(* The gateway's device tier in front of DeviceGate: verify_bearer with    *)
(* its token cache (auth/mod.rs, auth/token_cache.rs), the call of         *)
(* device_gate.verify it makes on a miss, and the layer that forwards a    *)
(* device's pending events on the way out (middleware/events.rs).          *)
(*                                                                         *)
(* Nothing tells the cache of a revocation, a rotation or a change of      *)
(* tier.  A verify call ends by its timeout; the entry is made when its    *)
(* reply arrives.  Clients are external: any token that was ever issued    *)
(* may be presented at any time.                                           *)
(***************************************************************************)
EXTENDS DeviceGate

CONSTANTS
    Req,       \* concurrent requests
    TokenTtl,  \* TOKEN_TTL, in ticks
    CallTime,  \* timeout of a call to the device gate, in ticks
    MaxAge     \* bound: the time since a record stood saturates here

ASSUME GatewayAssumption ==
    /\ TokenTtl \in Nat /\ CallTime \in Nat
    /\ MaxAge \in Nat /\ TokenTtl + CallTime < MaxAge

VARIABLES
    req,    \* each request: where it is, its token, the record it found
    timer,  \* ticks left of its verify call
    cache,  \* TokenCache: per token a device, a tier and the ticks left
    age     \* ticks since a token stood in the file with a tier (history)

gatewayVars == <<req, timer, cache>>
vars == <<gateVars, gatewayVars, age>>

\* The records of a device list, as pairs of token and tier.
Standing(f) == {<<f[d].token, f[d].tier>> : d \in {e \in Device : f[e] # None}}

Init ==
    /\ GateInit
    /\ req = [r \in Req |-> Idle]
    /\ timer = [r \in Req |-> 0]
    /\ cache = [t \in Token |-> None]
    /\ age = [p \in Token \X Tier |->
                IF p \in Standing(Stored) THEN 0 ELSE MaxAge]

\* A record that stands has no age; one that just ceased to starts at 0.
Observe == age' = [p \in Token \X Tier |->
                     IF p \in Standing(file') \cup Standing(file)
                     THEN 0 ELSE age[p]]

-----------------------------------------------------------------------------
(* A request                                                               *)

\* A request arrives with a bearer token.
Request(r, t) ==
    /\ req[r].pc = "idle" /\ t \in issued
    /\ req' = [req EXCEPT ![r] = [pc |-> "lookup", token |-> t]]
    /\ UNCHANGED <<gateVars, timer, cache, age>>

\* Mutant of Live: the slot's age is not looked at.
Live_Expired(t) == cache[t] # None

\* TokenCache::get has a slot that is younger than TOKEN_TTL.
Live(t) == cache[t] # None /\ cache[t].left > 0

\* A live slot: the request is let through with what it says.
CacheHit(r) ==
    /\ req[r].pc = "lookup" /\ Live(req[r].token)
    /\ req' = [req EXCEPT ![r] =
                 [pc |-> "accepted", token |-> @.token,
                  device |-> cache[@.token].device,
                  tier |-> cache[@.token].tier]]
    /\ UNCHANGED <<gateVars, timer, cache, age>>

\* It finds none (a stale slot is evicted): device_gate.verify is called.
CacheMiss(r) ==
    /\ req[r].pc = "lookup" /\ ~Live(req[r].token)
    /\ cache' = [cache EXCEPT ![req[r].token] = None]
    /\ req' = [req EXCEPT ![r].pc = "calling"]
    /\ timer' = [timer EXCEPT ![r] = CallTime]
    /\ UNCHANGED <<gateVars, age>>

\* The gate's verify, first half: find_by_token, which finds nothing in a
\* file it cannot read.
GateFinds(r) ==
    /\ req[r].pc = "calling"
    /\ \E d \in {FindByToken(req[r].token)} \cup
                IF ReadMayFail THEN {None} ELSE {} :
       req' = [req EXCEPT ![r] =
                 IF d = None THEN [pc |-> "invalid", token |-> @.token]
                 ELSE [pc |-> "touching", token |-> @.token, device |-> d,
                       tier |-> file[d].tier]]
    /\ UNCHANGED <<gateVars, timer, cache, age>>

\* Second half: touch, with the reply on its way.
GateTouches(r) ==
    /\ req[r].pc = "touching"
    /\ Touch(req[r].device, [token |-> req[r].token, tier |-> req[r].tier])
    /\ req' = [req EXCEPT ![r].pc = "verified"]
    /\ Observe
    /\ UNCHANGED <<minted, issued, code, windows, lock, pair, paired,
                   op, ops, events, history, timer, cache>>

\* TokenCache::insert, with a TTL that starts now.
Insert(t, d, tier) ==
    cache' = [cache EXCEPT ![t] = [device |-> d, tier |-> tier,
                                   left |-> TokenTtl]]

\* The reply arrives: the record is cached and the request let through.
Verified(r) ==
    /\ req[r].pc = "verified"
    /\ Insert(req[r].token, req[r].device, req[r].tier)
    /\ req' = [req EXCEPT ![r].pc = "accepted"]
    /\ timer' = [timer EXCEPT ![r] = 0]
    /\ UNCHANGED <<gateVars, age>>

Pending == {"calling", "touching", "verified", "invalid"}

\* 401 on the gate's word, 503 when the call failed or took too long: the
\* request ends, and nothing is cached.
Refused(r) ==
    /\ \/ req[r].pc = "invalid"
       \/ req[r].pc \in Pending /\ timer[r] = 0
    /\ req' = [req EXCEPT ![r] = Idle]
    /\ timer' = [timer EXCEPT ![r] = 0]
    /\ UNCHANGED <<gateVars, cache, age>>

\* The handler has run; the device's events are consumed and leave with the
\* response, unless the call does not get through.
Respond(r) ==
    /\ req[r].pc = "accepted"
    /\ Consume(req[r].device) \/ UNCHANGED events
    /\ req' = [req EXCEPT ![r] = Idle]
    /\ UNCHANGED <<file, minted, issued, code, windows, lock, pair,
                   paired, op, ops, history, timer, cache, age>>

-----------------------------------------------------------------------------
\* Time passes, never past the end of a verify call.
Tick ==
    /\ \A r \in Req : req[r].pc \in Pending => timer[r] > 0
    /\ timer' = [r \in Req |-> Less(timer[r])]
    /\ cache' = [t \in Token |->
                   IF cache[t] = None THEN None
                   ELSE [cache[t] EXCEPT !.left = Less(@)]]
    /\ age' = [p \in Token \X Tier |->
                 IF p \in Standing(file) THEN 0
                 ELSE IF age[p] < MaxAge THEN age[p] + 1 ELSE MaxAge]
    /\ UNCHANGED <<gateVars, req>>

\* A restart of the gate fails the calls it was working on.
Restart ==
    /\ GateRestart
    /\ req' = [r \in Req |-> IF req[r].pc \in Pending THEN Idle ELSE req[r]]
    /\ timer' = [r \in Req |-> 0]
    /\ UNCHANGED <<cache, age>>

RequestStep(r) ==
    \/ CacheHit(r) \/ CacheMiss(r) \/ GateFinds(r) \/ GateTouches(r)
    \/ Verified(r) \/ Refused(r) \/ Respond(r)

Next ==
    \/ GateStep /\ Observe /\ UNCHANGED gatewayVars
    \/ \E r \in Req : RequestStep(r)
    \/ \E r \in Req, t \in Token : Request(r, t)
    \/ Tick \/ Restart

Spec == Init /\ [][Next]_vars

-----------------------------------------------------------------------------
(* Properties                                                              *)

Found == {"touching", "verified", "accepted"}
ReqState ==
    {Idle} \cup [pc : {"lookup", "calling", "invalid"}, token : Token] \cup
    [pc : Found, token : Token, device : Device, tier : Tier]
PairState ==
    {Idle} \cup [pc : {"add", "reset"}, code : 1..MaxWindows]
OpState ==
    {Idle} \cup [pc : {"rotate", "remove"}, device : Device] \cup
    [pc : {"enqueue"}, device : Device, event : Event]

\* Types, and no record carries a token that was not issued or belongs to a
\* device that was not minted.
TypeOK ==
    /\ file \in [Device -> Record \cup {None}]
    /\ minted \in SUBSET Device /\ issued \in SUBSET Token
    /\ \A d \in Device : file[d] # None =>
        d \in minted /\ file[d].token \in issued
    /\ code \in 1..MaxWindows \cup {None}
    /\ windows \in 0..MaxWindows
    /\ lock \in Pairer \cup {None}
    /\ pair \in [Pairer -> PairState]
    /\ paired \in [1..MaxWindows -> Nat]
    /\ op \in [Op -> OpState] /\ ops \in 0..MaxOps
    /\ events \in [Device -> Seq(Event)]
    /\ lost \in SUBSET Device /\ crossed \in SUBSET Device
    /\ req \in [Req -> ReqState]
    /\ timer \in [Req -> 0..CallTime]
    /\ cache \in [Token -> [device : Device, tier : Tier, left : 0..TokenTtl]
                           \cup {None}]
    /\ age \in [Token \X Tier -> 0..MaxAge]

\* verify_bearer lets a request through only with a token and tier that stood
\* in devices.json at most a TTL and a call's timeout ago: a revoked or
\* rotated token, or the tier before a demotion, works no longer than that,
\* whichever verification was under way when it was taken back.
AcceptBounded ==
    [][\A r \in Req :
        req[r].pc # "accepted" /\ req'[r].pc = "accepted" =>
            age[<<req'[r].token, req'[r].tier>>] <= TokenTtl + CallTime]_vars

\* A device that is gone stays gone: no concurrent touch, rotation, change of
\* tier or pairing writes its record back.
RevokedStaysGone ==
    [][\A d \in minted : file[d] = None => file'[d] = None]_vars

\* "One-shot": a code pairs at most one device, whatever calls race for it and
\* wherever the service is restarted.
OneDevicePerCode == \A w \in 1..MaxWindows : paired[w] <= 1

\* What the events queued for d say, followed to their end, is what the store
\* holds: whether d was revoked, and the token of its last rotation.
TellsTheStore(d) ==
    LET q == events[d]
    IN  /\ file[d] = None <=> q[Len(q)].type = "revoked"
        /\ \A i \in 1..Len(q) :
             /\ q[i].type = "token_rotated"
             /\ \A j \in (i + 1)..Len(q) : q[j].type # "token_rotated"
             => file[d] = None \/ file[d].token = q[i].token

Told(d) == events[d] # <<>> /\ \A o \in Op : ~Owes(o, d)

\* "mobile replaces its stored token ..., continues the session", and clears
\* it when revoked: unless a change was lost in a failed write, a client that
\* follows its events ends with the token that works, or with none.
EventsMatchStore == \A d \in Device \ lost : Told(d) => TellsTheStore(d)

\* What the code keeps of that: the store is changed and the event queued
\* under two locks, so it may fail only for a device that was changed again
\* while the event of the change before was not yet queued; operations on
\* other devices, consumed queues and restarts of the gate do no harm.
EventsUnlessCrossed ==
    \A d \in Device \ (lost \cup crossed) : Told(d) => TellsTheStore(d)

\* "Mobile sees the next request return 401" (WYLDE_ENDPOINTS.md:215): a
\* request is let through at once only if its token still stands.
RevokedRefused ==
    [][\A r \in Req :
        req[r].pc = "lookup" /\ req'[r].pc = "accepted" =>
            FindByToken(req[r].token) # None]_vars
=============================================================================
