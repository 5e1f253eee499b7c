----------------------------- MODULE DeviceGate -----------------------------
(***************************************************************************)
(* wylde-device-gate: the pairing window, the device records in            *)
(* devices.json and the per-device event queues (core.rs, store.rs,        *)
(* pipe.rs).  Handlers run concurrently.  The store's lock covers one      *)
(* store operation, which reads the file anew and replaces it in one       *)
(* rename; the pairing lock covers a whole pairing operation; a service    *)
(* method that does several things takes several locks, one after another. *)
(*                                                                         *)
(* Codes, device ids and tokens are drawn at random by the code and are    *)
(* fresh names here.  The action log and last_seen are not kept: no        *)
(* operation depends on them.                                              *)
(***************************************************************************)
EXTENDS Integers, Sequences

CONSTANTS
    Device,      \* device ids that can be minted
    Token,       \* tokens that can be minted
    Tier, ReadOnly,
    Stored,      \* devices.json as the service first finds it
    Pairer,      \* concurrent complete_pairing calls
    Op,          \* concurrent set_tier, rotate_token and revoke calls
    MaxWindows,  \* bound: pairing windows opened
    MaxOps,      \* bound: set_tier, rotate_token and revoke calls
    SaveMayFail, \* whether replacing devices.json may fail
    ReadMayFail, \* whether reading it may fail
    None

ASSUME GateAssumption ==
    /\ ReadOnly \in Tier
    /\ MaxWindows \in Nat /\ MaxOps \in Nat
    /\ SaveMayFail \in BOOLEAN /\ ReadMayFail \in BOOLEAN

Record == [token : Token, tier : Tier]
Event == [type : {"tier_changed", "revoked"}] \cup
         [type : {"token_rotated"}, token : Token]

ASSUME StoredAssumption == Stored \in [Device -> Record \cup {None}]
ASSUME GateNoneAssumption ==
    None \notin Device \cup Token \cup Tier \cup Pairer \cup Nat \cup Record

VARIABLES
    file,     \* devices.json: the record of each device, or None
    minted,   \* device ids handed out so far
    issued,   \* tokens handed out so far
    code,     \* the open window's code (its number), or None
    windows,  \* windows opened so far
    lock,     \* the complete_pairing call that holds the pairing lock
    pair,     \* each such call: where it is, and the code it matched
    paired,   \* devices added under each code (history)
    op,       \* each GUI operation: what is left of it to do
    ops,      \* such operations begun so far
    events,   \* pending_events
    lost,     \* devices with a change that was not written (history)
    crossed   \* devices changed while the event of an earlier change was not
              \* yet queued, since the queues were last empty (history)

history == <<lost, crossed>>
gateVars == <<file, minted, issued, code, windows, lock, pair, paired,
              op, ops, events, history>>

Idle == [pc |-> "idle"]

GateInit ==
    /\ file = Stored
    /\ minted = {d \in Device : Stored[d] # None}
    /\ issued = {Stored[d].token : d \in minted}
    /\ code = None /\ windows = 0 /\ lock = None
    /\ pair = [q \in Pairer |-> Idle]
    /\ paired = [w \in 1..MaxWindows |-> 0]
    /\ op = [o \in Op |-> Idle] /\ ops = 0
    /\ events = [d \in Device |-> <<>>]
    /\ lost = {} /\ crossed = {}

\* DeviceStore::save with one record changed: the new list replaces the old
\* one, or the write fails, the old one stays, and the caller is not told.
Save(d, r) ==
    \/ file' = [file EXCEPT ![d] = r] /\ UNCHANGED lost
    \/ SaveMayFail /\ file' = file /\ lost' = lost \cup {d}

-----------------------------------------------------------------------------
(* Pairing                                                                 *)

\* start_pairing: a new code replaces the one before.
StartPairing ==
    /\ lock = None /\ windows < MaxWindows
    /\ windows' = windows + 1
    /\ code' = windows + 1
    /\ UNCHANGED <<file, minted, issued, lock, pair, paired, op, ops, events,
                   history>>

\* cancel_pairing, or the window expires: an expired code is as good as none.
EndPairing ==
    /\ lock = None /\ code # None
    /\ code' = None
    /\ UNCHANGED <<ops, file, minted, issued, windows, lock, pair, paired, op,
                   events, history>>

\* Mutant of CompletePairing: the lock is let go while credentials are
\* checked.
CompletePairing_Unlocked(q) ==
    /\ pair[q].pc = "idle" /\ lock = None /\ code # None
    /\ pair' = [pair EXCEPT ![q] = [pc |-> "add", code |-> code]]
    /\ UNCHANGED <<ops, file, minted, issued, code, windows, lock, paired, op,
                   events, history>>

\* complete_pairing with the right code and credentials takes the pairing
\* lock, which it keeps.  With a wrong one, or none active, nothing changes.
CompletePairing(q) ==
    /\ pair[q].pc = "idle" /\ lock = None /\ code # None
    /\ lock' = q
    /\ pair' = [pair EXCEPT ![q] = [pc |-> "add", code |-> code]]
    /\ UNCHANGED <<ops, file, minted, issued, code, windows, paired, op,
                   events, history>>

\* store.add of a record with a fresh id and token and the lowest tier.
AddDevice(q, d, t) ==
    /\ pair[q].pc = "add"
    /\ d \notin minted /\ t \notin issued
    /\ minted' = minted \cup {d} /\ issued' = issued \cup {t}
    /\ file' = [file EXCEPT ![d] = [token |-> t, tier |-> ReadOnly]]
    /\ paired' = [paired EXCEPT ![pair[q].code] = @ + 1]
    /\ pair' = [pair EXCEPT ![q].pc = "reset"]
    /\ UNCHANGED <<ops, code, windows, lock, op, events, history>>

\* The read fails, which load reports as an empty list: the new device is the
\* only one written.  (The other store operations find nothing in an empty
\* list and leave the file alone.)
AddForgets(q, d, t) ==
    /\ pair[q].pc = "add" /\ ReadMayFail
    /\ d \notin minted /\ t \notin issued
    /\ minted' = minted \cup {d} /\ issued' = issued \cup {t}
    /\ file' = [e \in Device |->
                  IF e = d THEN [token |-> t, tier |-> ReadOnly] ELSE None]
    /\ lost' = lost \cup {e \in Device : file[e] # None}
    /\ paired' = [paired EXCEPT ![pair[q].code] = @ + 1]
    /\ pair' = [pair EXCEPT ![q].pc = "reset"]
    /\ UNCHANGED <<ops, code, windows, lock, op, events, crossed>>

\* The write fails: store_error, and the window stays open.
AddFails(q) ==
    /\ pair[q].pc = "add" /\ SaveMayFail
    /\ pair' = [pair EXCEPT ![q] = Idle]
    /\ lock' = None
    /\ UNCHANGED <<ops, file, minted, issued, code, windows, paired, op,
                   events, history>>

\* The window closes, the lock is released and the reply goes out.
ResetPairing(q) ==
    /\ pair[q].pc = "reset"
    /\ code' = None
    /\ pair' = [pair EXCEPT ![q] = Idle]
    /\ lock' = None
    /\ UNCHANGED <<file, minted, issued, windows, paired, op, ops, events,
                   history>>

-----------------------------------------------------------------------------
(* Tiers, rotation, revocation                                             *)

\* An operation has changed the device's record and not yet said so.
Owes(o, d) == op[o].pc = "enqueue" /\ op[o].device = d

\* Operation o changes d's record and is to queue event e.
Changes(o, d, r, e) ==
    /\ Save(d, r)
    /\ op' = [op EXCEPT ![o] = [pc |-> "enqueue", device |-> d, event |-> e]]
    /\ crossed' = IF \E p \in Op : Owes(p, d) THEN crossed \cup {d} ELSE crossed

\* enqueue_event, the last step of each operation.
Enqueue(o) ==
    /\ op[o].pc = "enqueue"
    /\ events' = [events EXCEPT ![op[o].device] = Append(@, op[o].event)]
    /\ op' = [op EXCEPT ![o] = Idle]
    /\ UNCHANGED <<ops, file, minted, issued, code, windows, lock, pair,
                   paired, history>>

\* set_tier: store.update.  An unknown device is not_found.
SetTier(o, d, tier) ==
    /\ op[o].pc = "idle" /\ file[d] # None /\ ops < MaxOps
    /\ ops' = ops + 1
    /\ Changes(o, d, [file[d] EXCEPT !.tier = tier], [type |-> "tier_changed"])
    /\ UNCHANGED <<minted, issued, code, windows, lock, pair, paired,
                   events>>

\* rotate_token and revoke look the device up first.
LookUp(o, d, next) ==
    /\ op[o].pc = "idle" /\ file[d] # None /\ ops < MaxOps
    /\ ops' = ops + 1
    /\ next \in {"rotate", "remove"}
    /\ op' = [op EXCEPT ![o] = [pc |-> next, device |-> d]]
    /\ UNCHANGED <<file, minted, issued, code, windows, lock, pair,
                   paired, events, history>>

\* By the time of the update the device may be gone, or the file unreadable:
\* not_found after all.
Vanished(o) ==
    /\ op[o].pc \in {"rotate", "remove"}
    /\ file[op[o].device] = None \/ ReadMayFail
    /\ op' = [op EXCEPT ![o] = Idle]
    /\ UNCHANGED <<ops, file, minted, issued, code, windows, lock, pair,
                   paired, events, history>>

\* rotate_token: store.update with a fresh token.
RotateToken(o, t) ==
    /\ op[o].pc = "rotate" /\ t \notin issued
    /\ file[op[o].device] # None
    /\ issued' = issued \cup {t}
    /\ Changes(o, op[o].device, [file[op[o].device] EXCEPT !.token = t],
               [type |-> "token_rotated", token |-> t])
    /\ UNCHANGED <<ops, minted, code, windows, lock, pair, paired, events>>

\* Mutant of Revoke: the event is queued and the record is left.
Revoke_KeepsRecord(o) ==
    /\ op[o].pc = "remove" /\ file[op[o].device] # None
    /\ op' = [op EXCEPT ![o] = [pc |-> "enqueue", device |-> @.device,
                                event |-> [type |-> "revoked"]]]
    /\ UNCHANGED <<ops, file, minted, issued, code, windows, lock, pair,
                   paired, events, history>>

\* revoke: store.remove.
Revoke(o) ==
    /\ op[o].pc = "remove" /\ file[op[o].device] # None
    /\ Changes(o, op[o].device, None, [type |-> "revoked"])
    /\ UNCHANGED <<ops, minted, issued, code, windows, lock, pair, paired,
                   events>>

-----------------------------------------------------------------------------
(* Calls of the gateway, time and restarts                                 *)

\* store.find_by_token: the device that has the token, or None.
FindByToken(t) ==
    IF \E d \in Device : file[d] # None /\ file[d].token = t
    THEN CHOOSE d \in Device : file[d] # None /\ file[d].token = t
    ELSE None

\* Mutant of Touch: the record found by the lookup is written back.
Touch_WritesBack(d, r) == file' = [file EXCEPT ![d] = r]

\* store.touch reads the file anew: a record that is gone stays gone, and
\* one that was changed since keeps the change (r is what the lookup saw).
Touch(d, r) == file' = IF file[d] = None THEN file
                       ELSE [file EXCEPT ![d] = @]

\* consume_pending_events: the queue is handed over and removed.
Consume(d) == events' = [events EXCEPT ![d] = <<>>]

Less(n) == IF n = 0 THEN 0 ELSE n - 1

\* The service goes down and comes back: what it had in memory is gone.
GateRestart ==
    /\ code' = None /\ lock' = None
    /\ pair' = [q \in Pairer |-> Idle]
    /\ op' = [o \in Op |-> Idle]
    /\ events' = [d \in Device |-> <<>>]
    /\ crossed' = {}
    /\ UNCHANGED <<ops, file, minted, issued, windows, paired, lost>>

GateStep ==
    \/ StartPairing \/ EndPairing
    \/ \E q \in Pairer :
        \/ CompletePairing(q) \/ AddFails(q) \/ ResetPairing(q)
        \/ \E d \in Device, t \in Token :
            AddDevice(q, d, t) \/ AddForgets(q, d, t)
    \/ \E o \in Op :
        \/ Enqueue(o) \/ Vanished(o) \/ Revoke(o)
        \/ \E d \in Device, tier \in Tier : SetTier(o, d, tier)
        \/ \E d \in Device, next \in {"rotate", "remove"} : LookUp(o, d, next)
        \/ \E t \in Token : RotateToken(o, t)
=============================================================================
