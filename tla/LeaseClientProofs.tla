-------------------------- MODULE LeaseClientProofs --------------------------
(***************************************************************************)
(* What the lease clients guarantee for any number of calls and any TTL,   *)
(* whatever is lost, late or restarted.                                    *)
(***************************************************************************)
EXTENDS LeaseClient, TLAPS

\* Every step keeps the types.
LEMMA TypeStep == TypeOK /\ [Next]_vars => TypeOK'
  <1> SUFFICES ASSUME TypeOK, [Next]_vars PROVE TypeOK'
    OBVIOUS
  <1> USE CallAssumption, TTLAssumption DEF broker, guard, ollama
  <1>1. ASSUME NEW c \in Call,
               \/ NotPulled(c) \/ ReplyRefused(c) \/ Unreachable(c)
               \/ OtherError(c) \/ FinishUnleased(c)
        PROVE  TypeOK'
    BY <1>1 DEF TypeOK, NotPulled, ReplyRefused, Unreachable, OtherError,
                FinishUnleased
  <1>2. ASSUME NEW c \in Call, LookUpResidency(c) \/ Acquire(c)
         PROVE  TypeOK'
    <2>1. CASE LookUpResidency(c)
      <3>1. needsLoad' \in [Call -> BOOLEAN]
        BY <2>1 DEF TypeOK, LookUpResidency
      <3> QED BY <2>1, <3>1 DEF TypeOK, LookUpResidency
    <2>2. CASE Acquire(c)
      BY <2>2 DEF TypeOK, Acquire
    <2> QED BY <1>2, <2>1, <2>2
  <1>3. ASSUME NEW c \in Call, ReplyGranted(c)
         PROVE  TypeOK'
    BY <1>3 DEF TypeOK, ReplyGranted
  <1>4. ASSUME NEW c \in Call, RejectSpilled(c) \/ DropGuard(c)
        PROVE  TypeOK'
    BY <1>4 DEF TypeOK, RejectSpilled, DropGuard, LetGo
  <1>5. ASSUME NEW c \in Call,
               TaskStarts(c) \/ HeartbeatSent(c) \/ HeartbeatReturns(c)
        PROVE  TypeOK'
    BY <1>5 DEF TypeOK, TaskStarts, HeartbeatSent, HeartbeatReturns
  <1>6. ASSUME NEW c \in Call, BrokerGrant(c) \/ BrokerRefuse(c)
        PROVE  TypeOK'
    <2>1. TTL \in -1..TTL
      OBVIOUS
    <2> QED BY <1>6, <2>1 DEF TypeOK, BrokerGrant, BrokerRefuse
  <1>7. ASSUME NEW c \in Call, Delivered(c)
         PROVE  TypeOK'
    <2>1. TTL \in -1..TTL
      OBVIOUS
    <2>2. CASE BrokerHeartbeat(c)
      BY <2>1, <2>2 DEF TypeOK, BrokerHeartbeat
    <2>3. CASE BrokerRelease(c) \/ ReleaseFails(c)
      BY <2>3 DEF TypeOK, BrokerRelease, ReleaseFails
    <2> QED BY <1>7, <2>2, <2>3 DEF Delivered
  <1>8. CASE ServiceCrash
    BY <1>8 DEF TypeOK, ServiceCrash
  <1>9. CASE Tick
    <2>1. lease' \in [Call -> -1..TTL \cup {None}]
      BY <1>9 DEF TypeOK, Tick
    <2> QED BY <1>9, <2>1 DEF TypeOK, Tick
  <1>10. CASE Reap
    BY <1>10 DEF TypeOK, Reap
  <1>11. CASE BrokerRestart
    BY <1>11 DEF TypeOK, BrokerRestart
  <1>12. CASE OllamaLoads \/ OllamaUnloads
    BY <1>12 DEF TypeOK, OllamaLoads, OllamaUnloads
  <1>13. CASE UNCHANGED vars
    BY <1>13 DEF TypeOK, vars
  <1> QED
    BY <1>1, <1>2, <1>3, <1>4, <1>5, <1>6, <1>7, <1>8, <1>9, <1>10, <1>11,
       <1>12, <1>13 DEF Next

\* The client's and the reduced broker's state keep their types: a lease's
\* remaining time never leaves -1..TTL.
THEOREM ClientTypes == Spec => []TypeOK
  <1>1. Init => TypeOK
    BY CallAssumption, TTLAssumption DEF Init, TypeOK
  <1> QED
    BY <1>1, TypeStep, PTL DEF Spec

-----------------------------------------------------------------------------
(* Client and broker implement the ledger                                  *)

\* A call that is not past its look-ups has not sent its reserve.
Early(c) == phase[c] \in {"idle", "admitting"}
IdleFresh == \A c \in Call : Early(c) => reserve[c] = "none"

\* A FIM call that found the model loaded, and had it unloaded by nobody, is
\* right.
FimKnows ==
    \A c \in Fim : Deciding(c) /\ ~needsLoad[c] /\ c \notin outdated => loaded

\* The inductive invariant.
ClientInv == TypeOK /\ IdleFresh /\ FimKnows

\* A step that reads no residency and unloads nothing keeps what is known.
LEMMA QuietStep ==
    ASSUME TypeOK, IdleFresh, FimKnows,
           UNCHANGED <<needsLoad, outdated>>, loaded => loaded',
           \A c \in Call : /\ Early(c)' =>
                                Early(c) /\ reserve'[c] = reserve[c]
                           /\ Deciding(c)' => Deciding(c)
    PROVE  IdleFresh' /\ FimKnows'
  BY CallAssumption DEF IdleFresh, FimKnows

\* Every step keeps ClientInv.
LEMMA InvStep == ClientInv /\ [Next]_vars => ClientInv'
  <1> SUFFICES ASSUME ClientInv, [Next]_vars PROVE IdleFresh' /\ FimKnows'
    BY TypeStep DEF ClientInv
  <1> USE CallAssumption DEF broker, guard, ollama, Deciding, Early
  <1>0. TypeOK /\ IdleFresh /\ FimKnows
    BY DEF ClientInv
  <1>1. ASSUME NEW c \in Call,
               \/ NotPulled(c) \/ ReplyRefused(c) \/ Unreachable(c)
               \/ OtherError(c) \/ FinishUnleased(c) \/ ReplyGranted(c)
        PROVE  IdleFresh' /\ FimKnows'
    <2>1. /\ UNCHANGED <<needsLoad, ollama, reserve>>
          /\ \A d \in Call : /\ Early(d)' => Early(d)
                             /\ Deciding(d)' => Deciding(d)
      BY <1>0, <1>1 DEF TypeOK, NotPulled, ReplyRefused, Unreachable,
                        OtherError, FinishUnleased, ReplyGranted
    <2> QED BY <1>0, <2>1, QuietStep
  <1>2. ASSUME NEW c \in Call, RejectSpilled(c) \/ DropGuard(c)
        PROVE  IdleFresh' /\ FimKnows'
    <2>1. /\ UNCHANGED <<needsLoad, ollama, reserve>>
          /\ \A d \in Call : /\ Early(d)' => Early(d)
                             /\ Deciding(d)' => Deciding(d)
      BY <1>0, <1>2 DEF TypeOK, RejectSpilled, DropGuard
    <2> QED BY <1>0, <2>1, QuietStep
  <1>3. ASSUME NEW c \in Call, LookUpResidency(c) \/ Acquire(c)
        PROVE  IdleFresh' /\ FimKnows'
    <2>1. IdleFresh'
      BY <1>0, <1>3 DEF TypeOK, IdleFresh, LookUpResidency, Acquire
    <2>2. CASE LookUpResidency(c)
      <3>1. PICK known \in BOOLEAN :
              needsLoad' = [needsLoad EXCEPT ![c] = c \in Fim
                                                    /\ ~(known /\ loaded)]
        BY <2>2 DEF LookUpResidency
      <3>2. needsLoad'[c] = (c \in Fim /\ ~(known /\ loaded))
        BY <1>0, <3>1 DEF TypeOK
      <3> QED BY <1>0, <2>1, <2>2, <3>1, <3>2
              DEF TypeOK, FimKnows, LookUpResidency
    <2>3. CASE Acquire(c)
      BY <1>0, <2>1, <2>3 DEF TypeOK, FimKnows, Acquire
    <2> QED BY <1>3, <2>2, <2>3
  <1>4. ASSUME NEW c \in Call,
               \/ TaskStarts(c) \/ HeartbeatSent(c) \/ HeartbeatReturns(c)
               \/ Delivered(c)
        PROVE  IdleFresh' /\ FimKnows'
    <2>1. UNCHANGED <<needsLoad, ollama, reserve, phase>>
      BY <1>4 DEF TaskStarts, HeartbeatSent, HeartbeatReturns, Delivered,
                  BrokerHeartbeat, BrokerRelease, ReleaseFails
    <2> QED BY <1>0, <2>1, QuietStep
  <1>5. ASSUME NEW c \in Call, BrokerGrant(c) \/ BrokerRefuse(c)
        PROVE  IdleFresh' /\ FimKnows'
    <2>1. /\ UNCHANGED <<needsLoad, ollama, phase>>
          /\ ~Early(c)
          /\ \A d \in Call \ {c} : reserve'[d] = reserve[d]
      BY <1>0, <1>5 DEF TypeOK, IdleFresh, BrokerGrant, BrokerRefuse
    <2> QED BY <1>0, <2>1, QuietStep
  <1>6. CASE ServiceCrash
    <2>1. /\ UNCHANGED <<needsLoad, ollama, reserve>>
          /\ \A d \in Call : /\ Early(d)' => Early(d)
                             /\ ~Deciding(d)'
      BY <1>6 DEF ServiceCrash
    <2> QED BY <1>0, <2>1, QuietStep
  <1>7. CASE Tick \/ Reap \/ OllamaLoads
    BY <1>0, <1>7, QuietStep DEF Tick, Reap, OllamaLoads
  <1>8. CASE BrokerRestart
    <2>1. /\ UNCHANGED <<needsLoad, ollama, phase>>
          /\ \A d \in Call : reserve[d] = "none" => reserve'[d] = "none"
      BY <1>8 DEF BrokerRestart
    <2> QED BY <1>0, <2>1, QuietStep DEF IdleFresh
  <1>9. CASE OllamaUnloads
    BY <1>0, <1>9 DEF OllamaUnloads, IdleFresh, FimKnows
  <1>10. CASE UNCHANGED vars
    BY <1>0, <1>10, QuietStep DEF vars
  <1> QED
    BY <1>1, <1>2, <1>3, <1>4, <1>5, <1>6, <1>7, <1>8, <1>9, <1>10 DEF Next

\* So it holds throughout.
LEMMA ClientInvariant == Spec => []ClientInv
  <1>1. Init => ClientInv
    BY CallAssumption, TTLAssumption
       DEF Init, ClientInv, TypeOK, IdleFresh, FimKnows, Deciding, Early
  <1> QED
    BY <1>1, InvStep, PTL DEF Spec

\* A step that only ends leases is the ledger's End.
LEMMA EndStep ==
    ASSUME UNCHANGED reserve,
           \A c \in Call : lease[c] = None => lease'[c] = None
    PROVE  Ledger!Next
  <1> DEFINE Up == {c \in Call : lease[c] # None}
             Gone == {c \in Call : lease[c] # None /\ lease'[c] = None}
  <1>1. Gone \in SUBSET Up /\ Up' = Up \ Gone
    OBVIOUS
  <1>2. Ledger!End
    BY <1>1 DEF Ledger!End
  <1> QED
    BY <1>2 DEF Ledger!Next

\* Every step of client and broker is a step of the ledger, or invisible.
LEMMA LedgerStep == ClientInv /\ [Next]_vars => [Ledger!Next]_(Ledger!vars)
  <1> SUFFICES ASSUME ClientInv, [Next]_vars
               PROVE  Ledger!Next \/ UNCHANGED Ledger!vars
    OBVIOUS
  <1>0. TypeOK /\ IdleFresh
    BY DEF ClientInv
  <1> USE CallAssumption, TTLAssumption DEF broker, guard, ollama
  <1> DEFINE Sent == {c \in Call : reserve[c] \in {"sent", "lost"}}
             Done == {c \in Call : reserve[c] \in {"granted", "spilled",
                                                   "refused"}}
             Named == [c \in Call |-> IF reserve[c] \in {"granted", "spilled"}
                                      THEN c ELSE None]
             Up == {c \in Call : lease[c] # None}
  <1>1. ASSUME UNCHANGED <<reserve, lease>> PROVE UNCHANGED Ledger!vars
    BY <1>1 DEF Ledger!vars
  <1>2. ASSUME NEW c \in Call,
               \/ NotPulled(c) \/ LookUpResidency(c) \/ ReplyGranted(c)
               \/ ReplyRefused(c) \/ Unreachable(c) \/ OtherError(c)
               \/ FinishUnleased(c) \/ RejectSpilled(c) \/ DropGuard(c)
               \/ TaskStarts(c) \/ HeartbeatSent(c) \/ HeartbeatReturns(c)
        PROVE  UNCHANGED <<reserve, lease>>
    BY <1>2 DEF NotPulled, LookUpResidency, ReplyGranted, ReplyRefused,
                Unreachable, OtherError, FinishUnleased, RejectSpilled,
                DropGuard, TaskStarts, HeartbeatSent, HeartbeatReturns
  <1>3. CASE ServiceCrash \/ OllamaLoads \/ OllamaUnloads \/ UNCHANGED vars
    BY <1>1, <1>3 DEF ServiceCrash, OllamaLoads, OllamaUnloads, vars
  <1>4. ASSUME NEW c \in Call, Acquire(c) PROVE Ledger!Next
    <2>1. /\ reserve[c] = "none" /\ lease' = lease
          /\ reserve' = [reserve EXCEPT ![c] = "sent"]
          /\ DOMAIN reserve = Call
      BY <1>0, <1>4 DEF TypeOK, IdleFresh, Early, Acquire
    <2>2. c \notin Sent \cup Done
      BY <2>1
    <2>3. Sent' = Sent \cup {c}
      BY <2>1
    <2>4. Done' = Done /\ Up' = Up
      BY <2>1
    <2>5. Named' = Named
      BY <2>1
    <2>6. Ledger!Open(c)
      BY <2>2, <2>3, <2>4, <2>5 DEF Ledger!Open
    <2> QED BY <2>6 DEF Ledger!Next
  <1>5. ASSUME NEW c \in Call, BrokerGrant(c) PROVE Ledger!Next
    <2>1. PICK r \in {"granted", "spilled"} :
            reserve' = [reserve EXCEPT ![c] = r]
      BY <1>5 DEF BrokerGrant
    <2>2. /\ reserve[c] = "sent" /\ DOMAIN reserve = Call
          /\ lease' = [lease EXCEPT ![c] = TTL] /\ DOMAIN lease = Call
      BY <1>0, <1>5 DEF TypeOK, BrokerGrant
    <2>3. c \in Sent /\ Sent' = Sent \ {c}
      BY <2>1, <2>2
    <2>4. Done' = Done \cup {c}
      BY <2>1, <2>2
    <2>5. Named' = [Named EXCEPT ![c] = c]
      BY <2>1, <2>2
    <2>6. TTL # None
      OBVIOUS
    <2>7. Up' = Up \cup {c}
      BY <2>2, <2>6
    <2>8. Ledger!Grant(c)
      BY <2>3, <2>4, <2>5, <2>7 DEF Ledger!Grant, Ledger!AnswerWith
    <2> QED BY <2>8 DEF Ledger!Next
  <1>6. ASSUME NEW c \in Call, BrokerRefuse(c) PROVE Ledger!Next
    <2>1. /\ reserve[c] = "sent" /\ DOMAIN reserve = Call
          /\ reserve' = [reserve EXCEPT ![c] = "refused"] /\ lease' = lease
      BY <1>0, <1>6 DEF TypeOK, BrokerRefuse
    <2>2. c \in Sent /\ Sent' = Sent \ {c}
      BY <2>1
    <2>3. Done' = Done \cup {c} /\ Up' = Up
      BY <2>1
    <2>4. Named' = [Named EXCEPT ![c] = None]
      BY <2>1
    <2>5. Ledger!Refuse(c)
      BY <2>2, <2>3, <2>4 DEF Ledger!Refuse, Ledger!AnswerWith
    <2> QED BY <2>5 DEF Ledger!Next
  <1>7. ASSUME NEW c \in Call, Delivered(c)
        PROVE  Ledger!Next \/ UNCHANGED Ledger!vars
    <2>1. CASE BrokerHeartbeat(c) \/ BrokerRelease(c)
      <3>1. /\ UNCHANGED reserve
            /\ \A d \in Call : lease[d] = None => lease'[d] = None
        BY <1>0, <2>1 DEF TypeOK, BrokerHeartbeat, BrokerRelease
      <3> QED BY <3>1, EndStep
    <2>2. CASE ReleaseFails(c)
      BY <1>1, <2>2 DEF ReleaseFails
    <2> QED BY <1>7, <2>1, <2>2 DEF Delivered
  <1>8. CASE Tick \/ Reap
    <2>1. /\ UNCHANGED reserve
          /\ \A d \in Call : lease[d] = None => lease'[d] = None
      BY <1>0, <1>8 DEF TypeOK, Tick, Reap
    <2> QED BY <2>1, EndStep
  <1>9. CASE BrokerRestart
    <2>1. /\ \A d \in Call : reserve'[d] = IF reserve[d] = "sent" THEN "lost"
                                                             ELSE reserve[d]
          /\ \A d \in Call : lease'[d] = None
      BY <1>9 DEF BrokerRestart
    <2>2. Sent' = Sent
      BY <2>1
    <2>3. Done' = Done
      BY <2>1
    <2>4. Named' = Named
      BY <2>1
    <2>5. Up \in SUBSET Up /\ Up' = Up \ Up
      BY <2>1
    <2>6. Ledger!End
      BY <2>2, <2>3, <2>4, <2>5 DEF Ledger!End
    <2> QED BY <2>6 DEF Ledger!Next
  <1> QED
    BY <1>1, <1>2, <1>3, <1>4, <1>5, <1>6, <1>7, <1>8, <1>9 DEF Next

\* Clients and broker keep the ledger's promises: whatever is late, lost or
\* restarted, no heartbeat and no late grant brings back an ended lease.
THEOREM ClientLedger == Spec => LedgerSpec
  <1>1. Init => Ledger!Init
    BY DEF Init, Ledger!Init
  <1> QED
    BY <1>1, LedgerStep, ClientInvariant, PTL DEF Spec, LedgerSpec, Ledger!Spec

-----------------------------------------------------------------------------
\* admit's rule for FIM calls works although it acts on a residency read
\* before the reserve: unless Ollama unloaded the model in between, a FIM call
\* is admitted only for a loaded model or with a lease that fits free VRAM.
THEOREM FimTheorem == Spec => FimUnlessUnloaded
  <1>1. ASSUME ClientInv, [Next]_vars
        PROVE  [\A c \in Fim \ outdated : ~Displaces(c)]_vars
    <2> SUFFICES ASSUME Next, NEW c \in Fim, c \notin outdated,
                        phase[c] = "reserving",
                        phase'[c] \in {"held", "unleased"}
                 PROVE  \/ loaded
                        \/ phase'[c] = "held" /\ reserve[c] = "granted"
      BY <1>1 DEF Displaces
    <2>0. /\ TypeOK /\ c \in Call
          /\ ~needsLoad[c] => loaded
      BY <1>1, CallAssumption DEF ClientInv, FimKnows, Deciding
    <2>1. ReplyGranted(c) \/ Unreachable(c)
      <3> USE DEF broker, guard, ollama
      <3>1. ASSUME NEW d \in Call,
                   \/ NotPulled(d) \/ LookUpResidency(d) \/ Acquire(d)
                   \/ ReplyRefused(d) \/ OtherError(d) \/ FinishUnleased(d)
            PROVE  FALSE
        BY <2>0, <3>1 DEF TypeOK, NotPulled, LookUpResidency, Acquire,
                          ReplyRefused, OtherError, FinishUnleased
      <3>2. ASSUME NEW d \in Call, RejectSpilled(d) \/ DropGuard(d)
            PROVE  FALSE
        BY <2>0, <3>2 DEF TypeOK, RejectSpilled, DropGuard
      <3>3. ASSUME NEW d \in Call,
                   \/ TaskStarts(d) \/ HeartbeatSent(d) \/ HeartbeatReturns(d)
                   \/ BrokerGrant(d) \/ BrokerRefuse(d) \/ Delivered(d)
            PROVE  FALSE
        BY <3>3 DEF TaskStarts, HeartbeatSent, HeartbeatReturns, BrokerGrant,
                    BrokerRefuse, Delivered, BrokerHeartbeat, BrokerRelease,
                    ReleaseFails
      <3>4. CASE \/ ServiceCrash \/ Tick \/ Reap \/ BrokerRestart
                 \/ OllamaLoads \/ OllamaUnloads
        BY <2>0, <3>4 DEF ServiceCrash, Tick, Reap, BrokerRestart, OllamaLoads,
                          OllamaUnloads
      <3>5. ASSUME NEW d \in Call, ReplyGranted(d) \/ Unreachable(d), d # c
            PROVE  FALSE
        BY <2>0, <3>5 DEF TypeOK, ReplyGranted, Unreachable
      <3> QED
        BY <3>1, <3>2, <3>3, <3>4, <3>5 DEF Next
    <2>2. CASE ReplyGranted(c)
      BY <2>0, <2>2 DEF TypeOK, ReplyGranted
    <2>3. CASE Unreachable(c)
      BY <2>0, <2>3 DEF TypeOK, Unreachable
    <2> QED BY <2>1, <2>2, <2>3
  <1> QED
    BY <1>1, ClientInvariant, PTL DEF Spec, FimUnlessUnloaded
=============================================================================
