----------------------- MODULE WorkspacesClientProofs -----------------------
(***************************************************************************)
(* What the workspaces client guarantees for any number of tasks and any   *)
(* verb table: how old an answer may be, and that the breaker's two fields *)
(* agree.                                                                  *)
(***************************************************************************)
EXTENDS WorkspacesClient, TLAPS

\* What Fresh rests on: an entry's age and the time it has left add up to at
\* most a TTL and a timeout, a reply's age and the time its attempt has left
\* to at most the timeout, and the current version has no age.
CacheFresh ==
    \A v \in Read : cache[v] # None /\ cache[v].left > 0 =>
        age[cache[v].val] + cache[v].left <= Ttl[v] + Timeout[v]
ReplyFresh ==
    \A c \in Caller : pc[c] = "sent" =>
        /\ timer[c] <= Timeout[verb[c]]
        /\ val[c] # None => age[val[c]] + timer[c] <= Timeout[verb[c]]
CurrentFresh == \A n \in Version : n >= version => age[n] = 0
FreshInv == CacheFresh /\ ReplyFresh /\ CurrentFresh

\* Every step keeps the types.
LEMMA TypeStep == TypeOK /\ [Next]_vars => TypeOK'
  <1> SUFFICES ASSUME TypeOK, [Next]_vars PROVE TypeOK'
    OBVIOUS
  <1> USE VerbAssumption, BreakerAssumption, BoundAssumption, NoneAssumption
      DEF Version, Label, call, service
  <1>1. ASSUME NEW c \in Caller, NEW v \in Verb, Call(c, v)
        PROVE  TypeOK'
    BY <1>1 DEF TypeOK, Call, Goto, Verb
  <1>2. ASSUME NEW c \in Caller, CacheHit(c)
        PROVE  TypeOK'
    BY <1>2 DEF TypeOK, CacheHit, Goto, Live, Entry, Verb
  <1>3. ASSUME NEW c \in Caller, CacheMiss(c)
        PROVE  TypeOK'
    BY <1>3 DEF TypeOK, CacheMiss, Goto, Verb
  <1>4. ASSUME NEW c \in Caller, Admit(c)
        PROVE  TypeOK'
    BY <1>4 DEF TypeOK, Admit, Goto
  <1>5. ASSUME NEW c \in Caller, FailFast(c) \/ Reject(c) \/ Return(c)
        PROVE  TypeOK'
    <2>1. Back(c) /\ UNCHANGED <<cache, breaker, svc, version, age>>
      BY <1>5 DEF FailFast, Reject, Return
    <2> QED BY <2>1 DEF TypeOK, Back
  <1>6. ASSUME NEW c \in Caller, Deliver(c)
        PROVE  TypeOK'
    <2>1. breaker' \in [Verb -> Breaker]
      BY <1>6 DEF TypeOK, Deliver, RecordSuccess, Breaker
    <2>2. /\ DOMAIN cache' = Read
          /\ \A v \in Read : cache'[v] \in Entry(v) \cup {None}
      <3>1. CASE verb[c] \in Read
        <4>1. val[c] \in Version
          BY <1>6 DEF TypeOK, Deliver
        <4>2. [val |-> val[c], left |-> Ttl[verb[c]]] \in Entry(verb[c])
          BY <3>1, <4>1 DEF Entry
        <4> QED BY <1>6, <3>1, <4>2 DEF TypeOK, Deliver, CachePut
      <3>2. CASE verb[c] \notin Read
        BY <1>6, <3>2 DEF TypeOK, Deliver
      <3> QED BY <3>1, <3>2
    <2> QED BY <1>6, <2>1, <2>2 DEF TypeOK, Deliver, Goto
  <1>7. ASSUME NEW c \in Caller, pc[c] = "sent", TransportError(c)
        PROVE  TypeOK'
    <2>1. breaker' \in [Verb -> Breaker]
      <3>1. CASE attempt[c] < Attempts[verb[c]]
        BY <1>7, <3>1 DEF TypeOK, TransportError
      <3>2. CASE ~(attempt[c] < Attempts[verb[c]])
        <4>1. verb[c] \in Verb /\ RecordFailure(verb[c])
          BY <1>7, <3>2 DEF TypeOK, TransportError
        <4> DEFINE b == breaker[verb[c]]
                   n == IF b.failures < Threshold THEN b.failures + 1
                                                  ELSE Threshold
        <4>2. b \in Breaker
          BY <4>1 DEF TypeOK
        <4>3. n \in 0..Threshold /\ b.opened \in 0..Cooldown \cup {None}
          BY <4>2 DEF Breaker
        <4>4. \E x \in 0..Cooldown \cup {None} :
                breaker' = [breaker EXCEPT
                              ![verb[c]] = [failures |-> n, opened |-> x]]
          <5>1. CASE (b.opened # None /\ ~IsOpen(verb[c])) \/ n >= Threshold
            <6>1. breaker' = [breaker EXCEPT ![verb[c]] =
                                [failures |-> n, opened |-> Cooldown]]
              BY <4>1, <5>1 DEF RecordFailure
            <6>2. Cooldown \in 0..Cooldown \cup {None}
              OBVIOUS
            <6> HIDE DEF n
            <6> QED BY <6>1, <6>2
          <5>2. CASE ~((b.opened # None /\ ~IsOpen(verb[c])) \/ n >= Threshold)
            BY <4>1, <4>3, <5>2 DEF RecordFailure
          <5> QED BY <5>1, <5>2
        <4> HIDE DEF n
        <4> QED BY <4>1, <4>3, <4>4 DEF TypeOK, Breaker
      <3> QED BY <3>1, <3>2
    <2>2. CASE attempt[c] < Attempts[verb[c]]
      <3>1. verb[c] \in Verb /\ attempt[c] \in 1..(Attempts[verb[c]] - 1)
        BY <1>7, <2>2 DEF TypeOK
      <3>2. Backoff[attempt[c]] \in Nat
        BY <3>1
      <3> QED BY <1>7, <2>2, <3>1, <3>2 DEF TypeOK, TransportError, Goto
    <2>3. CASE ~(attempt[c] < Attempts[verb[c]])
      <3>1. Back(c) /\ UNCHANGED <<cache, svc, version, age>>
        BY <1>7, <2>3 DEF TransportError
      <3> QED BY <2>1, <3>1 DEF TypeOK, Back
    <2> QED BY <2>2, <2>3
  <1>8. ASSUME NEW c \in Caller, Retry(c)
        PROVE  TypeOK'
    BY <1>8 DEF TypeOK, Retry, Goto
  <1>9. ASSUME NEW c \in Caller, Serve(c)
        PROVE  TypeOK'
    <2>1. version' \in Version
      BY <1>9 DEF TypeOK, Serve
    <2> QED BY <1>9, <2>1 DEF TypeOK, Serve
  <1>10. CASE OtherWrite \/ Environment
    BY <1>10 DEF TypeOK, OtherWrite, Environment
  <1>11. CASE Tick
    <2>1. /\ DOMAIN cache' = Read
          /\ \A v \in Read : cache'[v] \in Entry(v) \cup {None}
      BY <1>11 DEF TypeOK, Tick, Entry, Less
    <2>2. breaker' \in [Verb -> Breaker]
      BY <1>11 DEF TypeOK, Tick, Breaker, Less
    <2>3. age' \in [Version -> 0..MaxAge]
      BY <1>11 DEF TypeOK, Tick
    <2>4. timer' \in [Caller -> Nat]
      BY <1>11 DEF TypeOK, Tick, Less
    <2> QED BY <1>11, <2>1, <2>2, <2>3, <2>4 DEF TypeOK, Tick
  <1>12. CASE UNCHANGED vars
    BY <1>12 DEF TypeOK, vars
  <1> QED
    BY <1>1, <1>2, <1>3, <1>4, <1>5, <1>6, <1>7, <1>8, <1>9, <1>10, <1>11,
       <1>12 DEF Next, Step, TimedOut, Disconnected

\* The client's state keeps its types: a call under way has a verb, an Ok has
\* a value, and the reply of a failed attempt is never carried into the next.
THEOREM ClientTypes == Spec => []TypeOK
  <1>1. Init => TypeOK
    BY VerbAssumption, BreakerAssumption, BoundAssumption, NoneAssumption
    DEF Init, TypeOK, Version, Label, Breaker
  <1> QED BY <1>1, TypeStep, PTL DEF Spec

-----------------------------------------------------------------------------
(* Bounded staleness                                                       *)

\* Every step keeps the ages within their bounds.
LEMMA FreshStep ==
    TypeOK /\ TypeOK' /\ FreshInv /\ [Next]_vars => FreshInv'
  <1> SUFFICES ASSUME TypeOK, TypeOK', FreshInv, [Next]_vars PROVE FreshInv'
    OBVIOUS
  <1> USE VerbAssumption, BreakerAssumption, BoundAssumption, NoneAssumption
      DEF Version, Label, call, service, FreshInv
  <1>1. ASSUME NEW c \in Caller, NEW v \in Verb, Call(c, v)
        PROVE  FreshInv'
    BY <1>1 DEF TypeOK, Call, Goto, CacheFresh, ReplyFresh, CurrentFresh
  <1>2. ASSUME NEW c \in Caller, CacheHit(c) \/ CacheMiss(c)
        PROVE  FreshInv'
    <2>1. CacheFresh' /\ CurrentFresh'
      BY <1>2 DEF TypeOK, CacheHit, CacheMiss, CacheFresh, CurrentFresh
    <2>2. \A d \in Caller : pc'[d] = "sent" =>
            d # c /\ pc[d] = "sent" /\ val'[d] = val[d]
      BY <1>2 DEF TypeOK, CacheHit, CacheMiss, Goto
    <2>3. UNCHANGED <<verb, timer, age>>
      BY <1>2 DEF CacheHit, CacheMiss
    <2>4. ReplyFresh'
      BY <2>2, <2>3 DEF ReplyFresh
    <2> QED BY <2>1, <2>4
  <1>3. ASSUME NEW c \in Caller, Admit(c) \/ Retry(c)
        PROVE  FreshInv'
    <2>1. CacheFresh' /\ CurrentFresh'
      BY <1>3 DEF Admit, Retry, CacheFresh, CurrentFresh
    <2>2. /\ timer' = [timer EXCEPT ![c] = Timeout[verb[c]]]
          /\ val[c] = None /\ verb[c] \in Verb
          /\ pc' = [pc EXCEPT ![c] = "sent"]
          /\ UNCHANGED <<verb, val, age>>
      BY <1>3 DEF TypeOK, Admit, Retry, Goto
    <2>3. ReplyFresh'
      BY <2>2 DEF TypeOK, ReplyFresh
    <2> QED BY <2>1, <2>3
  <1>4. ASSUME NEW c \in Caller,
               FailFast(c) \/ Reject(c) \/ Return(c) \/ TransportError(c)
        PROVE  FreshInv'
    <2>1. /\ pc' = [pc EXCEPT ![c] = pc'[c]] /\ pc'[c] # "sent"
          /\ \A d \in Caller \ {c} : /\ verb'[d] = verb[d]
                                    /\ timer'[d] = timer[d]
                                    /\ val'[d] = val[d]
          /\ UNCHANGED <<cache, version, age>>
      BY <1>4 DEF TypeOK, FailFast, Reject, Return, TransportError, Back, Goto
    <2> QED BY <2>1 DEF TypeOK, CacheFresh, ReplyFresh, CurrentFresh
  <1>5. ASSUME NEW c \in Caller, Deliver(c)
        PROVE  FreshInv'
    <2>1. CacheFresh'
      <3>1. CASE verb[c] \in Read
        <4>1. age[val[c]] + Ttl[verb[c]] <= Ttl[verb[c]] + Timeout[verb[c]]
          BY <1>5, <3>1 DEF TypeOK, Deliver, ReplyFresh, Verb
        <4> DEFINE e == [val |-> val[c], left |-> Ttl[verb[c]]]
        <4>2. /\ cache' = [cache EXCEPT ![verb[c]] = e] /\ age' = age
              /\ e.val = val[c] /\ e.left = Ttl[verb[c]]
          BY <1>5, <3>1 DEF Deliver, CachePut
        <4> HIDE DEF e
        <4> QED BY <3>1, <4>1, <4>2 DEF TypeOK, CacheFresh
      <3>2. CASE verb[c] \notin Read
        BY <1>5, <3>2 DEF TypeOK, Deliver, CacheFresh
      <3> QED BY <3>1, <3>2
    <2> QED BY <1>5, <2>1 DEF TypeOK, Deliver, Goto, ReplyFresh, CurrentFresh
  <1>6. ASSUME NEW c \in Caller, Serve(c)
        PROVE  FreshInv'
    <2>1. version' \in Version /\ version' >= version /\ age' = age
      BY <1>6 DEF TypeOK, Serve
    <2>2. age[version'] = 0
      BY <2>1 DEF CurrentFresh
    <2>3. ReplyFresh'
      BY <1>6, <2>1, <2>2 DEF TypeOK, Serve, ReplyFresh, Verb
    <2>4. CacheFresh'
      BY <1>6, <2>1 DEF TypeOK, Serve, CacheFresh
    <2>5. CurrentFresh'
      BY <2>1 DEF TypeOK, CurrentFresh
    <2> QED BY <2>3, <2>4, <2>5
  <1>7. CASE OtherWrite \/ Environment
    BY <1>7 DEF TypeOK, OtherWrite, Environment, CacheFresh, ReplyFresh,
                CurrentFresh
  <1>8. CASE Tick
    <2>1. \A n \in Version :
            age'[n] <= age[n] + 1 /\ (n >= version => age'[n] = 0)
      BY <1>8 DEF TypeOK, Tick, CurrentFresh
    <2>2. CurrentFresh'
      BY <1>8, <2>1 DEF Tick, CurrentFresh
    <2>3. CacheFresh'
      <3> SUFFICES ASSUME NEW v \in Read, cache'[v] # None, cache'[v].left > 0
                   PROVE  age'[cache'[v].val] + cache'[v].left
                            <= Ttl[v] + Timeout[v]
        BY DEF CacheFresh
      <3>1. /\ cache[v] # None /\ cache[v] \in Entry(v)
            /\ cache'[v] = [val |-> cache[v].val, left |-> Less(cache[v].left)]
        BY <1>8 DEF TypeOK, Tick
      <3>2. /\ cache[v].left \in Nat /\ cache[v].val \in Version
            /\ cache'[v].val = cache[v].val
            /\ cache'[v].left = Less(cache[v].left)
        BY <3>1 DEF Entry
      <3>3. cache[v].left > 0 /\ cache'[v].left = cache[v].left - 1
        BY <3>2 DEF Less
      <3>4. age[cache[v].val] + cache[v].left <= Ttl[v] + Timeout[v]
        BY <3>1, <3>3 DEF CacheFresh
      <3>5. age[cache[v].val] \in Nat /\ age'[cache[v].val] \in Nat
        BY <3>2 DEF TypeOK
      <3>6. Ttl[v] \in Nat /\ Timeout[v] \in Nat
        BY DEF Verb
      <3> QED BY <2>1, <3>2, <3>3, <3>4, <3>5, <3>6
    <2>4. ReplyFresh'
      <3> SUFFICES ASSUME NEW c \in Caller, pc'[c] = "sent"
                   PROVE  /\ timer'[c] <= Timeout[verb'[c]]
                          /\ val'[c] # None =>
                               age'[val'[c]] + timer'[c] <= Timeout[verb'[c]]
        BY DEF ReplyFresh
      <3>1. /\ pc[c] = "sent" /\ verb'[c] = verb[c] /\ val'[c] = val[c]
            /\ timer[c] \in Nat /\ timer[c] > 0 /\ timer'[c] = timer[c] - 1
            /\ Timeout[verb[c]] \in Nat
        BY <1>8 DEF TypeOK, Tick, Less
      <3>2. val[c] # None => age[val[c]] \in Nat /\ age'[val[c]] \in Nat
                             /\ val[c] \in Version
        BY DEF TypeOK
      <3> QED BY <2>1, <3>1, <3>2 DEF ReplyFresh
    <2> QED BY <2>2, <2>3, <2>4
  <1>9. CASE UNCHANGED vars
    BY <1>9 DEF vars, CacheFresh, ReplyFresh, CurrentFresh
  <1> QED
    BY <1>1, <1>2, <1>3, <1>4, <1>5, <1>6, <1>7, <1>8, <1>9
    DEF Next, Step, TimedOut, Disconnected

\* Whatever writes, retries and concurrent calls happen, call_verb never
\* answers a read with data that was superseded more than a TTL and one
\* attempt's timeout ago.
THEOREM BoundedStaleness == Spec => Fresh
  <1>1. Init => TypeOK /\ FreshInv
    BY VerbAssumption, BreakerAssumption, BoundAssumption, NoneAssumption
    DEF Init, TypeOK, Version, Label, Breaker, FreshInv, CacheFresh,
        ReplyFresh, CurrentFresh
  <1>2. TypeOK /\ FreshInv /\ [Next]_vars =>
          \A c \in Caller :
            pc[c] # "served" /\ pc'[c] = "served" /\ verb[c] \in Read =>
              age[val'[c]] <= Ttl[verb[c]] + Timeout[verb[c]]
    <2> SUFFICES ASSUME TypeOK, FreshInv, [Next]_vars, NEW c \in Caller,
                        pc[c] # "served", pc'[c] = "served", verb[c] \in Read
                 PROVE  age[val'[c]] <= Ttl[verb[c]] + Timeout[verb[c]]
      OBVIOUS
    <2>1. CacheHit(c) \/ Deliver(c)
      BY DEF TypeOK, Label, Next, Step, Call, CacheHit, CacheMiss, Admit,
             FailFast, Reject, TimedOut, Disconnected, TransportError, Retry,
             Return, Deliver, Serve, OtherWrite, Environment, Tick, Goto,
             Back, vars, call
    <2>2. Ttl[verb[c]] \in Nat /\ Timeout[verb[c]] \in Nat
      BY VerbAssumption DEF Verb
    <2>3. CASE CacheHit(c)
      <3>1. /\ cache[verb[c]] \in Entry(verb[c]) /\ cache[verb[c]].left > 0
            /\ val'[c] = cache[verb[c]].val
            /\ age[val'[c]] + cache[verb[c]].left
                 <= Ttl[verb[c]] + Timeout[verb[c]]
        BY <2>3 DEF TypeOK, CacheHit, Live, FreshInv, CacheFresh
      <3>2. cache[verb[c]].left \in Nat /\ age[val'[c]] \in Nat
        BY <2>2, <3>1, BoundAssumption DEF TypeOK, Entry
      <3> QED BY <2>2, <3>1, <3>2
    <2>4. CASE Deliver(c)
      BY <2>2, <2>4, BoundAssumption DEF TypeOK, Deliver, FreshInv, ReplyFresh
    <2> QED BY <2>1, <2>3, <2>4
  <1> QED BY <1>1, <1>2, TypeStep, FreshStep, PTL DEF Spec, Fresh

-----------------------------------------------------------------------------
(* The breaker                                                             *)

\* opened_at and the failure count of a breaker never disagree, whichever
\* late replies and failures of concurrent calls it is told of.
THEOREM BreakerConsistent == Spec => []OpenIffTripped
  <1>1. Init => OpenIffTripped
    BY BreakerAssumption DEF Init, OpenIffTripped
  <1>2. TypeOK /\ OpenIffTripped /\ [Next]_vars => OpenIffTripped'
    <2> SUFFICES ASSUME TypeOK, OpenIffTripped, [Next]_vars
                 PROVE  OpenIffTripped'
      OBVIOUS
    <2> USE BreakerAssumption, NoneAssumption
    <2>1. ASSUME NEW c \in Caller, Deliver(c)
          PROVE  OpenIffTripped'
      BY <2>1 DEF TypeOK, OpenIffTripped, Deliver, RecordSuccess, Breaker
    <2>2. ASSUME NEW v \in Verb, RecordFailure(v)
          PROVE  OpenIffTripped'
      <3>1. breaker[v].failures \in Nat
        BY DEF TypeOK, Breaker
      <3>2. \A w \in Verb \ {v} : breaker'[w] = breaker[w]
        BY <2>2 DEF TypeOK, RecordFailure
      <3>3. CASE breaker[v].failures + 1 >= Threshold
        <4>1. breaker'[v] = [failures |-> Threshold, opened |-> Cooldown]
          BY <2>2, <3>1, <3>3 DEF TypeOK, RecordFailure, Breaker
        <4> QED BY <3>2, <4>1 DEF OpenIffTripped
      <3>4. CASE breaker[v].failures + 1 < Threshold
        <4>1. breaker[v].opened = None
          BY <3>1, <3>4 DEF OpenIffTripped
        <4>2. breaker'[v] = [failures |-> breaker[v].failures + 1,
                             opened |-> None]
          BY <2>2, <3>1, <3>4, <4>1 DEF TypeOK, RecordFailure
        <4> QED BY <3>1, <3>2, <3>4, <4>2 DEF OpenIffTripped
      <3> QED BY <3>1, <3>3, <3>4
    <2>3. ASSUME NEW c \in Caller, pc[c] = "sent", TransportError(c)
          PROVE  OpenIffTripped'
      BY <2>2, <2>3 DEF TransportError, TypeOK, OpenIffTripped
    <2>4. CASE Tick
      BY <2>4 DEF Tick, OpenIffTripped, Less, TypeOK, Breaker
    <2>5. CASE UNCHANGED breaker
      BY <2>5 DEF OpenIffTripped
    <2> QED
      BY <2>1, <2>3, <2>4, <2>5
      DEF Next, Step, Call, CacheHit, CacheMiss, Admit, FailFast, Reject,
          TimedOut, Disconnected, Retry, Return, Serve, OtherWrite,
          Environment, vars
  <1> QED BY <1>1, <1>2, ClientTypes, PTL DEF Spec
=============================================================================
