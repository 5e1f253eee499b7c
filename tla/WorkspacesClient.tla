-------------------------- MODULE WorkspacesClient --------------------------
(***************************************************************************)
(* wylde-workspaces-client: call_verb drives one call through the read     *)
(* cache, the per-verb circuit breaker and a bounded number of timed       *)
(* attempts.  Any number of tasks share one client, hence one cache and    *)
(* one breaker, each locked for the length of one method.  An action is    *)
(* what a task does from one await to the next, except that the cache and  *)
(* the breaker are looked up in two steps; the bookkeeping at the end of a *)
(* call is two locks on independent objects, and one step.                 *)
(*                                                                         *)
(* Instants are modelled by the time left until (or passed since) them, in *)
(* ticks.                                                                  *)
(*                                                                         *)
(* The service on the other side of the pipe is external.  It holds one    *)
(* datum, whose version every executed write advances, and may be up,      *)
(* slow, down, or answer every request with an application error.          *)
(***************************************************************************)
EXTENDS Integers

CONSTANTS
    Caller,      \* tasks that share the client
    Read,        \* verbs with a cache TTL
    Write,       \* verbs without one that change the service's datum
    Attempts,    \* VerbDef.retry.max_attempts()
    Timeout,     \* VerbDef.timeout.budget(hops)
    Ttl,         \* VerbDef.cache_ttl
    Backoff,     \* backoff_delay(attempt)
    Threshold,   \* failed operations that open a breaker
    Cooldown,    \* ticks it stays open
    MaxVersion,  \* bound: writes the service executes
    MaxAge,      \* bound: the age of a superseded version saturates here
    None

Verb == Read \cup Write

ASSUME VerbAssumption ==
    /\ Read \cap Write = {}
    /\ Attempts \in [Verb -> Nat \ {0}]
    /\ Timeout \in [Verb -> Nat]
    /\ Ttl \in [Read -> Nat]
    /\ \A v \in Verb : \A k \in 1..(Attempts[v] - 1) : Backoff[k] \in Nat
ASSUME BreakerAssumption ==
    Threshold \in Nat \ {0} /\ Cooldown \in Nat
ASSUME BoundAssumption ==
    /\ MaxVersion \in Nat /\ MaxAge \in Nat
    /\ \A v \in Read : Ttl[v] + Timeout[v] < MaxAge
ASSUME NoneAssumption == None \notin Verb /\ None \notin Int

Version == 0..MaxVersion

VARIABLES
    pc,        \* where each caller is in call_verb
    verb,      \* the verb it called
    attempt,   \* the loop variable
    timer,     \* ticks left of the attempt's timeout, or of the backoff
    val,       \* the reply's data, once the service produced it
    cache,     \* VerbCache: per verb a value and the ticks it has left
    breaker,   \* CircuitBreaker: failures, and the cooldown left or None
    svc,       \* what the service does with requests (external)
    version,   \* its datum (external)
    age        \* ticks since a version stopped being the current one

call == <<pc, verb, attempt, timer, val>>
service == <<svc, version, age>>
vars == <<call, cache, breaker, service>>

Label == {"idle", "cache", "check", "sent", "backoff", "served"}

Init ==
    /\ pc = [c \in Caller |-> "idle"]
    /\ verb = [c \in Caller |-> None]
    /\ attempt = [c \in Caller |-> 0]
    /\ timer = [c \in Caller |-> 0]
    /\ val = [c \in Caller |-> None]
    /\ cache = [v \in Read |-> None]
    /\ breaker = [v \in Verb |-> [failures |-> 0, opened |-> None]]
    /\ svc = "up"
    /\ version = 0
    /\ age = [n \in Version |-> 0]

Goto(c, l) == pc' = [pc EXCEPT ![c] = l]

-----------------------------------------------------------------------------
(* The cache and the breaker, up to the first attempt                      *)

Back(c) ==
    /\ pc' = [pc EXCEPT ![c] = "idle"]
    /\ verb' = [verb EXCEPT ![c] = None]
    /\ attempt' = [attempt EXCEPT ![c] = 0]
    /\ timer' = [timer EXCEPT ![c] = 0]
    /\ val' = [val EXCEPT ![c] = None]

\* A task enters call_verb.  Only verbs with a TTL look into the cache.
Call(c, v) ==
    /\ pc[c] = "idle"
    /\ Goto(c, IF v \in Read THEN "cache" ELSE "check")
    /\ verb' = [verb EXCEPT ![c] = v]
    /\ UNCHANGED <<attempt, timer, val, cache, breaker, service>>

\* Mutant of Live: expires_at is not looked at.
Live_Expired(v) == cache[v] # None

\* VerbCache::get finds a live entry.
Live(v) == cache[v] # None /\ cache[v].left > 0

\* The entry is the answer.
CacheHit(c) ==
    /\ pc[c] = "cache"
    /\ Live(verb[c])
    /\ Goto(c, "served")
    /\ val' = [val EXCEPT ![c] = cache[verb[c]].val]
    /\ UNCHANGED <<verb, attempt, timer, cache, breaker, service>>

\* None; an expired one is removed.
CacheMiss(c) ==
    /\ pc[c] = "cache"
    /\ ~Live(verb[c])
    /\ Goto(c, "check")
    /\ cache' = [cache EXCEPT ![verb[c]] = None]
    /\ UNCHANGED <<verb, attempt, timer, val, breaker, service>>

\* CircuitBreaker::check: opened, and the cooldown has not elapsed.
IsOpen(v) == breaker[v].opened # None /\ breaker[v].opened > 0

\* A breaker that is closed, or whose cooldown has elapsed, lets the call
\* through to its first attempt.
Admit(c) ==
    /\ pc[c] = "check"
    /\ ~IsOpen(verb[c])
    /\ Goto(c, "sent")
    /\ attempt' = [attempt EXCEPT ![c] = 1]
    /\ timer' = [timer EXCEPT ![c] = Timeout[verb[c]]]
    /\ UNCHANGED <<verb, val, cache, breaker, service>>

\* CircuitBreaker::record_failure.  The count saturates (at u32::MAX in the
\* code; only whether it has reached the threshold is ever looked at).  A
\* failure of a call admitted before the opening prolongs the cooldown.
RecordFailure(v) ==
    LET b == breaker[v]
        n == IF b.failures < Threshold THEN b.failures + 1 ELSE Threshold
        halfOpen == b.opened # None /\ ~IsOpen(v)
    IN breaker' = [breaker EXCEPT
                     ![v] = [failures |-> n,
                             opened |-> IF halfOpen \/ n >= Threshold
                                        THEN Cooldown ELSE b.opened]]

\* Mutant of FailFast: the refusal counts as another failure.
FailFast_Counts(c) ==
    /\ pc[c] = "check"
    /\ IsOpen(verb[c])
    /\ Back(c)
    /\ RecordFailure(verb[c])
    /\ UNCHANGED <<cache, service>>

\* breaker_open, with no attempt and no mark on the breaker.
FailFast(c) ==
    /\ pc[c] = "check"
    /\ IsOpen(verb[c])
    /\ Back(c)
    /\ UNCHANGED <<cache, breaker, service>>

-----------------------------------------------------------------------------
(* The attempts                                                            *)

\* Mutant of RecordSuccess: the count is cleared, the opening is not.
RecordSuccess_StaysOpen(v) ==
    breaker' = [breaker EXCEPT ![v].failures = 0]

RecordSuccess(v) ==
    breaker' = [breaker EXCEPT ![v] = [failures |-> 0, opened |-> None]]

CachePut(v, x) ==
    cache' = [cache EXCEPT ![v] = [val |-> x, left |-> Ttl[v]]]

\* The reply says ok: the breaker closes and a read replaces what the cache
\* holds, with a TTL that starts now.
Deliver(c) ==
    /\ pc[c] = "sent" /\ svc = "up" /\ val[c] # None
    /\ RecordSuccess(verb[c])
    /\ IF verb[c] \in Read THEN CachePut(verb[c], val[c]) ELSE UNCHANGED cache
    /\ Goto(c, "served")
    /\ UNCHANGED <<verb, attempt, timer, val, service>>

\* An application error ends the call: no retry, no mark on the breaker.
Reject(c) ==
    /\ pc[c] = "sent" /\ svc = "rejecting" /\ val[c] = None
    /\ Back(c)
    /\ UNCHANGED <<cache, breaker, service>>

\* A transport error: back off while attempts remain, else the operation has
\* failed.  Its request may have been executed, or still be (OtherWrite).
TransportError(c) ==
    IF attempt[c] < Attempts[verb[c]]
    THEN /\ Goto(c, "backoff")
         /\ timer' = [timer EXCEPT ![c] = Backoff[attempt[c]]]
         /\ val' = [val EXCEPT ![c] = None]
         /\ UNCHANGED <<verb, attempt, cache, breaker, service>>
    ELSE /\ Back(c)
         /\ RecordFailure(verb[c])
         /\ UNCHANGED <<cache, service>>

\* The attempt's time is up.
TimedOut(c) ==
    /\ pc[c] = "sent" /\ timer[c] = 0
    /\ TransportError(c)

\* The pipe is missing or breaks.
Disconnected(c) ==
    /\ pc[c] = "sent" /\ svc = "down"
    /\ TransportError(c)

\* Mutant of Retry: the attempts are not counted.
Retry_Uncounted(c) ==
    /\ pc[c] = "backoff" /\ timer[c] = 0
    /\ Goto(c, "sent")
    /\ timer' = [timer EXCEPT ![c] = Timeout[verb[c]]]
    /\ UNCHANGED <<verb, attempt, val, cache, breaker, service>>

\* The sleep is over: the next attempt, with a timeout of its own.
Retry(c) ==
    /\ pc[c] = "backoff" /\ timer[c] = 0
    /\ Goto(c, "sent")
    /\ attempt' = [attempt EXCEPT ![c] = @ + 1]
    /\ timer' = [timer EXCEPT ![c] = Timeout[verb[c]]]
    /\ UNCHANGED <<verb, val, cache, breaker, service>>

\* call_verb returns its Ok.
Return(c) ==
    /\ pc[c] = "served"
    /\ Back(c)
    /\ UNCHANGED <<cache, breaker, service>>

-----------------------------------------------------------------------------
(* The service and time (external)                                         *)

\* The service executes a request it received: a read yields the current
\* version, a write makes a new one.
Serve(c) ==
    /\ pc[c] = "sent" /\ val[c] = None /\ svc \in {"up", "slow"}
    /\ IF verb[c] \in Write /\ version < MaxVersion
       THEN version' = version + 1
       ELSE UNCHANGED version
    /\ val' = [val EXCEPT ![c] = version']
    /\ UNCHANGED <<pc, verb, attempt, timer, cache, breaker, svc, age>>

\* It executes a write of another client, or one whose caller gave up.
OtherWrite ==
    /\ svc \in {"up", "slow"}
    /\ version < MaxVersion
    /\ version' = version + 1
    /\ UNCHANGED <<call, cache, breaker, svc, age>>

Environment ==
    /\ svc' \in {"up", "slow", "down", "rejecting"} \ {svc}
    /\ UNCHANGED <<call, cache, breaker, version, age>>

Less(n) == IF n = 0 THEN 0 ELSE n - 1

\* Time passes, never past the end of an attempt's timeout or a sleep.
Tick ==
    /\ \A c \in Caller : pc[c] \in {"sent", "backoff"} => timer[c] > 0
    /\ timer' = [c \in Caller |-> Less(timer[c])]
    /\ cache' = [v \in Read |->
                   IF cache[v] = None THEN None
                   ELSE [val |-> cache[v].val, left |-> Less(cache[v].left)]]
    /\ breaker' = [v \in Verb |->
                     [failures |-> breaker[v].failures,
                      opened |-> IF breaker[v].opened = None THEN None
                                 ELSE Less(breaker[v].opened)]]
    /\ age' = [n \in Version |-> IF n < version /\ age[n] < MaxAge
                                 THEN age[n] + 1 ELSE age[n]]
    /\ UNCHANGED <<pc, verb, attempt, val, svc, version>>

-----------------------------------------------------------------------------
\* What one task does, given replies.
Step(c) ==
    \/ CacheHit(c) \/ CacheMiss(c) \/ Admit(c) \/ FailFast(c)
    \/ Deliver(c) \/ Reject(c) \/ TimedOut(c) \/ Disconnected(c)
    \/ Retry(c) \/ Return(c)

Next ==
    \/ \E c \in Caller : Step(c) \/ Serve(c)
    \/ \E c \in Caller, v \in Verb : Call(c, v)
    \/ OtherWrite \/ Environment \/ Tick

Spec == Init /\ [][Next]_vars

\* Tasks are scheduled, requests that reach a live service are executed, and
\* time goes on however often the tasks run.  Nothing is assumed of how the
\* service's condition changes, or of when tasks call.
FairSpec ==
    /\ Spec
    /\ \A c \in Caller : WF_vars(Step(c)) /\ WF_vars(Serve(c))
    /\ SF_vars(Tick)

-----------------------------------------------------------------------------
(* Properties                                                              *)

Entry(v) == [val : Version, left : 0..Ttl[v]]
Breaker == [failures : 0..Threshold, opened : 0..Cooldown \cup {None}]

\* Types; a call that is under way has a verb, an answered one a value, and no
\* call makes more attempts than its verb has.
TypeOK ==
    /\ pc \in [Caller -> Label]
    /\ verb \in [Caller -> Verb \cup {None}]
    /\ attempt \in [Caller -> Nat]
    /\ timer \in [Caller -> Nat]
    /\ val \in [Caller -> Version \cup {None}]
    /\ \A c \in Caller :
        /\ pc[c] # "idle" => verb[c] \in Verb
        /\ pc[c] = "sent" => attempt[c] \in 1..Attempts[verb[c]]
        /\ pc[c] = "backoff" => attempt[c] \in 1..(Attempts[verb[c]] - 1)
        /\ pc[c] = "cache" => verb[c] \in Read
        /\ pc[c] = "served" => val[c] \in Version
        /\ pc[c] \in {"idle", "cache", "check", "backoff"} => val[c] = None
    /\ DOMAIN cache = Read
    /\ \A v \in Read : cache[v] \in Entry(v) \cup {None}
    /\ breaker \in [Verb -> Breaker]
    /\ svc \in {"up", "slow", "down", "rejecting"}
    /\ version \in Version
    /\ age \in [Version -> 0..MaxAge]

\* call_verb's answer to a read was the service's state at most one TTL plus
\* one attempt's timeout ago, whichever writes, retries and concurrent calls
\* (an older reply may overwrite a newer cached one) came in between.
Fresh ==
    [][\A c \in Caller :
        pc[c] # "served" /\ pc'[c] = "served" /\ verb[c] \in Read =>
            age[val'[c]] <= Ttl[verb[c]] + Timeout[verb[c]]]_vars

\* A breaker is open, or half-open, exactly when at least Threshold
\* operations have failed since the last success: no interleaving of late
\* successes and late failures leaves opened_at and the count at odds.
OpenIffTripped ==
    \A v \in Verb :
        breaker[v].opened # None <=> breaker[v].failures >= Threshold

\* Every call returns, whatever the service does.
EveryCallReturns ==
    \A c \in Caller : pc[c] # "idle" ~> pc[c] = "idle"

Prompt == svc = "up" /\ \A c \in Caller : pc[c] = "sent" => timer[c] > 0

\* Once the service answers in time for good and tasks keep calling a verb,
\* its breaker closes and stays closed: the late failures of calls admitted
\* earlier prolong the outage, but not for ever.
BreakerRecovers ==
    \A v \in Verb :
        /\ <>[]Prompt
        /\ []<>(\E c \in Caller : pc[c] = "check" /\ verb[c] = v)
        => <>[](breaker[v].opened = None)

\* "After the cooldown the breaker half-opens and admits one probe"
\* (circuit_breaker.rs:5-6): at most one call is under way while the breaker
\* of its verb is half-open.
OneProbe ==
    \A v \in Verb : breaker[v].opened = 0 =>
        \A c, d \in Caller :
            (pc[c] = "sent" /\ pc[d] = "sent" /\ verb[c] = v /\ verb[d] = v)
                => c = d
=============================================================================
