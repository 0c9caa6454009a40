------------------------------ MODULE Admission ------------------------------
(***************************************************************************)
(* The admission of public requests to the Gateway's shared capacity: the  *)
(* keyed limiter with its adaptive fair share, the global token bucket and *)
(* the ingress slots, in the order a handler passes them.                  *)
(*                                                                         *)
(* Time is the age of each timestamp in the limiter, counted in ticks up   *)
(* to the point after which its value no longer matters.  Requests observe *)
(* the clock in the order they take the limiter's lock.                    *)
(***************************************************************************)
EXTENDS Integers, FiniteSets

CONSTANTS
    Keys,              \* the routes (or devices)
    Requests,          \* the callers; each tries at most once in a tick, for ever
    QuietCaller,       \* the one whose progress is followed
    NoKey,
    IngressLimit, RatePerTick, RateBurst,
    Window,            \* contentionWindow, in ticks
    MaxTrackedKeys,
    Loads              \* the callers that take part, and the key of each

ASSUME AdmissionLimits ==
    /\ IngressLimit \in Nat \ {0} /\ RatePerTick \in Nat \ {0} /\ RateBurst \in Nat \ {0}
    /\ Window \in Nat \ {0} /\ MaxTrackedKeys \in Nat
    /\ NoKey \notin Keys
    /\ \A callers \in Loads : /\ DOMAIN callers \subseteq Requests
                              /\ QuietCaller \in DOMAIN callers
                              /\ \A r \in DOMAIN callers : callers[r] \in Keys

VARIABLES
    load,        \* one of Loads
    stage,       \* per caller: "out", "admitted", "allowed", "holding", "leaving"
    states,      \* limiter.states: per tracked key, its inFlight, tokens and age of last
    recent, previous,  \* limiter.recentKey and previousKey with the ages of their times
    bucket,      \* ingressRate: tokens and age of last
    slots,       \* len(ingressSlots)
    seenAge,     \* ghost: per key, the age of its last observation
    tried        \* the callers that tried in this tick

admvars == <<load, stage, states, recent, previous, bucket, slots, seenAge, tried>>

SmallerOf(a, b) == IF a < b THEN a ELSE b

\* FairnessShare of a global allowance.
FairnessShare(global) ==
    IF global <= 1 THEN global
    ELSE LET share == (global * 3) \div 4
         IN IF share >= global THEN global - 1 ELSE IF share < 1 THEN 1 ELSE share

MaxAge == IF Window + 1 > RateBurst THEN Window + 1 ELSE RateBurst
Older(age) == SmallerOf(age + 1, MaxAge)

AdmInit ==
    /\ load \in Loads
    /\ stage = [r \in Requests |-> "out"]
    /\ states = [k \in {} |-> 0]
    /\ recent = [key |-> NoKey, age |-> MaxAge] /\ previous = [key |-> NoKey, age |-> MaxAge]
    /\ bucket = [tokens |-> RateBurst, age |-> 0]
    /\ slots = 0
    /\ seenAge = [k \in Keys |-> MaxAge] /\ tried = {}

Tracked == DOMAIN states
Fresh == [inFlight |-> 0, tokens |-> RateBurst, age |-> 0]

\* otherKeyRecentlySeen.
OtherKeyRecentlySeen(k) ==
    \E s \in {recent, previous} : s.key \notin {NoKey, k} /\ s.age <= Window

\* Mutant: only the last key is remembered.
ObserveKeyLast(k) ==
    /\ recent' = [key |-> k, age |-> 0]
    /\ UNCHANGED previous

\* observeKey: the two keys seen last, with the times they were.
ObserveKey(k) ==
    /\ recent' = [key |-> k, age |-> 0]
    /\ previous' = IF recent.key = k THEN previous ELSE recent

\* Mutant: the sweep drops every other key.
SweptAll(s, k) ==
    IF Cardinality(DOMAIN s) <= MaxTrackedKeys THEN s ELSE [x \in {k} |-> s[x]]

\* The sweep when a new key exceeds the bound: the keys without work are dropped.
Swept(s, k) ==
    IF Cardinality(DOMAIN s) <= MaxTrackedKeys THEN s
    ELSE [x \in {y \in DOMAIN s : s[y].inFlight > 0 \/ y = k} |-> s[x]]

WithState(k) == IF k \in Tracked THEN states
                ELSE Swept([x \in Tracked \union {k} |-> IF x = k THEN Fresh ELSE states[x]], k)

Whole == [inFlight |-> IngressLimit, rate |-> RatePerTick, burst |-> RateBurst]

\* What a key may have in flight, and its rate and burst.
Allowance(contended) ==
    IF contended THEN [x \in DOMAIN Whole |-> FairnessShare(Whole[x])] ELSE Whole

\* The refill of a bucket since its last observation.
Refill(tokens, age, rate, burst) == SmallerOf(tokens + age * rate, burst)

\* KeyedAdmissionLimiter.TryAcquire.
TryAcquire(r) ==
    LET k == load[r]
        allowance == Allowance(OtherKeyRecentlySeen(k))
        known == WithState(k)
        refilled == Refill(known[k].tokens, known[k].age, allowance.rate, allowance.burst)
    IN
    /\ stage[r] = "out" /\ r \notin tried
    /\ ObserveKey(k)
    /\ IF known[k].inFlight >= allowance.inFlight
       THEN states' = known /\ UNCHANGED stage
       ELSE IF refilled < 1
       THEN /\ states' = [known EXCEPT ![k].tokens = refilled, ![k].age = 0]
            /\ UNCHANGED stage
       ELSE /\ states' = [known EXCEPT ![k] = [inFlight |-> @.inFlight + 1, tokens |-> refilled - 1, age |-> 0]]
            /\ stage' = [stage EXCEPT ![r] = "admitted"]
    /\ seenAge' = [seenAge EXCEPT ![k] = 0]
    /\ tried' = tried \union {r}
    /\ UNCHANGED <<load, bucket, slots>>

\* TokenBucket.Allow of the global rate; a refusal leads to the deferred release.
Allow(r) ==
    LET refilled == Refill(bucket.tokens, bucket.age, RatePerTick, RateBurst) IN
    /\ stage[r] = "admitted"
    /\ IF refilled < 1
       THEN stage' = [stage EXCEPT ![r] = "leaving"] /\ bucket' = [tokens |-> refilled, age |-> 0]
       ELSE stage' = [stage EXCEPT ![r] = "allowed"] /\ bucket' = [tokens |-> refilled - 1, age |-> 0]
    /\ UNCHANGED <<load, states, recent, previous, slots, seenAge, tried>>

TakeSlot(r) ==
    /\ stage[r] = "allowed"
    /\ IF slots < IngressLimit
       THEN stage' = [stage EXCEPT ![r] = "holding"] /\ slots' = slots + 1
       ELSE stage' = [stage EXCEPT ![r] = "leaving"] /\ UNCHANGED slots
    /\ UNCHANGED <<load, states, recent, previous, bucket, seenAge, tried>>

\* The request is served and its slot given back.
Serve(r) ==
    /\ stage[r] = "holding"
    /\ stage' = [stage EXCEPT ![r] = "leaving"] /\ slots' = slots - 1
    /\ UNCHANGED <<load, states, recent, previous, bucket, seenAge, tried>>

\* KeyedAdmissionLimiter.Release, which panics on a key without work.
Release(r) ==
    /\ stage[r] = "leaving" /\ load[r] \in Tracked
    /\ stage' = [stage EXCEPT ![r] = "out"]
    /\ states' = [states EXCEPT ![load[r]].inFlight = @ - 1]
    /\ UNCHANGED <<load, recent, previous, bucket, slots, seenAge, tried>>

\* The clock.  An admission is a matter of microseconds, so it ends within the
\* tick it began in; the quiet caller retries in every tick.
AdmTick ==
    /\ \A r \in Requests : stage[r] \in {"out", "holding"}
    /\ stage[QuietCaller] = "out" => QuietCaller \in tried
    /\ tried' = {}
    /\ states' = [k \in Tracked |-> [states[k] EXCEPT !.age = Older(@)]]
    /\ recent' = [recent EXCEPT !.age = Older(@)] /\ previous' = [previous EXCEPT !.age = Older(@)]
    /\ bucket' = [bucket EXCEPT !.age = Older(@)]
    /\ seenAge' = [k \in Keys |-> Older(seenAge[k])]
    /\ UNCHANGED <<load, stage, slots>>

Caller(r) == Allow(r) \/ TakeSlot(r) \/ Serve(r) \/ Release(r)
AdmNext == (\E r \in DOMAIN load : TryAcquire(r) \/ Caller(r)) \/ AdmTick

\* Handlers run to their end; the quiet caller retries; time passes.
AdmFairness ==
    /\ \A r \in Requests : WF_admvars(Caller(r))
    /\ WF_admvars(TryAcquire(QuietCaller)) /\ WF_admvars(AdmTick)

AdmSpec == AdmInit /\ [][AdmNext]_admvars /\ AdmFairness

(***************************************************************************)
(* Properties.                                                             *)
(***************************************************************************)
\* The types of the variables; no bucket holds more than its burst.
AdmTypeOK ==
    /\ load \in Loads
    /\ stage \in [Requests -> {"out", "admitted", "allowed", "holding", "leaving"}]
    /\ Tracked \subseteq Keys
    /\ \A k \in Tracked : states[k] \in [inFlight : Nat, tokens : 0..RateBurst, age : 0..MaxAge]
    /\ \A s \in {recent, previous} : s \in [key : Keys \union {NoKey}, age : 0..MaxAge]
    /\ bucket \in [tokens : 0..RateBurst, age : 0..MaxAge]
    /\ slots \in 0..IngressLimit
    /\ seenAge \in [Keys -> 0..MaxAge] /\ tried \subseteq Requests

Working(k) == {r \in DOMAIN load : load[r] = k /\ stage[r] # "out"}

\* A key's inFlight is the number of its requests between TryAcquire and
\* Release, also when the sweep of idle keys ran in between: Release never finds
\* its key gone, which would panic.
SweepKeepsWork ==
    \A k \in Keys : Cardinality(Working(k)) = IF k \in Tracked THEN states[k].inFlight ELSE 0

\* No request is admitted above the fair share while any other key was observed
\* within the contention window, although the limiter remembers two keys only.
FairShareUnderContention ==
    [][\A k \in Keys :
        Cardinality(Working(k)') > Cardinality(Working(k)) /\ Cardinality(Working(k)') > FairnessShare(IngressLimit)
            => \A other \in Keys \ {k} : seenAge[other] > Window]_admvars

\* docs/runtime/gateway.md: next to one key that asks for everything, a caller
\* that retries within the contention window gets through the key's limit, the
\* global rate and the slots again and again.  Two such keys may starve it: their
\* fair shares together exceed the whole.
NeighbourProgresses ==
    Cardinality({load[r] : r \in DOMAIN load}) = 2 => []<>(stage[QuietCaller] = "holding")

\* The limiter shares the slots: a busy key stays at its share while others
\* ask, and a quiet neighbour is served.
FairShares == FairShareUnderContention /\ NeighbourProgresses
=============================================================================
