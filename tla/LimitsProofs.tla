---------------------------- MODULE LimitsProofs ----------------------------
(***************************************************************************)
(* What the Gateway bounds, for any number of callers, producers and       *)
(* signals: the keyed limiter counts the work it admitted and shares its   *)
(* room, and the status exporter's queue accounts for every signal.        *)
(***************************************************************************)
EXTENDS Admission, StatusExporter, FiniteSetTheorems, TLAPS

-----------------------------------------------------------------------------
(* Admission: the keyed limiter.                                           *)

InFlight(k) == IF k \in Tracked THEN states[k].inFlight ELSE 0

KeyStates == [inFlight : Nat, tokens : Int, age : Nat]

AdmTypes ==
    /\ load \in Loads
    /\ stage \in [Requests -> {"out", "admitted", "allowed", "holding", "leaving"}]
    /\ states \in [Tracked -> KeyStates]
    /\ seenAge \in [Keys -> Nat]
    /\ recent \in [key : Keys \union {NoKey}, age : Nat]
    /\ previous \in [key : Keys \union {NoKey}, age : Nat]

(* What is in flight of a key is what its requests hold.                   *)
WorkCounted ==
    \A k \in Keys : IsFiniteSet(Working(k)) /\ Cardinality(Working(k)) = InFlight(k)

(* The two keys the limiter remembers are the two it observed last.        *)
RemembersLastTwo ==
    \A k \in Keys : seenAge[k] <= Window =>
        /\ recent.key # NoKey /\ recent.age <= seenAge[k]
        /\ k # recent.key => /\ previous.key \notin {NoKey, recent.key}
                             /\ previous.age <= seenAge[k]

(* The inductive invariant of the keyed limiter.                           *)
AdmInv == AdmTypes /\ WorkCounted /\ RemembersLastTwo

(* Ages are capped one tick past the contention window, which keeps their *)
(* order (observedKey's age, gatewayresources).                            *)
LEMMA AgesAreNat ==
  /\ MaxAge \in Nat /\ MaxAge > Window
  /\ \A n \in Nat : Older(n) \in Nat
  /\ \A m, n \in Nat : m <= n => Older(m) <= Older(n)
  /\ \A n \in Nat : Older(n) <= Window => n <= Window
BY AdmissionLimits DEF MaxAge, Older, SmallerOf

(* A key's allowance, whole or shared, is a number; the shared one is the  *)
(* fair share of the whole.                                                *)
LEMMA AllowanceTypes ==
  ASSUME NEW contended \in BOOLEAN
  PROVE  /\ Allowance(contended).inFlight =
              IF contended THEN FairnessShare(IngressLimit) ELSE IngressLimit
         /\ Allowance(contended).inFlight \in Nat
         /\ Allowance(contended).rate \in Nat /\ Allowance(contended).burst \in Nat
<1>1. ASSUME NEW g \in Nat PROVE FairnessShare(g) \in Nat
  BY DEF FairnessShare
<1>2. FairnessShare(IngressLimit) \in Nat /\ FairnessShare(RatePerTick) \in Nat /\ FairnessShare(RateBurst) \in Nat
  BY <1>1, AdmissionLimits
<1>3. CASE contended
  <2>1. Allowance(contended) = [x \in DOMAIN Whole |-> FairnessShare(Whole[x])]
    BY <1>3 DEF Allowance
  <2>2. DOMAIN Whole = {"inFlight", "rate", "burst"}
    BY DEF Whole
  <2>3. Whole["inFlight"] = IngressLimit /\ Whole["rate"] = RatePerTick /\ Whole["burst"] = RateBurst
    BY DEF Whole
  <2> QED
    BY <1>2, <1>3, <2>1, <2>2, <2>3, Zenon
<1>4. CASE ~contended
  BY <1>4, AdmissionLimits DEF Allowance, Whole
<1> QED
  BY <1>3, <1>4

(* The state a key is looked up in, after a new key is entered and the     *)
(* sweep has run: no key's work in flight has changed.                     *)
LEMMA SweepKeepsInFlight ==
  ASSUME AdmTypes, NEW k \in Keys
  PROVE  /\ WithState(k) \in [DOMAIN WithState(k) -> KeyStates]
         /\ k \in DOMAIN WithState(k)
         /\ WithState(k)[k].inFlight = InFlight(k)
         /\ \A x \in Keys : (IF x \in DOMAIN WithState(k) THEN WithState(k)[x].inFlight ELSE 0) = InFlight(x)
<1> USE DEF Tracked
<1>1. CASE k \in Tracked
  BY <1>1 DEF WithState, AdmTypes, InFlight
<1>2. CASE k \notin Tracked
  <2> DEFINE with == [x \in Tracked \union {k} |-> IF x = k THEN Fresh ELSE states[x]]
  <2>1. Fresh \in KeyStates /\ Fresh.inFlight = 0
    BY AdmissionLimits DEF Fresh, KeyStates
  <2>2. /\ DOMAIN with = Tracked \union {k} /\ with \in [DOMAIN with -> KeyStates]
        /\ with[k] = Fresh /\ \A x \in Tracked : with[x] = states[x]
    BY <1>2, <2>1 DEF AdmTypes
  <2>3. WithState(k) = Swept(with, k)
    BY <1>2 DEF WithState
  <2> HIDE DEF with
  <2>4. CASE Cardinality(DOMAIN with) <= MaxTrackedKeys
    <3>1. WithState(k) = with
      BY <2>3, <2>4 DEF Swept
    <3> QED
      BY <1>2, <2>1, <2>2, <3>1 DEF InFlight
  <2>5. CASE ~(Cardinality(DOMAIN with) <= MaxTrackedKeys)
    <3>1. WithState(k) = [x \in {y \in DOMAIN with : with[y].inFlight > 0 \/ y = k} |-> with[x]]
      BY <2>3, <2>5 DEF Swept
    <3>2. k \in DOMAIN WithState(k) /\ WithState(k) \in [DOMAIN WithState(k) -> KeyStates]
      BY <2>2, <3>1
    <3>3. ASSUME NEW x \in Keys
          PROVE (IF x \in DOMAIN WithState(k) THEN WithState(k)[x].inFlight ELSE 0) = InFlight(x)
      <4>1. CASE x = k
        BY <1>2, <2>1, <2>2, <3>1, <4>1 DEF InFlight
      <4>2. CASE x # k /\ x \in Tracked
        <5>1. with[x] = states[x] /\ states[x].inFlight \in Nat
          BY <2>2, <4>2 DEF AdmTypes, KeyStates
        <5> QED
          BY <2>2, <3>1, <4>2, <5>1 DEF InFlight
      <4>3. CASE x # k /\ x \notin Tracked
        BY <2>2, <3>1, <4>3 DEF InFlight
      <4> QED
        BY <4>1, <4>2, <4>3
    <3> QED
      BY <3>2, <3>3, <1>2
  <2> QED
    BY <2>4, <2>5
<1> QED
  BY <1>1, <1>2

(* TryAcquire counts the request it admits under its key, and touches no   *)
(* other key's count.                                                      *)
LEMMA AcquireCounts ==
  ASSUME AdmTypes, NEW r \in DOMAIN load, TryAcquire(r)
  PROVE  /\ load[r] \in Keys /\ r \in Requests /\ UNCHANGED load
         /\ states' \in [DOMAIN states' -> KeyStates]
         /\ \A x \in Keys \ {load[r]} : InFlight(x)' = InFlight(x)
         /\ \/ UNCHANGED stage /\ InFlight(load[r])' = InFlight(load[r])
            \/ /\ stage[r] = "out" /\ stage' = [stage EXCEPT ![r] = "admitted"]
               /\ InFlight(load[r])' = InFlight(load[r]) + 1
               /\ OtherKeyRecentlySeen(load[r]) => InFlight(load[r]) < FairnessShare(IngressLimit)
         /\ ObserveKey(load[r]) /\ seenAge' = [seenAge EXCEPT ![load[r]] = 0]
<1>1. load[r] \in Keys /\ r \in Requests
  BY AdmissionLimits DEF AdmTypes
<1>2. PICK k \in Keys : k = load[r]
  BY <1>1
<1>3. PICK known : known = WithState(k)
  OBVIOUS
<1>4. PICK allowance : allowance = Allowance(OtherKeyRecentlySeen(k))
  OBVIOUS
<1>5. /\ allowance.inFlight \in Nat /\ allowance.rate \in Nat /\ allowance.burst \in Nat
      /\ OtherKeyRecentlySeen(k) => allowance.inFlight = FairnessShare(IngressLimit)
  <2>1. OtherKeyRecentlySeen(k) \in BOOLEAN
    BY DEF OtherKeyRecentlySeen
  <2> QED
    BY <1>4, <2>1, AllowanceTypes
<1>6. /\ known \in [DOMAIN known -> KeyStates] /\ k \in DOMAIN known /\ known[k].inFlight = InFlight(k)
      /\ \A x \in Keys : (IF x \in DOMAIN known THEN known[x].inFlight ELSE 0) = InFlight(x)
  BY <1>3, SweepKeepsInFlight
<1>7. known[k].inFlight \in Nat /\ known[k].tokens \in Int /\ known[k].age \in Nat /\ known[k] \in KeyStates
  BY <1>6 DEF KeyStates
<1>8. PICK refilled \in Int : refilled = Refill(known[k].tokens, known[k].age, allowance.rate, allowance.burst)
  <2>1. known[k].age * allowance.rate \in Int
    BY <1>5, <1>7
  <2>2. Refill(known[k].tokens, known[k].age, allowance.rate, allowance.burst) \in Int
    BY <1>5, <1>7, <2>1 DEF Refill, SmallerOf
  <2> QED
    BY <2>2
<1>9. /\ ObserveKey(k) /\ seenAge' = [seenAge EXCEPT ![k] = 0] /\ UNCHANGED load
      /\ stage[r] = "out"
      /\ \/ /\ states' = known /\ UNCHANGED stage
         \/ /\ states' = [known EXCEPT ![k].tokens = refilled, ![k].age = 0] /\ UNCHANGED stage
         \/ /\ known[k].inFlight < allowance.inFlight
            /\ states' = [known EXCEPT ![k] = [inFlight |-> @.inFlight + 1, tokens |-> refilled - 1, age |-> 0]]
            /\ stage' = [stage EXCEPT ![r] = "admitted"]
  BY <1>2, <1>3, <1>4, <1>5, <1>7, <1>8 DEF TryAcquire
<1>10. ASSUME NEW s \in KeyStates, states' = [known EXCEPT ![k] = s]
       PROVE  /\ states' \in [DOMAIN states' -> KeyStates]
              /\ \A x \in Keys \ {k} : InFlight(x)' = InFlight(x)
              /\ InFlight(k)' = s.inFlight
  BY <1>6, <1>10 DEF InFlight, Tracked
<1>11. CASE states' = known /\ UNCHANGED stage
  BY <1>1, <1>2, <1>6, <1>9, <1>11 DEF InFlight, Tracked
<1>12. CASE states' = [known EXCEPT ![k].tokens = refilled, ![k].age = 0] /\ UNCHANGED stage
  <2>1. PICK s : s = [known[k] EXCEPT !.tokens = refilled, !.age = 0]
    OBVIOUS
  <2>2. s \in KeyStates /\ s.inFlight = known[k].inFlight
    BY <1>7, <2>1, Zenon DEF KeyStates
  <2>3. states' = [known EXCEPT ![k] = s]
    BY <1>6, <1>12, <2>1, Zenon
  <2> QED
    BY <1>1, <1>2, <1>6, <1>9, <1>10, <1>12, <2>2, <2>3, Zenon
<1>13. CASE /\ known[k].inFlight < allowance.inFlight
            /\ states' = [known EXCEPT ![k] = [inFlight |-> @.inFlight + 1, tokens |-> refilled - 1, age |-> 0]]
            /\ stage' = [stage EXCEPT ![r] = "admitted"]
  <2>1. PICK s : s = [inFlight |-> known[k].inFlight + 1, tokens |-> refilled - 1, age |-> 0]
    OBVIOUS
  <2>2. s \in KeyStates /\ s.inFlight = known[k].inFlight + 1
    BY <1>7, <2>1 DEF KeyStates
  <2>3. states' = [known EXCEPT ![k] = s]
    BY <1>6, <1>13, <2>1
  <2> QED
    BY <1>1, <1>2, <1>5, <1>6, <1>9, <1>10, <1>13, <2>2, <2>3, Zenon
<1> QED
  BY <1>9, <1>11, <1>12, <1>13

(* Who works for a key after a caller has moved on.                        *)
LEMMA WorkingMoves ==
  ASSUME AdmTypes, NEW r \in DOMAIN load, NEW s, stage' = [stage EXCEPT ![r] = s], UNCHANGED load
  PROVE  /\ \A x : x # load[r] => Working(x)' = Working(x)
         /\ stage[r] # "out" /\ s # "out" => Working(load[r])' = Working(load[r])
         /\ stage[r] # "out" /\ s = "out" =>
              r \in Working(load[r]) /\ Working(load[r])' = Working(load[r]) \ {r}
<1>1. DOMAIN load \subseteq Requests
  BY AdmissionLimits DEF AdmTypes
<1>2. \A q \in DOMAIN load : stage'[q] = IF q = r THEN s ELSE stage[q]
  BY <1>1 DEF AdmTypes
<1> QED
  BY <1>2 DEF Working

(* A new limiter has no key and no work.                                   *)
LEMMA InitAdmission == AdmInit => AdmInv
<1> SUFFICES ASSUME AdmInit PROVE AdmInv
  OBVIOUS
<1>1. AdmTypes
  BY AgesAreNat DEF AdmInit, AdmTypes, Tracked
<1>2. WorkCounted
  <2>1. ASSUME NEW k \in Keys PROVE Working(k) = {} /\ InFlight(k) = 0
    BY AdmissionLimits DEF AdmInit, Working, InFlight, Tracked
  <2> QED
    BY <2>1, FS_EmptySet DEF WorkCounted
<1>3. RemembersLastTwo
  BY AgesAreNat, AdmissionLimits DEF AdmInit, RemembersLastTwo
<1> QED
  BY <1>1, <1>2, <1>3 DEF AdmInv

(* observeKey keeps the two keys seen last.                                *)
LEMMA ObservedRemembered ==
  ASSUME AdmTypes, RemembersLastTwo, NEW k \in Keys, ObserveKey(k), seenAge' = [seenAge EXCEPT ![k] = 0]
  PROVE  /\ RemembersLastTwo' /\ seenAge' \in [Keys -> Nat]
         /\ recent' \in [key : Keys \union {NoKey}, age : Nat]
         /\ previous' \in [key : Keys \union {NoKey}, age : Nat]
<1>1. /\ recent' = [key |-> k, age |-> 0] /\ previous' = IF recent.key = k THEN previous ELSE recent
      /\ k # NoKey
  BY AdmissionLimits DEF ObserveKey
<1>2. recent'.key = k /\ recent'.age = 0
  BY <1>1
<1>3. ASSUME NEW x \in Keys, seenAge'[x] <= Window
      PROVE  /\ recent'.key # NoKey /\ recent'.age <= seenAge'[x]
             /\ x # recent'.key => /\ previous'.key \notin {NoKey, recent'.key}
                                   /\ previous'.age <= seenAge'[x]
  <2>1. CASE x = k
    BY <1>1, <1>2, <2>1 DEF AdmTypes
  <2>2. CASE x # k
    <3>1. seenAge'[x] = seenAge[x] /\ seenAge[x] \in Nat
      BY <2>2 DEF AdmTypes
    <3> QED
      BY <1>1, <1>2, <1>3, <2>2, <3>1 DEF RemembersLastTwo
  <2> QED
    BY <2>1, <2>2
<1> QED
  BY <1>1, <1>3 DEF RemembersLastTwo, AdmTypes

(* Every step of a caller and of the clock keeps the invariant.            *)
LEMMA StepAdmission == AdmInv /\ [AdmNext]_admvars => AdmInv'
<1> SUFFICES ASSUME AdmInv, [AdmNext]_admvars PROVE AdmInv'
  OBVIOUS
<1> USE DEF AdmInv
<1>1. ASSUME NEW r \in DOMAIN load, TryAcquire(r) PROVE AdmInv'
  <2>1. PICK k \in Keys : k = load[r]
    BY <1>1, AcquireCounts
  <2>2. /\ r \in Requests /\ UNCHANGED load
        /\ states' \in [DOMAIN states' -> KeyStates]
        /\ \A x \in Keys \ {k} : InFlight(x)' = InFlight(x)
        /\ \/ UNCHANGED stage /\ InFlight(k)' = InFlight(k)
           \/ /\ stage[r] = "out" /\ stage' = [stage EXCEPT ![r] = "admitted"]
              /\ InFlight(k)' = InFlight(k) + 1
        /\ ObserveKey(k) /\ seenAge' = [seenAge EXCEPT ![k] = 0]
    BY <1>1, <2>1, AcquireCounts
  <2>3. /\ RemembersLastTwo' /\ seenAge' \in [Keys -> Nat]
        /\ recent' \in [key : Keys \union {NoKey}, age : Nat]
        /\ previous' \in [key : Keys \union {NoKey}, age : Nat]
    BY <2>2, ObservedRemembered, Zenon
  <2>4. AdmTypes'
    BY <2>2, <2>3 DEF AdmTypes, Tracked
  <2>5. CASE UNCHANGED stage /\ InFlight(k)' = InFlight(k)
    <3>1. ASSUME NEW x \in Keys PROVE Working(x)' = Working(x) /\ InFlight(x)' = InFlight(x)
      <4>1. Working(x)' = Working(x)
        BY <2>2, <2>5 DEF Working
      <4> QED
        BY <2>2, <2>5, <4>1
    <3> QED
      BY <2>3, <2>4, <3>1 DEF WorkCounted
  <2>6. CASE /\ stage[r] = "out" /\ stage' = [stage EXCEPT ![r] = "admitted"]
             /\ InFlight(k)' = InFlight(k) + 1
    <3>1. /\ \A x \in Keys \ {k} : Working(x)' = Working(x)
          /\ r \notin Working(k) /\ Working(k)' = Working(k) \union {r}
      <4>1. UNCHANGED load /\ stage' = [stage EXCEPT ![r] = "admitted"] /\ stage[r] = "out"
        BY <2>2, <2>6
      <4>2. \A q \in DOMAIN load : stage'[q] = IF q = r THEN "admitted" ELSE stage[q]
        BY <4>1, AdmissionLimits DEF AdmTypes
      <4> QED
        BY <2>1, <4>1, <4>2 DEF Working
    <3>2. IsFiniteSet(Working(k)) /\ Cardinality(Working(k)) = InFlight(k)
      BY DEF WorkCounted
    <3>3. IsFiniteSet(Working(k)') /\ Cardinality(Working(k)') = Cardinality(Working(k)) + 1
      BY <3>1, <3>2, FS_AddElement
    <3>4. ASSUME NEW x \in Keys
          PROVE  IsFiniteSet(Working(x)') /\ Cardinality(Working(x)') = InFlight(x)'
      <4>1. CASE x = k
        BY <2>6, <3>2, <3>3, <4>1
      <4>2. CASE x # k
        BY <2>2, <3>1, <4>2 DEF WorkCounted
      <4> QED
        BY <4>1, <4>2
    <3> QED
      BY <2>3, <2>4, <3>4 DEF WorkCounted
  <2> QED
    BY <2>2, <2>5, <2>6
<1>2. ASSUME NEW r \in DOMAIN load, Allow(r) \/ TakeSlot(r) \/ Serve(r) PROVE AdmInv'
  <2>1. /\ stage[r] # "out" /\ UNCHANGED <<load, states, recent, previous, seenAge>>
        /\ \E s \in {"allowed", "holding", "leaving"} : stage' = [stage EXCEPT ![r] = s]
    BY <1>2 DEF Allow, TakeSlot, Serve
  <2>2. PICK s \in {"allowed", "holding", "leaving"} : stage' = [stage EXCEPT ![r] = s]
    BY <2>1, Zenon
  <2>3. \A x \in Keys : Working(x)' = Working(x) /\ InFlight(x)' = InFlight(x)
    BY <2>1, <2>2, WorkingMoves, Zenon DEF InFlight, Tracked
  <2>4. AdmTypes'
    BY <2>1, <2>2, Zenon DEF AdmTypes, Tracked
  <2>5. RemembersLastTwo'
    BY <2>1 DEF RemembersLastTwo
  <2> QED
    BY <2>3, <2>4, <2>5 DEF WorkCounted
<1>3. ASSUME NEW r \in DOMAIN load, Release(r) PROVE AdmInv'
  <2>1. PICK k \in Keys : k = load[r]
    BY AdmissionLimits DEF AdmTypes
  <2>2. /\ stage[r] # "out" /\ k \in Tracked /\ UNCHANGED <<load, recent, previous, seenAge>>
        /\ stage' = [stage EXCEPT ![r] = "out"]
        /\ states' = [states EXCEPT ![k].inFlight = @ - 1]
    BY <1>3, <2>1 DEF Release
  <2>3. /\ \A x \in Keys \ {k} : Working(x)' = Working(x)
        /\ r \in Working(k) /\ Working(k)' = Working(k) \ {r}
    BY <2>1, <2>2, WorkingMoves, Zenon
  <2>4. IsFiniteSet(Working(k)) /\ Cardinality(Working(k)) = states[k].inFlight
    BY <2>2 DEF WorkCounted, InFlight
  <2>5. /\ IsFiniteSet(Working(k)') /\ Cardinality(Working(k)') = Cardinality(Working(k)) - 1
        /\ Cardinality(Working(k)') \in Nat
    BY <2>3, <2>4, FS_RemoveElement, FS_CardinalityType
  <2>6. PICK s : s = [states[k] EXCEPT !.inFlight = @ - 1]
    OBVIOUS
  <2>7. s \in KeyStates /\ s.inFlight = Cardinality(Working(k)')
    BY <2>2, <2>4, <2>5, <2>6 DEF AdmTypes, KeyStates
  <2>8. states' = [states EXCEPT ![k] = s]
    BY <2>2, <2>6 DEF AdmTypes
  <2>9. AdmTypes'
    BY <2>2, <2>7, <2>8, Zenon DEF AdmTypes, Tracked
  <2>10. ASSUME NEW x \in Keys
         PROVE  IsFiniteSet(Working(x)') /\ Cardinality(Working(x)') = InFlight(x)'
    <3>1. CASE x = k
      BY <2>2, <2>5, <2>7, <2>8, <3>1 DEF InFlight, Tracked, AdmTypes
    <3>2. CASE x # k
      BY <2>3, <2>8, <3>2 DEF WorkCounted, InFlight, Tracked, AdmTypes
    <3> QED
      BY <3>1, <3>2
  <2>11. RemembersLastTwo'
    BY <2>2 DEF RemembersLastTwo
  <2> QED
    BY <2>9, <2>10, <2>11 DEF WorkCounted
<1>4. CASE AdmTick
  <2>1. /\ UNCHANGED <<load, stage>> /\ states' = [k \in Tracked |-> [states[k] EXCEPT !.age = Older(@)]]
        /\ recent' = [recent EXCEPT !.age = Older(@)] /\ previous' = [previous EXCEPT !.age = Older(@)]
        /\ seenAge' = [k \in Keys |-> Older(seenAge[k])]
    BY <1>4 DEF AdmTick
  <2>2. ASSUME NEW k \in Tracked
        PROVE  states'[k] \in KeyStates /\ states'[k].inFlight = states[k].inFlight
    BY <2>1, AgesAreNat DEF AdmTypes, KeyStates
  <2>3. DOMAIN states' = Tracked
    BY <2>1
  <2>4. /\ recent'.key = recent.key /\ recent'.age = Older(recent.age)
        /\ previous'.key = previous.key /\ previous'.age = Older(previous.age)
    BY <2>1 DEF AdmTypes
  <2>5. AdmTypes'
    <3>1. states' \in [Tracked' -> KeyStates]
      BY <2>1, <2>2, <2>3 DEF Tracked
    <3>2. seenAge' \in [Keys -> Nat]
      BY <2>1, AgesAreNat DEF AdmTypes
    <3>3. /\ recent' \in [key : Keys \union {NoKey}, age : Nat]
          /\ previous' \in [key : Keys \union {NoKey}, age : Nat]
      BY <2>1, AgesAreNat, Zenon DEF AdmTypes
    <3> QED
      BY <2>1, <3>1, <3>2, <3>3 DEF AdmTypes
  <2>6. WorkCounted'
    <3>1. \A x \in Keys : Working(x)' = Working(x) /\ InFlight(x)' = InFlight(x)
      BY <2>1, <2>2, <2>3 DEF Working, InFlight, Tracked
    <3> QED
      BY <3>1 DEF WorkCounted
  <2>7. RemembersLastTwo'
    <3> SUFFICES ASSUME NEW k \in Keys, seenAge'[k] <= Window
                 PROVE  /\ recent'.key # NoKey /\ recent'.age <= seenAge'[k]
                        /\ k # recent'.key => /\ previous'.key \notin {NoKey, recent'.key}
                                              /\ previous'.age <= seenAge'[k]
      BY DEF RemembersLastTwo
    <3>1. seenAge[k] \in Nat /\ recent.age \in Nat /\ previous.age \in Nat /\ seenAge'[k] = Older(seenAge[k])
      BY <2>1 DEF AdmTypes
    <3>2. seenAge[k] <= Window
      BY <3>1, AgesAreNat
    <3> QED
      BY <2>4, <3>1, <3>2, AgesAreNat DEF RemembersLastTwo
  <2> QED
    BY <2>5, <2>6, <2>7
<1>5. CASE UNCHANGED admvars
  <2>1. AdmTypes' /\ RemembersLastTwo'
    BY <1>5, Zenon DEF admvars, AdmTypes, RemembersLastTwo, Tracked
  <2>2. WorkCounted'
    BY <1>5 DEF admvars, WorkCounted, Working, InFlight, Tracked
  <2> QED
    BY <2>1, <2>2
<1> QED
  BY <1>1, <1>2, <1>3, <1>4, <1>5 DEF AdmNext, Caller

(* The keyed limiter counts exactly the requests between TryAcquire and    *)
(* Release, for any keys, callers and limits: the sweep never drops a key  *)
(* that has work, so Release never panics.                                 *)
THEOREM LimiterCountsWork == AdmSpec => []SweepKeepsWork
<1>1. AdmInv => SweepKeepsWork
  BY DEF AdmInv, WorkCounted, InFlight, SweepKeepsWork
<1> QED
  BY <1>1, InitAdmission, StepAdmission, PTL DEF AdmSpec

(* TryAcquire admits nothing above FairnessShare while any other key was   *)
(* seen within the contention window, although the limiter remembers only  *)
(* the two keys it saw last.                                               *)
THEOREM FairShareHolds == AdmSpec => FairShareUnderContention
<1>1. AdmInv /\ [AdmNext]_admvars =>
        [\A k \in Keys :
           Cardinality(Working(k)') > Cardinality(Working(k)) /\ Cardinality(Working(k)') > FairnessShare(IngressLimit)
             => \A other \in Keys \ {k} : seenAge[other] > Window]_admvars
  <2> SUFFICES ASSUME AdmInv, AdmNext, NEW k \in Keys,
                      Cardinality(Working(k)') > Cardinality(Working(k)),
                      Cardinality(Working(k)') > FairnessShare(IngressLimit),
                      NEW other \in Keys \ {k}
               PROVE  seenAge[other] > Window
    OBVIOUS
  <2>1. AdmInv'
    BY StepAdmission
  <2>2. Cardinality(Working(k)) = InFlight(k) /\ Cardinality(Working(k)') = InFlight(k)'
    BY <2>1 DEF AdmInv, WorkCounted
  <2>3. /\ InFlight(k) \in Nat /\ InFlight(k)' \in Nat
    BY <2>1 DEF AdmInv, AdmTypes, InFlight, Tracked, KeyStates
  <2>4. PICK r \in DOMAIN load : TryAcquire(r)
    <3>1. ASSUME NEW r \in DOMAIN load, Caller(r) PROVE ~(InFlight(k)' > InFlight(k))
      <4>1. CASE Release(r)
        <5>1. states' = [states EXCEPT ![load[r]].inFlight = @ - 1] /\ states \in [Tracked -> KeyStates]
          BY <4>1, Zenon DEF Release, AdmInv, AdmTypes
        <5> QED
          BY <5>1 DEF InFlight, Tracked, KeyStates
      <4>2. CASE ~Release(r)
        BY <2>3, <3>1, <4>2 DEF Caller, Allow, TakeSlot, Serve, InFlight, Tracked
      <4> QED
        BY <4>1, <4>2
    <3>2. ASSUME AdmTick PROVE ~(InFlight(k)' > InFlight(k))
      BY <2>3, <3>2 DEF AdmTick, InFlight, Tracked, AdmInv, AdmTypes, KeyStates
    <3> QED
      BY <2>2, <3>1, <3>2 DEF AdmNext
  <2>5. k = load[r]
    BY <2>2, <2>3, <2>4, AcquireCounts DEF AdmInv
  <2>6. /\ InFlight(k)' = InFlight(k) + 1
        /\ OtherKeyRecentlySeen(k) => InFlight(k) < FairnessShare(IngressLimit)
    BY <2>2, <2>3, <2>4, <2>5, AcquireCounts DEF AdmInv
  <2>7. ~OtherKeyRecentlySeen(k)
    <3>1. FairnessShare(IngressLimit) \in Nat
      BY AdmissionLimits DEF FairnessShare
    <3> QED
      BY <2>2, <2>3, <2>6, <3>1
  <2>8. ~(seenAge[other] <= Window)
    <3> SUFFICES ASSUME seenAge[other] <= Window PROVE OtherKeyRecentlySeen(k)
      BY <2>7
    <3>1. /\ recent.key # NoKey /\ recent.age <= seenAge[other]
          /\ other # recent.key => /\ previous.key \notin {NoKey, recent.key}
                                   /\ previous.age <= seenAge[other]
          /\ recent.age \in Nat /\ previous.age \in Nat /\ seenAge[other] \in Nat
      BY DEF AdmInv, RemembersLastTwo, AdmTypes
    <3>2. CASE recent.key # k
      <4>1. recent.age <= Window
        BY <3>1, AdmissionLimits
      <4> QED
        BY <3>1, <3>2, <4>1 DEF OtherKeyRecentlySeen
    <3>3. CASE recent.key = k
      <4>1. previous.key \notin {NoKey, k} /\ previous.age <= Window
        BY <3>1, <3>3, AdmissionLimits
      <4> QED
        BY <4>1 DEF OtherKeyRecentlySeen
    <3> QED
      BY <3>2, <3>3
  <2> QED
    BY <2>8, AdmissionLimits DEF AdmInv, AdmTypes
<1> QED
  BY <1>1, InitAdmission, StepAdmission, PTL DEF AdmSpec, FairShareUnderContention
----------------------------------------------------------------------------
(* The status exporter.                                                    *)

ExpLocal ==
    /\ offered \in Nat /\ queued \in Nat /\ stuck \in Nat /\ timedOut \in BOOLEAN
    /\ dropped \in Nat /\ failures \in Nat /\ delivered \in Nat
    /\ offering \in [Producers -> {"idle", "checked", "locked"}]
    /\ loop \in {"top", "wait", "emit", "sent", "drain", "stopped"}

(* Who holds the read lock keeps close out, the loop drains only after it, *)
(* and a call of the sink is only started while none has timed out.        *)
ExpOrder ==
    /\ \A p \in Producers : offering[p] = "locked" => ~Closed
    /\ loop \in {"drain", "stopped"} => Closed
    /\ loop = "sent" => ~timedOut
    /\ stuck > 0 => timedOut

(* The inductive invariant of the exporter.                                *)
ExpInv == ExpLocal /\ ExpOrder /\ SignalsKept

(* A new exporter has an empty queue and zero counters.                    *)
LEMMA InitExporter == ExpInit => ExpInv
<1> SUFFICES ASSUME ExpInit PROVE ExpInv
  OBVIOUS
<1>1. ExpLocal
  BY Zenon DEF ExpInit, ExpLocal
<1>2. ExpOrder
  BY DEF ExpInit, ExpOrder, Closed
<1>3. SignalsKept
  BY DEF ExpInit, SignalsKept, SignalsAccounted, OneStuckEmit, StoppedIsEmpty
<1> QED
  BY <1>1, <1>2, <1>3 DEF ExpInv

(* Every step of enqueue, run, emit and close keeps the invariant.         *)
LEMMA StepExporter == ExpInv /\ [ExpNext]_expvars => ExpInv'
<1> SUFFICES ASSUME ExpInv, [ExpNext]_expvars PROVE ExpInv'
  OBVIOUS
<1> USE DEF ExpInv, ExpLocal, ExpOrder, SignalsKept, SignalsAccounted, OneStuckEmit,
            StoppedIsEmpty, Closed, counters
<1>1. ASSUME NEW p \in Producers, Offer(p) PROVE ExpInv'
  BY <1>1 DEF Offer, Dropped
<1>2. ASSUME NEW p \in Producers, OfferLocked(p) PROVE ExpInv'
  BY <1>2 DEF OfferLocked, Dropped
<1>3. ASSUME NEW p \in Producers, Enqueue(p) PROVE ExpInv'
  BY <1>3 DEF Enqueue, Dropped
<1>4. CASE Top
  BY <1>4 DEF Top, Loop
<1>5. CASE Wait
  BY <1>5 DEF Wait, Loop
<1>6. CASE Emit
  BY <1>6 DEF Emit, Loop
<1>7. CASE SinkAnswers
  BY <1>7 DEF SinkAnswers, Loop
<1>8. CASE EmitTimesOut
  BY <1>8 DEF EmitTimesOut, Loop
<1>9. CASE DropQueued
  BY <1>9 DEF DropQueued, Loop
<1>10. CASE StuckReturns
  BY <1>10 DEF StuckReturns
<1>11. CASE Close
  BY <1>11 DEF Close, OnlyCloser
<1>12. CASE CloseReturns
  BY <1>12 DEF CloseReturns, OnlyCloser
<1>13. CASE CloseGivesUp
  BY <1>13 DEF CloseGivesUp, OnlyCloser
<1>14. CASE UNCHANGED expvars
  BY <1>14 DEF expvars
<1> QED
  BY <1>1, <1>2, <1>3, <1>4, <1>5, <1>6, <1>7, <1>8, <1>9, <1>10, <1>11, <1>12, <1>13, <1>14, Zenon
     DEF ExpNext, Offering, RunLoop

(* No status signal is lost unaccounted, at most one call of the sink is   *)
(* left behind, and a stopped exporter has an empty queue, however enqueue,*)
(* the deadline of emit and close interleave (status_exporter.go).         *)
THEOREM ExporterAccounts == ExpSpec => []SignalsKept
<1>1. ExpInv => SignalsKept
  BY DEF ExpInv
<1> QED
  BY InitExporter, StepExporter, <1>1, PTL DEF ExpSpec
=============================================================================
