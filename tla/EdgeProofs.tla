----------------------------- MODULE EdgeProofs -----------------------------
(***************************************************************************)
(* The public flows of the Gateway, for any set of flows of every kind and *)
(* any limits: what they hold, and what a shutdown leaves.                 *)
(***************************************************************************)
EXTENDS PublicEdge, FiniteSetTheorems, SequenceTheorems, TLAPS

-----------------------------------------------------------------------------
(* The public flows: units and shutdown.                                   *)

EdgeTypes ==
    /\ scenario \in Scenarios
    /\ phase \in [Flows -> Stages \union Serving \union {"idle", "accepted", "unwinding", "ended"}]
    /\ held \in [Flows -> Seq(Resources)] /\ inUse \in [Resources -> Nat]
    /\ listener \in [Ports -> Versions] /\ fetched \in [Ports -> Versions \union {Unread}]
    /\ closed \in [Ports -> BOOLEAN] /\ runner \in [Ports -> {"loop", "closing", "returned", "off"}]

\* The counted stages a handler of kind k has behind it at a phase.
Passed(k, p) ==
    (IF k = "connector" /\ p \notin {"idle", "accepted", "grant", "ended"} THEN {"grant"} ELSE {})
    \union (IF p \in {"device", "rate", "slot", "open"} \union Serving THEN {"route"} ELSE {})
    \union (IF p \in {"rate", "slot", "open"} \union Serving THEN {"device"} ELSE {})
    \union (IF p \in {"open"} \union Serving THEN {"slot"} ELSE {})

(* A handler holds each unit once, and until it unwinds those of the       *)
(* stages it has passed.                                                   *)
HeldInOrder ==
    \A f \in Flows :
        /\ IsInjective(held[f])
        /\ phase[f] # "unwinding" =>
              \A r \in Resources : r \in Range(held[f]) <=> \E s \in Passed(kind[f], phase[f]) : r = Key(f, s)
        /\ phase[f] = "ended" => held[f] = <<>>
        /\ phase[f] = "check" => kind[f] = "tcp"
        /\ phase[f] = "grant" => kind[f] = "connector"
        /\ phase[f] = "rate" => kind[f] \in {"http", "connector"}

Holders(r) == {f \in Flows : r \in Range(held[f])}

UnitsCounted ==
    \A r \in Resources :
        /\ IsFiniteSet(Holders(r)) /\ inUse[r] = Cardinality(Holders(r))
        /\ inUse[r] <= LimitOf(r)

EdgeUnits == HeldInOrder /\ UnitsCounted

\* run has waited for the manager's Close.
PastClose(k) == main \in (IF k = "tcp" THEN {"udp"} ELSE {}) \union {"http", "tunnels", "exit"}

(* A manager that was closed has no listener and gets none.                *)
ClosedForGood ==
    \A k \in Ports :
        /\ closed[k] \/ runner[k] = "off" => listener[k] = Withdrawn
        /\ runner[k] \in {"closing", "returned"} => closed[k]
        /\ runner[k] = "off" => fetched[k] = Unread
        /\ PastClose(k) => closed[k] \/ runner[k] = "off"

(* The inductive invariant of the public flows.                            *)
EdgeInv == EdgeTypes /\ EdgeUnits /\ ClosedForGood /\ ClosedIsQuiet

(* The order in which each handler asks for its units.                     *)
LEMMA StageOrder ==
  ASSUME EdgeTypes, NEW f \in Flows
  PROVE  /\ kind[f] \in Kinds
         /\ phase[f] = "check" /\ kind[f] = "tcp" => AfterStage(f) = "route"
         /\ phase[f] = "grant" /\ kind[f] = "connector" => AfterStage(f) = "route"
         /\ phase[f] = "route" => AfterStage(f) = "device"
         /\ phase[f] = "device" => AfterStage(f) = IF kind[f] \in {"http", "connector"} THEN "rate" ELSE "slot"
         /\ phase[f] = "rate" /\ kind[f] \in {"http", "connector"} => AfterStage(f) = "slot"
         /\ phase[f] = "slot" => AfterStage(f) = "open"
<1>1. kind[f] \in Kinds
  BY EdgeLimits DEF EdgeTypes, kind
<1>2. ASSUME NEW n \in Nat, DOMAIN Admission(kind[f]) = 1..n,
             NEW i \in 1..n, \A j \in 1..n : Admission(kind[f])[j] = phase[f] <=> j = i
      PROVE  AfterStage(f) = Admission(kind[f])[i + 1]
  <2>1. (CHOOSE j \in DOMAIN Admission(kind[f]) : Admission(kind[f])[j] = phase[f]) = i
    BY <1>2
  <2> QED
    BY <2>1, Zenon DEF AfterStage
<1>3. CASE kind[f] = "http"
  <2>1. Admission(kind[f]) = IngressStages /\ DOMAIN IngressStages = 1..5
    BY <1>3 DEF Admission, IngressStages
  <2>2. phase[f] = "route" => AfterStage(f) = "device"
    <3>1. phase[f] = "route" => \A j \in 1..5 : IngressStages[j] = phase[f] <=> j = 1
      BY DEF IngressStages
    <3>2. phase[f] = "route" => AfterStage(f) = IngressStages[1 + 1]
      BY <1>2, <2>1, <3>1
    <3> QED
      BY <3>2 DEF IngressStages
  <2>3. phase[f] = "device" => AfterStage(f) = "rate"
    <3>1. phase[f] = "device" => \A j \in 1..5 : IngressStages[j] = phase[f] <=> j = 2
      BY DEF IngressStages
    <3>2. phase[f] = "device" => AfterStage(f) = IngressStages[2 + 1]
      BY <1>2, <2>1, <3>1
    <3> QED
      BY <3>2 DEF IngressStages
  <2>4. phase[f] = "rate" => AfterStage(f) = "slot"
    <3>1. phase[f] = "rate" => \A j \in 1..5 : IngressStages[j] = phase[f] <=> j = 3
      BY DEF IngressStages
    <3>2. phase[f] = "rate" => AfterStage(f) = IngressStages[3 + 1]
      BY <1>2, <2>1, <3>1
    <3> QED
      BY <3>2 DEF IngressStages
  <2>5. phase[f] = "slot" => AfterStage(f) = "open"
    <3>1. phase[f] = "slot" => \A j \in 1..5 : IngressStages[j] = phase[f] <=> j = 4
      BY DEF IngressStages
    <3>2. phase[f] = "slot" => AfterStage(f) = IngressStages[4 + 1]
      BY <1>2, <2>1, <3>1
    <3> QED
      BY <3>2 DEF IngressStages
  <2> QED
    BY <1>1, <1>3, <2>2, <2>3, <2>4, <2>5
<1>4. CASE kind[f] = "tcp"
  <2>1. Admission(kind[f]) = TCPStages /\ DOMAIN TCPStages = 1..5
    BY <1>4 DEF Admission, TCPStages
  <2>2. phase[f] = "check" => AfterStage(f) = "route"
    <3>1. phase[f] = "check" => \A j \in 1..5 : TCPStages[j] = phase[f] <=> j = 1
      BY DEF TCPStages
    <3>2. phase[f] = "check" => AfterStage(f) = TCPStages[1 + 1]
      BY <1>2, <2>1, <3>1
    <3> QED
      BY <3>2 DEF TCPStages
  <2>3. phase[f] = "route" => AfterStage(f) = "device"
    <3>1. phase[f] = "route" => \A j \in 1..5 : TCPStages[j] = phase[f] <=> j = 2
      BY DEF TCPStages
    <3>2. phase[f] = "route" => AfterStage(f) = TCPStages[2 + 1]
      BY <1>2, <2>1, <3>1
    <3> QED
      BY <3>2 DEF TCPStages
  <2>4. phase[f] = "device" => AfterStage(f) = "slot"
    <3>1. phase[f] = "device" => \A j \in 1..5 : TCPStages[j] = phase[f] <=> j = 3
      BY DEF TCPStages
    <3>2. phase[f] = "device" => AfterStage(f) = TCPStages[3 + 1]
      BY <1>2, <2>1, <3>1
    <3> QED
      BY <3>2 DEF TCPStages
  <2>5. phase[f] = "slot" => AfterStage(f) = "open"
    <3>1. phase[f] = "slot" => \A j \in 1..5 : TCPStages[j] = phase[f] <=> j = 4
      BY DEF TCPStages
    <3>2. phase[f] = "slot" => AfterStage(f) = TCPStages[4 + 1]
      BY <1>2, <2>1, <3>1
    <3> QED
      BY <3>2 DEF TCPStages
  <2> QED
    BY <1>1, <1>4, <2>2, <2>3, <2>4, <2>5
<1>5. CASE kind[f] = "udp"
  <2>1. Admission(kind[f]) = UDPStages /\ DOMAIN UDPStages = 1..4
    BY <1>5 DEF Admission, UDPStages
  <2>2. phase[f] = "route" => AfterStage(f) = "device"
    <3>1. phase[f] = "route" => \A j \in 1..4 : UDPStages[j] = phase[f] <=> j = 1
      BY DEF UDPStages
    <3>2. phase[f] = "route" => AfterStage(f) = UDPStages[1 + 1]
      BY <1>2, <2>1, <3>1
    <3> QED
      BY <3>2 DEF UDPStages
  <2>3. phase[f] = "device" => AfterStage(f) = "slot"
    <3>1. phase[f] = "device" => \A j \in 1..4 : UDPStages[j] = phase[f] <=> j = 2
      BY DEF UDPStages
    <3>2. phase[f] = "device" => AfterStage(f) = UDPStages[2 + 1]
      BY <1>2, <2>1, <3>1
    <3> QED
      BY <3>2 DEF UDPStages
  <2>4. phase[f] = "slot" => AfterStage(f) = "open"
    <3>1. phase[f] = "slot" => \A j \in 1..4 : UDPStages[j] = phase[f] <=> j = 3
      BY DEF UDPStages
    <3>2. phase[f] = "slot" => AfterStage(f) = UDPStages[3 + 1]
      BY <1>2, <2>1, <3>1
    <3> QED
      BY <3>2 DEF UDPStages
  <2> QED
    BY <1>1, <1>5, <2>2, <2>3, <2>4, Zenon
<1>6. CASE kind[f] = "connector"
  <2>1. Admission(kind[f]) = ConnectorStages /\ DOMAIN ConnectorStages = 1..6
    BY <1>6 DEF Admission, ConnectorStages
  <2>2. phase[f] = "grant" => AfterStage(f) = "route"
    <3>1. phase[f] = "grant" => \A j \in 1..6 : ConnectorStages[j] = phase[f] <=> j = 1
      BY DEF ConnectorStages
    <3>2. phase[f] = "grant" => AfterStage(f) = ConnectorStages[1 + 1]
      BY <1>2, <2>1, <3>1
    <3> QED
      BY <3>2 DEF ConnectorStages
  <2>3. phase[f] = "route" => AfterStage(f) = "device"
    <3>1. phase[f] = "route" => \A j \in 1..6 : ConnectorStages[j] = phase[f] <=> j = 2
      BY DEF ConnectorStages
    <3>2. phase[f] = "route" => AfterStage(f) = ConnectorStages[2 + 1]
      BY <1>2, <2>1, <3>1
    <3> QED
      BY <3>2 DEF ConnectorStages
  <2>4. phase[f] = "device" => AfterStage(f) = "rate"
    <3>1. phase[f] = "device" => \A j \in 1..6 : ConnectorStages[j] = phase[f] <=> j = 3
      BY DEF ConnectorStages
    <3>2. phase[f] = "device" => AfterStage(f) = ConnectorStages[3 + 1]
      BY <1>2, <2>1, <3>1
    <3> QED
      BY <3>2 DEF ConnectorStages
  <2>5. phase[f] = "rate" => AfterStage(f) = "slot"
    <3>1. phase[f] = "rate" => \A j \in 1..6 : ConnectorStages[j] = phase[f] <=> j = 4
      BY DEF ConnectorStages
    <3>2. phase[f] = "rate" => AfterStage(f) = ConnectorStages[4 + 1]
      BY <1>2, <2>1, <3>1
    <3> QED
      BY <3>2 DEF ConnectorStages
  <2>6. phase[f] = "slot" => AfterStage(f) = "open"
    <3>1. phase[f] = "slot" => \A j \in 1..6 : ConnectorStages[j] = phase[f] <=> j = 5
      BY DEF ConnectorStages
    <3>2. phase[f] = "slot" => AfterStage(f) = ConnectorStages[5 + 1]
      <4>1. 6 \in Nat /\ 5 \in 1..6
        OBVIOUS
      <4> QED
        BY <1>2, <2>1, <3>1, <4>1, Zenon
    <3> QED
      BY <3>2 DEF ConnectorStages
  <2> QED
    BY <1>1, <1>6, <2>2, <2>3, <2>4, <2>5, <2>6, Zenon
<1> QED
  BY <1>1, <1>3, <1>4, <1>5, <1>6 DEF Kinds, Ports

(* A deferred release is pushed; what is held stays distinct.              *)
LEMMA Pushed ==
  ASSUME NEW s \in Seq(Resources), NEW r \in Resources, IsInjective(s), r \notin Range(s)
  PROVE  /\ <<r>> \o s \in Seq(Resources) /\ IsInjective(<<r>> \o s)
         /\ Range(<<r>> \o s) = Range(s) \union {r}
<1>1. PICK t : t = <<r>> \o s
  OBVIOUS
<1>2. PICK n \in Nat : n = Len(s) /\ DOMAIN s = 1..n
  BY LenProperties
<1>3. <<r>> \in Seq(Resources) /\ Len(<<r>>) = 1 /\ <<r>>[1] = r
  OBVIOUS
<1>4. t \in Seq(Resources) /\ Len(t) = 1 + n
      /\ \A i \in 1..(1 + n) : t[i] = IF i <= 1 THEN <<r>>[i] ELSE s[i - 1]
  BY <1>1, <1>2, <1>3, ConcatProperties
<1>5. DOMAIN t = 1..(n + 1) /\ t[1] = r /\ \A i \in 1..n : t[i + 1] = s[i]
  <2>1. DOMAIN t = 1..(n + 1) /\ 1 \in 1..(1 + n)
    BY <1>4, LenProperties
  <2>2. \A i \in 1..n : i + 1 \in 1..(1 + n) /\ ~(i + 1 <= 1) /\ (i + 1) - 1 = i
    OBVIOUS
  <2> QED
    BY <1>3, <1>4, <2>1, <2>2
<1>6. \A i \in 1..(n + 1) : i = 1 \/ \E j \in 1..n : i = j + 1
  <2>1. \A i \in 1..(n + 1) : i = 1 \/ (i - 1 \in 1..n /\ i = (i - 1) + 1)
    OBVIOUS
  <2> QED
    BY <2>1
<1>7. IsInjective(t)
  <2> SUFFICES ASSUME NEW i \in 1..(n + 1), NEW j \in 1..(n + 1), t[i] = t[j] PROVE i = j
    BY <1>5 DEF IsInjective
  <2>1. \A k \in 1..n : t[k + 1] # r
    BY <1>2, <1>5 DEF Range
  <2>2. CASE i = 1 \/ j = 1
    BY <1>5, <1>6, <2>1, <2>2, Zenon
  <2>3. CASE i # 1 /\ j # 1
    <3>1. PICK k \in 1..n, m \in 1..n : i = k + 1 /\ j = m + 1
      BY <1>6, <2>3
    <3>2. s[k] = s[m]
      BY <1>5, <3>1
    <3> QED
      BY <1>2, <3>1, <3>2 DEF IsInjective
  <2> QED
    BY <2>2, <2>3
<1>8. Range(t) = Range(s) \union {r}
  <2>1. ASSUME NEW i \in 1..(n + 1) PROVE t[i] \in Range(s) \union {r}
    <3>1. CASE i = 1
      BY <1>5, <3>1
    <3>2. ASSUME NEW j \in 1..n, i = j + 1 PROVE t[i] \in Range(s)
      BY <1>2, <1>5, <3>2 DEF Range
    <3> QED
      BY <1>6, <3>1, <3>2
  <2>2. ASSUME NEW i \in 1..n PROVE s[i] \in Range(t)
    <3>1. i + 1 \in DOMAIN t /\ t[i + 1] = s[i]
      BY <1>5
    <3> QED
      BY <3>1 DEF Range
  <2>3. r \in Range(t)
    BY <1>5 DEF Range
  <2>4. Range(t) \subseteq Range(s) \union {r}
    BY <1>5, <2>1 DEF Range
  <2>5. Range(s) \subseteq Range(t)
    BY <1>2, <2>2 DEF Range
  <2> QED
    BY <2>3, <2>4, <2>5
<1> QED
  BY <1>1, <1>4, <1>7, <1>8

(* The latest deferred release is run; the unit is no longer held.         *)
LEMMA Popped ==
  ASSUME NEW s \in Seq(Resources), IsInjective(s), s # <<>>
  PROVE  /\ Tail(s) \in Seq(Resources) /\ IsInjective(Tail(s))
         /\ Head(s) \in Range(s) /\ Head(s) \in Resources
         /\ Range(Tail(s)) = Range(s) \ {Head(s)}
<1>1. PICK t : t = Tail(s)
  OBVIOUS
<1>2. /\ Head(s) \in Resources /\ t \in Seq(Resources) /\ Len(t) = Len(s) - 1
      /\ \A i \in 1..Len(t) : t[i] = s[i + 1]
  BY <1>1, HeadTailProperties
<1>3. Len(s) \in Nat /\ Len(t) \in Nat /\ DOMAIN s = 1..Len(s) /\ DOMAIN t = 1..Len(t)
  BY <1>2, LenProperties
<1>4. PICK n \in Nat : Len(t) = n /\ Len(s) = n + 1
  BY <1>2, <1>3
<1>5. Head(s) = s[1] /\ 1 \in 1..(n + 1) /\ \A i \in 1..n : i + 1 \in 1..(n + 1)
  BY <1>4
<1>6. \A i \in 1..(n + 1) : i = 1 \/ \E j \in 1..n : i = j + 1
  <2>1. \A i \in 1..(n + 1) : i = 1 \/ (i - 1 \in 1..n /\ i = (i - 1) + 1)
    OBVIOUS
  <2> QED
    BY <2>1
<1>7. IsInjective(t)
  <2> SUFFICES ASSUME NEW i \in 1..n, NEW j \in 1..n, t[i] = t[j] PROVE i = j
    BY <1>3, <1>4 DEF IsInjective
  <2>1. s[i + 1] = s[j + 1]
    BY <1>2, <1>4
  <2>2. i + 1 = j + 1
    BY <1>3, <1>4, <1>5, <2>1, Zenon DEF IsInjective
  <2> QED
    BY <2>2
<1>8. Range(t) \subseteq Range(s) \ {Head(s)}
  <2>1. \A i \in 1..n : i + 1 # 1
    OBVIOUS
  <2> QED
    BY <1>2, <1>3, <1>4, <1>5, <2>1 DEF Range, IsInjective
<1>9. Range(s) \ {Head(s)} \subseteq Range(t)
  <2> SUFFICES ASSUME NEW i \in 1..(n + 1), s[i] # s[1] PROVE s[i] \in Range(t)
    BY <1>3, <1>4, <1>5 DEF Range
  <2>1. PICK j \in 1..n : i = j + 1
    BY <1>6
  <2>2. t[j] = s[i]
    BY <1>2, <1>4, <2>1
  <2> QED
    BY <1>3, <1>4, <2>2 DEF Range
<1>10. Head(s) \in Range(s)
  BY <1>3, <1>4, <1>5 DEF Range
<1> QED
  BY <1>1, <1>2, <1>7, <1>8, <1>9, <1>10, Zenon

AllPhases == Stages \union Serving \union {"idle", "accepted", "unwinding", "ended"}

(* A handler that holds no unit has none to give back.                     *)
LEMMA NothingHeld ==
  ASSUME NEW s \in Seq(Resources), \A r \in Resources : r \notin Range(s)
  PROVE  s = <<>>
<1>1. Len(s) \in Nat /\ s \in [1..Len(s) -> Resources]
  BY LenProperties
<1>2. Len(s) = 0
  <2> SUFFICES ASSUME Len(s) # 0 PROVE FALSE
    OBVIOUS
  <2>1. 1 \in 1..Len(s) /\ s[1] \in Resources
    BY <1>1
  <2> QED
    BY <2>1 DEF Range
<1> QED
  BY <1>2, EmptySeq

(* A step of a handler that takes and gives back nothing.                  *)
LEMMA PhaseStep ==
  ASSUME EdgeTypes, EdgeUnits, NEW f \in Flows, NEW q \in AllPhases,
         phase' = [phase EXCEPT ![f] = q], UNCHANGED <<scenario, held, inUse>>,
         \/ q = "unwinding"
         \/ phase[f] # "unwinding" /\ Passed(kind[f], q) = Passed(kind[f], phase[f]),
         q = "ended" => held[f] = <<>>,
         q = "check" => kind[f] = "tcp", q = "grant" => kind[f] = "connector",
         q = "rate" => kind[f] \in {"http", "connector"}
  PROVE  phase' \in [Flows -> AllPhases] /\ EdgeUnits'
<1>1. phase' \in [Flows -> AllPhases] /\ kind' = kind
  BY Zenon DEF EdgeTypes, AllPhases, kind
<1>2. ASSUME NEW g \in Flows
      PROVE  /\ IsInjective(held'[g])
             /\ phase'[g] # "unwinding" =>
                  \A r \in Resources : r \in Range(held'[g]) <=>
                     \E s \in Passed(kind'[g], phase'[g]) : r = Key(g, s)'
             /\ phase'[g] = "ended" => held'[g] = <<>>
             /\ phase'[g] = "check" => kind'[g] = "tcp"
             /\ phase'[g] = "grant" => kind'[g] = "connector"
             /\ phase'[g] = "rate" => kind'[g] \in {"http", "connector"}
  <2>1. \A s : Key(g, s)' = Key(g, s)
    BY <1>1, Zenon DEF Key
  <2>2. CASE g = f
    <3>1. phase'[g] = q
      BY <2>2 DEF EdgeTypes
    <3>2. IsInjective(held'[g])
      BY DEF EdgeUnits, HeldInOrder
    <3>3. ASSUME q # "unwinding", NEW r \in Resources
          PROVE  r \in Range(held'[g]) <=> \E s \in Passed(kind'[g], phase'[g]) : r = Key(g, s)'
      <4>1. r \in Range(held[f]) <=> \E s \in Passed(kind[f], phase[f]) : r = Key(f, s)
        BY <3>3 DEF EdgeUnits, HeldInOrder
      <4> QED
        BY <1>1, <2>1, <2>2, <3>1, <3>3, <4>1, Zenon
    <3> QED
      BY <1>1, <2>2, <3>1, <3>2, <3>3, Zenon
  <2>3. CASE g # f
    <3>1. phase'[g] = phase[g] /\ held'[g] = held[g]
      BY <2>3 DEF EdgeTypes
    <3> QED
      BY <1>1, <2>1, <3>1 DEF EdgeUnits, HeldInOrder
  <2> QED
    BY <2>2, <2>3
<1>3. HeldInOrder'
  BY <1>2 DEF HeldInOrder
<1>4. UnitsCounted'
  BY Zenon DEF EdgeUnits, UnitsCounted, Holders
<1> QED
  BY <1>1, <1>3, <1>4 DEF EdgeUnits

(* A handler's step starts no flow at a port whose listener is closed.     *)
LEMMA FlowStepKeepsQuiet ==
  ASSUME EdgeTypes, ClosedForGood, ClosedIsQuiet, NEW f \in Flows, NEW q,
         phase' = [phase EXCEPT ![f] = q],
         UNCHANGED <<scenario, listener, fetched, closed, runner, main>>,
         Active(f) \/ kind[f] \notin Ports \/ listener[kind[f]] # Withdrawn
  PROVE  ClosedForGood' /\ ClosedIsQuiet'
<1>1. ClosedForGood'
  BY DEF ClosedForGood, PastClose
<1>2. ASSUME NEW k \in Ports, Quiet(k), listener[k] = Withdrawn PROVE Quiet(k)'
  <2> SUFFICES ASSUME NEW g \in Flows, kind'[g] = k, phase'[g] \notin {"idle", "ended"} PROVE FALSE
    BY DEF Quiet, FlowsOf, Active
  <2>1. kind[g] = k
    BY DEF kind
  <2>2. phase[g] \in {"idle", "ended"}
    BY <1>2, <2>1, Zenon DEF Quiet, FlowsOf, Active
  <2>3. g = f
    BY <2>2 DEF EdgeTypes
  <2> QED
    BY <1>2, <2>1, <2>2, <2>3 DEF Active
<1>3. ClosedIsQuiet'
  BY <1>2 DEF ClosedIsQuiet
<1> QED
  BY <1>1, <1>3

(* A handler takes the unit of its stage: one more holder, one more unit.  *)
LEMMA AcquireKeeps ==
  ASSUME EdgeTypes, EdgeUnits, NEW f \in Flows, NEW r, r = Key(f, phase[f]),
         phase[f] \in {"grant", "route", "device", "slot"}, HasRoom(r),
         phase' = [phase EXCEPT ![f] = AfterStage(f)], inUse' = [inUse EXCEPT ![r] = @ + 1],
         held' = [held EXCEPT ![f] = <<r>> \o @], UNCHANGED scenario
  PROVE  /\ phase' \in [Flows -> AllPhases] /\ held' \in [Flows -> Seq(Resources)]
         /\ inUse' \in [Resources -> Nat] /\ EdgeUnits'
<1>1. r \in Resources /\ kind' = kind /\ kind[f] \in Kinds /\ AfterStage(f) \in AllPhases
  BY StageOrder DEF Key, Resources, kind, AllPhases, Stages, EdgeUnits, HeldInOrder
<1>2. PICK s \in Seq(Resources) : s = held[f]
  BY Zenon DEF EdgeTypes
<1>3. r \notin Range(s)
  <2>1. \A x \in Passed(kind[f], phase[f]) : Key(f, x) # r
    BY DEF Passed, Key, Serving
  <2> QED
    BY <1>1, <1>2, <2>1 DEF EdgeUnits, HeldInOrder
<1>4. /\ <<r>> \o s \in Seq(Resources) /\ IsInjective(<<r>> \o s)
      /\ Range(<<r>> \o s) = Range(s) \union {r}
  BY <1>1, <1>2, <1>3, Pushed, Zenon DEF EdgeUnits, HeldInOrder
<1>5. PICK u : u = <<r>> \o s
  OBVIOUS
<1>6. PICK q : q = AfterStage(f)
  OBVIOUS
<1>7. /\ phase' = [phase EXCEPT ![f] = q] /\ held' = [held EXCEPT ![f] = u] /\ u \in Seq(Resources)
      /\ IsInjective(u) /\ \A x : x \in Range(u) <=> x \in Range(s) \/ x = r
  BY <1>2, <1>4, <1>5, <1>6, Zenon DEF EdgeTypes
<1>8. /\ phase' \in [Flows -> AllPhases] /\ held' \in [Flows -> Seq(Resources)]
      /\ inUse' \in [Resources -> Nat]
  BY <1>1, <1>6, <1>7 DEF EdgeTypes, AllPhases
<1>9. HeldInOrder'
  <2>1. ASSUME NEW g \in Flows, g # f
        PROVE  phase'[g] = phase[g] /\ held'[g] = held[g]
    BY <1>7, <2>1, Zenon DEF EdgeTypes
  <2>2. phase'[f] = q /\ held'[f] = u
    BY <1>7 DEF EdgeTypes
  <2>3. \A g, x : Key(g, x)' = Key(g, x)
    BY <1>1, Zenon DEF Key
  <2>4. /\ q \notin {"unwinding", "ended", "check", "grant"}
        /\ q = "rate" => kind[f] \in {"http", "connector"}
        /\ \A y : (\E x \in Passed(kind[f], q) : y = Key(f, x)) <=>
                  (\E x \in Passed(kind[f], phase[f]) : y = Key(f, x)) \/ y = r
    <3>1. CASE phase[f] = "grant"
      <4>1. q = "route" /\ kind[f] = "connector"
        BY <1>6, <3>1, StageOrder DEF EdgeUnits, HeldInOrder
      <4> QED
        BY <3>1, <4>1, Zenon DEF Passed, Serving, Key
    <3>2. CASE phase[f] = "route"
      <4>1. q = "device"
        BY <1>6, <3>2, StageOrder
      <4> QED
        BY <3>2, <4>1, Zenon DEF Passed, Serving, Key
    <3>3. CASE phase[f] = "device"
      <4>1. q = IF kind[f] \in {"http", "connector"} THEN "rate" ELSE "slot"
        BY <1>6, <3>3, StageOrder
      <4> QED
        BY <3>3, <4>1, Zenon DEF Passed, Serving, Key
    <3>4. CASE phase[f] = "slot"
      <4>1. q = "open"
        BY <1>6, <3>4, StageOrder
      <4> QED
        BY <3>4, <4>1, Zenon DEF Passed, Serving, Key
    <3> QED
      BY <3>1, <3>2, <3>3, <3>4, Zenon
  <2>5. ASSUME NEW y \in Resources
        PROVE y \in Range(u) <=> \E x \in Passed(kind[f], q) : y = Key(f, x)
    <3>1. y \in Range(s) <=> \E x \in Passed(kind[f], phase[f]) : y = Key(f, x)
      BY <1>2 DEF EdgeUnits, HeldInOrder
    <3> QED
      BY <1>7, <2>4, <3>1, Zenon
  <2>6. ASSUME NEW g \in Flows
        PROVE  /\ IsInjective(held'[g])
               /\ phase'[g] # "unwinding" =>
                    \A y \in Resources : y \in Range(held'[g]) <=>
                       \E x \in Passed(kind'[g], phase'[g]) : y = Key(g, x)'
               /\ phase'[g] = "ended" => held'[g] = <<>>
               /\ phase'[g] = "check" => kind'[g] = "tcp"
               /\ phase'[g] = "grant" => kind'[g] = "connector"
               /\ phase'[g] = "rate" => kind'[g] \in {"http", "connector"}
    <3>1. CASE g = f
      BY <1>1, <1>7, <2>2, <2>3, <2>4, <2>5, <3>1, Zenon
    <3>2. CASE g # f
      BY <1>1, <2>1, <2>3, <3>2 DEF EdgeUnits, HeldInOrder
    <3> QED
      BY <3>1, <3>2, Zenon
  <2> QED
    BY <2>6 DEF HeldInOrder
<1>10. UnitsCounted'
  <2>1. \A g \in Flows \ {f} : held'[g] = held[g]
    BY <1>7 DEF EdgeTypes
  <2>2. held'[f] = u /\ held[f] = s
    BY <1>2, <1>7, Zenon DEF EdgeTypes
  <2>3. f \notin Holders(r) /\ Holders(r)' = Holders(r) \union {f}
    BY <1>3, <1>7, <2>1, <2>2 DEF Holders
  <2>4. \A x \in Resources \ {r} : Holders(x)' = Holders(x) /\ inUse'[x] = inUse[x]
    BY <1>7, <2>1, <2>2, Zenon DEF Holders, EdgeTypes
  <2>5. IsFiniteSet(Holders(r)) /\ inUse[r] = Cardinality(Holders(r)) /\ inUse[r] \in Nat
    BY <1>1 DEF EdgeUnits, UnitsCounted, EdgeTypes
  <2>6. IsFiniteSet(Holders(r)') /\ Cardinality(Holders(r)') = Cardinality(Holders(r)) + 1
    BY <2>3, <2>5, FS_AddElement
  <2>7. inUse'[r] = inUse[r] + 1 /\ inUse'[r] <= LimitOf(r)
    <3>1. inUse'[r] = inUse[r] + 1
      BY <1>1, Zenon DEF EdgeTypes
    <3> QED
      BY <2>5, <3>1, EdgeLimits DEF HasRoom, LimitOf
  <2>8. ASSUME NEW x \in Resources
        PROVE  /\ IsFiniteSet(Holders(x)') /\ inUse'[x] = Cardinality(Holders(x)')
               /\ inUse'[x] <= LimitOf(x)
    <3>1. CASE x = r
      BY <2>5, <2>6, <2>7, <3>1, Zenon
    <3>2. CASE x # r
      BY <2>4, <3>2 DEF EdgeUnits, UnitsCounted
    <3> QED
      BY <3>1, <3>2, Zenon
  <2> QED
    BY <2>8 DEF UnitsCounted, LimitOf
<1> QED
  BY <1>8, <1>9, <1>10, Zenon DEF EdgeUnits

(* Unwinding gives back the unit taken last, or ends the handler.          *)
LEMMA UnwindKeeps ==
  ASSUME EdgeTypes, EdgeUnits, NEW f \in Flows, Unwind(f)
  PROVE  /\ phase' \in [Flows -> AllPhases] /\ held' \in [Flows -> Seq(Resources)]
         /\ inUse' \in [Resources -> Nat] /\ EdgeUnits'
<1>1. phase[f] = "unwinding" /\ UNCHANGED scenario /\ kind' = kind
  BY DEF Unwind, kind
<1>2. CASE held[f] = <<>>
  <2>1. phase' = [phase EXCEPT ![f] = "ended"] /\ UNCHANGED <<held, inUse>>
    BY <1>2 DEF Unwind, Become, counts
  <2>2. /\ phase' \in [Flows -> AllPhases] /\ held' \in [Flows -> Seq(Resources)]
        /\ inUse' \in [Resources -> Nat]
    BY <2>1 DEF EdgeTypes, AllPhases
  <2>3. \A g, x : Key(g, x)' = Key(g, x)
    BY <1>1 DEF Key
  <2>4. \A r \in Resources : r \notin Range(held[f]) /\ ~\E s \in Passed(kind[f], "ended") : r = Key(f, s)
    BY <1>2 DEF Range, Passed, Serving
  <2>5. ASSUME NEW g \in Flows
        PROVE  /\ IsInjective(held'[g])
               /\ phase'[g] # "unwinding" =>
                    \A r \in Resources : r \in Range(held'[g]) <=>
                       \E s \in Passed(kind'[g], phase'[g]) : r = Key(g, s)'
               /\ phase'[g] = "ended" => held'[g] = <<>>
               /\ phase'[g] = "check" => kind'[g] = "tcp"
               /\ phase'[g] = "grant" => kind'[g] = "connector"
               /\ phase'[g] = "rate" => kind'[g] \in {"http", "connector"}
    <3>1. CASE g = f
      <4>1. phase'[g] = "ended" /\ held'[g] = held[g] /\ IsInjective(held[g])
        BY <2>1, <3>1, Zenon DEF EdgeTypes, EdgeUnits, HeldInOrder
      <4> QED
        BY <1>1, <1>2, <2>3, <2>4, <3>1, <4>1, Zenon
    <3>2. CASE g # f
      <4>1. phase'[g] = phase[g] /\ held'[g] = held[g]
        BY <2>1, <3>2, Zenon DEF EdgeTypes
      <4> QED
        BY <1>1, <2>3, <4>1, Zenon DEF EdgeUnits, HeldInOrder
    <3> QED
      BY <3>1, <3>2, Zenon
  <2>6. HeldInOrder'
    BY <2>5 DEF HeldInOrder
  <2>7. UnitsCounted'
    BY <2>1, Zenon DEF EdgeUnits, UnitsCounted, Holders
  <2> QED
    BY <2>2, <2>6, <2>7, Zenon DEF EdgeUnits
<1>3. CASE held[f] # <<>>
  <2>1. PICK s \in Seq(Resources) : s = held[f]
    BY DEF EdgeTypes
  <2>2. PICK r : r = Head(s)
    OBVIOUS
  <2>3. PICK u : u = Tail(s)
    OBVIOUS
  <2>4. /\ u \in Seq(Resources) /\ IsInjective(u) /\ r \in Resources /\ r \in Range(s)
        /\ \A x : x \in Range(u) <=> x \in Range(s) /\ x # r
    BY <1>3, <2>1, <2>2, <2>3, Popped DEF EdgeUnits, HeldInOrder
  <2>5. /\ inUse' = [inUse EXCEPT ![r] = @ - 1] /\ held' = [held EXCEPT ![f] = u] /\ UNCHANGED phase
    BY <1>3, <2>1, <2>2, <2>3, Zenon DEF Unwind, EdgeTypes
  <2>6. /\ \A g \in Flows \ {f} : held'[g] = held[g]
        /\ held'[f] = u /\ held[f] = s
    BY <2>1, <2>5, Zenon DEF EdgeTypes
  <2>7. f \in Holders(r) /\ Holders(r)' = Holders(r) \ {f}
    BY <2>4, <2>6 DEF Holders
  <2>8. \A x \in Resources \ {r} : Holders(x)' = Holders(x) /\ inUse'[x] = inUse[x]
    BY <2>4, <2>5, <2>6, Zenon DEF Holders, EdgeTypes
  <2>9. IsFiniteSet(Holders(r)) /\ inUse[r] = Cardinality(Holders(r)) /\ inUse[r] \in Nat /\ inUse[r] <= LimitOf(r)
    BY <2>4 DEF EdgeUnits, UnitsCounted, EdgeTypes
  <2>10. /\ IsFiniteSet(Holders(r)') /\ Cardinality(Holders(r)') = Cardinality(Holders(r)) - 1
         /\ Cardinality(Holders(r)') \in Nat
    BY <2>7, <2>9, FS_RemoveElement, FS_CardinalityType
  <2>11. inUse'[r] = inUse[r] - 1
    BY <2>4, <2>5, Zenon DEF EdgeTypes
  <2>12. /\ phase' \in [Flows -> AllPhases] /\ held' \in [Flows -> Seq(Resources)]
         /\ inUse' \in [Resources -> Nat]
    <3>1. inUse[r] - 1 \in Nat
      BY <2>9, <2>10
    <3> QED
      BY <2>4, <2>5, <3>1, Zenon DEF EdgeTypes, AllPhases
  <2>13. ASSUME NEW x \in Resources
         PROVE  /\ IsFiniteSet(Holders(x)') /\ inUse'[x] = Cardinality(Holders(x)')
                /\ inUse'[x] <= LimitOf(x)
    <3>1. CASE x = r
      <4>1. inUse[r] - 1 <= LimitOf(r)
        BY <2>9, EdgeLimits DEF LimitOf
      <4> QED
        BY <2>9, <2>10, <2>11, <3>1, <4>1, Zenon
    <3>2. CASE x # r
      BY <2>8, <3>2 DEF EdgeUnits, UnitsCounted
    <3> QED
      BY <3>1, <3>2, Zenon
  <2>14. UnitsCounted'
    BY <2>13 DEF UnitsCounted, LimitOf
  <2>15. \A g, x : Key(g, x)' = Key(g, x)
    BY <1>1, Zenon DEF Key
  <2>16. ASSUME NEW g \in Flows
         PROVE  /\ IsInjective(held'[g])
                /\ phase'[g] # "unwinding" =>
                     \A y \in Resources : y \in Range(held'[g]) <=>
                        \E x \in Passed(kind'[g], phase'[g]) : y = Key(g, x)'
                /\ phase'[g] = "ended" => held'[g] = <<>>
                /\ phase'[g] = "check" => kind'[g] = "tcp"
                /\ phase'[g] = "grant" => kind'[g] = "connector"
                /\ phase'[g] = "rate" => kind'[g] \in {"http", "connector"}
    <3>1. CASE g = f
      BY <1>1, <2>4, <2>5, <2>6, <3>1, Zenon
    <3>2. CASE g # f
      BY <1>1, <2>5, <2>6, <2>15, <3>2, Zenon DEF EdgeUnits, HeldInOrder
    <3> QED
      BY <3>1, <3>2, Zenon
  <2> QED
    BY <2>12, <2>14, <2>16 DEF EdgeUnits, HeldInOrder
<1> QED
  BY <1>2, <1>3, Zenon

(* The Gateway starts with no flow and every counter at zero.              *)
LEMMA InitEdge == EdgeInit => EdgeInv
<1> SUFFICES ASSUME EdgeInit PROVE EdgeInv
  OBVIOUS
<1>1. EdgeTypes
  BY DEF EdgeInit, EdgeTypes, Versions, Withdrawn, Unread
<1>2. Range(<<>>) = {} /\ IsInjective(<<>>)
  BY DEF Range, IsInjective
<1>3. HeldInOrder
  BY <1>2 DEF EdgeInit, HeldInOrder, Passed, Serving
<1>4. UnitsCounted
  <2>1. \A r \in Resources : Holders(r) = {} /\ inUse[r] = 0
    BY <1>2 DEF EdgeInit, Holders
  <2>2. \A r \in Resources : 0 <= LimitOf(r)
    BY EdgeLimits DEF LimitOf
  <2> QED
    BY <2>1, <2>2, FS_EmptySet, Zenon DEF UnitsCounted
<1>5. ClosedForGood
  BY DEF EdgeInit, ClosedForGood, PastClose
<1>6. ClosedIsQuiet
  BY DEF EdgeInit, ClosedIsQuiet
<1> QED
  BY <1>1, <1>3, <1>4, <1>5, <1>6, Zenon DEF EdgeInv, EdgeUnits

(* A step of the managers, the metadata or run changes no flow: what is    *)
(* held stays as it was.                                                   *)
LEMMA ManagerStepKeepsUnits ==
  ASSUME EdgeUnits, UNCHANGED <<scenario, phase, held, inUse>>
  PROVE  EdgeUnits'
<1>1. \A g, x : Key(g, x)' = Key(g, x)
  BY Zenon DEF Key, kind
<1>2. HeldInOrder'
  BY <1>1 DEF EdgeUnits, HeldInOrder, kind
<1>3. UnitsCounted'
  BY Zenon DEF EdgeUnits, UnitsCounted, Holders
<1> QED
  BY <1>2, <1>3 DEF EdgeUnits

(* Every step of a handler keeps the invariant.                            *)
LEMMA HandlerStep ==
  ASSUME EdgeInv, NEW f \in Flows,
         \/ ArriveHTTP(f) \/ ArriveConnector(f) \/ Accept(f) \/ Admit(f) \/ Monitor(f) \/ Unwind(f)
         \/ ServeIngress(f) \/ ServeTCP(f) \/ ServeFlow(f) \/ ServeConnector(f)
  PROVE  EdgeInv'
<1> USE DEF EdgeInv
<1>1. /\ UNCHANGED <<scenario, listener, fetched, closed, runner, draining, signalled, main>>
      /\ kind' = kind
  BY Zenon DEF ArriveHTTP, ArriveConnector, Arrive, Accept, Admit, StartTCP, StartUDP, CheckTCP, Rate,
         Acquire, Open, Monitor, Unwind, ServeIngress, ServeTCP, ServeFlow, ServeConnector,
         RequestWritten, Upload, Credited, Wane, Datagram, Finish, Timeout, Cut, managers, process, kind
<1>2. phase[f] \in AllPhases /\ kind[f] \in Kinds /\ held[f] \in Seq(Resources)
  BY StageOrder, Zenon DEF EdgeTypes, AllPhases
<1>3. phase[f] \in {"idle", "accepted"} => held[f] = <<>>
  <2> SUFFICES ASSUME phase[f] \in {"idle", "accepted"} PROVE \A r \in Resources : r \notin Range(held[f])
    BY <1>2, NothingHeld
  <2> QED
    BY Zenon DEF EdgeUnits, HeldInOrder, Passed, Serving
<1>4. ASSUME NEW q \in AllPhases, phase' = [phase EXCEPT ![f] = q], UNCHANGED <<held, inUse>>,
             \/ q = "unwinding"
             \/ phase[f] # "unwinding" /\ Passed(kind[f], q) = Passed(kind[f], phase[f]),
             q = "ended" => held[f] = <<>>,
             q = "check" => kind[f] = "tcp", q = "grant" => kind[f] = "connector",
             q = "rate" => kind[f] \in {"http", "connector"},
             Active(f) \/ kind[f] \notin Ports \/ listener[kind[f]] # Withdrawn
      PROVE  EdgeInv'
  <2>1. phase' \in [Flows -> AllPhases] /\ EdgeUnits'
    BY <1>1, <1>4, PhaseStep, Zenon
  <2>2. ClosedForGood' /\ ClosedIsQuiet'
    BY <1>1, <1>4, FlowStepKeepsQuiet, Zenon
  <2>3. EdgeTypes'
    BY <1>1, <1>4, <2>1, Zenon DEF EdgeTypes, AllPhases
  <2> QED
    BY <2>1, <2>2, <2>3, Zenon
<1>5. CASE ArriveHTTP(f) \/ ArriveConnector(f)
  <2>1. PICK q : q = Head(Admission(kind[f]))
    OBVIOUS
  <2>2. /\ phase[f] = "idle" /\ phase' = [phase EXCEPT ![f] = q] /\ UNCHANGED <<held, inUse>>
        /\ kind[f] \in {"http", "connector"}
    BY <1>5, <2>1, Zenon DEF ArriveHTTP, ArriveConnector, Arrive, Become, counts
  <2>3. q = IF kind[f] = "http" THEN "route" ELSE "grant"
    BY <2>1, <2>2 DEF Admission, IngressStages, ConnectorStages
  <2>4. /\ q \in AllPhases /\ Passed(kind[f], q) = Passed(kind[f], phase[f]) /\ kind[f] \notin Ports
        /\ q # "ended" /\ q # "check" /\ q # "rate" /\ (q = "grant" => kind[f] = "connector")
    BY <2>2, <2>3, Zenon DEF AllPhases, Stages, Passed, Serving, Ports
  <2> QED
    BY <1>4, <2>2, <2>4, Zenon
<1>6. CASE Accept(f)
  <2>1. /\ phase[f] = "idle" /\ phase' = [phase EXCEPT ![f] = "accepted"] /\ UNCHANGED <<held, inUse>>
        /\ listener[kind[f]] # Withdrawn
    BY <1>6, Zenon DEF Accept, Become, counts
  <2>2. "accepted" \in AllPhases /\ Passed(kind[f], "accepted") = Passed(kind[f], phase[f])
    BY <2>1, Zenon DEF AllPhases, Passed, Serving
  <2> QED
    BY <1>4, <2>1, <2>2, Zenon
<1>7. CASE StartTCP(f)
  <2>1. PICK q \in {"ended", "check"} :
          /\ phase[f] = "accepted" /\ kind[f] = "tcp"
          /\ phase' = [phase EXCEPT ![f] = q] /\ UNCHANGED <<held, inUse>>
    BY <1>7, Zenon DEF StartTCP, Become, counts
  <2>2. q \in AllPhases /\ Passed(kind[f], q) = Passed(kind[f], phase[f]) /\ Active(f)
    BY <2>1 DEF AllPhases, Stages, Passed, Serving, Active
  <2> QED
    BY <1>3, <1>4, <2>1, <2>2, Zenon
<1>8. CASE StartUDP(f)
  <2>1. PICK q \in {"ended", "route"} :
          /\ phase[f] = "accepted" /\ kind[f] = "udp"
          /\ phase' = [phase EXCEPT ![f] = q] /\ UNCHANGED <<held, inUse>>
    BY <1>8, Zenon DEF StartUDP, Become, counts
  <2>2. q \in AllPhases /\ Passed(kind[f], q) = Passed(kind[f], phase[f]) /\ Active(f)
    BY <2>1, Zenon DEF AllPhases, Stages, Passed, Serving, Active
  <2> QED
    BY <1>3, <1>4, <2>1, <2>2, Zenon
<1>9. CASE CheckTCP(f)
  <2>1. kind[f] = "tcp" /\ AfterStage(f) = "route"
    BY <1>9, StageOrder, Zenon DEF CheckTCP, EdgeUnits, HeldInOrder
  <2>2. PICK q \in {"route", "unwinding"} :
          /\ phase[f] = "check" /\ phase' = [phase EXCEPT ![f] = q] /\ UNCHANGED <<held, inUse>>
    BY <1>9, <2>1, Zenon DEF CheckTCP, Become, counts
  <2>3. q \in AllPhases /\ Passed(kind[f], "route") = Passed(kind[f], phase[f]) /\ Active(f)
    BY <2>1, <2>2, Zenon DEF AllPhases, Stages, Passed, Serving, Active
  <2> QED
    BY <1>4, <2>2, <2>3, Zenon
<1>10. CASE Rate(f)
  <2>1. kind[f] \in {"http", "connector"} /\ AfterStage(f) = "slot"
    BY <1>10, StageOrder, Zenon DEF Rate, EdgeUnits, HeldInOrder
  <2>2. PICK q \in {"slot", "unwinding"} :
          /\ phase[f] = "rate" /\ phase' = [phase EXCEPT ![f] = q] /\ UNCHANGED <<held, inUse>>
    BY <1>10, <2>1, Zenon DEF Rate, Become, counts
  <2>3. q \in AllPhases /\ Passed(kind[f], "slot") = Passed(kind[f], phase[f]) /\ Active(f)
    BY <2>1, <2>2 DEF AllPhases, Stages, Passed, Serving, Active
  <2> QED
    BY <1>4, <2>2, <2>3, Zenon
<1>11. CASE Acquire(f)
  <2>1. PICK r : r = Key(f, phase[f])
    OBVIOUS
  <2>2. phase[f] \in {"grant", "route", "device", "slot"} /\ Active(f)
    BY <1>11 DEF Acquire, Active
  <2>3. CASE /\ HasRoom(r) /\ phase' = [phase EXCEPT ![f] = AfterStage(f)]
             /\ inUse' = [inUse EXCEPT ![r] = @ + 1]
             /\ held' = [held EXCEPT ![f] = <<r>> \o @]
    <3>1. /\ phase' \in [Flows -> AllPhases] /\ held' \in [Flows -> Seq(Resources)]
          /\ inUse' \in [Resources -> Nat] /\ EdgeUnits'
      BY <1>1, <2>1, <2>2, <2>3, AcquireKeeps, Zenon
    <3>2. ClosedForGood' /\ ClosedIsQuiet'
      BY <1>1, <2>2, <2>3, FlowStepKeepsQuiet, Zenon
    <3>3. EdgeTypes'
      BY <1>1, <3>1, Zenon DEF EdgeTypes, AllPhases
    <3> QED
      BY <3>1, <3>2, <3>3, Zenon
  <2>4. CASE phase' = [phase EXCEPT ![f] = "unwinding"] /\ UNCHANGED <<held, inUse>>
    BY <1>4, <2>2, <2>4, Zenon DEF AllPhases
  <2> QED
    BY <1>11, <2>1, <2>3, <2>4 DEF Acquire, Become, counts
<1>12. CASE Open(f)
  <2>1. PICK q \in {"unwinding", "request", "upload", "serving"} :
          /\ phase[f] = "open" /\ phase' = [phase EXCEPT ![f] = q] /\ UNCHANGED <<held, inUse>>
    BY <1>12, Zenon DEF Open, Become, counts
  <2>2. /\ q \in AllPhases /\ q \notin {"ended", "check", "grant", "rate"} /\ Active(f)
        /\ q # "unwinding" => Passed(kind[f], q) = Passed(kind[f], phase[f])
    BY <2>1, Zenon DEF AllPhases, Passed, Serving, Active
  <2> QED
    BY <1>4, <2>1, <2>2, Zenon
<1>13. CASE \/ RequestWritten(f) \/ Upload(f) \/ Credited(f) \/ Wane(f) \/ Datagram(f)
             \/ Finish(f) \/ Timeout(f) \/ Cut(f)
  <2>0. TimedPhases(kind[f]) \subseteq Serving
    BY <1>2 DEF TimedPhases, Kinds, Ports, Serving
  <2>1. PICK q \in {"unwinding", "response", "upload", "serving", "waning"} :
          /\ phase[f] \in Serving /\ phase' = [phase EXCEPT ![f] = q] /\ UNCHANGED <<held, inUse>>
    BY <1>13, <2>0, Zenon DEF RequestWritten, Upload, Credited, Wane, Datagram, Finish, Timeout, Cut,
                              Serving, Become, counts
  <2>2. /\ q \in AllPhases /\ q \notin {"ended", "check", "grant", "rate"} /\ Active(f)
        /\ q # "unwinding" => Passed(kind[f], q) = Passed(kind[f], phase[f])
        /\ phase[f] # "unwinding"
    BY <2>1, Zenon DEF AllPhases, Passed, Serving, Active
  <2> QED
    BY <1>4, <2>1, <2>2, Zenon
<1>14. CASE Monitor(f)
  <2>1. UNCHANGED <<phase, held, inUse>>
    BY <1>14, Zenon DEF Monitor, counts
  <2>2. EdgeTypes'
    BY <1>1, <2>1, Zenon DEF EdgeTypes
  <2>3. ClosedForGood' /\ ClosedIsQuiet'
    BY <1>1, <2>1, Zenon DEF ClosedForGood, PastClose, ClosedIsQuiet, Quiet, FlowsOf, Active
  <2> QED
    BY <1>1, <2>1, <2>2, <2>3, ManagerStepKeepsUnits, Zenon
<1>15. CASE Unwind(f)
  <2>1. /\ phase' \in [Flows -> AllPhases] /\ held' \in [Flows -> Seq(Resources)]
        /\ inUse' \in [Resources -> Nat] /\ EdgeUnits'
    BY <1>15, UnwindKeeps, Zenon
  <2>2. EdgeTypes'
    BY <1>1, <2>1, Zenon DEF EdgeTypes, AllPhases
  <2>3. Active(f)
    BY <1>15, Zenon DEF Unwind, Active
  <2>4. PICK q \in {"unwinding", "ended"} : phase' = [phase EXCEPT ![f] = q]
    BY <1>15 DEF Unwind, Become, EdgeTypes
  <2>5. ClosedForGood' /\ ClosedIsQuiet'
    BY <1>1, <2>3, <2>4, FlowStepKeepsQuiet, Zenon
  <2> QED
    BY <2>1, <2>2, <2>5, Zenon
<1> QED
  BY <1>5, <1>6, <1>7, <1>8, <1>9, <1>10, <1>11, <1>12, <1>13, <1>14, <1>15, Zenon
     DEF Admit, ServeIngress, ServeTCP, ServeFlow, ServeConnector

(* Every step of a port manager keeps the invariant.                       *)
LEMMA ManagerStep ==
  ASSUME EdgeInv, authority \in Versions, NEW k \in Ports, Manager(k)
  PROVE  EdgeInv'
<1> USE DEF EdgeInv
<1>1. UNCHANGED <<scenario, phase, held, inUse, main>>
  BY Zenon DEF Manager, ReadEndpoints, Reconcile, RunCloses, RunReturns, counts, process
<1>2. EdgeUnits' /\ \A x \in Ports : Quiet(x)' = Quiet(x) /\ PastClose(x)' = PastClose(x)
  BY <1>1, ManagerStepKeepsUnits, Zenon DEF Quiet, FlowsOf, Active, kind, PastClose
<1>3. CASE ReadEndpoints(k)
  <2>1. /\ runner[k] = "loop" /\ fetched' = [fetched EXCEPT ![k] = authority]
        /\ UNCHANGED <<listener, closed, runner>>
    BY <1>3, Zenon DEF ReadEndpoints
  <2>2. EdgeTypes'
    BY <1>1, <2>1, Zenon DEF EdgeTypes
  <2>3. ClosedForGood'
    BY <1>1, <1>2, <2>1, Zenon DEF ClosedForGood, EdgeTypes
  <2>4. ClosedIsQuiet'
    BY <1>1, <1>2, <2>1, Zenon DEF ClosedIsQuiet
  <2> QED
    BY <1>2, <2>2, <2>3, <2>4, Zenon
<1>4. CASE Reconcile(k)
  <2>1. PICK v \in Versions :
          /\ listener' = listener \/ (~closed[k] /\ runner[k] # "off" /\ listener' = [listener EXCEPT ![k] = v])
          /\ fetched' = [fetched EXCEPT ![k] = Unread] /\ UNCHANGED <<closed, runner>>
    <3>1. fetched[k] \in Versions /\ Withdrawn \in Versions /\ runner[k] # "off"
      BY <1>4 DEF Reconcile, EdgeTypes, Versions, Withdrawn, ClosedForGood
    <3> QED
      BY <1>4, <3>1, Zenon DEF Reconcile
  <2>2. EdgeTypes'
    BY <1>1, <2>1, Zenon DEF EdgeTypes
  <2>3. ClosedForGood'
    BY <1>2, <2>1, Zenon DEF ClosedForGood, EdgeTypes
  <2>4. ClosedIsQuiet'
    <3>1. ASSUME NEW x \in Ports, runner[x] = "returned" \/ PastClose(x)
          PROVE  listener'[x] = listener[x] /\ Quiet(x) /\ listener[x] = Withdrawn
      BY <2>1, <3>1, Zenon DEF ClosedIsQuiet, ClosedForGood, PastClose, EdgeTypes
    <3> QED
      BY <1>1, <1>2, <2>1, <3>1, Zenon DEF ClosedIsQuiet, PastClose
  <2> QED
    BY <1>2, <2>2, <2>3, <2>4, Zenon
<1>5. CASE RunCloses(k)
  <2>1. /\ runner' = [runner EXCEPT ![k] = "closing"] /\ closed' = [closed EXCEPT ![k] = TRUE]
        /\ listener' = [listener EXCEPT ![k] = Withdrawn] /\ UNCHANGED fetched
    BY <1>5, Zenon DEF RunCloses, MarkClosed
  <2>2. EdgeTypes'
    BY <1>1, <2>1 DEF EdgeTypes, Versions, Withdrawn
  <2>3. ClosedForGood'
    BY <1>2, <2>1, Zenon DEF ClosedForGood, EdgeTypes
  <2>4. ClosedIsQuiet'
    BY <1>1, <1>2, <2>1, Zenon DEF ClosedIsQuiet, EdgeTypes
  <2> QED
    BY <1>2, <2>2, <2>3, <2>4, Zenon
<1>6. CASE RunReturns(k)
  <2>1. /\ runner[k] = "closing" /\ Quiet(k) /\ runner' = [runner EXCEPT ![k] = "returned"]
        /\ UNCHANGED <<closed, listener, fetched>>
    BY <1>6, Zenon DEF RunReturns
  <2>2. EdgeTypes'
    BY <1>1, <2>1, Zenon DEF EdgeTypes
  <2>3. ClosedForGood'
    BY <1>2, <2>1, Zenon DEF ClosedForGood, EdgeTypes
  <2>4. ClosedIsQuiet'
    BY <1>1, <1>2, <2>1, Zenon DEF ClosedIsQuiet, EdgeTypes, ClosedForGood
  <2> QED
    BY <1>2, <2>2, <2>3, <2>4, Zenon
<1> QED
  BY <1>3, <1>4, <1>5, <1>6, Zenon DEF Manager

(* Every step of run, of the signal and of the metadata keeps it.          *)
LEMMA ProcessStep ==
  ASSUME EdgeInv, (\E v \in Versions : ChangeAuthority(v)) \/ Signal \/ ServerFails \/ Main
  PROVE  EdgeInv'
<1> USE DEF EdgeInv
<1>1. UNCHANGED <<scenario, phase, held, inUse, fetched, runner>>
  BY Zenon DEF ChangeAuthority, Signal, ServerFails, Main, CloseManager, ManagerClosed, ShutDownServer,
         CloseTunnels, counts, managers
<1>2. EdgeUnits' /\ \A x \in Ports : Quiet(x)' = Quiet(x)
  BY <1>1, ManagerStepKeepsUnits DEF Quiet, FlowsOf, Active, kind
<1>3. ASSUME NEW k \in Ports, CloseManager(k) PROVE EdgeInv'
  <2>1. /\ closed' = [closed EXCEPT ![k] = TRUE] /\ listener' = [listener EXCEPT ![k] = Withdrawn]
        /\ UNCHANGED main
    BY <1>3, Zenon DEF CloseManager, MarkClosed, process
  <2>2. EdgeTypes'
    BY <1>1, <2>1 DEF EdgeTypes, Versions, Withdrawn
  <2>3. ClosedForGood'
    BY <1>1, <2>1, Zenon DEF ClosedForGood, EdgeTypes, PastClose
  <2>4. ClosedIsQuiet'
    BY <1>1, <1>2, <2>1, Zenon DEF ClosedIsQuiet, EdgeTypes
  <2> QED
    BY <1>2, <2>2, <2>3, <2>4, Zenon
<1>4. ASSUME NEW k \in Ports, ManagerClosed(k) PROVE EdgeInv'
  <2>1. /\ main = k /\ (runner[k] = "off" \/ closed[k]) /\ Quiet(k)
        /\ main' = IF k = "tcp" THEN "udp" ELSE "http"
        /\ UNCHANGED <<listener, closed>>
    BY <1>4, Zenon DEF ManagerClosed, managers
  <2>2. EdgeTypes'
    BY <1>1, <2>1, Zenon DEF EdgeTypes
  <2>3. ClosedForGood'
    BY <1>1, <2>1, Zenon DEF ClosedForGood, PastClose, Ports
  <2>4. ClosedIsQuiet'
    BY <1>1, <1>2, <2>1, Zenon DEF ClosedIsQuiet, ClosedForGood, Ports
  <2> QED
    BY <1>2, <2>2, <2>3, <2>4, Zenon
<1>5. ASSUME UNCHANGED <<listener, closed>>,
             \/ UNCHANGED main
             \/ main = "run" /\ main' = "tcp"
             \/ main = "http" /\ main' = "tunnels"
             \/ main = "tunnels" /\ main' = "exit"
      PROVE  EdgeInv'
  <2>1. \A k \in Ports : PastClose(k)' = PastClose(k)
    BY <1>5 DEF PastClose, Ports
  <2>2. EdgeTypes'
    BY <1>1, <1>5, Zenon DEF EdgeTypes
  <2>3. ClosedForGood'
    BY <1>1, <1>5, <2>1, Zenon DEF ClosedForGood
  <2>4. ClosedIsQuiet'
    BY <1>1, <1>2, <1>5, <2>1 DEF ClosedIsQuiet, PastClose
  <2> QED
    BY <1>2, <2>2, <2>3, <2>4, Zenon
<1> QED
  BY <1>3, <1>4, <1>5, Zenon DEF ChangeAuthority, Signal, ServerFails, Main, ShutDownServer, CloseTunnels,
                          managers, process

(* The metadata answer a version of the endpoint, or that it is withdrawn. *)
LEMMA AuthorityIsVersion == EdgeSpec => [](authority \in Versions)
<1>1. EdgeInit => authority \in Versions
  BY DEF EdgeInit, Versions
<1>2. authority \in Versions /\ [EdgeNext]_edgevars => (authority \in Versions)'
  <2> SUFFICES ASSUME authority \in Versions, [EdgeNext]_edgevars PROVE (authority \in Versions)'
    OBVIOUS
  <2>1. ASSUME NEW k, Manager(k) PROVE UNCHANGED authority
    BY <2>1, Zenon DEF Manager, ReadEndpoints, Reconcile, RunCloses, RunReturns
  <2>2. ASSUME Signal \/ ServerFails \/ Main PROVE UNCHANGED authority
    BY <2>2, Zenon DEF Signal, ServerFails, Main, CloseManager, ManagerClosed, ShutDownServer, CloseTunnels
  <2>3. ASSUME NEW f \in Flows,
               ArriveHTTP(f) \/ ArriveConnector(f) \/ Accept(f) \/ Admit(f) \/ Monitor(f) \/ Unwind(f)
        PROVE  UNCHANGED authority
    BY <2>3, Zenon DEF ArriveHTTP, ArriveConnector, Arrive, Accept, Admit, StartTCP, StartUDP, CheckTCP, Rate,
                Acquire, Open, Monitor, Unwind
  <2>4. ASSUME NEW f \in Flows, ServeIngress(f) \/ ServeTCP(f) \/ ServeFlow(f) \/ ServeConnector(f)
        PROVE  UNCHANGED authority
    BY <2>4, Zenon DEF ServeIngress, ServeTCP, ServeFlow, ServeConnector, RequestWritten, Upload, Credited,
                Wane, Datagram, Finish, Timeout, Cut
  <2>5. ASSUME NEW v \in Versions, ChangeAuthority(v) PROVE (authority \in Versions)'
    BY <2>5, Zenon DEF ChangeAuthority
  <2>6. UNCHANGED edgevars => UNCHANGED authority
    BY DEF edgevars
  <2>7. UNCHANGED authority => (authority \in Versions)'
    OBVIOUS
  <2> QED
    BY <2>1, <2>2, <2>3, <2>4, <2>5, <2>6, <2>7, Zenon DEF EdgeNext, TCPManager, UDPManager
<1> QED
  BY <1>1, <1>2, PTL DEF EdgeSpec

(* Every step of the Gateway's public side keeps the invariant.            *)
LEMMA StepEdge == EdgeInv /\ authority \in Versions /\ [EdgeNext]_edgevars => EdgeInv'
<1> SUFFICES ASSUME EdgeInv, authority \in Versions, [EdgeNext]_edgevars PROVE EdgeInv'
  OBVIOUS
<1>1. CASE UNCHANGED edgevars
  <2>1. UNCHANGED <<scenario, listener, fetched, closed, runner, phase, held, inUse, main>>
    BY <1>1, Zenon DEF edgevars
  <2>2. EdgeTypes' /\ ClosedForGood' /\ ClosedIsQuiet'
    BY <2>1, Zenon DEF EdgeInv, EdgeTypes, ClosedForGood, PastClose, ClosedIsQuiet, Quiet, FlowsOf, Active, kind
  <2> QED
    BY <2>1, <2>2, ManagerStepKeepsUnits, Zenon DEF EdgeInv
<1>2. CASE EdgeNext
  <2>1. "tcp" \in Ports /\ "udp" \in Ports
    BY DEF Ports
  <2> QED
    BY <1>2, <2>1, HandlerStep, ManagerStep, ProcessStep, Zenon DEF EdgeNext, TCPManager, UDPManager
<1> QED
  BY <1>1, <1>2

(* Whatever refusal, failure, cancellation or end each flow meets, for any *)
(* number of flows of every kind and any limits: each counter and slot is  *)
(* the number of flows that hold it, within its limit; a handler serves    *)
(* only with all its units, and has given all back when it ends.           *)
THEOREM UnitsStayAccounted == EdgeSpec => []UnitsAccounted
<1>1. EdgeInv => UnitsAccounted
  <2> SUFFICES ASSUME EdgeInv PROVE UnitsAccounted
    OBVIOUS
  <2>1. \A r \in Resources : inUse[r] = Cardinality({f \in Flows : r \in Range(held[f])}) /\ inUse[r] <= LimitOf(r)
    BY Zenon DEF EdgeInv, EdgeUnits, UnitsCounted, Holders
  <2>2. ASSUME NEW f \in Flows, phase[f] \in Serving,
               NEW s \in Range(Admission(kind[f])) \ {"check", "rate", "open"}
        PROVE  Key(f, s) \in Range(held[f])
    <3>1. kind[f] \in {"http", "tcp", "udp", "connector"}
      BY StageOrder DEF EdgeInv, Kinds, Ports
    <3>2. s \in {"route", "device", "slot"} \/ (kind[f] = "connector" /\ s = "grant")
      BY <3>1 DEF Admission, IngressStages, TCPStages, UDPStages, ConnectorStages, Range
    <3>3. s \in Passed(kind[f], phase[f]) /\ phase[f] # "unwinding"
      BY <2>2, <3>2 DEF Passed, Serving
    <3>4. Key(f, s) \in Resources
      BY <3>2, Zenon DEF Key, Resources
    <3> QED
      BY <3>3, <3>4, Zenon DEF EdgeInv, EdgeUnits, HeldInOrder
  <2>3. \A f \in Flows : phase[f] = "ended" => held[f] = <<>>
    BY DEF EdgeInv, EdgeUnits, HeldInOrder
  <2> QED
    BY <2>1, <2>2, <2>3, Zenon DEF UnitsAccounted
<1> QED
  BY <1>1, InitEdge, AuthorityIsVersion, StepEdge, PTL DEF EdgeSpec

(* Once Close of a port manager has returned, none of its handlers runs,   *)
(* no listener is open and none is opened, wherever reconcile, the accept  *)
(* loop and the reader were when it was called.                            *)
THEOREM ClosedStaysQuiet == EdgeSpec => []ClosedIsQuiet
<1>1. EdgeInv => ClosedIsQuiet
  BY DEF EdgeInv
<1> QED
  BY <1>1, InitEdge, AuthorityIsVersion, StepEdge, PTL DEF EdgeSpec
=============================================================================
