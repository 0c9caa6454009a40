--------------------------- MODULE RegistrySteps ---------------------------
(***************************************************************************)
(* The inductive invariant of the registry of Agent sessions, and the      *)
(* steps of the handshakes, for any number of connections and devices.     *)
(***************************************************************************)
EXTENDS SessionRegistry, FiniteSetTheorems, TLAPS

Unborn == {"idle", "preface", "looking", "consuming", "checking", "proving"}
Unregistered == {"replying", "registering"}
Serving == {"replacing", "running"}

RegTypeOK ==
    /\ scenario \in Scenarios
    /\ pc \in [Conns -> Unborn \cup Unregistered \cup Serving \cup {"closed"}]
    /\ tunnels \subseteq Conns /\ doomed \subseteq Conns
    /\ primaries \in [Devices -> Conns \cup {None}]
    /\ identity \in [Conns -> Conns \cup {None}]
    /\ target \in [Conns -> Conns \cup {None}]
    /\ recency \in Seq(Conns) /\ IsInjective(recency)
    /\ resumedBy \in [Conns -> SUBSET Conns]

(* Where handleAgent is says whether the session object exists, whether it *)
(* may be registered, and what the session it resumes or replaces is.      *)
SessionsInPlace ==
    /\ \A c \in Conns : /\ pc[c] \in Unborn => identity[c] = None
                        /\ pc[c] \in Unregistered \cup Serving => identity[c] # None
                        /\ identity[c] # None => device[identity[c]] = device[c]
                        /\ pc[c] \in Unregistered => c \in authorized \cap Range(recency)
    /\ \A c \in tunnels : pc[c] \in Serving /\ c \in Range(recency)
    /\ \A c \in doomed : pc[c] \in Serving \cup {"closed"}
    /\ \A c \in Conns : pc[c] = "replacing" =>
            target[c] \in Conns /\ pc[target[c]] \in Serving \cup {"closed"}
    /\ \A c \in Conns : pc[c] \in {"consuming", "checking"} =>
            /\ target[c] \in Conns /\ identity[target[c]] # None
            /\ device[target[c]] = device[c]

(* A session's resume slot is armed, or held by one connection that checks *)
(* a proof, or was spent on one resume: never two of these.                *)
SlotsExclusive ==
    /\ \A e \in armed : /\ e \in Conns /\ identity[e] # None /\ resumedBy[e] = {}
                        /\ \A c \in Conns : pc[c] = "checking" => target[c] # e
    /\ \A c \in Conns : pc[c] = "checking" => resumedBy[target[c]] = {}
    /\ \A a, b \in Conns : pc[a] = "checking" /\ pc[b] = "checking" /\ a # b
                           => target[a] # target[b]
    /\ \A e \in Conns : /\ identity[e] = None => resumedBy[e] = {}
                        /\ \A a, b \in resumedBy[e] : a = b

MapsInStep == PrimaryRegistered /\ WithinCapacity /\ OneTunnelPerIdentity

(* The inductive invariant of the registry.                                *)
RegInv == RegTypeOK /\ SessionsInPlace /\ SlotsExclusive /\ MapsInStep

(* The absent session is none of the connections.                          *)
LEMMA NoneIsNoConn == None \notin Conns
  BY RegistryLimits DEF Conns, None

(* A set of indices has a smallest one.                                    *)
LEMMA SmallestIndex ==
    ASSUME NEW T, T \subseteq Nat, T # {}
    PROVE  \E x \in T : \A y \in T : x <= y
<1> DEFINE R == {ss \in Nat \X Nat : ss[1] < ss[2]}
<1>1. IsWellFoundedOn(R, Nat)
  BY NatLessThanWellFounded DEF OpToRel
<1>2. PICK x \in T : \A y \in T : ~ (<<y, x>> \in R)
  <2> HIDE DEF R
  <2> QED
    BY <1>1, WFMin, Zenon
<1>3. \A y \in T : ~ (y < x)
  BY <1>2, Zenon
<1> QED
  BY <1>3

(* lastSeen orders the sessions it names: a set of them has an oldest.     *)
LEMMA OldestIsMember ==
    ASSUME recency \in Seq(Conns), NEW S, S # {}, S \subseteq Range(recency)
    PROVE  Oldest(S) \in S
<1> DEFINE T == {i \in DOMAIN recency : recency[i] \in S}
<1>1. DOMAIN recency = 1..Len(recency) /\ Len(recency) \in Nat
  OBVIOUS
<1>2. \A e \in S : \E i \in T : recency[i] = e
  BY DEF Range
<1>3. PICK i \in T : \A j \in T : i <= j
  <2>1. T \subseteq Nat /\ T # {}
    BY <1>1, <1>2
  <2> QED
    BY <2>1, SmallestIndex, Zenon
<1>4. \A e \in S \ {recency[i]} : Older(recency[i], e)
  <2> SUFFICES ASSUME NEW e \in S, e # recency[i] PROVE Older(recency[i], e)
    OBVIOUS
  <2>1. PICK j \in T : recency[j] = e
    BY <1>2
  <2>2. i < j
    BY <1>1, <1>3, <2>1
  <2> QED
    BY <2>1, <2>2 DEF Older
<1>5. recency[i] \in S
  OBVIOUS
<1> QED
  BY <1>4, <1>5 DEF Oldest

(* Taking a session out of the order of lastSeen takes out nothing else.   *)
LEMMA RemovedFromOrder ==
    ASSUME NEW s \in Seq(Conns), IsInjective(s), NEW c
    PROVE  /\ Without(s, c) \in Seq(Conns) /\ IsInjective(Without(s, c))
           /\ Range(Without(s, c)) = Range(s) \ {c}
<1>1. DOMAIN s = 1..Len(s) /\ Len(s) \in Nat
  OBVIOUS
<1>2. CASE ~ \E i \in 1..Len(s) : s[i] = c
  BY <1>1, <1>2, Zenon DEF Without, Range
<1>3. CASE \E i \in 1..Len(s) : s[i] = c
  <2>1. PICK k \in 1..Len(s) : s[k] = c /\ k = CHOOSE i \in DOMAIN s : s[i] = c
    BY <1>1, <1>3
  <2>2. k \in 1..Len(s) /\ s[k] = c
    BY <2>1
  <2> DEFINE r == SubSeq(s, 1, k - 1) \o SubSeq(s, k + 1, Len(s))
  <2>3. /\ r \in Seq(Conns) /\ DOMAIN r = 1..(Len(s) - 1)
        /\ \A j \in DOMAIN r : r[j] = IF j < k THEN s[j] ELSE s[j + 1]
    <3> DEFINE u == SubSeq(s, 1, k - 1)
               v == SubSeq(s, k + 1, Len(s))
    <3>1. u \in Seq(Conns) /\ Len(u) = k - 1 /\ \A j \in 1..(k - 1) : u[j] = s[j]
      BY <1>1, <2>2
    <3>2. v \in Seq(Conns) /\ Len(v) = Len(s) - k /\ \A j \in 1..(Len(s) - k) : v[j] = s[k + j]
      <4>1. ASSUME NEW m \in 1..Len(s)
            PROVE  /\ SubSeq(s, m + 1, Len(s)) \in Seq(Conns)
                   /\ Len(SubSeq(s, m + 1, Len(s))) = Len(s) - m
                   /\ \A j \in 1..(Len(s) - m) : SubSeq(s, m + 1, Len(s))[j] = s[m + j]
        OBVIOUS
      <4> QED
        BY <2>2, <4>1
    <3> HIDE DEF u, v
    <3>3. r = u \o v
      BY DEF u, v
    <3> HIDE DEF r
    <3>4. ASSUME NEW a \in Seq(Conns), NEW b \in Seq(Conns)
          PROVE  /\ a \o b \in Seq(Conns) /\ DOMAIN (a \o b) = 1..(Len(a) + Len(b))
                 /\ \A j \in 1..(Len(a) + Len(b)) :
                       (a \o b)[j] = IF j <= Len(a) THEN a[j] ELSE b[j - Len(a)]
      OBVIOUS
    <3>5. /\ r \in Seq(Conns) /\ DOMAIN r = 1..(Len(s) - 1)
          /\ \A j \in 1..(Len(s) - 1) : r[j] = IF j <= k - 1 THEN u[j] ELSE v[j - (k - 1)]
      <4>1. Len(u) + Len(v) = Len(s) - 1
        BY <1>1, <2>2, <3>1, <3>2
      <4> QED
        BY <3>1, <3>2, <3>3, <3>4, <4>1
    <3>6. ASSUME NEW j \in 1..(Len(s) - 1)
          PROVE  r[j] = IF j < k THEN s[j] ELSE s[j + 1]
      <4>1. CASE j < k
        <5>1. j \in 1..(k - 1) /\ j <= k - 1
          BY <1>1, <2>2, <4>1
        <5> QED
          BY <3>1, <3>5, <4>1, <5>1
      <4>2. CASE j >= k
        <5>1. r[j] = v[j - (k - 1)] /\ j - (k - 1) \in 1..(Len(s) - k)
          BY <1>1, <2>2, <3>5, <4>2
        <5>2. v[j - (k - 1)] = s[k + (j - (k - 1))] /\ k + (j - (k - 1)) = j + 1
          BY <1>1, <2>2, <3>2, <5>1
        <5> QED
          BY <1>1, <2>2, <4>2, <5>1, <5>2
      <4> QED
        BY <1>1, <2>2, <4>1, <4>2
    <3> QED
      BY <3>5, <3>6
  <2>0. Without(s, c) = r
    BY <1>1, <1>3, <2>1, Zenon DEF Without, Range
  <2> HIDE DEF r
  <2>4. IsInjective(r)
    BY <1>1, <2>2, <2>3 DEF IsInjective
  <2>5. Range(r) \subseteq Range(s) \ {c}
    BY <1>1, <2>2, <2>3 DEF IsInjective, Range
  <2>6. ASSUME NEW i \in DOMAIN s, s[i] # c PROVE s[i] \in Range(r)
    <3>1. CASE i < k
      BY <1>1, <2>2, <2>3, <3>1 DEF Range
    <3>2. CASE i > k
      <4>1. i - 1 \in DOMAIN r /\ r[i - 1] = s[i]
        BY <1>1, <2>2, <2>3, <3>2
      <4> QED
        BY <4>1 DEF Range
    <3> QED
      BY <1>1, <2>2, <2>6, <3>1, <3>2
  <2> QED
    <3>1. Range(s) \ {c} \subseteq Range(r)
      BY <2>6 DEF Range
    <3> QED
      BY <2>0, <2>3, <2>4, <2>5, <3>1
<1> QED
  BY <1>2, <1>3

(* A session that is seen becomes the last of the order.                   *)
LEMMA SeenInOrder ==
    ASSUME recency \in Seq(Conns), IsInjective(recency), NEW c \in Conns
    PROVE  /\ Seen(c) \in Seq(Conns) /\ IsInjective(Seen(c))
           /\ Range(Seen(c)) = Range(recency) \cup {c}
<1> DEFINE r == Without(recency, c)
<1>1. r \in Seq(Conns) /\ IsInjective(r) /\ Range(r) = Range(recency) \ {c}
  BY RemovedFromOrder
<1>2. Seen(c) = Append(r, c)
  BY DEF Seen
<1> HIDE DEF r
<1>3. /\ Seen(c) \in Seq(Conns) /\ DOMAIN r = 1..Len(r) /\ Len(r) \in Nat
      /\ DOMAIN Seen(c) = 1..(Len(r) + 1) /\ Seen(c)[Len(r) + 1] = c
      /\ \A i \in 1..Len(r) : Seen(c)[i] = r[i]
  BY <1>1, <1>2
<1>4. \A i \in 1..Len(r) : r[i] # c
  BY <1>1, <1>3, Zenon DEF Range
<1>5. IsInjective(Seen(c))
  BY <1>1, <1>3, <1>4 DEF IsInjective
<1>6. Range(Seen(c)) = Range(r) \cup {c}
  <2>1. Range(Seen(c)) \subseteq Range(r) \cup {c}
    BY <1>3 DEF Range
  <2>2. c \in Range(Seen(c))
    BY <1>3 DEF Range
  <2>3. ASSUME NEW i \in DOMAIN r PROVE r[i] \in Range(Seen(c))
    BY <1>3 DEF Range
  <2> QED
    BY <2>1, <2>2, <2>3, Zenon DEF Range
<1> QED
  BY <1>1, <1>3, <1>5, <1>6

(* An empty registry.                                                      *)
LEMMA InitRegistry == Init => RegInv
<1> SUFFICES ASSUME Init PROVE RegInv
  OBVIOUS
<1>1. RegTypeOK
  <2>1. <<>> \in Seq(Conns) /\ IsInjective(<<>>)
    BY DEF IsInjective
  <2> QED
    BY <2>1 DEF Init, RegTypeOK, Unborn
<1>2. SessionsInPlace /\ SlotsExclusive
  BY DEF Init, SessionsInPlace, SlotsExclusive, Unborn, Unregistered, Serving
<1>3. MapsInStep
  <2>1. \A d \in Devices : Tunnels(d) = {}
    BY DEF Init, Tunnels
  <2>2. Cardinality({}) = 0
    BY FS_EmptySet
  <2>3. scenario.sessions \in Nat
    BY RegistryLimits DEF Init
  <2>4. WithinCapacity
    <3>1. Cardinality(tunnels) <= MaxAgentSessions
      BY <2>2, <2>3 DEF Init, MaxAgentSessions
    <3>2. \A d \in Devices : Cardinality(Tunnels(d)) <= MaxTunnelsPerDevice
      <4>1. MaxTunnelsPerDevice \in Nat
        BY RegistryLimits
      <4>2. 0 <= MaxTunnelsPerDevice
        BY <4>1
      <4> QED
        BY <2>1, <2>2, <4>2, Zenon
    <3> QED
      BY <3>1, <3>2 DEF WithinCapacity
  <2> QED
    BY <2>1, <2>4 DEF Init, MapsInStep, PrimaryRegistered, OneTunnelPerIdentity
<1> QED
  BY <1>1, <1>2, <1>3 DEF RegInv

(* What leaves both maps and the identities of the registered sessions     *)
(* alone keeps the maps in step.                                           *)
LEMMA MapsKept ==
    ASSUME RegInv, UNCHANGED <<scenario, tunnels, primaries>>,
           \A c \in tunnels : identity'[c] = identity[c]
    PROVE  MapsInStep'
<1>1. \A d \in Devices : Tunnels(d)' = Tunnels(d)
  BY DEF Tunnels, device
<1>2. PrimaryRegistered'
  BY <1>1 DEF RegInv, MapsInStep, PrimaryRegistered
<1>3. WithinCapacity'
  BY <1>1 DEF RegInv, MapsInStep, WithinCapacity, MaxAgentSessions
<1>4. OneTunnelPerIdentity'
  BY DEF RegInv, MapsInStep, OneTunnelPerIdentity
<1> QED
  BY <1>2, <1>3, <1>4 DEF MapsInStep

(* Any set of sessions is finite.                                          *)
LEMMA SessionsCounted ==
    ASSUME NEW T, T \subseteq Conns
    PROVE  IsFiniteSet(T) /\ Cardinality(T) \in Nat
<1>1. IsFiniteSet(Conns)
  BY FS_Interval, RegistryLimits DEF Conns
<1> QED
  BY <1>1, FS_Subset, FS_CardinalityType

(* unregisterSession: where the primary leaves, a survivor is promoted, and*)
(* the capacity only grows.                                                *)
LEMMA UnregisterKeepsMaps ==
    ASSUME RegInv, NEW e \in Conns, Unregister({e}), UNCHANGED <<scenario, identity>>
    PROVE  MapsInStep' /\ primaries' \in [Devices -> Conns \cup {None}]
<1> USE DEF RegInv, MapsInStep, RegTypeOK, SessionsInPlace
<1>1. tunnels' = tunnels \ {e} /\ \A d \in Devices : Tunnels(d)' = Tunnels(d) \ {e}
  BY DEF Unregister, Tunnels, device
<1>2. ASSUME NEW d \in Devices, Tunnels(d) \ {e} # {}
      PROVE  Oldest(Tunnels(d) \ {e}) \in Tunnels(d) \ {e}
  BY <1>2, OldestIsMember, Zenon DEF Tunnels
<1>3. PrimaryRegistered' /\ primaries' \in [Devices -> Conns \cup {None}]
  <2>1. primaries' = [d \in Devices |->
            IF primaries[d] \notin {e} THEN primaries[d]
            ELSE IF Tunnels(d) \ {e} = {} THEN None ELSE Oldest(Tunnels(d) \ {e})]
    BY DEF Unregister
  <2>2. ASSUME NEW d \in Devices
        PROVE  /\ primaries'[d] \in Conns \cup {None}
               /\ IF Tunnels(d) \ {e} = {} THEN primaries'[d] = None
                  ELSE primaries'[d] \in Tunnels(d) \ {e}
    <3>1. Tunnels(d) \subseteq Conns /\ None \notin Conns
      BY NoneIsNoConn DEF Tunnels
    <3>2. IF Tunnels(d) = {} THEN primaries[d] = None ELSE primaries[d] \in Tunnels(d)
      BY Zenon DEF PrimaryRegistered
    <3>3. primaries'[d] = IF primaries[d] # e THEN primaries[d]
                          ELSE IF Tunnels(d) \ {e} = {} THEN None ELSE Oldest(Tunnels(d) \ {e})
      BY <2>1, Zenon
    <3> QED
      BY <1>2, <3>1, <3>2, <3>3
  <2> QED
    BY <1>1, <2>1, <2>2 DEF PrimaryRegistered
<1>4. WithinCapacity'
  <2>1. IsFiniteSet(Conns)
    BY FS_Interval, RegistryLimits DEF Conns
  <2>2. ASSUME NEW T, T \subseteq Conns
        PROVE  /\ Cardinality(T) \in Nat /\ Cardinality(T \ {e}) \in Nat
               /\ Cardinality(T \ {e}) <= Cardinality(T)
    BY <2>1, <2>2, FS_Subset, FS_CardinalityType, Zenon
  <2>3. scenario.sessions \in Nat
    BY RegistryLimits, Zenon
  <2>4. Cardinality(tunnels') <= MaxAgentSessions'
    BY <1>1, <2>2, <2>3 DEF WithinCapacity, MaxAgentSessions
  <2>5. ASSUME NEW d \in Devices PROVE Cardinality(Tunnels(d)') <= MaxTunnelsPerDevice
    <3>1. Tunnels(d) \subseteq Conns
      BY DEF Tunnels
    <3>2. Cardinality(Tunnels(d)) <= MaxTunnelsPerDevice /\ MaxTunnelsPerDevice \in Nat
      BY RegistryLimits, Zenon DEF WithinCapacity
    <3>3. Tunnels(d)' = Tunnels(d) \ {e}
      BY <1>1, Zenon
    <3> HIDE DEF RegInv, MapsInStep, RegTypeOK, SessionsInPlace
    <3> QED
      BY <2>2, <3>1, <3>2, <3>3
  <2> QED
    BY <2>4, <2>5, Zenon DEF WithinCapacity
<1>5. OneTunnelPerIdentity'
  BY <1>1 DEF OneTunnelPerIdentity
<1> QED
  BY <1>3, <1>4, <1>5, Zenon

(* A connection whose session is not registered moves on in its handshake, *)
(* or is closed.                                                           *)
LEMMA HandshakeMoves ==
    ASSUME RegInv, NEW c \in Conns, NEW l, pc' = [pc EXCEPT ![c] = l],
           pc[c] \in Unborn \cup Unregistered,
           \/ l = "closed"
           \/ l \in Unborn \ {"consuming", "checking"} /\ pc[c] \in Unborn
           \/ l \in Unregistered /\ pc[c] \in Unregistered,
           UNCHANGED <<scenario, identity, target, tunnels, primaries, authorized, armed, recency,
                       doomed, resumedBy>>
    PROVE  RegInv'
<1>1. MapsInStep'
  BY MapsKept
<1>2. RegTypeOK'
  BY DEF RegInv, RegTypeOK
<1>3. \A e \in Conns \ {c} : pc'[e] = pc[e]
  BY DEF RegInv, RegTypeOK
<1>4. pc'[c] = l /\ l \notin {"consuming", "checking", "replacing", "running"}
  BY DEF RegInv, RegTypeOK, Unborn, Unregistered
<1>5. SessionsInPlace'
  <2>1. /\ \A e \in Conns :
              /\ pc'[e] \in Unborn => identity[e] = None
              /\ pc'[e] \in Unregistered \cup Serving => identity[e] # None
              /\ identity[e] # None => device[identity[e]] = device[e]
              /\ pc'[e] \in Unregistered => e \in authorized \cap Range(recency)
    BY <1>3, <1>4 DEF RegInv, SessionsInPlace, Unborn, Unregistered, Serving
  <2>2. c \notin tunnels /\ c \notin doomed
    BY Zenon DEF RegInv, SessionsInPlace, Unborn, Unregistered, Serving
  <2>3. /\ \A e \in tunnels : pc'[e] \in Serving /\ e \in Range(recency)
        /\ \A e \in doomed : pc'[e] \in Serving \cup {"closed"}
    BY <1>3, <2>2 DEF RegInv, RegTypeOK, SessionsInPlace
  <2>4. \A e \in Conns : pc'[e] = "replacing" =>
            target[e] \in Conns /\ pc'[target[e]] \in Serving \cup {"closed"}
    BY <1>3, <1>4 DEF RegInv, SessionsInPlace, Unborn, Unregistered, Serving
  <2>5. \A e \in Conns : pc'[e] \in {"consuming", "checking"} =>
            /\ target[e] \in Conns /\ identity[target[e]] # None
            /\ device[target[e]] = device[e]
    BY <1>3, <1>4, Zenon DEF RegInv, SessionsInPlace
  <2> QED
    BY <2>1, <2>3, <2>4, <2>5 DEF SessionsInPlace, device
<1>6. SlotsExclusive'
  BY <1>3, <1>4 DEF RegInv, SlotsExclusive
<1> QED
  BY <1>1, <1>2, <1>5, <1>6 DEF RegInv

(* A step of one connection that registers nothing and creates no session. *)
LEMMA QuietStepKeeps ==
    ASSUME RegInv, NEW c \in Conns,
           \/ Dial(c) \/ Refuse(c) \/ ReadPreface(c) \/ LookUp(c) \/ Consume(c) \/ Reply(c)
           \/ RegisterRejected(c) \/ LoseTransport(c) \/ Revalidate(c)
    PROVE  RegInv'
<1> USE DEF fixed, TurnAway
<1>1. ASSUME NEW l, pc' = [pc EXCEPT ![c] = l],
             \/ /\ pc[c] \in {"idle", "preface", "looking", "consuming", "proving"}
                /\ l \in {"closed", "preface", "looking", "proving"}
             \/ /\ pc[c] \in {"replying", "registering"}
                /\ l \in {"closed", "registering"},
             UNCHANGED <<scenario, identity, target, tunnels, primaries, authorized, armed, recency,
                         doomed, resumedBy>>
      PROVE  RegInv'
  <2>1. pc[c] \in Unborn \cup Unregistered
    BY <1>1 DEF Unborn, Unregistered
  <2>2. \/ l = "closed"
        \/ l \in Unborn \ {"consuming", "checking"} /\ pc[c] \in Unborn
        \/ l \in Unregistered /\ pc[c] \in Unregistered
    BY <1>1 DEF Unborn, Unregistered
  <2> QED
    BY <1>1, <2>1, <2>2, HandshakeMoves, Zenon
<1>2. CASE Dial(c)
  BY <1>1, <1>2 DEF Dial
<1>3. CASE Refuse(c)
  BY <1>1, <1>3, Zenon DEF Refuse
<1>4. CASE ReadPreface(c)
  <2>1. /\ pc[c] = "preface"
        /\ \E l \in {"looking", "proving", "closed"} : pc' = [pc EXCEPT ![c] = l]
        /\ UNCHANGED <<scenario, identity, target, tunnels, primaries, authorized, armed, recency,
                       doomed, resumedBy>>
    BY <1>4, Zenon DEF ReadPreface
  <2> QED
    BY <1>1, <2>1, Zenon
<1>5. CASE LookUp(c)
  <2> DEFINE found == {e \in Tunnels(device[c]) : identity[e] = identity[proof[c]]} \cap authorized
  <2>1. CASE found = {}
    <3>1. /\ pc[c] = "looking" /\ pc' = [pc EXCEPT ![c] = "closed"]
          /\ UNCHANGED <<scenario, identity, target, tunnels, primaries, authorized, armed, recency,
                         doomed, resumedBy>>
      BY <1>5, <2>1 DEF LookUp
    <3> QED
      BY <1>1, <3>1, Zenon
  <2>2. CASE found # {}
    <3>1. PICK e \in found : target' = [target EXCEPT ![c] = e]
      BY <1>5, <2>2, Zenon DEF LookUp
    <3>2. e \in Conns /\ identity[e] # None /\ device[e] = device[c]
      BY <3>1, Zenon DEF Tunnels, RegInv, RegTypeOK, SessionsInPlace
    <3>3. /\ pc[c] = "looking" /\ pc' = [pc EXCEPT ![c] = "consuming"]
          /\ UNCHANGED <<scenario, identity, tunnels, primaries, authorized, armed, recency,
                         doomed, resumedBy>>
      BY <1>5, <2>2, Zenon DEF LookUp
    <3> HIDE DEF found
    <3>4. MapsInStep'
      BY <3>3, MapsKept, Zenon
    <3>5. RegTypeOK'
      BY <3>1, <3>2, <3>3, Zenon DEF RegInv, RegTypeOK, Unborn
    <3>6. SessionsInPlace'
      BY <3>1, <3>2, <3>3
         DEF RegInv, RegTypeOK, SessionsInPlace, Unborn, Unregistered, Serving, device
    <3>7. SlotsExclusive'
      BY <3>1, <3>2, <3>3 DEF RegInv, RegTypeOK, SlotsExclusive
    <3> QED
      BY <3>4, <3>5, <3>6, <3>7 DEF RegInv
  <2> QED
    BY <2>1, <2>2, Zenon
<1>6. CASE Consume(c)
  <2>1. CASE target[c] \in armed
    <3>1. /\ pc[c] = "consuming"
          /\ \E l \in {"checking", "closed"} : pc' = [pc EXCEPT ![c] = l]
          /\ armed' = armed \ {target[c]}
          /\ UNCHANGED <<scenario, identity, target, tunnels, primaries, authorized, recency,
                         doomed, resumedBy>>
      BY <1>6, <2>1, Zenon DEF Consume
    <3>2. MapsInStep'
      BY <3>1, MapsKept, Zenon
    <3>3. RegTypeOK'
      BY <3>1, Zenon DEF RegInv, RegTypeOK, Unborn
    <3>4. SessionsInPlace'
      BY <3>1 DEF RegInv, RegTypeOK, SessionsInPlace, Unborn, Unregistered, Serving, device
    <3>5. SlotsExclusive'
      BY <2>1, <3>1 DEF RegInv, RegTypeOK, SlotsExclusive
    <3> QED
      BY <3>2, <3>3, <3>4, <3>5, Zenon DEF RegInv
  <2>2. CASE target[c] \notin armed
    <3>1. /\ pc[c] = "consuming" /\ pc' = [pc EXCEPT ![c] = "closed"]
          /\ UNCHANGED <<scenario, identity, target, tunnels, primaries, authorized, armed, recency,
                         doomed, resumedBy>>
      BY <1>6, <2>2, Zenon DEF Consume
    <3> QED
      BY <1>1, <3>1, Zenon
  <2> QED
    BY <2>1, <2>2
<1>7. CASE Reply(c)
  BY <1>1, <1>7, Zenon DEF Reply
<1>8. CASE RegisterRejected(c)
  BY <1>1, <1>8, Zenon DEF RegisterRejected
<1>9. CASE LoseTransport(c) \/ Revalidate(c)
  <2>1. /\ UNCHANGED <<scenario, pc, identity, target, tunnels, primaries, armed, recency, doomed,
                       resumedBy>>
        /\ authorized' = authorized \/ (pc[c] = "running" /\ authorized' = authorized \ {c})
    BY <1>9, Zenon DEF LoseTransport, Revalidate
  <2>2. MapsInStep'
    BY <2>1, MapsKept, Zenon
  <2>3. RegTypeOK'
    BY <2>1, Zenon DEF RegInv, RegTypeOK
  <2>4. SessionsInPlace'
    BY <2>1, Zenon DEF RegInv, SessionsInPlace, Unregistered, device
  <2>5. SlotsExclusive'
    BY <2>1, Zenon DEF RegInv, SlotsExclusive
  <2> QED
    BY <2>2, <2>3, <2>4, <2>5 DEF RegInv
<1> QED
  BY <1>2, <1>3, <1>4, <1>5, <1>6, <1>7, <1>8, <1>9, Zenon

(* The session of connection c is created: by a full handshake, or by a    *)
(* resume that spends the slot of the session it resumes.                  *)
SessionCreated(c, l, id) ==
    /\ NewSession(c, id) /\ pc' = [pc EXCEPT ![c] = l] /\ armed' = armed \cup {c}
    /\ UNCHANGED <<scenario, tunnels, primaries, doomed>>
    /\ \/ target' = target /\ resumedBy' = resumedBy /\ pc[c] # "checking"
       \/ /\ target' = [target EXCEPT ![c] = None] /\ pc[c] = "checking"
          /\ resumedBy' = [resumedBy EXCEPT ![target[c]] = @ \cup {c}]

(* A new session object: its slot is armed and was never spent.            *)
LEMMA NewSessionKeeps ==
    ASSUME RegInv, NEW c \in Conns, pc[c] \in Unborn, NEW l \in Unregistered,
           NEW id \in Conns, device[id] = device[c], SessionCreated(c, l, id)
    PROVE  RegInv'
<1>1. /\ identity' = [identity EXCEPT ![c] = id] /\ authorized' = authorized \cup {c}
      /\ recency' \in Seq(Conns) /\ IsInjective(recency')
      /\ Range(recency') = Range(recency) \cup {c}
  BY SeenInOrder, Zenon DEF SessionCreated, NewSession, RegInv, RegTypeOK
<1>2. c \notin tunnels /\ identity[c] = None /\ id # None
  BY NoneIsNoConn, Zenon DEF RegInv, RegTypeOK, SessionsInPlace, Unborn, Serving
<1>3. UNCHANGED <<scenario, tunnels, primaries, doomed>> /\ armed' = armed \cup {c}
  BY Zenon DEF SessionCreated
<1>4. MapsInStep'
  BY <1>1, <1>2, <1>3, MapsKept
<1>5. RegTypeOK'
  <2>1. target' \in [Conns -> Conns \cup {None}] /\ resumedBy' \in [Conns -> SUBSET Conns]
    BY DEF SessionCreated, RegInv, RegTypeOK
  <2>2. pc' \in [Conns -> Unborn \cup Unregistered \cup Serving \cup {"closed"}]
    BY Zenon DEF SessionCreated, RegInv, RegTypeOK
  <2> QED
    BY <1>1, <1>3, <2>1, <2>2, Zenon DEF RegInv, RegTypeOK
<1>6. /\ pc'[c] = l /\ identity'[c] = id
      /\ \A e \in Conns \ {c} : pc'[e] = pc[e] /\ identity'[e] = identity[e] /\ target'[e] = target[e]
  BY <1>1 DEF SessionCreated, RegInv, RegTypeOK
<1>7. SessionsInPlace'
  <2>1. ASSUME NEW e \in Conns
        PROVE  /\ pc'[e] \in Unborn => identity'[e] = None
               /\ pc'[e] \in Unregistered \cup Serving => identity'[e] # None
               /\ identity'[e] # None => device[identity'[e]] = device[e]
               /\ pc'[e] \in Unregistered => e \in authorized' \cap Range(recency')
    <3>1. CASE e = c
      BY <1>1, <1>2, <1>6, <3>1 DEF Unborn, Unregistered
    <3>2. CASE e # c
      <4>1. pc'[e] = pc[e] /\ identity'[e] = identity[e]
        BY <1>6, <3>2, Zenon
      <4>2. authorized \subseteq authorized' /\ Range(recency) \subseteq Range(recency')
        BY <1>1, Zenon
      <4> QED
        BY <4>1, <4>2 DEF RegInv, SessionsInPlace
    <3> QED
      BY <3>1, <3>2, Zenon
  <2>2. c \notin doomed /\ tunnels \subseteq Conns /\ doomed \subseteq Conns
    BY Zenon DEF RegInv, RegTypeOK, SessionsInPlace, Unborn, Serving
  <2>3. /\ \A e \in tunnels : pc'[e] \in Serving /\ e \in Range(recency')
        /\ \A e \in doomed : pc'[e] \in Serving \cup {"closed"}
    BY <1>1, <1>2, <1>6, <2>2 DEF RegInv, SessionsInPlace
  <2>4. \A e \in Conns : pc'[e] = "replacing" =>
            target'[e] \in Conns /\ pc'[target'[e]] \in Serving \cup {"closed"}
    BY <1>6 DEF RegInv, SessionsInPlace, Unborn, Unregistered, Serving
  <2>5. \A e \in Conns : pc'[e] \in {"consuming", "checking"} =>
            /\ target'[e] \in Conns /\ identity'[target'[e]] # None
            /\ device[target'[e]] = device[e]
    BY <1>2, <1>6 DEF RegInv, SessionsInPlace, Unregistered
  <2> QED
    BY <1>3, <2>1, <2>3, <2>4, <2>5, Zenon DEF SessionsInPlace, device
<1>8. SlotsExclusive'
  <2>1. resumedBy[c] = {} /\ \A e \in Conns : pc[e] = "checking" => target[e] # c
    BY <1>2, Zenon DEF RegInv, SessionsInPlace, SlotsExclusive
  <2>2. \A e \in Conns : pc'[e] = "checking" =>
            pc[e] = "checking" /\ e # c /\ target'[e] = target[e]
    BY <1>6, Zenon DEF Unregistered
  <2>3. CASE pc[c] # "checking"
    <3>1. \A e \in Conns : resumedBy'[e] = resumedBy[e]
      BY <2>3, Zenon DEF SessionCreated
    <3>2. ASSUME NEW e \in armed'
          PROVE  /\ e \in Conns /\ identity'[e] # None /\ resumedBy'[e] = {}
                 /\ \A a \in Conns : pc'[a] = "checking" => target'[a] # e
      <4>1. CASE e = c
        BY <1>2, <1>6, <2>1, <2>2, <3>1, <4>1, Zenon
      <4>2. CASE e \in armed /\ e # c
        <5>1. /\ e \in Conns /\ identity[e] # None /\ resumedBy[e] = {}
              /\ \A a \in Conns : pc[a] = "checking" => target[a] # e
          BY <4>2, Zenon DEF RegInv, SlotsExclusive
        <5> QED
          BY <1>6, <2>2, <3>1, <4>2, <5>1, Zenon
      <4> QED
        BY <1>3, <4>1, <4>2, Zenon
    <3>3. \A a \in Conns : pc'[a] = "checking" => resumedBy'[target'[a]] = {}
      BY <2>2, <3>1 DEF RegInv, SessionsInPlace, SlotsExclusive
    <3>4. \A a, b \in Conns : pc'[a] = "checking" /\ pc'[b] = "checking" /\ a # b
                              => target'[a] # target'[b]
      BY <2>2, Zenon DEF RegInv, SlotsExclusive
    <3>5. ASSUME NEW e \in Conns
          PROVE  /\ identity'[e] = None => resumedBy'[e] = {}
                 /\ \A a, b \in resumedBy'[e] : a = b
      <4>1. identity'[e] = None => identity[e] = None
        BY <1>2, <1>6
      <4>2. /\ identity[e] = None => resumedBy[e] = {}
            /\ \A a, b \in resumedBy[e] : a = b
        BY Zenon DEF RegInv, SlotsExclusive
      <4>3. resumedBy'[e] = resumedBy[e]
        BY <3>1, Zenon
      <4> QED
        BY <4>1, <4>2, <4>3
    <3> QED
      BY <3>2, <3>3, <3>4, <3>5, Zenon DEF SlotsExclusive
  <2>4. CASE pc[c] = "checking" /\ resumedBy' = [resumedBy EXCEPT ![target[c]] = @ \cup {c}]
    <3>1. target[c] \in Conns \ {c} /\ target[c] \notin armed /\ resumedBy[target[c]] = {}
      BY <1>2, <2>4, Zenon DEF RegInv, SessionsInPlace, SlotsExclusive
    <3>2. resumedBy'[target[c]] = {c} /\ \A e \in Conns \ {target[c]} : resumedBy'[e] = resumedBy[e]
      BY <2>4, <3>1, Zenon DEF RegInv, RegTypeOK
    <3>3. \A e \in Conns : pc'[e] = "checking" => target[e] # target[c]
      BY <2>2, <2>4, Zenon DEF RegInv, SlotsExclusive
    <3>4. ASSUME NEW e \in armed'
          PROVE  /\ e \in Conns /\ identity'[e] # None /\ resumedBy'[e] = {}
                 /\ \A a \in Conns : pc'[a] = "checking" => target'[a] # e
      <4>1. CASE e = c
        BY <1>2, <1>6, <2>1, <2>2, <3>1, <3>2, <4>1, Zenon
      <4>2. CASE e \in armed /\ e # c
        <5>1. /\ e \in Conns /\ identity[e] # None /\ resumedBy[e] = {}
              /\ \A a \in Conns : pc[a] = "checking" => target[a] # e
          BY <4>2, Zenon DEF RegInv, SlotsExclusive
        <5>2. identity'[e] = identity[e] /\ resumedBy'[e] = resumedBy[e]
          BY <1>6, <3>1, <3>2, <4>2, <5>1, Zenon
        <5> QED
          BY <2>2, <5>1, <5>2, Zenon
      <4> QED
        BY <1>3, <4>1, <4>2, Zenon
    <3>5. \A a \in Conns : pc'[a] = "checking" => resumedBy'[target'[a]] = {}
      BY <2>2, <3>2, <3>3 DEF RegInv, SessionsInPlace, SlotsExclusive
    <3>6. \A a, b \in Conns : pc'[a] = "checking" /\ pc'[b] = "checking" /\ a # b
                              => target'[a] # target'[b]
      BY <2>2, Zenon DEF RegInv, SlotsExclusive
    <3>7. ASSUME NEW e \in Conns
          PROVE  /\ identity'[e] = None => resumedBy'[e] = {}
                 /\ \A a, b \in resumedBy'[e] : a = b
      <4>1. CASE e = target[c]
        <5>1. identity[e] # None /\ identity'[e] = identity[e]
          BY <1>6, <2>4, <3>1, <4>1, Zenon DEF RegInv, SessionsInPlace
        <5> QED
          BY <3>2, <4>1, <5>1, Zenon
      <4>2. CASE e # target[c]
        <5>1. resumedBy'[e] = resumedBy[e] /\ (e # c => identity'[e] = identity[e])
          BY <1>6, <3>2, <4>2, Zenon
        <5>2. \A a, b \in resumedBy[e] : a = b
          BY Zenon DEF RegInv, SlotsExclusive
        <5>3. identity'[e] = None => e # c
          BY <1>2, <1>6, Zenon
        <5>4. identity[e] = None => resumedBy[e] = {}
          BY Zenon DEF RegInv, SlotsExclusive
        <5> QED
          BY <5>1, <5>2, <5>3, <5>4, Zenon
      <4> QED
        BY <4>1, <4>2, Zenon
    <3> QED
      BY <3>4, <3>5, <3>6, <3>7, Zenon DEF SlotsExclusive
  <2> QED
    BY <2>3, <2>4, Zenon DEF SessionCreated
<1> QED
  BY <1>4, <1>5, <1>7, <1>8, Zenon DEF RegInv
=============================================================================
