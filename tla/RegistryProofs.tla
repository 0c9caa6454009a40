--------------------------- MODULE RegistryProofs ---------------------------
(***************************************************************************)
(* The registry of Agent sessions, for any number of connections and       *)
(* devices: its maps stay in step, and a session is resumed at most once.  *)
(***************************************************************************)
EXTENDS RegistrySteps

(* completeAuthentication and resumeSession's checks create the session, or*)
(* turn the connection away and restore the slot.                          *)
LEMMA CreationKeeps ==
    ASSUME RegInv, NEW c \in Conns, CompleteAuthentication(c) \/ CheckResume(c)
    PROVE  RegInv'
<1> USE DEF fixed
<1>1. CASE CompleteAuthentication(c) /\ metadata[device[c]] = "active"
  <2>1. /\ pc[c] = "proving" /\ pc' = [pc EXCEPT ![c] = "registering"] /\ NewSession(c, c)
        /\ armed' = armed \cup {c}
        /\ UNCHANGED <<scenario, tunnels, primaries, doomed, target, resumedBy>>
    BY <1>1 DEF CompleteAuthentication
  <2> QED
    BY <2>1, NewSessionKeeps, Zenon DEF SessionCreated, Unborn, Unregistered
<1>2. CASE CompleteAuthentication(c) /\ metadata[device[c]] # "active"
  <2>1. /\ pc[c] = "proving" /\ pc' = [pc EXCEPT ![c] = "closed"]
        /\ UNCHANGED <<scenario, identity, target, tunnels, primaries, authorized, armed, recency,
                       doomed, resumedBy>>
    BY <1>2 DEF CompleteAuthentication, TurnAway
  <2> QED
    BY <2>1, HandshakeMoves, Zenon DEF Unborn
<1>3. CASE CheckResume(c)
  <2>1. /\ pc[c] = "checking" /\ target[c] \in Conns /\ identity[target[c]] \in Conns
        /\ device[identity[target[c]]] = device[c]
    BY <1>3 DEF CheckResume, RegInv, RegTypeOK, SessionsInPlace
  <2>2. CASE /\ NewSession(c, identity[target[c]]) /\ armed' = armed \cup {c}
             /\ resumedBy' = [resumedBy EXCEPT ![target[c]] = @ \cup {c}]
             /\ pc' = [pc EXCEPT ![c] = "replying"]
    <3>1. target' = [target EXCEPT ![c] = None] /\ UNCHANGED <<scenario, tunnels, primaries, doomed>>
      BY <1>3, Zenon DEF CheckResume
    <3> QED
      BY <2>1, <2>2, <3>1, NewSessionKeeps, Zenon DEF SessionCreated, Unborn, Unregistered
  <2>3. CASE /\ armed' = armed \cup {target[c]} /\ TurnAway(c)
             /\ UNCHANGED <<identity, authorized, recency, resumedBy>>
    <3>1. /\ pc' = [pc EXCEPT ![c] = "closed"] /\ target' = [target EXCEPT ![c] = None]
          /\ armed' = armed \cup {target[c]}
          /\ UNCHANGED <<scenario, identity, tunnels, primaries, authorized, recency, doomed,
                         resumedBy>>
      BY <1>3, <2>3, Zenon DEF CheckResume, TurnAway
    <3>2. MapsInStep'
      BY <3>1, MapsKept, Zenon
    <3>3. RegTypeOK'
      BY <3>1 DEF RegInv, RegTypeOK
    <3>4. /\ pc'[c] = "closed"
          /\ \A e \in Conns \ {c} : pc'[e] = pc[e] /\ target'[e] = target[e]
      BY <3>1, Zenon DEF RegInv, RegTypeOK
    <3>5. SessionsInPlace'
      BY <2>1, <3>1, <3>4
         DEF RegInv, RegTypeOK, SessionsInPlace, Unborn, Unregistered, Serving, device
    <3>6. SlotsExclusive'
      <4>1. /\ identity[target[c]] # None /\ resumedBy[target[c]] = {}
            /\ \A e \in Conns \ {c} : pc[e] = "checking" => target[e] # target[c]
        BY <2>1, Zenon DEF RegInv, SessionsInPlace, SlotsExclusive
      <4> QED
        BY <2>1, <3>1, <3>4, <4>1 DEF RegInv, SlotsExclusive
    <3> QED
      BY <3>2, <3>3, <3>5, <3>6, Zenon DEF RegInv
  <2> QED
    BY <1>3, <2>2, <2>3, Zenon DEF CheckResume
<1> QED
  BY <1>1, <1>2, <1>3

(* close of a session that was registered once, by whoever ends it.        *)
LEMMA CloseSessionKeeps ==
    ASSUME RegInv, NEW e \in Conns, pc[e] \in Serving \cup {"closed"}, CloseSession(e),
           UNCHANGED <<scenario, identity, authorized, armed, resumedBy>>, doomed' \subseteq doomed,
           NEW c \in Conns,
           \/ UNCHANGED <<pc, target>>
           \/ /\ pc[c] = "replacing" /\ pc' = [pc EXCEPT ![c] = "running"]
              /\ target' = [target EXCEPT ![c] = None]
           \/ c = e /\ pc[c] = "running" /\ pc' = [pc EXCEPT ![c] = "closed"] /\ UNCHANGED target
    PROVE  RegInv'
<1>1. /\ recency' \in Seq(Conns) /\ IsInjective(recency')
      /\ Range(recency') = Range(recency) \ {e}
  BY RemovedFromOrder DEF CloseSession, RegInv, RegTypeOK
<1>2. MapsInStep' /\ primaries' \in [Devices -> Conns \cup {None}] /\ tunnels' = tunnels \ {e}
  BY UnregisterKeepsMaps, Zenon DEF CloseSession, Unregister
<1>3. RegTypeOK'
  <2>1. /\ target' \in [Conns -> Conns \cup {None}]
        /\ pc' \in [Conns -> Unborn \cup Unregistered \cup Serving \cup {"closed"}]
    BY DEF RegInv, RegTypeOK, Serving
  <2>2. tunnels' \subseteq Conns /\ doomed' \subseteq Conns
    BY <1>2 DEF RegInv, RegTypeOK
  <2> QED
    BY <1>1, <1>2, <2>1, <2>2 DEF RegInv, RegTypeOK
<1>4. \A a \in Conns :
        /\ \/ pc'[a] = pc[a] /\ target'[a] = target[a]
           \/ pc[a] = "replacing" /\ pc'[a] = "running"
           \/ a = e /\ pc[a] = "running" /\ pc'[a] = "closed"
        /\ pc'[a] \in Serving \cup {"closed"} <=> pc[a] \in Serving \cup {"closed"}
        /\ pc'[a] = "checking" => target'[a] = target[a]
  BY DEF RegInv, RegTypeOK, Serving
<1>5. SessionsInPlace'
  <2>1. \A a \in Conns : /\ pc'[a] \in Unborn => identity[a] = None
                         /\ pc'[a] \in Unregistered \cup Serving => identity[a] # None
                         /\ identity[a] # None => device[identity[a]] = device[a]
                         /\ pc'[a] \in Unregistered => a \in authorized \cap Range(recency')
    <3>1. pc[e] \notin Unregistered
      BY Zenon DEF Unregistered, Serving
    <3> QED
      BY <1>1, <1>4, <3>1 DEF RegInv, SessionsInPlace, Unborn, Unregistered, Serving
  <2>2. /\ \A a \in tunnels' : pc'[a] \in Serving /\ a \in Range(recency')
        /\ \A a \in doomed' : pc'[a] \in Serving \cup {"closed"}
    BY <1>1, <1>2, <1>4, Zenon DEF RegInv, RegTypeOK, SessionsInPlace, Serving
  <2>3. \A a \in Conns : pc'[a] = "replacing" =>
            target'[a] \in Conns /\ pc'[target'[a]] \in Serving \cup {"closed"}
    BY <1>4 DEF RegInv, SessionsInPlace
  <2>4. \A a \in Conns : pc'[a] \in {"consuming", "checking"} =>
            /\ target'[a] \in Conns /\ identity[target'[a]] # None
            /\ device[target'[a]] = device[a]
    BY <1>4 DEF RegInv, SessionsInPlace
  <2> QED
    BY <2>1, <2>2, <2>3, <2>4, Zenon DEF SessionsInPlace, device
<1>6. SlotsExclusive'
  <2>1. \A a \in Conns : pc'[a] = "checking" => pc[a] = "checking" /\ target'[a] = target[a]
    BY <1>4
  <2> QED
    BY <2>1 DEF RegInv, SlotsExclusive
<1> QED
  BY <1>2, <1>3, <1>5, <1>6 DEF RegInv

(* CloseReplaced, RunEnds, terminateAuthorization and Close's closes.      *)
LEMMA ClosingKeeps ==
    ASSUME RegInv, NEW c \in Conns,
           CloseReplaced(c) \/ RunEnds(c) \/ TerminateAuthorization(c) \/ CloseDoomed(c)
    PROVE  RegInv'
<1> USE DEF fixed
<1>1. CASE CloseReplaced(c)
  <2>1. target[c] \in Conns /\ pc[target[c]] \in Serving \cup {"closed"}
    BY <1>1 DEF CloseReplaced, RegInv, SessionsInPlace
  <2> QED
    BY <1>1, <2>1, CloseSessionKeeps, Zenon DEF CloseReplaced
<1>2. CASE RunEnds(c)
  BY <1>2, CloseSessionKeeps, Zenon DEF RunEnds, Serving
<1>3. CASE TerminateAuthorization(c)
  <2>1. pc[c] \in Serving \cup {"closed"}
    BY <1>3 DEF TerminateAuthorization, RegInv, RegTypeOK, SessionsInPlace
  <2> QED
    BY <1>3, <2>1, CloseSessionKeeps DEF TerminateAuthorization
<1>4. CASE CloseDoomed(c)
  <2>1. pc[c] \in Serving \cup {"closed"}
    BY <1>4 DEF CloseDoomed, RegInv, SessionsInPlace
  <2> QED
    BY <1>4, <2>1, CloseSessionKeeps, Zenon DEF CloseDoomed
<1> QED
  BY <1>1, <1>2, <1>3, <1>4

(* A tunnel that takes the place of others needs no more room.             *)
LEMMA SwapFits ==
    ASSUME NEW T, T \subseteq Conns, NEW G, G \subseteq T, G # {}, NEW c \in Conns, c \notin T
    PROVE  Cardinality((T \ G) \cup {c}) <= Cardinality(T)
<1>1. PICK g \in G : TRUE
  OBVIOUS
<1>2. IsFiniteSet(T) /\ Cardinality(T) \in Nat /\ Cardinality(T \ {g}) = Cardinality(T) - 1
  BY SessionsCounted, FS_RemoveElement
<1>3. IsFiniteSet(T \ G) /\ Cardinality(T \ G) \in Nat /\ Cardinality(T \ G) <= Cardinality(T \ {g})
  <2>1. IsFiniteSet(T \ {g}) /\ T \ G \in SUBSET (T \ {g})
    BY <1>2, FS_RemoveElement
  <2> QED
    BY <2>1, FS_Subset, FS_CardinalityType
<1>4. Cardinality((T \ G) \cup {c}) = Cardinality(T \ G) + 1
  BY <1>3, FS_AddElement, Zenon
<1> QED
  BY <1>2, <1>3, <1>4

(* registerSession replaces the tunnel of the same identity, or makes room *)
(* by evicting the oldest standby, within both capacities.                 *)
LEMMA RegisterKeeps == ASSUME RegInv, NEW c \in Conns, Register(c) PROVE RegInv'
<1> USE DEF RegInv
<1> DEFINE gone == Replaced(c)
<1>0. PICK d \in Devices : device[c] = d
  BY RegistryLimits DEF RegTypeOK, device, Conns
<1>1. /\ tunnels' = (tunnels \ gone) \cup {c} /\ pc[c] = "registering" /\ Admits(c)
      /\ primaries' = IF primaries[d] = None \/ primaries[d] \in Same(c)
                      THEN [primaries EXCEPT ![d] = c] ELSE primaries
      /\ target' = [target EXCEPT ![c] = IF gone = {} THEN None ELSE CHOOSE e \in gone : TRUE]
      /\ pc' = [pc EXCEPT ![c] = IF gone = {} THEN "running" ELSE "replacing"]
      /\ UNCHANGED <<scenario, identity, authorized, armed, recency, doomed, resumedBy>>
  BY <1>0 DEF Register, fixed
<1>2. /\ c \notin tunnels /\ identity[c] \in Conns
      /\ device[identity[c]] = d /\ c \in Range(recency)
  BY <1>0, <1>1 DEF RegTypeOK, SessionsInPlace, Unregistered, Serving
<1>3. Tunnels(d) \subseteq tunnels /\ Tunnels(d) \subseteq Conns \cap Range(recency)
  BY Zenon DEF Tunnels, RegTypeOK, SessionsInPlace
<1>4. /\ Same(c) \subseteq Tunnels(d) /\ gone \subseteq Tunnels(d)
      /\ Same(c) # {} => gone = Same(c)
      /\ Same(c) = {} => /\ Cardinality(tunnels) < MaxAgentSessions
                         /\ primaries[d] \notin gone
                         /\ \/ gone = {} /\ Cardinality(Tunnels(d)) < MaxTunnelsPerDevice
                            \/ \E e \in Tunnels(d) : gone = {e}
  <2>1. Same(c) \subseteq Tunnels(d)
    BY <1>0 DEF Same
  <2>2. CASE Same(c) # {}
    BY <2>1, <2>2, Zenon DEF Replaced
  <2>3. CASE Same(c) = {} /\ Cardinality(Tunnels(d)) >= MaxTunnelsPerDevice
    <3>1. Standbys(d) # {} /\ Cardinality(tunnels) < MaxAgentSessions
      <4>1. Cardinality(Tunnels(d)) \in Nat /\ MaxTunnelsPerDevice \in Nat
        BY <1>3, SessionsCounted, RegistryLimits
      <4> QED
        BY <1>0, <1>1, <2>3, <4>1 DEF Admits
    <3>2. Standbys(d) = Tunnels(d) \ {primaries[d]}
      BY DEF Standbys
    <3>3. Oldest(Standbys(d)) \in Standbys(d)
      BY <1>3, <3>1, <3>2, OldestIsMember, Zenon DEF RegTypeOK
    <3> QED
      BY <1>0, <2>1, <2>3, <3>1, <3>2, <3>3, Zenon DEF Replaced
  <2>4. CASE Same(c) = {} /\ ~(Cardinality(Tunnels(d)) >= MaxTunnelsPerDevice)
    <3>1. Cardinality(Tunnels(d)) \in Nat /\ MaxTunnelsPerDevice \in Nat
      BY <1>3, SessionsCounted, RegistryLimits
    <3> QED
      BY <1>0, <1>1, <2>1, <2>4, <3>1 DEF Replaced, Admits
  <2> QED
    BY <2>2, <2>3, <2>4, Zenon
<1>5. RegTypeOK' /\ SessionsInPlace'
  <2> HIDE DEF gone
  <2>1. gone # {} => (CHOOSE e \in gone : TRUE) \in tunnels
    BY <1>3, <1>4
  <2>2. PICK t \in Conns \cup {None}, l \in Serving :
           /\ target' = [target EXCEPT ![c] = t] /\ pc' = [pc EXCEPT ![c] = l]
           /\ l = "replacing" => t \in tunnels
    BY <1>1, <2>1, Zenon DEF RegTypeOK, Serving
  <2>3. primaries' \in [Devices -> Conns \cup {None}] /\ tunnels' \subseteq tunnels \cup {c}
    BY <1>1 DEF RegTypeOK
  <2>4. /\ pc[c] = "registering"
        /\ UNCHANGED <<scenario, identity, authorized, armed, recency, doomed, resumedBy>>
    BY <1>1
  <2>5. RegTypeOK'
    BY <2>2, <2>3, <2>4 DEF RegTypeOK
  <2>6. SessionsInPlace'
    BY <1>2, <2>2, <2>3, <2>4
       DEF RegTypeOK, SessionsInPlace, Unborn, Unregistered, Serving, device
  <2> QED
    BY <2>5, <2>6
<1>6. SlotsExclusive'
  <2> HIDE DEF gone
  <2> QED
    BY <1>1 DEF RegTypeOK, SlotsExclusive
<1>7. /\ Tunnels(d)' = (Tunnels(d) \ gone) \cup {c}
      /\ \A f \in Devices \ {d} : Tunnels(f)' = Tunnels(f)
  BY <1>0, <1>1, <1>2, <1>4 DEF Tunnels, device
<1>8. PrimaryRegistered'
  <2> SUFFICES ASSUME NEW f \in Devices
               PROVE  IF Tunnels(f)' = {} THEN primaries'[f] = None
                      ELSE primaries'[f] \in Tunnels(f)'
    BY DEF PrimaryRegistered
  <2>1. IF Tunnels(f) = {} THEN primaries[f] = None ELSE primaries[f] \in Tunnels(f)
    BY DEF MapsInStep, PrimaryRegistered
  <2> HIDE DEF gone
  <2>2. CASE f # d
    BY <1>1, <1>7, <2>1, <2>2, Zenon DEF RegTypeOK
  <2>3. CASE f = d
    <3>1. CASE primaries[d] = None \/ primaries[d] \in Same(c)
      BY <1>1, <1>2, <1>7, <2>3, <3>1, Zenon DEF RegTypeOK
    <3>2. CASE ~(primaries[d] = None \/ primaries[d] \in Same(c))
      <4>1. primaries'[d] = primaries[d]
        BY <1>1, <3>2
      <4>2. primaries[d] \in Tunnels(d) \ gone
        BY <1>4, <2>1, <2>3, <3>2
      <4> QED
        BY <1>7, <2>3, <4>1, <4>2, Zenon
    <3> QED
      BY <3>1, <3>2
  <2> QED
    BY <2>2, <2>3
<1>9. WithinCapacity'
  <2>1. scenario.sessions \in Nat /\ MaxTunnelsPerDevice \in Nat
    BY RegistryLimits DEF RegTypeOK
  <2>2. /\ Cardinality(tunnels) <= MaxAgentSessions
        /\ \A f \in Devices : Cardinality(Tunnels(f)) <= MaxTunnelsPerDevice
    BY DEF MapsInStep, WithinCapacity
  <2>3. /\ IsFiniteSet(tunnels) /\ Cardinality(tunnels) \in Nat
        /\ IsFiniteSet(Tunnels(d)) /\ Cardinality(Tunnels(d)) \in Nat
    BY <1>3, SessionsCounted DEF RegTypeOK
  <2>4. Cardinality(tunnels') <= MaxAgentSessions /\ Cardinality(Tunnels(d)') <= MaxTunnelsPerDevice
    <3>1. CASE gone = {}
      <4>1. /\ tunnels' = tunnels \cup {c} /\ Tunnels(d)' = Tunnels(d) \cup {c}
            /\ Cardinality(tunnels) < MaxAgentSessions
            /\ Cardinality(Tunnels(d)) < MaxTunnelsPerDevice
        BY <1>1, <1>4, <1>7, <3>1, Zenon
      <4>2. /\ Cardinality(tunnels') = Cardinality(tunnels) + 1
            /\ Cardinality(Tunnels(d)') = Cardinality(Tunnels(d)) + 1
        BY <1>2, <1>3, <2>3, <4>1, FS_AddElement, Zenon
      <4> QED
        BY <2>1, <2>3, <4>1, <4>2 DEF MaxAgentSessions
    <3>2. CASE gone # {}
      <4>1. Cardinality(tunnels') <= Cardinality(tunnels)
        BY <1>1, <1>2, <1>3, <1>4, <3>2, SwapFits, Zenon DEF RegTypeOK
      <4>2. Cardinality(Tunnels(d)') <= Cardinality(Tunnels(d))
        BY <1>2, <1>3, <1>4, <1>7, <3>2, SwapFits, Zenon
      <4>3. Cardinality(tunnels') \in Nat /\ Cardinality(Tunnels(d)') \in Nat
        BY <1>1, <1>3, <1>7, SessionsCounted, Zenon DEF RegTypeOK
      <4> QED
        BY <1>2, <2>1, <2>2, <2>3, <4>1, <4>2, <4>3 DEF MaxAgentSessions
    <3> QED
      BY <3>1, <3>2
  <2> QED
    <3>1. MaxAgentSessions' = MaxAgentSessions
      BY <1>1 DEF MaxAgentSessions
    <3>2. ASSUME NEW f \in Devices PROVE Cardinality(Tunnels(f)') <= MaxTunnelsPerDevice
      BY <1>7, <2>2, <2>4
    <3> QED
      BY <2>4, <3>1, <3>2 DEF WithinCapacity
<1>10. OneTunnelPerIdentity'
  <2>1. ASSUME NEW b \in tunnels \ gone PROVE identity[b] # identity[c]
    BY <1>0, <1>2, <1>4, <2>1 DEF Same, Tunnels, RegTypeOK, SessionsInPlace
  <2> HIDE DEF gone
  <2> QED
    BY <1>1, <2>1, Zenon DEF MapsInStep, OneTunnelPerIdentity
<1> QED
  BY <1>5, <1>6, <1>8, <1>9, <1>10 DEF MapsInStep

(* Every step of the handshakes, of the sessions' lives, of the metadata   *)
(* and of the shutdown keeps the invariant.                                *)
LEMMA StepRegistry == RegInv /\ [Next]_vars => RegInv'
<1> SUFFICES ASSUME RegInv, [Next]_vars PROVE RegInv'
  OBVIOUS
<1> USE DEF fixed
<1>1. ASSUME NEW c \in Conns,
             \/ Dial(c) \/ Refuse(c) \/ ReadPreface(c) \/ LookUp(c) \/ Consume(c) \/ Reply(c)
             \/ RegisterRejected(c) \/ LoseTransport(c) \/ Revalidate(c)
      PROVE  RegInv'
  BY <1>1, QuietStepKeeps
<1>2. ASSUME NEW c \in Conns, CompleteAuthentication(c) \/ CheckResume(c) PROVE RegInv'
  BY <1>2, CreationKeeps
<1>3. ASSUME NEW c \in Conns, Register(c) PROVE RegInv'
  BY <1>3, RegisterKeeps
<1>4. ASSUME NEW c \in Conns,
             CloseReplaced(c) \/ RunEnds(c) \/ TerminateAuthorization(c) \/ CloseDoomed(c)
      PROVE  RegInv'
  BY <1>4, ClosingKeeps
<1>5. ASSUME NEW c \in Conns, FrameSeen(c) PROVE RegInv'
  <2>1. /\ recency' \in Seq(Conns) /\ IsInjective(recency')
        /\ Range(recency') = Range(recency) \cup {c}
    BY <1>5, SeenInOrder DEF FrameSeen, RegInv, RegTypeOK
  <2>2. UNCHANGED <<scenario, pc, identity, target, tunnels, primaries, authorized, armed,
                    doomed, resumedBy>>
    BY <1>5 DEF FrameSeen
  <2>3. MapsInStep'
    BY <2>2, MapsKept
  <2>4. RegTypeOK'
    BY <2>1, <2>2, Zenon DEF RegInv, RegTypeOK
  <2>5. SessionsInPlace'
    BY <2>1, <2>2, Zenon DEF RegInv, SessionsInPlace, device
  <2>6. SlotsExclusive'
    BY <2>2 DEF RegInv, SlotsExclusive
  <2> QED
    BY <2>3, <2>4, <2>5, <2>6, Zenon DEF RegInv
<1>6. CASE UNCHANGED <<scenario, pc, identity, target, tunnels, primaries, authorized, armed,
                       recency, doomed, resumedBy>>
  <2>1. MapsInStep'
    BY <1>6, MapsKept
  <2>2. RegTypeOK'
    BY <1>6, Zenon DEF RegInv, RegTypeOK
  <2>3. SessionsInPlace'
    BY <1>6, Zenon DEF RegInv, SessionsInPlace, device
  <2>4. SlotsExclusive'
    BY <1>6, Zenon DEF RegInv, SlotsExclusive
  <2> QED
    BY <2>1, <2>2, <2>3, <2>4 DEF RegInv
<1>7. ASSUME NEW d \in Devices, MetadataChanges(d) \/ MetadataRecovers(d) PROVE RegInv'
  BY <1>6, <1>7 DEF MetadataChanges, MetadataRecovers
<1>8. CASE BeginDrain \/ \E c \in Conns : Lapse(c)
  BY <1>6, <1>8 DEF BeginDrain, Lapse
<1>9. CASE CloseGateway
  <2>1. /\ doomed' = tunnels /\ tunnels' = {} /\ primaries' = [d \in Devices |-> None]
        /\ UNCHANGED <<scenario, pc, identity, target, authorized, armed, recency, resumedBy>>
    BY <1>9 DEF CloseGateway
  <2>2. \A d \in Devices : Tunnels(d)' = {}
    BY <2>1 DEF Tunnels
  <2>3. Cardinality({}) = 0 /\ scenario.sessions \in Nat /\ MaxTunnelsPerDevice \in Nat
    BY FS_EmptySet, RegistryLimits DEF RegInv, RegTypeOK
  <2>4. PrimaryRegistered' /\ OneTunnelPerIdentity'
    BY <2>1, <2>2 DEF PrimaryRegistered, OneTunnelPerIdentity
  <2>5. WithinCapacity'
    <3>1. Cardinality(tunnels') <= MaxAgentSessions'
      BY <2>1, <2>3 DEF MaxAgentSessions
    <3> QED
      BY <2>2, <2>3, <3>1 DEF WithinCapacity
  <2>6. RegTypeOK' /\ SessionsInPlace' /\ SlotsExclusive'
    <3>1. RegTypeOK'
      BY <2>1, Zenon DEF RegInv, RegTypeOK
    <3>2. SessionsInPlace'
      BY <2>1, Zenon DEF RegInv, SessionsInPlace, device, Serving
    <3>3. SlotsExclusive'
      BY <2>1, Zenon DEF RegInv, SlotsExclusive
    <3> QED
      BY <3>1, <3>2, <3>3, Zenon
  <2> QED
    BY <2>4, <2>5, <2>6 DEF RegInv, MapsInStep
<1>10. CASE UNCHANGED vars
  BY <1>6, <1>10 DEF vars
<1> QED
  BY <1>1, <1>2, <1>3, <1>4, <1>5, <1>7, <1>8, <1>9, <1>10, Zenon DEF Next, Handshake, Heartbeat

(* The registry's two maps stay in step with each other, with both         *)
(* capacities and with the sessions' identities, for any number of         *)
(* connections, devices and tunnels (registerSession, unregisterSession).  *)
THEOREM MapsStayInStep == Spec => []MapsInStep
<1>1. RegInv => MapsInStep
  BY DEF RegInv
<1> QED
  BY InitRegistry, StepRegistry, <1>1, PTL DEF Spec

(* A session is resumed at most once: the swap of resumeArmed is the only  *)
(* way to its slot, which a failed proof restores and a success does not.  *)
THEOREM ResumeAtMostOnce == Spec => []ResumedOnce
<1>1. ASSUME RegInv PROVE ResumedOnce
  <2> SUFFICES ASSUME NEW c \in Conns PROVE Cardinality(resumedBy[c]) <= 1
    BY DEF ResumedOnce
  <2>1. \A a, b \in resumedBy[c] : a = b
    BY <1>1 DEF RegInv, SlotsExclusive
  <2>2. CASE resumedBy[c] = {}
    BY <2>2, FS_EmptySet
  <2>3. CASE resumedBy[c] # {}
    <3>1. PICK a \in resumedBy[c] : TRUE
      BY <2>3
    <3>2. resumedBy[c] = {a}
      BY <2>1, <3>1
    <3>3. Cardinality({a}) = 1
      BY FS_Singleton, Zenon
    <3> QED
      BY <3>2, <3>3
  <2> QED
    BY <2>2, <2>3
<1> QED
  BY InitRegistry, StepRegistry, <1>1, PTL DEF Spec

(* With the tunnels per device the Gateway allows (config.go sets two),    *)
(* ingress finds a routable tunnel whenever one is registered, while the   *)
(* maps and capacities hold: there is one standby, and sessionForDevice    *)
(* asks it.  With three or more it asks only the newest.                   *)
THEOREM RegistryStaysInStep == MaxTunnelsPerDevice <= 2 /\ Spec => []RegistryInStep
<1> SUFFICES ASSUME MaxTunnelsPerDevice <= 2 PROVE Spec => []RegistryInStep
  OBVIOUS
<1>1. ASSUME RegInv PROVE RegistryInStep
  <2>1. ASSUME NEW d \in Devices, NEW e \in Tunnels(d), e # primaries[d]
        PROVE  Standbys(d) = {e} /\ Newest(Standbys(d)) = e
    <3>1. primaries[d] \in Tunnels(d) /\ Tunnels(d) \subseteq Conns
      BY <1>1, <2>1 DEF RegInv, RegTypeOK, MapsInStep, PrimaryRegistered, Tunnels
    <3>2. ASSUME NEW f \in Tunnels(d) \ {primaries[d], e} PROVE FALSE
      <4> DEFINE T == {primaries[d], e, f}
      <4>1. Cardinality(T) = 3
        <5>1. IsFiniteSet({primaries[d]}) /\ Cardinality({primaries[d]}) = 1
          BY FS_Singleton, Zenon
        <5>2. IsFiniteSet({primaries[d], e}) /\ Cardinality({primaries[d], e}) = 2
          <6>1. {primaries[d], e} = {primaries[d]} \cup {e} /\ e \notin {primaries[d]}
            BY <2>1
          <6>2. /\ IsFiniteSet({primaries[d]} \cup {e})
                /\ Cardinality({primaries[d]} \cup {e}) = Cardinality({primaries[d]}) + 1
            BY <5>1, <6>1, FS_AddElement
          <6> QED
            BY <5>1, <6>1, <6>2
        <5>3. T = {primaries[d], e} \cup {f} /\ f \notin {primaries[d], e}
          BY <3>2, Zenon
        <5>4. Cardinality({primaries[d], e} \cup {f}) = Cardinality({primaries[d], e}) + 1
          BY <5>2, <5>3, FS_AddElement, Zenon
        <5> QED
          BY <5>2, <5>3, <5>4
      <4>2. Cardinality(T) <= Cardinality(Tunnels(d)) /\ Cardinality(Tunnels(d)) \in Nat
        BY <2>1, <3>1, <3>2, SessionsCounted, FS_Subset, Zenon
      <4>3. Cardinality(Tunnels(d)) <= MaxTunnelsPerDevice /\ MaxTunnelsPerDevice \in Nat
        BY <1>1, RegistryLimits DEF RegInv, MapsInStep, WithinCapacity
      <4> QED
        BY <1>1, <4>1, <4>2, <4>3
    <3>3. Standbys(d) = {e}
      BY <2>1, <3>1, <3>2 DEF Standbys
    <3> QED
      BY <3>3 DEF Newest
  <2>2. FailoverComplete
    <3> SUFFICES ASSUME NEW d \in Devices, Route(d) = None, NEW e \in Tunnels(d), Routable(e)
                 PROVE  FALSE
      BY DEF FailoverComplete
    <3>1. e \in Conns /\ e # None /\ primaries[d] \in Tunnels(d) /\ primaries[d] # None
      BY <1>1, NoneIsNoConn DEF RegInv, RegTypeOK, MapsInStep, PrimaryRegistered, Tunnels
    <3>2. CASE Routable(primaries[d])
      BY <3>1, <3>2 DEF Route
    <3>3. CASE ~Routable(primaries[d])
      BY <2>1, <3>1, <3>3 DEF Route
    <3> QED
      BY <3>2, <3>3
  <2> QED
    BY <1>1, <2>2 DEF RegInv, MapsInStep, RegistryInStep
<1> QED
  BY InitRegistry, StepRegistry, <1>1, PTL DEF Spec
=============================================================================
