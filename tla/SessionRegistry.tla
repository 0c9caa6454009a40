--------------------------- MODULE SessionRegistry ---------------------------
(***************************************************************************)
(* The Gateway's registry of Agent sessions: admission and handshake of a  *)
(* connection, the resume fast path, registration with its capacity rules, *)
(* the routing primary and its failover, revocation, drain and shutdown.   *)
(*                                                                         *)
(* A session object is named by its connection.  A full handshake starts a *)
(* new session identity; a resume gives the identity of an existing object *)
(* to a new one.  Every object carries its own resume challenge, so the    *)
(* proof an Agent holds is the name of the last object that answered it.   *)
(***************************************************************************)
EXTENDS Integers, FiniteSets, Sequences, Functions

CONSTANTS
    MaxConns,              \* bound: connections dialled, in order 1, 2, ...
    Devices,
    MaxTunnelsPerDevice, HandshakeSlots,
    Scenarios              \* how many and who dial, MaxAgentSessions, and which faults happen

ASSUME RegistryLimits ==
    /\ MaxConns \in Nat /\ MaxTunnelsPerDevice \in Nat \ {0} /\ HandshakeSlots \in Nat \ {0}
    /\ Scenarios \subseteq [dials : 0..MaxConns, devices : [1..MaxConns -> Devices],
                            sessions : Nat \ {0}, faults : {"metadata", "expiry", "shutdown"}]

Conns == 1..MaxConns
None == 0

VARIABLES
    scenario,    \* one of Scenarios
    pc,          \* per connection, where handleAgent is
    primaryLink, \* the connections dialled by an Agent's primary worker
    up,          \* the connections whose transport is up
    identity,    \* per connection, the session ID of its object (a connection)
    proof,       \* per connection, the challenge its resume_session carries
    target,      \* per connection, the session being resumed, or replaced
    tunnels,     \* gateway.tunnels: the registered sessions
    primaries,   \* gateway.primaries
    authorized,  \* the sessions whose authorized flag is set
    armed,       \* the sessions whose resumeArmed flag is set
    recency,     \* the sessions in the order of lastSeen, latest last
    metadata,    \* per device: "active", "revoked" or "unavailable"
    resumable,   \* per device, the Agent's resumeState: the proof it holds
    done,        \* the sessions whose done channel is closed
    draining,    \* BeginDrain was called
    doomed,      \* the sessions of Close's snapshot not yet closed
    closing,     \* Close took its snapshot
    lapsed,      \* the identities whose authorizationExpiresAt has passed
    resumedBy    \* ghost: per session, the connections it was resumed into

vars == <<scenario, pc, primaryLink, up, identity, proof, target, tunnels, primaries,
          authorized, armed, recency, metadata, resumable, done, draining, doomed, closing,
          lapsed, resumedBy>>

device == scenario.devices
MaxAgentSessions == scenario.sessions

Init ==
    /\ scenario \in Scenarios
    /\ pc = [c \in Conns |-> "idle"]
    /\ primaryLink = {} /\ up = {}
    /\ identity = [c \in Conns |-> None] /\ proof = [c \in Conns |-> None]
    /\ target = [c \in Conns |-> None]
    /\ tunnels = {} /\ primaries = [d \in Devices |-> None]
    /\ authorized = {} /\ armed = {} /\ recency = <<>>
    /\ metadata = [d \in Devices |-> "active"]
    /\ resumable = [d \in Devices |-> None]
    /\ done = {} /\ draining = FALSE /\ doomed = {} /\ closing = FALSE /\ lapsed = {}
    /\ resumedBy = [c \in Conns |-> {}]

Tunnels(d) == {c \in tunnels : device[c] = d}
Older(a, b) == \E i, j \in DOMAIN recency : i < j /\ recency[i] = a /\ recency[j] = b

\* A sequence without the one place where c is.
Without(s, c) ==
    IF c \in Range(s)
    THEN LET k == CHOOSE i \in DOMAIN s : s[i] = c
         IN SubSeq(s, 1, k - 1) \o SubSeq(s, k + 1, Len(s))
    ELSE s

\* lastSeen orders the sessions.
Seen(c) == Append(Without(recency, c), c)
InHandshake == {"preface", "looking", "consuming", "checking", "proving", "replying"}
fixed == <<scenario, primaryLink, lapsed>>

-----------------------------------------------------------------------------
(* unregisterSession *)

\* The oldest of a set of sessions by lastSeen.
Oldest(S) == CHOOSE c \in S : \A e \in S \ {c} : Older(c, e)
Newest(S) == CHOOSE c \in S : \A e \in S \ {c} : Older(e, c)

\* Mutant: the routing primary is left behind.
UnregisterKeepsPrimary(S) ==
    /\ tunnels' = tunnels \ S
    /\ UNCHANGED primaries

\* Of the sessions S: each leaves the registry if it is the one registered,
\* and where a device's primary left, its oldest survivor is promoted.
Unregister(S) ==
    /\ tunnels' = tunnels \ S
    /\ primaries' = [d \in Devices |->
          IF primaries[d] \notin S THEN primaries[d]
          ELSE IF Tunnels(d) \ S = {} THEN None ELSE Oldest(Tunnels(d) \ S)]

\* close and forceClose of a session: done, out of routing, transport closed.
CloseSession(c) ==
    /\ done' = done \cup {c} /\ up' = up \ {c} /\ recency' = Without(recency, c)
    /\ Unregister({c})

\* handleAgent returns for a connection whose session is not registered; a
\* session that exists is force-closed.
TurnAway(c) ==
    /\ pc' = [pc EXCEPT ![c] = "closed"] /\ up' = up \ {c}
    /\ done' = IF identity[c] # None THEN done \cup {c} ELSE done

\* A resume that fails puts the consumed slot back, except where the code
\* burns it; a TryAgainLater close makes the Agent forget its proof.
Forget(c) == resumable' = [resumable EXCEPT ![device[c]] = IF c \in up THEN None ELSE @]

-----------------------------------------------------------------------------
(* handleAgent *)

\* The primary worker dials again only when its previous connection is over.
\* A draining Gateway and a full set of handshake slots refuse at once.
Dial(c) ==
    /\ pc[c] = "idle" /\ c <= scenario.dials /\ \A e \in Conns : e < c => pc[e] # "idle"
    /\ \/ UNCHANGED primaryLink
       \/ /\ \A e \in primaryLink : device[e] = device[c] => e \notin up
          /\ primaryLink' = primaryLink \cup {c}
    /\ IF draining \/ Cardinality({e \in Conns : pc[e] \in InHandshake}) >= HandshakeSlots
       THEN pc' = [pc EXCEPT ![c] = "closed"] /\ UNCHANGED up
       ELSE pc' = [pc EXCEPT ![c] = "preface"] /\ up' = up \cup {c}
    /\ UNCHANGED <<scenario, lapsed, identity, proof, target, tunnels, primaries, authorized,
                   armed, recency, metadata, resumable, done, draining, doomed, closing, resumedBy>>

\* A failed Accept, a preface that does not arrive, a rate limit,
\* a device admission limit, or a handshake write that fails.
Refuse(c) ==
    /\ pc[c] \in {"preface", "proving"}
    /\ TurnAway(c)
    /\ UNCHANGED <<fixed, identity, proof, target, tunnels, primaries, authorized, armed,
                   recency, metadata, resumable, draining, doomed, closing, resumedBy>>

\* readPreface: resume_session when the primary holds a proof; otherwise
\* client_hello, for which the authorization is looked up.
ReadPreface(c) ==
    /\ pc[c] = "preface" /\ c \in up
    /\ IF c \in primaryLink /\ resumable[device[c]] # None
       THEN /\ pc' = [pc EXCEPT ![c] = "looking"]
            /\ proof' = [proof EXCEPT ![c] = resumable[device[c]]] /\ UNCHANGED <<up, done>>
       ELSE /\ UNCHANGED proof
            /\ IF metadata[device[c]] = "active"
               THEN pc' = [pc EXCEPT ![c] = "proving"] /\ UNCHANGED <<up, done>>
               ELSE TurnAway(c)
    /\ UNCHANGED <<fixed, identity, target, tunnels, primaries, authorized, armed,
                   recency, metadata, resumable, draining, doomed, closing, resumedBy>>

\* A session object comes to life: newSession or resumeInto.
NewSession(c, id) ==
    /\ identity' = [identity EXCEPT ![c] = id]
    /\ authorized' = authorized \cup {c} /\ recency' = Seen(c)

\* completeAuthentication: the authorization is resolved again, session_ready
\* is sent and the session exists, not yet registered.
CompleteAuthentication(c) ==
    /\ pc[c] = "proving" /\ c \in up
    /\ IF metadata[device[c]] = "active"
       THEN /\ pc' = [pc EXCEPT ![c] = "registering"] /\ UNCHANGED <<up, done>>
            /\ NewSession(c, c) /\ armed' = armed \cup {c}
            /\ resumable' = IF c \in primaryLink
                            THEN [resumable EXCEPT ![device[c]] = c] ELSE resumable
       ELSE TurnAway(c) /\ UNCHANGED <<identity, authorized, recency, armed, resumable>>
    /\ UNCHANGED <<fixed, proof, target, tunnels, primaries, metadata, draining, doomed, closing,
                   resumedBy>>

\* resumeSession, the lookup under the read lock.
LookUp(c) ==
    /\ pc[c] = "looking"
    /\ LET found == {e \in Tunnels(device[c]) : identity[e] = identity[proof[c]]} \cap authorized IN
       IF found = {} THEN TurnAway(c) /\ Forget(c) /\ UNCHANGED target
       ELSE /\ target' = [target EXCEPT ![c] = CHOOSE e \in found : TRUE]
            /\ pc' = [pc EXCEPT ![c] = "consuming"] /\ UNCHANGED <<up, done, resumable>>
    /\ UNCHANGED <<fixed, identity, proof, tunnels, primaries, authorized, armed, recency,
                   metadata, draining, doomed, closing, resumedBy>>

\* Mutant: the slot is consumed without looking whether it is armed.
ConsumeAnyway(c) ==
    /\ pc[c] = "consuming"
    /\ armed' = armed \ {target[c]} /\ pc' = [pc EXCEPT ![c] = "checking"]
    /\ UNCHANGED <<fixed, up, identity, proof, target, tunnels, primaries, authorized,
                   recency, metadata, resumable, done, draining, doomed, closing, resumedBy>>

\* resumeArmed.CompareAndSwap(true, false), then the subject: an Agent whose
\* authorization or token was replaced since is turned away, its slot burned.
Consume(c) ==
    /\ pc[c] = "consuming"
    /\ \/ /\ target[c] \notin armed
          /\ TurnAway(c) /\ Forget(c) /\ UNCHANGED armed
       \/ /\ target[c] \in armed /\ armed' = armed \ {target[c]}
          /\ \/ pc' = [pc EXCEPT ![c] = "checking"] /\ UNCHANGED <<up, done>>
             \/ TurnAway(c)
          /\ UNCHANGED resumable
    /\ UNCHANGED <<fixed, identity, proof, target, tunnels, primaries, authorized,
                   recency, metadata, draining, doomed, closing, resumedBy>>

\* The challenge, the acceptance window and the current authorization; every
\* failure restores the slot.  Then resumeInto, if still authorized.
CheckResume(c) ==
    /\ pc[c] = "checking"
    /\ proof' = [proof EXCEPT ![c] = None] /\ target' = [target EXCEPT ![c] = None]
    /\ \/ /\ proof[c] = target[c] /\ metadata[device[c]] = "active"
          /\ target[c] \in authorized
          /\ NewSession(c, identity[target[c]]) /\ armed' = armed \cup {c}
          /\ resumedBy' = [resumedBy EXCEPT ![target[c]] = @ \cup {c}]
          /\ pc' = [pc EXCEPT ![c] = "replying"] /\ UNCHANGED <<up, done, resumable>>
       \/ /\ armed' = armed \cup {target[c]}
          /\ TurnAway(c) /\ (Forget(c) \/ UNCHANGED resumable)
          /\ UNCHANGED <<identity, authorized, recency, resumedBy>>
    /\ UNCHANGED <<fixed, tunnels, primaries, metadata, draining, doomed, closing>>

\* session_resumed is written, or the connection is lost first: then the
\* new object is closed and the old one's slot stays consumed.
Reply(c) ==
    /\ pc[c] = "replying"
    /\ \/ /\ c \in up /\ pc' = [pc EXCEPT ![c] = "registering"]
          /\ resumable' = [resumable EXCEPT ![device[c]] = c] /\ UNCHANGED <<up, done>>
       \/ TurnAway(c) /\ UNCHANGED resumable
    /\ UNCHANGED <<fixed, identity, proof, target, tunnels, primaries, authorized, armed,
                   recency, metadata, draining, doomed, closing, resumedBy>>

-----------------------------------------------------------------------------
(* registerSession, under gateway.mu, and the close of what it replaced *)

Same(c) == {e \in Tunnels(device[c]) : identity[e] = identity[c]}
Standbys(d) == Tunnels(d) \ {primaries[d]}

\* What registering c replaces: its own identity, or, when the device's budget
\* is used up, the oldest standby.
Replaced(c) ==
    IF Same(c) # {} THEN Same(c)
    ELSE IF Cardinality(Tunnels(device[c])) >= MaxTunnelsPerDevice
         THEN {Oldest(Standbys(device[c]))} ELSE {}

Admits(c) ==
    /\ ~draining
    /\ Same(c) # {} \/ /\ Cardinality(tunnels) < MaxAgentSessions
                       /\ \/ Cardinality(Tunnels(device[c])) < MaxTunnelsPerDevice
                          \/ Standbys(device[c]) # {}

Register(c) ==
    /\ pc[c] = "registering"
    /\ Admits(c)
    /\ LET d == device[c]  gone == Replaced(c) IN
       /\ tunnels' = (tunnels \ gone) \cup {c}
       /\ primaries' = IF primaries[d] = None \/ primaries[d] \in Same(c)
                       THEN [primaries EXCEPT ![d] = c] ELSE primaries
       /\ target' = [target EXCEPT ![c] = IF gone = {} THEN None ELSE CHOOSE e \in gone : TRUE]
       /\ pc' = [pc EXCEPT ![c] = IF gone = {} THEN "running" ELSE "replacing"]
    /\ UNCHANGED <<fixed, up, identity, proof, authorized, armed, recency, metadata,
                   resumable, done, draining, doomed, closing, resumedBy>>

RegisterRejected(c) ==
    /\ pc[c] = "registering" /\ ~Admits(c)
    /\ TurnAway(c)
    /\ UNCHANGED <<fixed, identity, proof, target, tunnels, primaries, authorized, armed,
                   recency, metadata, resumable, draining, doomed, closing, resumedBy>>

CloseReplaced(c) ==
    /\ pc[c] = "replacing"
    /\ pc' = [pc EXCEPT ![c] = "running"] /\ CloseSession(target[c])
    /\ target' = [target EXCEPT ![c] = None]
    /\ UNCHANGED <<fixed, identity, proof, authorized, armed, metadata,
                   resumable, draining, doomed, closing, resumedBy>>

-----------------------------------------------------------------------------
(* The life of a registered session *)

\* run accepts a frame.
FrameSeen(c) ==
    /\ pc[c] = "running" /\ c \in up \ done /\ recency # Seen(c)
    /\ recency' = Seen(c)
    /\ UNCHANGED <<fixed, pc, up, identity, proof, target, tunnels, primaries, authorized,
                   armed, metadata, resumable, done, draining, doomed, closing, resumedBy>>

\* The Agent's end of the transport is gone.
LoseTransport(c) ==
    /\ c \in up /\ up' = up \ {c}
    /\ UNCHANGED <<fixed, pc, identity, proof, target, tunnels, primaries, authorized, armed,
                   recency, metadata, resumable, done, draining, doomed, closing, resumedBy>>

\* run ends on a read error, heartbeatLoop on the idle timeout or a failed
\* ping; then handleAgent's deferred unregisterSession.
RunEnds(c) ==
    /\ pc[c] = "running" /\ (c \notin up \/ c \in done)
    /\ pc' = [pc EXCEPT ![c] = "closed"] /\ CloseSession(c)
    /\ UNCHANGED <<fixed, identity, proof, target, authorized, armed, metadata,
                   resumable, draining, doomed, closing, resumedBy>>

Expired(c) == identity[c] \in lapsed

\* Mutant: a resumed session is not revalidated.
RevalidateFresh(c) ==
    /\ pc[c] = "running" /\ c \in authorized \ done
    /\ metadata[device[c]] # "active" \/ Expired(c)
    /\ identity[c] = c
    /\ authorized' = authorized \ {c}
    /\ UNCHANGED <<fixed, pc, up, identity, proof, target, tunnels, primaries, armed, recency,
                   metadata, resumable, done, draining, doomed, closing, resumedBy>>

\* heartbeatLoop or authorizationExpiryLoop finds the authorization revoked,
\* expired or unavailable: terminateAuthorization drops the session's
\* authority first and closes it when session_revoked was sent or timed out.
Revalidate(c) ==
    /\ pc[c] = "running" /\ c \in authorized \ done
    /\ metadata[device[c]] # "active" \/ Expired(c)
    /\ authorized' = authorized \ {c}
    /\ UNCHANGED <<fixed, pc, up, identity, proof, target, tunnels, primaries, armed, recency,
                   metadata, resumable, done, draining, doomed, closing, resumedBy>>

TerminateAuthorization(c) ==
    /\ identity[c] # None /\ c \notin authorized \cup done
    /\ CloseSession(c)
    /\ UNCHANGED <<fixed, pc, identity, proof, target, authorized, armed, metadata,
                   resumable, draining, doomed, closing, resumedBy>>

\* The metadata the Gateway reads changes.
MetadataChanges(d) ==
    /\ scenario.faults = "metadata" /\ (\E c \in Conns : device[c] = d) /\ metadata[d] # "revoked"
    /\ metadata' = [metadata EXCEPT ![d] =
          IF @ = "active" THEN "unavailable" ELSE "revoked"]
    /\ UNCHANGED <<fixed, pc, up, identity, proof, target, tunnels, primaries, authorized,
                   armed, recency, resumable, done, draining, doomed, closing, resumedBy>>
MetadataRecovers(d) ==
    /\ metadata[d] = "unavailable"
    /\ metadata' = [metadata EXCEPT ![d] = "active"]
    /\ UNCHANGED <<fixed, pc, up, identity, proof, target, tunnels, primaries, authorized,
                   armed, recency, resumable, done, draining, doomed, closing, resumedBy>>

\* authorizationExpiresAt of a session passes, and with it that of the
\* sessions it was resumed into.
Lapse(c) ==
    /\ scenario.faults = "expiry" /\ identity[c] = c /\ c \notin lapsed /\ lapsed' = lapsed \cup {c}
    /\ UNCHANGED <<scenario, primaryLink, pc, up, identity, proof, target, tunnels, primaries,
                   authorized, armed, recency, metadata, resumable, done, draining, doomed,
                   closing, resumedBy>>

BeginDrain ==
    /\ scenario.faults = "shutdown" /\ ~draining /\ draining' = TRUE
    /\ UNCHANGED <<fixed, pc, up, identity, proof, target, tunnels, primaries, authorized,
                   armed, recency, metadata, resumable, done, doomed, closing, resumedBy>>

\* Close: the registry is emptied under the lock, then each session is closed.
CloseGateway ==
    /\ draining /\ ~closing /\ closing' = TRUE
    /\ doomed' = tunnels /\ tunnels' = {}
    /\ primaries' = [d \in Devices |-> None]
    /\ UNCHANGED <<fixed, pc, up, identity, proof, target, authorized, armed, recency,
                   metadata, resumable, done, draining, resumedBy>>
CloseDoomed(c) ==
    /\ c \in doomed /\ doomed' = doomed \ {c} /\ CloseSession(c)
    /\ UNCHANGED <<fixed, pc, identity, proof, target, authorized, armed, metadata,
                   resumable, draining, closing, resumedBy>>

-----------------------------------------------------------------------------
Handshake(c) ==
    \/ Refuse(c) \/ ReadPreface(c) \/ CompleteAuthentication(c) \/ LookUp(c) \/ Consume(c)
    \/ CheckResume(c) \/ Reply(c) \/ Register(c) \/ RegisterRejected(c) \/ CloseReplaced(c)

Heartbeat(c) == Revalidate(c) \/ TerminateAuthorization(c)

Next ==
    \/ \E c \in Conns : \/ Dial(c) \/ Handshake(c) \/ RunEnds(c) \/ FrameSeen(c)
                        \/ LoseTransport(c) \/ Heartbeat(c) \/ Lapse(c) \/ CloseDoomed(c)
    \/ \E d \in Devices : MetadataChanges(d) \/ MetadataRecovers(d)
    \/ BeginDrain \/ CloseGateway

\* A handshake is bounded by timeouts and a dead transport is noticed, the
\* heartbeat ticks, writes and closes return.
Fairness ==
    /\ \A c \in Conns : WF_vars(Handshake(c) \/ RunEnds(c)) /\ WF_vars(Heartbeat(c))
    /\ WF_vars(\E c \in Conns : CloseDoomed(c))

Spec == Init /\ [][Next]_vars /\ Fairness

-----------------------------------------------------------------------------
(* sessionForDevice *)

Routable(c) == c \in authorized /\ ~Expired(c)

\* The primary if it is routable, else the newest standby if that one is.
Route(d) ==
    IF primaries[d] # None /\ Routable(primaries[d]) THEN primaries[d]
    ELSE IF Standbys(d) # {} /\ Routable(Newest(Standbys(d)))
         THEN Newest(Standbys(d)) ELSE None

-----------------------------------------------------------------------------
(* Properties *)

\* The types of the variables; the order of lastSeen names each session at
\* most once.
TypeOK ==
    /\ pc \in [Conns -> InHandshake \cup {"idle", "registering", "replacing",
                                          "running", "closed"}]
    /\ up \subseteq Conns /\ tunnels \subseteq Conns /\ authorized \subseteq Conns
    /\ armed \subseteq Conns /\ done \subseteq Conns /\ doomed \subseteq Conns
    /\ primaries \in [Devices -> Conns \cup {None}]
    /\ resumable \in [Devices -> Conns \cup {None}]
    /\ identity \in [Conns -> Conns \cup {None}]
    /\ Range(recency) \subseteq Conns /\ IsInjective(recency)

\* A device has a routing primary exactly when it has a registered tunnel, and
\* the primary is one of its tunnels: registration, replacement, eviction,
\* unregistration and shutdown keep the two maps in step.
PrimaryRegistered ==
    \A d \in Devices : IF Tunnels(d) = {} THEN primaries[d] = None
                       ELSE primaries[d] \in Tunnels(d)

\* The session ceiling and the per-device budget hold at every moment, also
\* between the admission of a tunnel and the close of the one it replaced.
WithinCapacity ==
    /\ Cardinality(tunnels) <= MaxAgentSessions
    /\ \A d \in Devices : Cardinality(Tunnels(d)) <= MaxTunnelsPerDevice

\* One session identity never owns two registered tunnels.
OneTunnelPerIdentity ==
    \A a, b \in tunnels : a # b => identity[a] # identity[b]

\* A session is resumed at most once, however the proofs race and fail.
ResumedOnce == \A c \in Conns : Cardinality(resumedBy[c]) <= 1

\* Ingress finds a tunnel whenever a routable one is registered
\* (sessionForDevice's comment), also while the primary is being terminated.
FailoverComplete ==
    \A d \in Devices : Route(d) = None => \A c \in Tunnels(d) : ~Routable(c)

\* The maps the Gateway routes by stay in step with each other and with their
\* limits, whichever tunnels register, replace, evict, lose authority and end.
RegistryInStep == PrimaryRegistered /\ WithinCapacity /\ OneTunnelPerIdentity /\ FailoverComplete

\* A revoked device loses its tunnels, including sessions that were
\* authenticated before and registered after the revocation; and a session
\* whose authorization expired loses its own, a resumed one included.
RevocationTakesEffect ==
    []<>(/\ \A d \in Devices : metadata[d] = "revoked" => Tunnels(d) = {}
         /\ \A c \in tunnels : ~Expired(c))

\* Shutdown ends every connection: no handshake in flight at Close leaves a
\* session behind.
ShutdownEndsSessions == []<>(closing => \A c \in Conns : pc[c] \in {"idle", "closed"})

\* No revocation, expiry or shutdown is outrun by a session that was being
\* admitted at the time.
SessionsEnd == RevocationTakesEffect /\ ShutdownEndsSessions
=============================================================================
