----------------------------- MODULE PublicEdge -----------------------------
(***************************************************************************)
(* The Gateway's public side: the HTTP ingress handler, the public TCP and *)
(* UDP port managers, and the private connector handler with its monitor,  *)
(* from the arrival of a flow to the release of what it holds; the         *)
(* reconciliation of the ports with the metadata; and the process's way    *)
(* from the termination signal to its exit.                                *)
(*                                                                         *)
(* All flows are of one endpoint of one device.  What the metadata say of  *)
(* it is a version: 0 when it is withdrawn, unknown or the metadata are    *)
(* unavailable, which every caller treats alike.  The bytes of a flow are  *)
(* abstracted to the phase of its handler; "upload" is a sender waiting in *)
(* Window.Take for credit from the Agent.  Streams and credit themselves   *)
(* are modelled in GatewayStream and CreditFlow.                           *)
(***************************************************************************)
EXTENDS Integers, FiniteSets, Sequences, Functions

CONSTANTS
    Flows,
    MaxIngressInFlight,    \* Limits.MaxIngressInFlight: per key, and of all slots
    MaxConnections,        \* of the connector grant
    Scenarios              \* the kinds of the flows, the port managers configured,
                           \* and what the environment does

Ports == {"tcp", "udp"}
Kinds == Ports \union {"http", "connector"}
Withdrawn == 0
Versions == 0..2
Unread == 3

ASSUME EdgeLimits ==
    /\ MaxIngressInFlight \in Nat \ {0} /\ MaxConnections \in Nat \ {0}
    /\ Scenarios \subseteq [kinds : [Flows -> Kinds], ports : SUBSET Ports, changes : Nat,
                            stalls : BOOLEAN, stops : BOOLEAN]

VARIABLES
    scenario,    \* one of Scenarios
    authority,   \* the version of the endpoint the metadata answer
    changes,     \* bound: changes of authority so far
    listener,    \* per port manager, the endpoint version of its listener
    fetched,     \* per port manager, what reconcile read, or Unread
    closed,      \* per port manager, its closed flag
    runner,      \* per port manager, its Run: "loop", "closing", "returned"; or "off"
    phase,       \* per flow, where its handler is
    seen,        \* per flow, the version it was admitted under
    cancelled,   \* the flows whose context was cancelled
    held,        \* per flow, its deferred releases, latest first
    inUse,       \* per counted resource, the units taken
    draining,    \* gateway.draining
    signalled,   \* SIGINT or SIGTERM was delivered
    main         \* where cmd/gateway's run is

edgevars == <<scenario, authority, changes, listener, fetched, closed, runner, phase, seen,
              cancelled, held, inUse, draining, signalled, main>>

kind == scenario.kinds

\* The keys flows are counted under: HTTP routes by assignment, the others by
\* endpoint; all share the device and the ingress slots.
Resources == {"grant", "assignment", "endpoint", "device", "slot"}
Key(f, stage) == CASE stage = "route" -> IF kind[f] = "http" THEN "assignment" ELSE "endpoint"
                   [] OTHER -> stage
LimitOf(r) == IF r = "grant" THEN MaxConnections ELSE MaxIngressInFlight

\* The order in which each handler asks for what it needs: handleIngress, the TCP
\* manager's serve, the UDP manager's serveFlow and handleConnector.
IngressStages   == <<"route", "device", "rate", "slot", "open">>
TCPStages       == <<"check", "route", "device", "slot", "open">>
UDPStages       == <<"route", "device", "slot", "open">>
ConnectorStages == <<"grant", "route", "device", "rate", "slot", "open">>
Admission(k) ==
    CASE k = "http" -> IngressStages [] k = "tcp" -> TCPStages
      [] k = "udp" -> UDPStages [] k = "connector" -> ConnectorStages
AfterStage(f) == LET plan == Admission(kind[f])
                 IN plan[(CHOOSE i \in DOMAIN plan : plan[i] = phase[f]) + 1]
Stages == {"check", "grant", "route", "device", "rate", "slot", "open"}
Serving == {"request", "upload", "response", "serving", "waning"}
Active(f) == phase[f] \notin {"idle", "ended"}

\* The context of a port's flow derives from its listener's, and that one from
\* the context the signal ends.
Cancelled(f) == f \in cancelled \/ (signalled /\ kind[f] \in Ports)

EdgeInit ==
    /\ scenario \in Scenarios
    /\ authority = 1 /\ changes = 0
    /\ listener = [k \in Ports |-> Withdrawn] /\ fetched = [k \in Ports |-> Unread]
    /\ closed = [k \in Ports |-> FALSE] /\ runner = [k \in Ports |-> IF k \in scenario.ports THEN "loop" ELSE "off"]
    /\ phase = [f \in Flows |-> "idle"] /\ seen = [f \in Flows |-> Withdrawn]
    /\ cancelled = {} /\ held = [f \in Flows |-> <<>>]
    /\ inUse = [r \in Resources |-> 0]
    /\ draining = FALSE /\ signalled = FALSE /\ main = "run"

Become(f, p) == phase' = [phase EXCEPT ![f] = p]
process == <<draining, signalled, main>>
managers == <<listener, fetched, closed, runner>>
counts == <<held, inUse>>

(***************************************************************************)
(* Arrival.  A refusal before anything is counted leaves no trace and is   *)
(* the absence of a step.                                                  *)
(***************************************************************************)
Authorized(f) == ~draining /\ authority # Withdrawn

Arrive(f) ==
    /\ phase[f] = "idle" /\ main # "exit"
    /\ Authorized(f)
    /\ Become(f, Head(Admission(kind[f]))) /\ seen' = [seen EXCEPT ![f] = authority]
    /\ UNCHANGED <<scenario, authority, changes, cancelled, managers, counts, process>>
\* handleIngress and handleConnector, up to their first counted resource.
ArriveHTTP(f) == kind[f] = "http" /\ Arrive(f)
ArriveConnector(f) == kind[f] = "connector" /\ Arrive(f)

\* The accept loop's Accept, the reader's ReadFrom.
Accept(f) ==
    /\ kind[f] \in Ports /\ phase[f] = "idle"
    /\ listener[kind[f]] # Withdrawn
    /\ Become(f, "accepted") /\ seen' = [seen EXCEPT ![f] = listener[kind[f]]]
    /\ UNCHANGED <<scenario, authority, changes, cancelled, managers, counts, process>>

\* accept starts a handler under the manager's lock, unless it was closed.
StartTCP(f) ==
    /\ kind[f] = "tcp" /\ phase[f] = "accepted"
    /\ Become(f, IF closed["tcp"] \/ Cancelled(f) THEN "ended" ELSE "check")
    /\ UNCHANGED <<scenario, authority, changes, seen, cancelled, managers, counts, process>>

\* read starts a flow for a new peer, with no look at the listener's context.
StartUDP(f) ==
    /\ kind[f] = "udp" /\ phase[f] = "accepted"
    /\ \/ ~draining /\ Become(f, "route")
       \/ Become(f, "ended")          \* draining, its source or a rate
    /\ UNCHANGED <<scenario, authority, changes, seen, cancelled, managers, counts, process>>

(***************************************************************************)
(* Admission.                                                              *)
(***************************************************************************)
CheckTCP(f) ==
    /\ phase[f] = "check"
    /\ \/ ~Cancelled(f) /\ ~draining /\ Become(f, AfterStage(f))
       \/ Become(f, "unwinding")      \* cancelled, draining, its source or a rate
    /\ UNCHANGED <<scenario, authority, changes, seen, cancelled, managers, counts, process>>

Rate(f) ==
    /\ phase[f] = "rate"
    /\ \E p \in {AfterStage(f), "unwinding"} : Become(f, p)
    /\ UNCHANGED <<scenario, authority, changes, seen, cancelled, managers, counts, process>>

HasRoom(r) == inUse[r] < LimitOf(r)

\* Mutant: the device unit is taken without its deferred release.
AcquireLeaky(f) ==
    LET r == Key(f, phase[f]) IN
    /\ phase[f] \in {"grant", "route", "device", "slot"}
    /\ \/ /\ HasRoom(r) /\ Become(f, AfterStage(f))
          /\ inUse' = [inUse EXCEPT ![r] = @ + 1]
          /\ held' = [held EXCEPT ![f] = IF r = "device" THEN @ ELSE <<r>> \o @]
       \/ /\ HasRoom(r) => phase[f] \in {"route", "device"}
          /\ Become(f, "unwinding") /\ UNCHANGED counts
    /\ UNCHANGED <<scenario, authority, changes, seen, cancelled, managers, process>>

\* The keyed limiters also refuse for the key's rate and its fair share; the
\* grant and the slots only when they are all taken.
Acquire(f) ==
    LET r == Key(f, phase[f]) IN
    /\ phase[f] \in {"grant", "route", "device", "slot"}
    /\ \/ /\ HasRoom(r) /\ Become(f, AfterStage(f))
          /\ inUse' = [inUse EXCEPT ![r] = @ + 1]
          /\ held' = [held EXCEPT ![f] = <<r>> \o @]
       \/ /\ HasRoom(r) => phase[f] \in {"route", "device"}
          /\ Become(f, "unwinding") /\ UNCHANGED counts
    /\ UNCHANGED <<scenario, authority, changes, seen, cancelled, managers, process>>

\* Opening the stream: no session, a refused stream, or a context that ended
\* first end the flow.  An HTTP request of more bytes than the stream's credit
\* waits for the Agent.
Open(f) ==
    /\ phase[f] = "open"
    /\ \/ Become(f, "unwinding")
       \/ kind[f] = "http" /\ \E p \in {"request", "upload"} : Become(f, p)
       \/ kind[f] # "http" /\ Become(f, "serving")
    /\ UNCHANGED <<scenario, authority, changes, seen, cancelled, managers, counts, process>>

(***************************************************************************)
(* Serving.                                                                *)
(***************************************************************************)
\* The HTTP request is written; the response phase begins.
RequestWritten(f) ==
    /\ kind[f] = "http"
    /\ phase[f] = "request" \/ (phase[f] = "upload" /\ ~scenario.stalls)
    /\ Become(f, "response")
    /\ UNCHANGED <<scenario, authority, changes, seen, cancelled, managers, counts, process>>

\* The client of a port or connector sent more than the stream's credit.
\* Datagrams are not under credit.
Upload(f) ==
    /\ kind[f] \in {"tcp", "connector"} /\ phase[f] = "serving" /\ ~Cancelled(f)
    /\ Become(f, "upload")
    /\ UNCHANGED <<scenario, authority, changes, seen, cancelled, managers, counts, process>>

Credited(f) ==
    /\ kind[f] # "http" /\ phase[f] = "upload" /\ ~scenario.stalls /\ ~Cancelled(f)
    /\ Become(f, "serving")
    /\ UNCHANGED <<scenario, authority, changes, seen, cancelled, managers, counts, process>>

\* Either end finished, failed or hung up.
Finish(f) ==
    /\ phase[f] \in Serving
    /\ Become(f, "unwinding")
    /\ UNCHANGED <<scenario, authority, changes, seen, cancelled, managers, counts, process>>

\* lastActivity of a UDP flow ages while the Agent is silent ...
Wane(f) ==
    /\ kind[f] = "udp" /\ scenario.stalls /\ phase[f] = "serving"
    /\ Become(f, "waning")
    /\ UNCHANGED <<scenario, authority, changes, seen, cancelled, managers, counts, process>>

\* ... and every datagram of the client renews it.
Datagram(f) ==
    /\ phase[f] = "waning" /\ ~Cancelled(f)
    /\ Become(f, "serving")
    /\ UNCHANGED <<scenario, authority, changes, seen, cancelled, managers, counts, process>>

\* The phases an inactivity limit covers: the response phase of HTTP, the whole
\* of a public TCP flow, a UDP flow without datagrams, and a connector's wait
\* for its client.
TimedPhases(k) == CASE k = "http" -> {"response"}
                    [] k = "tcp" -> {"serving", "upload"}
                    [] k = "udp" -> {"waning"}
                    [] k = "connector" -> {"serving"}

Timeout(f) ==
    /\ scenario.stalls /\ phase[f] \in TimedPhases(kind[f])
    /\ Become(f, "unwinding")
    /\ UNCHANGED <<scenario, authority, changes, seen, cancelled, managers, counts, process>>

\* The context ended, or Gateway.Close failed the stream.
Cut(f) ==
    /\ phase[f] \in Serving /\ (Cancelled(f) \/ main = "exit")
    /\ Become(f, "unwinding")
    /\ UNCHANGED <<scenario, authority, changes, seen, cancelled, managers, counts, process>>

\* Mutant: only a failing lookup ends the flow, not a changed answer.
MonitorErrors(f) ==
    /\ kind[f] = "connector" /\ phase[f] \in Serving \union {"open"}
    /\ f \notin cancelled /\ authority = Withdrawn
    /\ cancelled' = cancelled \union {f}
    /\ UNCHANGED <<scenario, authority, changes, phase, seen, managers, counts, process>>

\* monitorConnectorAuthorization, every second from before the stream is opened.
Monitor(f) ==
    /\ kind[f] = "connector" /\ phase[f] \in Serving \union {"open"}
    /\ f \notin cancelled /\ authority # seen[f]
    /\ cancelled' = cancelled \union {f}
    /\ UNCHANGED <<scenario, authority, changes, phase, seen, managers, counts, process>>

\* The deferred releases, last in first out; a panic runs them too.
Unwind(f) ==
    /\ phase[f] = "unwinding"
    /\ IF held[f] = <<>>
       THEN Become(f, "ended") /\ UNCHANGED counts
       ELSE /\ inUse' = [inUse EXCEPT ![Head(held[f])] = @ - 1]
            /\ held' = [held EXCEPT ![f] = Tail(@)]
            /\ UNCHANGED phase
    /\ UNCHANGED <<scenario, authority, changes, seen, cancelled, managers, process>>

(***************************************************************************)
(* The port managers.                                                      *)
(***************************************************************************)
ChangeAuthority(v) ==
    /\ changes < scenario.changes /\ v # authority
    /\ authority' = v /\ changes' = changes + 1
    /\ UNCHANGED <<scenario, phase, seen, cancelled, managers, counts, process>>

\* reconcile reads the metadata before it takes the lock.  A read that finds
\* the endpoint of the listener changes nothing.
ReadEndpoints(k) ==
    /\ runner[k] = "loop" /\ fetched[k] = Unread /\ authority # listener[k]
    /\ fetched' = [fetched EXCEPT ![k] = authority]
    /\ UNCHANGED <<scenario, authority, changes, phase, seen, cancelled, listener, closed, runner,
                   counts, process>>

FlowsOf(k) == {f \in Flows : kind[f] = k /\ Active(f)}

\* Mutant: reconcile does not look at the closed flag.
ReconcileAnyway(k) ==
    /\ fetched[k] # Unread
    /\ fetched' = [fetched EXCEPT ![k] = Unread]
    /\ IF listener[k] = fetched[k]
       THEN UNCHANGED <<listener, cancelled>>
       ELSE /\ cancelled' = cancelled \union FlowsOf(k)
            /\ \E v \in {fetched[k], Withdrawn} : listener' = [listener EXCEPT ![k] = v]
    /\ UNCHANGED <<scenario, authority, changes, phase, seen, closed, runner, counts, process>>

\* The listener of another endpoint is cancelled and closed; net.Listen of the
\* new one may fail.
Reconcile(k) ==
    /\ fetched[k] # Unread
    /\ fetched' = [fetched EXCEPT ![k] = Unread]
    /\ IF closed[k] \/ listener[k] = fetched[k]
       THEN UNCHANGED <<listener, cancelled>>
       ELSE /\ cancelled' = cancelled \union FlowsOf(k)
            /\ \E v \in {fetched[k], Withdrawn} : listener' = [listener EXCEPT ![k] = v]
    /\ UNCHANGED <<scenario, authority, changes, phase, seen, closed, runner, counts, process>>

\* Mutant: Close shuts the listeners without cancelling their flows.
MarkClosedOnly(k) ==
    /\ closed' = [closed EXCEPT ![k] = TRUE]
    /\ listener' = [listener EXCEPT ![k] = Withdrawn]
    /\ UNCHANGED cancelled

\* The first part of Close: mark, cancel and close every listener.
MarkClosed(k) ==
    /\ closed' = [closed EXCEPT ![k] = TRUE]
    /\ listener' = [listener EXCEPT ![k] = Withdrawn]
    /\ cancelled' = cancelled \union FlowsOf(k)
\* Its second part: the wait group covers the accept loops and the handlers.
Quiet(k) == FlowsOf(k) = {}

RunCloses(k) ==
    /\ signalled /\ runner[k] = "loop" /\ fetched[k] = Unread
    /\ runner' = [runner EXCEPT ![k] = "closing"]
    /\ MarkClosed(k)
    /\ UNCHANGED <<scenario, authority, changes, fetched, phase, seen, counts, process>>
RunReturns(k) ==
    /\ runner[k] = "closing" /\ Quiet(k)
    /\ runner' = [runner EXCEPT ![k] = "returned"]
    /\ UNCHANGED <<scenario, authority, changes, listener, fetched, closed, phase, seen, cancelled,
                   counts, process>>

(***************************************************************************)
(* The process.                                                            *)
(***************************************************************************)
\* The signal's context ends while run waits in its select, which resolves it to
\* that case before a manager's Run can return to errCh.
Signal ==
    /\ scenario.stops /\ ~signalled
    /\ signalled' = TRUE
    /\ IF main = "run" THEN draining' = TRUE /\ main' = "tcp" ELSE UNCHANGED <<draining, main>>
    /\ UNCHANGED <<scenario, authority, changes, phase, seen, cancelled, managers, counts>>

\* A server's error reaches errCh: no drain, and the managers keep running
\* until they are closed.
ServerFails ==
    /\ scenario.stops /\ main = "run"
    /\ main' = "tcp"
    /\ UNCHANGED <<scenario, authority, changes, phase, seen, cancelled, managers, counts, draining, signalled>>

CloseManager(k) ==
    /\ main = k /\ runner[k] # "off" /\ ~closed[k]
    /\ MarkClosed(k)
    /\ UNCHANGED <<scenario, authority, changes, fetched, runner, phase, seen, counts, process>>
ManagerClosed(k) ==
    /\ main = k /\ (runner[k] = "off" \/ closed[k]) /\ Quiet(k)
    /\ main' = IF k = "tcp" THEN "udp" ELSE "http"
    /\ UNCHANGED <<scenario, authority, changes, phase, seen, cancelled, managers, counts, draining, signalled>>

\* server.Shutdown returns when the handlers have, or after its timeout.
\* After an error the server is not shut down at all.
ShutDownServer ==
    /\ main = "http" /\ main' = "tunnels"
    /\ UNCHANGED <<scenario, authority, changes, phase, seen, cancelled, managers, counts, draining, signalled>>
CloseTunnels ==
    /\ main = "tunnels" /\ main' = "exit" /\ draining' = TRUE
    /\ UNCHANGED <<scenario, authority, changes, phase, seen, cancelled, managers, counts, signalled>>

Admit(f) == StartTCP(f) \/ StartUDP(f) \/ CheckTCP(f) \/ Rate(f) \/ Acquire(f) \/ Open(f)
\* What the handler of each kind does once its stream is open.
ServeIngress(f) == kind[f] = "http" /\ (RequestWritten(f) \/ Finish(f) \/ Timeout(f) \/ Cut(f))
ServeTCP(f) == kind[f] = "tcp" /\ (Upload(f) \/ Credited(f) \/ Finish(f) \/ Timeout(f) \/ Cut(f))
ServeFlow(f) == kind[f] = "udp" /\ (Wane(f) \/ Datagram(f) \/ Finish(f) \/ Timeout(f) \/ Cut(f))
ServeConnector(f) == kind[f] = "connector" /\ (Upload(f) \/ Credited(f) \/ Finish(f) \/ Timeout(f) \/ Cut(f))
\* What a handler does by itself, without its client or the Agent finishing.
Handler(f) == Admit(f) \/ RequestWritten(f) \/ Credited(f) \/ Wane(f) \/ Timeout(f) \/ Cut(f) \/ Unwind(f)
Manager(k) == ReadEndpoints(k) \/ Reconcile(k) \/ RunCloses(k) \/ RunReturns(k)
TCPManager == Manager("tcp")
UDPManager == Manager("udp")
Main == (\E k \in Ports : CloseManager(k) \/ ManagerClosed(k))
        \/ ShutDownServer \/ CloseTunnels

EdgeNext ==
    \/ \E f \in Flows :
        \/ ArriveHTTP(f) \/ ArriveConnector(f) \/ Accept(f) \/ Admit(f) \/ Monitor(f) \/ Unwind(f)
        \/ ServeIngress(f) \/ ServeTCP(f) \/ ServeFlow(f) \/ ServeConnector(f)
    \/ \E v \in Versions : ChangeAuthority(v)
    \/ TCPManager \/ UDPManager
    \/ Signal \/ ServerFails \/ Main

\* Every goroutine that can run does; what clients, the Agent, the metadata and
\* the operator do is not scheduled by the code.
EdgeFairness ==
    /\ \A f \in Flows : WF_edgevars(Handler(f)) /\ WF_edgevars(Monitor(f))
    /\ \A k \in Ports : WF_edgevars(Manager(k))
    /\ WF_edgevars(Main)

EdgeSpec == EdgeInit /\ [][EdgeNext]_edgevars /\ EdgeFairness

(***************************************************************************)
(* Properties.                                                             *)
(***************************************************************************)
\* The types of the variables.
EdgeTypeOK ==
    /\ scenario \in Scenarios
    /\ authority \in Versions /\ changes \in 0..scenario.changes
    /\ listener \in [Ports -> Versions] /\ fetched \in [Ports -> Versions \union {Unread}]
    /\ closed \in [Ports -> BOOLEAN] /\ runner \in [Ports -> {"loop", "closing", "returned", "off"}]
    /\ phase \in [Flows -> Stages \union Serving \union {"idle", "accepted", "unwinding", "ended"}]
    /\ seen \in [Flows -> Versions] /\ cancelled \subseteq Flows
    /\ held \in [Flows -> Seq(Resources)] /\ inUse \in [Resources -> Nat]
    /\ draining \in BOOLEAN /\ signalled \in BOOLEAN
    /\ main \in Ports \union {"run", "http", "tunnels", "exit"}

\* Every counter and slot is the number of flows that hold it, at most its
\* limit, whichever refusal, failure, cancellation or end each flow met: no
\* handler leaks a unit, gives one back twice (Release and the limiters panic
\* on underflow), or serves without all of its own.
UnitsAccounted ==
    /\ \A r \in Resources :
        /\ inUse[r] = Cardinality({f \in Flows : r \in Range(held[f])})
        /\ inUse[r] <= LimitOf(r)
    /\ \A f \in Flows :
        /\ phase[f] \in Serving =>
              \A s \in Range(Admission(kind[f])) \ {"check", "rate", "open"} : Key(f, s) \in Range(held[f])
        /\ phase[f] = "ended" => held[f] = <<>>

\* Once Close of a port manager has returned, none of its handlers runs and no
\* listener is open, although reconcile, the accept loop and the reader were
\* each between two steps when it was called, and Run closes it too.
ClosedIsQuiet ==
    \A k \in Ports :
        runner[k] = "returned" \/ main \in (IF k = "tcp" THEN {"udp"} ELSE {}) \union {"http", "tunnels", "exit"}
            => Quiet(k) /\ listener[k] = Withdrawn

\* A withdrawn or changed endpoint, an expired grant or lost metadata end the
\* port and connector flows admitted under the old version, also those that
\* were still being admitted or that wait for the Agent's credit.
FlowsFollowAuthority ==
    <>[](\A f \in Flows :
           kind[f] # "http" /\ phase[f] \in Serving => seen[f] = authority)

\* An Agent that stalls keeps no public TCP flow, not even one whose reader
\* waits for its credit, no HTTP response, and a public UDP flow only as long as
\* the client keeps sending datagrams.  An HTTP request still being uploaded,
\* and a connector's flow, have no such limit.
StallsAreBounded ==
    \A f \in Flows :
        \/ []<>(scenario.stalls => CASE kind[f] \in Ports -> "slot" \notin Range(held[f])
                                     [] kind[f] = "http" -> phase[f] # "response"
                                     [] OTHER -> TRUE)
        \/ []<><<Datagram(f)>>_edgevars

\* No public flow outlives what lets it run: its authority, and an Agent that
\* answers or a client that goes on sending.
FlowsEnd == FlowsFollowAuthority /\ StallsAreBounded

\* The process exits after a termination signal or a server's error, whatever
\* the Agent and the clients do, although Close of the managers waits without a
\* limit for handlers that wait for them.
ShutdownCompletes == main # "run" ~> main = "exit"

\* docs/runtime/gateway.md: a stalled Agent that keeps its session alive cannot
\* hold one of the ingress slots.
StalledAgentFreesSlots ==
    \A f \in Flows : []<>(scenario.stalls => "slot" \notin Range(held[f]))
=============================================================================
