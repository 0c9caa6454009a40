-------------------------- MODULE ConnectorClient --------------------------
(***************************************************************************)
(* The private connector on the user's machine: HooshiX Connect's session  *)
(* state (connectgui), the loopback listener it runs (Serve) and the flows *)
(* that carry local clients to the Gateway (proxy).  Each flow has two     *)
(* goroutines, one per direction, and outlives the session it began in.    *)
(*                                                                         *)
(* What the local client and the Gateway do in a flow is its plan; a chunk *)
(* is one read or one frame.  A dead Gateway leg is only noticed by a call *)
(* on it.                                                                  *)
(***************************************************************************)
EXTENDS Integers, FiniteSets

CONSTANTS
    Conns,            \* local connections, each used once
    Sessions,         \* bound: connector sessions
    FlowPlans         \* bound: what happens; "limit" is Config.MaxConnections,
                      \* "sessions" how often the user connects, and "flows", per
                      \* client, the chunks it sends and how it goes on, the
                      \* chunks the Gateway sends and how it goes on

FlowPlan == [up : Nat, client : {"eof", "silent", "reset"},
             down : Nat, gateway : {"half", "silent", "drop"}]

ASSUME ConnectorPlans ==
    /\ Sessions \in Nat \ {0}
    /\ \A p \in FlowPlans : /\ p.limit \in Nat \ {0} /\ p.sessions \in 1..Sessions
                            /\ DOMAIN p.flows \subseteq Conns
                            /\ \A c \in DOMAIN p.flows : p.flows[c] \in FlowPlan

VARIABLES
    status,      \* App.status: its state and Flows
    session,     \* App.session
    owned,       \* App.cancel # nil
    serve,       \* per session, Serve: "none", "accepting", "counted" (a client
                 \* is counted, not yet reported), "returned" or "finished"
    halted,      \* the sessions whose context is done
    taken,       \* per session, the slots taken
    live,        \* per session, the live count
    flow,        \* per connection, its proxy
    flowPlan,    \* what happens, one of FlowPlans
    crossed      \* ghost: sessions in which two reports were under way at once

connvars == <<status, session, owned, serve, halted, taken, live, flow, flowPlan, crossed>>

Session == 1..Sessions

NoFlow == [pc |-> "none", session |-> 0, report |-> 0, up |-> "reading", down |-> "reading",
           left |-> 0, got |-> 0, due |-> 0, had |-> 0, closed |-> FALSE, done |-> FALSE,
           dead |-> FALSE, failed |-> FALSE]

ConnInit ==
    /\ status = [state |-> "idle", flows |-> 0] /\ session = 0 /\ owned = FALSE
    /\ serve = [s \in Session |-> "none"] /\ halted = {}
    /\ taken = [s \in Session |-> 0] /\ live = [s \in Session |-> 0]
    /\ flow = [c \in Conns |-> NoFlow] /\ flowPlan \in FlowPlans /\ crossed = {}

SessionOf(c) == flow[c].session
PlanOf(c) == flowPlan.flows[c]

\* Between live.Add and the report of its result.
Reporting(s) ==
    {c \in Conns : flow[c].pc \in {"accepted", "uncounted"} /\ SessionOf(c) = s}

NoteCrossing(s) == crossed' = IF Reporting(s) # {} THEN crossed \cup {s} ELSE crossed

-----------------------------------------------------------------------------
(* connectgui.App *)

\* The check, the bind and the bookkeeping under one lock.  A bind may fail.
Connect ==
    /\ ~owned /\ session < flowPlan.sessions /\ session' = session + 1
    /\ \/ /\ owned' = TRUE /\ status' = [state |-> "listening", flows |-> 0]
          /\ serve' = [serve EXCEPT ![session + 1] = "accepting"]
       \/ status' = [state |-> "failed", flows |-> 0] /\ UNCHANGED <<owned, serve>>
    /\ UNCHANGED <<halted, taken, live, flow, flowPlan, crossed>>

\* A bundle that does not parse is shown, unless a tunnel is.
RejectBundle ==
    /\ status.state # "listening" /\ status' = [state |-> "failed", flows |-> 0]
    /\ UNCHANGED <<session, owned, serve, halted, taken, live, flow, flowPlan, crossed>>

Disconnect ==
    /\ owned /\ halted' = halted \cup {session}
    /\ UNCHANGED <<status, session, owned, serve, taken, live, flow, flowPlan, crossed>>

\* finish cancels its own context before it looks at it, so a listener that
\* failed is shown as disconnected too.
FinishSession(s) ==
    /\ serve[s] = "returned" /\ serve' = [serve EXCEPT ![s] = "finished"]
    /\ halted' = halted \cup {s} /\ owned' = FALSE
    /\ status' = [state |-> "stopped", flows |-> 0]
    /\ UNCHANGED <<session, taken, live, flow, flowPlan, crossed>>

\* Mutant: a report is applied whichever session it is from.
NoteFlowsAny(s, active) ==
    status' = IF status.state = "listening" THEN [status EXCEPT !.flows = active] ELSE status

\* Reports of a session that has been replaced are dropped.
NoteFlows(s, active) ==
    status' = IF status.state = "listening" /\ s = session
              THEN [status EXCEPT !.flows = active] ELSE status

-----------------------------------------------------------------------------
(* Serve *)

\* A client is accepted into a free slot and counted, or its connection is
\* closed.  A connection that arrives after the cancel may still be accepted.
AcceptClient(s, c) ==
    /\ serve[s] = "accepting" /\ flow[c].pc = "none" /\ c \in DOMAIN flowPlan.flows
    /\ IF taken[s] < flowPlan.limit
       THEN /\ taken' = [taken EXCEPT ![s] = @ + 1] /\ live' = [live EXCEPT ![s] = @ + 1]
            /\ serve' = [serve EXCEPT ![s] = "counted"]
            /\ flow' = [flow EXCEPT ![c] = [@ EXCEPT !.pc = "accepted", !.session = s,
                                                     !.report = live[s] + 1,
                                                     !.left = PlanOf(c).up,
                                                     !.due = PlanOf(c).down]]
            /\ NoteCrossing(s)
       ELSE /\ flow' = [flow EXCEPT ![c].pc = "refused"]
            /\ UNCHANGED <<taken, live, serve, crossed>>
    /\ UNCHANGED <<status, session, owned, halted, flowPlan>>

\* The accept loop reports the count and starts the flow.
ReportAccepted(c) ==
    /\ flow[c].pc = "accepted" /\ flow' = [flow EXCEPT ![c].pc = "dialling"]
    /\ NoteFlows(SessionOf(c), flow[c].report)
    /\ serve' = [serve EXCEPT ![SessionOf(c)] = "accepting"]
    /\ UNCHANGED <<session, owned, halted, taken, live, flowPlan, crossed>>

\* The context is done, which closes the listener; or Accept fails.
ServeReturns(s) ==
    /\ serve[s] = "accepting" /\ serve' = [serve EXCEPT ![s] = "returned"]
    /\ UNCHANGED <<status, session, owned, halted, taken, live, flow, flowPlan, crossed>>

\* The deferred function of a flow: count, report, free the slot.
Uncount(c) ==
    /\ flow[c].pc = "over"
    /\ live' = [live EXCEPT ![SessionOf(c)] = @ - 1]
    /\ flow' = [flow EXCEPT ![c].pc = "uncounted", ![c].report = live[SessionOf(c)] - 1]
    /\ NoteCrossing(SessionOf(c))
    /\ UNCHANGED <<status, session, owned, serve, halted, taken, flowPlan>>

ReportEnded(c) ==
    /\ flow[c].pc = "uncounted" /\ flow' = [flow EXCEPT ![c].pc = "reported"]
    /\ NoteFlows(SessionOf(c), flow[c].report)
    /\ UNCHANGED <<session, owned, serve, halted, taken, live, flowPlan, crossed>>

FreeSlot(c) ==
    /\ flow[c].pc = "reported" /\ flow' = [flow EXCEPT ![c].pc = "ended"]
    /\ taken' = [taken EXCEPT ![SessionOf(c)] = @ - 1]
    /\ UNCHANGED <<status, session, owned, serve, halted, live, flowPlan, crossed>>

-----------------------------------------------------------------------------
(* proxy: copyToGateway and copyFromGateway *)

OnlyFlow == UNCHANGED <<status, session, owned, serve, halted, taken, live, flowPlan, crossed>>

Done(c) == flow[c].done \/ SessionOf(c) \in halted

Set(c, f) == flow' = [flow EXCEPT ![c] = f] /\ OnlyFlow

\* Either direction failing ends the flow: cancel, and close the local socket.
Teardown(f) == [f EXCEPT !.done = TRUE, !.closed = TRUE, !.failed = TRUE]

Dial(c) ==
    /\ flow[c].pc = "dialling"
    /\ \/ ~Done(c) /\ Set(c, [flow[c] EXCEPT !.pc = "copying"])
       \/ Set(c, [flow[c] EXCEPT !.pc = "over", !.closed = TRUE, !.failed = TRUE])

Copying(c) == flow[c].pc \in {"copying", "joining"}

\* local.Read: a chunk, the end of the client's data, or an error.  It has no
\* deadline: a silent client is waited for until the socket is closed.
ReadLocal(c) ==
    /\ Copying(c) /\ flow[c].up = "reading"
    /\ \/ /\ ~flow[c].closed /\ flow[c].left > 0
          /\ Set(c, [flow[c] EXCEPT !.up = "sending", !.left = @ - 1])
       \/ /\ ~flow[c].closed /\ flow[c].left = 0 /\ PlanOf(c).client = "eof"
          /\ Set(c, [flow[c] EXCEPT !.up = "closing"])
       \/ /\ flow[c].closed \/ (flow[c].left = 0 /\ PlanOf(c).client = "reset")
          /\ Set(c, [Teardown(flow[c]) EXCEPT !.up = "failed"])

\* The frame reaches the Gateway, or the write fails: the leg is dead, the
\* context done, or the write timed out.
WriteRemote(c) ==
    /\ Copying(c) /\ flow[c].up \in {"sending", "closing"}
    /\ \/ /\ ~flow[c].dead /\ ~Done(c)
          /\ Set(c, IF flow[c].up = "sending"
                    THEN [flow[c] EXCEPT !.up = "reading", !.got = @ + 1]
                    ELSE [flow[c] EXCEPT !.up = "sent"])
       \/ Set(c, [Teardown(flow[c]) EXCEPT !.up = "failed"])

\* Mutant: the local socket stays open.
DownFailsOpen(c) == [flow[c] EXCEPT !.pc = "joining", !.down = "failed", !.failed = TRUE, !.done = TRUE]

DownFails(c) == [Teardown(flow[c]) EXCEPT !.pc = "joining", !.down = "failed"]

\* remote.Read and the write to the client.  It fails when the leg is dead,
\* the context is done, the Gateway is silent for IdleTimeout, or the client
\* is gone; a half-close is passed on and ends this direction.
ReadRemote(c) ==
    /\ flow[c].pc = "copying"
    /\ \/ /\ ~flow[c].dead /\ ~Done(c) /\ flow[c].due > 0
          /\ Set(c, IF flow[c].closed THEN DownFails(c)
                    ELSE [flow[c] EXCEPT !.due = @ - 1, !.had = @ + 1])
       \/ /\ ~flow[c].dead /\ ~Done(c) /\ flow[c].due = 0 /\ PlanOf(c).gateway = "half"
          /\ Set(c, IF flow[c].closed THEN DownFails(c)
                    ELSE [flow[c] EXCEPT !.pc = "joining", !.down = "ended"])
       \/ /\ flow[c].dead \/ Done(c) \/ (flow[c].due = 0 /\ PlanOf(c).gateway = "silent")
          /\ Set(c, DownFails(c))

\* Mutant: proxy does not wait for the other direction.
JoinAtOnce(c) ==
    /\ flow[c].pc = "joining" /\ Set(c, [flow[c] EXCEPT !.pc = "over", !.closed = TRUE])

\* Waits for the other direction, then closes both legs.
Join(c) ==
    /\ flow[c].pc = "joining" /\ flow[c].up \in {"sent", "failed"}
    /\ Set(c, [flow[c] EXCEPT !.pc = "over", !.closed = TRUE])

\* The Gateway's leg breaks.
Break(c) ==
    /\ Copying(c) /\ ~flow[c].dead /\ flow[c].due = 0 /\ PlanOf(c).gateway = "drop"
    /\ Set(c, [flow[c] EXCEPT !.dead = TRUE])

Proceeds(c) ==
    \/ ReportAccepted(c) \/ Dial(c) \/ WriteRemote(c) \/ Join(c)
    \/ Uncount(c) \/ ReportEnded(c) \/ FreeSlot(c)

ConnNext ==
    \/ Connect \/ RejectBundle \/ Disconnect
    \/ \E s \in Session : FinishSession(s) \/ ServeReturns(s) \/ \E c \in Conns : AcceptClient(s, c)
    \/ \E c \in Conns : Proceeds(c) \/ ReadLocal(c) \/ ReadRemote(c) \/ Break(c)

SessionEnds(s) == FinishSession(s) \/ (s \in halted /\ ServeReturns(s))

\* The goroutines are scheduled, dials and writes have timeouts, and a closed
\* listener returns.  Nobody need connect, disconnect or break.
ConnSpec ==
    /\ ConnInit /\ [][ConnNext]_connvars
    /\ \A c \in Conns : /\ WF_connvars(Proceeds(c))
                        /\ WF_connvars(ReadLocal(c)) /\ WF_connvars(ReadRemote(c))
    /\ \A s \in Session : WF_connvars(SessionEnds(s))

-----------------------------------------------------------------------------
(* Properties *)

\* Every variable keeps its type; no more is read than the client sent.
ConnTypeOK ==
    /\ status.state \in {"idle", "listening", "stopped", "failed"}
    /\ status.flows \in 0..flowPlan.limit
    /\ session \in 0..Sessions /\ owned \in BOOLEAN /\ halted \subseteq Session
    /\ serve \in [Session -> {"none", "accepting", "counted", "returned", "finished"}]
    /\ \A c \in Conns :
          /\ flow[c].pc \in {"none", "accepted", "refused", "dialling", "copying", "joining",
                             "over", "uncounted", "reported", "ended"}
          /\ flow[c].up \in {"reading", "sending", "closing", "sent", "failed"}
          /\ flow[c].down \in {"reading", "ended", "failed"}
          /\ flow[c].left \in Nat /\ flow[c].due \in Nat

\* A session's slots are exactly its flows that have not ended, never more
\* than the limit, also while flows of an earlier session are still ending.
SlotsAccounted ==
    \A s \in Session :
        /\ taken[s] = Cardinality({c \in Conns : SessionOf(c) = s /\ flow[c].pc # "ended"})
        /\ taken[s] <= flowPlan.limit /\ live[s] <= taken[s]

\* One session at a time: while the window shows a tunnel, no other session's
\* listener is open (Connect's and Disconnect's comments).
OneListener ==
    Cardinality({s \in Session : serve[s] \in {"accepting", "counted", "returned"}}) <= 1

\* A flow that ends without an error carried everything in both directions
\* and passed on both half-closes (proxy waits for both).
CleanFlowIsWhole ==
    \A c \in Conns : flow[c].pc \in {"over", "uncounted", "reported", "ended"} /\ ~flow[c].failed =>
        /\ flow[c].got = PlanOf(c).up /\ flow[c].had = PlanOf(c).down
        /\ flow[c].up = "sent" /\ flow[c].down = "ended"

\* The window counts the clients of the tunnel it shows, those of no other
\* session, unless two of the session's reports crossed (Status.Flows).
ShownFlowsAreLive ==
    status.state = "listening" /\ session \notin crossed /\ Reporting(session) = {}
        => status.flows = live[session]

\* What the window shows is what runs: one tunnel, its clients, and the slots
\* they hold.
WindowIsTrue == SlotsAccounted /\ OneListener /\ ShownFlowsAreLive

\* A flow whose session was cancelled or whose Gateway leg broke gives its
\* slot back, unless the Gateway had ended its direction first and the client
\* stays silent: then nothing is left that would notice.
BrokenFlowsEnd ==
    \A c \in Conns :
        []<>(\/ ~Copying(c) \/ ~(Done(c) \/ flow[c].dead)
             \/ flow[c].down = "ended" /\ flow[c].left = 0 /\ PlanOf(c).client = "silent")

\* A disconnect reaches the window: the tunnel is no longer shown.
DisconnectShows == []<>(session \in halted => status.state # "listening")

\* A cancelled session and a broken leg take effect on every flow and in the
\* window.
CancelEndsFlows == BrokenFlowsEnd /\ DisconnectShows
=============================================================================
