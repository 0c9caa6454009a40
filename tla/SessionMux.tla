----------------------------- MODULE SessionMux -----------------------------
(***************************************************************************)
(* One transport between the Gateway and an Agent, seen as the place where *)
(* many senders share one writer at each end.                              *)
(*                                                                         *)
(* Gateway: a handler of an HTTP request allocates a stream ID under       *)
(* sess.mu, queues stream_open after releasing it, sends the request for   *)
(* which it takes the Agent's credit, reads the response and returns       *)
(* credit for it, and ends the stream.  The heartbeat queues pings, the    *)
(* read loop the stream_error of a stream whose queue is full.  The writer *)
(* takes control frames before data frames.                                *)
(*                                                                         *)
(* Agent: the read loop answers pings and opens; per stream one server     *)
(* sends the response and a terminal frame, and one consumer hands the     *)
(* request to the target and returns credit.  The writer merges its two    *)
(* queues by acceptance order, so they are one FIFO queue here.            *)
(*                                                                         *)
(* A sender waits for the writer's answer.  A control sender may give up   *)
(* (deadline, cancelled request); the writer then drops the frame if it    *)
(* has not written it.  A data frame that was accepted is always written.  *)
(* Payloads, budgets and queues of received bytes are in CreditFlow and    *)
(* GatewayStream; here a frame is its kind, stream and sequence number,    *)
(* and one unit of credit pays for one data frame.                         *)
(***************************************************************************)
EXTENDS Integers, FiniteSets, SequencesExt

CONSTANTS
    Handlers,       \* ingress handlers, each opening one stream
    AgentStreams,   \* the Agent's MaxStreams
    IDLimit,        \* stream IDs are uint32: arithmetic is modulo IDLimit
    ControlSlots, DataSlots,  \* capacity of the Gateway's writer queues
    WireSlots,      \* bound: frames in flight in each direction
    Scenarios       \* bounds: the handlers that start, the Gateway's MaxStreamsPerSession, the
                    \* pings sent, the data frames of a response and of a request, and
                    \* whether the transport may break

ASSUME MuxLimits ==
    /\ AgentStreams \in Nat \ {0}
    /\ IDLimit \in Nat /\ IDLimit > 1
    /\ ControlSlots \in Nat \ {0} /\ DataSlots \in Nat \ {0}
    /\ WireSlots \in Nat \ {0}
    /\ Scenarios \subseteq [starts : SUBSET Handlers, streams : Nat \ {0}, pings : Nat,
                            chunks : Nat, body : Nat, breaks : BOOLEAN]

VARIABLES
    env,        \* the scenario
    handler,    \* per handler, where it is
    sid,        \* per handler, its stream ID (0: none)
    left,       \* per handler, the data frames of the request still to send
    unread,     \* per stream ID, response chunks queued for the handler
    loop,       \* what the Gateway's read loop is sending: kind and stream
    nextID,     \* sess.nextID
    window,     \* sess.streams: the credit of each stream the Gateway routes
    controlQ, dataQ,   \* the Gateway writer's queues
    pinging,    \* heartbeat: "idle" or "waiting"
    pings,      \* heartbeats queued so far
    gwSeq, gwSeen,     \* the Gateway's outbound and inbound sequence numbers
    gwEnd,      \* "no", or why the Gateway ended the session
    down, up,   \* frames on the wire, to the Agent and to the Gateway
    wire,       \* "up", or "broken"
    agSeq, agSeen,
    maxID,      \* the Agent's maxStreamID
    credit,     \* the Agent's streams map: the credit of each stream it serves
    server,     \* per stream ID, where its server is
    taken,      \* per stream ID, request frames queued for the target
    consumer,   \* per stream ID: "on", "granting" or "off"
    terminal,   \* the streams whose terminal sync.Once has been used
    reader,     \* what the Agent's read loop is sending: kind and stream
    agQ,        \* the Agent writer's queues, merged by acceptance order
    closed,     \* is the Agent's session closed?
    agEnd,      \* "no", or why the Agent's run returned
    sentUp,     \* ghost: response chunks read from the target, per stream
    gotUp,      \* ghost: response chunks the Gateway took, per stream
    whole       \* ghost: did every completed stream arrive whole?

open == DOMAIN window
serving == DOMAIN credit
flow == <<left, unread>>
queues == <<controlQ, dataQ>>
intake == <<taken, consumer>>
gwVars == <<env, flow, loop, handler, sid, nextID, window, controlQ, dataQ, pinging, pings,
            gwSeq, gwSeen, gwEnd>>
agVars == <<agSeq, agSeen, maxID, intake, credit, server, terminal, reader, agQ, closed, agEnd>>
ghosts == <<sentUp, gotUp, whole>>
vars == <<gwVars, down, up, wire, agVars, ghosts>>

IDs == 1..(IDLimit - 1)
Idle == [kind |-> "none", id |-> 0]
Without(f, id) == Restrict(f, DOMAIN f \ {id})
Request(from, kind, id) == [from |-> from, kind |-> kind, id |-> id, live |-> TRUE]
Frame(seq, kind, id) == [seq |-> seq, kind |-> kind, id |-> id]

Init ==
    /\ env \in Scenarios
    /\ handler = [h \in Handlers |-> IF h \in env.starts THEN "idle" ELSE "done"]
    /\ sid = [h \in Handlers |-> 0] /\ left = [h \in Handlers |-> env.body]
    /\ unread = [i \in IDs |-> 0] /\ loop = Idle
    /\ nextID = 1 /\ window = <<>> /\ controlQ = <<>> /\ dataQ = <<>>
    /\ pinging = "idle" /\ pings = 0
    /\ gwSeq = 0 /\ gwSeen = 0 /\ gwEnd = "no"
    /\ down = <<>> /\ up = <<>> /\ wire = "up"
    /\ agSeq = 0 /\ agSeen = 0 /\ maxID = 0 /\ credit = <<>>
    /\ taken = [i \in IDs |-> 0] /\ consumer = [i \in IDs |-> "off"]
    /\ server = [i \in IDs |-> "none"] /\ terminal = {} /\ reader = Idle /\ agQ = <<>>
    /\ closed = FALSE /\ agEnd = "no"
    /\ sentUp = [i \in IDs |-> 0] /\ gotUp = [i \in IDs |-> 0] /\ whole = TRUE

-----------------------------------------------------------------------------
(* The Gateway's senders *)

NextAfterID(id) == (id + 1) % IDLimit

\* openStreamTarget up to the unlock: the ID is taken, nothing is sent yet.
\* The window starts with the allowance for the request's headers.
OpenStream(h) ==
    /\ handler[h] = "idle"
    /\ Cardinality(open) < env.streams /\ nextID # 0
    /\ handler' = [handler EXCEPT ![h] = "opening"]
    /\ sid' = [sid EXCEPT ![h] = nextID]
    /\ nextID' = NextAfterID(nextID)
    /\ window' = window @@ (nextID :> 1)
    /\ UNCHANGED <<env, left, unread, loop, controlQ, dataQ, pinging, pings, gwSeq,
                   gwSeen, gwEnd, down, up, wire, agVars, ghosts>>

\* The stream limit is reached or the IDs are exhausted.
OpenRefused(h) ==
    /\ handler[h] = "idle"
    /\ Cardinality(open) >= env.streams \/ nextID = 0
    /\ handler' = [handler EXCEPT ![h] = "done"]
    /\ UNCHANGED <<env, flow, loop, sid, nextID, window, controlQ, dataQ, pinging,
                   pings, gwSeq, gwSeen, gwEnd, down, up, wire, agVars, ghosts>>

Waiting(pc) == CASE pc = "opening" -> "openWait" [] pc = "granting" -> "grantWait"
                 [] pc = "sending" -> "sendWait" [] pc = "closing" -> "closeWait"
                 [] pc = "returning" -> "returnWait"
Kind(pc) == CASE pc = "opening" -> "open" [] pc \in {"granting", "returning"} -> "grant"
              [] pc = "sending" -> "data" [] pc = "closing" -> "close"

QueueControl(r) ==
    /\ Len(controlQ) < ControlSlots
    /\ controlQ' = Append(controlQ, r) /\ UNCHANGED dataQ

\* sendFrame: the request enters its queue.
Queue(h) ==
    /\ gwEnd = "no" /\ handler[h] \in {"opening", "granting", "sending", "closing", "returning"}
    /\ LET r == Request(h, Kind(handler[h]), sid[h]) IN
       IF r.kind = "data"
       THEN /\ Len(dataQ) < DataSlots
            /\ dataQ' = Append(dataQ, r) /\ UNCHANGED controlQ
       ELSE QueueControl(r)
    /\ handler' = [handler EXCEPT ![h] = Waiting(handler[h])]
    /\ UNCHANGED <<env, flow, loop, sid, nextID, window, pinging, pings, gwSeq, gwSeen,
                   gwEnd, down, up, wire, agVars, ghosts>>

\* sendBytes: Window.Take returns with credit for the next frame.
Take(h) ==
    /\ handler[h] = "taking" /\ left[h] > 0 /\ sid[h] \in open /\ window[sid[h]] > 0
    /\ handler' = [handler EXCEPT ![h] = "sending"]
    /\ left' = [left EXCEPT ![h] = @ - 1]
    /\ window' = [window EXCEPT ![sid[h]] = @ - 1]
    /\ UNCHANGED <<env, unread, loop, sid, nextID, controlQ, dataQ, pinging,
                   pings, gwSeq, gwSeen, gwEnd, down, up, wire, agVars, ghosts>>

\* What a handler does when its send returns an error: a stream whose
\* stream_open or first grant fails is finished without a word to the Agent, a
\* failed body ends in a terminal frame if the stream is still attached, credit
\* that could not be returned is lost, and a failed terminal frame is final.
Sending == {"opening", "granting", "sending", "returning", "closing",
            "openWait", "grantWait", "sendWait", "returnWait", "closeWait"}
AfterError(h) ==
    CASE handler[h] \in {"returning", "returnWait"} -> "reading"
      [] handler[h] \in {"taking", "sending", "sendWait"} /\ sid[h] \in open -> "closing"
      [] OTHER -> "done"
StillOpen(h) == IF handler[h] \in {"returning", "returnWait", "closing", "closeWait"}
                THEN open ELSE open \ {sid[h]}

\* The request h waits for: the writer may have passed its expiry check and be
\* writing it (written), or will find it expired.
Abandon(q, h, written) ==
    [i \in DOMAIN q |-> IF q[i].from = h /\ ~(written /\ i = 1)
                        THEN [q[i] EXCEPT !.live = FALSE] ELSE q[i]]

Stop(h, states) ==
    /\ handler[h] \in states
    /\ handler' = [handler EXCEPT ![h] = AfterError(h)]
    /\ window' = Restrict(window, StillOpen(h))
    /\ \E written \in BOOLEAN : controlQ' = Abandon(controlQ, h, written)
    /\ UNCHANGED <<env, flow, loop, sid, nextID, dataQ, pinging, pings, gwSeq, gwSeen,
                   gwEnd, down, up, wire, agVars, ghosts>>

\* Mutant: a sender whose data was taken does not watch done.
GiveUpBlocked(h) == Stop(h, Sending \ {"sendWait"})

\* sendFrame gives up: once the session is done, on the deadline or when the
\* request is cancelled; but data the queue has taken waits for the writer.
GiveUp(h) == Stop(h, IF gwEnd = "no" THEN Sending \ {"sendWait"} ELSE Sending)

\* Window.Take returns an error: the stream was detached under the sender.
TakeFails(h) == left[h] > 0 /\ sid[h] \notin open /\ Stop(h, {"taking"})

\* The request's context ends while the handler waits for credit: nothing else
\* bounds that wait.
ClientLeaves(h) == left[h] > 0 /\ Stop(h, {"taking"})

\* The handler is through with the request and waits for the response.
Respond(h) ==
    /\ handler[h] = "taking" /\ left[h] = 0
    /\ handler' = [handler EXCEPT ![h] = "reading"]
    /\ UNCHANGED <<env, flow, loop, sid, nextID, window, controlQ, dataQ, pinging,
                   pings, gwSeq, gwSeen, gwEnd, down, up, wire, agVars, ghosts>>

\* Read takes a chunk of the response and returns its credit.
ReadChunk(h) ==
    /\ handler[h] = "reading" /\ unread[sid[h]] > 0
    /\ unread' = [unread EXCEPT ![sid[h]] = @ - 1]
    /\ handler' = [handler EXCEPT ![h] = "returning"]
    /\ UNCHANGED <<env, left, window, loop, sid, nextID, controlQ, dataQ, pinging,
                   pings, gwSeq, gwSeen, gwEnd, down, up, wire, agVars, ghosts>>

\* The response has ended, is refused, or makes no progress for
\* ResponsePhaseTimeout.  closeStream and errorStream: detach; the terminal
\* frame is sent only by the one that detached the stream.
Terminate(h) ==
    /\ handler[h] = "reading"
    /\ window' = Without(window, sid[h])
    /\ handler' = [handler EXCEPT ![h] = IF sid[h] \in open THEN "closing" ELSE "done"]
    /\ UNCHANGED <<env, flow, loop, sid, nextID, controlQ, dataQ, pinging, pings, gwSeq,
                   gwSeen, gwEnd, down, up, wire, agVars, ghosts>>

\* heartbeatLoop: a tick queues a ping; the loop ends with the session.
Heartbeat ==
    /\ pinging = "idle" /\ pings < env.pings /\ gwEnd = "no"
    /\ Len(controlQ) < ControlSlots
    /\ controlQ' = Append(controlQ, Request("heartbeat", "ping", 0))
    /\ pinging' = "waiting" /\ pings' = pings + 1
    /\ UNCHANGED <<env, flow, loop, handler, sid, nextID, window, dataQ, gwSeq, gwSeen,
                   gwEnd, down, up, wire, agVars, ghosts>>

-----------------------------------------------------------------------------
(* The Gateway's writer and read loop *)

\* failAll and close, for whatever reason: the streams are dropped, done is
\* closed, which ends the writer and answers who waits for it, and the peer
\* will read a close frame.
GatewayEnds(why) == gwEnd' = why /\ window' = <<>> /\ controlQ' = <<>> /\ dataQ' = <<>>

\* What the sender does once its frame is written.
Answered(r) ==
    /\ handler' = IF r.from \in Handlers
                  THEN [handler EXCEPT ![r.from] =
                          CASE r.kind = "open" /\ @ = "openWait" -> "granting"
                            [] r.kind = "grant" /\ @ = "grantWait" -> "taking"
                            [] r.kind = "grant" /\ @ = "returnWait" -> "reading"
                            [] r.kind = "data" /\ @ = "sendWait" -> "taking"
                            [] r.kind = "close" /\ @ = "closeWait" -> "done"
                            [] OTHER -> @]
                  ELSE handler
    /\ pinging' = IF r.kind = "ping" THEN "idle" ELSE pinging
    /\ loop' = IF r.from = "loop" THEN Idle ELSE loop

WriteFrame(r) ==
    /\ gwSeq' = gwSeq + 1
    /\ down' = Append(down, Frame(gwSeq + 1, r.kind, r.id))
    /\ Answered(r)

\* Mutant: an expired control frame has already used its sequence number.
WriteControlLate ==
    /\ gwEnd = "no" /\ wire = "up" /\ Len(down) < WireSlots /\ controlQ # <<>>
    /\ controlQ' = Tail(controlQ)
    /\ IF Head(controlQ).live THEN WriteFrame(Head(controlQ))
       ELSE gwSeq' = gwSeq + 1 /\ UNCHANGED <<handler, pinging, loop, down>>
    /\ UNCHANGED <<env, flow, sid, nextID, window, dataQ, pings, gwSeen, gwEnd, up,
                   wire, agVars, ghosts>>

\* writeLoop on the control queue: an expired frame is dropped before it is
\* given a sequence number.
WriteControl ==
    /\ gwEnd = "no" /\ wire = "up" /\ Len(down) < WireSlots /\ controlQ # <<>>
    /\ controlQ' = Tail(controlQ)
    /\ IF Head(controlQ).live THEN WriteFrame(Head(controlQ))
       ELSE UNCHANGED <<handler, pinging, loop, gwSeq, down>>
    /\ UNCHANGED <<env, flow, sid, nextID, window, dataQ, pings, gwSeen, gwEnd, up,
                   wire, agVars, ghosts>>

\* writeLoop on the data queue, taken when the control queue was seen empty
\* (a control frame may arrive between the two selects) and then held.
WriteData ==
    /\ gwEnd = "no" /\ wire = "up" /\ Len(down) < WireSlots /\ dataQ # <<>>
    /\ dataQ' = Tail(dataQ) /\ WriteFrame(Head(dataQ))
    /\ UNCHANGED <<env, flow, sid, nextID, window, controlQ, pings, gwSeen, gwEnd, up,
                   wire, agVars, ghosts>>

\* writeQueued fails: the transport broke, the peer does not read for
\* WriteTimeout, or the context of a control frame ends while it is being
\* written.  The sender gets the error, the session ends.
WriteFails ==
    /\ gwEnd = "no"
    /\ dataQ # <<>> \/ (controlQ # <<>> /\ Head(controlQ).live)
    /\ GatewayEnds("write failed")
    /\ UNCHANGED <<env, flow, loop, handler, sid, nextID, pinging, pings, gwSeq, gwSeen,
                   down, up, wire, agVars, ghosts>>

\* heartbeatLoop: the ping was not written in time.
HeartbeatFails ==
    /\ gwEnd = "no" /\ pinging = "waiting"
    /\ GatewayEnds("heartbeat write failed")
    /\ UNCHANGED <<env, flow, loop, handler, sid, nextID, pinging, pings, gwSeq, gwSeen,
                   down, up, wire, agVars, ghosts>>

\* handleData: data of a stream that is gone is dropped when its ID was
\* allocated before.
DataTolerated(id) == id # 0 /\ id < nextID

\* run: the next frame, its sequence number, then handleControl or handleData.
\* Data that the stream's queue refuses ends the stream: errorStream.
GatewayReads ==
    /\ gwEnd = "no" /\ loop = Idle /\ up # <<>>
    /\ up' = Tail(up)
    /\ LET f == Head(up)  next == f.seq = gwSeen + 1 IN
       /\ gwSeen' = IF next THEN f.seq ELSE gwSeen
       /\ \/ /\ ~next /\ GatewayEnds("sequence violation")
             /\ UNCHANGED <<unread, loop, gotUp, whole>>
          \/ /\ next /\ f.kind = "data" /\ f.id \in open
             /\ \/ /\ gotUp' = [gotUp EXCEPT ![f.id] = @ + 1]
                   /\ unread' = [unread EXCEPT ![f.id] = @ + 1]
                   /\ UNCHANGED <<window, loop>>
                \/ /\ window' = Without(window, f.id) /\ loop' = [kind |-> "abort", id |-> f.id]
                   /\ UNCHANGED <<unread, gotUp>>
             /\ UNCHANGED <<queues, gwEnd, whole>>
          \/ /\ next /\ f.kind = "data" /\ f.id \notin open
             /\ IF DataTolerated(f.id) THEN UNCHANGED <<window, queues, gwEnd>>
                ELSE GatewayEnds("data violation")
             /\ UNCHANGED <<unread, loop, gotUp, whole>>
          \/ /\ next /\ f.kind \in {"completed", "error", "refused"}
             /\ window' = Without(window, f.id)
             /\ whole' = (whole /\ (f.kind = "completed" /\ f.id \in open
                                    => gotUp[f.id] = env.chunks))
             /\ UNCHANGED <<unread, loop, queues, gwEnd, gotUp>>
          \/ /\ next /\ f.kind = "grant"
             /\ window' = IF f.id \in open THEN [window EXCEPT ![f.id] = @ + 1] ELSE window
             /\ UNCHANGED <<unread, loop, queues, gwEnd, gotUp, whole>>
          \/ /\ next /\ f.kind = "pong"
             /\ UNCHANGED <<window, unread, loop, queues, gwEnd, gotUp, whole>>
    /\ UNCHANGED <<env, left, handler, sid, nextID, pinging, pings, gwSeq, down, wire,
                   agVars, sentUp>>

\* errorStream's stream_error enters the control queue ...
LoopQueues ==
    /\ gwEnd = "no" /\ loop.kind = "abort"
    /\ QueueControl(Request("loop", "abort", loop.id))
    /\ loop' = [loop EXCEPT !.kind = "abortWait"]
    /\ UNCHANGED <<env, flow, handler, sid, nextID, window, pinging, pings, gwSeq,
                   gwSeen, gwEnd, down, up, wire, agVars, ghosts>>

\* ... and the read loop waits for the writer until its deadline.
LoopGivesUp ==
    /\ loop # Idle /\ loop' = Idle
    /\ \E written \in BOOLEAN : controlQ' = Abandon(controlQ, "loop", written)
    /\ UNCHANGED <<env, flow, handler, sid, nextID, window, dataQ, pinging, pings,
                   gwSeq, gwSeen, gwEnd, down, up, wire, agVars, ghosts>>

\* readProtocolFrame fails: the transport broke or the Agent closed it.
GatewayReadFails ==
    /\ gwEnd = "no" /\ loop = Idle
    /\ wire = "broken" \/ (agEnd # "no" /\ up = <<>>)
    /\ GatewayEnds("session ended")
    /\ UNCHANGED <<env, flow, loop, handler, sid, nextID, pinging, pings, gwSeq, gwSeen,
                   down, up, wire, agVars, ghosts>>

\* The connection between the two is lost, with what was in flight.
TransportBreaks ==
    /\ env.breaks /\ wire = "up" /\ wire' = "broken"
    /\ down' = <<>> /\ up' = <<>>
    /\ UNCHANGED <<gwVars, agVars, ghosts>>

-----------------------------------------------------------------------------
(* The Agent's read loop *)

gwSide == <<gwVars, down, up, wire>>
AgentIdle == agEnd = "no" /\ reader = Idle

\* shutdown: the session is closed, with it the writer and the streams.
Shutdown == closed' = TRUE /\ credit' = <<>> /\ agQ' = <<>>

\* run returns and its deferred shutdown closes the session.
AgentEnds(why) == agEnd' = why /\ Shutdown

\* The read loop blocks in sendFrame until the writer answers.
ReaderSends(kind, id) ==
    /\ reader' = [kind |-> kind, id |-> id]
    /\ agQ' = Append(agQ, Request("reader", kind, id))

\* What inbound.Accept refuses.
OutOfSequence == down # <<>> /\ Head(down).seq # agSeen + 1

AgentTakes(kinds) ==
    /\ AgentIdle /\ ~closed /\ down # <<>> /\ Head(down).kind \in kinds
    /\ agSeen' = agSeen + 1 /\ down' = Tail(down)
    /\ UNCHANGED <<gwVars, up, wire, agSeq, consumer, server, ghosts>>

\* handleStreamOpen: IDs must increase; a full Agent refuses the stream, and
\* an accepted one is granted its window before it is served.
AgentOpens ==
    /\ AgentTakes({"open"})
    /\ LET id == Head(down).id IN
       IF id <= maxID
       THEN AgentEnds("order") /\ UNCHANGED <<maxID, taken, terminal, reader>>
       ELSE /\ maxID' = id
            /\ IF Cardinality(serving) >= AgentStreams
               THEN ReaderSends("refused", id) /\ UNCHANGED credit
               ELSE ReaderSends("grant", id) /\ credit' = credit @@ (id :> 0)
            /\ UNCHANGED <<taken, terminal, closed, agEnd>>

\* handleControl: ping is answered with pong.
AgentPongs ==
    /\ AgentTakes({"ping"}) /\ ReaderSends("pong", 0)
    /\ UNCHANGED <<maxID, taken, credit, terminal, closed, agEnd>>

\* handleControl: stream_window_update opens the window of a stream still served.
AgentCredited ==
    /\ AgentTakes({"grant"})
    /\ LET id == Head(down).id IN
       credit' = IF id \in serving THEN [credit EXCEPT ![id] = @ + 1] ELSE credit
    /\ UNCHANGED <<maxID, taken, terminal, reader, agQ, closed, agEnd>>

\* finishStreamFromPeer: consumes the terminal Once, which waits for a server
\* that is inside it, so the stream's own terminal frame cannot follow.
AgentCloses ==
    /\ AgentTakes({"close", "abort"})
    /\ LET id == Head(down).id IN
       /\ id \in serving => server[id] # "ending"
       /\ terminal' = IF id \in serving THEN terminal \cup {id} ELSE terminal
       /\ credit' = Without(credit, id)
    /\ UNCHANGED <<maxID, taken, reader, agQ, closed, agEnd>>

\* handleData: enqueued, or dropped for a stream that has ended, or, when the
\* stream's budget is exhausted, answered with the stream's terminal error.
AgentData ==
    /\ AgentTakes({"data"})
    /\ LET id == Head(down).id IN
       \/ /\ id \in serving
          /\ taken' = [taken EXCEPT ![id] = @ + 1]
          /\ UNCHANGED <<maxID, credit, terminal, reader, agQ, closed, agEnd>>
       \/ /\ id \in serving /\ server[id] # "ending"
          /\ IF id \in terminal
             THEN credit' = Without(credit, id) /\ UNCHANGED <<terminal, reader, agQ>>
             ELSE /\ terminal' = terminal \cup {id} /\ ReaderSends("error", id)
                  /\ UNCHANGED credit
          /\ UNCHANGED <<maxID, taken, closed, agEnd>>
       \/ /\ id \notin serving
          /\ IF id # 0 /\ id <= maxID THEN UNCHANGED <<credit, agQ, closed, agEnd>>
             ELSE AgentEnds("unknown stream")
          /\ UNCHANGED <<maxID, taken, terminal, reader>>

\* inbound.Accept refuses the frame, which ends the session.
AgentRefuses ==
    /\ AgentIdle /\ ~closed /\ AgentEnds("sequence")
    /\ UNCHANGED <<gwSide, agSeq, agSeen, maxID, intake, server, terminal,
                   reader, ghosts>>

\* readAgentFrame fails: the transport broke, the writer closed the session,
\* or the Gateway's close frame was read.
AgentReadFails ==
    /\ AgentIdle
    /\ \/ (wire = "broken" \/ closed) /\ AgentEnds("transport")
       \/ gwEnd # "no" /\ down = <<>> /\ AgentEnds(gwEnd)
    /\ UNCHANGED <<gwSide, agSeq, agSeen, maxID, intake, server, terminal,
                   reader, ghosts>>

\* The blocked send of the read loop returns an error: its own deadline, or
\* the session was closed under it.  A failed terminal frame is ignored.
ReaderFails ==
    /\ agEnd = "no" /\ reader # Idle
    /\ reader' = Idle
    /\ IF reader.kind = "error"
       THEN /\ credit' = Without(credit, reader.id) /\ UNCHANGED <<closed, agEnd>>
            /\ agQ' = [i \in DOMAIN agQ |-> IF agQ[i].from = "reader"
                                            THEN [agQ[i] EXCEPT !.live = FALSE] ELSE agQ[i]]
       ELSE AgentEnds(IF closed THEN "writer closed" ELSE "deadline")
    /\ UNCHANGED <<gwSide, agSeq, agSeen, maxID, intake, server, terminal,
                   ghosts>>

-----------------------------------------------------------------------------
(* The Agent's stream servers and writer *)

\* serveStream has read a chunk from the local target; sendBytes takes window
\* credit for it.
ServerReads(id) ==
    /\ server[id] = "running" /\ id \in serving /\ sentUp[id] < env.chunks
    /\ sentUp' = [sentUp EXCEPT ![id] = @ + 1]
    /\ server' = [server EXCEPT ![id] = "taking"]
    /\ UNCHANGED <<gwSide, agSeq, agSeen, maxID, intake, credit, terminal, reader, agQ,
                   closed, agEnd, gotUp, whole>>

\* window.Take returns and the chunk is queued.
ServerSends(id) ==
    /\ server[id] = "taking" /\ id \in serving /\ credit[id] > 0
    /\ credit' = [credit EXCEPT ![id] = @ - 1]
    /\ agQ' = Append(agQ, Request("server", "data", id))
    /\ server' = [server EXCEPT ![id] = "sendWait"]
    /\ UNCHANGED <<gwSide, agSeq, agSeen, maxID, intake, terminal, reader,
                   closed, agEnd, ghosts>>

\* sendBytes fails: the stream was cancelled or the session closed; once the
\* frame is queued also on the deadline, and then it is written all the same.
\* window.Take has no deadline of its own.
ServerSendFails(id) ==
    /\ server[id] = "sendWait" \/ (server[id] = "taking" /\ id \notin serving)
    /\ server' = [server EXCEPT ![id] = "failed"]
    /\ UNCHANGED <<gwSide, agSeq, agSeen, maxID, intake, credit, terminal, reader, agQ,
                   closed, agEnd, ghosts>>

Ends(id, kinds) ==
    /\ server[id] \in {"running", "failed"}
    /\ IF id \in serving /\ id \notin terminal
       THEN /\ terminal' = terminal \cup {id}
            /\ \E kind \in kinds : agQ' = Append(agQ, Request("server", kind, id))
            /\ server' = [server EXCEPT ![id] = "ending"] /\ UNCHANGED credit
       ELSE /\ server' = [server EXCEPT ![id] = "done"]
            /\ credit' = Without(credit, id) /\ UNCHANGED <<terminal, agQ>>
    /\ UNCHANGED <<gwSide, agSeq, agSeen, maxID, intake, reader, closed, agEnd,
                   ghosts>>
EOF(id) == server[id] = "running" /\ sentUp[id] = env.chunks
Outcomes(id) == IF EOF(id) THEN {"completed", "error"} ELSE {"error"}

\* Mutant: a failed tunnel write ends like the target's EOF.
ServerEndsBlind(id) ==
    Ends(id, IF server[id] = "failed" THEN {"completed"} ELSE Outcomes(id))

\* serveStream's end: nothing is sent when the peer closed or the terminal
\* was used; otherwise completed on EOF, and an error for a failed dial, a
\* failed local read or a failed tunnel write.
ServerEnds(id) == Ends(id, Outcomes(id))

\* The terminal frame was not written in time, or the session closed.
TerminalFails(id) ==
    /\ server[id] = "ending"
    /\ server' = [server EXCEPT ![id] = "done"] /\ credit' = Without(credit, id)
    /\ agQ' = [i \in DOMAIN agQ |-> IF agQ[i].from = "server" /\ agQ[i].id = id /\ agQ[i].kind # "data"
                                    THEN [agQ[i] EXCEPT !.live = FALSE] ELSE agQ[i]]
    /\ UNCHANGED <<gwSide, agSeq, agSeen, maxID, intake, terminal, reader,
                   closed, agEnd, ghosts>>

\* writeLocal: the target has taken a frame of the request, whose credit goes
\* back to the Gateway.
Consume(id) ==
    /\ consumer[id] = "on" /\ id \in serving /\ taken[id] > 0
    /\ taken' = [taken EXCEPT ![id] = @ - 1]
    /\ consumer' = [consumer EXCEPT ![id] = "granting"]
    /\ agQ' = Append(agQ, Request("consumer", "grant", id))
    /\ UNCHANGED <<gwSide, agSeq, agSeen, maxID, credit, server, terminal, reader,
                   closed, agEnd, ghosts>>

\* The credit was not written in time, or the session closed: writeLocal ends.
ConsumeFails(id) ==
    /\ consumer[id] = "granting" /\ consumer' = [consumer EXCEPT ![id] = "off"]
    /\ agQ' = [i \in DOMAIN agQ |-> IF agQ[i].from = "consumer" /\ agQ[i].id = id
                                    THEN [agQ[i] EXCEPT !.live = FALSE] ELSE agQ[i]]
    /\ UNCHANGED <<gwSide, agSeq, agSeen, maxID, taken, credit, server, terminal,
                   reader, closed, agEnd, ghosts>>

\* What the sender of r does when it was written.
AgentAnswered(r) ==
    CASE r.from = "reader" ->
         /\ reader' = Idle
         /\ credit' = IF r.kind = "error" THEN Without(credit, r.id) ELSE credit
         /\ IF r.kind = "grant"
            THEN /\ server' = [server EXCEPT ![r.id] = "running"]
                 /\ consumer' = [consumer EXCEPT ![r.id] = "on"]
            ELSE UNCHANGED <<server, consumer>>
      [] r.from = "consumer" ->
         /\ consumer' = [consumer EXCEPT ![r.id] = "on"]
         /\ UNCHANGED <<reader, credit, server>>
      [] r.from = "server" ->
         /\ UNCHANGED <<reader, consumer>>
         /\ server' = [server EXCEPT ![r.id] =
                CASE r.kind = "data" /\ @ = "sendWait" -> "running"
                  [] r.kind # "data" -> "done" [] OTHER -> @]
         /\ credit' = IF r.kind = "data" THEN credit ELSE Without(credit, r.id)

\* writeLoop: the oldest accepted request; an expired control frame is
\* dropped, data is written whatever became of its sender.
AgentWrites ==
    /\ ~closed /\ wire = "up" /\ Len(up) < WireSlots /\ agQ # <<>>
    /\ agQ' = Tail(agQ)
    /\ LET r == Head(agQ) IN
       IF r.live
       THEN /\ agSeq' = agSeq + 1 /\ up' = Append(up, Frame(agSeq + 1, r.kind, r.id))
            /\ AgentAnswered(r)
       ELSE UNCHANGED <<agSeq, up, reader, credit, server, consumer>>
    /\ UNCHANGED <<gwVars, down, wire, agSeen, maxID, taken, terminal, closed,
                   agEnd, ghosts>>

\* writeQueued fails, on the transport or because the frame's context ended
\* while it was being written: the sender gets the error, and shutdown closes
\* the session under everyone else who waits.
AgentWriteFails ==
    /\ ~closed /\ agQ # <<>> /\ Head(agQ).live
    /\ Shutdown
    /\ reader' = IF Head(agQ).from = "reader" THEN Idle ELSE reader
    /\ agEnd' = IF Head(agQ).from = "reader" /\ Head(agQ).kind # "error" THEN "transport" ELSE agEnd
    /\ UNCHANGED <<gwSide, agSeq, agSeen, maxID, intake, server, terminal,
                   ghosts>>

-----------------------------------------------------------------------------
HandlerStep(h) == \/ Queue(h) \/ GiveUp(h) \/ Take(h) \/ TakeFails(h)
                  \/ Respond(h) \/ ReadChunk(h) \/ Terminate(h)
GatewayIO == \/ WriteControl \/ WriteData \/ WriteFails \/ GatewayReads \/ GatewayReadFails
AgentRead == \/ IF OutOfSequence THEN AgentRefuses
                ELSE AgentOpens \/ AgentPongs \/ AgentCredited \/ AgentCloses \/ AgentData
             \/ AgentReadFails
ServerStep(id) == ServerReads(id) \/ ServerSends(id) \/ ServerSendFails(id) \/ ServerEnds(id) \/ TerminalFails(id)

Next ==
    \/ \E h \in Handlers : OpenStream(h) \/ OpenRefused(h) \/ HandlerStep(h) \/ ClientLeaves(h)
    \/ LoopQueues \/ LoopGivesUp \/ Heartbeat \/ HeartbeatFails \/ GatewayIO \/ TransportBreaks
    \/ AgentRead \/ ReaderFails \/ AgentWrites \/ AgentWriteFails
    \/ \E id \in IDs : ServerStep(id) \/ Consume(id) \/ ConsumeFails(id)

\* Goroutines run, writes and reads return, and every wait has a deadline but
\* those for credit: nothing makes the target take the request, the client
\* leave, or a reading handler keep reading.
Fairness ==
    /\ \A h \in Handlers : WF_vars(OpenStream(h) \/ OpenRefused(h)) /\ WF_vars(HandlerStep(h))
    /\ WF_vars(GatewayIO) /\ WF_vars(LoopQueues \/ LoopGivesUp) /\ WF_vars(AgentRead)
    /\ WF_vars(ReaderFails \/ AgentWrites \/ AgentWriteFails)
    /\ \A id \in IDs : WF_vars(ServerStep(id)) /\ WF_vars(ConsumeFails(id))

Spec == Init /\ [][Next]_vars /\ Fairness

-----------------------------------------------------------------------------
(* Properties *)

\* The types of the variables; neither queue of the writer exceeds its slots.
TypeOK ==
    /\ handler \in [Handlers -> {"idle", "taking", "reading", "done"} \cup Sending]
    /\ left \in [Handlers -> 0..env.body] /\ loop.kind \in {"none", "abort", "abortWait"}
    /\ window \in [open -> Nat] /\ unread \in [IDs -> Nat] /\ credit \in [serving -> Nat]
    /\ taken \in [IDs -> Nat] /\ consumer \in [IDs -> {"on", "granting", "off"}]
    /\ sid \in [Handlers -> 0..(IDLimit - 1)] /\ nextID \in 0..(IDLimit - 1)
    /\ open \subseteq IDs /\ serving \subseteq IDs /\ terminal \subseteq IDs
    /\ server \in [IDs -> {"none", "running", "taking", "sendWait", "failed", "ending", "done"}]
    /\ Len(controlQ) <= ControlSlots /\ Len(dataQ) <= DataSlots
    /\ maxID \in 0..(IDLimit - 1) /\ pings \in 0..env.pings

\* Neither end, both running this code, is ever blamed for a protocol
\* violation by the other's sequence check or data check: expired frames
\* leave no gap in the sequence, and data of an ended stream is tolerated.
HealthyPeersNeverViolate ==
    /\ gwEnd \notin {"sequence violation", "data violation"}
    /\ agEnd \notin {"sequence", "unknown stream"}

\* A response reported as completed has arrived whole at the Gateway, unless
\* the Gateway had ended the stream itself (quality-enforcement-map.md: a
\* truncated response is never reported as completed).
CompletedMeansWhole == whole

\* No handler's terminal frame overtakes the data it sent before on the way to
\* the Agent (sendFrame lines 749-753), in the writer's queues or on the wire.
\* The read loop's stream_error, for a stream whose queue is full, may.
TerminalAfterOwnData ==
    /\ \A i, j \in DOMAIN down :
          i < j /\ down[i].kind = "close" /\ down[j].kind = "data" => down[i].id # down[j].id
    /\ gwEnd = "no" => \A i \in DOMAIN dataQ : handler[dataQ[i].from] = "sendWait"

TerminalsSent(id) ==
    Cardinality({i \in DOMAIN up : up[i].id = id /\ up[i].kind \in {"completed", "error"}})
    + Cardinality({i \in DOMAIN agQ : agQ[i].id = id /\ agQ[i].live /\ agQ[i].kind \in {"completed", "error"}})

\* The Agent ends each stream at most once: it never sends two terminal
\* frames for it, and none after the Gateway's own (agent.md: "exactly one
\* terminal frame").
OneTerminalPerStream == \A id \in IDs : TerminalsSent(id) <= 1

\* The end of a stream, as either peer sees it, is its one end, follows the
\* data and is not called complete when data is missing.
EndsAreTrue == CompletedMeansWhole /\ TerminalAfterOwnData /\ OneTerminalPerStream

\* A sender that only credit holds up: its stream is open and the peer has not
\* paid for the next frame.  A handler's credit is with the target, unless
\* the Agent no longer serves the stream or has stopped returning credit.
AwaitsAgent(h) == /\ handler[h] = "taking" /\ left[h] > 0
                  /\ gwEnd = "no" /\ sid[h] \in open /\ window[sid[h]] = 0
                  /\ sid[h] \in serving /\ consumer[sid[h]] = "on" => taken[sid[h]] > 0
AwaitsGateway(id) == server[id] = "taking" /\ ~closed /\ id \in serving /\ credit[id] = 0

\* Whatever the peer, the writers, the read loops and the transport do, every
\* handler returns and every stream server ends, except those that wait for
\* credit on a stream that is still open (window.Take has no deadline): no
\* send, full queue, lost update or ended session or stream holds one up for
\* good.
AllReturn ==
    /\ \A h \in Handlers : <>[](handler[h] = "done" \/ AwaitsAgent(h))
    /\ \A id \in IDs : <>[](server[id] \in {"none", "done"} \/ AwaitsGateway(id))

\* What docs/runtime/agent.md says of streams: each one ends.
StreamsEnd == \A id \in IDs : server[id] = "running" ~> server[id] = "done"

\* What docs/runtime/agent.md says of stream IDs: the Agent is given strictly
\* increasing ones.
OpensInOrder == agEnd # "order"

\* What docs/runtime/agent.md says of a lost connection: the Agent reconnects.
\* permanentRemoteSessionError ends the Agent for every error that is neither
\* a close code it knows nor a transport error.
Permanent(why) == why \in {"order", "unknown stream", "sequence", "writer closed",
                           "sequence violation", "data violation"}
ConnectionLossReconnects == wire = "broken" => ~Permanent(agEnd)
=============================================================================
