--------------------------- MODULE GatewayStream ---------------------------
(***************************************************************************)
(* The Gateway's side of the streams of one Agent session: the queue of    *)
(* response payloads between the session's read loop and the ingress       *)
(* handlers, the three byte budgets that bound it, and the teardown of a   *)
(* stream from whichever side ends it first.                               *)
(*                                                                         *)
(* Goroutines: the session's read loop (run); per stream the handler that  *)
(* opened it and passes on what the client sends, and the reader that      *)
(* calls Read or ReadDatagram (for HTTP the handler itself, once the       *)
(* request is sent); for a public UDP flow a watcher that closes the       *)
(* stream when its context ends; and whoever calls failAll from outside    *)
(* the read loop (heartbeat, authorization expiry, writer, replacement,    *)
(* shutdown).  The session speaks protocol v2.                             *)
(*                                                                         *)
(* A critical section under queueMu or the session's mu is one step.  The  *)
(* exception is finish: it holds queueMu while it drains the channel one   *)
(* payload at a time, and Read receives from that channel without queueMu. *)
(***************************************************************************)
EXTENDS Integers, FiniteSets, SequencesExt

CONSTANTS
    Streams,
    None,            \* no stream
    MaxStreams,      \* MaxStreamsPerSession
    Slots,           \* capacity of a stream's channel
    StreamBytes, SessionBytes, GlobalBytes,
    Elsewhere,       \* global budget in use by other sessions
    Sizes,           \* payload sizes the Agent sends
    Scenarios        \* bound: the kinds of the streams, the payloads the Agent
                     \* sends on each, and whether the session may fail

ASSUME StreamLimits ==
    /\ None \notin Streams
    /\ Sizes \subseteq Nat \ {0} /\ Slots \in Nat \ {0}
    /\ StreamBytes <= SessionBytes /\ SessionBytes <= GlobalBytes
    /\ Elsewhere \in 0..GlobalBytes
    /\ Scenarios \subseteq [kind : [Streams -> {"http", "tcp", "udp",
                                              "connector", "connector-udp"}],
                            chunks : Nat, fails : BOOLEAN]

VARIABLES
    scenario,     \* the member of Scenarios this behaviour is about
    inMap,        \* sess.streams: the streams frames are routed to
    handler,      \* per stream, where its handler is
    watcher,      \* per UDP flow, where the closing watcher is
    reader,       \* per stream, where Read is
    hold,         \* payloads Read has received and not yet accounted for
    incoming,     \* the stream's channel
    fin,          \* finish: "no", "draining" (queueMu held) or "done"
    moving,       \* payloads finish has drained so far
    tail,         \* terminalBuffer or terminalPackets
    terminalErr,  \* the error finish recorded
    used, sessionUsed, globalUsed,
    run,          \* read loop: its step, the stream and payload it works on
    failing,      \* failAll: "no", "finishing" or "done"
    doomed,       \* streams failAll took out of the map
    done,         \* has the session signalled its end (sess.done)?
    received,     \* payloads the Agent has sent, per stream
    accepted,     \* payloads the queue took, per stream
    delivered,    \* payloads handed to the client, per stream, in order
    ended         \* has the Agent ended the stream: "no", "half" or "yes"?

budgets == <<used, sessionUsed, globalUsed>>
queueVars == <<incoming, fin, moving, tail, terminalErr>>
agentVars == <<received, accepted, ended>>
failVars == <<failing, doomed, done>>
sessionVars == <<inMap, handler, watcher, reader, hold, queueVars, budgets,
                 run, failVars, agentVars, delivered>>
streamvars == <<scenario, sessionVars>>

Idle == [pc |-> "idle", s |-> None, size |-> 0, err |-> "none"]

Plus(a, b) == a + b
Size(seq) == FoldLeft(Plus, 0, [i \in DOMAIN seq |-> seq[i].size])
Ids(seq) == [i \in DOMAIN seq |-> seq[i].id]

Kind(s) == scenario.kind[s]

(* The tail of a UDP flow goes out packet by packet.                       *)
Datagrams == {s \in Streams : Kind(s) \in {"udp", "connector-udp"}}

Stopped == {"eof", "err", "cancelled"}   \* the reader has returned

Each(v) == [s \in Streams |-> v]

StreamInit ==
    /\ scenario \in Scenarios
    /\ inMap = {} /\ handler = Each("new") /\ watcher = Each("off")
    /\ reader = Each("off") /\ hold = Each(<<>>)
    /\ incoming = Each(<<>>) /\ fin = Each("no") /\ moving = Each(<<>>)
    /\ tail = Each(<<>>) /\ terminalErr = Each("none")
    /\ used = Each(0) /\ sessionUsed = 0 /\ globalUsed = Elsewhere
    /\ run = Idle /\ failing = "no" /\ doomed = {} /\ done = FALSE
    /\ received = Each(0) /\ accepted = Each(0) /\ delivered = Each(<<>>)
    /\ ended = Each("no")

Acquire(s, n) ==
    /\ used' = [used EXCEPT ![s] = @ + n]
    /\ sessionUsed' = sessionUsed + n
    /\ globalUsed' = globalUsed + n

ReleaseQueued(s, n) ==
    /\ used' = [used EXCEPT ![s] = @ - n]
    /\ sessionUsed' = sessionUsed - n
    /\ globalUsed' = globalUsed - n

(* releaseQueuedChunks: what is left in the channel is dropped.            *)
ReleaseQueuedChunks(s) ==
    /\ ReleaseQueued(s, Size(incoming[s]))
    /\ incoming' = [incoming EXCEPT ![s] = <<>>]
    /\ UNCHANGED <<fin, moving, tail, terminalErr>>

(* The first caller of finish enters it; later callers wait in finishOnce. *)
BeginFinish(s, err) ==
    /\ fin[s] = "no"
    /\ fin' = [fin EXCEPT ![s] = "draining"]
    /\ terminalErr' = [terminalErr EXCEPT ![s] = err]
    /\ UNCHANGED <<incoming, moving, tail, budgets>>

(* One receive of finish's drain loop.                                     *)
FinishDrain(s) ==
    /\ fin[s] = "draining" /\ incoming[s] # <<>>
    /\ moving' = [moving EXCEPT ![s] = Append(@, Head(incoming[s]))]
    /\ incoming' = [incoming EXCEPT ![s] = Tail(@)]
    /\ UNCHANGED <<inMap, handler, watcher, reader, hold, fin, tail,
                   terminalErr, budgets, run, failVars, agentVars, delivered>>

(* Mutant: finish throws the drained payloads away.                        *)
FinishLosesTail(s) ==
    /\ fin[s] = "draining" /\ incoming[s] = <<>>
    /\ fin' = [fin EXCEPT ![s] = "done"]
    /\ moving' = [moving EXCEPT ![s] = <<>>]
    /\ UNCHANGED <<inMap, handler, watcher, reader, hold, incoming, tail,
                   terminalErr, budgets, run, failVars, agentVars, delivered>>

(* The channel is empty: publish the tail and close(terminal).             *)
FinishPublish(s) ==
    /\ fin[s] = "draining" /\ incoming[s] = <<>>
    /\ fin' = [fin EXCEPT ![s] = "done"]
    /\ tail' = [tail EXCEPT ![s] = moving[s]]
    /\ moving' = [moving EXCEPT ![s] = <<>>]
    /\ UNCHANGED <<inMap, handler, watcher, reader, hold, incoming,
                   terminalErr, budgets, run, failVars, agentVars, delivered>>
----------------------------------------------------------------------------
(* The handler: openStreamTarget, serving, closeStream, discardRetained.   *)

At(s, from, to) == handler[s] = from /\ handler' = [handler EXCEPT ![s] = to]

HandlerFrame ==
    UNCHANGED <<watcher, hold, run, failVars, agentVars, delivered>>

OpenTarget(s) ==
    /\ At(s, "new", "sending")
    /\ Cardinality(inMap) < MaxStreams
    /\ inMap' = inMap \cup {s}
    /\ UNCHANGED <<reader, queueVars, budgets>> /\ HandlerFrame

(* The writer puts stream_open on the tunnel; the first grant follows.     *)
Announced(s) ==
    /\ At(s, "sending", "granting")
    /\ ~done
    /\ UNCHANGED <<inMap, reader, queueVars, budgets>> /\ HandlerFrame

Opened(s) ==
    /\ At(s, "granting", "serving")
    /\ ~done
    /\ reader' = [reader EXCEPT ![s] = IF Kind(s) = "http" THEN @ ELSE "read"]
    /\ UNCHANGED <<inMap, queueVars, budgets>> /\ HandlerFrame

(* Sending stream_open or the first grant fails: the session is gone or    *)
(* the context ended while the frame was queued or just written.           *)
OpenFails(s) ==
    /\ handler[s] \in {"sending", "granting"}
    /\ inMap' = inMap \ {s}
    /\ handler' = [handler EXCEPT ![s] =
                     IF s \in inMap THEN "open-finish" ELSE "failed"]
    /\ UNCHANGED <<reader, queueVars, budgets>> /\ HandlerFrame

OpenFinish(s) ==
    /\ \/ /\ handler[s] = "open-finish" /\ BeginFinish(s, "err")
          /\ UNCHANGED handler
       \/ /\ At(s, "open-finish", "failed") /\ fin[s] = "done"
          /\ ReleaseQueuedChunks(s)
    /\ UNCHANGED <<inMap, reader>> /\ HandlerFrame

(* What the client sends has been passed on to its end: the request is     *)
(* written and HTTP starts to read, or the client's half-close is sent.    *)
UploadEnds(s) ==
    /\ s \notin Datagrams
    /\ At(s, "serving", "waiting")
    /\ reader' = [reader EXCEPT ![s] = IF Kind(s) = "http" THEN "read" ELSE @]
    /\ UNCHANGED <<inMap, queueVars, budgets>> /\ HandlerFrame

(* The client errs or is silent for too long, the context ends, or the     *)
(* stream takes no more: the handler cancels the stream's context.         *)
UploadFails(s) ==
    /\ At(s, "serving", "cancelling")
    /\ UNCHANGED <<inMap, reader, queueVars, budgets>> /\ HandlerFrame

(* When UploadFails is bound to come.  sendBytes fails on a stream that    *)
(* has left the map, and the client is read with a deadline; a public      *)
(* reader that fails cancels the handler's context.  The reader of a       *)
(* connector cancels nothing, and sendDatagram does not look at the map.   *)
MustStop(s) ==
    \/ s \notin inMap /\ s \notin Datagrams
    \/ Kind(s) = "tcp" /\ reader[s] \in {"err", "cancelled"}
    \/ Kind(s) = "udp" /\ reader[s] \in Stopped

(* The handler returns once its reader has stopped ...                     *)
HandlerEnds(s) ==
    /\ handler[s] \in {"waiting", "cancelling"}
    /\ reader[s] \in Stopped \cup {"off"}
    /\ handler' = [handler EXCEPT ![s] = "close"]
    /\ UNCHANGED <<inMap, reader, queueVars, budgets>> /\ HandlerFrame

(* ... but a connector's handler waits for it no longer than IdleTimeout   *)
(* after the client's half-close.                                          *)
HandlerAbandons(s) ==
    /\ Kind(s) = "connector"
    /\ At(s, "waiting", "close")
    /\ UNCHANGED <<inMap, reader, queueVars, budgets>> /\ HandlerFrame

(* closeStream: detachStream takes the stream out of the map ...           *)
HandlerDetach(s) ==
    /\ handler[s] = "close"
    /\ inMap' = inMap \ {s}
    /\ handler' = [handler EXCEPT ![s] =
                     IF s \in inMap THEN "finish" ELSE "discard"]
    /\ UNCHANGED <<reader, queueVars, budgets>> /\ HandlerFrame

(* ... and finishes it.                                                    *)
HandlerFinish(s) ==
    /\ \/ /\ handler[s] = "finish" /\ BeginFinish(s, "eof")
          /\ UNCHANGED handler
       \/ /\ At(s, "finish", "discard") /\ fin[s] = "done"
          /\ ReleaseQueuedChunks(s)
    /\ UNCHANGED <<inMap, reader>> /\ HandlerFrame

HandlerDiscardQueue(s) ==
    /\ At(s, "discard", "discard-tail")
    /\ ReleaseQueuedChunks(s)
    /\ UNCHANGED <<inMap, reader>> /\ HandlerFrame

HandlerDiscardTail(s) ==
    /\ At(s, "discard-tail", "gone")
    /\ fin[s] # "draining"
    /\ ReleaseQueued(s, Size(tail[s]))
    /\ tail' = [tail EXCEPT ![s] = <<>>]
    /\ UNCHANGED <<inMap, reader, incoming, fin, moving, terminalErr>>
    /\ HandlerFrame

(* The watcher of a public UDP flow calls closeStream when the flow's      *)
(* context ends, concurrently with its reader.                             *)
WatcherDetach(s) ==
    /\ Kind(s) = "udp" /\ watcher[s] = "off"
    /\ handler[s] \in {"serving", "cancelling", "close"}
    /\ inMap' = inMap \ {s}
    /\ watcher' = [watcher EXCEPT ![s] =
                     IF s \in inMap THEN "finish" ELSE "gone"]
    /\ UNCHANGED <<handler, reader, hold, queueVars, budgets, run, failVars,
                   agentVars, delivered>>

WatcherFinish(s) ==
    /\ watcher[s] = "finish"
    /\ \/ BeginFinish(s, "eof") /\ UNCHANGED watcher
       \/ /\ fin[s] = "done" /\ ReleaseQueuedChunks(s)
          /\ watcher' = [watcher EXCEPT ![s] = "gone"]
    /\ UNCHANGED <<inMap, handler, reader, hold, run, failVars, agentVars,
                   delivered>>
----------------------------------------------------------------------------
(* The reader: Read and ReadDatagram.                                      *)

ReaderFrame ==
    UNCHANGED <<inMap, handler, watcher, run, failVars, agentVars>>

Receive(s) ==
    /\ incoming[s] # <<>>
    /\ hold' = [hold EXCEPT ![s] = <<Head(incoming[s])>>]
    /\ incoming' = [incoming EXCEPT ![s] = Tail(@)]
    /\ reader' = [reader EXCEPT ![s] = "release"]
    /\ UNCHANGED <<fin, moving, tail, terminalErr, budgets, delivered>>

(* The first, non-blocking receive.                                        *)
ReadPoll(s) ==
    /\ reader[s] = "read"
    /\ \/ Receive(s)
       \/ /\ incoming[s] = <<>>
          /\ reader' = [reader EXCEPT ![s] = "check"]
          /\ UNCHANGED <<hold, queueVars, budgets, delivered>>
    /\ ReaderFrame

(* Under queueMu: the retained tail, the terminal error, or go and wait.   *)
ReadCheck(s) ==
    /\ reader[s] = "check" /\ fin[s] # "draining"
    /\ \/ /\ fin[s] = "no"
          /\ reader' = [reader EXCEPT ![s] = "wait"]
          /\ UNCHANGED <<hold, tail>>
       \/ /\ fin[s] = "done" /\ tail[s] # <<>>
          /\ reader' = [reader EXCEPT ![s] = "release"]
          /\ LET n == IF s \in Datagrams THEN 1 ELSE Len(tail[s]) IN
             /\ hold' = [hold EXCEPT ![s] = SubSeq(tail[s], 1, n)]
             /\ tail' = [tail EXCEPT ![s] = SubSeq(@, n + 1, Len(@))]
       \/ /\ fin[s] = "done" /\ tail[s] = <<>>
          /\ reader' = [reader EXCEPT ![s] = terminalErr[s]]
          /\ UNCHANGED <<hold, tail>>
    /\ UNCHANGED <<incoming, fin, moving, terminalErr, budgets, delivered>>
    /\ ReaderFrame

(* Mutant: the select does not watch the terminal channel.                 *)
ReadIgnoresTerminal(s) == reader[s] = "wait" /\ Receive(s) /\ ReaderFrame

(* The blocking select: a payload, the closed terminal channel, or the     *)
(* request's context.                                                      *)
ReadWake(s) ==
    /\ reader[s] = "wait"
    /\ \/ Receive(s)
       \/ /\ fin[s] = "done"
          /\ reader' = [reader EXCEPT ![s] = "read"]
          /\ UNCHANGED <<hold, queueVars, budgets, delivered>>
    /\ ReaderFrame

(* The stream's context ends, or the client can take no more bytes.        *)
ReadCancelled(s) ==
    /\ reader[s] \in {"wait", "read"}
    /\ reader' = [reader EXCEPT ![s] = "cancelled"]
    /\ UNCHANGED <<hold, queueVars, budgets, delivered>> /\ ReaderFrame

(* Mutant: a delivered payload stays reserved.                             *)
ReadKeepsReservation(s) ==
    /\ reader[s] = "release"
    /\ delivered' = [delivered EXCEPT ![s] = @ \o Ids(hold[s])]
    /\ hold' = [hold EXCEPT ![s] = <<>>]
    /\ reader' = [reader EXCEPT ![s] = "read"]
    /\ UNCHANGED <<queueVars, budgets>> /\ ReaderFrame

ReadRelease(s) ==
    /\ reader[s] = "release"
    /\ ReleaseQueued(s, Size(hold[s]))
    /\ delivered' = [delivered EXCEPT ![s] = @ \o Ids(hold[s])]
    /\ hold' = [hold EXCEPT ![s] = <<>>]
    /\ reader' = [reader EXCEPT ![s] = "read"]
    /\ UNCHANGED queueVars /\ ReaderFrame
----------------------------------------------------------------------------
(* The session's read loop.                                                *)

RunFrame ==
    UNCHANGED <<handler, watcher, reader, hold, failVars, delivered>>

Known(s) == handler[s] \notin {"new", "sending"}

(* handleData, first half: the stream is looked up under sess.mu.          *)
RunData(s, n) ==
    /\ run = Idle /\ Known(s) /\ ended[s] = "no" /\ received[s] < scenario.chunks
    /\ received' = [received EXCEPT ![s] = @ + 1]
    /\ run' = IF s \in inMap
              THEN [pc |-> "enqueue", s |-> s, size |-> n, err |-> "err"]
              ELSE Idle
    /\ UNCHANGED <<inMap, queueVars, budgets, accepted, ended>> /\ RunFrame

(* A datagram beyond MaxUDPDatagram: errorStream at once.                  *)
RunOversize(s) ==
    /\ run = Idle /\ Known(s) /\ ended[s] = "no" /\ received[s] < scenario.chunks
    /\ s \in Datagrams /\ s \in inMap
    /\ received' = [received EXCEPT ![s] = @ + 1]
    /\ run' = [pc |-> "detach", s |-> s, size |-> 0, err |-> "err"]
    /\ UNCHANGED <<inMap, queueVars, budgets, accepted, ended>> /\ RunFrame

Fits(s, n) ==
    /\ used[s] + n <= StreamBytes
    /\ sessionUsed + n <= SessionBytes
    /\ globalUsed + n <= GlobalBytes
    /\ Len(incoming[s]) < Slots

(* handleData, second half: enqueue under queueMu, or errorStream.         *)
RunEnqueue ==
    LET s == run.s IN
    /\ run.pc = "enqueue" /\ fin[s] # "draining"
    /\ \/ /\ fin[s] = "no" /\ Fits(s, run.size)
          /\ Acquire(s, run.size)
          /\ incoming' = [incoming EXCEPT ![s] =
                            Append(@, [id |-> received[s], size |-> run.size])]
          /\ accepted' = [accepted EXCEPT ![s] = @ + 1]
          /\ run' = Idle
       \/ /\ fin[s] = "done" \/ ~Fits(s, run.size)
          /\ run' = [run EXCEPT !.pc = "detach"]
          /\ UNCHANGED <<incoming, accepted, budgets>>
    /\ UNCHANGED <<inMap, fin, moving, tail, terminalErr, received, ended>>
    /\ RunFrame

(* stream_close or stream_error from the Agent.                            *)
RunClose(s, err) ==
    /\ run = Idle /\ Known(s) /\ ended[s] # "yes"
    /\ ended' = [ended EXCEPT ![s] = "yes"]
    /\ run' = [pc |-> "detach", s |-> s, size |-> 0, err |-> err]
    /\ UNCHANGED <<inMap, queueVars, budgets, received, accepted>> /\ RunFrame

(* stream_half_close: finish(nil), the stream stays in the map.            *)
RunHalfClose(s) ==
    /\ run = Idle /\ Known(s) /\ s \notin Datagrams /\ ended[s] = "no"
    /\ ended' = [ended EXCEPT ![s] = "half"]
    /\ run' = IF s \in inMap
              THEN [pc |-> "half", s |-> s, size |-> 0, err |-> "eof"]
              ELSE Idle
    /\ UNCHANGED <<inMap, queueVars, budgets, received, accepted>> /\ RunFrame

RunDetach ==
    /\ run.pc = "detach"
    /\ inMap' = inMap \ {run.s}
    /\ run' = IF run.s \in inMap THEN [run EXCEPT !.pc = "finish"] ELSE Idle
    /\ UNCHANGED <<queueVars, budgets, agentVars>> /\ RunFrame

RunFinish ==
    /\ run.pc \in {"finish", "half"}
    /\ \/ BeginFinish(run.s, run.err) /\ UNCHANGED run
       \/ /\ fin[run.s] = "done" /\ run.pc = "finish"
          /\ ReleaseQueuedChunks(run.s) /\ run' = Idle
       \/ /\ fin[run.s] = "done" /\ run.pc = "half"
          /\ run' = Idle /\ UNCHANGED <<queueVars, budgets>>
    /\ UNCHANGED <<inMap, agentVars>> /\ RunFrame
----------------------------------------------------------------------------
(* failAll and close, called from outside the read loop.                   *)

FailFrame ==
    UNCHANGED <<handler, watcher, reader, hold, run, agentVars, delivered>>

FailSwap ==
    /\ scenario.fails /\ failing = "no"
    /\ failing' = "finishing"
    /\ doomed' = inMap /\ inMap' = {}
    /\ UNCHANGED <<done, queueVars, budgets>> /\ FailFrame

FailFinish(s) ==
    /\ failing = "finishing" /\ s \in doomed
    /\ \/ BeginFinish(s, "err") /\ UNCHANGED doomed
       \/ /\ fin[s] = "done" /\ doomed' = doomed \ {s}
          /\ UNCHANGED <<queueVars, budgets>>
    /\ UNCHANGED <<inMap, failing, done>> /\ FailFrame

FailClose ==
    /\ failing = "finishing" /\ doomed = {}
    /\ failing' = "done" /\ done' = TRUE
    /\ UNCHANGED <<inMap, doomed, queueVars, budgets>> /\ FailFrame
----------------------------------------------------------------------------
HandlerStep(s) ==
    \/ OpenFinish(s) \/ HandlerEnds(s) \/ HandlerDetach(s) \/ HandlerFinish(s)
    \/ HandlerDiscardQueue(s) \/ HandlerDiscardTail(s)

ReaderStep(s) == ReadPoll(s) \/ ReadCheck(s) \/ ReadWake(s) \/ ReadRelease(s)

FinishStep(s) == FinishDrain(s) \/ FinishPublish(s)

RunStep == RunEnqueue \/ RunDetach \/ RunFinish

FailStep == FailClose \/ \E s \in Streams : FailFinish(s)

StreamStep ==
    \/ \E s \in Streams :
        \/ OpenTarget(s) \/ Announced(s) \/ Opened(s) \/ OpenFails(s)
        \/ UploadEnds(s) \/ UploadFails(s)
        \/ HandlerStep(s) \/ HandlerAbandons(s)
        \/ ReaderStep(s) \/ ReadCancelled(s)
        \/ FinishStep(s)
        \/ WatcherDetach(s) \/ WatcherFinish(s)
        \/ \E n \in Sizes : RunData(s, n)
        \/ RunOversize(s)
        \/ RunClose(s, "eof") \/ RunClose(s, "err") \/ RunHalfClose(s)
    \/ RunStep
    \/ FailSwap \/ FailStep

StreamNext == StreamStep /\ UNCHANGED scenario

StreamSpec == StreamInit /\ [][StreamNext]_streamvars

(* Every goroutine that can run is scheduled.  Nothing is assumed of the   *)
(* Agent or of whoever ends the session.  The client may go on sending for *)
(* ever, and then the handler stays in its upload loop until MustStop      *)
(* holds; the one thing asked of it is that a connector does not send      *)
(* empty data frames for ever (they are skipped before sendBytes).         *)
StreamFairness ==
    /\ \A s \in Streams :
        /\ WF_sessionVars(HandlerStep(s)) /\ WF_sessionVars(ReaderStep(s))
        /\ WF_sessionVars(MustStop(s) /\ UploadFails(s))
        /\ WF_sessionVars(handler[s] = "cancelling" /\ ReadCancelled(s))
        /\ WF_sessionVars(FinishStep(s)) /\ WF_sessionVars(WatcherFinish(s))
        /\ WF_sessionVars(Announced(s) \/ Opened(s) \/ OpenFails(s))
    /\ WF_sessionVars(RunStep) /\ WF_sessionVars(FailStep)

StreamFairSpec == StreamSpec /\ StreamFairness
----------------------------------------------------------------------------
(* The types of the variables; no budget is exceeded.                      *)
StreamTypeOK ==
    /\ inMap \subseteq Streams /\ doomed \subseteq Streams
    /\ handler \in [Streams -> {"new", "sending", "granting",
                                "open-finish", "failed", "serving", "waiting",
                                "cancelling", "close", "finish",
                                "discard", "discard-tail", "gone"}]
    /\ watcher \in [Streams -> {"off", "finish", "gone"}]
    /\ reader \in [Streams -> {"off", "read", "check", "wait", "release",
                               "eof", "err", "cancelled"}]
    /\ fin \in [Streams -> {"no", "draining", "done"}]
    /\ used \in [Streams -> 0..StreamBytes]
    /\ sessionUsed \in 0..SessionBytes /\ globalUsed \in 0..GlobalBytes
    /\ run.pc \in {"idle", "enqueue", "detach", "finish", "half"}
    /\ failing \in {"no", "finishing", "done"} /\ done \in BOOLEAN
    /\ ended \in [Streams -> {"no", "half", "yes"}]

Held(s) ==
    Size(incoming[s]) + Size(moving[s]) + Size(tail[s]) + Size(hold[s])

(* A close that races with queued payloads does not truncate the body: a   *)
(* reader that saw a clean end has been handed every accepted payload.     *)
NoTruncation ==
    \A s \in Streams :
        reader[s] = "eof" /\ handler[s] \in {"serving", "waiting"}
        => ToSet(delivered[s]) = 1..accepted[s]

(* No payload is handed to the client twice.                               *)
DeliveredOnce ==
    \A s \in Streams : IsInjective(delivered[s])

(* What a close leaves the client: the whole body, each payload once.      *)
DeliveredWhole == NoTruncation /\ DeliveredOnce

(* Payloads reach the client in the order the Agent sent them.             *)
DeliveredInOrder ==
    \A s \in Streams \ Datagrams :
        \A i \in DOMAIN delivered[s] : delivered[s][i] = i

(* No frame of the stream is being handled, and no read is half done.      *)
Settled(s) == run.s # s /\ s \notin doomed /\ reader[s] # "release"

(* Once the handler is gone and no frame for the stream is being handled,  *)
(* nothing stays reserved for it: what Read did not take, discardRetained  *)
(* released.  (While failAll is finishing streams this does not hold.)     *)
ReleasedAfterServing ==
    failing = "no" =>
        \A s \in Streams \ Datagrams :
            handler[s] = "gone" /\ Settled(s) => Held(s) = 0

(* A byte is reserved in all three budgets exactly as long as the stream   *)
(* retains it, whoever takes it out of the channel: releaseQueued is       *)
(* called once per payload, so ByteBudget.Release never panics, and        *)
(* nothing stays reserved for a stream that has been served.               *)
BudgetsExact ==
    /\ \A s \in Streams : used[s] = Held(s)
    /\ sessionUsed = MapThenSumSet(Held, Streams)
    /\ globalUsed = Elsewhere + sessionUsed
    /\ ReleasedAfterServing

(* The same for a stream whose opening failed.                             *)
ReleasedAfterFailedOpen ==
    \A s \in Streams : handler[s] = "failed" /\ Settled(s) => Held(s) = 0

(* discardRetained runs only once the reader has stopped.                  *)
DiscardsAfterReader ==
    \A s \in Streams :
        handler[s] = "gone" => reader[s] \in Stopped \cup {"off"}

(* Once the session has ended, no handler is left waiting on a stream that *)
(* nobody finished.                                                        *)
SessionLossEndsStreams ==
    failing = "done" =>
        \A s \in Streams :
            handler[s] \in {"serving", "waiting"} => fin[s] # "no"

(* Is the handler still opening the stream or busy with the client?        *)
Uploading(s) == handler[s] \in {"sending", "granting", "serving"}

(* A finished stream's handler comes to its end: no goroutine waits        *)
(* forever on queueMu, finishOnce or the terminal channel.  A stream that  *)
(* was taken out of the map ends although its client goes on sending       *)
(* (except the UDP flow of a connector); one that the Agent only           *)
(* half-closed ends once the client's own direction has ended.             *)
FinishedStreamsEnd ==
    \A s \in Streams :
        /\ fin[s] # "no" /\ ~Uploading(s)
           ~> handler[s] \in {"failed", "gone"}
        /\ fin[s] # "no" /\ s \notin inMap /\ Kind(s) # "connector-udp"
           ~> handler[s] \in {"failed", "gone"}
=============================================================================
