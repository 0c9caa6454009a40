---------------------------- MODULE CreditFlow ----------------------------
(***************************************************************************)
(* The payload of protocol v2 streams in one direction: a sender that      *)
(* takes credit before every data frame, the ordered tunnel, a receiver    *)
(* whose queue is bounded by a stream budget, a session budget shared by   *)
(* all streams and a number of slots, and the consumer that returns credit *)
(* once the local target has taken the bytes.                              *)
(*                                                                         *)
(* Written for the request direction (Gateway sends, Agent receives).  The *)
(* response direction is the instance Unasked = 0: there the Agent's       *)
(* window starts empty and the Gateway grants its whole stream budget, up  *)
(* to the end of the stream, where the Gateway keeps the queue for its     *)
(* reader (module GatewayStream) and the Agent drops it.                   *)
(* Sizes are bytes, scaled down; a frame is its size.                      *)
(***************************************************************************)
EXTENDS Integers, SequencesExt

CONSTANTS
    Uploads,
    TcpUploads,      \* the uploads of mode "tcp": only they are half-closed
    Unasked,         \* HeaderAllowanceBytes (0 in the response direction)
    MaxCredit,       \* MaxWindowCreditBytes
    Quota,           \* the receiver's byte budget of one stream
    SessionBudget,   \* the receiver's byte budget of the whole session
    QueueFrames,     \* MaxQueueFrames: floor of a stream's queue slots
    MinFrame,        \* minTunnelFrame: frame size the slots are derived from
    FrameSizes,      \* per stream, the payload sizes the sender's reads produce
    Loads            \* bound: the numbers of frames the senders have to send;
                     \* a stream with none takes no part

(* Limits.valid, and the Gateway's counterpart: only positivity and the    *)
(* order of the two budgets are required of a configuration.               *)
ASSUME LimitsAssumption ==
    /\ TcpUploads \subseteq Uploads
    /\ Unasked \in Nat /\ MaxCredit \in Nat \ {0}
    /\ Quota \in Nat \ {0} /\ SessionBudget >= Quota
    /\ QueueFrames \in Nat \ {0} /\ MinFrame \in Nat \ {0}
    /\ \A s \in Uploads : FrameSizes[s] \subseteq Nat \ {0}
    /\ \A load \in Loads : DOMAIN load = Uploads

VARIABLES
    sender,     \* "new", "idle", "taking", "sending", "half" or "closed"
    frame,      \* size of the frame the sender is working on, or 0
    left,       \* frames the sender still has to send
    window,     \* unused credit of the sender's window
    wire,       \* frames on their way to the receiver
    receiver,   \* "new", "open" or "finished"
    reason,     \* why the receiver or the window ended the stream
    queue,      \* payloads in the receiver's queue
    taken,      \* bytes reserved from the stream budget
    sessionTaken,\* bytes reserved from the session budget
    peerHalfClose,\* has the receiver been told that no more payloads follow?
    consumer,   \* "idle", "dequeued", "writing", "done" or "failed"
    local,      \* size of the payload the consumer works on, or 0
    back        \* frames on their way back to the sender

flowvars == <<sender, frame, left, window, wire, receiver, reason, queue,
              taken, sessionTaken, peerHalfClose, consumer, local, back>>

sendVars == <<sender, frame, left, window>>
recvVars == <<receiver, reason, queue, taken, sessionTaken>>
consVars == <<peerHalfClose, consumer, local>>

Capacity == MaxCredit + Unasked

InitialCredit(budget) ==
    IF budget < 1 THEN 1 ELSE IF budget > MaxCredit THEN MaxCredit ELSE budget

(* The first grant leaves out what the sender may send unasked; none is    *)
(* sent when nothing remains.                                              *)
InitialGrant ==
    IF Quota - Unasked > 0 THEN InitialCredit(Quota - Unasked) ELSE 0

(* Mutant: the number of slots does not follow the byte budget.            *)
SlotsIgnoreBudget == QueueFrames

QueueSlots ==
    IF Quota \div MinFrame < QueueFrames THEN QueueFrames
                                          ELSE Quota \div MinFrame

Data(n)  == [kind |-> "data", size |-> n]
Grant(n) == [kind |-> "grant", size |-> n]
OpenMsg  == [kind |-> "open", size |-> 0]
HalfMsg  == [kind |-> "half", size |-> 0]   \* stream_half_close
EndMsg   == [kind |-> "end", size |-> 0]    \* stream_close or stream_error

Add(a, b) == a + b
Bytes(seq) == FoldLeft(Add, 0, seq)
SizeOf(seq, kind) ==
    Bytes([i \in DOMAIN seq |-> IF seq[i].kind = kind THEN seq[i].size ELSE 0])

FlowInit ==
    /\ sender = [s \in Uploads |-> "new"]
    /\ frame = [s \in Uploads |-> 0]
    /\ left \in Loads
    /\ window = [s \in Uploads |-> 0]
    /\ wire = [s \in Uploads |-> <<>>]
    /\ receiver = [s \in Uploads |-> "new"]
    /\ reason = [s \in Uploads |-> "none"]
    /\ queue = [s \in Uploads |-> <<>>]
    /\ taken = [s \in Uploads |-> 0]
    /\ sessionTaken = 0
    /\ peerHalfClose = [s \in Uploads |-> FALSE]
    /\ consumer = [s \in Uploads |-> "idle"]
    /\ local = [s \in Uploads |-> 0]
    /\ back = [s \in Uploads |-> <<>>]
----------------------------------------------------------------------------
(* The sender.                                                             *)

OpenStream(s) ==
    /\ sender[s] = "new" /\ left[s] > 0
    /\ sender' = [sender EXCEPT ![s] = "idle"]
    /\ window' = [window EXCEPT ![s] = Unasked]
    /\ wire' = [wire EXCEPT ![s] = Append(@, OpenMsg)]
    /\ UNCHANGED <<frame, left, recvVars, consVars, back>>

(* A read returned n bytes; sendBytes enters Window.Take.                  *)
StartSend(s, n) ==
    /\ sender[s] = "idle" /\ left[s] > 0
    /\ n <= Capacity
    /\ sender' = [sender EXCEPT ![s] = "taking"]
    /\ frame' = [frame EXCEPT ![s] = n]
    /\ UNCHANGED <<left, window, wire, recvVars, consVars, back>>

Take(s) ==
    /\ sender[s] = "taking"
    /\ window[s] >= frame[s]
    /\ window' = [window EXCEPT ![s] = @ - frame[s]]
    /\ sender' = [sender EXCEPT ![s] = "sending"]
    /\ UNCHANGED <<frame, left, wire, recvVars, consVars, back>>

SendFrame(s) ==
    /\ sender[s] = "sending"
    /\ wire' = [wire EXCEPT ![s] = Append(@, Data(frame[s]))]
    /\ left' = [left EXCEPT ![s] = @ - 1]
    /\ frame' = [frame EXCEPT ![s] = 0]
    /\ sender' = [sender EXCEPT ![s] = "idle"]
    /\ UNCHANGED <<window, recvVars, consVars, back>>

(* The client sends no more: halfCloseStream.  The stream stays open for   *)
(* the response.                                                           *)
HalfClose(s) ==
    /\ s \in TcpUploads /\ sender[s] = "idle"
    /\ sender' = [sender EXCEPT ![s] = "half"]
    /\ wire' = [wire EXCEPT ![s] = Append(@, HalfMsg)]
    /\ UNCHANGED <<frame, left, window, recvVars, consVars, back>>

(* Mutant: closing the window does not wake a blocked Take.                *)
CloseKeepsWaiter(s, msgs) ==
    /\ sender' = [sender EXCEPT ![s] = IF @ = "taking" THEN @ ELSE "closed"]
    /\ wire' = [wire EXCEPT ![s] = @ \o msgs]
    /\ UNCHANGED <<frame, left, window>>

(* The stream leaves the sender's map and its window closes: a blocked     *)
(* Take returns the error.  A frame that was past Take may still be sent,  *)
(* behind the message that ends the stream.                                *)
CloseSender(s, msgs) ==
    /\ sender' = [sender EXCEPT ![s] = "closed"]
    /\ frame' = [frame EXCEPT ![s] = 0]
    /\ \/ wire' = [wire EXCEPT ![s] = @ \o msgs]
       \/ /\ sender[s] = "sending"
          /\ wire' = [wire EXCEPT ![s] = @ \o msgs \o <<Data(frame[s])>>]
    /\ UNCHANGED <<left, window>>

(* The request ends or is cancelled: detachStream, then stream_close.      *)
CloseStream(s) ==
    /\ sender[s] \notin {"new", "closed"}
    /\ CloseSender(s, <<EndMsg>>)
    /\ UNCHANGED <<recvVars, consVars, back>>

(* stream_window_update: Window.Add, and errorStream when it refuses.      *)
ReceiveGrant(s) ==
    /\ back[s] # <<>> /\ Head(back[s]).kind = "grant"
    /\ back' = [back EXCEPT ![s] = Tail(@)]
    /\ LET n == Head(back[s]).size IN
       \/ /\ sender[s] = "closed"
          /\ UNCHANGED <<sendVars, wire, reason>>
       \/ /\ sender[s] # "closed" /\ n <= Capacity /\ window[s] + n <= Capacity
          /\ window' = [window EXCEPT ![s] = @ + n]
          /\ UNCHANGED <<sender, frame, left, wire, reason>>
       \/ /\ sender[s] # "closed" /\ (n > Capacity \/ window[s] + n > Capacity)
          /\ CloseSender(s, <<EndMsg>>)
          /\ reason' = [reason EXCEPT ![s] = "protocol_error"]
    /\ UNCHANGED <<receiver, queue, taken, sessionTaken, consVars>>

ReceiveEnd(s) ==
    /\ back[s] # <<>> /\ Head(back[s]).kind = "end"
    /\ back' = [back EXCEPT ![s] = Tail(@)]
    /\ CloseSender(s, <<>>)
    /\ UNCHANGED <<recvVars, consVars>>
----------------------------------------------------------------------------
(* The receiver's session loop.                                            *)

Pop(s, kind) ==
    /\ wire[s] # <<>> /\ Head(wire[s]).kind = kind
    /\ wire' = [wire EXCEPT ![s] = Tail(@)]

(* Mutant: the queue is drained and stays reserved.                        *)
FinishKeepsReservation(s) ==
    /\ receiver' = [receiver EXCEPT ![s] = "finished"]
    /\ queue' = [queue EXCEPT ![s] = <<>>]
    /\ UNCHANGED <<taken, sessionTaken>>

(* finishStream: the queue is drained and its reservations released.       *)
Finish(s) ==
    /\ receiver' = [receiver EXCEPT ![s] = "finished"]
    /\ queue' = [queue EXCEPT ![s] = <<>>]
    /\ taken' = [taken EXCEPT ![s] = @ - Bytes(queue[s])]
    /\ sessionTaken' = sessionTaken - Bytes(queue[s])

AcceptOpen(s) ==
    /\ Pop(s, "open")
    /\ receiver' = [receiver EXCEPT ![s] = "open"]
    /\ back' = [back EXCEPT ![s] =
                  IF InitialGrant > 0 THEN Append(@, Grant(InitialGrant))
                                      ELSE @]
    /\ UNCHANGED <<sendVars, reason, queue, taken, sessionTaken, consVars>>

(* The stream limit is reached, or the endpoint is unknown or of another   *)
(* protocol: stream_error, and the stream is never created.                *)
RejectOpen(s) ==
    /\ Pop(s, "open")
    /\ receiver' = [receiver EXCEPT ![s] = "finished"]
    /\ reason' = [reason EXCEPT ![s] = "rejected"]
    /\ back' = [back EXCEPT ![s] = Append(@, EndMsg)]
    /\ UNCHANGED <<sendVars, queue, taken, sessionTaken, consVars>>

Room(s, n) ==
    /\ taken[s] + n <= Quota
    /\ sessionTaken + n <= SessionBudget
    /\ Len(queue[s]) < QueueSlots

(* handleData: queue the payload, drop it when the stream is gone, or end  *)
(* the stream with resource_limit when the queue refuses it.               *)
ReceiveData(s) ==
    /\ Pop(s, "data")
    /\ LET n == Head(wire[s]).size IN
       \/ /\ receiver[s] = "finished"
          /\ UNCHANGED <<recvVars, back>>
       \/ /\ receiver[s] = "open" /\ Room(s, n)
          /\ queue' = [queue EXCEPT ![s] = Append(@, n)]
          /\ taken' = [taken EXCEPT ![s] = @ + n]
          /\ sessionTaken' = sessionTaken + n
          /\ UNCHANGED <<receiver, reason, back>>
       \/ /\ receiver[s] = "open" /\ ~Room(s, n)
          /\ Finish(s)
          /\ reason' = [reason EXCEPT ![s] = "resource_limit"]
          /\ back' = [back EXCEPT ![s] = Append(@, EndMsg)]
    /\ UNCHANGED <<sendVars, consVars>>

ReceiveClose(s) ==
    /\ Pop(s, "end")
    /\ Finish(s)
    /\ UNCHANGED <<sendVars, reason, consVars, back>>
(* stream_half_close: the consumer is told, once.                          *)
ReceiveHalfClose(s) ==
    /\ Pop(s, "half")
    /\ peerHalfClose' = [peerHalfClose EXCEPT ![s] = @ \/ receiver[s] = "open"]
    /\ UNCHANGED <<sendVars, recvVars, consumer, local, back>>
----------------------------------------------------------------------------
(* The receiver's consumer: writeLocal and its stream.                     *)

(* Mutant: credit is returned already when the payload is dequeued.        *)
DequeueGrants(s) ==
    /\ consumer[s] = "idle" /\ queue[s] # <<>>
    /\ local' = [local EXCEPT ![s] = Head(queue[s])]
    /\ queue' = [queue EXCEPT ![s] = Tail(@)]
    /\ consumer' = [consumer EXCEPT ![s] = "dequeued"]
    /\ back' = [back EXCEPT ![s] = Append(@, Grant(Head(queue[s])))]
    /\ UNCHANGED <<sendVars, wire, receiver, reason, taken, sessionTaken,
                   peerHalfClose>>

Dequeue(s) ==
    /\ consumer[s] = "idle" /\ queue[s] # <<>>
    /\ local' = [local EXCEPT ![s] = Head(queue[s])]
    /\ queue' = [queue EXCEPT ![s] = Tail(@)]
    /\ consumer' = [consumer EXCEPT ![s] = "dequeued"]
    /\ UNCHANGED <<sendVars, wire, receiver, reason, taken, sessionTaken,
                   peerHalfClose, back>>

(* The queue is empty after a half-close: CloseWrite ends the consumer.    *)
CloseWrite(s) ==
    /\ consumer[s] = "idle" /\ queue[s] = <<>>
    /\ peerHalfClose[s] /\ receiver[s] = "open"
    /\ \E end \in {"done", "failed"} : consumer' = [consumer EXCEPT ![s] = end]
    /\ UNCHANGED <<sendVars, wire, recvVars, peerHalfClose, local, back>>

Release(s) ==
    /\ consumer[s] = "dequeued"
    /\ taken' = [taken EXCEPT ![s] = @ - local[s]]
    /\ sessionTaken' = sessionTaken - local[s]
    /\ consumer' = [consumer EXCEPT ![s] = "writing"]
    /\ UNCHANGED <<sendVars, wire, receiver, reason, queue, peerHalfClose, local,
                   back>>

(* The local target took the bytes.  On a stream that has ended meanwhile  *)
(* the grant may or may not still be sent.                                 *)
Written(s) ==
    /\ consumer[s] = "writing"
    /\ consumer' = [consumer EXCEPT ![s] = "idle"]
    /\ local' = [local EXCEPT ![s] = 0]
    /\ \/ back' = [back EXCEPT ![s] = Append(@, Grant(local[s]))]
       \/ receiver[s] = "finished" /\ UNCHANGED back
    /\ UNCHANGED <<sendVars, wire, recvVars, peerHalfClose>>

(* The local write fails or times out: the consumer stops, the stream      *)
(* itself ends only with its read loop.                                    *)
WriteFails(s) ==
    /\ consumer[s] = "writing"
    /\ consumer' = [consumer EXCEPT ![s] = "failed"]
    /\ local' = [local EXCEPT ![s] = 0]
    /\ UNCHANGED <<sendVars, wire, recvVars, peerHalfClose, back>>

(* The read loop of serveStream ends: terminal message, finishStream.      *)
ServeEnds(s) ==
    /\ receiver[s] = "open"
    /\ Finish(s)
    /\ reason' = [reason EXCEPT ![s] = "local"]
    /\ back' = [back EXCEPT ![s] = Append(@, EndMsg)]
    /\ UNCHANGED <<sendVars, wire, consVars>>
----------------------------------------------------------------------------
Deliver(s) ==
    \/ AcceptOpen(s) \/ ReceiveData(s) \/ ReceiveClose(s)
    \/ ReceiveHalfClose(s)

FlowNext ==
    \E s \in Uploads :
        \/ OpenStream(s)
        \/ \E n \in FrameSizes[s] : StartSend(s, n)
        \/ Take(s) \/ SendFrame(s) \/ CloseStream(s) \/ HalfClose(s)
        \/ ReceiveGrant(s) \/ ReceiveEnd(s)
        \/ AcceptOpen(s) \/ RejectOpen(s) \/ ReceiveData(s) \/ ReceiveClose(s)
        \/ ReceiveHalfClose(s) \/ CloseWrite(s)
        \/ Dequeue(s) \/ Release(s) \/ Written(s) \/ WriteFails(s)
        \/ ServeEnds(s)

FlowSpec == FlowInit /\ [][FlowNext]_flowvars

(* The tunnel delivers, both session loops keep reading, a local write     *)
(* completes or meets its deadline, and a target that stopped accepting    *)
(* bytes eventually closes or falls silent for IdleTimeout.                *)
FlowFairness ==
    \A s \in Uploads :
        /\ WF_flowvars(Take(s)) /\ WF_flowvars(SendFrame(s))
        /\ WF_flowvars(ReceiveGrant(s)) /\ WF_flowvars(ReceiveEnd(s))
        /\ WF_flowvars(Deliver(s))
        /\ WF_flowvars(Dequeue(s)) /\ WF_flowvars(Release(s))
        /\ WF_flowvars(Written(s) \/ WriteFails(s))
        /\ WF_flowvars(consumer[s] = "failed" /\ ServeEnds(s))

FlowFairSpec == FlowSpec /\ FlowFairness
----------------------------------------------------------------------------
(* The types of the variables; no budget or window is exceeded.            *)
FlowTypeOK ==
    /\ sender \in [Uploads -> {"new", "idle", "taking", "sending", "half",
                               "closed"}]
    /\ \A s \in Uploads : frame[s] \in FrameSizes[s] \cup {0}
    /\ \E load \in Loads : \A s \in Uploads : left[s] \in 0..load[s]
    /\ window \in [Uploads -> 0..Capacity]
    /\ receiver \in [Uploads -> {"new", "open", "finished"}]
    /\ reason \in [Uploads -> {"none", "rejected", "resource_limit",
                               "protocol_error", "local"}]
    /\ taken \in [Uploads -> 0..Quota]
    /\ sessionTaken \in 0..SessionBudget
    /\ peerHalfClose \in [Uploads -> BOOLEAN]
    /\ consumer \in [Uploads -> {"idle", "dequeued", "writing", "done",
                                 "failed"}]

Reserved(s) ==
    Bytes(queue[s]) + (IF consumer[s] = "dequeued" THEN local[s] ELSE 0)

(* The budgets count exactly the bytes held: what is queued, and what the  *)
(* consumer dequeued and has not released, across dequeue, drain and       *)
(* reset.                                                                  *)
BudgetsBalanced ==
    /\ \A s \in Uploads : taken[s] = Reserved(s)
    /\ sessionTaken = MapThenSumSet(Reserved, Uploads)

(* The frame that arrives next is refused.                                 *)
Refused(s) ==
    /\ receiver[s] = "open" /\ wire[s] # <<>>
    /\ Head(wire[s]).kind = "data" /\ ~Room(s, Head(wire[s]).size)

(* A sender that waits for credit before every frame is never told that    *)
(* its credit is invalid.  An upload that has the session budget to itself *)
(* never runs out of bytes: it is reset only for its number of frames, and *)
(* only when some of them are smaller than minTunnelFrame, the size        *)
(* streamQueueFrames counts on.                                            *)
PacedNeverReset ==
    \A s \in Uploads :
        /\ reason[s] # "protocol_error"
        /\ Unasked <= Quota /\ (\A t \in Uploads \ {s} : sender[t] = "new")
           => LET n == Head(wire[s]).size IN
              Refused(s) => /\ taken[s] + n <= Quota
                            /\ sessionTaken + n <= SessionBudget
                            /\ \E m \in Range(queue[s]) \cup {n} : m < MinFrame

(* Every frame a sender wants to send is sent, or its stream ends.         *)
SendsProgress ==
    \A s \in Uploads : sender[s] = "taking" ~> sender[s] # "taking"

(* The refinement mapping.                                                 *)
Account(s) == INSTANCE CreditAccount WITH
    Allowance <- Unasked, Initial <- InitialGrant,
    Budget <- Quota, Limit <- Capacity,
    issued <- IF receiver[s] = "new" \/ reason[s] = "rejected"
              THEN Unasked ELSE Unasked + InitialGrant,
    credit <- IF sender[s] = "new" THEN Unasked ELSE window[s],
    inFlight <- SizeOf(wire[s], "data")
                  + (IF sender[s] = "sending" THEN frame[s] ELSE 0),
    held <- Bytes(queue[s]) + local[s],
    returning <- SizeOf(back[s], "grant")

AccountInit == \A s \in Uploads : Account(s)!Init
AccountStep == \A s \in Uploads : [Account(s)!Next]_(Account(s)!vars)

(* Each stream implements the abstract credit account.                     *)
ImplementsAccount == AccountInit /\ [][AccountStep]_flowvars
=============================================================================
