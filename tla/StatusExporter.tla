--------------------------- MODULE StatusExporter ---------------------------
(***************************************************************************)
(* The Gateway's status exporter: sessions offer status signals without    *)
(* waiting, one goroutine hands them to the sink, each under a deadline,   *)
(* and close stops it.  A sink may fail, be slow, or never return; the     *)
(* call it is in then stays behind as a goroutine.                         *)
(***************************************************************************)
EXTENDS Integers, FiniteSets

CONSTANTS
    Producers,      \* goroutines that call enqueue
    StatusQueue,    \* the capacity of queue
    MaxSignals      \* bound: signals offered

ASSUME ExporterBounds == StatusQueue \in Nat \ {0} /\ MaxSignals \in Nat

VARIABLES
    offered,             \* bound and history: calls of enqueue that returned
    offering,            \* per producer: "idle", "checked", or "locked" under stateMu
    queued,              \* the signals in queue
    loop,                \* run: "top", "wait", "emit", "sent", "drain", "stopped"
    dropped, failures,   \* the counters
    delivered,           \* history: signals the sink took
    timedOut,            \* the latch
    stuck,               \* Emit goroutines nobody waits for
    closer               \* close: "open", "waiting", "returned", "gaveUp"

expvars == <<offered, offering, queued, loop, dropped, failures, delivered, timedOut, stuck, closer>>
counters == <<dropped, failures, delivered>>

Closed == closer # "open"

----------------------------------------------------------------------------
(* enqueue: never waits, and drops what it cannot queue.                   *)

Dropped(p) == offering' = [offering EXCEPT ![p] = "idle"] /\ offered' = offered + 1
              /\ dropped' = dropped + 1 /\ UNCHANGED <<queued, failures, delivered>>

Offer(p) ==
    /\ offering[p] = "idle"
    /\ offered + Cardinality({q \in Producers : offering[q] # "idle"}) < MaxSignals
    /\ IF timedOut THEN Dropped(p)
       ELSE offering' = [offering EXCEPT ![p] = "checked"] /\ UNCHANGED <<offered, queued, counters>>
    /\ UNCHANGED <<loop, timedOut, stuck, closer>>

\* Under the read lock, which keeps close out until the signal is queued.
OfferLocked(p) ==
    /\ offering[p] = "checked"
    /\ IF Closed \/ timedOut THEN Dropped(p)
       ELSE offering' = [offering EXCEPT ![p] = "locked"] /\ UNCHANGED <<offered, queued, counters>>
    /\ UNCHANGED <<loop, timedOut, stuck, closer>>

Enqueue(p) ==
    /\ offering[p] = "locked"
    /\ IF queued < StatusQueue
       THEN /\ queued' = queued + 1 /\ offered' = offered + 1
            /\ offering' = [offering EXCEPT ![p] = "idle"] /\ UNCHANGED counters
       ELSE Dropped(p)
    /\ UNCHANGED <<loop, timedOut, stuck, closer>>

----------------------------------------------------------------------------
(* run, emit and dropQueued.                                               *)

Loop(l) == loop' = l /\ UNCHANGED <<offered, offering, closer>>

Top == loop = "top" /\ Loop(IF Closed THEN "drain" ELSE "wait")
       /\ UNCHANGED <<queued, counters, timedOut, stuck>>
Wait == /\ loop = "wait" /\ UNCHANGED <<counters, timedOut, stuck>>
        /\ \/ Closed /\ Loop("drain") /\ UNCHANGED queued
           \/ queued > 0 /\ queued' = queued - 1 /\ Loop("emit")
Emit == /\ loop = "emit" /\ UNCHANGED <<queued, failures, delivered, timedOut, stuck>>
        /\ IF timedOut THEN dropped' = dropped + 1 /\ Loop("top")
           ELSE Loop("sent") /\ UNCHANGED dropped
\* The sink answers before the deadline, which the deadline's own error is too.
SinkAnswers ==
    /\ loop = "sent" /\ Loop("top") /\ UNCHANGED <<queued, dropped, timedOut, stuck>>
    /\ \/ delivered' = delivered + 1 /\ UNCHANGED failures
       \/ failures' = failures + 1 /\ UNCHANGED delivered
\* Mutant: the loop waits for the sink past its deadline.
EmitAwaitsSink ==
    /\ loop = "sent" /\ ~timedOut /\ timedOut' = TRUE /\ Loop("sent")
    /\ UNCHANGED <<queued, counters, stuck>>
EmitTimesOut ==
    /\ loop = "sent" /\ Loop("top") /\ UNCHANGED <<queued, dropped, delivered>>
    /\ failures' = failures + 1 /\ timedOut' = TRUE /\ stuck' = stuck + 1
DropQueued ==
    /\ loop = "drain" /\ UNCHANGED <<failures, delivered, timedOut, stuck>>
    /\ IF queued > 0 THEN queued' = queued - 1 /\ dropped' = dropped + 1 /\ Loop("drain")
       ELSE Loop("stopped") /\ UNCHANGED <<queued, dropped>>

\* A call left behind returns, if ever; its result stays in the buffer.
StuckReturns == stuck > 0 /\ stuck' = stuck - 1
                /\ UNCHANGED <<offered, offering, queued, loop, counters, timedOut, closer>>

----------------------------------------------------------------------------
(* close.                                                                  *)

OnlyCloser == UNCHANGED <<offered, offering, queued, loop, counters, timedOut, stuck>>
\* Mutant: close does not take stateMu.
CloseUnlocked == closer = "open" /\ closer' = "waiting" /\ OnlyCloser
Close == closer = "open" /\ (\A p \in Producers : offering[p] # "locked")
         /\ closer' = "waiting" /\ OnlyCloser
CloseReturns == closer = "waiting" /\ loop = "stopped" /\ closer' = "returned" /\ OnlyCloser
CloseGivesUp == closer = "waiting" /\ closer' = "gaveUp" /\ OnlyCloser

----------------------------------------------------------------------------

ExpInit ==
    /\ offered = 0 /\ offering = [p \in Producers |-> "idle"] /\ queued = 0 /\ loop = "top"
    /\ dropped = 0 /\ failures = 0 /\ delivered = 0 /\ timedOut = FALSE /\ stuck = 0
    /\ closer = "open"

RunLoop == Top \/ Wait \/ Emit \/ EmitTimesOut \/ DropQueued
Offering == \E p \in Producers : OfferLocked(p) \/ Enqueue(p)
ExpNext == (\E p \in Producers : Offer(p)) \/ Offering \/ RunLoop \/ SinkAnswers \/ StuckReturns
           \/ Close \/ CloseReturns \/ CloseGivesUp

\* The goroutine runs, its deadline passes, and enqueue does not wait; the
\* sink owes nothing.
ExpSpec == ExpInit /\ [][ExpNext]_expvars /\ WF_expvars(RunLoop) /\ WF_expvars(Offering)

----------------------------------------------------------------------------

\* The types of the variables; the queue holds at most its capacity.
ExpTypeOK ==
    /\ offered \in 0..MaxSignals /\ queued \in 0..StatusQueue /\ timedOut \in BOOLEAN
    /\ offering \in [Producers -> {"idle", "checked", "locked"}]
    /\ loop \in {"top", "wait", "emit", "sent", "drain", "stopped"}
    /\ closer \in {"open", "waiting", "returned", "gaveUp"}

\* Every signal a session offered is queued, in hand, taken by the sink, or in
\* exactly one of the two counters the snapshot reports.
SignalsAccounted ==
    offered = queued + (IF loop \in {"emit", "sent"} THEN 1 ELSE 0)
                     + delivered + failures + dropped

\* "at most one non-cooperative Emit goroutine can remain for this exporter"
\* (status_exporter.go:110-112).
OneStuckEmit == stuck <= 1

\* Once the exporter has stopped nothing is left in its queue, and no producer
\* adds to it (stateMu, status_exporter.go:56-61 and 134-137).
StoppedIsEmpty == loop = "stopped" => queued = 0

\* No signal is lost unaccounted, also around the stop and a sink that hangs.
SignalsKept == SignalsAccounted /\ OneStuckEmit /\ StoppedIsEmpty

\* close ends the goroutine whatever the sink does.
CloseStops == closer = "waiting" ~> loop = "stopped"
=============================================================================
