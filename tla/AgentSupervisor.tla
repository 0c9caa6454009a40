-------------------------- MODULE AgentSupervisor --------------------------
(***************************************************************************)
(* The supervisor of the Agent service: it reads the state directory,      *)
(* waits while there is nothing to run, rolls back an interrupted          *)
(* mutation, runs one Runner at a time, reloads when an operator changes   *)
(* the state, keeps a failure visible and publishes status.json.           *)
(***************************************************************************)
EXTENDS AgentRuntime

CONSTANTS
    Edits,           \* bound: what an operator may leave on disk
    RecoveryFails    \* may RecoverState fail for good (the lock held, a bad journal)?

ASSUME SupervisorLimits ==
    /\ RecoveryFails \in BOOLEAN
    /\ Edits \subseteq {"valid", "incomplete", "truncated", "pending", "corrupt"}

VARIABLES
    sup,         \* where Run is: "load", "recover", "arm" (about to take the
                 \* fingerprint it waits on), "wait", "attempt", "watch" (the
                 \* watcher takes its fingerprint), "start", "running",
                 \* "superseded", "stopping" or "exited"
    phase,       \* the phase
    bounded,     \* does the wait end with the recovery window?
    before,      \* the fingerprint a wait or a watch compares with
    stop,        \* is the supervisor's context cancelled?
    attached,    \* is sup.runner set?
    published,   \* the phase status.json shows
    ticked,      \* the snapshot the status ticker has not yet published
    late         \* ghost: "tick" when Run has published since that snapshot was
                 \* taken, "file" when status.json holds such a snapshot

supVars == <<sup, phase, bounded, before, stop, attached, published, ticked, late>>
status == <<phase, published, late>>
vars == <<disk, version, env, runVars, supVars>>

Phases == {"stopped", "recovering", "pending_config", "running", "terminal"}
None == "none"

Init ==
    /\ disk \in Edits /\ version = 1 /\ NoRunner
    /\ sup = "load" /\ phase = "stopped" /\ bounded = FALSE /\ before = 0 /\ stop = FALSE
    /\ attached = FALSE /\ published = None /\ ticked = None /\ late = "no"

-----------------------------------------------------------------------------
(* Status *)

\* Status' phase: a runner whose health is terminal shows as terminal.
StatusOf(p, hasRunner) == IF hasRunner /\ Terminal(Aggregate) THEN "terminal" ELSE p

\* setPhase and setTerminal change the phase and publish it.
SetPhase(p, hasRunner) ==
    /\ phase' = p /\ published' = StatusOf(p, hasRunner)
    /\ late' = IF ticked = None THEN "no" ELSE "tick"

\* LoopStatusWriter: WriteStatusFile takes the snapshot before the lock that
\* serialises the writers, so another writer's may be published in between.
Tick ==
    /\ env.ticks /\ ticked = None
    /\ ticked' = StatusOf(phase, attached)
    /\ UNCHANGED <<disk, version, env, runVars, sup, bounded, before, stop, attached, status>>

PublishTick ==
    /\ ticked # None
    /\ published' = ticked /\ ticked' = None /\ late' = IF late = "tick" THEN "file" ELSE "no"
    /\ UNCHANGED <<disk, version, env, runVars, sup, phase, bounded, before, stop, attached>>

-----------------------------------------------------------------------------
(* The operator, another process *)

\* configure, rotate, unpair or a hand edit; a mutation shows its journal
\* ("pending") until it commits, and a crashed one leaves it.
Edit ==
    /\ version <= env.edits
    /\ \E d \in Edits : disk' = d
    /\ version' = version + 1
    /\ UNCHANGED <<env, runVars, supVars>>

RequestStop ==
    /\ ~stop /\ sup # "exited"
    /\ stop' = TRUE /\ cancelled' = TRUE
    /\ UNCHANGED <<disk, version, env, run, result, worker, machine, used, failover, refused, sup, bounded, before,
                   attached, ticked, status>>

-----------------------------------------------------------------------------
(* Run *)

\* Mutant: a stop is recorded whatever the phase.
ExitStopped == sup' = "exited" /\ SetPhase("stopped", FALSE)

\* Run returns: the deferred setStoppedUnlessTerminal.
Exit ==
    /\ sup' = "exited"
    /\ IF phase = "terminal" THEN UNCHANGED status ELSE SetPhase("stopped", FALSE)

\* setTerminal, and Run returns.
Fail == sup' = "exited" /\ SetPhase("terminal", FALSE)

\* LoadConfig and ValidateRuntime, with the limits block: an interrupted
\* mutation is recovered, an unfinished or truncated state is waited out,
\* anything else that cannot be read ends Run, and so does a Runner that
\* NewAgentLoop cannot build.
Load ==
    /\ sup = "load"
    /\ \/ /\ disk = "pending" /\ sup' = "recover" /\ SetPhase("recovering", FALSE)
          /\ UNCHANGED <<bounded, attached>>
       \/ /\ disk \in {"incomplete", "truncated"} /\ sup' = "arm" /\ bounded' = FALSE
          /\ SetPhase("pending_config", FALSE) /\ UNCHANGED attached
       \/ disk \in {"corrupt", "valid"} /\ Fail /\ UNCHANGED <<bounded, attached>>
       \/ disk = "valid" /\ sup' = "attempt" /\ attached' = TRUE /\ UNCHANGED <<bounded, status>>
    /\ UNCHANGED <<disk, version, env, runVars, before, stop, ticked>>

\* recoverPendingState: RecoverState rolls the mutation back, or fails every
\* time; only a failed try looks at the context.
Recover ==
    /\ sup = "recover"
    /\ \/ /\ disk = "pending"
          /\ disk' \in {"valid", "incomplete"} \cap Edits /\ version' = version + 1
          /\ sup' = "load" /\ UNCHANGED status
       \/ disk # "pending" /\ sup' = "load" /\ UNCHANGED <<disk, version, status>>
       \/ /\ RecoveryFails /\ UNCHANGED <<disk, version>>
          /\ IF stop THEN Exit ELSE Fail
    /\ UNCHANGED <<env, runVars, bounded, before, stop, attached, ticked>>

\* waitForStateChange takes its fingerprint.
Arm ==
    /\ sup = "arm"
    /\ before' = version /\ sup' = "wait"
    /\ UNCHANGED <<disk, version, env, runVars, bounded, stop, attached, ticked, status>>

\* ... and returns: a change, the window, or the context.
Change ==
    /\ sup = "wait" /\ version # before
    /\ sup' = "load"
    /\ UNCHANGED <<disk, version, env, runVars, bounded, before, stop, attached, ticked, status>>

WindowElapses ==
    /\ sup = "wait" /\ bounded /\ Exit
    /\ UNCHANGED <<disk, version, env, runVars, bounded, before, stop, attached, ticked>>

StopWaiting ==
    /\ sup = "wait" /\ stop /\ Exit
    /\ UNCHANGED <<disk, version, env, runVars, bounded, before, stop, attached, ticked>>

\* The runner is built; the phase is running.
Attempt ==
    /\ sup = "attempt"
    /\ sup' = "watch" /\ SetPhase("running", attached)
    /\ UNCHANGED <<disk, version, env, runVars, bounded, before, stop, attached, ticked>>

\* runAttempt: the watcher's fingerprint, then the loop's goroutine.
Watch ==
    /\ sup = "watch"
    /\ before' = version /\ sup' = "start"
    /\ UNCHANGED <<disk, version, env, runVars, bounded, stop, attached, ticked, status>>

\* Mutant: the watcher starts after the loop.
StartThenWatch ==
    /\ sup = "start"
    /\ \/ run = "none" /\ StartRun /\ cancelled' = stop /\ UNCHANGED <<before, sup>>
       \/ run # "none" /\ sup' = "running" /\ before' = version /\ UNCHANGED runVars
    /\ UNCHANGED <<disk, version, env, bounded, stop, attached, ticked, status>>

Start ==
    /\ sup = "start" /\ StartRun /\ cancelled' = stop /\ sup' = "running"
    /\ UNCHANGED <<disk, version, env, bounded, before, stop, attached, ticked, status>>

\* runAttempt's select: the state changed, or the context is done; either
\* cancels the loop and waits for it.
Supersede ==
    /\ sup = "running" /\ version # before
    /\ sup' = "superseded" /\ cancelled' = TRUE
    /\ UNCHANGED <<disk, version, env, run, result, worker, machine, used, failover, refused,
                   bounded, before, stop, attached, ticked, status>>

StopRunning ==
    /\ sup = "running" /\ stop
    /\ sup' = "stopping"
    /\ UNCHANGED <<disk, version, env, runVars, bounded, before, stop, attached, ticked, status>>

\* Mutant: a superseded attempt is not waited for.
JudgeEarly ==
    \/ /\ sup = "superseded" /\ sup' = "load" /\ attached' = FALSE
       /\ UNCHANGED <<disk, version, env, runVars, bounded, before, stop, ticked, status>>
    \/ /\ sup \in {"running", "stopping"} /\ run = "returned" /\ result # "nil"
       /\ attached' = FALSE /\ DropRunner
       /\ sup' = "arm" /\ bounded' = TRUE /\ SetPhase("terminal", FALSE)
       /\ UNCHANGED <<disk, version, env, before, stop, ticked>>

\* The loop has ended: a stop is graceful, a superseded attempt reloads, a
\* terminal failure is shown and waited on for a bounded time.
Judge ==
    /\ sup \in {"running", "superseded", "stopping"} /\ run = "returned"
    /\ attached' = FALSE /\ DropRunner
    /\ CASE stop -> Exit /\ UNCHANGED bounded
         [] ~stop /\ sup = "superseded" -> sup' = "load" /\ UNCHANGED <<status, bounded>>
         [] ~stop /\ sup = "running" /\ result # "nil" ->
               sup' = "arm" /\ bounded' = TRUE /\ SetPhase("terminal", FALSE)
    /\ UNCHANGED <<disk, version, env, before, stop, ticked>>

SupervisorStep ==
    \/ Load \/ Recover \/ Arm \/ Change \/ WindowElapses \/ StopWaiting
    \/ Attempt \/ Watch \/ Start \/ Supersede \/ StopRunning \/ Judge

Next ==
    \/ SupervisorStep \/ Tick \/ PublishTick \/ Edit \/ RequestStop
    \/ RunnerStep /\ UNCHANGED supVars

\* Every goroutine is scheduled; the poll ticker and a cancelled select fire.
\* The status ticker owes nothing once Run has returned: the process ends.
\* A session need not end unless its context is cancelled.
Settles ==
    Load \/ Recover \/ Arm \/ Change \/ StopWaiting \/ Attempt \/ Watch \/ Start \/ Judge

RunEnds == (SeeCancel \/ RunReturns) /\ UNCHANGED supVars

WorkerProceeds(w) ==
    /\ \/ StartAttempt(w) \/ LoadState(w) \/ Dial(w) \/ Wake(w) \/ Collect(w)
       \/ (Done \/ worker[w] = "dialled") /\ AttemptEnds(w)
    /\ UNCHANGED supVars

Spec ==
    /\ Init /\ [][Next]_vars
    /\ WF_vars(Settles) /\ WF_vars(Supersede \/ StopRunning) /\ WF_vars(sup # "exited" /\ (Tick \/ PublishTick))
    /\ WF_vars(RunEnds) /\ \A w \in Worker : WF_vars(WorkerProceeds(w))

-----------------------------------------------------------------------------
(* Properties *)

\* The variables of the supervisor and of its Runner keep their types.
TypeOK ==
    /\ disk \in Edits \cup {"valid", "incomplete"} /\ version \in Nat /\ env \in Scenarios
    /\ run \in {"none", "waiting", "joining", "returned"} /\ cancelled \in BOOLEAN
    /\ result \in {"nil", "revoked", "permanent"}
    /\ worker \in [Worker -> {"top", "loading", "dialling", "dialled", "session", "sleeping",
                              "nil", "revoked", "permanent", "joined"}]
    /\ machine \in [Worker -> States] /\ used \in [Worker -> 0..version]
    /\ failover \in Candidate /\ refused \in BOOLEAN
    /\ sup \in {"load", "recover", "arm", "wait", "attempt", "watch", "start", "running",
                "superseded", "stopping", "exited"}
    /\ phase \in Phases /\ bounded \in BOOLEAN /\ before \in 0..version /\ stop \in BOOLEAN
    /\ attached \in BOOLEAN /\ published \in Phases \cup {None} /\ ticked \in Phases \cup {None}
    /\ late \in {"no", "tick", "file"}

\* One Runner at a time: outside an attempt no worker of an earlier Runner is
\* still dialling or serving.
OneRunner ==
    sup \in {"load", "recover", "arm", "wait", "exited"} =>
        run \in {"none", "returned"} /\ \A w \in Worker : worker[w] \notin {"dialled", "session"}

\* A failure stays visible: the return of Run does not erase a terminal phase
\* (setStoppedUnlessTerminal's comment), and status.json, which the tray and
\* the pairing page read, shows how Run ended.  Excepted is a snapshot of the
\* ticker that was taken before Run's last word and written after it.
FailureStaysVisible ==
    /\ [][sup' = "exited" /\ phase = "terminal" => phase' = "terminal"]_vars
    /\ [](sup = "exited" /\ late # "file" => published = phase)

\* ... for which setStoppedUnlessTerminal's comment makes no exception: the
\* code breaks this, and the process ends before another tick.
EndIsPublished == sup = "exited" /\ ticked = None => published = phase

\* A session that was authenticated with a state that has since changed does
\* not go on serving: the loop is superseded (runAttempt's comment).
StaleSessionEnds ==
    \A w \in Worker : []<>(worker[w] = "session" => used[w] = version)

\* A stop ends the supervisor, whatever it was waiting for.
StopEnds == stop ~> sup = "exited"

\* What the supervisor is told to give up it gives up: a superseded session and
\* everything after a stop.
CancelsTakeEffect == StaleSessionEnds /\ StopEnds

\* The primary gets past a Gateway that does not answer: while a candidate is
\* up, a running primary worker reaches one again and again, or has ended.
PrimaryReachesGateway ==
    (\E c \in Candidate : env.reach[c] = "up")
        => []<>(run = "waiting" => worker[0] \in {"dialled", "session", "permanent", "revoked", "nil", "joined"})

\* While Run goes on status.json catches up with the phase and the Runner's
\* health, also after a late snapshot.
StatusCatchesUp == []<>(sup = "exited" \/ ~env.ticks \/ published = StatusOf(phase, attached))

\* What other processes read of the supervisor is what happened to it, as far
\* as status.json can be written.
StatusIsTrue == FailureStaysVisible /\ StatusCatchesUp

\* A state that is complete and no longer changing is picked up: the
\* supervisor does not go on waiting for configuration (waitForStateChange).
ConfigTakesEffect == []<>(disk = "valid" => phase # "pending_config")
=============================================================================
