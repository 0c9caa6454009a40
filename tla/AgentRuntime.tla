---------------------------- MODULE AgentRuntime ----------------------------
(***************************************************************************)
(* The Agent's Runner: one reconnect loop per Gateway candidate, each with *)
(* its own health machine, and the Run that waits for the loops.  Worker 0 *)
(* is the primary: it dials the candidates in failover order.  Worker i > 0*)
(* is pinned to candidate i.  With one worker this is runPrimary.          *)
(*                                                                         *)
(* Every attempt reads the state directory, which an operator may be       *)
(* changing.  How a session ends is the environment's choice; the sessions *)
(* themselves are in SessionMux.  AgentSupervisor builds, starts and       *)
(* cancels the Runner.                                                     *)
(***************************************************************************)
EXTENDS Integers

CONSTANTS
    Workers,        \* number of workers: candidates, bounded by MaxTunnels
    Candidates,     \* number of gateway candidates
    Scenarios,      \* bound: the environments; "reach" is how the candidates answer
                    \* a dial, "edits" how often the operator changes the state,
                    \* "ticks" whether the status ticker runs
    Outcomes        \* bound: how a session may end

Worker == 0..(Workers - 1)
Candidate == 0..(Candidates - 1)

ASSUME RuntimeLimits ==
    /\ Workers \in Nat \ {0} /\ Candidates \in Nat /\ Workers <= Candidates
    /\ Outcomes \subseteq {"revoked", "permanent", "resumeRejected", "transient"}
    /\ \A e \in Scenarios : /\ e.reach \in [Candidate -> {"up", "refuses", "silent", "denies"}]
                            /\ e.edits \in Nat /\ e.ticks \in BOOLEAN

VARIABLES
    disk,        \* what LoadConfig and ValidateRuntime make of the state
                 \* directory: "valid", "incomplete", "truncated" (a hand
                 \* edit), "pending" (a mutation's journal), "corrupt"
    version,     \* the fingerprint of the state directory
    env,         \* the environment, one of Scenarios
    run,         \* Run: "none", "waiting", "joining" (its workers' context is
                 \* cancelled) or "returned"
    cancelled,   \* is the context given to Run done?
    result,      \* what Run returns: "nil", "revoked" or "permanent"
    worker,      \* per worker, where its loop is
    machine,     \* per worker, its health machine
    used,        \* per worker, the state its attempt read
    failover,    \* failoverIndex: also the candidate the primary's session is with
    refused      \* ghost: has a machine refused a transition of a live loop?

runVars == <<run, cancelled, result, worker, machine, used, failover, refused>>

NoRunner ==
    /\ run = "none" /\ cancelled = FALSE /\ result = "nil"
    /\ worker = [w \in Worker |-> "joined"] /\ machine = [w \in Worker |-> "Init"]
    /\ used = [w \in Worker |-> 0] /\ failover = 0
    /\ refused = FALSE /\ env \in Scenarios

-----------------------------------------------------------------------------
(* tunnelstates: the health machine and the aggregate *)

States == {"Init", "Connecting", "Connected", "Degraded", "Reconnecting", "Revoked", "Shutdown"}

Terminal(s) == s \in {"Revoked", "Shutdown"}

LegalTransitions ==
    [Init |-> {"Connecting", "Shutdown"},
     Connecting |-> {"Connected", "Reconnecting", "Revoked", "Shutdown"},
     Connected |-> {"Degraded", "Reconnecting", "Revoked", "Shutdown"},
     Degraded |-> {"Connected", "Reconnecting", "Revoked", "Shutdown"},
     Reconnecting |-> {"Connecting", "Connected", "Revoked", "Shutdown"},
     Revoked |-> {}, Shutdown |-> {}]

\* Where Transition(to) leaves a machine: a terminal state accepts nothing,
\* an illegal transition changes nothing.
Transition(from, to) == IF to \in LegalTransitions[from] THEN to ELSE from
Accepted(from, to) == ~Terminal(from) /\ (from = to \/ to \in LegalTransitions[from])

\* The best state of the transports: the first of State's switch that is seen.
Aggregate ==
    LET saw == {machine[w] : w \in Worker}
        order == <<"Connected", "Degraded", "Connecting", "Reconnecting", "Revoked", "Init", "Shutdown">>
        first == CHOOSE i \in 1..7 : order[i] \in saw /\ \A j \in 1..(i - 1) : order[j] \notin saw
    IN  order[first]

Move(w, to) ==
    /\ machine' = [machine EXCEPT ![w] = Transition(@, to)]
    /\ refused' = (refused \/ ~Accepted(machine[w], to))

-----------------------------------------------------------------------------
(* The reconnect loops: runPinnedWorker, runPrimary *)

Done == cancelled \/ run = "joining"

\* A worker returns why, its machine left in a terminal state.
EndWorker(w, state, why) ==
    /\ worker' = [worker EXCEPT ![w] = why] /\ Move(w, state)

\* The top of the loop: the context, then Connecting.
StartAttempt(w) ==
    /\ worker[w] = "top"
    /\ IF Done THEN EndWorker(w, "Shutdown", "nil")
       ELSE worker' = [worker EXCEPT ![w] = "loading"] /\ Move(w, "Connecting")
    /\ UNCHANGED <<disk, version, env, run, cancelled, result, used, failover>>

\* Mutant: a revoked worker returns before it records why.
AfterAttemptSilent(w, why) ==
    CASE Done -> EndWorker(w, "Shutdown", "nil")
      [] ~Done /\ why = "revoked" -> worker' = [worker EXCEPT ![w] = "revoked"] /\ UNCHANGED <<machine, refused>>
      [] ~Done /\ why = "permanent" -> EndWorker(w, "Shutdown", "permanent")
      [] ~Done /\ why = "resumeRejected" -> worker' = [worker EXCEPT ![w] = "top"] /\ Move(w, "Reconnecting")
      [] ~Done /\ why = "transient" -> worker' = [worker EXCEPT ![w] = "sleeping"] /\ Move(w, "Reconnecting")

\* What the loop makes of an attempt's error: a done context comes first.
AfterAttempt(w, why) ==
    CASE Done -> EndWorker(w, "Shutdown", "nil")
      [] ~Done /\ why = "revoked" -> EndWorker(w, "Revoked", "revoked")
      [] ~Done /\ why = "permanent" -> EndWorker(w, "Shutdown", "permanent")
      [] ~Done /\ why = "resumeRejected" -> worker' = [worker EXCEPT ![w] = "top"] /\ Move(w, "Reconnecting")
      [] ~Done /\ why = "transient" -> worker' = [worker EXCEPT ![w] = "sleeping"] /\ Move(w, "Reconnecting")

\* LoadConfig, ValidateRuntime and the secrets: any state that cannot be read
\* now, a mutation in progress included, is a permanent failure of the worker.
LoadState(w) ==
    /\ worker[w] = "loading"
    /\ used' = [used EXCEPT ![w] = version]
    /\ IF disk = "valid" THEN worker' = [worker EXCEPT ![w] = "dialling"] /\ UNCHANGED <<machine, refused>>
       ELSE AfterAttempt(w, "permanent")
    /\ UNCHANGED <<disk, version, env, run, cancelled, result, failover>>

\* The candidate the dialler stops at, counting from failoverIndex: the first
\* that does not refuse at once.  A silent one uses up the deadline all the
\* candidates share.
Stop(w) ==
    IF w # 0 THEN w
    ELSE LET at(k) == (failover + k) % Candidates
             hits == {k \in Candidate : env.reach[at(k)] # "refuses"}
         IN  IF hits = {} THEN failover ELSE at(CHOOSE k \in hits : \A j \in hits : k <= j)

\* Mutant: the schedule starts at the primary again.
AdvanceStartsOver == 0

\* Every candidate failed: the next attempt starts from the next one.
Advance == (failover + 1) % Candidates

\* dialWithFailover for the primary, one dial for a pinned worker: the index
\* that answered is kept; when all failed the schedule advances; a policy
\* refusal (redirect, 4xx, certificate) is permanent.
Dial(w) ==
    /\ worker[w] = "dialling"
    /\ LET answer == env.reach[Stop(w)] IN
       /\ failover' = CASE w = 0 /\ answer = "up" -> Stop(w)
                        [] w = 0 /\ answer \in {"refuses", "silent"} -> Advance
                        [] OTHER -> failover
       /\ CASE answer = "up" -> worker' = [worker EXCEPT ![w] = "dialled"] /\ UNCHANGED <<machine, refused>>
            [] answer = "denies" -> AfterAttempt(w, "permanent")
            [] OTHER -> AfterAttempt(w, "transient")
    /\ UNCHANGED <<disk, version, env, run, cancelled, result, used>>

\* authenticateOrResume succeeds.
Authenticate(w) ==
    /\ worker[w] = "dialled"
    /\ worker' = [worker EXCEPT ![w] = "session"] /\ Move(w, "Connected")
    /\ UNCHANGED <<disk, version, env, run, cancelled, result, used, failover>>

\* The handshake fails, or the session ends; a cancelled context ends both.
\* Only the primary resumes, and only a session is revoked.
AttemptEnds(w) ==
    /\ worker[w] \in {"dialled", "session"}
    /\ \E why \in Outcomes :
          /\ why = "resumeRejected" => w = 0 /\ worker[w] = "dialled"
          /\ why = "revoked" => worker[w] = "session"
          /\ AfterAttempt(w, why)
    /\ UNCHANGED <<disk, version, env, run, cancelled, result, used, failover>>

\* The backoff passes, or the context ends it.
Wake(w) ==
    /\ worker[w] = "sleeping"
    /\ IF Done THEN EndWorker(w, "Shutdown", "nil")
       ELSE worker' = [worker EXCEPT ![w] = "top"] /\ UNCHANGED <<machine, refused>>
    /\ UNCHANGED <<disk, version, env, run, cancelled, result, used, failover>>

-----------------------------------------------------------------------------
(* Run *)

\* A fresh Runner's Run starts its workers.
StartRun ==
    /\ run' = "waiting"
    /\ worker' = [w \in Worker |-> "top"]
    /\ UNCHANGED <<result, machine, used, failover, refused>>

\* The Runner is dropped; the next one starts afresh.
DropRunner ==
    /\ run' = "none" /\ cancelled' = FALSE /\ result' = "nil"
    /\ worker' = [w \in Worker |-> "joined"] /\ machine' = [w \in Worker |-> "Init"]
    /\ used' = [w \in Worker |-> 0] /\ failover' = 0 /\ UNCHANGED refused

Ended(w) == worker[w] \in {"nil", "revoked", "permanent"}

\* Run takes a worker's result: a revocation cancels the others, any other
\* end is joined to the result and the rest go on.
Collect(w) ==
    /\ run = "waiting" /\ Ended(w)
    /\ worker' = [worker EXCEPT ![w] = "joined"]
    /\ result' = IF worker[w] = "nil" THEN result ELSE worker[w]
    /\ run' = IF worker[w] = "revoked" THEN "joining" ELSE run
    /\ UNCHANGED <<disk, version, env, cancelled, machine, used, failover, refused>>

\* Run sees its context done: the result is nil whatever was joined.
SeeCancel ==
    /\ run = "waiting" /\ cancelled
    /\ run' = "joining" /\ result' = "nil"
    /\ UNCHANGED <<disk, version, env, cancelled, worker, machine, used, failover, refused>>

\* No worker is left: the primary's machine is shut down and Run returns.
RunReturns ==
    /\ \/ run = "joining" /\ \A w \in Worker : Ended(w) \/ worker[w] = "joined"
       \/ run = "waiting" /\ \A w \in Worker : worker[w] = "joined"
    /\ run' = "returned"
    /\ machine' = [machine EXCEPT ![0] = Transition(@, "Shutdown")]
    /\ UNCHANGED <<disk, version, env, cancelled, result, worker, used, failover, refused>>

WorkerStep(w) ==
    \/ StartAttempt(w) \/ LoadState(w) \/ Dial(w) \/ Authenticate(w) \/ AttemptEnds(w)
    \/ Wake(w) \/ Collect(w)

RunnerStep == (\E w \in Worker : WorkerStep(w)) \/ SeeCancel \/ RunReturns

-----------------------------------------------------------------------------
(* Properties *)

\* When Run has returned, no machine counts as live capacity, and a revocation
\* is still what the aggregate shows (Run's comment on standby machines).
EndedIsTerminal ==
    run = "returned" => /\ \A w \in Worker : Terminal(machine[w])
                        /\ result = "revoked" => Aggregate = "Revoked"

\* Run stops its workers for a revocation or for its own context, never
\* because one Gateway failed for good.
HealthyWorkersSurvive == run = "joining" => cancelled \/ result = "revoked"

\* The aggregate says Connected only while some worker has a session, a stopped
\* Runner shows how it ended, no failed Gateway stops the workers of others, and
\* the loops never ask a machine for a transition it refuses, so what the tray
\* shows is never left behind by a rejected transition.
HealthIsTrue ==
    /\ Aggregate = "Connected" => \E w \in Worker : worker[w] = "session"
    /\ ~refused
    /\ EndedIsTerminal /\ HealthyWorkersSurvive
=============================================================================
