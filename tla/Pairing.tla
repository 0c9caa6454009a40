------------------------------ MODULE Pairing ------------------------------
(***************************************************************************)
(* Pairing, enrollment and unpair: the loopback page that the Agent's      *)
(* service hosts (webapp), the clients that delegate to it (the CLI, Setup *)
(* and the browser), and the Control Panel's enrollment sessions, which    *)
(* are external and modelled from how internal/enrollment uses them.       *)
(*                                                                         *)
(* A client finds the page through the endpoint record, verifies the       *)
(* process behind it, reads the capability file, fetches the process's     *)
(* CSRF token and posts one request.  The two enrollment handlers run under*)
(* enrollmentMu, across their calls to the Panel; unpair and rotation do   *)
(* not.  The process may stop or die at any point.  A transaction on the   *)
(* state directory is one step, as StateTransaction justifies, except that *)
(* the identity reset shows the moment at which the seed is gone, because  *)
(* ApplyPairing looks at the identity outside the lock.                    *)
(***************************************************************************)
EXTENDS Integers

CONSTANTS
    Clients,          \* the requests that may be in flight
    Sessions,         \* bound: enrollment sessions
    Plans             \* bound: what the environment does; "ops" the requests
                      \* each client makes, and how many enrollment sessions,
                      \* process starts, identities and capabilities there are

Ops == {"start", "claim", "unpair", "reset", "rotate"}

ASSUME PairingPlans ==
    /\ Sessions \in Nat
    /\ \A p \in Plans : /\ p.ops \in [Clients -> SUBSET Ops] /\ p.sessions \in 1..Sessions
                        /\ {p.starts, p.keys, p.capabilities} \subseteq Nat \ {0}

VARIABLES
    plan,        \* the environment, one of Plans
    started,     \* processes started so far; process n has CSRF and listener token n
    serving,     \* the process serving the page, 0 for none
    record,      \* pairing.endpoint.json: the process it names, 0 for none
    file,        \* pairing.capability
    capability,  \* App.capability
    generated,   \* capabilities generated so far
    pending,     \* App.pendingEnrollment: a session, 0 for nil
    mu,          \* who holds enrollmentMu
    state,       \* the files: the stored seed, 0 while there is none, and the
                 \* session whose token and whose configuration they hold
    keys,        \* identities generated so far
    journal,     \* rollback journal of an identity reset: who runs it, and the
                 \* state before it
    boot,        \* startAgent: "off", "mint" (it saw no seed) or "ready"
    panel,       \* per session, the Panel's state and the key it was opened for
    expired,     \* the sessions whose expires_at has passed
    req,         \* per client, its request
    overlapped,  \* ghost: did two rotations of this process overlap?
    asked,       \* ghost: has an identity reset been asked for?
    retired,     \* ghost: keys that a completed reset through the page replaced
    overwritten, \* ghost: keys that a seed generated on a stale reading replaced
    received     \* ghost: sessions whose credentials reached the Agent

pairvars == <<plan, started, serving, record, file, capability, generated, pending, mu, state, keys,
              journal, boot, panel, expired, req, overlapped, asked, retired, overwritten, received>>
ghosts == <<overlapped, asked, retired, overwritten, received>>

Session == 1..Sessions
Free == "free"
Idle == [pc |-> "idle", op |-> "none", csrf |-> 0, cap |-> 0, val |-> 0]
Dead == "dead"
NoState == [seed |-> 0, token |-> 0, config |-> 0]
NoJournal == [by |-> Free, before |-> NoState]

\* Where a request is on its client's side; everywhere else it is in a handler.
AtClient == {"idle", "verified", "ready"}

PairInit ==
    /\ plan \in Plans /\ started = 1 /\ serving = 1 /\ record = 1
    /\ file = 1 /\ capability = 1 /\ generated = 1
    /\ pending = 0 /\ mu = Free /\ state = [NoState EXCEPT !.seed = 1] /\ keys = 1
    /\ journal = NoJournal /\ boot = "off"
    /\ panel = [s \in Session |-> [state |-> "none", key |-> 0]] /\ expired = {}
    /\ req = [c \in Clients |-> Idle]
    /\ overlapped = FALSE /\ asked = FALSE /\ retired = {} /\ overwritten = {} /\ received = {}

At(c, pc) == req[c].pc = pc
Goto(c, pc, val) == req' = [req EXCEPT ![c].pc = pc, ![c].val = val]
End(c) == req' = [req EXCEPT ![c] = Idle]
Opened == {s \in Session : panel[s].state # "none"}
Release(c) == mu' = IF mu = c THEN Free ELSE mu

-----------------------------------------------------------------------------
(* The client: requestPairingServiceJSON, requestServiceUnpair *)

\* serviceServingStateDir: the record names the process that answers.
Served == record # 0 /\ serving = record

Verify(c, op) ==
    /\ At(c, "idle") /\ Served /\ op \in plan.ops[c]
    /\ req' = [req EXCEPT ![c].pc = "verified", ![c].op = op]
    /\ UNCHANGED <<plan, started, serving, record, file, capability, generated, pending, mu, state,
                   keys, journal, boot, panel, expired, ghosts>>

\* Reads the capability file; GET /api/state answers with the CSRF token.
Authorise(c) ==
    /\ At(c, "verified")
    /\ IF serving # 0 /\ file = capability
       THEN req' = [req EXCEPT ![c].pc = "ready", ![c].csrf = serving, ![c].cap = file]
       ELSE End(c)
    /\ UNCHANGED <<plan, started, serving, record, file, capability, generated, pending, mu, state,
                   keys, journal, boot, panel, expired, ghosts>>

\* requireCapability and requireCSRF, in the process that answers now.
HasCapability(c) == capability = req[c].cap
HasCSRF(c) == serving = req[c].csrf

Post(c) ==
    /\ At(c, "ready")
    /\ IF HasCapability(c) /\ HasCSRF(c)
       THEN Goto(c, IF req[c].op = "reset" THEN "unpair" ELSE req[c].op, 0)
       ELSE End(c)
    /\ UNCHANGED <<plan, started, serving, record, file, capability, generated, pending, mu, state,
                   keys, journal, boot, panel, expired, ghosts>>

-----------------------------------------------------------------------------
(* handleEnrollmentStart *)

\* A pending enrollment that start must not replace.
PendingLive == pending # 0 /\ pending \notin expired

\* Under enrollmentMu: the conflict check, then LoadIdentity, which fails
\* while a transaction is open.
EnrollmentStart(c) ==
    /\ At(c, "start") /\ mu = Free
    /\ IF PendingLive \/ journal # NoJournal
       THEN End(c) /\ UNCHANGED mu
       ELSE mu' = c /\ Goto(c, "create", state.seed)
    /\ UNCHANGED <<plan, started, serving, record, file, capability, generated, pending, state, keys,
                   journal, boot, panel, expired, ghosts>>

\* Begin: the Panel opens a session for the key; or the call fails, whether
\* or not the Panel has opened it.
Create(c) ==
    /\ At(c, "create")
    /\ \/ \E s \in 1..plan.sessions :
             /\ panel[s].state = "none" /\ \A t \in 1..(s - 1) : panel[t].state # "none"
             /\ panel' = [panel EXCEPT ![s] = [state |-> "created", key |-> req[c].val]]
             /\ \/ Goto(c, "prove", s) /\ UNCHANGED mu
                \/ End(c) /\ Release(c)
       \/ End(c) /\ Release(c) /\ UNCHANGED panel
    /\ UNCHANGED <<plan, started, serving, record, file, capability, generated, pending, state, keys,
                   journal, boot, expired, ghosts>>

\* Begin proves possession of the key; the handler stores the session.
Prove(c) ==
    /\ At(c, "prove") /\ End(c) /\ Release(c)
    /\ \/ /\ req[c].val \notin expired
          /\ panel' = [panel EXCEPT ![req[c].val].state = "proven"]
          /\ pending' \in {req[c].val, pending}
       \/ UNCHANGED <<panel, pending>>
    /\ UNCHANGED <<plan, started, serving, record, file, capability, generated, state, keys, journal, boot,
                   expired, ghosts>>

-----------------------------------------------------------------------------
(* handleEnrollmentClaim *)

EnrollmentClaim(c) ==
    /\ At(c, "claim") /\ mu = Free
    /\ IF pending = 0 THEN End(c) /\ UNCHANGED mu ELSE mu' = c /\ Goto(c, "ask", pending)
    /\ UNCHANGED <<plan, started, serving, record, file, capability, generated, pending, state, keys,
                   journal, boot, panel, expired, ghosts>>

\* Claim: one answer of the Panel carries the credentials.
Claimable(s) == s \notin expired /\ panel[s].state = "approved"

Hand(s) == Claimable(s) /\ panel' = [panel EXCEPT ![s].state = "claimed"]

ClaimRest == UNCHANGED <<plan, started, serving, record, file, capability, generated, state, keys,
                         journal, boot, expired, overlapped, asked, retired, overwritten>>

\* Mutant: enrollmentMu is released before the commit.
AnsweredUnlocks(c) ==
    /\ At(c, "ask") /\ Hand(req[c].val) /\ Goto(c, "identity", req[c].val)
    /\ received' = received \cup {req[c].val} /\ pending' = 0 /\ Release(c)
    /\ ClaimRest

\* It arrives: the exchange is over before the credentials are committed.
Answered(c) ==
    /\ At(c, "ask") /\ Hand(req[c].val) /\ Goto(c, "identity", req[c].val)
    /\ received' = received \cup {req[c].val} /\ pending' = 0 /\ UNCHANGED mu
    /\ ClaimRest

\* No credentials: not approved yet, refused, or the answer that carried them
\* was lost.  The session stays pending.
Unanswered(c) ==
    /\ At(c, "ask") /\ End(c) /\ Release(c)
    /\ Hand(req[c].val) \/ UNCHANGED panel
    /\ UNCHANGED <<pending, received>> /\ ClaimRest

\* ApplyPairing validates, and LoadOrCreateIdentity reads the secrets outside
\* the lock and the transaction.
ReadIdentity(c) ==
    /\ At(c, "identity")
    /\ \/ Goto(c, IF state.seed = 0 THEN "mint" ELSE "commit", req[c].val) /\ UNCHANGED mu
       \/ End(c) /\ Release(c)
    /\ UNCHANGED <<plan, started, serving, record, file, capability, generated, pending, state, keys,
                   journal, boot, panel, expired, ghosts>>

\* LoadOrCreateIdentity saves the secrets it read, a cleared state, with a new
\* seed, whatever has become of the reset that cleared them.
SaveNewSeed ==
    /\ keys' = keys + 1 /\ state' = [state EXCEPT !.seed = keys + 1, !.token = 0]
    /\ overwritten' = overwritten \cup ({state.seed} \ {0})

\* It saw no seed, because a reset was under way.
MintIdentity(c) ==
    /\ At(c, "mint")
    /\ \/ SaveNewSeed /\ Goto(c, "commit", req[c].val) /\ UNCHANGED mu
       \/ End(c) /\ Release(c) /\ UNCHANGED <<keys, state, overwritten>>
    /\ UNCHANGED <<plan, started, serving, record, file, capability, generated, pending, journal, boot,
                   panel, expired, overlapped, asked, retired, received>>

\* configureAgentState commits the credentials under the lock, or fails and
\* keeps what was there; the claim then ends, with no way back to the session.
Commit(c) ==
    /\ At(c, "commit")
    /\ \/ /\ journal = NoJournal /\ Goto(c, "rotate", 0) /\ UNCHANGED mu
          /\ state' = [state EXCEPT !.token = req[c].val, !.config = req[c].val]
       \/ End(c) /\ Release(c) /\ UNCHANGED state
    /\ UNCHANGED <<plan, started, serving, record, file, capability, generated, pending, keys, journal,
                   boot, panel, expired, ghosts>>

-----------------------------------------------------------------------------
(* rotateCapability, for handleRotateCapability and at the end of a claim *)

RotateRest == UNCHANGED <<plan, started, serving, record, pending, state, keys, journal, boot, panel,
                          expired, asked, retired, overwritten, received>>

\* Mutant: the memory is set first and the file written afterwards.
RotateMemoryFirst(c) ==
    /\ At(c, "rotate")
    /\ \/ /\ generated < plan.capabilities /\ generated' = generated + 1
          /\ capability' = generated + 1 /\ file' \in {file, generated + 1}
          /\ overlapped' = (overlapped \/ \E d \in Clients : At(d, "publish"))
          /\ Goto(c, "publish", generated + 1) /\ UNCHANGED mu
       \/ End(c) /\ Release(c) /\ UNCHANGED <<generated, file, capability, overlapped>>
    /\ RotateRest

\* The file first; a failed write leaves both as they were.
Rotate(c) ==
    /\ At(c, "rotate") /\ UNCHANGED capability
    /\ \/ /\ generated < plan.capabilities /\ generated' = generated + 1 /\ file' = generated + 1
          /\ overlapped' = (overlapped \/ \E d \in Clients : At(d, "publish"))
          /\ Goto(c, "publish", generated + 1) /\ UNCHANGED mu
       \/ End(c) /\ Release(c) /\ UNCHANGED <<generated, file, overlapped>>
    /\ RotateRest

PublishCapability(c) ==
    /\ At(c, "publish") /\ capability' = req[c].val /\ End(c) /\ Release(c)
    /\ UNCHANGED <<plan, started, serving, record, file, generated, pending, state, keys, journal,
                   boot, panel, expired, ghosts>>

-----------------------------------------------------------------------------
(* unpairAgentState, through the page or by the CLI itself *)

\* What a transaction finds: withConfigLock recovers what a dead one left.
Stored == IF journal.by = Dead THEN journal.before ELSE state

\* The lock is free, and a dead transaction is the taker's to recover.
Lockable == journal.by \in {Free, Dead}

Unpaired(s) == [s EXCEPT !.token = 0, !.config = 0]

UnpairRest == UNCHANGED <<plan, started, serving, record, file, capability, generated, pending, mu, boot,
                          panel, expired, overlapped, retired, overwritten, received>>

\* Mutant: every unpair replaces the identity.
UnpairAlwaysResets(c) ==
    /\ At(c, "unpair")
    /\ \/ /\ Lockable /\ keys < plan.keys /\ keys' = keys + 1
          /\ state' = [Unpaired(Stored) EXCEPT !.seed = keys + 1]
          /\ End(c) /\ journal' = NoJournal /\ UNCHANGED asked
       \/ End(c) /\ UNCHANGED <<state, journal, keys, asked>>
    /\ UnpairRest

\* Without a reset the identity is kept; with one the seed is cleared first
\* and generated before the transaction commits.
Unpair(c) ==
    /\ At(c, "unpair")
    /\ \/ /\ Lockable /\ req[c].op = "reset" /\ keys < plan.keys
          /\ state' = NoState /\ journal' = [by |-> c, before |-> Stored]
          /\ Goto(c, "reseed", 0) /\ asked' = TRUE
       \/ /\ Lockable /\ req[c].op # "reset"
          /\ state' = Unpaired(Stored) /\ journal' = NoJournal /\ End(c) /\ UNCHANGED asked
       \/ End(c) /\ UNCHANGED <<state, journal, asked>>
    /\ UNCHANGED keys /\ UnpairRest

\* LoadOrCreateIdentity, then the commit; or a failure, which restores the
\* files.
Reseed(c) ==
    /\ At(c, "reseed") /\ End(c) /\ journal' = NoJournal
    /\ \/ /\ IF state.seed = 0 THEN keys' = keys + 1 /\ state' = [state EXCEPT !.seed = keys + 1]
                               ELSE UNCHANGED <<keys, state>>
          /\ retired' = retired \cup {journal.before.seed}
       \/ state' = journal.before /\ UNCHANGED <<keys, retired>>
    /\ UNCHANGED <<plan, started, serving, record, file, capability, generated, pending, mu, boot, panel,
                   expired, overlapped, asked, overwritten, received>>

\* unpairState: the CLI clears the state itself when no process serves it.
UnpairHere(reset) ==
    /\ ~Served /\ Lockable /\ (Stored.config # 0 \/ reset) /\ (reset => keys < plan.keys)
    /\ journal' = NoJournal /\ asked' = (asked \/ reset)
    /\ IF reset THEN keys' = keys + 1 /\ state' = [Unpaired(Stored) EXCEPT !.seed = keys + 1]
                ELSE state' = Unpaired(Stored) /\ UNCHANGED keys
    /\ UNCHANGED req /\ UnpairRest

-----------------------------------------------------------------------------
(* The service process and the Panel *)

\* The process ends: by a stop, which withdraws the record if there is time,
\* or by a crash.  Its memory, its locks and its handlers are gone; the
\* journal of a handler stays.
Halt ==
    /\ serving # 0 \/ boot # "off"
    /\ serving' = 0 /\ boot' = "off" /\ record' \in {record, 0}
    /\ capability' = 0 /\ pending' = 0 /\ mu' = Free /\ overlapped' = FALSE
    /\ journal' = IF journal = NoJournal THEN journal ELSE [journal EXCEPT !.by = Dead]
    /\ req' = [c \in Clients |-> IF req[c].pc \in AtClient THEN req[c] ELSE Idle]
    /\ UNCHANGED <<plan, started, file, generated, state, keys, panel, expired, asked, retired,
                   overwritten, received>>

BootRest == UNCHANGED <<plan, file, generated, pending, mu, panel, expired, req, overlapped, asked, retired,
                        received>>

\* initializeServiceIdentity: the capability is kept; LoadOrCreateIdentity
\* reads the secrets, also while a journal waits for its recovery.
BootReads ==
    /\ serving = 0 /\ boot = "off" /\ started < plan.starts /\ started' = started + 1
    /\ boot' = IF state.seed = 0 THEN "mint" ELSE "ready"
    /\ UNCHANGED <<serving, record, capability, state, keys, journal, overwritten>> /\ BootRest

BootMints ==
    /\ boot = "mint" /\ SaveNewSeed /\ boot' = "ready"
    /\ UNCHANGED <<started, serving, record, capability, journal>> /\ BootRest

NewApp == capability' = file

Listen(process) == record' = process /\ serving' = process

\* The rest of startAgent: bind, publish the record, serve.
Boot ==
    /\ boot = "ready" /\ boot' = "off" /\ NewApp /\ Listen(started)
    /\ UNCHANGED <<started, state, keys, journal, overwritten>> /\ BootRest

\* The supervisor meets the journal at its first read of the configuration,
\* beside the page, and recovers it.
RecoverJournal ==
    /\ boot = "ready" \/ serving # 0
    /\ journal.by = Dead /\ state' = journal.before /\ journal' = NoJournal
    /\ UNCHANGED <<started, serving, record, capability, keys, boot, overwritten>> /\ BootRest

\* The operator approves a proven session on the Panel.
Approve(s) ==
    /\ panel[s].state = "proven" /\ s \notin expired
    /\ panel' = [panel EXCEPT ![s].state = "approved"]
    /\ UNCHANGED <<plan, started, serving, record, file, capability, generated, pending, mu, state,
                   keys, journal, boot, expired, req, ghosts>>

\* Time passes the session's expires_at.
Expire(s) ==
    /\ s \in Opened \ expired /\ expired' = expired \cup {s}
    /\ UNCHANGED <<plan, started, serving, record, file, capability, generated, pending, mu, state,
                   keys, journal, boot, panel, req, ghosts>>

Waits(c) == EnrollmentStart(c) \/ EnrollmentClaim(c)

Handle(c) ==
    \/ Create(c) \/ Prove(c) \/ Answered(c) \/ Unanswered(c) \/ ReadIdentity(c)
    \/ MintIdentity(c) \/ Commit(c) \/ Rotate(c) \/ PublishCapability(c) \/ Unpair(c) \/ Reseed(c)

PairNext ==
    \/ \E c \in Clients :
          \/ \E op \in Ops : Verify(c, op)
          \/ Authorise(c) \/ Post(c) \/ Waits(c) \/ Handle(c)
    \/ \E reset \in BOOLEAN : UnpairHere(reset)
    \/ Halt \/ BootReads \/ BootMints \/ Boot \/ RecoverJournal
    \/ \E s \in Session : Approve(s) \/ Expire(s)

-----------------------------------------------------------------------------
(* Properties *)

\* Fairness: a handler's calls have timeouts, sync.Mutex starves nobody,
\* and time passes.  Clients, the operator and the service owe nothing.
PairSpec ==
    /\ PairInit /\ [][PairNext]_pairvars
    /\ \A c \in Clients : WF_pairvars(Handle(c)) /\ SF_pairvars(Waits(c))
    /\ \A s \in Session : WF_pairvars(Expire(s))

\* The types; the seed is missing only while a journal can bring it back, and
\* a session has a key exactly when the Panel created it.
PairTypeOK ==
    /\ plan \in Plans /\ started \in 1..plan.starts /\ serving \in {0, started} /\ record \in {0} \cup 1..started
    /\ file \in 1..generated /\ capability \in 0..generated /\ generated \in 1..plan.capabilities
    /\ pending \in 0..Sessions /\ mu \in Clients \cup {Free}
    /\ keys \in 1..(plan.keys + 1) /\ boot \in {"off", "mint", "ready"}
    /\ \A f \in {state, journal.before} : f \in [seed : 0..keys, token : 0..Sessions, config : 0..Sessions]
    /\ journal.by \in Clients \cup {Free, Dead} /\ (state.seed = 0 => journal # NoJournal)
    /\ \A s \in Session : panel[s].state \in {"none", "created", "proven", "approved", "claimed"}
    /\ \A s \in Session : (panel[s].state = "none") <=> (panel[s].key = 0)
    /\ expired \subseteq Session
    /\ retired \cup overwritten \subseteq 1..keys /\ asked \in BOOLEAN /\ received \subseteq Session /\ overlapped \in BOOLEAN

\* Re-pairing the same device does not silently mint a second identity
\* (unpairAgentState's comment): until a reset is asked for, no unpair, claim,
\* crash or restart changes the key.  Once one was asked for, and whether it
\* completed, failed or died, the device holds the key its pairing was issued
\* for, with the token of that pairing, and no token without a pairing.  Two
\* cases are excepted, by the key of the pairing.  A completed reset does not
\* end the enrollment that is pending for the key it replaced.  And a seed
\* generated on a reading that a reset has made stale replaces what is stored
\* by then: NoSilentIdentity says that it does not, and the code breaks it.
PairedKeyIsEnrolled ==
    /\ asked \/ state.seed = 1
    /\ journal = NoJournal /\ overwritten = {} => state.token = state.config
    /\ state.config = 0 => state.token = 0
    /\ state.config # 0 /\ panel[state.config].key \notin retired \cup overwritten
         => state.seed = panel[state.config].key

\* A stored seed is only replaced by a reset.
NoSilentIdentity == overwritten = {}

\* A claim whose credentials have arrived is never presented as retryable,
\* also when they could not be committed (handleEnrollmentClaim's comment).
ClaimedIsNotPending == mu = Free => pending \notin received

\* Claims commit in the order of their sessions: credentials of an earlier
\* session never replace those of a later one (enrollmentMu is held over the
\* calls to the Panel and the commit).
LaterSessionWins == [][{state.config, state.config'} \subseteq Session => state.config' >= state.config]_pairvars

\* Unless two rotations overlapped, the file and the process agree on the
\* capability whenever no rotation is under way: the tray and the CLI, which
\* read the file, are let in (rotateCapability's comment).
CapabilityInStep ==
    serving # 0 /\ ~overlapped /\ (\A c \in Clients : ~At(c, "publish")) => file = capability

\* What the pairing page acts on is what the Panel and the files hold: the
\* enrollment it may retry and the capability it checks.
PageInStep == ClaimedIsNotPending /\ CapabilityInStep

\* A pending enrollment, also one whose answer was lost, stops blocking new
\* ones (pendingEnrollmentSnapshot's comment).
StartReopens == []<>~PendingLive

\* Every request is answered: no handler keeps enrollmentMu or the lock.
RequestsEnd == \A c \in Clients : []<>(req[c].pc \in AtClient)

\* Enrollments commit in order, and none blocks the page or the next one for
\* ever, whatever answer is lost or refused.
EnrollmentsComplete == LaterSessionWins /\ StartReopens /\ RequestsEnd
=============================================================================
