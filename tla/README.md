# HooshiX Agent and Gateway: TLA+ specifications

Models, model-checking configurations and machine-checked proofs for
HooshiXAgent: the tunnel, both ends of a public connection, the Agent's process
and what the programs keep on disk. Paths are relative to the repository
(`src/`), for example `internal/gateway/session.go`.

## The system

A public client reaches a service on a private machine through

    client -> reverse proxy -> Gateway == WSS session (streams) == Agent -> loopback service
    local client -> connector -> Gateway (private endpoints)

The Agent opens WebSocket sessions to its Gateways, a primary and standbys. The
Gateway registers them, checks their authorization against published metadata,
and multiplexes streams (HTTP requests, TCP connections, UDP flows) over them.
Protocol v1 has no pacing; v2 (ADR-0021) adds a credit window to each direction
of an HTTP or TCP stream. The Agent's supervisor runs one Runner at a time from
`config.json` and a secret store, which commands and the pairing page change
under a lock file and a rollback journal. Setup installs and upgrades all of it.

### Inventory

| Part | Code | Modules |
|---|---|---|
| credit windows, Agent receive path | `tunnelwindow`, `agent/session.go`, `agent/resources.go` | CreditAccount, CreditFlow |
| Gateway streams, queues and teardown | `gateway/session.go` | GatewayStream |
| multiplexing: IDs, writers, sequence, terminal frames | both `session.go` | SessionMux |
| registry, resume, drain, authorization | `gateway/gateway.go`, `gateway/session.go` | SessionRegistry |
| status exporter | `gateway/status_exporter.go` | StatusExporter |
| HTTP, TCP, UDP and connector ingress; shutdown | `gateway/gateway.go`, `connector.go`, `public_tcp.go`, `public_udp.go`, `cmd/gateway` | PublicEdge |
| admission limits | `gateway/gatewayresources` | Admission |
| connector client and Connect window | `connector`, `connectgui` | ConnectorClient |
| reconnect, failover, tunnel states | `agent/runtime.go`, `agent/tunnelstates` | AgentRuntime |
| supervisor, status.json | `agent/supervisor` | AgentSupervisor |
| pairing page, enrollment, unpair | `agent/webapp`, `enrollment`, `agent/unpair*.go`, `agent/svc` | Pairing |
| state transactions | `agent/state_transaction.go`, `unpair.go`, `config.go` | StateTransaction |
| config lock | `agent/config_lock.go` | ConfigLock |
| live metadata | `gateway/live_metadata.go` | LiveMetadata |
| setup and uninstaller | `cmd/hooshix-setup` | SetupTransaction, SetupSettings |
| wire encoding, JSON validation, command line, tray, windows | the rest | none (see Not modelled) |

`PROJECT.json` lists the parts in full, the source lines behind every
definition, and the hazards that guided the choice of properties.

## Modules

**CreditAccount** is the abstract promise of one direction of a v2 stream, on
byte counts: every credited byte is usable by the sender, in flight, held by the
receiver, or on its way back.

**CreditFlow** is the protocol: `Window.Take`, `Add` and `Close`, `sendBytes`,
the ordered tunnel, the Agent's `handleStreamOpen`, `handleData`, `enqueue` and
`finishStream`, and the consumer `writeLocal`, which releases the reservation
first and returns credit after the local write. A TCP upload may half-close: the
consumer drains the queue, closes the target's write side and takes no more. It
is written for the request direction. With `Unasked = 0` it is the response direction, except that the
Gateway keeps the queue of an ended stream for its reader; that side is in
GatewayStream. `Account(s)` is the refinement mapping to CreditAccount.

**GatewayStream** has one action per critical section of the goroutines around a
stream: the session's read loop, the handler, the reader, a UDP flow's watcher
and `failAll`. A handler uploads until its client is done or the upload must
stop (`MustStop`), and ends as its kind of ingress ends. `finish` drains the channel one payload per step, because `Read`
receives from that channel without `queueMu`. Two steps are coarser than the
code: `releaseQueuedChunks`, and clearing the tail together with releasing its
bytes. In between, another stream could only see a fuller budget.

**SessionMux** puts the two writers, the two read loops, the handlers and the
Agent's stream servers of one transport side by side. A sender queues a frame
and waits for the writer's answer; a control sender may give up, and the writer
then drops the frame without using a sequence number. Data frames need credit,
which the Gateway's reading handlers and the Agent's consumers return. When a
stream's queue is full the Gateway's read loop itself sends `stream_error`. The Agent's writer merges
its queues by acceptance order, so they are one FIFO.

**SessionRegistry** follows a connection through admission, handshake or resume,
registration, heartbeats with revalidation, expiry, and its end, with the maps
the Gateway keeps under `gateway.mu`. A session object is named by its connection.
**StatusExporter** is the bounded queue behind the registry's status signals.

**PublicEdge** follows flows of the four ingresses from arrival to release. What
a flow must pass is a sequence of stages per kind (`IngressStages`, `TCPStages`,
`UDPStages`, `ConnectorStages`); `held` records what it has taken and `Unwind`
gives it back in reverse. Managers reconcile, close and return; `main` walks
from the signal to the exit. **Admission** is the inside of the limiter stages.

**ConnectorClient** is the other end: the window's session, `Serve`, and the two
copying goroutines of each `proxy`.

**AgentRuntime** has one loop per candidate Gateway and the `Run` that joins
them; **AgentSupervisor** extends it with the loop that loads the state, recovers
an interrupted mutation, waits, starts and supersedes the Runner, and publishes
`status.json`. **Pairing** is the page in the same process, its clients and the
Control Panel, which is external; it keeps seed, token and configuration of the
device, and a start of the service reads the identity before anything recovers a
journal.

**StateTransaction** has one action per file-system effect of a mutating command
(recovery, snapshot, manifest, write, restore, unlink of a journal entry), with
errors and process crashes between them, and a reader that takes no lock.
**ConfigLock** separates the system calls of `withConfigLock`, each of which may
fail; a file is named after the process that created it, and is empty, holds a
part of the record, or the record.

**LiveMetadata** interleaves a publisher with the steps of a refresh.
**SetupTransaction** is one run of Setup after another on a machine with a
Service Control Manager that acts at its own pace; **SetupSettings** follows the
settings file through Setup and the uninstaller.

**CreditAccountProofs**, **ConfigLockProofs**, **StateTransactionProofs**,
**LiveMetadataProofs**, **LimitsProofs** (Admission and StatusExporter),
**RegistrySteps** with **RegistryProofs**, and **EdgeProofs** hold the theorems.

The MC modules choose instances and combine components that belong together; a
behaviour of a combined module is about one of them (`subject`), so combining
adds their states and does not multiply them. Environments are chosen in the
initial state from small sets (`Scenarios`, `Plans`, `Machines`, `Loads`,
`FaultSets`), so that each fault meets the operations it interacts with.

Definitions marked "Mutant" are variants of the definition below them with a
plausible bug. Nothing in a next-state relation uses them. Each shows that the
property it is paired with in `PROJECT.json` can fail.

## Runs

Each run is `tlc -config <cfg> <MC module>`.

| Configuration | Module | Expected | What it shows |
|---|---|---|---|
| Streams | MCStreams | pass | paced senders are never reset for their bytes nor starved, and implement CreditAccount; budgets stay exact; no response byte is lost or repeated, also when the session fails or the handler leaves first |
| Mux | MCSessionMux | pass | two ends running this code never blame one another; a response reported complete is whole; one terminal frame per stream, after its data; everybody returns who does not wait for credit |
| Control | MCControl | pass | a primary whenever there is a tunnel, within both capacity limits; a session is resumed once; revocation, expiry and shutdown reach sessions that were still registering; the exporter accounts for every signal and stops |
| Edge | MCEdge | pass | every admission unit is given back once; closed managers are quiet; flows follow the metadata; stalls end; the process exits; fair shares hold; connector slots, half-closes, and the count the window shows |
| Agent | MCAgentSupervisor | pass | one Runner at a time; failures stay visible; stale sessions end; the primary gets past dead Gateways; the paired key is the enrolled one; enrollment never blocks for ever |
| Disk | MCDisk | pass | readable state is never mixed; the lock excludes unless a live process's file is unlinked; a failed Setup restores, and the next run can rely on it; kept settings are usable; lookups answer from one published revision |
| StreamOrder | MCStreams | violation | `Read` overtakes `finish` and reorders a body |
| JournalRecovery | MCDisk | violation | a crash inside `os.RemoveAll` leaves an unrecoverable journal |
| LockRace | MCDisk | violation | two contenders reclaim one dead owner's lock |
| FailedUpgrade | MCDisk | violation | a payload commit that fails leaves the service stopped |
| StalledAgent | MCEdge | violation | an upload waiting for credit keeps its ingress slot |
| ConfigWaits | MCAgentSupervisor | violation | a configuration completed between load and fingerprint is not noticed |

A property of a run is often the conjunction of several that belong together
(`SetupIsTransaction`, `RegistryInStep`, `EndsAreTrue`, ...); each conjunct has its
own definition and comment. Each module also states its type invariant; the
runs do not list these (they hold in the same models), nor `WithinBudget`, `NeverOverGrants` and
`OwnersHoldThePath`, which are proved.

A violation run compares the code with a sentence of a document or a comment;
`findings` in `PROJECT.json` quotes it. The violations are executions of the
models; none was reproduced on the running program.

### Further observations

TLC also found the following with a constant or a property of a run changed, or
they were met while the code was translated. They have no configuration.

Streams and sessions:
* Two uploads that respect their credit, each granted the whole session budget,
  reset one another (`agent/resources.go:24`; ADR-0021:73 expects no resets).
  `PacedNeverReset` therefore speaks of an upload that is alone.
* Frames below `minTunnelFrame` run out of slots before bytes, which resets even
  a sender that is alone and respects its credit (`agent/resources.go:40-41`:
  "the documented byte budget, not an accidental slot count, is what bounds a
  stream"); `PacedNeverReset` says that nothing else does. A grant smaller than a
  waiting frame does not unblock it (`window.go:119-122`).
* A connector's UDP flow whose stream is gone goes on as long as its client sends
  datagrams, since `sendDatagram` does not look for the stream
  (`connector.go:217-231`); `FinishedStreamsEnd` excludes it, and assumes that a
  TCP connector does not send empty data frames for ever (`connector.go:294`).
* The read loop's `stream_error` is a control frame and overtakes data of the same
  stream that waits for the writer; the Agent drops such data.
* A credit update that the Gateway cannot send is only logged
  (`session.go:579-581`), and a consumer at the Agent whose update fails stops:
  in both cases the peer's sender may wait for credit until the stream ends.
  `AllReturn` excepts waits for credit.
* `failAll` (`session.go:666`) racing a teardown leaves bytes reserved: a payload
  looked up earlier is enqueued after the discard. `ReleasedAfterServing`
  excludes that window. A UDP flow whose watcher detached it can keep a payload
  in the same way.
* `ReleasedAfterFailedOpen`, `DiscardsAfterReader`, `SessionLossEndsStreams`: a
  failed first grant leaves a tail that nobody discards; `handleConnector`
  discards under a reader it no longer waits for; a stream opened between
  `failAll`'s swap of the map and the close is never finished.
* `OpensInOrder`: IDs are allocated under `sess.mu` and sent after it, so two opens
  may reach the Agent out of order, which ends the session (agent.md:205).
* `StreamsEnd`: a server that waits for credit need not end (agent.md:210).
* `ConnectionLossReconnects`: a lost transport may surface as an error that
  `permanentRemoteSessionError` treats as permanent (`runtime.go:733-759`).
* At exhaustion of the IDs `nextID` becomes 0; a resumed session copies `nextID`
  while the old one can still allocate.

Gateway:
* Two noisy keys starve a third, since their fair shares sum to more than the
  whole (gateway.md:227). `NeighbourProgresses` speaks of one.
* With `MaxTunnelsPerDevice` of three or more, `gateway.go:786-792` may route to
  a different standby than its comment says.
* `SuccessMeansUnchanged`: the cheap refresh path does not see a generation
  rewritten in place, nor changed `publishedAt` or `validUntil` (gateway.md:71).
* HTTP flows are not monitored after they start; SIGTERM cancels TCP and UDP
  flows at once; UDP response credit is added after the datagram was sent
  (`public_udp.go:290-294`). A public UDP flow whose Agent is stalled keeps its
  slot while its client sends; `StallsAreBounded` says so.

Agent:
* The phase "reconnecting" is unreachable, and for mixed states the aggregate
  differs from the list at `aggregate.go:28-36`. A reconnecting worker that reads the state during
  a mutation fails permanently. `runOnce` shares one `HandshakeTimeout` among its
  steps.
* Overlapping capability rotations leave file and memory different until a
  restart (`webapp.go:429-443`); `CapabilityInStep` excludes them.
* `NoSilentIdentity`: `LoadOrCreateIdentity` reads the seed and saves a new one
  outside the lock (`webapp.go:590`; `svc.go:181`, before the journal of a dead
  reset is rolled back). While a reset has cleared the seed it generates one,
  and saves it over the seed that the reset, or its rollback, has stored by then
  (`unpair.go:52-54`). Unpair and reset do not end a pending enrollment.
  `PairedKeyIsEnrolled` excepts keys replaced in these ways.
* `EndIsPublished`: the status ticker takes its snapshot before it waits for
  `statusMu` (`supervisor.go:369-373`), so a snapshot from before the end of `Run`
  may be written over "terminal" or "stopped"; `StatusIsTrue` excepts it.
* A lost claim answer blocks new starts until expiry; a claim does not check
  expiry; a crash between the Panel's claim and the commit loses the one-time
  credentials.
* `PendingReadsFailClosed`: a reader checks for the journal, the journal appears,
  and the reader reads a file that is being replaced. An owner that stalls for
  thirty seconds before writing its record looks like a legacy empty lock. A
  record of which only a part was written makes every command fail until an
  operator removes the file (`config_lock.go:196-199`).

Connector:
* `finish` cancels before it tests its context, so a listener failure is shown
  as "disconnected" and `StateFailed` is unreachable there
  (`connectgui.go:188-200`).
* The two reports of a session can cross, so the window may show no client while
  one is attached (`connector.go:189-192`); `ShownFlowsAreLive` excludes it.
* After the Gateway's half-close a silent local client keeps its slot, even after
  a cancel (`connector.go:245`); `BrokenFlowsEnd` excludes it. `IdleTimeout`
  counts only traffic from the Gateway, so a long upload is cut.

Setup: a run that is killed between setting the Agent's binary aside and putting
the new one in place, or whose rollback cannot rename it back, leaves a
registered service without its binary. The next run takes the missing binary for
a first installation (`setup.go:125-128`): when it fails, its rollback
unregisters the service, which it did not create, and says nothing
(`setup.go:624-628`; `RollbackKeepsRegistration` fails); and it deletes the
`.previous` file, the only copy of the old build, before it has a new one in place
(`setup.go:556`). `SetupIsTransaction` excepts the registration and speaks of the
files the run itself found. `RollbackRestores` (a removal or rename of the
rollback fails and is ignored, for one because a process runs the file;
`setup.go:610-616`, `661-668`), `SettingsSurviveSetup` (`setup.go:379-381`: a stale copy wins over a newer one)
and `KeepConfigNeverDestroys` (`uninstall.go:183-185`) fail; the copy of the
settings is not atomic.

### Bounds

Byte sizes are scaled to single digits. Budgets hold two or three frames, so that
full, exactly full and one too many all happen; a sender has more frames than
its credit allows at once, so it blocks. Two payloads are needed for reordering,
two streams for the shared budget, two handlers and queues of one frame for
everyone waiting on everyone. The registry has three connections of two devices,
enough for a primary, a standby and a replacement at the ceiling, and a resume
that races another. Two flows cover every pair of kinds that share a limit;
three keys are one more than the limiter remembers. The Runner has two workers
and three candidates, so that the primary fails over past a Gateway no worker is
pinned to. Pairing has two clients, two sessions, two processes and the keys and
capabilities its plans need. Three commands and two crashes allow a crash during
the recovery from a crash; three lock processes are a dead owner and two
contenders; two runs of Setup are a failed or killed one and its repetition; two
metadata revisions over three ticks outlive `MaxAge`. Two connector clients and
two sessions let a flow outlive its session.

`CHECK_DEADLOCK FALSE` is set where every bounded process may finish.

### Fairness

Fairness is weak, except for `enrollmentMu`, for which it is strong
(`sync.Mutex` starves nobody). What is assumed:

* runnable goroutines and live processes run; the tunnel delivers;
* a step with a deadline ends: local and tunnel writes (`WriteTimeout`),
  handshakes, the response phase, the sink's emit, the calls to the Panel; the
  clock moves on;
* the metadata refresh and the heartbeat are tickers;
* in CreditFlow, after a failed local write the stream ends with its read loop:
  the target closes or is silent for `IdleTimeout`;
* in Admission, the quiet caller retries, and requests that were let in finish.

Waits for credit (`Window.Take`) have no deadline and get no fairness. A client may
send for ever; of a connector it is assumed that it does not send empty frames
for ever. Otherwise nothing is assumed of clients, operators, the Agent's
answers, the sink, the publisher, or of any failure happening. A Gateway that is "up" answers a dial.

## Proofs

`tlapm <module>` checks each. The theorems hold for every value of the constants
that the named assumptions of the component's module allow, so also for any value
of the bounds the models carry. In each case the property is not inductive alone;
the invariant named below is, and the theorems follow from it.

* **CreditAccountProofs**: `CreditConserved`, `PacedWithinBudget`,
  `GrantsFitWindow`. `Conservation` (the four places of a byte sum to at most what
  was issued) is itself inductive and yields the other two. Assumed: allowance
  plus first grant fit budget and window, which `handleStreamOpen` arranges by
  subtracting the allowance. A configured budget below `HeaderAllowanceBytes`,
  which `Limits.valid` permits, is outside it.
* **ConfigLockProofs**: `PathInvariant`, `LockExcludes`, for any set of processes,
  any of which may die, stall or fail. `OwnersHoldThePath` adds that a process
  between create and release has its file at the path until the file of a process
  that uses it has been unlinked (`stolen`). So `removeUnchangedLock` is the only
  way exclusion is lost.
* **StateTransactionProofs**: `JournalInvariant`, `JournalAtomic` (`StateIsAtomic`).
  `JournalInv` says what the snapshots hold relative to what the command found,
  and for each step which files are old, which are new, and what will be
  reported.
* **LiveMetadataProofs**: `LookupsStayCurrent`, and the action property
  `AcceptedRevisionFrozen`. `MDInv` traces the active and the candidate manifest to
  the revision that was issued, and bounds its deadline by the time at which that
  revision was replaced plus `MaxAge`.
* **LimitsProofs**: `LimiterCountsWork`, the action property `FairShareHolds`, and
  `ExporterAccounts`. `AdmInv` counts the requests that hold a unit of a key, and
  says that the two keys the limiter remembers are the last two observed. `ExpInv`
  adds who may hold the exporter's lock in which state.
* **RegistryProofs** (with **RegistrySteps**): `MapsStayInStep`, `ResumeAtMostOnce`,
  and `RegistryStaysInStep` for at most two tunnels per device, the code's value
  (for three it is false, see the observations). `RegInv` says at which points of
  the handshake a session exists, may be registered, or is another's target, and
  that a resume slot is armed, being checked or spent, never two of these.
* **EdgeProofs**: `UnitsStayAccounted`, `ClosedStaysQuiet`. `EdgeInv` says that what a
  flow holds is what the stages it passed take, each once, so that the counters
  are cardinalities; and that a closed manager has no listener and gets none.

Model-checked only: all liveness, which the prover does not handle; the
refinement of CreditAccount by CreditFlow; and the safety of CreditFlow,
GatewayStream, SessionMux, ConnectorClient, the Agent's process, Pairing and
Setup, whose invariants have not been strengthened to inductive ones.

## Not modelled

* Wire encoding, JSON and header validation, bundle parsing, metadata record
  validation: functions of one input without state.
* The Agent's UDP streams and the connector's UDP table, the reflection credit
  and packet queue of `public_udp.go`: per-flow buffers that may drop; what they
  share with other flows (slots, streams) is in PublicEdge and SessionMux.
* Loss of unsynced writes on a power failure; PID reuse; lock objects that are not
  files; the legacy token copy that unpair removes outside the journal.
* Permissions, DPAPI, path checks, service and registry calls beyond their
  success or failure; tray, windows, pages and their wording; metrics and logs.
* The pairing page's forms for exposing services, each one config transaction.
* v1 sessions have no credit: GatewayStream covers their queues, CreditFlow does
  not apply. The exhaustion of sequence numbers is not reached.

## Plan

1. Proofs: `BudgetsBalanced` of CreditFlow and its step simulation of
   CreditAccount; `SlotsAccounted` of ConnectorClient; `OneRunner` of
   AgentSupervisor. Each needs its inductive strengthening checked by TLC first.
2. Compositions: SessionRegistry with GatewayStream's session loss, and Pairing
   with StateTransaction's steps.
3. The UDP tables of Agent, Gateway and connector.
