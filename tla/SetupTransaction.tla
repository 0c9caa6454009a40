-------------------------- MODULE SetupTransaction --------------------------
(***************************************************************************)
(* HooshiXAgent-Setup.exe as a transaction on the machine: the payload     *)
(* binaries and their ".previous" copies in the install directory, and the *)
(* Windows service they are registered as, which the Service Control       *)
(* Manager (SCM) starts, stops, restarts and removes at its own pace.      *)
(* Setup may die at any step and be run again.  The settings file it also  *)
(* moves is modelled in SetupSettings; nothing of it fails an install.     *)
(*                                                                         *)
(* A build is a number: 0 stands for a missing file, 1 for the build the   *)
(* machine starts with, run + 1 for the payload of Setup's run-th run.     *)
(***************************************************************************)
EXTENDS Integers, Sequences

CONSTANTS
    Payload,      \* the sequence of the payload's file names, "agent" among them
    MaxRuns,      \* bound: runs of Setup
    Machines      \* what is there at first, and what may go wrong

ASSUME SetupConstants ==
    /\ \E i \in DOMAIN Payload : Payload[i] = "agent"
    /\ MaxRuns \in Nat \ {0}
    /\ Machines \subseteq [installed : BOOLEAN,
                           faults : SUBSET {"rename", "revert", "command", "dies", "slow", "crash"}]

Names == {Payload[i] : i \in DOMAIN Payload}
Builds == 0..(MaxRuns + 1)
NoBuild == 0

VARIABLES
    machine,     \* one of Machines
    runs,        \* runs of Setup so far
    step,        \* where Setup is: "idle" between runs
    index,       \* the payload file commitStagedPayload is at
    file, prev,  \* the build in each target, and in its ".previous"
    backups,     \* the map of the same name: "none", "fresh" (""), "kept"
    replacing,   \* of run(): a previous installation was present
    caller,      \* who runs `service install`: "forward" or "rollback"
    reg,         \* the registration in SCM: "none", "registered", "deleting"
    proc, image, \* the service process, and the build it runs
    recover,     \* the process failed, and SCM owes it a restart
    before,      \* history: files, registration and process when the run began,
                 \* and whether earlier runs had left the machine clean
    outcome,     \* history: how the last run ended
    blocked,     \* history: rollbackFiles ignored a failure
    told         \* history: the rollback said it could not register or unregister

setupvars == <<machine, runs, step, index, file, prev, backups, replacing, caller, reg, proc,
               image, recover, before, outcome, blocked, told>>
files == <<index, file, prev, backups>>
scm == <<reg, proc, image, recover>>
runstate == <<machine, runs, replacing, caller, before, outcome, blocked, told>>

May(fault) == fault \in machine.faults
New == runs + 1
Current == Payload[index]

\* Windows keeps the image of a running process from being deleted or replaced;
\* it may be renamed.
Held(f, build) == proc # "none" /\ f = "agent" /\ build = image /\ build # NoBuild

Goto(s) == step' = s
Finish(result) == step' = "idle" /\ outcome' = result
Alike == UNCHANGED <<machine, runs, replacing, caller, before, blocked, told>>

----------------------------------------------------------------------------
(* The service: svc.Runner, and what SCM does with its process.            *)

ServiceIdle == UNCHANGED <<files, runstate, step>>

Initialised == proc = "starting" /\ proc' = "running" /\ ServiceIdle
               /\ UNCHANGED <<reg, image, recover>>

\* Every exit but a requested stop has a non-zero code, which SCM answers with
\* the restart applyRecoveryPolicy asked for.
Ended(failed) == proc' = "none" /\ image' = NoBuild /\ recover' = (failed /\ reg = "registered")

StopsOnRequest == proc = "stopping" /\ Ended(FALSE) /\ ServiceIdle /\ UNCHANGED reg
FailsByItself == May("dies") /\ proc \in {"starting", "running"} /\ Ended(TRUE) /\ ServiceIdle
                 /\ UNCHANGED reg

Launch == proc' = "starting" /\ image' = file["agent"] /\ recover' = FALSE

ScmRestarts ==
    /\ recover /\ reg = "registered" /\ proc = "none"
    /\ IF file["agent"] # NoBuild THEN Launch ELSE recover' = FALSE /\ UNCHANGED <<proc, image>>
    /\ ServiceIdle /\ UNCHANGED reg

\* A deleted registration goes when the last handle to it, the process's, does.
ScmForgets == reg = "deleting" /\ proc = "none" /\ reg' = "none" /\ ServiceIdle
              /\ UNCHANGED <<proc, image, recover>>

----------------------------------------------------------------------------
(* The Agent commands Setup runs: they need the installed binary.          *)

CommandRuns == file["agent"] # NoBuild

\* Stop posts the request; a service that is starting or stopping refuses it.
StopRequested(ok) ==
    IF ok /\ reg = "registered" /\ proc = "running"
    THEN proc' = "stopping" /\ UNCHANGED <<reg, image, recover>>
    ELSE UNCHANGED scm

\* QueryStatus answers only for a registered service.
StatusKnown == CommandRuns /\ reg = "registered"

\* A deadline passes: the process stops slowly, or nothing makes it stop.
Late == May("slow") \/ proc \in {"starting", "running"}

\* waitForServiceStopped: over once the query fails, or answers anything but
\* running, start-pending or continue-pending; or at its deadline.
StoppedOrTimeout == ~StatusKnown \/ proc \notin {"running", "starting"} \/ Late

\* Start: a service that is already up is success.
StartSucceeds == CommandRuns /\ reg = "registered"
Started == IF proc = "none" THEN Launch /\ UNCHANGED reg ELSE UNCHANGED scm

\* Delete drops the registration at once when no process holds it.
Deleted == reg' = (IF proc = "none" THEN "none" ELSE "deleting") /\ recover' = FALSE
           /\ UNCHANGED <<proc, image>>

\* svc.Install, the way it ends for the one who asked.
InstallEnds(ok) ==
    /\ IF caller = "forward"
       THEN step' = (IF ok THEN "start" ELSE "rbStop") /\ UNCHANGED <<outcome, told>>
       ELSE IF ok THEN step' = "rbStart" /\ UNCHANGED <<outcome, told>>
            ELSE Finish("failed") /\ told' = TRUE
    /\ UNCHANGED <<machine, runs, replacing, caller, before, blocked, files>>

InstallOpen ==
    /\ step = "install"
    /\ \/ (~CommandRuns \/ May("command")) /\ InstallEnds(FALSE) /\ UNCHANGED scm
       \/ CommandRuns /\ reg = "registered" /\ Goto("installWait")
          /\ StopRequested(TRUE) /\ UNCHANGED <<files, runstate>>
       \/ CommandRuns /\ reg # "registered" /\ Goto("installCreate")
          /\ UNCHANGED <<files, runstate, scm>>

\* waitStopped gives up after 30 seconds, and so does awaitRemoved after 10.
InstallWait == step = "installWait" /\ (proc = "none" \/ Late) /\ Goto("installDelete")
               /\ UNCHANGED <<files, runstate, scm>>
InstallDelete ==
    /\ step = "installDelete"
    /\ \/ Deleted /\ Goto("installGone") /\ UNCHANGED <<files, runstate>>
       \/ May("command") /\ InstallEnds(FALSE) /\ UNCHANGED scm
InstallGone ==
    /\ step = "installGone" /\ UNCHANGED scm
    /\ \/ reg = "none" /\ Goto("installCreate") /\ UNCHANGED <<files, runstate>>
       \/ reg # "none" /\ Late /\ InstallEnds(FALSE)
\* CreateService refuses a name marked for deletion; the recovery policy and
\* the access list are set on the service it created.
InstallCreate ==
    /\ step = "installCreate"
    /\ \/ reg = "none" /\ reg' = "registered" /\ UNCHANGED <<proc, image, recover>>
          /\ (InstallEnds(TRUE) \/ (May("command") /\ InstallEnds(FALSE)))
       \/ (reg # "none" \/ May("command")) /\ InstallEnds(FALSE) /\ UNCHANGED scm

----------------------------------------------------------------------------
(* run(): staging, the commit of the payload, and the service.             *)

\* previousInstallationPresent.
PreviousPresent == file["agent"] # NoBuild

\* History: since the last run that was done, none died, and none met something
\* that it could not undo.
LeftClean ==
    outcome = "done" \/ (before.clean /\ outcome # "crashed" /\ ~blocked /\ ~told)

Begins ==
    /\ step = "idle" /\ runs < MaxRuns
    /\ runs' = runs + 1 /\ before' = [file |-> file, reg |-> reg, proc |-> proc, clean |-> LeftClean]
    /\ replacing' = PreviousPresent
    /\ backups' = [f \in Names |-> "none"] /\ index' = 1
    /\ caller' = "forward" /\ blocked' = FALSE /\ told' = FALSE
    /\ UNCHANGED <<machine, file, prev, scm>>
Begin == Begins /\ step' = (IF PreviousPresent THEN "stop" ELSE "kill") /\ outcome' = "none"
\* stagePayload fails: the payload is not what its manifest says, or cannot be
\* written.  Nothing has been touched.
StagingFails == May("rename") /\ Begins /\ step' = "idle" /\ outcome' = "failed"

StopPrevious ==
    /\ step = "stop" /\ Goto("waitStop") /\ UNCHANGED <<files, runstate>>
    /\ StopRequested(TRUE) \/ (May("command") /\ StopRequested(FALSE))
WaitStopped == step = "waitStop" /\ StoppedOrTimeout /\ Goto("kill") /\ UNCHANGED <<files, runstate, scm>>
\* taskkill ends the service's process as well, which SCM takes for a failure.
KillPrevious ==
    /\ step = "kill" /\ Goto("aside")
    /\ IF proc = "none" THEN UNCHANGED scm ELSE Ended(TRUE) /\ UNCHANGED reg
    /\ UNCHANGED <<files, runstate>>

\* commitStagedPayload, one file at a time: an old backup goes, the live file
\* becomes the backup, the staged file takes its place and is read back.  A
\* rename that fails for ten seconds gives the whole commit up.
Aside ==
    /\ step = "aside" /\ UNCHANGED <<index, runstate, scm>>
    /\ LET free == [prev EXCEPT ![Current] = IF Held(Current, prev[Current]) THEN prev[Current] ELSE NoBuild]
       IN \/ /\ file[Current] # NoBuild /\ free[Current] = NoBuild /\ Goto("into")
             /\ prev' = [free EXCEPT ![Current] = file[Current]] /\ file' = [file EXCEPT ![Current] = NoBuild]
             /\ backups' = [backups EXCEPT ![Current] = "kept"]
          \/ /\ file[Current] = NoBuild /\ Goto("into") /\ UNCHANGED <<file, backups>>
             /\ prev' = free \/ (May("rename") /\ UNCHANGED prev)
          \/ /\ file[Current] # NoBuild /\ (May("rename") \/ Held(Current, file[Current]) \/ free[Current] # NoBuild)
             /\ Goto("undo") /\ prev' = free /\ UNCHANGED <<file, backups>>

Into ==
    /\ step = "into" /\ UNCHANGED <<index, prev, runstate, scm>>
    /\ \/ /\ Goto("verify")
          /\ \/ file' = [file EXCEPT ![Current] = New]
             \/ May("revert") /\ file' = [file EXCEPT ![Current] = prev[Current]]
          /\ backups' = [backups EXCEPT ![Current] = IF @ = "kept" THEN @ ELSE "fresh"]
       \/ May("rename") /\ Goto("undo") /\ UNCHANGED <<file, backups>>

\* The bytes read back are those staged and those of the distribution manifest.
Verified(f) == file[f] = New

\* Mutant: a rename that succeeded is believed.
VerifyTrustsRename ==
    /\ step = "verify" /\ UNCHANGED <<file, prev, backups, runstate, scm>>
    /\ IF index < Len(Payload) THEN Goto("aside") /\ index' = index + 1
       ELSE Goto("pair") /\ UNCHANGED index
Verify ==
    /\ step = "verify" /\ UNCHANGED <<file, prev, backups, runstate, scm>>
    /\ IF ~Verified(Current) THEN Goto("undo") /\ UNCHANGED index
       ELSE IF index < Len(Payload) THEN Goto("aside") /\ index' = index + 1
       ELSE Goto("pair") /\ UNCHANGED index

\* rollbackFiles: one removal and one rename for each file; either may fail,
\* as the renames before them may, and that is ignored.  A file stays as it
\* is, or is lost (removed, and its backup not renamed back).
Restored ==
    LET listed == {f \in Names : backups[f] # "none"}
        kept == {f \in Names : backups[f] = "kept"}
        held == {f \in listed : Held(f, file[f])}
    IN \E stays \in SUBSET listed, lost \in SUBSET kept :
       /\ held \subseteq stays /\ stays \cap lost = {}
       /\ May("rename") \/ (stays = held /\ lost = {})
       /\ file' = [f \in Names |-> IF f \in stays \/ f \notin listed THEN file[f]
                                   ELSE IF f \in kept \ lost THEN prev[f] ELSE NoBuild]
       /\ prev' = [f \in Names |-> IF f \in kept \ (stays \cup lost) THEN NoBuild ELSE prev[f]]
       /\ blocked' = (stays \cup lost # {})
       /\ UNCHANGED <<index, backups>>

\* commitStagedPayload fails before run() defers rollbackInstallation.
Undo == step = "undo" /\ Restored /\ Finish("failed")
        /\ UNCHANGED <<machine, runs, replacing, caller, before, told, scm>>

\* installPairingCapability, then the settings, which can only warn.
Pair == /\ step = "pair" /\ UNCHANGED <<files, runstate, scm>>
        /\ (Goto("install") \/ (May("command") /\ Goto("rbStop")))

Start == /\ step = "start" /\ UNCHANGED <<files, runstate>>
         /\ \/ StartSucceeds /\ Started /\ Goto("waitRun")
            \/ (~StartSucceeds \/ May("command")) /\ UNCHANGED scm /\ Goto("rbStop")

WaitRunning ==
    /\ step = "waitRun" /\ UNCHANGED <<files, runstate, scm>>
    /\ IF StatusKnown /\ proc = "running" THEN Goto("integrate") ELSE (May("slow") \/ May("dies")) /\ Goto("rbStop")

\* The tray task and the uninstall entry only warn, whatever they meet.
Integrate == step = "integrate" /\ Goto("commit") /\ UNCHANGED <<files, runstate, scm>>
\* The backups go; what remains, the enrollment, cannot undo the installation.
Commit ==
    /\ step = "commit" /\ Finish("done") /\ Alike /\ UNCHANGED <<index, file, backups, scm>>
    /\ \E left \in SUBSET Names :
          /\ left = {} \/ May("rename")
          /\ prev' = [f \in Names |-> IF backups[f] = "kept" /\ f \notin left /\ ~Held(f, prev[f])
                                      THEN NoBuild ELSE prev[f]]

----------------------------------------------------------------------------
(* rollbackInstallation.                                                   *)

RbStop == /\ step = "rbStop" /\ Goto("rbWait") /\ UNCHANGED <<files, runstate>>
          /\ StopRequested(CommandRuns) \/ (May("command") /\ StopRequested(FALSE))
RbWait == /\ step = "rbWait" /\ StoppedOrTimeout /\ UNCHANGED <<files, runstate, scm>>
          /\ Goto(IF replacing THEN "rbFiles" ELSE "rbUninstall")

\* svc.Uninstall asks, waits for the process and deletes; a service that is
\* not registered is success, and a failure is noted.
Noted(ok) == told' = ~ok /\ UNCHANGED <<machine, runs, replacing, caller, before, outcome, blocked>>
RbUninstall ==
    /\ step = "rbUninstall" /\ UNCHANGED files
    /\ \/ CommandRuns /\ reg = "registered" /\ StopRequested(TRUE) /\ Goto("rbDelete") /\ Noted(TRUE)
       \/ CommandRuns /\ reg = "none" /\ UNCHANGED scm /\ Goto("rbFiles") /\ Noted(TRUE)
       \/ /\ ~CommandRuns \/ reg = "deleting" \/ May("command")
          /\ UNCHANGED scm /\ Goto("rbFiles") /\ Noted(FALSE)
RbDelete ==
    /\ step = "rbDelete" /\ (proc = "none" \/ Late) /\ Goto("rbFiles") /\ UNCHANGED files
    /\ \/ Deleted /\ Noted(TRUE)
       \/ May("command") /\ UNCHANGED scm /\ Noted(FALSE)

RbFiles == /\ step = "rbFiles" /\ Restored /\ UNCHANGED <<scm, told>>
           /\ IF replacing THEN Goto("rbCheck") /\ UNCHANGED outcome ELSE Finish("failed")
           /\ UNCHANGED <<machine, runs, replacing, caller, before>>

RbCheck ==
    /\ step = "rbCheck" /\ UNCHANGED <<files, scm>>
    /\ IF StatusKnown THEN Goto("rbStart") /\ UNCHANGED runstate
       ELSE /\ Goto("install") /\ caller' = "rollback"
            /\ UNCHANGED <<machine, runs, replacing, before, outcome, blocked, told>>

RbStart == /\ step = "rbStart" /\ Finish("failed") /\ Alike /\ UNCHANGED files
           /\ \/ StartSucceeds /\ Started
              \/ (~StartSucceeds \/ May("command")) /\ UNCHANGED scm

\* The Setup process ends without its deferred calls.
SetupDies ==
    /\ May("crash") /\ step # "idle" /\ Finish("crashed") /\ Alike
    /\ UNCHANGED <<files, scm>>

----------------------------------------------------------------------------

SetupInit ==
    /\ machine \in Machines
    /\ LET b == IF machine.installed THEN 1 ELSE NoBuild
       IN /\ file = [f \in Names |-> b] /\ image = b
          /\ before = [file |-> [f \in Names |-> b], reg |-> IF b = 1 THEN "registered" ELSE "none",
                       proc |-> IF b = 1 THEN "running" ELSE "none", clean |-> TRUE]
    /\ reg = before.reg /\ proc = before.proc /\ recover = FALSE
    /\ prev = [f \in Names |-> NoBuild] /\ backups = [f \in Names |-> "none"]
    /\ runs = 0 /\ step = "idle" /\ index = 1 /\ replacing = FALSE /\ caller = "forward"
    /\ outcome = "none" /\ blocked = FALSE /\ told = FALSE

Scm == Initialised \/ StopsOnRequest \/ FailsByItself \/ ScmRestarts \/ ScmForgets
Steps ==
    \/ StopPrevious \/ WaitStopped \/ KillPrevious \/ Aside \/ Into \/ Verify \/ Undo
    \/ Pair \/ InstallOpen \/ InstallWait \/ InstallDelete \/ InstallGone \/ InstallCreate
    \/ Start \/ WaitRunning \/ Integrate \/ Commit
    \/ RbStop \/ RbWait \/ RbUninstall \/ RbDelete \/ RbFiles \/ RbCheck \/ RbStart
SetupNext == Begin \/ StagingFails \/ Steps \/ SetupDies \/ Scm

SetupSpec == SetupInit /\ [][SetupNext]_setupvars

----------------------------------------------------------------------------

\* The types of the variables; a process has an image, and only a registered
\* service without a process is owed a restart.
SetupTypeOK ==
    /\ runs \in 0..MaxRuns /\ index \in DOMAIN Payload
    /\ file \in [Names -> Builds] /\ prev \in [Names -> Builds] /\ image \in Builds
    /\ backups \in [Names -> {"none", "fresh", "kept"}] /\ replacing \in BOOLEAN
    /\ reg \in {"none", "registered", "deleting"}
    /\ proc \in {"none", "starting", "running", "stopping"} /\ (proc = "none") = (image = NoBuild)
    /\ outcome \in {"none", "done", "failed", "crashed"}
    /\ recover => reg = "registered" /\ proc = "none"

\* "done" is true: when Setup says the product is installed, every live file is
\* this payload's, the service is registered, and no process runs another build
\* (setup.go:571-575, the reason for the verification after the rename).
DoneMeansInstalled ==
    outcome = "done" /\ step = "idle" =>
        /\ \A f \in Names : file[f] = New
        /\ reg = "registered" /\ (proc # "none" => image = New)

\* Until a run commits, each file it found is still on the disk, live or as its
\* backup, whatever failed, died or raced in between.
PreviousBuildKept ==
    outcome # "done" =>
        \A f \in Names : before.file[f] # NoBuild => before.file[f] \in {file[f], prev[f]}

\* A failed run leaves every file as it found it, unless a removal or a rename
\* of the rollback failed, because a process ran the file or otherwise
\* (setup.go:610-616).
FailedRunRestores ==
    outcome = "failed" /\ step = "idle" /\ ~blocked => file = before.file

\* A failed run does not unregister what it did not create (setup.go:125-127):
\* the service it found is registered when it ends, or it says that it could
\* not re-register it (setup.go:630-642), although `service install` deletes
\* the registration it finds.  Excepted is a run that found a registration
\* without its binary, which only a run that died, or could not undo what it
\* had done, leaves behind: RollbackKeepsRegistration makes no exception, and
\* the code breaks it.
FailedRunKeepsService ==
    outcome = "failed" /\ step = "idle" /\ before.reg = "registered" /\ (replacing \/ before.clean)
        => reg = "registered" \/ told

\* An Agent binary is there for every registration the next run finds
\* (setup.go:125-126 takes one for the other), unless a run died or could not
\* undo what it had done; and a failed first installation leaves no
\* registration whose binary it deleted (setup.go:615-616), unless it says so.
NoOrphanService ==
    /\ step = "idle" /\ LeftClean /\ reg = "registered" => PreviousPresent
    /\ outcome = "failed" /\ step = "idle" /\ before.reg = "none" /\ reg = "registered"
         => PreviousPresent \/ told

\* A run of Setup installs the product or leaves the machine as it found it,
\* files and service, or says or shows what it could not undo; and the next
\* run can rely on that.
SetupIsTransaction ==
    /\ DoneMeansInstalled /\ PreviousBuildKept /\ FailedRunRestores
    /\ FailedRunKeepsService /\ NoOrphanService

\* "the rollback must not unregister what this run did not create"
\* (setup.go:126-127), whatever the run found.
RollbackKeepsRegistration ==
    outcome = "failed" /\ step = "idle" /\ before.reg = "registered" => reg = "registered" \/ told

\* "a failed upgrade must not also cost the operator their tunnel"
\* (setup.go:643-644): the service that ran before a failed upgrade runs, or
\* is about to, when Setup ends.
FailedUpgradeKeepsTunnel ==
    outcome = "failed" /\ step = "idle" /\ before.proc = "running" => proc # "none" \/ recover

\* "rollbackInstallation returns the machine to the state it was in before this
\* run" (setup.go:610-611): a failed run leaves the files as it found them.
RollbackRestores == outcome = "failed" /\ step = "idle" => file = before.file
=============================================================================
