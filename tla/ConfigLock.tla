----------------------------- MODULE ConfigLock -----------------------------
(***************************************************************************)
(* The cross-process lock around the Agent's state directory: a file made  *)
(* with O_EXCL that holds its owner's PID.  A contender that finds the     *)
(* owner dead (or an empty file past its age limit) looks a second time    *)
(* and, if nothing changed, unlinks the path and tries again.              *)
(*                                                                         *)
(* A file is identified by the process that created it (a process runs one *)
(* command and creates the file at most once), which stands for its        *)
(* content and modification time.  Reading, looking again and unlinking    *)
(* are separate system calls, and each may fail.                           *)
(***************************************************************************)
EXTENDS Naturals

CONSTANTS
    Procs,
    NoFile,      \* there is no lock file
    MayDie,      \* processes that may be killed
    MayStall     \* processes that may stop for legacyLockStaleAfter between
                 \* creating the file and writing their record

ASSUME LockProcs ==
    NoFile \notin Procs /\ MayDie \subseteq Procs /\ MayStall \subseteq Procs

VARIABLES
    lock,        \* creator of the file at the lock path, or NoFile
    held,        \* what each process's file holds: nothing, its record, or a
                 \* part of it
    aged,        \* has the empty file at the path passed its age limit?
    pc,
    seen,        \* the file a contender inspected and what it held
    stolen       \* has a contender unlinked the file of a live process that is
                 \* between creating and releasing it?

vars == <<lock, held, aged, pc, seen, stolen>>

LockFile == <<lock, IF lock \in Procs THEN held[lock] ELSE "empty">>

(* processAlive: a process that gave up or is done may live on.            *)
Alive(p) == pc[p] # "dead"

InUse(p) == pc[p] \in {"writing", "critical", "release"}

Init ==
    /\ lock = NoFile /\ held = [p \in Procs |-> "empty"] /\ aged = FALSE /\ stolen = FALSE
    /\ pc = [p \in Procs |-> "idle"]
    /\ seen = [p \in Procs |-> <<NoFile, "empty">>]

Step(p, from, to) == pc[p] = from /\ pc' = [pc EXCEPT ![p] = to]

(* The path is unlinked, whatever file is there by now.                    *)
RemovePath == lock' = NoFile /\ aged' = FALSE

(* Mutant: the file is opened without O_EXCL.                              *)
CreateShared(p) ==
    /\ Step(p, "idle", "writing")
    /\ lock' = p /\ aged' = FALSE
    /\ UNCHANGED <<held, seen, stolen>>

(* O_CREATE|O_EXCL succeeds.                                               *)
Create(p) ==
    /\ Step(p, "idle", "writing") /\ lock = NoFile
    /\ lock' = p /\ aged' = FALSE
    /\ UNCHANGED <<held, seen, stolen>>

(* The record goes to the file created, wherever its path is by now.       *)
WriteRecord(p) ==
    /\ Step(p, "writing", "critical")
    /\ held' = [held EXCEPT ![p] = "record"]
    /\ UNCHANGED <<lock, aged, seen, stolen>>

(* Write, Sync or Close fails; the path is unlinked, or that fails too.    *)
WriteFails(p) ==
    /\ Step(p, "writing", "done")
    /\ \/ RemovePath /\ UNCHANGED held
       \/ /\ \E c \in {"empty", "part", "record"} : held' = [held EXCEPT ![p] = c]
          /\ UNCHANGED <<lock, aged>>
    /\ UNCHANGED <<seen, stolen>>

(* Mutant: a file without a record is never stale.                         *)
StaleRecordOnly == lock \in Procs /\ held[lock] = "record" /\ ~Alive(lock)

(* inspectConfigLock: the recorded owner is dead, or there is no record    *)
(* and the file is old.                                                    *)
Stale ==
    /\ lock \in Procs
    /\ \/ held[lock] = "record" /\ ~Alive(lock)
       \/ held[lock] = "empty" /\ aged

(* A part of a record is refused: nobody reclaims it.                      *)
Inspect(p) ==
    /\ \/ /\ Step(p, "idle", "recheck") /\ Stale
          /\ seen' = [seen EXCEPT ![p] = LockFile]
       \/ Step(p, "idle", "done") /\ LockFile = <<lock, "part">> /\ UNCHANGED seen
    /\ UNCHANGED <<lock, held, aged, stolen>>

(* removeUnchangedLock: the second look; any change starts over.           *)
Recheck(p) ==
    /\ \/ Step(p, "recheck", "unlink") /\ LockFile = seen[p]
       \/ Step(p, "recheck", "idle") /\ LockFile # seen[p]
    /\ UNCHANGED <<lock, held, aged, seen, stolen>>

(* ... and os.Remove, whose failure ends the command.                      *)
Unlink(p) ==
    /\ \/ /\ Step(p, "unlink", "idle") /\ RemovePath
          /\ stolen' = (stolen \/ (lock \in Procs /\ InUse(lock)))
       \/ Step(p, "unlink", "done") /\ UNCHANGED <<lock, aged, stolen>>
    /\ UNCHANGED <<held, seen>>

(* configLockWait passes while the same owner keeps the lock.              *)
TimesOut(p) ==
    /\ Step(p, "idle", "done") /\ lock # NoFile /\ LockFile # <<lock, "part">> /\ ~Stale
    /\ UNCHANGED <<lock, held, aged, seen, stolen>>

(* The path cannot be created, inspected or read.                          *)
LookFails(p) ==
    /\ Step(p, "idle", "done") \/ Step(p, "recheck", "done")
    /\ UNCHANGED <<lock, held, aged, seen, stolen>>

(* releaseOwnedConfigLock: read the file; it is ours, or another's, or     *)
(* cannot be read.                                                         *)
CheckOwned(p) ==
    /\ \/ Step(p, "critical", "release") /\ lock = p
       \/ Step(p, "critical", "done")
    /\ UNCHANGED <<lock, held, aged, seen, stolen>>

(* ... and unlink it, or give up after configLockWait and leave it.        *)
Release(p) ==
    /\ Step(p, "release", "done")
    /\ RemovePath \/ UNCHANGED <<lock, aged>>
    /\ UNCHANGED <<held, seen, stolen>>

(* A process is killed, or exits when its command is done.                 *)
Die(p) ==
    /\ pc[p] # "dead" /\ (p \in MayDie \/ pc[p] = "done")
    /\ pc' = [pc EXCEPT ![p] = "dead"]
    /\ UNCHANGED <<lock, held, aged, seen, stolen>>

(* legacyLockStaleAfter passes over an empty file.                         *)
Age ==
    /\ lock \in Procs /\ held[lock] = "empty" /\ ~aged
    /\ pc[lock] = "writing" => lock \in MayStall
    /\ aged' = TRUE
    /\ UNCHANGED <<lock, held, pc, seen, stolen>>

Proceed(p) ==
    \/ Create(p) \/ WriteRecord(p) \/ Inspect(p) \/ Recheck(p) \/ Unlink(p)
    \/ CheckOwned(p) \/ Release(p)

Next ==
    \/ \E p \in Procs : Proceed(p) \/ WriteFails(p) \/ TimesOut(p) \/ LookFails(p) \/ Die(p)
    \/ Age

Spec == Init /\ [][Next]_vars

(* Live processes run, and time passes.                                    *)
FairSpec == Spec /\ WF_vars(Age) /\ \A p \in Procs : WF_vars(Proceed(p))
----------------------------------------------------------------------------
PCs == {"idle", "writing", "recheck", "unlink", "critical", "release",
        "done", "dead"}
Contained == {"empty", "part", "record"}

(* The path holds a process's file or none, and every process is at one of  *)
(* the lock's system calls.                                                *)
TypeOK ==
    /\ lock \in Procs \cup {NoFile} /\ held \in [Procs -> Contained]
    /\ aged \in BOOLEAN /\ stolen \in BOOLEAN
    /\ pc \in [Procs -> PCs]
    /\ seen \in [Procs -> (Procs \cup {NoFile}) \X Contained]

Holds(p) == pc[p] \in {"critical", "release"}

(* At most one live process is inside withConfigLock's operation: a lock   *)
(* whose owner may still be alive is never stolen.                         *)
MutualExclusion == \A p, q \in Procs : Holds(p) /\ Holds(q) => p = q

(* Two processes are inside only if, earlier, removeUnchangedLock unlinked *)
(* the file of a live process that was using it.  No other interleaving of *)
(* creation, failed writes and unlinks, deaths, timeouts and releases      *)
(* breaks the lock.                                                        *)
ExclusionUnlessStolen == ~stolen => MutualExclusion

(* What makes it inductive: a process between creating its file and        *)
(* unlinking it has the file at the path.                                  *)
OwnersHoldThePath ==
    /\ TypeOK
    /\ ~stolen => \A p \in Procs : InUse(p) => lock = p

(* A lock left by a dead process does not block a waiting one for ever,    *)
(* with or without a record, after failed writes and unlinks too: it goes, *)
(* or the command that waits reports an error.                             *)
DeadLockReclaimed ==
    (lock \in Procs /\ ~Alive(lock) /\ \E p \in Procs : pc[p] = "idle")
    ~> (lock = NoFile \/ \A p \in Procs : pc[p] # "idle")
=============================================================================
