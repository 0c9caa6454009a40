-------------------------- MODULE StateTransaction --------------------------
(***************************************************************************)
(* The Agent's rollback journal: config.json and the secret store change   *)
(* together, across failures of any step and crashes of the process.       *)
(*                                                                         *)
(* A mutating command holds the config lock (module ConfigLock), recovers  *)
(* what an earlier one left behind, snapshots both files into the journal  *)
(* directory, publishes the manifest, writes the files and removes the     *)
(* journal.  os.RemoveAll unlinks the entries one by one, in directory     *)
(* order.  Readers (the runtime, status) take no lock: they look for the   *)
(* journal directory before they read each file.                           *)
(*                                                                         *)
(* A file's content is the number of the command that wrote it.            *)
(***************************************************************************)
EXTENDS Integers, Sequences, FiniteSets

CONSTANTS
    Nil,         \* a file that does not exist
    MaxCommands,    \* bound: mutating commands
    MaxCrashes,     \* bound: crashes of a command
    StorageMayFail  \* may a restore, os.RemoveAll or a sync return an error?

ASSUME JournalBounds ==
    /\ Nil \notin Nat /\ MaxCommands \in Nat /\ MaxCrashes \in Nat
    /\ StorageMayFail \in BOOLEAN

VARIABLES
    config, secret,  \* the two state files
    journal,         \* does the journal directory exist?
    entries,         \* entries in it: "config", "secret", "manifest"
    saved,           \* contents of the snapshots, and the manifest's flags
    at,              \* the command holding the lock: its next step
    plan,            \* writes the command still has to make
    planned,         \* files the command set out to change
    command,         \* number of the current command
    crashes,
    found,          \* the pair of files the command found
    good,            \* the first pair, and those that commands completed
    reported,         \* how the last command ended
    reader, readConfig, readSecret   \* a reader and what it has read

txnVars == <<config, secret, journal, entries, saved, at, plan, planned,
             command, crashes, found, good, reported>>
pair == <<config, secret>>
journalVars == <<journal, entries, saved>>
planVars == <<plan, planned>>
past == <<found, good>>
readerVars == <<reader, readConfig, readSecret>>
statevars == <<txnVars, readerVars>>

Both == <<config, secret>>
NoSnapshot == [config |-> Nil, secret |-> Nil]

TxnInit ==
    /\ config = Nil /\ secret = Nil
    /\ journal = FALSE /\ entries = {} /\ saved = NoSnapshot
    /\ at = "idle" /\ plan = <<>> /\ planned = {} /\ command = 0 /\ crashes = 0
    /\ found = Both /\ good = {Both} /\ reported = "none"
    /\ reader = "idle" /\ readConfig = Nil /\ readSecret = Nil

Moves(from, to) == at = from /\ at' = to
----------------------------------------------------------------------------
(* The writes of a command, in order.  init saves a default config and     *)
(* creates the identity where they are missing (saving a loaded config     *)
(* again changes nothing); configure creates a missing identity, saves the *)
(* config and stores the token; rotate replaces an existing identity;      *)
(* unpair clears both files, once more if it replaces the identity, or     *)
(* finds nothing to clear.                                                 *)
IfNil(file, content) == IF content = Nil THEN <<file>> ELSE <<>>
initializeAgentState == IfNil("config", config) \o IfNil("secret", secret)
configureAgentState == IfNil("secret", secret) \o <<"config", "secret">>
rotateAgentIdentity == IF secret = Nil THEN {} ELSE {<<"secret">>}
unpairAgentState ==
    {<<>>}
    \cup (IF config = Nil /\ secret = Nil THEN {}
          ELSE {<<"config", "secret">>})
    \cup (IF secret = Nil THEN {} ELSE {<<"config", "secret", "secret">>})

Operations ==
    {initializeAgentState, configureAgentState}
        \cup rotateAgentIdentity \cup unpairAgentState

(* withConfigLock: the lock is taken and recovery runs first.              *)
Lock ==
    /\ Moves("idle", "recover")
    /\ command < MaxCommands
    /\ command' = command + 1 /\ reported' = "running"
    /\ UNCHANGED <<pair, journalVars, planVars, crashes, past,
                   readerVars>>

(* recoverStateTransaction: nothing to do, a remnant without a manifest,   *)
(* or a journal to roll back.                                              *)
Recover ==
    /\ at = "recover"
    /\ at' = IF ~journal THEN "begin"
             ELSE IF "manifest" \in entries THEN "restore-config"
             ELSE "remove-recovered"
    /\ UNCHANGED <<pair, journalVars, planVars, command, crashes, past,
                   reported, readerVars>>

(* restoreStateFile needs the snapshot exactly if the manifest says that   *)
(* the file existed.                                                       *)
Restorable(file) == saved[file] = Nil \/ file \in entries

StorageFails(from) ==
    StorageMayFail /\ Moves(from, "idle") /\ reported' = "error"

RestoreConfig(from, to) ==
    /\ \/ /\ Moves(from, to) /\ Restorable("config")
          /\ config' = saved["config"] /\ UNCHANGED reported
       \/ /\ Moves(from, "idle") /\ ~Restorable("config")
          /\ reported' = "unrecoverable" /\ UNCHANGED config
       \/ StorageFails(from) /\ UNCHANGED config
    /\ UNCHANGED <<secret, journalVars, planVars, command, crashes, past,
                   readerVars>>

RestoreSecret(from, to) ==
    /\ \/ /\ Moves(from, to) /\ Restorable("secret")
          /\ secret' = saved["secret"] /\ UNCHANGED reported
       \/ /\ Moves(from, "idle") /\ ~Restorable("secret")
          /\ reported' = "unrecoverable" /\ UNCHANGED secret
       \/ StorageFails(from) /\ UNCHANGED secret
    /\ UNCHANGED <<config, journalVars, planVars, command, crashes, past,
                   readerVars>>

(* os.RemoveAll of the journal: an entry at a time, then the directory.    *)
(* It, or the sync after it, may return an error, which ends the command.  *)
RemoveAll(from, to, result) ==
    /\ \/ /\ Moves(from, from)
          /\ \E e \in entries : entries' = entries \ {e}
          /\ UNCHANGED <<journal, reported>>
       \/ /\ Moves(from, to) /\ entries = {}
          /\ journal' = FALSE /\ reported' = result /\ UNCHANGED entries
       \/ StorageFails(from) /\ UNCHANGED <<journal, entries>>
       \/ /\ StorageFails(from) /\ entries = {}
          /\ journal' = FALSE /\ UNCHANGED entries
    /\ UNCHANGED <<pair, saved, planVars, command, crashes, past,
                   readerVars>>

(* RecoverState does no more than that.                                    *)
RecoverState ==
    /\ Moves("begin", "idle") /\ reported' = "recovered"
    /\ UNCHANGED <<pair, journalVars, planVars, command, crashes, past,
                   readerVars>>

(* MutateConfig and SaveConfig replace one file, without a journal: the    *)
(* change is refused or the write fails, or it is reported as failed       *)
(* although the file was replaced (the directory could not be synced).     *)
MutateConfig ==
    /\ Moves("begin", "idle")
    /\ found' = Both /\ planned' = {"config"}
    /\ \/ /\ config' = command /\ good' = good \cup {<<command, secret>>}
          /\ reported' \in {"committed", "error"}
       \/ reported' = "error" /\ UNCHANGED <<config, good>>
    /\ UNCHANGED <<secret, journalVars, plan, command, crashes, readerVars>>

(* beginStateTransaction.                                                  *)
BeginTransaction ==
    /\ Moves("begin", "snapshot-config")
    /\ journal' = TRUE /\ entries' = {} /\ saved' = NoSnapshot
    /\ found' = Both
    /\ plan' \in Operations /\ planned' = {plan'[i] : i \in DOMAIN plan'}
    /\ UNCHANGED <<pair, command, crashes, good, reported, readerVars>>

Snapshot(file, content, from, to) ==
    /\ Moves(from, to)
    /\ saved' = [saved EXCEPT ![file] = content]
    /\ entries' = IF content = Nil THEN entries ELSE entries \cup {file}
    /\ UNCHANGED <<pair, journal, planVars, command, crashes, past,
                   reported, readerVars>>

WriteManifest ==
    /\ Moves("manifest", "sync")
    /\ entries' = entries \cup {"manifest"}
    /\ UNCHANGED <<pair, journal, saved, planVars, command, crashes,
                   past, reported, readerVars>>

(* The journal is durable: the operation may start.                        *)
PublishJournal ==
    /\ Moves("sync", "mutate")
    /\ UNCHANGED <<pair, journalVars, planVars, command, crashes, past,
                   reported, readerVars>>

(* A step of the preparation fails: the journal is removed again.          *)
BeginFails ==
    /\ at \in {"snapshot-config", "snapshot-secret", "manifest", "sync"}
    /\ at' = "remove-unprepared"
    /\ UNCHANGED <<pair, journalVars, planVars, command, crashes, past,
                   reported, readerVars>>

(* One atomic replacement of a state file.                                 *)
Write ==
    /\ at = "mutate" /\ plan # <<>>
    /\ config' = IF Head(plan) = "config" THEN command ELSE config
    /\ secret' = IF Head(plan) = "secret" THEN command ELSE secret
    /\ plan' = Tail(plan)
    /\ UNCHANGED <<planned, journalVars, at, command, crashes, past,
                   reported, readerVars>>

(* Mutant: the journal of a failed operation is removed, not restored.     *)
OperationFailsUnrestored ==
    /\ Moves("mutate", "remove-rolled-back")
    /\ UNCHANGED <<pair, journalVars, planVars, command, crashes, past,
                   reported, readerVars>>

(* The operation reports an error: rollback.                               *)
OperationFails ==
    /\ Moves("mutate", "rollback-config")
    /\ UNCHANGED <<pair, journalVars, planVars, command, crashes, past,
                   reported, readerVars>>

(* The operation succeeded and the state directory is synchronized.        *)
CommitTransaction ==
    /\ Moves("mutate", "remove-committed") /\ plan = <<>>
    /\ good' = good \cup {Both}
    /\ UNCHANGED <<pair, journalVars, planVars, command, crashes, found,
                   reported, readerVars>>

(* The process dies; the next command finds the lock's owner dead.         *)
Crash ==
    /\ at # "idle" /\ crashes < MaxCrashes
    /\ crashes' = crashes + 1
    /\ at' = "idle" /\ plan' = <<>> /\ reported' = "crashed"
    /\ UNCHANGED <<planned, pair, journalVars, command, past, readerVars>>
----------------------------------------------------------------------------
(* LoadConfig and SecretStore.Load: ensureStateReadable, then the file.    *)

ReaderStep(from, to) ==
    /\ reader = from /\ reader' = to
    /\ UNCHANGED txnVars

CheckReadable(from, to) ==
    /\ \/ ~journal /\ ReaderStep(from, to)
       \/ journal /\ ReaderStep(from, "refused")
    /\ UNCHANGED <<readConfig, readSecret>>

ReadConfig ==
    /\ ReaderStep("read-config", "check-secret")
    /\ readConfig' = config /\ UNCHANGED readSecret

ReadSecret ==
    /\ ReaderStep("read-secret", "loaded")
    /\ readSecret' = secret /\ UNCHANGED readConfig

ReadAgain ==
    /\ reader \in {"refused", "loaded"} /\ ReaderStep(reader, "idle")
    /\ readConfig' = Nil /\ readSecret' = Nil
----------------------------------------------------------------------------
Recovery ==
    \/ Recover
    \/ RestoreConfig("restore-config", "restore-secret")
    \/ RestoreSecret("restore-secret", "remove-recovered")
    \/ RemoveAll("remove-recovered", "begin", "running")

Transaction ==
    \/ RecoverState \/ MutateConfig \/ BeginTransaction
    \/ Snapshot("config", config, "snapshot-config", "snapshot-secret")
    \/ Snapshot("secret", secret, "snapshot-secret", "manifest")
    \/ WriteManifest \/ PublishJournal \/ BeginFails
    \/ RemoveAll("remove-unprepared", "idle", "rolled_back")
    \/ Write \/ OperationFails \/ CommitTransaction
    \/ RemoveAll("remove-committed", "idle", "committed")

RollBack ==
    \/ RestoreConfig("rollback-config", "rollback-secret")
    \/ RestoreSecret("rollback-secret", "remove-rolled-back")
    \/ RemoveAll("remove-rolled-back", "idle", "rolled_back")

Reading ==
    \/ CheckReadable("idle", "read-config") \/ ReadConfig
    \/ CheckReadable("check-secret", "read-secret") \/ ReadSecret
    \/ ReadAgain

TxnNext == Lock \/ Recovery \/ Transaction \/ RollBack \/ Crash \/ Reading

TxnSpec == TxnInit /\ [][TxnNext]_statevars
----------------------------------------------------------------------------
Versions == {Nil} \cup 1..MaxCommands

(* The variables' types: versions on disk and in the journal, its entries, *)
(* and where the command is.                                               *)
TxnTypeOK ==
    /\ config \in Versions /\ secret \in Versions
    /\ journal \in BOOLEAN
    /\ entries \subseteq {"config", "secret", "manifest"}
    /\ saved \in [{"config", "secret"} -> Versions]
    /\ command \in 0..MaxCommands /\ crashes \in 0..MaxCrashes
    /\ reported \in {"none", "running", "committed", "rolled_back", "error",
                    "recovered", "crashed", "unrecoverable"}
    /\ readConfig \in Versions /\ readSecret \in Versions

(* Whenever the state is readable (no journal), config and secret belong   *)
(* together: both from before a command, or both from after it, whatever   *)
(* failed or crashed.                                                      *)
ReadableStateConsistent == ~journal => Both \in good

Intended ==
    << IF "config" \in planned THEN command ELSE found[1],
       IF "secret" \in planned THEN command ELSE found[2] >>

(* What a command reports is what it left: committed means every write is  *)
(* in place and the journal is gone, rolled back means that both files     *)
(* hold exactly what they held before.                                     *)
OutcomeMatchesState ==
    /\ reported = "committed" => ~journal /\ Both = Intended
    /\ reported = "rolled_back" => ~journal /\ Both = found

(* A command happens as a whole or not at all, for those who read the      *)
(* files and for the one who ran it.                                       *)
StateIsAtomic == ReadableStateConsistent /\ OutcomeMatchesState

(* An interrupted command leaves a journal that the next mutating command  *)
(* can recover.                                                            *)
JournalRecoverable == reported # "unrecoverable"

(* While a complete journal is pending, no reader ends up with a config    *)
(* and a secret that do not belong together.                               *)
PendingReadsFailClosed ==
    (journal /\ "manifest" \in entries /\ reader = "loaded")
    => <<readConfig, readSecret>> \in good
=============================================================================
