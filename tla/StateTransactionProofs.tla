----------------------- MODULE StateTransactionProofs -----------------------
(***************************************************************************)
(* The rollback journal keeps config.json and the secret store together,   *)
(* for any number of commands and crashes, and whatever the storage fails  *)
(* to do.                                                                  *)
(***************************************************************************)
EXTENDS StateTransaction, SequenceTheorems, TLAPS

Files == {"config", "secret"}
Preparing == {"snapshot-config", "snapshot-secret", "manifest", "sync"}
Restoring == {"restore-config", "restore-secret", "rollback-config", "rollback-secret"}
Removing ==
    {"remove-recovered", "remove-unprepared", "remove-committed", "remove-rolled-back"}

(* The types of the variables the argument is about.                       *)
JournalTypeOK ==
    /\ journal \in BOOLEAN /\ entries \subseteq Files \cup {"manifest"}
    /\ saved \in [config : Nat \cup {Nil}, secret : Nat \cup {Nil}]
    /\ config \in Nat \cup {Nil} /\ secret \in Nat \cup {Nil}
    /\ found \in (Nat \cup {Nil}) \X (Nat \cup {Nil})
    /\ at \in {"idle", "recover", "begin", "mutate"} \cup Preparing \cup Restoring \cup Removing
    /\ command \in Nat /\ plan \in Seq(Files)

(* The files the command has still to write.                               *)
Pending == {plan[i] : i \in DOMAIN plan}

(* What the snapshots say is what the command found, and where it stands   *)
(* says how far the files are from that.                                   *)
JournalIsTrue ==
    /\ found \in good
    /\ "manifest" \notin entries => Both \in good
    /\ "manifest" \in entries => saved.config = found[1] /\ saved.secret = found[2]
    /\ ~journal => entries = {}
    /\ at = "begin" => ~journal
    /\ at \in Preparing \cup Restoring \cup Removing \cup {"mutate"} => journal
    /\ at \in Restoring \cup {"sync", "mutate"} => "manifest" \in entries

(* Where the command stands says which files hold what it found, which     *)
(* already hold what it writes, and what it will report.                   *)
CommandIsOnCourse ==
    /\ at # "idle" => reported = "running"
    /\ at \in Preparing => Both = found /\ planned = Pending
    /\ at \in {"snapshot-secret", "manifest"} => saved.config = config
    /\ at = "manifest" => saved.secret = secret
    /\ at \in {"restore-secret", "rollback-secret"} => config = found[1]
    /\ at \in Removing => Both \in good
    /\ at \in {"remove-unprepared", "remove-rolled-back"} => Both = found
    /\ at = "remove-committed" => Both = Intended
    /\ at = "mutate" =>
         /\ Pending \subseteq planned
         /\ "config" \in planned \ Pending => config = command
         /\ "secret" \in planned \ Pending => secret = command
         /\ "config" \notin planned => config = found[1]
         /\ "secret" \notin planned => secret = found[2]

(* The inductive invariant of the journal.                                 *)
JournalInv == JournalTypeOK /\ JournalIsTrue /\ CommandIsOnCourse /\ OutcomeMatchesState

----------------------------------------------------------------------------
(* The state directory starts empty, with no journal (config.go).          *)
LEMMA InitJournal == TxnInit => JournalInv
<1> SUFFICES ASSUME TxnInit PROVE JournalInv
  OBVIOUS
<1>1. JournalTypeOK
  BY EmptySeq DEF TxnInit, JournalTypeOK, NoSnapshot, Both
<1>2. JournalIsTrue
  BY DEF TxnInit, JournalIsTrue, Both, Preparing, Restoring, Removing
<1>3. CommandIsOnCourse /\ OutcomeMatchesState
  BY DEF TxnInit, CommandIsOnCourse, OutcomeMatchesState, Preparing, Removing
<1> QED
  BY <1>1, <1>2, <1>3 DEF JournalInv

(* Every plan of a command is a sequence of state files (Operations).      *)
LEMMA PlansAreFiles == Operations \subseteq Seq(Files)
<1>1. /\ <<>> \in Seq(Files) /\ <<"config">> \in Seq(Files) /\ <<"secret">> \in Seq(Files)
      /\ <<"config", "secret">> \in Seq(Files)
      /\ <<"config", "secret", "secret">> \in Seq(Files)
  BY DEF Files
<1>2. initializeAgentState \in Seq(Files) /\ configureAgentState \in Seq(Files)
  BY <1>1, ConcatProperties DEF initializeAgentState, configureAgentState, IfNil
<1>3. rotateAgentIdentity \subseteq Seq(Files) /\ unpairAgentState \subseteq Seq(Files)
  BY <1>1 DEF rotateAgentIdentity, unpairAgentState
<1> QED
  BY <1>2, <1>3 DEF Operations

(* A write takes its file off the plan, and nothing else.                  *)
LEMMA WriteTakesItsFile ==
    ASSUME NEW p \in Seq(Files), p # <<>>
    PROVE  /\ Head(p) \in Files /\ Tail(p) \in Seq(Files)
           /\ {p[i] : i \in DOMAIN p} = {Head(p)} \cup {Tail(p)[i] : i \in DOMAIN Tail(p)}
<1>1. /\ Len(p) \in Nat \ {0} /\ DOMAIN p = 1..Len(p) /\ Head(p) = p[1]
      /\ Tail(p) \in Seq(Files) /\ DOMAIN Tail(p) = 1..(Len(p) - 1)
      /\ \A i \in 1..(Len(p) - 1) : Tail(p)[i] = p[i + 1]
  <2>1. Len(p) \in Nat \ {0} /\ DOMAIN p = 1..Len(p)
    BY EmptySeq, LenProperties
  <2>2. /\ Tail(p) \in Seq(Files) /\ Len(Tail(p)) = Len(p) - 1
        /\ \A i \in 1..Len(Tail(p)) : Tail(p)[i] = p[i + 1]
    BY HeadTailProperties
  <2>3. DOMAIN Tail(p) = 1..Len(Tail(p))
    BY <2>2, LenProperties
  <2>4. Head(p) = p[1]
    BY <2>1
  <2> QED
    BY <2>1, <2>2, <2>3, <2>4
<1>2. \A i \in DOMAIN p : i = 1 \/ (i - 1 \in DOMAIN Tail(p) /\ p[i] = Tail(p)[i - 1])
  BY <1>1
<1>3. \A i \in DOMAIN Tail(p) : i + 1 \in DOMAIN p /\ Tail(p)[i] = p[i + 1]
  BY <1>1
<1>4. Head(p) \in Files
  BY HeadTailProperties
<1>5. {p[i] : i \in DOMAIN p} \subseteq {Head(p)} \cup {Tail(p)[i] : i \in DOMAIN Tail(p)}
  <2> SUFFICES ASSUME NEW i \in DOMAIN p
               PROVE  p[i] \in {Head(p)} \cup {Tail(p)[j] : j \in DOMAIN Tail(p)}
    OBVIOUS
  <2>1. CASE i = 1
    BY <1>1, <2>1
  <2>2. CASE i - 1 \in DOMAIN Tail(p) /\ p[i] = Tail(p)[i - 1]
    BY <2>2
  <2> QED
    BY <1>2, <2>1, <2>2
<1>6. {Tail(p)[i] : i \in DOMAIN Tail(p)} \subseteq {p[i] : i \in DOMAIN p}
  BY <1>3, Zenon
<1>7. Head(p) \in {p[i] : i \in DOMAIN p}
  BY <1>1
<1> QED
  BY <1>1, <1>4, <1>5, <1>6, <1>7

(* Every step of a command, of the recovery and of a crash keeps the       *)
(* invariant (state_transaction.go).                                       *)
LEMMA StepJournal == JournalInv /\ [TxnNext]_statevars => JournalInv'
<1> SUFFICES ASSUME JournalInv, [TxnNext]_statevars PROVE JournalInv'
  OBVIOUS
<1> USE DEF JournalInv, JournalTypeOK, JournalIsTrue, CommandIsOnCourse, OutcomeMatchesState,
            Both, pair, journalVars, planVars, past, readerVars, Moves,
            Preparing, Restoring, Removing
<1>1. CASE Lock
  BY <1>1 DEF Lock, Intended, Pending
<1>2. CASE Recover
  BY <1>2 DEF Recover, Intended, Pending
<1>3. ASSUME NEW from \in {"restore-config", "rollback-config"},
             NEW to \in {"restore-secret", "rollback-secret"},
             RestoreConfig(from, to)
      PROVE  JournalInv'
  BY <1>3 DEF RestoreConfig, StorageFails, Restorable, Intended, Pending
<1>4. CASE RestoreSecret("restore-secret", "remove-recovered")
  BY <1>4 DEF RestoreSecret, StorageFails, Restorable, Intended, Pending
<1>5. CASE RestoreSecret("rollback-secret", "remove-rolled-back")
  BY <1>5 DEF RestoreSecret, StorageFails, Restorable, Intended, Pending
<1>6. CASE RemoveAll("remove-recovered", "begin", "running")
  BY <1>6 DEF RemoveAll, StorageFails, Intended, Pending
<1>7. CASE RemoveAll("remove-unprepared", "idle", "rolled_back")
  BY <1>7 DEF RemoveAll, StorageFails, Intended, Pending
<1>8. CASE RemoveAll("remove-committed", "idle", "committed")
  BY <1>8 DEF RemoveAll, StorageFails, Intended, Pending
<1>9. CASE RemoveAll("remove-rolled-back", "idle", "rolled_back")
  BY <1>9 DEF RemoveAll, StorageFails, Intended, Pending
<1>10. CASE RecoverState
  BY <1>10 DEF RecoverState, Intended, Pending
<1>11. CASE MutateConfig
  BY <1>11 DEF MutateConfig, Intended, Pending
<1>12. CASE BeginTransaction
  BY <1>12, PlansAreFiles DEF BeginTransaction, NoSnapshot, Intended, Pending
<1>13. CASE Snapshot("config", config, "snapshot-config", "snapshot-secret")
  <2>1. saved' = [saved EXCEPT !.config = config]
    BY <1>13 DEF Snapshot
  <2>2. /\ saved'.config = config /\ saved'.secret = saved.secret
        /\ saved' \in [config : Nat \cup {Nil}, secret : Nat \cup {Nil}]
    BY <2>1
  <2>3. entries' \subseteq Files \cup {"manifest"} /\ ("manifest" \in entries' <=> "manifest" \in entries)
    BY <1>13 DEF Snapshot, Files
  <2> QED
    BY <1>13, <2>2, <2>3 DEF Snapshot, Intended, Pending
<1>14. CASE Snapshot("secret", secret, "snapshot-secret", "manifest")
  <2>1. saved' = [saved EXCEPT !.secret = secret]
    BY <1>14 DEF Snapshot
  <2>2. /\ saved'.secret = secret /\ saved'.config = saved.config
        /\ saved' \in [config : Nat \cup {Nil}, secret : Nat \cup {Nil}]
    BY <2>1
  <2>3. entries' \subseteq Files \cup {"manifest"} /\ ("manifest" \in entries' <=> "manifest" \in entries)
    BY <1>14 DEF Snapshot, Files
  <2> QED
    BY <1>14, <2>2, <2>3 DEF Snapshot, Intended, Pending
<1>15. CASE WriteManifest
  BY <1>15 DEF WriteManifest, Intended, Pending
<1>16. CASE PublishJournal
  BY <1>16 DEF PublishJournal, Intended, Pending
<1>17. CASE BeginFails
  BY <1>17 DEF BeginFails, Intended, Pending
<1>18. CASE Write
  <2>1. /\ Head(plan) \in Files /\ plan' \in Seq(Files)
        /\ Pending = {Head(plan)} \cup Pending'
    BY <1>18, WriteTakesItsFile DEF Write, Pending
  <2> QED
    BY <1>18, <2>1 DEF Write, Intended, Files
<1>19. CASE OperationFails
  BY <1>19 DEF OperationFails, Intended, Pending
<1>20. CASE CommitTransaction
  BY <1>20 DEF CommitTransaction, Intended, Pending
<1>21. CASE Crash
  BY <1>21 DEF Crash, Intended, Pending
<1>22. CASE Reading
  <2>1. UNCHANGED txnVars
    BY <1>22 DEF Reading, CheckReadable, ReadConfig, ReadSecret, ReadAgain, ReaderStep
  <2> QED
    BY <2>1 DEF txnVars, Intended, Pending
<1>23. CASE UNCHANGED statevars
  BY <1>23 DEF statevars, txnVars, Intended, Pending
<1> QED
  BY <1>1, <1>2, <1>3, <1>4, <1>5, <1>6, <1>7, <1>8, <1>9, <1>10, <1>11, <1>12, <1>13, <1>14,
     <1>15, <1>16, <1>17, <1>18, <1>19, <1>20, <1>21, <1>22, <1>23
     DEF TxnNext, Recovery, Transaction, RollBack

(* In every reachable state the journal and the command that owns it are   *)
(* consistent: a manifest always describes the pair the command found, and *)
(* without one the files are a pair some command completed                 *)
(* (beginStateTransaction, commit, rollback, recoverStateTransaction).     *)
THEOREM JournalInvariant == TxnSpec => []JournalInv
  BY InitJournal, StepJournal, PTL DEF TxnSpec

(* Whenever readers may load the state, config and secret belong together, *)
(* and what a mutating command reports is what it left on disk, whichever  *)
(* of its steps failed or was the last before a crash.                     *)
THEOREM JournalAtomic == TxnSpec => []StateIsAtomic
<1>1. JournalInv => StateIsAtomic
  BY DEF JournalInv, JournalIsTrue, StateIsAtomic, ReadableStateConsistent
<1> QED
  BY JournalInvariant, <1>1, PTL
=============================================================================
