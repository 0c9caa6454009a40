-------------------------- MODULE ConfigLockProofs --------------------------
(***************************************************************************)
(* The config lock excludes, for any set of processes, unless the file of  *)
(* a live process that was using it has been unlinked.                     *)
(***************************************************************************)
EXTENDS ConfigLock, TLAPS

(* No lock file, no process under way: the path invariant holds at first.  *)
LEMMA InitHoldsThePath == Init => OwnersHoldThePath
<1> SUFFICES ASSUME Init PROVE OwnersHoldThePath
    OBVIOUS
<1>1. /\ lock \in Procs \cup {NoFile} /\ held \in [Procs -> Contained]
      /\ aged \in BOOLEAN /\ stolen \in BOOLEAN
    BY DEF Init, Contained
<1>2. /\ pc \in [Procs -> PCs]
      /\ \A p \in Procs : ~InUse(p)
    BY DEF Init, PCs, InUse
<1>3. seen \in [Procs -> (Procs \cup {NoFile}) \X Contained]
    BY DEF Init, Contained
<1> QED
    BY <1>1, <1>2, <1>3 DEF OwnersHoldThePath, TypeOK

(* Every step of the code keeps the path invariant.  Only Create, the      *)
(* three ways of unlinking the path, and Unlink's mark can disturb it.     *)
LEMMA StepHoldsThePath ==
    OwnersHoldThePath /\ [Next]_vars => OwnersHoldThePath'
<1> SUFFICES ASSUME OwnersHoldThePath, [Next]_vars
             PROVE  OwnersHoldThePath'
    OBVIOUS
<1> USE LockProcs DEF LockProcs, OwnersHoldThePath, TypeOK, PCs, InUse
<1>1. ASSUME NEW p \in Procs, Create(p) PROVE OwnersHoldThePath'
    BY <1>1 DEF Create, Step
<1>2. ASSUME NEW p \in Procs, WriteRecord(p) PROVE OwnersHoldThePath'
    BY <1>2 DEF WriteRecord, Step, Contained
<1>3. ASSUME NEW p \in Procs, WriteFails(p) PROVE OwnersHoldThePath'
  <2>1. held' \in [Procs -> Contained]
    BY <1>3 DEF WriteFails, Contained
  <2>2. ASSUME ~stolen', NEW q \in Procs, InUse(q)'
        PROVE  lock' = q
    BY <1>3, <2>2 DEF WriteFails, Step, RemovePath
  <2>3. /\ lock' \in Procs \cup {NoFile} /\ aged' \in BOOLEAN
        /\ pc' \in [Procs -> PCs]
    BY <1>3 DEF WriteFails, Step, RemovePath
  <2> QED
    BY <1>3, <2>1, <2>2, <2>3 DEF WriteFails
<1>4. ASSUME NEW p \in Procs, Inspect(p) PROVE OwnersHoldThePath'
  <2>1. LockFile \in (Procs \cup {NoFile}) \X Contained
    BY DEF LockFile, Contained
  <2>2. seen' \in [Procs -> (Procs \cup {NoFile}) \X Contained]
    BY <1>4, <2>1 DEF Inspect
  <2> QED
    BY <1>4, <2>2 DEF Inspect, Step
<1>5. ASSUME NEW p \in Procs, Recheck(p) PROVE OwnersHoldThePath'
    BY <1>5 DEF Recheck, Step
<1>6. ASSUME NEW p \in Procs, Unlink(p) PROVE OwnersHoldThePath'
  <2>1. TypeOK'
    BY <1>6 DEF Unlink, Step, RemovePath
  <2>2. ASSUME ~stolen', NEW q \in Procs, InUse(q)'
        PROVE  lock' = q
    BY <1>6, <2>2 DEF Unlink, Step, RemovePath
  <2> QED
    BY <2>1, <2>2
<1>7. ASSUME NEW p \in Procs, CheckOwned(p) PROVE OwnersHoldThePath'
    BY <1>7 DEF CheckOwned, Step
<1>8. ASSUME NEW p \in Procs, Release(p) PROVE OwnersHoldThePath'
    BY <1>8 DEF Release, Step, RemovePath
<1>9. ASSUME NEW p \in Procs, TimesOut(p) PROVE OwnersHoldThePath'
    BY <1>9 DEF TimesOut, Step
<1>10. ASSUME NEW p \in Procs, Die(p) PROVE OwnersHoldThePath'
    BY <1>10 DEF Die
<1>11. ASSUME NEW p \in Procs, LookFails(p) PROVE OwnersHoldThePath'
    BY <1>11 DEF LookFails, Step
<1>12. CASE Age
    BY <1>12 DEF Age
<1>13. CASE UNCHANGED vars
    BY <1>13 DEF vars
<1> QED
    BY <1>1, <1>2, <1>3, <1>4, <1>5, <1>6, <1>7, <1>8, <1>9, <1>10, <1>11,
       <1>12, <1>13 DEF Next, Proceed

(* In every execution, until a contender unlinks the file of a live        *)
(* process, whoever is between create and release has the file at the path.*)
THEOREM PathInvariant == Spec => []OwnersHoldThePath
<1> QED
    BY InitHoldsThePath, StepHoldsThePath, PTL DEF Spec

(* withConfigLock excludes unless a live process's file has been unlinked, *)
(* for any number of processes, deaths, stalls, timeouts and failed writes.*)
THEOREM LockExcludes == Spec => []ExclusionUnlessStolen
<1>1. OwnersHoldThePath => ExclusionUnlessStolen
    BY DEF OwnersHoldThePath, ExclusionUnlessStolen, MutualExclusion, Holds, InUse
<1> QED
    BY <1>1, PathInvariant, PTL
=============================================================================
