------------------------------- MODULE MCDisk -------------------------------
(***************************************************************************)
(* What the programs share through files: the Agent's rollback journal,    *)
(* the lock around its state directory, the installation that Setup        *)
(* replaces, the settings file that Setup and the uninstaller move, and    *)
(* the metadata generations a publisher leaves for the Gateway.  The five  *)
(* share no state; a behaviour is about one of them.                       *)
(***************************************************************************)
EXTENDS StateTransaction, ConfigLock, SetupTransaction, SetupSettings,
        LiveMetadata

CONSTANT Subjects     \* the components checked

VARIABLE subject

MCPayload == <<"agent", "tray">>

Machine(there, what) == [installed |-> there, faults |-> what]

(* A first installation or an upgrade, with the faults that interact.      *)
MCMachines ==
    {Machine(there, what) :
        there \in BOOLEAN,
        what \in {{"rename", "revert"}, {"command"}, {"command", "slow"},
                  {"dies", "slow"}, {"rename", "crash"},
                  {"command", "crash"}}}

(* An upgrade on which only a rename may fail.                             *)
UpgradeOnly == {Machine(TRUE, {"rename"})}

(* Two directories and two revisions; one environment per kind of fault.   *)
MCFaultSets == {{"short", "skew"}, {"rollback"}, {"rewrite"}}

mcvars == <<subject, statevars, vars, setupvars, settingsvars, mdVars>>

MCInit ==
    /\ subject \in Subjects
    /\ TxnInit /\ Init /\ SetupInit /\ SettingsInit /\ MDInit
    /\ subject # "setup" => machine = CHOOSE m \in Machines : TRUE
    /\ subject # "metadata" => faults = CHOOSE fs \in FaultSets : TRUE

MCNext ==
    /\ UNCHANGED subject
    /\ \/ /\ subject = "journal" /\ TxnNext
          /\ UNCHANGED <<vars, setupvars, settingsvars, mdVars>>
       \/ /\ subject = "lock" /\ Next
          /\ UNCHANGED <<statevars, setupvars, settingsvars, mdVars>>
       \/ /\ subject = "setup" /\ SetupNext
          /\ UNCHANGED <<statevars, vars, settingsvars, mdVars>>
       \/ /\ subject = "settings" /\ SettingsNext
          /\ UNCHANGED <<statevars, vars, setupvars, mdVars>>
       \/ /\ subject = "metadata" /\ MDNext
          /\ UNCHANGED <<statevars, vars, setupvars, settingsvars>>

(* The fairness of ConfigLock, SetupTransaction and LiveMetadata, each     *)
(* where it is the subject.                                                *)
MCSpec ==
    /\ MCInit /\ [][MCNext]_mcvars
    /\ WF_vars(subject = "lock" /\ Age)
    /\ \A p \in Procs : WF_vars(subject = "lock" /\ Proceed(p))
    /\ WF_mdVars(subject = "metadata" /\ Refresh)
=============================================================================
