--------------------------- MODULE SetupSettings ---------------------------
(***************************************************************************)
(* The Agent's settings file through Setup and the uninstaller: Setup      *)
(* moves it from the state directory to the install directory and leaves a *)
(* pointer behind, which the Agent follows; the uninstaller moves it back  *)
(* when the configuration is to be kept, or removes it with everything     *)
(* else.  Every step may fail, and either program may die between two of   *)
(* them, or inside the copy, which is not atomic.                          *)
(*                                                                         *)
(* The contents of the file are the pairing it records, a number, and      *)
(* where its gateway address comes from.                                   *)
(***************************************************************************)
EXTENDS Integers

CONSTANTS
    MaxPairings,      \* bound: changes of the settings
    MaxOperations     \* bound: runs of Setup and of the uninstaller

ASSUME SettingsBounds == MaxPairings \in Nat /\ MaxOperations \in Nat

Settings == [pairing : 0..MaxPairings, address : {"none", "paired", "default", "typed"}]
Missing == [pairing |-> 0, address |-> "missing"]
Torn == [pairing |-> 0, address |-> "torn"]
DefaultConfig == [pairing |-> 0, address |-> "none"]

VARIABLES
    stateCopy, installCopy,  \* config.json in either directory
    pointer,                 \* settings_location is there
    program,                 \* the install directory is there
    owned,                   \* the state directory has its marker
    doing,                   \* the step of the program that runs, or "idle"
    data,                    \* what relocateSettings or the rescue read
    typed,                   \* choices.tunnelGiven
    operations, pairings,    \* bounds: operations and changes so far
    failed,                  \* history: a step of this operation failed
    start,                   \* history: the copies and the pointer it began with
    latest,                  \* history: the pairing last recorded and not removed since
    tore,                    \* history: a copy was torn
    result                   \* history: what the last operation said

settingsvars == <<stateCopy, installCopy, pointer, program, owned, doing, data, typed, operations,
                  pairings, failed, start, latest, tore, result>>
copies == <<stateCopy, installCopy>>
places == <<stateCopy, installCopy, pointer, program, owned>>
history == <<operations, pairings, start, latest, tore, result>>

\* ConfigPath: the pointer is the only way the location moves.
Live == IF pointer THEN installCopy ELSE stateCopy
Readable(c) == c # Torn
Loaded(c) == IF c = Missing THEN DefaultConfig ELSE c

\* saveConfigUnlocked: the file is replaced whole, where ConfigPath says.
Saved(c) == IF pointer THEN installCopy' = c /\ UNCHANGED stateCopy
            ELSE stateCopy' = c /\ UNCHANGED installCopy
Writable == pointer => program

\* MutateConfig by the Agent, its pairing page or its command line.
PairingChanges ==
    /\ doing = "idle" /\ pairings < MaxPairings /\ Readable(Live) /\ Writable
    /\ Saved([pairing |-> pairings + 1, address |-> "paired"]) /\ pairings' = pairings + 1
    /\ latest' = pairings + 1
    /\ owned' = TRUE
    /\ UNCHANGED <<pointer, program, doing, data, typed, operations, failed, start, tore, result>>

----------------------------------------------------------------------------
(* Setup, once the payload is committed.                                   *)

To(s) == doing' = s
Fails == failed' = TRUE
Works == UNCHANGED failed
Said(what) == result' = what /\ UNCHANGED <<operations, pairings, start, latest, tore>>

Begun(s) ==
    /\ doing = "idle" /\ operations < MaxOperations
    /\ To(s) /\ operations' = operations + 1 /\ failed' = FALSE /\ data' = Missing
    /\ result' = "none" /\ UNCHANGED <<pairings, tore>>
    /\ start' = [state |-> stateCopy, install |-> installCopy, pointer |-> pointer]

\* installPairingCapability has created the state directory and its marker.
SetupBegins == /\ Begun("read") /\ program' = TRUE /\ owned' = TRUE /\ typed' \in BOOLEAN
               /\ UNCHANGED <<copies, pointer, latest>>

\* relocateSettingsToInstallDir.  Whatever fails, the address comes next.
ReadSource ==
    /\ doing = "read" /\ UNCHANGED <<places, typed, history>>
    /\ \/ data' = stateCopy /\ To("point") /\ Works
       \/ To("address") /\ Fails /\ UNCHANGED data
Point ==
    /\ doing = "point" /\ UNCHANGED <<copies, program, owned, data, typed, history>>
    /\ \/ pointer' = TRUE /\ To(IF data = Missing THEN "address" ELSE "copy") /\ Works
       \/ To("address") /\ Fails /\ UNCHANGED pointer
\* The copy goes by os.WriteFile, which empties the file first.
CopyToInstall ==
    /\ doing = "copy"
    /\ \/ installCopy' = data /\ To("drop") /\ Works /\ UNCHANGED tore
       \/ installCopy' = Torn /\ To("address") /\ Fails /\ tore' = TRUE
       \/ installCopy' = installCopy /\ To("address") /\ Fails /\ UNCHANGED tore
    /\ UNCHANGED <<stateCopy, pointer, program, owned, data, typed, operations, pairings, start, latest, result>>
\* Deleting the superseded copy is best-effort: its failure is only a note.
DropSource ==
    /\ doing = "drop" /\ To("address") /\ Works
    /\ (stateCopy' = Missing \/ stateCopy' = stateCopy)
    /\ UNCHANGED <<installCopy, pointer, program, owned, data, typed, history>>

\* applyTunnelURL: an answer nobody gave does not replace a recorded address.
Addressed(c) == IF ~typed /\ c.address # "none" THEN c
                ELSE [c EXCEPT !.address = IF typed THEN "typed" ELSE "default"]
ApplyTunnelURL ==
    /\ doing = "address" /\ To("idle") /\ Said("installed")
    /\ \/ Readable(Live) /\ Saved(Addressed(Loaded(Live))) /\ Works
       \/ Fails /\ UNCHANGED copies
    /\ UNCHANGED <<pointer, program, owned, data, typed>>

----------------------------------------------------------------------------
(* The uninstall worker, once the service, the tray and the entry are gone. *)

KeepBegins == Begun("rescue") /\ program /\ UNCHANGED <<places, typed, latest>>
RemoveBegins == Begun("remove") /\ program /\ latest' = 0 /\ UNCHANGED <<places, typed>>

\* A directory without the Agent's marker is not touched.
GuardOwnedStateDir == owned

\* preserveRedirectedSettings: the redirected file, if there is one, returns to
\* the owned state directory, and the pointer goes.
RescueLooks ==
    /\ doing = "rescue" /\ UNCHANGED <<places, data, typed, history>>
    /\ \/ ~pointer /\ To("keepProgram") /\ Works
       \/ pointer /\ installCopy # Missing /\ GuardOwnedStateDir /\ To("rescueCopy") /\ Works
       \/ pointer /\ installCopy = Missing /\ To("unpoint") /\ Works
       \/ To("keepProgram") /\ Fails
\* Mutant: the pointer goes without the file.
RescueCopyLeaves ==
    /\ doing = "rescueCopy" /\ To("unpoint") /\ Works /\ UNCHANGED <<places, data, typed, history>>
RescueCopy ==
    /\ doing = "rescueCopy"
    /\ \/ stateCopy' = installCopy /\ To("unpoint") /\ Works /\ UNCHANGED tore
       \/ stateCopy' = Torn /\ To("keepProgram") /\ Fails /\ tore' = TRUE
       \/ stateCopy' = stateCopy /\ To("keepProgram") /\ Fails /\ UNCHANGED tore
    /\ UNCHANGED <<installCopy, pointer, program, owned, data, typed, operations, pairings, start, latest, result>>
Unpoint ==
    /\ doing = "unpoint" /\ To("keepProgram")
    /\ \/ pointer' = FALSE /\ Works
       \/ Fails /\ UNCHANGED pointer
    /\ UNCHANGED <<copies, program, owned, data, typed, history>>

\* The install directory goes, ten seconds of retries allowing, whatever the
\* rescue recorded.
RemoveProgram ==
    /\ doing \in {"keepProgram", "remove"}
    /\ To(IF doing = "remove" THEN "removeState" ELSE "keepState")
    /\ \/ program' = FALSE /\ installCopy' = Missing /\ Works
       \/ Fails /\ UNCHANGED <<program, installCopy>>
    /\ UNCHANGED <<stateCopy, pointer, owned, data, typed, history>>

\* preserveStateConfig removes all but the records a new installation needs,
\* the pointer included, and removeAllState everything.
KeepState ==
    /\ doing = "keepState" /\ To("idle")
    /\ \/ GuardOwnedStateDir /\ pointer' = FALSE /\ Works /\ Said(IF failed THEN "incomplete" ELSE "kept")
       \/ Fails /\ UNCHANGED pointer /\ Said("incomplete")
    /\ UNCHANGED <<copies, program, owned, data, typed>>
RemoveState ==
    /\ doing = "removeState" /\ To("idle") /\ UNCHANGED <<installCopy, program, data, typed>>
    /\ \/ /\ GuardOwnedStateDir /\ pointer' = FALSE /\ stateCopy' = Missing /\ owned' = FALSE /\ Works
          /\ Said(IF failed THEN "incomplete" ELSE "removed")
       \/ Fails /\ UNCHANGED <<pointer, stateCopy, owned>> /\ Said("incomplete")

\* Either program dies; inside a copy it leaves the file empty.
Dies ==
    /\ doing # "idle" /\ To("idle")
    /\ \/ UNCHANGED <<copies, tore>>
       \/ doing = "copy" /\ installCopy' = Torn /\ tore' = TRUE /\ UNCHANGED stateCopy
       \/ doing = "rescueCopy" /\ stateCopy' = Torn /\ tore' = TRUE /\ UNCHANGED installCopy
    /\ result' = "died"
    /\ UNCHANGED <<pointer, program, owned, data, typed, operations, pairings, failed, start, latest>>

----------------------------------------------------------------------------

SettingsInit ==
    /\ stateCopy = Missing /\ installCopy = Missing /\ pointer = FALSE
    /\ program = FALSE /\ owned = FALSE /\ doing = "idle" /\ data = Missing /\ typed = FALSE
    /\ operations = 0 /\ pairings = 0 /\ failed = FALSE /\ latest = 0 /\ tore = FALSE
    /\ result = "none" /\ start = [state |-> Missing, install |-> Missing, pointer |-> FALSE]

SettingsNext ==
    \/ PairingChanges \/ SetupBegins \/ ReadSource \/ Point \/ CopyToInstall \/ DropSource
    \/ ApplyTunnelURL \/ KeepBegins \/ RemoveBegins \/ RescueLooks \/ RescueCopy \/ Unpoint
    \/ RemoveProgram \/ KeepState \/ RemoveState \/ Dies

SettingsSpec == SettingsInit /\ [][SettingsNext]_settingsvars

----------------------------------------------------------------------------

\* The types of the variables; the install directory holds its copy.
SettingsTypeOK ==
    /\ {stateCopy, installCopy, data} \subseteq Settings \union {Missing, Torn}
    /\ {pointer, program, owned, typed, failed, tore} \subseteq BOOLEAN
    /\ operations \in 0..MaxOperations /\ pairings \in 0..MaxPairings /\ latest \in 0..pairings
    /\ result \in {"none", "installed", "kept", "removed", "incomplete", "died"}
    /\ installCopy # Missing => program

Clean == doing = "idle" /\ ~failed /\ ~tore
StartLive == IF start.pointer THEN start.install ELSE start.state
Source == IF start.state # Missing THEN start.state ELSE StartLive

\* A run of Setup that began with the settings in effect where it looks for
\* them leaves the Agent with those settings, and no default address has
\* replaced a recorded one (setup.go:375-424).  Where it looks includes what a
\* run that died between the pointer and the copy left behind.
RelocationKeepsSettings ==
    Clean /\ result = "installed" /\ latest # 0 /\ Source.pairing = latest =>
        Live.pairing = latest /\ (typed \/ Live.address # "default")

\* When the uninstaller says it kept the configuration, the state directory
\* holds the settings the Agent had in effect and nothing points elsewhere, so
\* that the next installation reconnects (uninstall.go:182-191, 248-334).
KeptMeansUsable ==
    Clean /\ result = "kept" /\ latest # 0
      /\ latest = (IF StartLive = Missing THEN start.state ELSE StartLive).pairing =>
        stateCopy.pairing = latest /\ ~pointer

\* The settings of the paired device survive moving, upgrading and removing
\* the program.
SettingsPreserved == RelocationKeepsSettings /\ KeptMeansUsable

\* "The state directory's copy wins when both exist: it is what the previously
\* installed Agent was actually running" (setup.go:379-381): a run of Setup in
\* which nothing fails leaves the Agent the settings it had.
SettingsSurviveSetup ==
    Clean /\ result = "installed" /\ latest # 0 /\ StartLive.pairing = latest =>
        Live.pairing = latest

\* "Rescue it first, or --keep-config would destroy the pairing it promised to
\* preserve" (uninstall.go:183-185): an uninstall that keeps the configuration
\* destroys no pairing.
KeepConfigNeverDestroys ==
    doing = "keepState" /\ StartLive.pairing = latest =>
        latest \in {stateCopy.pairing, installCopy.pairing}
=============================================================================
