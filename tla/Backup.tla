------------------------------- MODULE Backup -------------------------------
(***************************************************************************)
(* Restoring a backup (feat/backup.rs).                                    *)
(*                                                                         *)
(* To restore is to unpack the archive over the files of the program and   *)
(* then to load them again, one configuration after the other, while       *)
(* other commands change and save them.  A verge.yaml that cannot be read  *)
(* ends the restore; of the other two files the defaults take the place.   *)
(***************************************************************************)
EXTENDS Naturals

CONSTANTS
  MaxWrites    \* bound: changes of a configuration

Stores == {"clash", "profiles", "verge"}
Nothing == "nothing"

VARIABLES
  onDisk, inMemory,    \* each configuration's version in its file and its cell
  writing,             \* the version a save is about to write
  restorePc,           \* where the restore is
  restored,            \* what it read of verge.yaml
  touched,             \* history: what was changed or saved since it began
  defaulted,           \* history: what it could not read and took the default of
  backupWrites         \* bounded by MaxWrites

backupVars ==
  <<onDisk, inMemory, writing, restorePc, restored, touched, defaulted,
    backupWrites>>
history == <<restored, touched, defaulted>>

BackupInit ==
  /\ onDisk = [s \in Stores |-> "before"]
  /\ inMemory = [s \in Stores |-> "before"]
  /\ writing = [s \in Stores |-> Nothing]
  /\ restorePc = "idle" /\ restored = Nothing
  /\ touched = {} /\ defaulted = {}
  /\ backupWrites = 0

-----------------------------------------------------------------------------
(* Other commands.                                                         *)

\* A command changes a configuration, and saves it from the copy it made.
ChangeStore(s) ==
  /\ backupWrites < MaxWrites /\ writing[s] = Nothing
  /\ backupWrites' = backupWrites + 1
  /\ inMemory' = [inMemory EXCEPT ![s] = "change"]
  /\ writing' = [writing EXCEPT ![s] = "change"]
  /\ touched' = touched \union {s}
  /\ UNCHANGED <<onDisk, restorePc, restored, defaulted>>

WriteStore(s) ==
  /\ writing[s] # Nothing
  /\ onDisk' = [onDisk EXCEPT ![s] = writing[s]]
  /\ writing' = [writing EXCEPT ![s] = Nothing]
  /\ UNCHANGED <<inMemory, restorePc, history, backupWrites>>

\* apply_all_and_save_file, at the end of the program.
SaveAll ==
  /\ restorePc = "done" /\ \A s \in Stores : writing[s] = Nothing
  /\ onDisk' = inMemory
  /\ restorePc' = "ended"
  /\ UNCHANGED <<inMemory, writing, history, backupWrites>>

-----------------------------------------------------------------------------
(* restore_local_backup and restore_webdav_backup.                         *)

RestoreTo(label) == restorePc' = label
RestoreStep(from) == restorePc = from /\ UNCHANGED <<writing, backupWrites>>

BeginRestore ==
  /\ RestoreStep("idle")
  /\ RestoreTo("clash.yaml")
  /\ touched' = {s \in Stores : writing[s] # Nothing}
  /\ UNCHANGED <<onDisk, inMemory, restored, defaulted>>

ExtractTo(s, next) ==
  /\ onDisk' = [onDisk EXCEPT ![s] = "archive"]
  /\ RestoreTo(next)
  /\ UNCHANGED <<inMemory, history>>

\* zip.extract, in the archive's order.
Extract ==
  \/ RestoreStep("clash.yaml") /\ ExtractTo("clash", "verge.yaml")
  \/ RestoreStep("verge.yaml") /\ ExtractTo("verge", "profiles.yaml")
  \/ RestoreStep("profiles.yaml") /\ ExtractTo("profiles", "finalize")

\* finalize_restored_verge_config: verge.yaml is read and, with the account of
\* the settings, saved.
ReadVerge ==
  /\ RestoreStep("finalize")
  /\ restored' = onDisk["verge"]
  /\ RestoreTo("save")
  /\ UNCHANGED <<onDisk, inMemory, touched, defaulted>>

SaveVerge ==
  /\ RestoreStep("save")
  /\ onDisk' = [onDisk EXCEPT !["verge"] = restored]
  /\ RestoreTo("clash")
  /\ UNCHANGED <<inMemory, history>>

\* The archive is cut short, verge.yaml cannot be read, or cannot be saved: the
\* restore ends with an error, and nothing is loaded.
RestoreEnds ==
  /\ restorePc \in {"clash.yaml", "verge.yaml", "profiles.yaml", "finalize", "save"}
  /\ RestoreTo("failed")
  /\ UNCHANGED <<onDisk, inMemory, writing, history, backupWrites>>

\* Mutant of Reloads: only the settings are loaded again.
ReloadsVerge == {"verge"}

\* "Also reload other restored configs so restarts won't overwrite them."
Reloads == Stores

\* new() reads the file, edit_draft and apply make it the configuration.
LoadInto(s, next) ==
  /\ inMemory' = IF s \in Reloads THEN [inMemory EXCEPT ![s] = onDisk[s]]
                 ELSE inMemory
  /\ RestoreTo(next)
  /\ UNCHANGED <<onDisk, history>>

\* The file cannot be read: new() logs that and gives the default, and the
\* restore goes on.
LoadDefault(s, next) ==
  /\ s \in Reloads
  /\ inMemory' = [inMemory EXCEPT ![s] = "default"]
  /\ defaulted' = defaulted \union {s}
  /\ RestoreTo(next)
  /\ UNCHANGED <<onDisk, restored, touched>>

Load(s, next) == LoadInto(s, next) \/ LoadDefault(s, next)

LoadRestored ==
  \/ RestoreStep("clash") /\ Load("clash", "profiles")
  \/ RestoreStep("profiles") /\ Load("profiles", "verge")

\* What was read of verge.yaml, not what is there now.
ApplyVerge ==
  /\ RestoreStep("verge")
  /\ inMemory' = [inMemory EXCEPT !["verge"] = restored]
  /\ RestoreTo("done")
  /\ UNCHANGED <<onDisk, history>>

Restore ==
  \/ BeginRestore \/ Extract \/ ReadVerge \/ SaveVerge \/ RestoreEnds
  \/ LoadRestored \/ ApplyVerge

BackupNext ==
  \/ \E s \in Stores : ChangeStore(s) \/ WriteStore(s)
  \/ SaveAll \/ Restore

BackupSpec == BackupInit /\ [][BackupNext]_backupVars

-----------------------------------------------------------------------------
(* Properties.                                                             *)

\* After a restore that answered Ok, and the end of the program after it, the
\* configurations nobody touched in between are the archive's in memory and on
\* disk: the settings always, the clash configuration and the profiles unless
\* their file could not be read and the default was taken without a word
\* (defaulted), which the end of the program then writes over the file.
RestartKeepsRestored ==
  restorePc \in {"done", "ended"} =>
    \A s \in Stores \ touched :
      \/ inMemory[s] = "archive" /\ onDisk[s] = "archive"
      \/ s \in defaulted /\ s # "verge"
=============================================================================
