---------------------------- MODULE AutoBackup -----------------------------
(***************************************************************************)
(* The automatic backups (module/auto_backup.rs).                          *)
(*                                                                         *)
(* A saved global merge or script triggers a backup, and so does the       *)
(* scheduler, a task that sleeps for the interval of the settings and is   *)
(* told of new settings by a watch channel.  Two backups are at least one  *)
(* MinInterval apart; the oldest are removed beyond Keep.                  *)
(***************************************************************************)
EXTENDS Integers, FiniteSets, FiniteSetsExt

CONSTANTS
  Changes,      \* backups triggered by a change, under way
  Runner,       \* the scheduler's task
  MinInterval,  \* MIN_BACKUP_INTERVAL_SECS, in ticks of the clock
  Keep,         \* AUTO_BACKUP_KEEP
  MaxTime,      \* bound of the clock
  MaxPatchesAB  \* bound: patches of the settings

\* schedule: the interval in ticks, 0 when it is off.
ABSettings == [schedule : {0, 2}, change : BOOLEAN]
DefaultSettings == [schedule |-> 0, change |-> TRUE]

VARIABLES
  clock,               \* the time, from 1 on
  abWish,              \* the verge settings
  settings,            \* AutoBackupManager.settings
  sent, sentVersion,   \* the watch channel
  runner_started,
  current, seenVersion, sleepUntil,  \* the runner
  exec_lock, last_backup,
  autoFiles,           \* the automatic backups there are, by time
  unrecorded,          \* history: those of which the making failed in the end
  abPc,                \* where a trigger is
  abRefreshes,         \* patches that have not come to load_settings
  abLoaded,            \* what other patches have loaded and not stored yet
  abPatches            \* bounded by MaxPatchesAB

autoVars == <<clock, abWish, settings, sent, sentVersion, runner_started, current,
              seenVersion, sleepUntil, exec_lock, last_backup, autoFiles, unrecorded,
              abPc, abRefreshes, abLoaded, abPatches>>
channel == <<sent, sentVersion>>
runnerVars == <<runner_started, current, seenVersion, sleepUntil>>
execVars == <<exec_lock, last_backup, autoFiles, unrecorded>>
settingVars == <<abWish, settings, channel, abRefreshes, abLoaded, abPatches>>

Free == "free"
Triggers == Changes \union {Runner}

ASSUME AutoBackupAssumption == MinInterval \in Nat /\ Free \notin Triggers

AutoInit ==
  /\ clock = 1
  /\ abWish = DefaultSettings /\ settings = DefaultSettings
  /\ sent = DefaultSettings /\ sentVersion = 0
  /\ runner_started = FALSE /\ current = DefaultSettings
  /\ seenVersion = 0 /\ sleepUntil = 0
  /\ exec_lock = Free /\ last_backup = 0 /\ autoFiles = {} /\ unrecorded = {}
  /\ abPc = [t \in Triggers |-> "idle"]
  /\ abRefreshes = 0 /\ abLoaded = {} /\ abPatches = 0

AbAt(t, label) == abPc[t] = label
AbTo(t, label) == abPc' = [abPc EXCEPT ![t] = label]

AbTick ==
  /\ clock < MaxTime
  /\ clock' = clock + 1
  /\ UNCHANGED <<settingVars, runnerVars, execVars, abPc>>

-----------------------------------------------------------------------------
(* refresh_settings and init.                                              *)

PatchSchedule(new) ==
  /\ abPatches < MaxPatchesAB
  /\ abPatches' = abPatches + 1
  /\ abWish' = new
  /\ abRefreshes' = abRefreshes + 1
  /\ UNCHANGED <<clock, settings, channel, abLoaded, runnerVars, execVars, abPc>>

LoadSettings ==
  /\ abRefreshes > 0
  /\ abRefreshes' = abRefreshes - 1
  /\ abLoaded' = abLoaded \union {abWish}
  /\ UNCHANGED <<clock, abWish, settings, channel, abPatches, runnerVars, execVars,
                 abPc>>

\* The settings are stored, sent and the runner is started, once: it has seen
\* what was sent before it.
SendSettings(loaded) ==
  /\ settings' = loaded /\ abLoaded' = abLoaded \ {loaded}
  /\ sent' = settings' /\ sentVersion' = sentVersion + 1
  /\ IF settings'.schedule # 0 /\ ~runner_started
     THEN /\ runner_started' = TRUE
          /\ current' = settings' /\ seenVersion' = sentVersion'
          /\ sleepUntil' = clock + settings'.schedule
     ELSE UNCHANGED runnerVars
  /\ UNCHANGED <<clock, abWish, abRefreshes, abPatches, execVars, abPc>>

-----------------------------------------------------------------------------
(* run_scheduler                                                           *)

\* rx.changed(): a new interval starts anew.
HearChange ==
  /\ runner_started /\ AbAt(Runner, "idle") /\ seenVersion # sentVersion
  /\ seenVersion' = sentVersion /\ current' = sent
  /\ sleepUntil' = clock + sent.schedule
  /\ UNCHANGED <<clock, settingVars, runner_started, execVars, abPc>>

\* select! takes either when both are ready.
SleeperWakes ==
  /\ runner_started /\ AbAt(Runner, "idle")
  /\ current.schedule # 0 /\ clock >= sleepUntil
  /\ AbTo(Runner, "wanted")
  /\ UNCHANGED <<clock, settingVars, runnerVars, execVars>>

-----------------------------------------------------------------------------
(* execute_trigger                                                         *)

\* A saved global merge or script (cmd/save_profile.rs).
TriggerChange(c) ==
  /\ AbAt(c, "idle")
  /\ AbTo(c, "wanted")
  /\ UNCHANGED <<clock, settingVars, runnerVars, execVars>>

Enabled(t) == IF t = Runner THEN settings.schedule # 0 ELSE settings.change

should_run_now == last_backup = 0 \/ clock - last_backup >= MinInterval

\* The end of execute_trigger: the runner sleeps again.
AbReturn(t) ==
  /\ AbTo(t, "idle")
  /\ IF t = Runner
     THEN sleepUntil' = clock + current.schedule
          /\ UNCHANGED <<runner_started, current, seenVersion>>
     ELSE UNCHANGED runnerVars

CheckTrigger(t) ==
  /\ AbAt(t, "wanted")
  /\ IF Enabled(t) /\ should_run_now
     THEN AbTo(t, "lock") /\ UNCHANGED runnerVars
     ELSE AbReturn(t)
  /\ UNCHANGED <<clock, settingVars, execVars>>

\* Mutant of StillNeeded: what was checked before the lock is believed.
BelievedNeeded == TRUE

\* The time is checked again under the lock.
StillNeeded == should_run_now

LockBackup(t) ==
  /\ AbAt(t, "lock") /\ exec_lock = Free
  /\ IF StillNeeded
     THEN exec_lock' = t /\ AbTo(t, "make") /\ UNCHANGED runnerVars
     ELSE UNCHANGED exec_lock /\ AbReturn(t)
  /\ UNCHANGED <<clock, settingVars, last_backup, autoFiles, unrecorded>>

\* create_local_backup_with_namer; last_backup is set after it.
MakeBackup(t) ==
  /\ AbAt(t, "make")
  /\ autoFiles' = autoFiles \union {clock}
  /\ unrecorded' = unrecorded \ {clock}
  /\ AbTo(t, "made")
  /\ UNCHANGED <<clock, settingVars, runnerVars, exec_lock, last_backup>>

\* move_file may fail when it has copied the file, or some of it.
BackupFails(t) ==
  /\ AbAt(t, "make")
  /\ \/ UNCHANGED <<autoFiles, unrecorded>>
     \/ /\ autoFiles' = autoFiles \union {clock}
        /\ unrecorded' = unrecorded \union {clock}
  /\ exec_lock' = Free
  /\ AbReturn(t)
  /\ UNCHANGED <<clock, settingVars, last_backup>>

Oldest(n, files) == CHOOSE old \in kSubset(n, files) :
                      \A f \in old, g \in files \ old : f < g

\* cleanup_auto_backups
Cleaned(files) ==
  IF Cardinality(files) <= Keep THEN files
  ELSE files \ Oldest(Cardinality(files) - Keep, files)

RecordBackup(t) ==
  /\ AbAt(t, "made")
  /\ last_backup' = clock
  /\ autoFiles' = Cleaned(autoFiles)
  /\ exec_lock' = Free
  /\ AbReturn(t)
  /\ UNCHANGED <<clock, settingVars, unrecorded>>

ExecuteTrigger(t) ==
  CheckTrigger(t) \/ LockBackup(t) \/ MakeBackup(t) \/ BackupFails(t)
  \/ RecordBackup(t)

AutoNext ==
  \/ AbTick \/ LoadSettings \/ HearChange \/ SleeperWakes
  \/ \E loaded \in abLoaded : SendSettings(loaded)
  \/ \E new \in ABSettings : PatchSchedule(new)
  \/ \E c \in Changes : TriggerChange(c)
  \/ \E t \in Triggers : ExecuteTrigger(t)

AutoSpec == AutoInit /\ [][AutoNext]_autoVars

-----------------------------------------------------------------------------
(* Properties.                                                             *)

\* Whoever triggers them and however they overlap, two automatic backups are at
\* least a MinInterval apart, so that a burst of changes does not push the
\* older backups out; but for the files of backups that failed, which no time
\* is recorded of.
BackupsApart ==
  \A a, b \in autoFiles \ unrecorded : a < b => b - a >= MinInterval
=============================================================================
