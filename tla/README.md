# Clash Verge Rev (Fluent): a TLA+ model of its back end

The program is a desktop shell around the mihomo proxy core. Its Rust back end
(`src-tauri/src`, `crates/`) keeps the settings and profiles of the user,
computes from them the configuration the core runs with, and starts, stops,
reloads and replaces the core, while commands of the user interface, timers,
deep links, the tray and the exit all act at the same time on tokio tasks. The
modules here model the parts in which that concurrency and its failures matter;
TLC checks them on small instances and TLAPS proves what matters most for every
value of the constants. Paths below are relative to `src-tauri/src` of the
repository unless they start with `crates/`.

- [The system](#the-system): parts, state, operations, how they interact
- [Plan](#plan): modules, order, what is done and what is left
- [Modules](#modules): what each one models and how it corresponds to the code
- [Runs](#runs): what each run asks, its bounds, what it shows
- [Disagreements with the code's own words](#disagreements)
- [Fairness](#fairness)
- [Proofs](#proofs): what is proved, from what, along which argument
- [Not modelled](#not-modelled)

## The system

| Part | State | Operations | Meets |
|---|---|---|---|
| Draft cell (`crates/clash-verge-draft`) | committed value, optional draft, a modify permit | `edit_draft`, `apply`, `discard`, `with_data_modify`, readers | every store: clash, verge, profiles and runtime configuration are one each |
| Core manager (`core/manager/`) | `running_mode`, `child_sidecar`, `lifecycle_lock`, `config_update_in_progress`, `handoff_watcher_running` | start, stop, restart, change mode, update, handoff from sidecar to service | service manager, sidecar process, quit |
| Runtime configuration (`config/config.rs`, `core/manager/config.rs`, `core/validate.rs`) | the runtime draft, the file the core reads, the validator's `is_processing` | generate, validate, write, reload, apply, discard; boot | core manager, enhancement, commands |
| Subscription timer (`core/timer.rs`) | `timer_map`, `refresh_lock`, a channel, a `DelayQueue`, the scheduler's tasks | init, refresh, the scheduler loop, the update tasks | profiles, feat/profile |
| Settings patches (`feat/config.rs`, `feat/clash.rs`, `config/clash.rs`, `config/verge.rs`) | two Draft cells, files | `patch_clash`, `patch_verge` | runtime configuration, core manager, sysopt, tray, timers |
| Profiles (`cmd/profile.rs`, `config/profiles.rs`, `config/prfitem.rs`, `feat/profile.rs`) | the profile list in a Draft cell, `profiles.yaml`, the profiles' files, `CURRENT_SWITCHING_PROFILE` | switch, import, create, delete, patch, reorder, update, clean up | runtime configuration, timer, deep links, exit |
| Node selection (second half of `config/profiles.rs`) | what each profile remembers, `ACTIVATE_SELECTED_GENERATION` | activate, look again, repair, choose | profile switch, core |
| Profile editor (`cmd/save_profile.rs`) | a file | write, check, try out, write back | validator, updates |
| Service manager (`core/service.rs`) | status, `operation_running`, the elevation gate | init, refresh, run an operation, `current`, start and stop the core over IPC | core manager, settings page |
| System proxy (`core/sysopt.rs`) | `inner_proxy`, the guard, `update_lock`, two switches of the operating system | update, reset, guard | settings, quit |
| Lightweight mode, windows (`module/lightweight.rs`, `utils/window_manager.rs`) | a state byte, a cancellable timer | enter, exit, schedule, cancel | window events, tray |
| Backup (`module/auto_backup.rs`, `feat/backup.rs`, `core/backup.rs`) | settings and their channel, a runner, `exec_lock`; the WebDAV client | schedule, trigger, back up, restore, list, upload | settings, profiles |
| Updater (`core/updater.rs`) | two files, `update_ready` | check, download, cache, install | settings |
| Enhancement (`enhance/`) | none | items, app settings, merges, scripts, what is restored last | runtime configuration |
| Limiter (`crates/clash-verge-limiter`) | last call | check | tray, windows |

How they interact: commands, timers and deep links call into `feat/` and
`core/`; shared state is reached through Draft cells (short mutex sections,
snapshots by `Arc`) and through atomics; `CoreManager` uses a try-flag for
updates and a tokio mutex for the life of the core; the timer and the system
proxy talk to their workers through channels or notifications; what the service
does is only known by request and answer.

What is hard about it, and what makes each part correct:

- **Draft cell.** `with_data_modify` awaits its closure without the mutex.
  Other tasks edit, apply and discard meanwhile, and it may be dropped at any
  await. Correct: no committed change is lost, a stale snapshot is noticed by
  comparing pointers, the permit is exclusive and no waiter sleeps forever.
- **Core manager.** A start spans many awaits, can be dropped by a timeout of
  its caller, runs in one of two modes that fall back to each other, and races
  the handoff watcher and the exit. Correct: at most one core, none the manager
  does not know, none after the stop of `quit`, and the mode says what runs.
- **Runtime configuration.** Cell, file and core are three copies, changed one
  after the other by updates that exclude each other, and by commands and the
  boot that take no part in that. Correct: an update happens everywhere or
  nowhere, and the core starts with something valid.
- **Timer.** A map is read, published and sent in three steps; the scheduler
  takes expired entries and commands in any order; updates end after a profile
  was removed and added again. Correct: the queue is never given a dead key, no
  profile is forgotten, the scheduler converges to what the profiles say.
- **Settings patches.** Side effects follow one another and any of them may
  fail after the shared draft was edited. Correct: what was answered with Ok
  stays, whatever fails next to it.
- **Profiles.** A switch is bounded by a timeout, rolls back to the previous
  profile and shares the list with commands, deep links, updates and the exit.
  Correct: the current profile exists, items have their files, and when nothing
  is under way disk and core follow the list.
- **Node selection.** The task of one switch may still be running, with
  requests on their way, when the next one starts, and it repairs records the
  user edits meanwhile. Correct: the last switch decides what is selected, and
  no choice of the user is overwritten.
- **Editor.** A file is on trial while everybody can read it. Correct: in the
  end no rejected content is left, and the core runs what is there.
- **Service manager.** Every attempt of the background may ask for
  administrator rights. Correct: it asks once, stops at a no, and wakes whoever
  waits for its result.
- **System proxy.** Two switches that clear each other, patches that overlap, a
  guard that repeats. Correct: the end of it is what the settings say.
- **Lightweight mode.** Entering destroys the last window, which by itself
  would end the program. Correct: it does not, and no state is left half way.
- **Backups, WebDAV, updater.** Bursts of triggers, restores next to saves,
  clients kept beyond their account, crashes between two files. Correct: a
  minimal distance in time, what was restored survives the exit, and what is
  installed is what the user was asked about.
- **Enhancement.** User merges and scripts come after the app's own settings.
  Correct: the keys that control the core are the app's whatever these do, and
  whatever the subscription does but for one way it has (below).

`PROJECT.json` lists every part with its status, and under `hazards` every
place where this code can go wrong in a way a test would hardly reach, with the
properties that watch over it.

## Plan

Modules were written in the order of what depends on what: the cell every store
is built on (`Draft`), the core (`Lifecycle`), the subscription timer
(`Timer`), what the core runs with (`RuntimeConfig`), then the profiles
(`Profiles`), the settings (`Settings`) and the parts around them. A module is
first checked, then what it promises is proved in a module of its own.

Left:

- That `Lifecycle` started from an update behaves as the restart of
  `RuntimeConfig`, and `RuntimeConfig` as the update of `Profiles`: the seams
  below are argued in words.
- The files at the first start (`utils/init.rs`), and the tray's menus.

## Modules

A data value is abstracted to what the properties tell apart: a configuration
is a value that is valid or not, a profile is its update interval, a stored
value is the set of changes it holds. Control is kept: one label of `pc` for
every point where a future can be suspended (or another thread can run), one
action per step between two of them, with the error paths the code has. Where
the code asks an outside party (the service, the operating system, the core)
every answer it can give, and none, is a choice of the action.

**`Draft`** (`crates/clash-verge-draft/src/lib.rs`). The two slots are records
of the identity of an `Arc` and the value behind it, since `with_data_modify`
notices a concurrent change by `Arc::ptr_eq` and `edit_draft` may write in
place (`Arc::make_mut`) or copy. What holds the data mutex is one action
(`EditDraft`, `Apply`, `Discard`, `Snapshot`, `Commit`). The permit is the
atomic flag `data_modifying` and a tokio `Notify`, of which the stored
notification, the first poll, waking a waiter, and handing on a notification
when a woken waiter is dropped are kept (`TryFast`, `Resume`, `TrySlow`,
`PollNotified`, `Release`, `Notify`, the drops). `DraftAbs` is the promise: a
modification is one step, which adds its change to whatever is committed then.

**`Lifecycle`** (`core/manager/mod.rs`, `lifecycle.rs`, `state.rs`,
`feat/window.rs`). `running_mode` and `child_sidecar` are what the manager
believes, `sidecars` and `service_core` what runs. A process (a caller, the
handoff watcher, `quit`) waits for `lifecycle_lock`, stops, prepares, launches
by service or sidecar, falls back, retries, rolls its mode back and unlocks;
updates take `config_update_in_progress` first. `UpdateTimeout` drops a future
wherever it is, with what it holds. `SidecarDies` is the event of the child
process. `ipc_fault` is a history variable: after a request to the service
failed nobody knows what the service does, and the properties say so rather
than pretend. That killing the child succeeds is taken for granted.

**`Timer`** (`core/timer.rs`, and the commands of `cmd/profile.rs` as far as
they make it refresh). `refresh` is three steps under `refresh_lock`: read the
intervals, publish `timer_map`, send `Apply`. The scheduler receives commands
or takes expired entries in any order. The `DelayQueue` is a function from keys
to profiles, so that using a dead key shows. Of time only this is kept: an
entry waits a minute at least and an update ends within its 45 seconds, so an
entry never expires before the updates that were in flight when it was set have
ended (`early`).

**`RuntimeConfig`** (`config/config.rs`, `core/manager/config.rs`,
`core/validate.rs`, `config/runtime.rs`). `committed` and `draft` are the
runtime cell, `run_file` the file, `core` the configuration the core runs. An
update generates, validates (the validator reads the cell again for the file it
tests), reads and saves the file, reloads the core, falls back to a restart,
and applies or discards. Callers are of a kind: `update` (profile switch,
patch, timer), `touch` (commands that edit the draft before they ask), `chain`
(an edit of the runtime cell inside the update), `regenerate` and `restart`
(settings that restart the core without an update), `start`, and `handoff`
(which shares the flag). `Boot` is `generate_and_validate` with its fall-back
to the default configuration and the first start. `alone` is a history
variable: nobody else has written the cell, the file or the core since the
process took the flag. An update that is dropped while it writes a file leaves
the write to the blocking pool: it is done some time `late`, or never, and
counts as somebody else's. `RuntimeAbs` is the promise: what is shown and what
runs change together.

**`Profiles`** (`cmd/profile.rs`, `config/profiles.rs`, `config/prfitem.rs`,
`feat/profile.rs`, `utils/resolve/scheme.rs`). The list is in a Draft cell
(`committed`, `draft`), next to `disk` (`profiles.yaml`), `files`, and `core`
(the profile it was last given). A switch (`EditDraft`, update, `Succeed` or
`DiscardDraft`, `Restore`, `Apply`) keeps its draft while the core is updated;
everything else is a closure in `with_data_modify`: `Take` the permit, `Work`
on a copy and on the files, `Commit`, or `Overtaken` if a draft was applied
meanwhile. An update is refused when another one is under way, succeeds, times
out, or fails, with the core as it was or, when it took the reload, its answer
was lost and the restart failed, with the new profile (`unanswered`). A write
of `profiles.yaml` may fail and cut the file short. The deep link and the exit
write the file without the permit (`ReadList`, `WriteList`), the boot sweeps
(`Cleanup`). An import takes an identity that nothing in use has (`Created`:
the code draws it at random), and nobody calls for a profile whose identity was
just drawn (`Drawn`); otherwise a command may name any profile, there or gone.
What a deletion takes out is found by position (`Position`, `TakeOut`), so that
an item that is not there leaves the list as it is. `mishaps` records what
happened that the code does not repair, each with a name; every property lists
the ones that excuse it, so that it says nothing less than what the code does.

**`Settings`** (`feat/config.rs`, `feat/clash.rs`). The two cells, their files,
and a patch as the sequence of steps its keys ask for, done one by one, each of
which may fail, in the order of the code. A value is the number
of the write that made it. `promised` is what was answered with Ok.

**`Selection`** (second half of `config/profiles.rs`). A task for every switch,
with the generation it was started under, its two looks at the groups of the
core, the selections it sends, and the repair of the records
(`reconcile_selected_nodes`). Of several records of one group the last one
counts (`LastPlaces`); a list is cut down by the places that stay (`Kept`),
which is what its proofs speak of. The core's groups change and the user
chooses at any time. `disturbed`: something failed, or somebody else selected.

**`Editor`** (`cmd/save_profile.rs`, with the checks of `core/validate.rs`). A
content passes the check of a file on its own or not, and the core accepts it
in a configuration or not: three contents tell all cases apart. Between the
start of an update by a switch and its end `chosen` is the profile on trial and
`former` the one to go back to; `looked` remembers what was current when the
save decided whether its file matters. The read, the write and the write back
may fail; a file whose write failed has any content, and the command ends with
an error (`damaged`). `slips` names the overlaps nobody repairs.

**`Service`** (`core/service.rs`). `run_operation` with its flag, the gate in
front of the prompt (`elevation_used`, `elevation_declined`), its four jobs and
their commands, `refresh`, and `current` with the `Notify` a reader waits for.
Installer and service are external: a command is accepted, declined or fails.
`asked` and `turnedDown` are history since the last click.

**`Sysopt`** (`core/sysopt.rs`). A patch under `update_lock`: read the
settings, note `inner_proxy`, set the guard, then two commands in the order of
`proxy_apply_steps`; the guard repeats one of them; the reset at the end takes
no lock. On Windows clearing PAC clears the proxy too, which is why the order
matters. `refresh_guard` looks and then starts or stops the guard, after the
lock is given back. `proxyFailed`, `rsHolds` and `guardsCrossed` (another patch
had looked and not yet acted when this one looked) are history.

**`Lightweight`** (`module/lightweight.rs`, `utils/window_manager.rs`,
`utils/resolve/window.rs`, the run loop of `lib.rs`). `LIGHTWEIGHT_STATE`, the
window and its listeners, the timer with `CANCEL_TX`, the window's limiter, and
the event that the last window is gone. `overlapped` is history: the mode was
left while somebody was entering it.

**`AutoBackup`** (`module/auto_backup.rs`), **`Backup`** (`feat/backup.rs`),
**`WebDav`** (`core/backup.rs`, `cmd/webdav.rs`). The scheduler with its watch
channel, the triggers, `exec_lock`, the clock in ticks; a restore that loads
one configuration after the other while others save, and takes the default of
what it cannot read; the client cache with account and configuration. History
are `unrecorded` (files of backups that failed when they were moved),
`touched`, `defaulted`, `davLate` and `davMixed`.

**`Enhance`** (`enhance/`). The pipeline as one step per stage, on
configurations of the keys that are treated differently: one key stands for all
that are treated alike. A merge is a configuration, a script is what it drops
and puts, or a failure. A subscription may have a key of the control plane a
second time in another spelling (`other`), of which `use_lowercase` makes one
with either value; `overruled` are the keys where it was the second spelling's
before the app's were recorded, `guarded` whether the built-in script has looked
at the mode.

**`Updater`** (`core/updater.rs`). The two files of the cache, written one after
the other and each in two steps, a process that may crash between any two of
them, releases meanwhile, and the question at the next start with its
installation, which may outlast its thirty seconds.

**`MCDesktop`** is the sum of these last eleven parts (all but `Profiles`): they
share no variable and none calls into another except as a caller that is free
anyway, so their product would only multiply states. `part` is chosen at the
start and only that part moves. `View` tells states apart by that part alone,
and forgets what a call of `Editor` or `Service` knew once it has returned.

`RuntimeConfig` sees a start as stop, read, save, spawn under the lock;
`Lifecycle` has what happens inside, and leaves open what the configuration is.
`Profiles` and `Settings` see an update as a step that is refused, succeeds or
fails. The seams agree: lock and flag are released on every way out of an
update, and `StopFails` of `RuntimeConfig` is the failed request of
`Lifecycle`.

Operators whose comment starts with "Mutant of" are never part of a
specification. Each is a plausible mistake in the operator it names, and is
there to show that the property it goes with can tell the difference.

## Runs

Bounds are named in the modules (`MaxArcs`, `MaxCalls`, `Retries`, `MaxChanges`,
`Keys`, `Runs`, `MaxSwitches`, `MaxSaves`, ...); everything else in a
configuration is a set of model values.

| Run | Asks | Instance, and why it is enough |
|---|---|---|
| `draft` | exclusion, no lost wakeup, only `apply` overtakes, refinement of `DraftAbs`, every call returns as calls are bounded | 3 tasks (one inside, one parked, one arriving), 1 edit, 4 `Arc`s: an `Arc` is replaced, dropped and its place taken while a snapshot lives. A task keeps nothing from one call to the next, so a second call is that of another task |
| `lifecycle` | no lost core, one core, nothing after the exit, only the holder acts | 3 callers, watcher, quit, 2 process ids, Windows build, timeouts, 2 attempts: a second core would need the second id, one can be inside and another wait while the watcher and the exit interfere |
| `lifecycle_live` | every operation ends | 2 callers, with watcher and quit, timeouts, 2 attempts, 1 id |
| `lifecycle_timeout` | the mode tells whether there is a core: **violated** | 1 caller |
| `timer` | live keys, nobody forgotten, convergence, a scheduled profile is updated again and again | 2 profiles, 2 intervals, a command next to `init`, 3 keys, 2 updates, 2 changes: a profile is removed and added again while its update runs, two refreshes meet |
| `config` | an update left alone commits what runs; the boot starts something valid | the boot and 2 callers, all kinds, 4 configurations (2 valid, 1 not, the default), 2 calls, faults, timeouts, failing stops, late writes: the boot and two calls can all be under way, or follow each other |
| `config_atomic` | refinement of `RuntimeAbs`: an update happens in cell and core, or in neither | 2 callers, updates only, 3 calls: one that succeeded, one that fails, one that would see the mess |
| `config_restart` | the core can always be restarted: **violated** | 1 caller, nothing fails but validation |
| `config_live` | every call ends | 2 callers, all kinds, 2 calls: one that holds and one that waits |
| `profiles` | the list is sound, items have files, disk and core follow, permit, flags and draft are given back, every command ends | 2 callers of every kind, 2 profiles with an extension each, 3 calls: two overlap and a third comes before, after or in place of either; with one more profile than the current there is something to delete, to switch to and to import again |
| `profiles_reorder` | a reorder keeps the profiles: **violated** | 2 callers that delete and reorder |
| `desktop` | the parts of `MCDesktop`, one at a time | below |

The bounds of `desktop`, part by part:

- *Selection*: 2 profiles, 1 group with 2 nodes, 2 switches, 2 changes; `a` has
  two records of the group and one without a name, so that the last one counts.
  Two tasks are the one that is too late and the one that is not; the core
  shows the group in 6 shapes, from absent to not selectable.
- *Editor*: 2 savers and an update by somebody else, 2 profiles and a shared
  extension that is not there at first, 3 contents, 3 saves: two that overlap
  and one that looks while a switch is on trial. The profiles are alike, so the
  first is the current one at the start.
- *Service*: 2 operators, 1 reader, 3 operations: one that asks, one refused as
  busy, one after it. A reader keeps nothing, so one is enough.
- *Sysopt*: 2 patches, each of every mode, with guard and reset: one holds the
  lock, one waits.
- *Lightweight*: 2 callers, 2 timers, 3 calls: enter, leave and a third.
- *AutoBackup*: 2 triggers next to the scheduler, 4 ticks with an interval of 2,
  2 patches, 1 backup kept: a burst, and a run after it.
- *Backup*: 2 changes during a restore. *WebDav*: 2 commands, 3 accounts: one
  that was, is and will be.
- *Enhance*: 2 subscriptions, one with a second spelling of two keys, clash
  configurations, DNS files, items; 3 merges and 3 scripts, all switches:
  between them they set, change and drop keys of the control plane, the DNS
  block and the lists.
- *Settings*: 2 callers, 2 patches of each store with different keys, 3 writes:
  one that is kept, one that fails next to it, one that commits after it.
- *Updater*: 4 releases: the program's, the cached one, the newer one on the
  server, and the one that comes during the download.

Deadlock is checked except in `Timer`, `RuntimeConfig`, `Profiles` and
`MCDesktop`, where the bounds on calls end a behaviour. Where every name in a
set is treated alike, `Symmetry` permutes the set (never in a run with a
liveness property). The type invariants are in the theorems.

## Disagreements

Three runs end in a counterexample; each one is a sentence of the code that it
does not keep. `PROJECT.json` quotes the sentences.

- `lifecycle_timeout`. An update dropped by its timeout after `start_core` set
  the mode and before there is a core leaves the mode set: the next start is
  taken for a repeated one and does nothing.
- `config_restart`. The boot leaves its configuration in the draft. The first
  update that is rejected discards it, and then there is nothing the core could
  be restarted with, although the fall-back in `generate_file` relies on it.
- `profiles_reorder`. `reorder` takes the items out of the list before it looks
  for the two profiles. When one was deleted in the meantime it returns without
  putting them back: the list that is committed is empty.

Others were met on the way. They have no run of their own, and each can be seen
with the modules as they are:

- `patch_profile` decides whether to refresh the timer on a profile it read
  before another patch of it was committed: `FollowsProfiles` of `Timer`, two
  commands patching one profile.
- A profile taken out and put back while its update runs gets a second entry,
  because the end of the old update is taken for the new task's:
  `OneUpdateAtATime` of `Timer`, one profile, four changes.
- The boot takes a validator that is busy for a configuration that is not
  valid, and starts with the default one: `DefaultIsForInvalid` of
  `RuntimeConfig`, the boot and one caller, no faults.
- On Linux the exit status of the `sudo` that follows a declined `pkexec` hides
  the decline, and the operation goes on to its next prompt:
  `NoPromptAfterDecline` of `Service` with `Platform = "linux"`. The theorem
  about it is for Windows.
- A second download of the version that is already recorded, cut short by a
  crash, leaves a part of the installer next to the record of the whole:
  `InstallsWhatWasAsked` of `Updater` without `rewritten`.
- A switch whose reload the core took, but whose answer was lost and whose
  restart then failed, is answered with an error and the previous profile comes
  back, while the core runs the new one: `CurrentRuns` of `Profiles` without
  `unanswered`.
- The write of an edited file returns at once when it fails
  (`cmd/save_profile.rs:67`), and so does the write back of a rejected one: what
  is left in the file stays there. `EditsSettle` of `Editor` without `damaged`.
- `refresh_guard` runs after the lock of the update is given back
  (`core/sysopt.rs:87`): a patch that wants no guard looks, another one starts
  the guard, and the first stops it. `ProxyFollowsSettings` of `Sysopt` without
  `guardsCrossed`, two patches.
- A restored `config.yaml` or `profiles.yaml` that cannot be read is replaced in
  memory by the template or by an empty list, the restore answers Ok, and the
  exit writes that over the restored file, although `feat/backup.rs:28` reloads
  all three just so that the old memory is not written over what was restored.
  `RestartKeepsRestored` of `Backup` without `defaulted`.
- `use_lowercase` runs in the built-in scripts, before the app's values are
  recorded: a subscription's `Mode` or `Secret` may take the place of the app's
  `mode` or `secret` and is then what the last step puts back, against the
  comment of `CONTROL_PLANE_KEYS`. `ControlPlaneKept` of `Enhance` without
  `overruled`.
- An automatic backup whose `move_file` fails when it has copied leaves the
  archive, and the next one does not wait for the interval: `BackupsApart` of
  `AutoBackup` without `unrecorded`.
- The `discard` at the end of `patch_clash` and `patch_verge` is never reached,
  since `?` returns from the function. `PatchesKept` relies on that: the draft
  is shared, and its mutant, which discards, takes the other caller's edit
  along. What a failed patch wrote is committed with the next one.

### Hazards without a property

`PROJECT.json` says at each hazard what its property leaves out. What no
property covers, because the code does not exclude it:

- `quit` gives up on `stop_core` after some seconds: on Unix a sidecar is left.
- `generate_file` reads the cell and then awaits the write, which a newer one
  may overtake. Two saves of one settings file may be out of order as well.
- The edit of the runtime draft stays when the update is refused as busy.
- Two changes of the mode end in the order the core answers.
- A click whose operation is refused as already running opens the gate of the
  prompt all the same.
- `reset_sysproxy` does not wait for an update under way.
- Leaving the lightweight mode before the event of the destroyed window is seen
  ends the program; a timer that expires clears the `CANCEL_TX` of its
  successor.
- The automatic backups trust the clock not to step back, and two archives of
  one second share a name.
- Overlapping saves of one file restore each other's rejected content.
- A WebDAV account whose file cannot be saved leaves the old client in use.
- The exit commits every draft, including one a failed patch left.

## Fairness

Safety needs none; the liveness properties are checked under `FairSpec`, which
assumes nothing of what users, timeouts or outside events do.

- `Draft`: weak fairness of each task's steps. tokio polls a future again after
  it was woken; closures return. Nothing is assumed of the permit, which is not
  fair: the fast path overtakes a task that was woken for it. A call returns
  because the calls that can overtake it are `MaxCalls` for each task; with
  calls without end it could wait without end, and `EveryCallReturns` says so.
- `Lifecycle`: weak fairness of each process's steps, because requests and
  waits are bounded by timeouts of their own; strong fairness of taking the
  lock, because a tokio mutex is fair: it serves its waiters in turn. Calls,
  timeouts, the exit and how long the watcher watches are free.
- `Timer`: weak fairness of receiving, of every entry's expiry, of every
  update's end (45 s, then it is dropped and still reports) and of `refresh`
  and `init`. `select!` is unbiased and forgets nothing.
- `RuntimeConfig`: weak fairness of each process's steps and of the boot,
  strong fairness of taking `lifecycle_lock`. Late writes are free to come when
  they like, or not at all.
- `Profiles`: weak fairness of each caller's steps. Here too nothing is assumed
  of the permit, and a command ends because the others are `MaxCalls` at most.
  How an update ends is free.

The parts of `MCDesktop` have no liveness property; `NoReaderForgotten` and
`NeverStuckExiting` say instead that there always is somebody whose next step
would end the wait.

## Proofs

All theorems hold for every set of tasks, callers, profiles, process ids and
configurations, operators, patches and releases and all values of the bounds.
They rest on the assumptions in the modules: names that must be distinct,
bounds that are numbers, `Default` is a configuration, a profile's extension is
its own, records are pairs of a group and a node, what a user can merge is a
block of keys, and `NoValue` is not one. TLC evaluates them in every run. Every
invariant and every action property of the passing runs is a theorem, and so
are the two refinements; where a theorem has a condition (the refinement of
`RuntimeAbs`, the property about declined prompts), it is the one under which
the run checks it.

**`DraftProofs`.** `PointerIsValue` is inductive together with the types: no
two live snapshots of different values share an identity, since the draft is
never aliased. `PermitExclusive` and `NoLostWakeup` are inductive on their own.
From these follow `OnlyApplyOvertakes` and, with the pointer comparison
succeeding only if the snapshot still is the committed value, that the cell
implements `DraftAbs` (`CellIsAtomic`).

**`LifecycleProofs`.** The inductive invariant adds to `LocksHeld` who may be
where (`Roles`), what each stage of an operation may assume of child, mode and
service (`Known`), and what the exit leaves for others to do (`Final`): between
`quit` taking the lock for its stop and the end, whoever gets the lock sees
`exiting`. `NoOrphanCore`, `SingleCore`, `QuitIsFinal`, `LocksHeld` and
`OnlyHolderActs` follow. `StartsRollBack` proves `ModeTellsCore` where no update
is timed out: on every other way out a failed start is rolled back. The run
`lifecycle_timeout` shows that the condition is necessary.

**`TimerProofs`.** `KeysAreLive` is inductive with the types. `NeverForgotten`
needs no more than itself. `Converges` needs that refreshes exclude each other
and that the one that has read is the one that publishes; it is split into what
the scheduler was told (`Told`) and what was read last (`ReadLast`).

**`RuntimeProofs`.** The argument is an account of how far an update has come
(`UpdateStage`): until validation its draft exists, while it is tested what is
tested is the draft, afterwards the draft is valid, what was read is the draft,
the file is the draft, the core runs the draft. The account is valid as long as
the update was left alone; `Places` says what kind of call can be where,
`FlagHeld` that one process has the flag, and `NothingHidden` that a cell with
an empty draft has nothing behind it, which is why reading the cell again gives
the draft. From it follow `Applied` (`AppliesWhatRuns`), and, where only
updates write (`OnlyUpdates`), that the holder of the flag is always alone
(`Quiet`), that the core runs what is committed except between the reload and
the end of the restart (`CoreKnown`), and so `Atomic` (`UpdatesAreAtomic`) and
`Implements` (the refinement of `RuntimeAbs`). `BootStage` is the same account
for the boot and gives `BootsValid`. Late writes exist only where updates are
dropped (`LateOK`), so that `OnlyUpdates` excludes them, and elsewhere they end
everybody's account. The conditions of `OnlyUpdates` are not
decoration: a draft that a `touch` or a `regenerate` left is committed by, or
thrown away with, an update that knows nothing of it.

**`ProfilesProofs`.** `ProfilesInv` has two halves. The first says who can be
where: what a kind of call does at each label (`Places`, `Arguments`), that
whoever works or commits has the permit and nobody else (`HoldsPermit`), that
one switch is under way and a draft is the switch's (`OneSwitch`,
`DraftOfSwitch`), that what an import is about to append is in no list, no copy
and no other import (`Fresh`), and that the copy is the committed list until
the closure has run, then the committed list with the change of that job
(`CopyKnown`), unless the holder was overtaken. The second half has one part
for each property, because none is inductive alone. `AllSound`: not only the
committed list but every other one that may become it (draft, copy, disk, what
the deep link and the exit hold) has no item twice and its current profile in
it. `FilesThere`: the files of the copy about to be committed exist too.
`DiskOwed`: when disk and list differ, somebody is on the way to write.
`CoreOwed`: when core and list differ, a deletion or a switch is on the way to
the core or back from it; for that a switch accounts for the profile it came
from, goes to, and restores (`SeenKnown`, `TargetKnown`, `RestoreKnown`). From
these follow `CurrentExists`, `FilesExist`, `DiskFollows` and `CurrentRuns`;
and `GivenBack` from the first half, since permit, flags and draft each name
who has them (`NothingKept`). The mishaps each part has to exclude are those
its property lists.

**`SettingsProofs`.** `PatchesKept` rests on numbers that only grow (`Grows`):
a draft is never older than what is committed (`DraftIsNewer`), the latest
settings hold what a patch under way wrote or something later (`OnTheWay`),
and so do the committed ones once it saves (`Committed`). A patch of the mode
takes a way of its own (`FollowsMode`) and is left out.

**`SystemProofs`.** *Sysopt*: for `ProxyFollowsSettings` the holder of
`update_lock` accounts for its stage: what it read is the wish of the last
patch or another patch waits for the lock (`ReadIsWish`), and at each stage
`inner_proxy`, the guard and the first of the two commands are at what it read
(`DoneSoFar`). The guard is watched apart (`GuardProgress`): as long as looks do
not cross, whoever is about to start or stop it knows the wish, and nobody
else is. `ResetHolds` is the account of the reset. That nobody is
called `Unlocked` is assumed. *Lightweight*: as long as nobody overlapped,
whoever is entering sees the state `In`, whoever leaves sees `Exiting`, and
there is one of them (`InOrder`). `SurvivesEntry` follows; `NeverStuckExiting`
holds even then. *Service*: a reader registers before it looks
(`NoReaderForgotten`), the gate is closed once the background asked
(`PromptInv`), and a decline ends the operation that met it (`DeclineInv`).

**`DesktopProofs`.** *Selection.* First what the list operators give: any set
of places has an order (`PlacesAreOrdered`, by the least number that is left),
so `Kept` keeps the records at those places and no others (`KeptIs`), and what
a plan, the list that remains and the repaired list contain is known from that
(`PlanIs`, `RemainingIs`, `ReconciledIs`). Then the tasks: a task's plan is
that of its last look (`SoundTask`), and none starts before those before it are
done (`InTurn`). `LastTaskRight` is the account of the last task, valid until
something disturbs it: what it has selected still is, what is in force is
selected or still in its plan, the records it repairs name the node their group
is at, and no request on its way moves that group. `SelectionApplied` follows.
`ChoicesSurvive` is an action property: the save of the repaired records leaves
alone what the user chose meanwhile.

*Editor.* At most one update is under way (`OneUpdate`), a save's file matters
if the profile it looked at uses it (`LookedUp`), saves of one file do not
overlap (`FilesApart`), so each file is on trial or right (`FilesRight`), the
original a save would write back is right (`OriginalsRight`), and what is tried
has passed its check (`TriedPassed`). `CoreFollows`: the core runs the files of
the profile to go back to, as they are, except those on trial; when nothing is
under way that is the current profile. All of it is said of the files that are
not `damaged`, and a damaged file stays so. `EditsSettle` follows.

*Enhance.* Up to the snapshot every key of the control plane that was not
overruled has the app's value, since defaults, built-in script, TUN and DNS keep
it (`Decided`); what `use_lowercase` takes over is recorded
(`LowercaseGivesConfiguration`, `FirstSteps`). The snapshot has those values
(`Remembered`), whatever merges and scripts do then and whichever fail, and the
last step puts them back. Blocks are functions from the keys that are
there, so one lemma says what extending a block by another gives.

*AutoBackup*: the holder of `exec_lock` has seen, under the lock, that the last
backup is long ago. Its file may be one of a backup that failed. *Backup*: what
was loaded is the archive's unless touched or defaulted. *WebDav*: a kept
client, and the configuration it is made from, are of the account or were mixed
with one that was late. *Updater*: the record is at most the installer's
version, that at most what is being fetched, that at most what was released.

Two proofs changed what they were about. `EditsSettle` excused a switch to
a profile that uses the file only if the save saw it under way; the step of
`CoreFollows` that could not be proved is a save whose profile was switched to
and then updated, and TLC found it with a third save. The
module now has the profile to go back to, and judges the slip by what the save
saw. And `Profiles` let two imports take one identity, which the code does not;
`Fresh` could not be proved of it.

Only model-checked: the liveness properties, since they depend on fairness,
which this prover does not reach, and the violations. No theorem is about a
recursive definition, for want of induction over data: where the code walks
through a list, the modules say which places it keeps.

## Not modelled

- *Tray and hotkeys.* They redraw what other parts hold; a click is a caller of
  `Lightweight` and is limited like it.
- *Initialisation and files* (`utils/init.rs`, `utils/dirs.rs`). Creates
  directories and default files before anything else runs.
- *Logging, notifications, autostart.* Input and output with no shared protocol.
- *Media unlock checks, network helpers, UWP.* Stateless requests to outside.
- *The frontend.* It is the caller of all commands, in any order.
- *The network, archives, installers, the desktop toolkit.* Answers that may be
  any, including none.
- *The exit's DNS script* on macOS.

Within what is modelled: the text of configurations and messages; other
spellings of keys in `Enhance` that are not the control plane's, and of keys
inside a block; a child whose killing fails (`core/manager/state.rs:149`); a
release that is withdrawn, and pre-releases of one version, which `version_lte`
does not tell apart; retries inside one request (a request succeeds, fails or
is lost); delays other than the relation between a timer entry and an update
stated above, and the interval of the backups; memory ordering of the atomics,
which are single flags used with acquire and release. The clean-up of proxy
groups is in `Enhance`, but no property is about it.
