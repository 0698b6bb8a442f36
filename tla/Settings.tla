------------------------------ MODULE Settings -------------------------------
(***************************************************************************)
(* Changes of the settings (feat/config.rs, feat/clash.rs): the clash and  *)
(* the verge settings, each a Draft cell with a file.                      *)
(*                                                                         *)
(* A patch is edited into the draft, what it asks for is done step by      *)
(* step, then the draft is committed and saved.  A step that fails returns *)
(* from the function at once: the discard that follows in the code is      *)
(* never reached and the draft stays for whoever commits next.             *)
(*                                                                         *)
(* A value is the number of the write that made it.                        *)
(***************************************************************************)
EXTENDS Naturals, Sequences, FiniteSets

CONSTANTS
  PatchCallers,  \* commands and background tasks that patch
  ClashPatches,  \* the sets of keys a clash patch may have
  VergePatches,  \* the sets of fields a verge patch may have
  MaxWritesS     \* bound: patches

SettingStores == {"clash", "verge"}
ClashKeys == {"secret", "allow_lan", "mode", "ports"}
VergeKeys == {"tun", "port", "proxy", "language", "hotkeys", "light", "log", "other"}
Keys(s) == IF s = "clash" THEN ClashKeys ELSE VergeKeys
NoDraft == <<>>

ASSUME PatchesAssumption ==
  ClashPatches \subseteq SUBSET ClashKeys /\ VergePatches \subseteq SUBSET VergeKeys

VARIABLES
  cell, pending,    \* of each store: what is committed, and the draft
  saved,            \* config.yaml and verge.yaml
  patch,            \* of each caller: the store, keys, number and rest of its patch
  settingPc,
  service_or_admin, \* TUN may be switched on
  core_mode,        \* the mode the core is in
  promised,         \* history: the last write of a key that was answered with Ok
  writes            \* bounded by MaxWritesS

settingsVars ==
  <<cell, pending, saved, patch, settingPc, service_or_admin, core_mode, promised, writes>>

Untouched(s) == [k \in Keys(s) |-> 0]
NoPatch == [store |-> "verge", keys |-> {}, value |-> 0, steps |-> <<>>]

SettingsInit ==
  /\ cell = [s \in SettingStores |-> Untouched(s)]
  /\ pending = [s \in SettingStores |-> NoDraft]
  /\ saved = cell
  /\ patch = [c \in PatchCallers |-> NoPatch]
  /\ settingPc = [c \in PatchCallers |-> "idle"]
  /\ service_or_admin \in BOOLEAN
  /\ core_mode = 0
  /\ promised = cell
  /\ writes = 0

PatchAt(c, label) == settingPc[c] = label
PatchTo(c, label) == settingPc' = [settingPc EXCEPT ![c] = label]
StoreOf(c) == patch[c].store

(***************************************************************************)
(* The draft cells.                                                        *)
(***************************************************************************)
Patched(data, keys, n) == [k \in DOMAIN data |-> IF k \in keys THEN n ELSE data[k]]

EditPending(s, keys, n) ==
  pending' = [pending EXCEPT ![s] =
                Patched(IF @ = NoDraft THEN cell[s] ELSE @, keys, n)]

Commit(s) ==
  /\ cell' = [cell EXCEPT ![s] = IF pending[s] = NoDraft THEN @ ELSE pending[s]]
  /\ pending' = [pending EXCEPT ![s] = NoDraft]

(***************************************************************************)
(* What a patch asks for, in the order it is done.                         *)
(***************************************************************************)
FlagsOf(k) ==
  CASE k = "tun" -> {"CLASH_CONFIG", "SYSTRAY_MENU", "SYSTRAY_ICON"}
    [] k = "port" -> {"RESTART_CORE"}
    [] k = "proxy" -> {"SYS_PROXY", "SYSTRAY_MENU", "SYSTRAY_ICON"}
    [] k = "language" -> {"LANGUAGE", "SYSTRAY_MENU"}
    [] k = "hotkeys" -> {"HOTKEY", "SYSTRAY_MENU"}
    [] k = "light" -> {"LIGHT_WEIGHT"}
    [] k = "log" -> {"LOG_LEVEL"}
    [] OTHER -> {}

FlagOrder == <<"RESTART_CORE", "CLASH_CONFIG", "LANGUAGE", "SYS_PROXY", "HOTKEY",
               "SYSTRAY_MENU", "SYSTRAY_ICON", "LIGHT_WEIGHT", "LOG_LEVEL">>

VergeSteps(keys) ==
  SelectSeq(FlagOrder, LAMBDA f : \E k \in keys : f \in FlagsOf(k))

ClashSteps(keys) ==
  IF "secret" \in keys THEN <<"RESTART_CORE">> ELSE <<"CLASH_CONFIG">>

Infallible == {"LANGUAGE", "LIGHT_WEIGHT"}

PatchClash(c) ==
  /\ PatchAt(c, "idle") /\ writes < MaxWritesS
  /\ writes' = writes + 1
  /\ \E keys \in ClashPatches :
       /\ patch' = [patch EXCEPT ![c] =
            [store |-> "clash", keys |-> keys, value |-> writes', steps |-> ClashSteps(keys)]]
       /\ EditPending("clash", keys, writes')
  /\ PatchTo(c, "steps")
  /\ UNCHANGED <<cell, saved, service_or_admin, core_mode, promised>>

\* TUN needs the service or an elevated program: else the patch is refused
\* before anything is edited.
PatchVerge(c) ==
  /\ PatchAt(c, "idle") /\ writes < MaxWritesS
  /\ writes' = writes + 1
  /\ \E keys \in VergePatches :
       /\ "tun" \in keys => service_or_admin
       /\ patch' = [patch EXCEPT ![c] =
            [store |-> "verge", keys |-> keys, value |-> writes', steps |-> VergeSteps(keys)]]
       /\ EditPending("verge", keys, writes')
  /\ PatchTo(c, "steps")
  /\ UNCHANGED <<cell, saved, service_or_admin, core_mode, promised>>

\* One step is done; the core that is restarted or reloaded takes the mode of
\* the latest clash settings.
DoStep(c) ==
  /\ PatchAt(c, "steps") /\ patch[c].steps # <<>>
  /\ patch' = [patch EXCEPT ![c].steps = Tail(@)]
  /\ core_mode' = IF Head(patch[c].steps) \in {"RESTART_CORE", "CLASH_CONFIG"}
                  THEN (IF pending["clash"] = NoDraft THEN cell["clash"]
                        ELSE pending["clash"]).mode
                  ELSE core_mode
  /\ UNCHANGED <<cell, pending, saved, settingPc, service_or_admin, promised, writes>>

\* Mutant: the discard after a failure is reached.
LeaveDiscarding(s) == pending' = [pending EXCEPT ![s] = NoDraft]

\* The question mark leaves patch_clash or patch_verge with the error.
LeaveFailed(s) == UNCHANGED pending

StepFails(c) ==
  /\ PatchAt(c, "steps") /\ patch[c].steps # <<>>
  /\ Head(patch[c].steps) \notin Infallible
  /\ LeaveFailed(StoreOf(c))
  /\ patch' = [patch EXCEPT ![c] = NoPatch]
  /\ PatchTo(c, "idle")
  /\ UNCHANGED <<cell, saved, service_or_admin, core_mode, promised, writes>>

CommitPatch(c) ==
  /\ PatchAt(c, "steps") /\ patch[c].steps = <<>>
  /\ Commit(StoreOf(c))
  /\ PatchTo(c, "save")
  /\ UNCHANGED <<saved, patch, service_or_admin, core_mode, promised, writes>>

(***************************************************************************)
(* The mode: the core is asked first, and the settings follow.             *)
(***************************************************************************)
AskCore(c) ==
  /\ PatchAt(c, "idle") /\ writes < MaxWritesS
  /\ writes' = writes + 1
  /\ core_mode' = writes'
  /\ patch' = [patch EXCEPT ![c] =
       [store |-> "clash", keys |-> {"mode"}, value |-> writes', steps |-> <<>>]]
  /\ PatchTo(c, "follow")
  /\ UNCHANGED <<cell, pending, saved, service_or_admin, promised>>

FollowCore(c) ==
  /\ PatchAt(c, "follow")
  /\ cell' = [cell EXCEPT !.clash =
       Patched(IF pending["clash"] = NoDraft THEN @ ELSE pending["clash"],
               {"mode"}, patch[c].value)]
  /\ pending' = [pending EXCEPT !.clash = NoDraft]
  /\ PatchTo(c, "save")
  /\ UNCHANGED <<saved, patch, service_or_admin, core_mode, promised, writes>>

(***************************************************************************)
(* The file is written with what was committed when the write began; the   *)
(* answer is Ok.                                                           *)
(***************************************************************************)
Keeping(data, p) ==
  [k \in DOMAIN data |-> IF k \in p.keys /\ p.value > data[k] THEN p.value ELSE data[k]]

SaveSettings(c) ==
  /\ PatchAt(c, "save")
  /\ saved' = [saved EXCEPT ![StoreOf(c)] = cell[StoreOf(c)]]
  /\ promised' = [promised EXCEPT ![StoreOf(c)] = Keeping(@, patch[c])]
  /\ patch' = [patch EXCEPT ![c] = NoPatch]
  /\ PatchTo(c, "idle")
  /\ UNCHANGED <<cell, pending, service_or_admin, core_mode, writes>>

SaveSettingsFails(c) ==
  /\ PatchAt(c, "save")
  /\ patch' = [patch EXCEPT ![c] = NoPatch]
  /\ PatchTo(c, "idle")
  /\ UNCHANGED <<cell, pending, saved, service_or_admin, core_mode, promised, writes>>

\* not_save_file, for a restored backup: the answer is Ok without a write.
SkipSave(c) ==
  /\ PatchAt(c, "save") /\ StoreOf(c) = "verge"
  /\ promised' = [promised EXCEPT !.verge = Keeping(@, patch[c])]
  /\ patch' = [patch EXCEPT ![c] = NoPatch]
  /\ PatchTo(c, "idle")
  /\ UNCHANGED <<cell, pending, saved, service_or_admin, core_mode, writes>>

\* The service is installed or removed.
ServiceChanges ==
  /\ service_or_admin' = ~service_or_admin
  /\ UNCHANGED <<cell, pending, saved, patch, settingPc, core_mode, promised, writes>>

SettingsNext ==
  \/ ServiceChanges
  \/ \E c \in PatchCallers :
       \/ PatchClash(c) \/ PatchVerge(c) \/ AskCore(c) \/ FollowCore(c)
       \/ DoStep(c) \/ StepFails(c) \/ CommitPatch(c)
       \/ SaveSettings(c) \/ SaveSettingsFails(c) \/ SkipSave(c)

SettingsSpec == SettingsInit /\ [][SettingsNext]_settingsVars

\* A patch that was answered with Ok is in the committed settings until a later
\* one writes the same key, whatever patches of other callers failed next to it.
\* It holds because the discard of patch_clash and patch_verge is never reached:
\* the draft is shared, and discarding it would take the others' edits along.
\* The mode is left out: it is written in the order the answers of the core
\* come back (change_clash_mode).
PatchesKept ==
  \A s \in SettingStores : \A k \in Keys(s) \ {"mode"} : cell[s][k] >= promised[s][k]
=============================================================================
