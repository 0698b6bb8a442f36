------------------------------- MODULE Sysopt -------------------------------
(***************************************************************************)
(* The system proxy and its guard (core/sysopt.rs).                        *)
(*                                                                         *)
(* A patch of the settings updates the proxy under update_lock: the        *)
(* settings are read, noted in inner_proxy, given to the guard and set in  *)
(* the operating system by two commands, one for the proxy and one for     *)
(* PAC; the guard repeats the first or the second of them from time to     *)
(* time.  The end of the program resets all of it, outside the lock.       *)
(***************************************************************************)
EXTENDS Naturals

CONSTANTS
  Patchers,    \* patches of the system proxy's settings, under way
  MaxPatches   \* bound: patches

Modes == {"off", "proxy", "pac"}
Wishes == [mode : Modes, guard : BOOLEAN]

VARIABLES
  wish,              \* verge.latest_arc(): what is to be set
  updateLock,        \* who holds update_lock
  inner,             \* inner_proxy: which of the two is enabled
  guardType,         \* what the guard repeats: "none", "proxy" or "pac"
  guardRuns,         \* the guard's task is started
  osProxy, osPac,    \* the operating system's two switches
  ptPc, ptMode, ptGuard,  \* where a patch is, and what it read
  rsPc, rsHolds,     \* the reset; history: no update under way since it began
  proxyFailed,       \* history: a command failed since the last full update
  guardsCrossed,     \* history: another refresh_guard was half done when the
                     \* last one looked
  patchCount         \* bounded by MaxPatches

sysoptVars == <<wish, updateLock, inner, guardType, guardRuns, osProxy, osPac,
                ptPc, ptMode, ptGuard, rsPc, rsHolds, proxyFailed,
                guardsCrossed, patchCount>>
os == <<osProxy, osPac>>
readWish == <<ptMode, ptGuard>>
guarding == <<guardRuns, guardsCrossed>>
rest == <<rsPc, rsHolds, patchCount, guarding>>

Unlocked == "nobody"

ASSUME UnlockedAssumption == Unlocked \notin Patchers

SysoptInit ==
  /\ wish = [mode |-> "off", guard |-> FALSE]
  /\ updateLock = Unlocked
  /\ inner = "off" /\ guardType = "none" /\ guardRuns = FALSE
  /\ osProxy = FALSE /\ osPac = FALSE
  /\ ptPc = [p \in Patchers |-> "idle"]
  /\ ptMode = [p \in Patchers |-> "off"] /\ ptGuard = [p \in Patchers |-> FALSE]
  /\ rsPc = "idle" /\ rsHolds = FALSE
  /\ proxyFailed = FALSE /\ guardsCrossed = FALSE
  /\ patchCount = 0

PtAt(p, label) == ptPc[p] = label
PtTo(p, label) == ptPc' = [ptPc EXCEPT ![p] = label]

-----------------------------------------------------------------------------
(* The operating system.                                                   *)

\* set_system_proxy and set_auto_proxy.  On Windows, to clear PAC clears the
\* proxy as well (the comment of proxy_apply_steps).
SetProxy(on) == osProxy' = on /\ UNCHANGED osPac
SetPac(on) == osPac' = on /\ osProxy' = (osProxy /\ on)

\* Mutant of FirstStep: always the proxy first.
FirstIsProxy(mode) == "proxy"

\* proxy_apply_steps: the pure proxy clears PAC before.
FirstStep(mode) == IF mode = "proxy" THEN "pac" ELSE "proxy"

SecondStep(mode) == IF FirstStep(mode) = "pac" THEN "proxy" ELSE "pac"

SetStep(step, mode) ==
  IF step = "pac" THEN SetPac(mode = "pac") ELSE SetProxy(mode = "proxy")

\* The guard finds another value and sets its own again.
GuardTick ==
  /\ guardRuns /\ guardType # "none"
  /\ SetStep(guardType, guardType)
  /\ UNCHANGED <<wish, updateLock, inner, guardType, ptPc, readWish, rest,
                 proxyFailed>>

-----------------------------------------------------------------------------
(* A patch: patch_verge with SYS_PROXY among its flags.                    *)

\* edit_draft
PatchProxy(p, new) ==
  /\ PtAt(p, "idle") /\ patchCount < MaxPatches
  /\ patchCount' = patchCount + 1
  /\ wish' = new
  /\ PtTo(p, "lock")
  /\ UNCHANGED <<updateLock, inner, guardType, os, readWish, rsPc, rsHolds,
                 proxyFailed, guarding>>

LockUpdate(p) ==
  /\ PtAt(p, "lock") /\ updateLock = Unlocked
  /\ updateLock' = p
  /\ rsHolds' = FALSE
  /\ PtTo(p, "read")
  /\ UNCHANGED <<wish, inner, guardType, os, readWish, rsPc, proxyFailed,
                 patchCount, guarding>>

\* The settings are read after the lock is taken.
ReadWish(p) ==
  /\ PtAt(p, "read")
  /\ ptMode' = [ptMode EXCEPT ![p] = wish.mode]
  /\ ptGuard' = [ptGuard EXCEPT ![p] = wish.guard]
  /\ PtTo(p, "note")
  /\ UNCHANGED <<wish, updateLock, inner, guardType, os, rest, proxyFailed>>

NoteInner(p) ==
  /\ PtAt(p, "note")
  /\ inner' = ptMode[p]
  /\ PtTo(p, "guard")
  /\ UNCHANGED <<wish, updateLock, guardType, os, readWish, rest, proxyFailed>>

GuardTypeOf(mode, guarded) == IF guarded /\ mode # "off" THEN mode ELSE "none"

SetGuard(p) ==
  /\ PtAt(p, "guard")
  /\ guardType' = GuardTypeOf(ptMode[p], ptGuard[p])
  /\ PtTo(p, "first")
  /\ UNCHANGED <<wish, updateLock, inner, os, readWish, rest, proxyFailed>>

\* A command that fails ends the update.
ApplyFails(p) ==
  /\ ptPc[p] \in {"first", "second"}
  /\ proxyFailed' = TRUE
  /\ updateLock' = Unlocked
  /\ PtTo(p, "idle")
  /\ UNCHANGED <<wish, inner, guardType, os, readWish, rest>>

ApplyFirst(p) ==
  /\ PtAt(p, "first")
  /\ SetStep(FirstStep(ptMode[p]), ptMode[p])
  /\ PtTo(p, "second")
  /\ UNCHANGED <<wish, updateLock, inner, guardType, readWish, rest, proxyFailed>>

ApplySecond(p) ==
  /\ PtAt(p, "second")
  /\ SetStep(SecondStep(ptMode[p]), ptMode[p])
  /\ updateLock' = Unlocked
  /\ proxyFailed' = FALSE
  /\ PtTo(p, "refresh")
  /\ UNCHANGED <<wish, inner, guardType, readWish, rest>>

Guarded == wish.guard /\ wish.mode # "off"

\* refresh_guard, outside the lock: the settings are read again ...
LookAtGuard(p) ==
  /\ PtAt(p, "refresh")
  /\ PtTo(p, IF Guarded THEN "start" ELSE "stop")
  /\ guardsCrossed' = (\E q \in Patchers : ptPc[q] \in {"start", "stop"})
  /\ UNCHANGED <<wish, updateLock, inner, guardType, os, readWish, rsPc, rsHolds,
                 patchCount, guardRuns, proxyFailed>>

\* ... and the guard is started or stopped.
RefreshGuard(p) ==
  /\ ptPc[p] \in {"start", "stop"}
  /\ guardRuns' = PtAt(p, "start")
  /\ PtTo(p, "idle")
  /\ UNCHANGED <<wish, updateLock, inner, guardType, os, readWish, rsPc, rsHolds,
                 patchCount, proxyFailed, guardsCrossed>>

Patch(p) ==
  \/ \E new \in Wishes : PatchProxy(p, new)
  \/ LockUpdate(p) \/ ReadWish(p) \/ NoteInner(p) \/ SetGuard(p)
  \/ ApplyFirst(p) \/ ApplySecond(p) \/ ApplyFails(p)
  \/ LookAtGuard(p) \/ RefreshGuard(p)

-----------------------------------------------------------------------------
(* reset_sysproxy, when the program ends: the guard is closed first.       *)

resetRest == <<wish, updateLock, ptPc, readWish, proxyFailed, patchCount,
               guarding>>

\* Mutant of CloseGuard: the guard is left to end with the program.
LeaveGuard ==
  /\ rsPc = "idle" /\ rsPc' = "inner"
  /\ rsHolds' = (updateLock = Unlocked)
  /\ UNCHANGED <<guardType, inner, os, resetRest>>

CloseGuard ==
  /\ rsPc = "idle" /\ rsPc' = "inner"
  /\ guardType' = "none"
  /\ rsHolds' = (updateLock = Unlocked)
  /\ UNCHANGED <<inner, os, resetRest>>

ClearInner ==
  /\ rsPc = "inner" /\ rsPc' = "proxy"
  /\ inner' = "off"
  /\ UNCHANGED <<guardType, os, rsHolds, resetRest>>

ClearProxy ==
  /\ rsPc = "proxy" /\ rsPc' = "pac"
  /\ SetProxy(FALSE)
  /\ UNCHANGED <<guardType, inner, rsHolds, resetRest>>

ClearPac ==
  /\ rsPc = "pac" /\ rsPc' = "done"
  /\ SetPac(FALSE)
  /\ UNCHANGED <<guardType, inner, rsHolds, resetRest>>

ResetFails ==
  /\ rsPc \in {"proxy", "pac"} /\ rsPc' = "done"
  /\ rsHolds' = FALSE
  /\ UNCHANGED <<guardType, inner, os, resetRest>>

Reset == CloseGuard \/ ClearInner \/ ClearProxy \/ ClearPac \/ ResetFails

SysoptNext == (\E p \in Patchers : Patch(p)) \/ Reset \/ GuardTick

SysoptSpec == SysoptInit /\ [][SysoptNext]_sysoptVars

-----------------------------------------------------------------------------
(* Properties.                                                             *)

\* Whatever patches of the system proxy overlapped, once they are over and the
\* last did not fail, the operating system, inner_proxy and what the guard
\* repeats are at what the settings say, although the guard repeats its own from
\* time to time; and the guard runs if and only if the settings want it to,
\* unless the last refresh_guard, which takes no lock, looked while another one
\* had looked and not yet started or stopped the guard (guardsCrossed).
ProxyFollowsSettings ==
  rsPc = "idle" /\ ~proxyFailed /\ (\A p \in Patchers : PtAt(p, "idle")) =>
    /\ inner = wish.mode
    /\ osProxy = (wish.mode = "proxy")
    /\ osPac = (wish.mode = "pac")
    /\ guardType = GuardTypeOf(wish.mode, wish.guard)
    /\ guardsCrossed \/ guardRuns = Guarded

\* Once the reset at the end of the program succeeded, and unless an update
\* was under way, no proxy is left on: the guard does not bring it back.
ResetHolds == rsPc = "done" /\ rsHolds => ~osProxy /\ ~osPac
=============================================================================
