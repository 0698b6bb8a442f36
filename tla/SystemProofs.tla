---------------------------- MODULE SystemProofs ----------------------------
(***************************************************************************)
(* The properties of the system proxy, of lightweight mode and of the      *)
(* service manager, for any number of patches, callers, timers, readers    *)
(* and operations.                                                         *)
(***************************************************************************)
EXTENDS Sysopt, Lightweight, Service, TLAPS

-----------------------------------------------------------------------------
(* The system proxy: what an update under the lock read is what the        *)
(* settings say, unless a later patch waits for the lock; and up to the    *)
(* second command it leaves everything the guard may do to it as it is.    *)

ReadStages == {"note", "guard", "first", "second"}
HeldStages == {"read"} \union ReadStages
PatchStages == {"idle", "lock", "refresh", "start", "stop"} \union HeldStages

ProxyTypes ==
  /\ wish \in Wishes
  /\ ptPc \in [Patchers -> PatchStages]
  /\ ptMode \in [Patchers -> Modes] /\ ptGuard \in [Patchers -> BOOLEAN]
  /\ inner \in Modes
  /\ osProxy \in BOOLEAN /\ osPac \in BOOLEAN
  /\ guardRuns \in BOOLEAN /\ guardsCrossed \in BOOLEAN

OneHolder == \A p \in Patchers : ptPc[p] \in HeldStages => updateLock = p

SomeoneWaits == \E q \in Patchers : PtAt(q, "lock")
Busy == \E p \in Patchers : ptPc[p] \in {"lock"} \union HeldStages

ReadIsWish ==
  \A p \in Patchers : ptPc[p] \in ReadStages =>
    SomeoneWaits \/ (ptMode[p] = wish.mode /\ ptGuard[p] = wish.guard)

\* What an update has done by the stage it is at.
DoneSoFar(p) ==
  /\ ptPc[p] \in {"guard", "first", "second"} => inner = ptMode[p]
  /\ ptPc[p] \in {"first", "second"} =>
       guardType = GuardTypeOf(ptMode[p], ptGuard[p])
  /\ PtAt(p, "second") => IF ptMode[p] = "proxy" THEN ~osPac ELSE ~osProxy

InPlace ==
  /\ inner = wish.mode
  /\ osProxy = (wish.mode = "proxy") /\ osPac = (wish.mode = "pac")
  /\ guardType = GuardTypeOf(wish.mode, wish.guard)

UpdateProgress ==
  rsPc = "idle" =>
    /\ \A p \in Patchers : DoneSoFar(p)
    /\ ~proxyFailed /\ ~Busy => InPlace

ResetProgress ==
  rsHolds =>
    /\ updateLock = Unlocked
    /\ rsPc # "idle" => guardType = "none"
    /\ rsPc = "pac" => ~osProxy
    /\ rsPc = "done" => ~osProxy /\ ~osPac

\* Unless the last refresh looked while another was half done, one is half done
\* at most; when no update is under way and none is about to look, it is about
\* to do, or has done, what the settings say.
HalfDone(p) == ptPc[p] \in {"start", "stop"}

GuardProgress ==
  ~guardsCrossed =>
    /\ \A p, q \in Patchers : HalfDone(p) /\ HalfDone(q) => p = q
    /\ ~proxyFailed /\ ~Busy /\ (\A p \in Patchers : ~PtAt(p, "refresh")) =>
         /\ \A p \in Patchers : HalfDone(p) => (PtAt(p, "start") <=> Guarded)
         /\ (\A p \in Patchers : ~HalfDone(p)) => guardRuns = Guarded

SysoptInv ==
  /\ ProxyTypes /\ OneHolder /\ ReadIsWish /\ UpdateProgress /\ ResetProgress
  /\ GuardProgress

-----------------------------------------------------------------------------
USE DEF PtAt, PtTo, os, readWish, guarding, rest, resetRest

LEMMA ProxyInitHolds == SysoptInit => SysoptInv
<1> SUFFICES ASSUME SysoptInit PROVE SysoptInv
  OBVIOUS
<1> USE DEF SysoptInit
<1>1. ProxyTypes
  BY DEF ProxyTypes, Wishes, Modes, PatchStages
<1>2. \A p \in Patchers : ptPc[p] = "idle"
  OBVIOUS
<1>3. OneHolder /\ ReadIsWish
  BY <1>2 DEF OneHolder, ReadIsWish, HeldStages, ReadStages
<1>4. UpdateProgress
  <2>1. InPlace
    BY DEF InPlace, GuardTypeOf
  <2> QED  BY <1>2, <2>1 DEF UpdateProgress, DoneSoFar
<1>5. ResetProgress
  BY DEF ResetProgress
<1>6. GuardProgress
  BY <1>2 DEF GuardProgress, HalfDone, Guarded
<1> QED  BY <1>1, <1>3, <1>4, <1>5, <1>6 DEF SysoptInv

LEMMA ProxyTypesHold == SysoptInv /\ [SysoptNext]_sysoptVars => ProxyTypes'
<1> SUFFICES ASSUME SysoptInv, [SysoptNext]_sysoptVars PROVE ProxyTypes'
  OBVIOUS
<1> USE DEF SysoptInv, ProxyTypes, PatchStages, HeldStages, ReadStages, Wishes, Modes, SetStep,
            SetProxy, SetPac
<1>1. CASE UNCHANGED sysoptVars
  BY <1>1 DEF sysoptVars
<1>2. CASE GuardTick
  BY <1>2 DEF GuardTick
<1>3. CASE Reset
  BY <1>3 DEF Reset, CloseGuard, ClearInner, ClearProxy, ClearPac, ResetFails
<1>4. ASSUME NEW p \in Patchers, NEW new \in Wishes, PatchProxy(p, new)
      PROVE  ProxyTypes'
  BY <1>4 DEF PatchProxy
<1>5. ASSUME NEW p \in Patchers, LockUpdate(p)
      PROVE  ProxyTypes'
  BY <1>5 DEF LockUpdate
<1>6. ASSUME NEW p \in Patchers, ReadWish(p)
      PROVE  ProxyTypes'
  BY <1>6 DEF ReadWish
<1>7. ASSUME NEW p \in Patchers, NoteInner(p)
      PROVE  ProxyTypes'
  BY <1>7 DEF NoteInner
<1>8. ASSUME NEW p \in Patchers, SetGuard(p)
      PROVE  ProxyTypes'
  BY <1>8 DEF SetGuard
<1>9. ASSUME NEW p \in Patchers, ApplyFirst(p)
      PROVE  ProxyTypes'
  BY <1>9 DEF ApplyFirst
<1>10. ASSUME NEW p \in Patchers, ApplySecond(p)
      PROVE  ProxyTypes'
  BY <1>10 DEF ApplySecond
<1>11. ASSUME NEW p \in Patchers, ApplyFails(p)
      PROVE  ProxyTypes'
  BY <1>11 DEF ApplyFails
<1>12. ASSUME NEW p \in Patchers, LookAtGuard(p)
      PROVE  ProxyTypes'
  BY <1>12 DEF LookAtGuard
<1>13. ASSUME NEW p \in Patchers, RefreshGuard(p)
      PROVE  ProxyTypes'
  BY <1>13 DEF RefreshGuard
<1> QED
  BY <1>1, <1>2, <1>3, <1>4, <1>5, <1>6, <1>7, <1>8, <1>9, <1>10, <1>11, <1>12,
     <1>13
     DEF SysoptNext, Patch

LEMMA HolderHolds == SysoptInv /\ [SysoptNext]_sysoptVars => OneHolder'
<1> SUFFICES ASSUME SysoptInv, [SysoptNext]_sysoptVars PROVE OneHolder'
  OBVIOUS
<1> USE DEF SysoptInv, ProxyTypes, OneHolder, HeldStages, ReadStages
<1>1. CASE UNCHANGED sysoptVars
  BY <1>1 DEF sysoptVars
<1>2. CASE GuardTick
  BY <1>2 DEF GuardTick
<1>3. CASE Reset
  BY <1>3 DEF Reset, CloseGuard, ClearInner, ClearProxy, ClearPac, ResetFails
<1>4. ASSUME NEW p \in Patchers, NEW new \in Wishes, PatchProxy(p, new)
      PROVE  OneHolder'
  BY <1>4, UnlockedAssumption DEF PatchProxy
<1>5. ASSUME NEW p \in Patchers, LockUpdate(p)
      PROVE  OneHolder'
  BY <1>5, UnlockedAssumption DEF LockUpdate
<1>6. ASSUME NEW p \in Patchers, ReadWish(p)
      PROVE  OneHolder'
  BY <1>6, UnlockedAssumption DEF ReadWish
<1>7. ASSUME NEW p \in Patchers, NoteInner(p)
      PROVE  OneHolder'
  BY <1>7, UnlockedAssumption DEF NoteInner
<1>8. ASSUME NEW p \in Patchers, SetGuard(p)
      PROVE  OneHolder'
  BY <1>8, UnlockedAssumption DEF SetGuard
<1>9. ASSUME NEW p \in Patchers, ApplyFirst(p)
      PROVE  OneHolder'
  BY <1>9, UnlockedAssumption DEF ApplyFirst
<1>10. ASSUME NEW p \in Patchers, ApplySecond(p)
      PROVE  OneHolder'
  BY <1>10, UnlockedAssumption DEF ApplySecond
<1>11. ASSUME NEW p \in Patchers, ApplyFails(p)
      PROVE  OneHolder'
  BY <1>11, UnlockedAssumption DEF ApplyFails
<1>12. ASSUME NEW p \in Patchers, LookAtGuard(p)
      PROVE  OneHolder'
  BY <1>12, UnlockedAssumption DEF LookAtGuard
<1>13. ASSUME NEW p \in Patchers, RefreshGuard(p)
      PROVE  OneHolder'
  BY <1>13, UnlockedAssumption DEF RefreshGuard
<1> QED
  BY <1>1, <1>2, <1>3, <1>4, <1>5, <1>6, <1>7, <1>8, <1>9, <1>10, <1>11, <1>12,
     <1>13
     DEF SysoptNext, Patch, Reset


LEMMA ReadHolds == SysoptInv /\ [SysoptNext]_sysoptVars => ReadIsWish'
<1> SUFFICES ASSUME SysoptInv, [SysoptNext]_sysoptVars PROVE ReadIsWish'
  OBVIOUS
<1> USE DEF SysoptInv, ProxyTypes, OneHolder, ReadIsWish, SomeoneWaits, HeldStages, ReadStages
<1>1. CASE UNCHANGED sysoptVars
  BY <1>1 DEF sysoptVars
<1>2. CASE GuardTick
  BY <1>2 DEF GuardTick
<1>3. CASE Reset
  BY <1>3 DEF Reset, CloseGuard, ClearInner, ClearProxy, ClearPac, ResetFails
<1>4. ASSUME NEW p \in Patchers, NEW new \in Wishes, PatchProxy(p, new)
      PROVE  ReadIsWish'
  BY <1>4 DEF PatchProxy
<1>5. ASSUME NEW p \in Patchers, LockUpdate(p)
      PROVE  ReadIsWish'
  BY <1>5, UnlockedAssumption DEF LockUpdate
<1>6. ASSUME NEW p \in Patchers, ReadWish(p)
      PROVE  ReadIsWish'
  BY <1>6 DEF ReadWish
<1>7. ASSUME NEW p \in Patchers, NoteInner(p)
      PROVE  ReadIsWish'
  BY <1>7 DEF NoteInner
<1>8. ASSUME NEW p \in Patchers, SetGuard(p)
      PROVE  ReadIsWish'
  BY <1>8 DEF SetGuard
<1>9. ASSUME NEW p \in Patchers, ApplyFirst(p)
      PROVE  ReadIsWish'
  BY <1>9 DEF ApplyFirst
<1>10. ASSUME NEW p \in Patchers, ApplySecond(p)
      PROVE  ReadIsWish'
  BY <1>10 DEF ApplySecond
<1>11. ASSUME NEW p \in Patchers, ApplyFails(p)
      PROVE  ReadIsWish'
  BY <1>11 DEF ApplyFails
<1>12. ASSUME NEW p \in Patchers, LookAtGuard(p)
      PROVE  ReadIsWish'
  BY <1>12 DEF LookAtGuard
<1>13. ASSUME NEW p \in Patchers, RefreshGuard(p)
      PROVE  ReadIsWish'
  BY <1>13 DEF RefreshGuard
<1> QED
  BY <1>1, <1>2, <1>3, <1>4, <1>5, <1>6, <1>7, <1>8, <1>9, <1>10, <1>11, <1>12,
     <1>13
     DEF SysoptNext, Patch, Reset

\* Only the holder of the lock has done anything of an update.
LEMMA DoneHolds ==
  SysoptInv /\ [SysoptNext]_sysoptVars =>
    (rsPc' = "idle" => \A q \in Patchers : DoneSoFar(q)')
<1> SUFFICES ASSUME SysoptInv, [SysoptNext]_sysoptVars, rsPc' = "idle", NEW q \in Patchers
             PROVE  DoneSoFar(q)'
  OBVIOUS
<1>0. rsPc = "idle"
  BY DEF SysoptNext, sysoptVars, Reset, CloseGuard, ClearInner, ClearProxy,
     ClearPac,
         ResetFails, Patch, PatchProxy, LockUpdate, ReadWish, NoteInner, SetGuard,
         ApplyFirst, ApplySecond, ApplyFails, LookAtGuard, RefreshGuard, GuardTick
<1> USE <1>0 DEF SysoptInv, ProxyTypes, OneHolder, UpdateProgress, DoneSoFar, HeldStages, ReadStages
<1>1. CASE UNCHANGED sysoptVars
  BY <1>1 DEF sysoptVars, SetStep, SetProxy, SetPac, GuardTypeOf, Modes
<1>2. CASE GuardTick
  BY <1>2 DEF GuardTick, SetStep, SetProxy, SetPac, GuardTypeOf, Modes
<1>3. CASE Reset
  BY <1>3 DEF Reset, CloseGuard, ClearInner, ClearProxy, ClearPac, ResetFails
<1>4. ASSUME NEW p \in Patchers, NEW new \in Wishes, PatchProxy(p, new)
      PROVE  DoneSoFar(q)'
  BY <1>4 DEF PatchProxy
<1>5. ASSUME NEW p \in Patchers, LockUpdate(p)
      PROVE  DoneSoFar(q)'
  BY <1>5 DEF LockUpdate
<1>6. ASSUME NEW p \in Patchers, ReadWish(p)
      PROVE  DoneSoFar(q)'
  BY <1>6 DEF ReadWish
<1>7. ASSUME NEW p \in Patchers, NoteInner(p)
      PROVE  DoneSoFar(q)'
  BY <1>7 DEF NoteInner
<1>8. ASSUME NEW p \in Patchers, SetGuard(p)
      PROVE  DoneSoFar(q)'
  BY <1>8 DEF SetGuard
<1>9. ASSUME NEW p \in Patchers, ApplyFirst(p)
      PROVE  DoneSoFar(q)'
  BY <1>9 DEF ApplyFirst, FirstStep, SetStep, SetProxy, SetPac, Modes
<1>10. ASSUME NEW p \in Patchers, ApplySecond(p)
      PROVE  DoneSoFar(q)'
  BY <1>10 DEF ApplySecond
<1>11. ASSUME NEW p \in Patchers, ApplyFails(p)
      PROVE  DoneSoFar(q)'
  BY <1>11 DEF ApplyFails
<1>12. ASSUME NEW p \in Patchers, LookAtGuard(p)
      PROVE  DoneSoFar(q)'
  BY <1>12 DEF LookAtGuard
<1>13. ASSUME NEW p \in Patchers, RefreshGuard(p)
      PROVE  DoneSoFar(q)'
  BY <1>13 DEF RefreshGuard
<1> QED
  BY <1>1, <1>2, <1>3, <1>4, <1>5, <1>6, <1>7, <1>8, <1>9, <1>10, <1>11, <1>12,
     <1>13
     DEF SysoptNext, Patch

\* An update that comes to its end without a failure leaves everything in place,
\* unless a later patch waits.
LEMMA PlaceHolds ==
  SysoptInv /\ [SysoptNext]_sysoptVars =>
    (rsPc' = "idle" /\ ~proxyFailed' /\ ~Busy' => InPlace')
<1> SUFFICES ASSUME SysoptInv, [SysoptNext]_sysoptVars,
                    rsPc' = "idle", ~proxyFailed', ~Busy'
             PROVE  InPlace'
  OBVIOUS
<1>0. rsPc = "idle"
  BY DEF SysoptNext, sysoptVars, Reset, CloseGuard, ClearInner, ClearProxy,
     ClearPac,
         ResetFails, Patch, PatchProxy, LockUpdate, ReadWish, NoteInner, SetGuard,
         ApplyFirst, ApplySecond, ApplyFails, LookAtGuard, RefreshGuard, GuardTick
<1> USE <1>0
      DEF SysoptInv, ProxyTypes, UpdateProgress, Busy, HeldStages, ReadStages
<1>1. CASE UNCHANGED sysoptVars
  BY <1>1 DEF sysoptVars, InPlace
<1>2. CASE GuardTick
  BY <1>2 DEF GuardTick, InPlace, GuardTypeOf, SetStep, SetProxy, SetPac, Modes
<1>3. CASE Reset
  BY <1>3 DEF Reset, CloseGuard, ClearInner, ClearProxy, ClearPac, ResetFails
<1>4. ASSUME NEW p \in Patchers, NEW new \in Wishes, PatchProxy(p, new)
      PROVE  InPlace'
  BY <1>4 DEF PatchProxy
<1>5. ASSUME NEW p \in Patchers, LockUpdate(p)
      PROVE  InPlace'
  BY <1>5 DEF LockUpdate
<1>6. ASSUME NEW p \in Patchers, ReadWish(p)
      PROVE  InPlace'
  BY <1>6 DEF ReadWish
<1>7. ASSUME NEW p \in Patchers, NoteInner(p)
      PROVE  InPlace'
  BY <1>7 DEF NoteInner
<1>8. ASSUME NEW p \in Patchers, SetGuard(p)
      PROVE  InPlace'
  BY <1>8 DEF SetGuard
<1>9. ASSUME NEW p \in Patchers, ApplyFirst(p)
      PROVE  InPlace'
  BY <1>9 DEF ApplyFirst
<1>10. ASSUME NEW p \in Patchers, ApplySecond(p)
      PROVE  InPlace'
  <2>1. PtAt(p, "second") /\ ~SomeoneWaits
    BY <1>10 DEF ApplySecond, SomeoneWaits
  <2>2. ptMode[p] = wish.mode /\ ptGuard[p] = wish.guard
    BY <2>1 DEF ReadIsWish
  <2>3. DoneSoFar(p)
    OBVIOUS
  <2>4. inner = wish.mode /\ guardType = GuardTypeOf(wish.mode, wish.guard)
    BY <2>1, <2>2, <2>3 DEF DoneSoFar
  <2>5. osProxy' = (wish.mode = "proxy") /\ osPac' = (wish.mode = "pac")
    BY <1>10, <2>1, <2>2, <2>3
       DEF DoneSoFar, ApplySecond, SecondStep, FirstStep, SetStep, SetProxy, SetPac, Wishes, Modes
  <2> QED  BY <1>10, <2>4, <2>5 DEF InPlace, ApplySecond
<1>11. ASSUME NEW p \in Patchers, ApplyFails(p)
      PROVE  InPlace'
  BY <1>11 DEF ApplyFails
<1>12. ASSUME NEW p \in Patchers, LookAtGuard(p)
      PROVE  InPlace'
  BY <1>12 DEF LookAtGuard, InPlace
<1>13. ASSUME NEW p \in Patchers, RefreshGuard(p)
      PROVE  InPlace'
  BY <1>13 DEF RefreshGuard, InPlace
<1> QED
  BY <1>1, <1>2, <1>3, <1>4, <1>5, <1>6, <1>7, <1>8, <1>9, <1>10, <1>11, <1>12,
     <1>13
     DEF SysoptNext, Patch


LEMMA ResetProgressHolds == SysoptInv /\ [SysoptNext]_sysoptVars =>
                              ResetProgress'
<1> SUFFICES ASSUME SysoptInv, [SysoptNext]_sysoptVars PROVE ResetProgress'
  OBVIOUS
<1> USE DEF SysoptInv, ProxyTypes, OneHolder, ResetProgress, HeldStages, ReadStages
<1>1. CASE UNCHANGED sysoptVars
  BY <1>1 DEF sysoptVars
<1>2. CASE GuardTick
  BY <1>2 DEF GuardTick
<1>3. ASSUME NEW p \in Patchers, NEW new \in Wishes, PatchProxy(p, new)
      PROVE  ResetProgress'
  BY <1>3, UnlockedAssumption DEF PatchProxy
<1>4. ASSUME NEW p \in Patchers, LockUpdate(p)
      PROVE  ResetProgress'
  BY <1>4, UnlockedAssumption DEF LockUpdate
<1>5. ASSUME NEW p \in Patchers, ReadWish(p)
      PROVE  ResetProgress'
  BY <1>5, UnlockedAssumption DEF ReadWish
<1>6. ASSUME NEW p \in Patchers, NoteInner(p)
      PROVE  ResetProgress'
  BY <1>6, UnlockedAssumption DEF NoteInner
<1>7. ASSUME NEW p \in Patchers, SetGuard(p)
      PROVE  ResetProgress'
  BY <1>7, UnlockedAssumption DEF SetGuard
<1>8. ASSUME NEW p \in Patchers, ApplyFirst(p)
      PROVE  ResetProgress'
  BY <1>8, UnlockedAssumption DEF ApplyFirst
<1>9. ASSUME NEW p \in Patchers, ApplySecond(p)
      PROVE  ResetProgress'
  BY <1>9, UnlockedAssumption DEF ApplySecond
<1>10. ASSUME NEW p \in Patchers, ApplyFails(p)
      PROVE  ResetProgress'
  BY <1>10, UnlockedAssumption DEF ApplyFails
<1>11. ASSUME NEW p \in Patchers, LookAtGuard(p)
      PROVE  ResetProgress'
  BY <1>11, UnlockedAssumption DEF LookAtGuard
<1>12. ASSUME NEW p \in Patchers, RefreshGuard(p)
      PROVE  ResetProgress'
  BY <1>12, UnlockedAssumption DEF RefreshGuard
<1>13. CASE CloseGuard
  BY <1>13 DEF CloseGuard
<1>14. CASE ClearInner
  BY <1>14 DEF ClearInner, SetProxy, SetPac
<1>15. CASE ClearProxy
  BY <1>15 DEF ClearProxy, SetProxy, SetPac
<1>16. CASE ClearPac
  BY <1>16 DEF ClearPac, SetProxy, SetPac
<1>17. CASE ResetFails
  BY <1>17 DEF ResetFails
<1> QED
  BY <1>1, <1>2, <1>3, <1>4, <1>5, <1>6, <1>7, <1>8, <1>9, <1>10, <1>11, <1>12,
     <1>13, <1>14, <1>15, <1>16, <1>17
     DEF SysoptNext, Patch, Reset

\* A refresh that looks alone does what the settings say; every patch that
\* succeeded looks after the last of them.
LEMMA GuardHolds == SysoptInv /\ [SysoptNext]_sysoptVars => GuardProgress'
<1> SUFFICES ASSUME SysoptInv, [SysoptNext]_sysoptVars PROVE GuardProgress'
  OBVIOUS
<1> USE DEF SysoptInv, ProxyTypes, PatchStages, GuardProgress, HalfDone, Busy,
            HeldStages, ReadStages, Guarded
<1>1. CASE UNCHANGED sysoptVars
  BY <1>1 DEF sysoptVars
<1>2. CASE GuardTick
  BY <1>2 DEF GuardTick
<1>3. CASE Reset
  BY <1>3 DEF Reset, CloseGuard, ClearInner, ClearProxy, ClearPac, ResetFails
<1>4. ASSUME NEW p \in Patchers, NEW new \in Wishes, PatchProxy(p, new)
      PROVE  GuardProgress'
  BY <1>4 DEF PatchProxy
<1>5. ASSUME NEW p \in Patchers,
             LockUpdate(p) \/ ReadWish(p) \/ NoteInner(p) \/ SetGuard(p)
               \/ ApplyFirst(p)
      PROVE  GuardProgress'
  BY <1>5 DEF LockUpdate, ReadWish, NoteInner, SetGuard, ApplyFirst
<1>6. ASSUME NEW p \in Patchers, ApplySecond(p)
      PROVE  GuardProgress'
  BY <1>6 DEF ApplySecond
<1>7. ASSUME NEW p \in Patchers, ApplyFails(p)
      PROVE  GuardProgress'
  BY <1>7 DEF ApplyFails
<1>8. ASSUME NEW p \in Patchers, LookAtGuard(p)
      PROVE  GuardProgress'
  BY <1>8 DEF LookAtGuard
<1>9. ASSUME NEW p \in Patchers, RefreshGuard(p)
      PROVE  GuardProgress'
  BY <1>9 DEF RefreshGuard
<1> QED
  BY <1>1, <1>2, <1>3, <1>4, <1>5, <1>6, <1>7, <1>8, <1>9 DEF SysoptNext, Patch

LEMMA ProxyNextHolds == SysoptInv /\ [SysoptNext]_sysoptVars => SysoptInv'
<1> SUFFICES ASSUME SysoptInv, [SysoptNext]_sysoptVars PROVE SysoptInv'
  OBVIOUS
<1>1. UpdateProgress'
  BY DoneHolds, PlaceHolds DEF UpdateProgress
<1> QED
  BY <1>1, ProxyTypesHold, HolderHolds, ReadHolds, ResetProgressHolds,
     GuardHolds
     DEF SysoptInv

\* However many patches of the system proxy overlap, and whatever the guard
\* repeats between their commands, the system ends at what the settings say, and
\* the guard runs if they want it to, unless the last refresh_guard looked while
\* another was half done (update_sysproxy, update_lock, refresh_guard in
\* core/sysopt.rs).
THEOREM ProxyAtSettings == SysoptSpec => []ProxyFollowsSettings
<1>1. SysoptInv => ProxyFollowsSettings
  BY DEF SysoptInv, UpdateProgress, GuardProgress, HalfDone, Busy, HeldStages,
     ReadStages, InPlace, ProxyFollowsSettings
<1> QED  BY <1>1, ProxyInitHolds, ProxyNextHolds, PTL DEF SysoptSpec

\* A reset that nothing overlapped leaves no proxy behind: its guard was closed
\* before the proxy was cleared (reset_sysproxy in core/sysopt.rs).
THEOREM NoProxyLeft == SysoptSpec => []ResetHolds
<1>1. SysoptInv => ResetHolds
  BY DEF SysoptInv, ResetProgress, ResetHolds
<1> QED  BY <1>1, ProxyInitHolds, ProxyNextHolds, PTL DEF SysoptSpec

-----------------------------------------------------------------------------
(* Lightweight mode: as long as nobody left the mode while it was entered, *)
(* whoever enters it has its state at In until the event loop has seen the *)
(* window go, and whoever leaves it is alone and has it at Exiting.        *)

EnterStages == {"recordIn", "destroy"}
ExitStages == {"recordExiting", "showExit", "createExit", "listen", "cancelExit",
               "recordNormal"}
LightStages == EnterStages \union ExitStages \union
  {"idle", "setUp", "sleeping", "clear", "enter", "leave", "toggle", "cancel", "show",
   "create"}

LightTypes ==
  /\ wmPc \in [Actors -> LightStages]
  /\ exitRequested \in BOOLEAN /\ quitting \in BOOLEAN /\ overlapped \in BOOLEAN

InOrder ==
  ~overlapped =>
    /\ (\E a \in Actors : Entering(a)) \/ exitRequested => lightState = "In"
    /\ (\E a \in Actors : Exiting(a)) => lightState = "Exiting"
    /\ \A a, b \in Actors : Exiting(a) /\ Exiting(b) => a = b

LightInv == LightTypes /\ InOrder /\ NeverStuckExiting /\ SurvivesEntry

-----------------------------------------------------------------------------
USE DEF WmAt, WmTo

LEMMA LightInitHolds == LightInit => LightInv
  BY DEF LightInit, LightInv, LightTypes, InOrder, NeverStuckExiting,
     SurvivesEntry,
         Entering, Exiting, LightStages, EnterStages, ExitStages

\* A timer whose sender is gone was asleep.
LEMMA EndedIs ==
  ASSUME NEW pc \in [Actors -> LightStages]
  PROVE  /\ Ended(pc) \in [Actors -> LightStages]
         /\ \A a \in Actors : Ended(pc)[a] = pc[a] \/ (pc[a] = "sleeping" /\ Ended(pc)[a] = "idle")
  BY DEF Ended, LightStages

\* A closed window moves nobody but an idle timer.
LEMMA ClosedIs ==
  ASSUME NEW pc \in [Actors -> LightStages], Closed(pc)
  PROVE  /\ wmPc' \in [Actors -> LightStages]
         /\ \A a \in Actors :
              wmPc'[a] = pc[a] \/ (wmPc[a] = "idle" /\ wmPc'[a] = "setUp")
<1> DEFINE t == CHOOSE t \in IdleTimers : TRUE
<1>1. CASE wmPc' = pc
  BY <1>1
<1>2. CASE IdleTimers # {} /\ wmPc' = [pc EXCEPT ![t] = "setUp"]
  <2>1. t \in Actors /\ wmPc[t] = "idle"
    BY <1>2 DEF IdleTimers, Actors
  <2> HIDE DEF t
  <2> QED  BY <1>2, <2>1 DEF LightStages
<1> QED  BY <1>1, <1>2 DEF Closed

\* A step that leaves the mode alone, and with it who leaves it, and in which
\* nobody begins to enter it.
LEMMA QuietStep ==
  ASSUME LightInv, ~quitting, UNCHANGED <<lightState, endVars, overlapped>>,
         wmPc' \in [Actors -> LightStages],
         \A a \in Actors : (Exiting(a)' <=> Exiting(a))
           /\ (Entering(a)' => Entering(a))
  PROVE  LightInv'
<1>1. LightTypes' /\ SurvivesEntry'
  BY DEF LightInv, LightTypes, SurvivesEntry, endVars
<1>2. InOrder'
  BY DEF LightInv, InOrder, endVars
<1>3. NeverStuckExiting'
  BY DEF LightInv, NeverStuckExiting
<1> QED  BY <1>1, <1>2, <1>3 DEF LightInv

\* The steps around the mode.
Around(a) ==
  \/ CancelTimer(a) \/ ShowWindow(a) \/ CreateWindow(a) \/ Listen(a)
  \/ \E job \in Jobs : CallWindow(a, job)
  \/ ToggleWindow(a) \/ SetUpTimer(a) \/ Expire(a) \/ ClearTimer(a)

Outside == CloseWindow \/ FocusWindow \/ PageLoaded \/ LimiterElapses \/ SwitchAuto

LEMMA AroundIsQuiet ==
  ASSUME LightInv, ~quitting, NEW a \in Actors, Around(a)
  PROVE  LightInv'
<1> USE DEF Exiting, Entering
<1>0. wmPc \in [Actors -> LightStages]
  BY DEF LightInv, LightTypes
<1> DEFINE Quiet ==
      /\ UNCHANGED <<lightState, endVars, overlapped>>
      /\ wmPc' \in [Actors -> LightStages]
      /\ \A b \in Actors : (Exiting(b)' <=> Exiting(b))
           /\ (Entering(b)' => Entering(b))
<1>1. ASSUME CancelTimer(a) PROVE Quiet
  BY <1>0, <1>1, EndedIs DEF CancelTimer, LightStages, ExitStages
<1>2. ASSUME ShowWindow(a) PROVE Quiet
  BY <1>0, <1>2 DEF ShowWindow, AfterShow, LightStages, ExitStages
<1>3. ASSUME CreateWindow(a) PROVE Quiet
  BY <1>0, <1>3 DEF CreateWindow, AfterShow, LightStages, ExitStages
<1>4. ASSUME Listen(a) PROVE Quiet
  BY <1>0, <1>4 DEF Listen, LightStages, ExitStages
<1>5. ASSUME \E job \in Jobs : CallWindow(a, job) PROVE Quiet
  BY <1>0, <1>5 DEF CallWindow, FirstOf, Jobs, LightStages
<1>6. ASSUME ToggleWindow(a) PROVE Quiet
  <2>1. PICK label \in {"create", "idle"} :
          Closed([wmPc EXCEPT ![a] = label]) \/ wmPc' = [wmPc EXCEPT ![a] = label]
    BY <1>6 DEF ToggleWindow
  <2> DEFINE returned == [wmPc EXCEPT ![a] = label]
  <2>2. returned \in [Actors -> LightStages] /\ \A b \in Actors \ {a} :
          returned[b] = wmPc[b]
    BY <1>0 DEF LightStages
  <2>3. wmPc[a] = "toggle" /\ returned[a] \in {"create", "idle"}
    BY <1>0, <1>6 DEF ToggleWindow
  <2>4. Closed(returned) \/ wmPc' = returned
    BY <2>1
  <2> HIDE DEF returned
  <2>5. /\ wmPc' \in [Actors -> LightStages]
        /\ \A b \in Actors :
             wmPc'[b] = returned[b] \/ (wmPc[b] = "idle" /\ wmPc'[b] = "setUp")
    BY <2>2, <2>4, ClosedIs
  <2>6. UNCHANGED <<lightState, endVars, overlapped>>
    BY <1>6 DEF ToggleWindow
  <2> QED  BY <2>2, <2>3, <2>5, <2>6
<1>7. ASSUME SetUpTimer(a) \/ Expire(a) PROVE Quiet
  BY <1>0, <1>7 DEF SetUpTimer, Expire, LightStages
<1>8. ASSUME ClearTimer(a) PROVE Quiet
  BY <1>0, <1>8, EndedIs DEF ClearTimer, LightStages
<1> QED
  <2>1. Quiet
    BY <1>1, <1>2, <1>3, <1>4, <1>5, <1>6, <1>7, <1>8 DEF Around
  <2> QED  BY <2>1, QuietStep

LEMMA OutsideIsQuiet ==
  ASSUME LightInv, ~quitting, Outside
  PROVE  LightInv'
<1>0. wmPc \in [Actors -> LightStages]
  BY DEF LightInv, LightTypes
<1>1. /\ UNCHANGED <<lightState, endVars, overlapped>>
      /\ wmPc' \in [Actors -> LightStages]
      /\ \A b \in Actors : \/ wmPc'[b] = wmPc[b]
                           \/ /\ wmPc[b] \notin EnterStages \union ExitStages
                              /\ wmPc'[b] \notin EnterStages \union ExitStages
  <2>1. CASE CloseWindow
    BY <1>0, <2>1, ClosedIs DEF CloseWindow, EnterStages, ExitStages
  <2>2. CASE FocusWindow
    BY <1>0, <2>2, EndedIs DEF FocusWindow, EnterStages, ExitStages
  <2>3. CASE PageLoaded \/ LimiterElapses
    BY <1>0, <2>3 DEF PageLoaded, LimiterElapses
  <2>4. CASE SwitchAuto
    BY <1>0, <2>4, EndedIs DEF SwitchAuto, EnterStages, ExitStages
  <2> QED  BY <2>1, <2>2, <2>3, <2>4 DEF Outside
<1>2. \A b \in Actors : (Exiting(b)' <=> Exiting(b))
        /\ (Entering(b)' => Entering(b))
  BY <1>1 DEF Exiting, Entering, EnterStages, ExitStages
<1> QED  BY <1>1, <1>2, QuietStep

-----------------------------------------------------------------------------
(* The steps of the mode.                                                  *)

LEMMA EnterHolds ==
  ASSUME LightInv, ~quitting, NEW a \in Actors, Enter(a)
  PROVE  LightInv'
<1> USE DEF LightInv, LightTypes, Exiting, Entering
<1>1. LightTypes' /\ SurvivesEntry'
  BY DEF Enter, SurvivesEntry, endVars, LightStages, EnterStages
<1>2. InOrder'
  BY DEF InOrder, Enter, endVars
<1>3. NeverStuckExiting'
  BY DEF NeverStuckExiting, Enter
<1> QED  BY <1>1, <1>2, <1>3

LEMMA RecordInHolds ==
  ASSUME LightInv, ~quitting, NEW a \in Actors, RecordIn(a)
  PROVE  LightInv'
<1> USE DEF LightInv, LightTypes, Exiting, Entering
<1>1. LightTypes' /\ SurvivesEntry'
  BY DEF RecordIn, SurvivesEntry, endVars, LightStages, EnterStages
<1>2. InOrder'
  BY DEF InOrder, RecordIn, endVars
<1>3. NeverStuckExiting'
  BY DEF NeverStuckExiting, RecordIn
<1> QED  BY <1>1, <1>2, <1>3

LEMMA DestroyHolds ==
  ASSUME LightInv, ~quitting, NEW a \in Actors, DestroyWindow(a)
  PROVE  LightInv'
<1> USE DEF LightInv, LightTypes, Exiting, Entering
<1>1. LightTypes' /\ SurvivesEntry'
  BY DEF DestroyWindow, SurvivesEntry, LightStages
<1>2. InOrder'
  BY DEF InOrder, DestroyWindow
<1>3. NeverStuckExiting'
  BY DEF NeverStuckExiting, DestroyWindow
<1> QED  BY <1>1, <1>2, <1>3

LEMMA ExitHolds ==
  ASSUME LightInv, ~quitting, NEW a \in Actors, Exit(a)
  PROVE  LightInv'
<1> USE DEF LightInv, LightTypes
<1>1. LightTypes' /\ SurvivesEntry'
  BY DEF Exit, SurvivesEntry, endVars, LightStages, ExitStages
<1>2. InOrder'
  <2> SUFFICES ASSUME ~overlapped' PROVE InOrder'
    BY DEF InOrder
  <2>1. CASE lightState # "In"
    BY <2>1 DEF InOrder, Exit, endVars, Exiting, Entering
  <2>2. CASE lightState = "In"
    <3>1. ~overlapped /\ ~exitRequested /\ ~SomeoneEnters
            /\ lightState' = "Exiting"
      BY <2>2 DEF Exit
    <3>2. \A b \in Actors : ~Exiting(b) /\ ~Entering(b)
      BY <2>2, <3>1 DEF InOrder, SomeoneEnters
    <3>3. \A b \in Actors : ~Entering(b)' /\ (Exiting(b)' => b = a)
      BY <2>2, <3>2 DEF Exit, Exiting, Entering
    <3>4. ~exitRequested'
      BY <3>1 DEF Exit, endVars
    <3> QED  BY <3>1, <3>3, <3>4 DEF InOrder
  <2> QED  BY <2>1, <2>2
<1>3. NeverStuckExiting'
  <2>1. CASE lightState = "In"
    BY <2>1 DEF NeverStuckExiting, Exit, Exiting
  <2>2. CASE lightState # "In"
    BY <2>2 DEF NeverStuckExiting, Exit, Exiting
  <2> QED  BY <2>1, <2>2
<1> QED  BY <1>1, <1>2, <1>3

LEMMA RecordExitingHolds ==
  ASSUME LightInv, ~quitting, NEW a \in Actors, RecordExiting(a)
  PROVE  LightInv'
<1> USE DEF LightInv, LightTypes, Exiting, Entering
<1>1. LightTypes' /\ SurvivesEntry'
  BY DEF RecordExiting, SurvivesEntry, endVars, LightStages, ExitStages
<1>2. InOrder'
  BY DEF InOrder, RecordExiting, endVars
<1>3. NeverStuckExiting'
  BY DEF NeverStuckExiting, RecordExiting
<1> QED  BY <1>1, <1>2, <1>3

LEMMA RecordNormalHolds ==
  ASSUME LightInv, ~quitting, NEW a \in Actors, RecordNormal(a)
  PROVE  LightInv'
<1> USE DEF LightInv, LightTypes
<1>1. LightTypes' /\ SurvivesEntry'
  BY DEF RecordNormal, SurvivesEntry, endVars, LightStages
<1>2. InOrder'
  <2> SUFFICES ASSUME ~overlapped PROVE InOrder'
    BY DEF InOrder, RecordNormal
  <2>1. Exiting(a) /\ lightState = "Exiting"
    BY DEF InOrder, RecordNormal, Exiting
  <2>2. ~exitRequested /\ \A b \in Actors : ~Entering(b)
          /\ (Exiting(b) => b = a)
    BY <2>1 DEF InOrder
  <2>3. ~exitRequested' /\ \A b \in Actors : ~Entering(b)' /\ ~Exiting(b)'
    BY <2>2 DEF RecordNormal, endVars, Entering, Exiting
  <2> QED  BY <2>3 DEF InOrder
<1>3. NeverStuckExiting'
  BY DEF NeverStuckExiting, RecordNormal
<1> QED  BY <1>1, <1>2, <1>3

\* The event loop ends the program only if the mode was overlapped.
LEMMA ExitRequestHolds ==
  ASSUME LightInv, ~quitting, HandleExitRequest
  PROVE  LightInv'
<1> USE DEF LightInv, LightTypes
<1>1. UNCHANGED <<wmPc, lightState, overlapped>> /\ ~exitRequested'
      /\ quitting' = (lightState # "In") /\ exitRequested
  BY DEF HandleExitRequest, KeepsRunning
<1>2. LightTypes'
  <2>1. quitting' \in BOOLEAN
    BY <1>1
  <2>2. exitRequested' \in BOOLEAN
    BY DEF HandleExitRequest
  <2>3. wmPc' \in [Actors -> LightStages] /\ overlapped' \in BOOLEAN
    BY <1>1
  <2> QED  BY <2>1, <2>2, <2>3
<1>3. InOrder' /\ NeverStuckExiting'
  BY <1>1 DEF InOrder, NeverStuckExiting, Exiting, Entering
<1>4. SurvivesEntry'
  BY <1>1 DEF SurvivesEntry, InOrder
<1> QED  BY <1>2, <1>3, <1>4

LEMMA LightNextHolds == LightInv /\ [LightNext]_lightVars => LightInv'
<1> SUFFICES ASSUME LightInv, [LightNext]_lightVars PROVE LightInv'
  OBVIOUS
<1>1. CASE UNCHANGED lightVars
  BY <1>1 DEF lightVars, LightInv, LightTypes, InOrder, NeverStuckExiting,
     SurvivesEntry,
              Entering, Exiting
<1>2. ASSUME ~quitting, NEW a \in Actors, WindowStep(a)
      PROVE  LightInv'
  BY <1>2, EnterHolds, RecordInHolds, DestroyHolds, ExitHolds,
     RecordExitingHolds,
     RecordNormalHolds, AroundIsQuiet DEF WindowStep, Around
<1>3. ASSUME ~quitting, NEW c \in Callers,
             ToggleWindow(c) \/ \E job \in Jobs : CallWindow(c, job)
      PROVE  LightInv'
  BY <1>3, AroundIsQuiet DEF Around, Actors
<1>4. ASSUME ~quitting, NEW t \in Timers, SetUpTimer(t) \/ Expire(t) \/ ClearTimer(t)
      PROVE  LightInv'
  BY <1>4, AroundIsQuiet DEF Around, Actors
<1>5. ASSUME ~quitting, Outside \/ HandleExitRequest
      PROVE  LightInv'
  BY <1>5, OutsideIsQuiet, ExitRequestHolds
<1> QED  BY <1>1, <1>2, <1>3, <1>4, <1>5 DEF LightNext, Outside

\* However calls, timers and the event loop overlap, Exiting is never left
\* behind: entry_lightweight_mode and exit_lightweight_mode stay possible
\* (module/lightweight.rs).
THEOREM ModeIsNeverStuck == LightSpec => []NeverStuckExiting
<1>1. LightInv => NeverStuckExiting
  BY DEF LightInv
<1> QED  BY <1>1, LightInitHolds, LightNextHolds, PTL DEF LightSpec

\* To destroy the last window for the lightweight mode does not end the program
\* (the ExitRequested of lib.rs), unless the mode was left meanwhile.
THEOREM EntryIsSurvived == LightSpec => []SurvivesEntry
<1>1. LightInv => SurvivesEntry
  BY DEF LightInv
<1> QED  BY <1>1, LightInitHolds, LightNextHolds, PTL DEF LightSpec

-----------------------------------------------------------------------------
(* The service manager: readers of the status.                             *)

ReadersInv ==
  /\ DOMAIN opPc = Operators /\ DOMAIN readPc = Readers
  /\ \A r \in Readers : readPc[r] \in {"await", "wait"} /\ r \notin notified =>
       operation_running \/ \E o \in Operators : OpAt(o, "notify")

LEMMA ReadersNextHolds == ReadersInv /\ [ServiceNext]_serviceVars => ReadersInv'
<1> SUFFICES ASSUME ReadersInv, [ServiceNext]_serviceVars PROVE ReadersInv'
  OBVIOUS
<1> USE DEF ReadersInv, OpAt, OpTo
<1>1. CASE UNCHANGED serviceVars
  BY <1>1 DEF serviceVars
<1>2. CASE InitFails
  BY <1>2 DEF InitFails, readVars
<1>3. ASSUME NEW o \in Operators, Refresh(o) \/ \E job \in Clicks :
               Click(o, job)
      PROVE  ReadersInv'
  BY <1>3 DEF Refresh, Click, readVars
<1>4. ASSUME NEW o \in Operators, EnterOperation(o)
      PROVE  ReadersInv'
  BY <1>4 DEF EnterOperation, readVars
<1>5. ASSUME NEW o \in Operators, LeaveOperation(o)
      PROVE  ReadersInv'
  BY <1>5 DEF LeaveOperation, readVars
<1>6. ASSUME NEW o \in Operators, NotifyWaiters(o)
      PROVE  ReadersInv'
  BY <1>6 DEF NotifyWaiters, Listeners
<1>7. ASSUME NEW o \in Operators,
             LookAtVersion(o) \/ PassGate(o) \/ Uninstall(o) \/ UninstallFailed(o)
               \/ Install(o) \/ RemoveService(o) \/ Removed(o) \/ WaitForIpc(o)
               \/ CompareVersion(o)
      PROVE  ReadersInv'
  <2>1. /\ UNCHANGED <<operation_running, readVars>>
        /\ ~OpAt(o, "notify") /\ \E label : opPc' = [opPc EXCEPT ![o] = label]
    BY <1>7 DEF LookAtVersion, PassGate, Uninstall, UninstallFailed, Install,
       RemoveService,
                Removed, WaitForIpc, CompareVersion, Ran, Declines
  <2> QED  BY <2>1 DEF readVars
<1>8. ASSUME NEW r \in Readers, CallCurrent(r)
      PROVE  ReadersInv'
  BY <1>8 DEF CallCurrent, Register, ReadTo, reading
<1>9. ASSUME NEW r \in Readers, ReadCurrent(r)
      PROVE  ReadersInv'
  BY <1>9 DEF ReadCurrent, LookIfRunning, ReadStatus, LookAgain, Await, Woken,
     Register,
              ReadTo, reading
<1> QED
  BY <1>1, <1>2, <1>3, <1>4, <1>5, <1>6, <1>7, <1>8, <1>9
     DEF ServiceNext, Operation

\* Nobody waits in current() for an operation that is over: the future is made
\* before operation_running is looked at (core/service.rs).
THEOREM NobodyForgotten == ServiceSpec => []NoReaderForgotten
<1>1. ServiceInit => ReadersInv
  BY DEF ServiceInit, ReadersInv
<1>2. ReadersInv => NoReaderForgotten
  BY DEF ReadersInv, NoReaderForgotten
<1> QED  BY <1>1, <1>2, ReadersNextHolds, PTL DEF ServiceSpec

-----------------------------------------------------------------------------
(* The service manager: what the background asks.                          *)

\* Past the gate, for the background, and no click since.
PastGate(o) ==
  /\ opPc[o] \in {"uninstall", "failed", "install", "remove", "removed", "wait", "compare"}
  /\ ~opUser[o] /\ opClick[o] = clicks

PromptInv ==
  /\ clicks \in Nat
  /\ DOMAIN opPc = Operators /\ DOMAIN opUser = Operators
       /\ DOMAIN opJob = Operators
  /\ opClick \in [Operators -> Nat] /\ \A o \in Operators : opClick[o] <= clicks
  /\ \A o \in Operators : PastGate(o) => elevation_used
  /\ asked => elevation_used

\* The steps of an operation that asks no one.
AsksNobody(o) ==
  UninstallFailed(o) \/ Removed(o) \/ WaitForIpc(o) \/ LeaveOperation(o) \/ NotifyWaiters(o)

LEMMA PromptNextHolds == PromptInv /\ [ServiceNext]_serviceVars => PromptInv'
<1> SUFFICES ASSUME PromptInv, [ServiceNext]_serviceVars PROVE PromptInv'
  OBVIOUS
<1> USE DEF PromptInv, PastGate, OpAt, OpTo
<1>1. CASE UNCHANGED serviceVars
  BY <1>1 DEF serviceVars
<1>2. CASE InitFails
  BY <1>2 DEF InitFails, gateVars, osVars
<1>3. ASSUME NEW o \in Operators, Refresh(o)
      PROVE  PromptInv'
  BY <1>3 DEF Refresh, gateVars, osVars
<1>4. ASSUME NEW o \in Operators, NEW job \in Clicks, Click(o, job)
      PROVE  PromptInv'
  BY <1>4 DEF Click
<1>5. ASSUME NEW o \in Operators, EnterOperation(o) \/ AsksNobody(o)
      PROVE  PromptInv'
  BY <1>5 DEF EnterOperation, AsksNobody, UninstallFailed, AfterFailure,
     Removed, WaitForIpc,
              LeaveOperation, NotifyWaiters, gateVars, osVars, callVars
<1>6. ASSUME NEW o \in Operators, LookAtVersion(o) \/ CompareVersion(o)
      PROVE  PromptInv'
  <2>1. /\ UNCHANGED <<gateVars, osVars, opUser, opClick>>
             /\ DOMAIN opJob' = Operators
        /\ \/ OpAt(o, "look") /\ OpTo(o, "gate")
           \/ OpAt(o, "compare") /\ (OpTo(o, "leave") \/ OpTo(o, "uninstall"))
    BY <1>6 DEF LookAtVersion, CompareVersion
  <2> QED  BY <2>1 DEF gateVars, osVars
<1>7. ASSUME NEW o \in Operators, PassGate(o)
      PROVE  PromptInv'
  BY <1>7 DEF PassGate, GateOpen, FirstCommand, osVars, callVars
<1>8. ASSUME NEW o \in Operators, Uninstall(o) \/ Install(o) \/ RemoveService(o)
      PROVE  PromptInv'
  BY <1>8 DEF Uninstall, Install, RemoveService, Ran, Declines, Ask, gateVars,
     callVars
<1>9. ASSUME NEW r \in Readers, CallCurrent(r) \/ ReadCurrent(r)
      PROVE  PromptInv'
  BY <1>9 DEF CallCurrent, ReadCurrent, LookIfRunning, ReadStatus, LookAgain,
     Await, Woken,
              reading, gateVars, osVars
<1> QED
  BY <1>1, <1>2, <1>3, <1>4, <1>5, <1>6, <1>7, <1>8, <1>9
     DEF ServiceNext, Operation, AsksNobody

\* Nothing but PassGate takes an operation past the gate.
LEMMA OnlyPassGate ==
  ASSUME NEW o \in Operators, DOMAIN opPc = Operators, ServiceNext, OpAt(o, "gate"),
         opPc'[o] # "gate"
  PROVE  PassGate(o)
<1> USE DEF OpAt, OpTo
<1> DEFINE Elsewhere ==
      \/ opPc' = opPc
      \/ \E q \in Operators : \E label : opPc[q] # "gate"
           /\ opPc' = [opPc EXCEPT ![q] = label]
<1>1. ~Elsewhere
  OBVIOUS
<1> HIDE DEF Elsewhere
<1>2. ~InitFails /\ \A r \in Readers : ~CallCurrent(r) /\ ~ReadCurrent(r)
  BY <1>1 DEF Elsewhere, InitFails, CallCurrent, ReadCurrent, LookIfRunning,
     ReadStatus,
              LookAgain, Await, Woken, reading
<1>3. \A q \in Operators : ~Refresh(q) /\ \A job \in Clicks : ~Click(q, job)
  BY <1>1 DEF Elsewhere, Refresh, Click
<1>4. \A q \in Operators : ~EnterOperation(q) /\ ~LookAtVersion(q)
        /\ ~AsksNobody(q)
  BY <1>1 DEF Elsewhere, EnterOperation, LookAtVersion, AsksNobody,
     UninstallFailed, Removed,
              WaitForIpc, LeaveOperation, NotifyWaiters
<1>5. \A q \in Operators : ~Uninstall(q) /\ ~Install(q) /\ ~RemoveService(q)
        /\ ~CompareVersion(q)
  BY <1>1 DEF Elsewhere, Uninstall, Install, RemoveService, CompareVersion,
     Ran, Declines
<1>6. PICK q \in Operators : PassGate(q)
  BY <1>2, <1>3, <1>4, <1>5 DEF ServiceNext, Operation, AsksNobody
<1> QED  BY <1>6 DEF PassGate

\* From one click to the next the background is let through the gate once
\* (acquire_auto_elevation in core/service.rs).
THEOREM AsksOnce == ServiceSpec => OneBackgroundPrompt
<1>1. ServiceInit => PromptInv
  BY DEF ServiceInit, PromptInv, PastGate
<1>2. ASSUME PromptInv, [ServiceNext]_serviceVars
      PROVE  [\A o \in Operators :
                Prompts(o)' /\ ~Prompts(o) /\ OpAt(o, "gate") =>
                  ~asked]_serviceVars
  <2> SUFFICES ASSUME NEW o \in Operators, Prompts(o)', OpAt(o, "gate"), ServiceNext
               PROVE  ~asked
    BY <1>2
  <2>1. PassGate(o)
    BY <1>2, OnlyPassGate DEF Prompts, PromptInv
  <2> QED
    BY <1>2, <2>1
       DEF PassGate, GateOpen, FirstCommand, Prompts, PromptInv, OpTo, callVars, osVars
<1> QED  BY <1>1, <1>2, PromptNextHolds, PTL
            DEF ServiceSpec, OneBackgroundPrompt

-----------------------------------------------------------------------------
(* The service manager: what the user declined.                            *)

Working == {"look", "gate", "uninstall", "failed", "install", "remove", "removed", "wait",
            "compare", "leave"}

OneOperation ==
  \A o \in Operators : opPc[o] \in Working =>
    operation_running /\ \A q \in Operators : opPc[q] \in Working => q = o

DeclineInv ==
  /\ clicks \in Nat /\ opClick \in [Operators -> Nat]
  /\ \A o \in Operators : opClick[o] <= clicks
  /\ DOMAIN opPc = Operators /\ DOMAIN opUser = Operators
  /\ OneOperation
  /\ turnedDown => elevation_declined
  /\ \A o \in Operators : PastGate(o) /\ opPc[o] # "failed" => ~turnedDown

LEMMA DeclineNextHolds ==
  Platform = "windows" /\ DeclineInv /\ [ServiceNext]_serviceVars => DeclineInv'
<1> SUFFICES ASSUME Platform = "windows", DeclineInv, [ServiceNext]_serviceVars
             PROVE  DeclineInv'
  OBVIOUS
<1> USE DEF DeclineInv, OneOperation, PastGate, OpAt, OpTo, Working
<1>1. CASE UNCHANGED serviceVars
  BY <1>1 DEF serviceVars
<1>2. CASE InitFails
  BY <1>2 DEF InitFails, gateVars, osVars
<1>3. ASSUME NEW o \in Operators, Refresh(o)
      PROVE  DeclineInv'
  BY <1>3 DEF Refresh, gateVars, osVars
<1>4. ASSUME NEW o \in Operators, NEW job \in Clicks, Click(o, job)
      PROVE  DeclineInv'
  BY <1>4 DEF Click
<1>5. ASSUME NEW o \in Operators, EnterOperation(o)
      PROVE  DeclineInv'
  BY <1>5 DEF EnterOperation, gateVars, osVars, callVars
<1>6. ASSUME NEW o \in Operators, AsksNobody(o)
      PROVE  DeclineInv'
  BY <1>6 DEF AsksNobody, UninstallFailed, AfterFailure, Removed, WaitForIpc,
     LeaveOperation,
              NotifyWaiters, gateVars, osVars, callVars
<1>7. ASSUME NEW o \in Operators, LookAtVersion(o) \/ CompareVersion(o)
      PROVE  DeclineInv'
  <2>1. /\ UNCHANGED <<operation_running, gateVars, osVars, opUser, opClick>>
        /\ \/ OpAt(o, "look") /\ OpTo(o, "gate")
           \/ OpAt(o, "compare") /\ (OpTo(o, "leave") \/ OpTo(o, "uninstall"))
    BY <1>7 DEF LookAtVersion, CompareVersion
  <2> QED  BY <2>1 DEF gateVars, osVars
<1>8. ASSUME NEW o \in Operators, PassGate(o)
      PROVE  DeclineInv'
  BY <1>8 DEF PassGate, GateOpen, FirstCommand, osVars, callVars
<1>9. ASSUME NEW o \in Operators, Uninstall(o) \/ Install(o) \/ RemoveService(o)
      PROVE  DeclineInv'
  <2> DEFINE To(next) == /\ opPc' = [opPc EXCEPT ![o] = next]
                         /\ UNCHANGED <<operation_running, clicks, opUser, opClick>>
             Told(next) == \/ elevation_declined' = elevation_declined
                              /\ (turnedDown' => turnedDown)
                           \/ elevation_declined' = TRUE
                                /\ next \in {"failed", "leave"}
  <2>1. ASSUME NEW next, NEW left, Ran(o, next, left)
        PROVE  To(next) /\ Told(next)
    BY <2>1 DEF Ran, Ask, gateVars, callVars
  <2>2. ASSUME NEW next \in {"failed", "leave"}, Declines(o, next)
        PROVE  To(next) /\ Told(next)
    BY <2>2 DEF Declines, TellsDecline, callVars
  <2>3. ASSUME Uninstall(o)
        PROVE  \E next \in {"install", "failed"} : To(next) /\ Told(next)
    BY <2>1, <2>2, <2>3 DEF Uninstall
  <2>4. ASSUME Install(o)
        PROVE  \E next \in {"wait", "leave"} : To(next) /\ Told(next)
    BY <2>1, <2>2, <2>4 DEF Install
  <2>5. ASSUME RemoveService(o)
        PROVE  \E next \in {"removed", "leave"} : To(next) /\ Told(next)
    BY <2>1, <2>2, <2>5 DEF RemoveService
  <2>6. PICK next \in {"install", "failed", "wait", "removed", "leave"} :
          To(next) /\ Told(next)
    BY <1>9, <2>3, <2>4, <2>5
  <2>7. opPc[o] \in {"uninstall", "install", "remove"}
    BY <1>9 DEF Uninstall, Install, RemoveService
  <2>8. /\ opPc'[o] = next
        /\ \A q \in Operators \ {o} : opPc'[q] = opPc[q]
             /\ opPc[q] \notin Working
    BY <2>6, <2>7
  <2>9. OneOperation'
    BY <2>6, <2>7, <2>8
  <2>10. turnedDown' => elevation_declined'
    BY <2>6
  <2>11. ASSUME NEW q \in Operators, PastGate(q)', opPc'[q] # "failed"
         PROVE  ~turnedDown'
    <3>1. q = o
      BY <2>8, <2>11
    <3>2. PastGate(o) /\ opPc[o] # "failed" /\ next \notin {"failed", "leave"}
      BY <2>6, <2>7, <2>8, <2>11, <3>1
    <3> QED  BY <2>6, <3>2
  <2> QED  BY <2>6, <2>9, <2>10, <2>11
<1>10. ASSUME NEW r \in Readers, CallCurrent(r) \/ ReadCurrent(r)
       PROVE  DeclineInv'
  BY <1>10 DEF CallCurrent, ReadCurrent, LookIfRunning, ReadStatus, LookAgain,
     Await, Woken,
               reading, gateVars, osVars
<1> QED
  BY <1>1, <1>2, <1>3, <1>4, <1>5, <1>6, <1>7, <1>8, <1>9, <1>10
     DEF ServiceNext, Operation, AsksNobody

\* On Windows the background asks nothing more once the user has declined, not
\* even for the other half of a reinstallation (reinstall_service and
\* elevation_declined in core/service.rs).
THEOREM DeclinedIsDeclined ==
  Platform = "windows" => (ServiceSpec => []NoPromptAfterDecline)
<1> SUFFICES ASSUME Platform = "windows" PROVE ServiceSpec =>
                      []NoPromptAfterDecline
  OBVIOUS
<1>1. ServiceInit => DeclineInv
  BY DEF ServiceInit, DeclineInv, OneOperation, PastGate, Working
<1>2. DeclineInv /\ [ServiceNext]_serviceVars => DeclineInv'
  BY DeclineNextHolds
<1>3. DeclineInv => NoPromptAfterDecline
  BY DEF DeclineInv, NoPromptAfterDecline, Prompts, PastGate
<1> QED  BY <1>1, <1>2, <1>3, PTL DEF ServiceSpec
=============================================================================
