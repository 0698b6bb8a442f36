-------------------------- MODULE LifecycleProofs ---------------------------
(***************************************************************************)
(* Theorems about Lifecycle, for every number of callers and processes,    *)
(* both builds, with and without timeouts and for any number of retries.   *)
(***************************************************************************)
EXTENDS Lifecycle, TLAPS

-----------------------------------------------------------------------------
(* Types.                                                                  *)

LEMMA InitTypes == Init => TypeOK
<1> SUFFICES ASSUME Init PROVE TypeOK
  OBVIOUS
<1>1. attempt \in 0..(Retries - 1)
  BY BuildAssumption DEF Init
<1>2. op \in [Procs -> Ops] /\ pc \in [Procs -> Labels]
  BY DEF Init, Ops, Labels
<1>3. QED
  BY <1>1, <1>2 DEF Init, TypeOK, Modes

LEMMA NextTypes == TypeOK /\ [Next]_vars => TypeOK'
<1> SUFFICES ASSUME TypeOK, [Next]_vars PROVE TypeOK'
  OBVIOUS
<1> USE ProcsAssumption, BuildAssumption
        DEF TypeOK, Procs, Modes, Ops, Updates, Labels, Critical, Goto,
            Return, locks, core
<1>1. ASSUME NEW p \in Callers, NEW o \in {"start", "stop", "restart"},
             Call(p, o)
      PROVE  TypeOK'
  BY <1>1 DEF Call
<1>2. ASSUME NEW p \in Callers, NEW o \in Updates, TryUpdate(p, o)
      PROVE  TypeOK'
  BY <1>2 DEF TryUpdate
<1>3. ASSUME NEW p \in Callers, UpdateTimeout(p)
      PROVE  TypeOK'
  BY <1>3 DEF UpdateTimeout, Drop
<1>4. ASSUME NEW p \in Procs, Step(p)
      PROVE  TypeOK'
  <2>1. CASE Update(p)
    BY <2>1 DEF Update
  <2>2. CASE Lock(p)
    BY <2>2 DEF Lock, Entry
  <2>3. CASE Stop(p)
    BY <2>3 DEF Stop, AfterStop, StopSidecar
  <2>4. CASE StopService(p)
    BY <2>4 DEF StopService, AfterStop, Request
  <2>5. CASE Start(p)
    BY <2>5 DEF Start
  <2>6. CASE Prepare(p)
    BY <2>6 DEF Prepare
  <2>7. CASE Launch(p)
    BY <2>7 DEF Launch
  <2>8. CASE StartService(p)
    <3>1. service_core' \in BOOLEAN /\ ipc_fault' \in BOOLEAN
      BY <2>8 DEF StartService, Request
    <3>2. attempt' = attempt \/ (attempt' = attempt + 1 /\ attempt + 1 < Retries)
      BY <2>8 DEF StartService, ServiceFailed, RetryService
    <3>3. pc' \in [Procs -> Labels] /\ running_mode' \in Modes
      BY <2>8 DEF StartService, ServiceFailed, RetryService
    <3>4. QED
      BY <2>8, <3>1, <3>2, <3>3 DEF StartService
  <2>9. CASE SpawnSidecar(p)
    BY <2>9 DEF SpawnSidecar
  <2>10. CASE SidecarFailed(p)
    BY <2>10 DEF SidecarFailed
  <2>11. CASE Unlock(p)
    BY <2>11 DEF Unlock
  <2>12. CASE Unflag(p)
    BY <2>12 DEF Unflag
  <2>13. QED
    BY <1>4, <2>1, <2>2, <2>3, <2>4, <2>5, <2>6, <2>7, <2>8, <2>9, <2>10,
       <2>11, <2>12 DEF Step
<1>5. CASE Handoff
  <2>1. CASE Wake \/ NotReady \/ TryHandoff
    BY <2>1 DEF Wake, NotReady, TryHandoff
  <2>2. CASE Recheck
    <3>1. 0 \in 0..(Retries - 1)
      OBVIOUS
    <3>2. QED
      BY <2>2, <3>1 DEF Recheck, StopSidecar
  <2>3. QED
    BY <1>5, <2>1, <2>2 DEF Handoff
<1>6. CASE BeginQuit
  BY <1>6 DEF BeginQuit
<1>7. CASE QuitTimeout
  BY <1>7 DEF QuitTimeout, Drop
<1>8. CASE Exit
  BY <1>8 DEF Exit
<1>9. CASE SidecarDies
  BY <1>9 DEF SidecarDies
<1>10. CASE UNCHANGED vars
  BY <1>10 DEF vars
<1>11. QED
  BY <1>1, <1>2, <1>3, <1>4, <1>5, <1>6, <1>7, <1>8, <1>9, <1>10
     DEF Next, Running, Terminated

\* Every operation keeps the types; the attempts never exceed the retries.
THEOREM Typing == Spec => []TypeOK
BY InitTypes, NextTypes, PTL DEF Spec

-----------------------------------------------------------------------------
(* Lock and flag.                                                          *)

\* Which process can be where: only the watcher hands off, only quit() stops
\* for good, and an update remembers that it is one.
Roles ==
  /\ op[Watcher] = "handoff" /\ op[Quit] = "stop"
  /\ \A p \in Callers :
       /\ op[p] # "handoff"
       /\ pc[p] = "updating" => op[p] \in Updates
       /\ pc[p] \notin {"recheck", "sleep", "ready", "stopped", "timed_out",
                         "exited"}
  /\ pc[Watcher] \in {"idle", "sleep", "ready", "lock", "recheck",
                      "start_service", "start_sidecar", "unlock", "unflag"}
  /\ pc[Quit] \in {"idle", "lock", "stop", "stop_service", "unlock",
                   "stopped", "timed_out", "exited"}

LEMMA InitLocks == Init => Roles /\ LocksHeld
<1> SUFFICES ASSUME Init PROVE Roles /\ LocksHeld
  OBVIOUS
<1>1. \A p \in Procs : pc[p] = "idle"
  BY DEF Init
<1>2. /\ op[Watcher] = "handoff" /\ op[Quit] = "stop"
      /\ \A p \in Callers : op[p] = "none"
  BY ProcsAssumption DEF Init, Procs
<1>3. Roles
  BY <1>1, <1>2 DEF Roles, Procs
<1>4. LocksHeld
  BY <1>1, NoneAssumption
     DEF Init, LocksHeld, HoldsLock, HoldsFlag, Critical
<1>5. QED
  BY <1>3, <1>4

LEMMA NextRoles == TypeOK /\ Roles /\ [Next]_vars => Roles'
<1> SUFFICES ASSUME TypeOK, Roles, [Next]_vars PROVE Roles'
  OBVIOUS
<1> USE ProcsAssumption DEF TypeOK, Roles, Procs, Goto, Return
<1>1. ASSUME NEW p \in Callers, NEW o \in {"start", "stop", "restart"},
             Call(p, o)
      PROVE  Roles'
  BY <1>1 DEF Call
<1>2. ASSUME NEW p \in Callers, NEW o \in Updates, TryUpdate(p, o)
      PROVE  Roles'
  BY <1>2 DEF TryUpdate, Updates
<1>3. ASSUME NEW p \in Callers, UpdateTimeout(p)
      PROVE  Roles'
  BY <1>3 DEF UpdateTimeout, Drop
<1>4. ASSUME NEW p \in Procs, Step(p)
      PROVE  Roles'
  <2>1. CASE Update(p)
    BY <2>1 DEF Update
  <2>2. CASE Lock(p)
    BY <2>2 DEF Lock, Entry
  <2>3. CASE Stop(p)
    BY <2>3 DEF Stop, AfterStop
  <2>4. CASE StopService(p)
    BY <2>4 DEF StopService, AfterStop
  <2>5. CASE Start(p)
    BY <2>5 DEF Start
  <2>6. CASE Prepare(p)
    BY <2>6 DEF Prepare
  <2>7. CASE Launch(p)
    BY <2>7 DEF Launch
  <2>8. CASE StartService(p)
    BY <2>8 DEF StartService, ServiceFailed, RetryService
  <2>9. CASE SpawnSidecar(p)
    BY <2>9 DEF SpawnSidecar
  <2>10. CASE SidecarFailed(p)
    BY <2>10 DEF SidecarFailed
  <2>11. CASE Unlock(p)
    BY <2>11 DEF Unlock, Updates
  <2>12. CASE Unflag(p)
    BY <2>12 DEF Unflag
  <2>13. QED
    BY <1>4, <2>1, <2>2, <2>3, <2>4, <2>5, <2>6, <2>7, <2>8, <2>9, <2>10,
       <2>11, <2>12 DEF Step
<1>5. CASE Handoff
  BY <1>5 DEF Handoff, Wake, NotReady, TryHandoff, Recheck
<1>6. CASE BeginQuit
  BY <1>6 DEF BeginQuit
<1>7. CASE QuitTimeout
  BY <1>7 DEF QuitTimeout, Drop
<1>8. CASE Exit
  BY <1>8 DEF Exit
<1>9. CASE SidecarDies
  BY <1>9 DEF SidecarDies
<1>10. CASE UNCHANGED vars
  BY <1>10 DEF vars
<1>11. QED
  BY <1>1, <1>2, <1>3, <1>4, <1>5, <1>6, <1>7, <1>8, <1>9, <1>10
     DEF Next, Running, Terminated

\* Every step keeps lock and flag with the process that is inside.
LEMMA NextLocks ==
  TypeOK /\ Roles /\ LocksHeld /\ [Next]_vars => LocksHeld'
<1> SUFFICES ASSUME TypeOK, Roles, LocksHeld, [Next]_vars PROVE LocksHeld'
  OBVIOUS
<1> USE ProcsAssumption, NoneAssumption
        DEF TypeOK, Roles, LocksHeld, HoldsLock, HoldsFlag, Procs, Goto,
            Return, locks, Updates, Critical
<1>1. ASSUME NEW p \in Callers, NEW o \in {"start", "stop", "restart"},
             Call(p, o)
      PROVE  LocksHeld'
  BY <1>1 DEF Call
<1>2. ASSUME NEW p \in Callers, NEW o \in Updates, TryUpdate(p, o)
      PROVE  LocksHeld'
  BY <1>2 DEF TryUpdate
<1>3. ASSUME NEW p \in Callers, UpdateTimeout(p)
      PROVE  LocksHeld'
  <2>1. HoldsFlag(p) /\ p \in Procs
    BY <1>3 DEF UpdateTimeout, Drop
  <2>2. /\ pc' = [pc EXCEPT ![p] = "idle"]
        /\ op' = [op EXCEPT ![p] = "none"]
        /\ config_update_in_progress' = FALSE
        /\ lifecycle_lock' = IF lifecycle_lock = p THEN None ELSE lifecycle_lock
    BY <1>3 DEF UpdateTimeout, Drop
  <2>3. \A q \in Procs : ~HoldsFlag(q)'
    BY <2>1, <2>2
  <2>4. \A q \in Procs : HoldsLock(q)' <=> lifecycle_lock' = q
    BY <2>1, <2>2
  <2>5. QED
    BY <2>2, <2>3, <2>4
<1>4. ASSUME NEW p \in Procs, Step(p)
      PROVE  LocksHeld'
  <2>1. CASE Update(p)
    BY <2>1 DEF Update
  <2>2. CASE Lock(p)
    BY <2>2 DEF Lock, Entry
  <2>3. CASE Stop(p)
    BY <2>3 DEF Stop, AfterStop, StopSidecar
  <2>4. CASE StopService(p)
    BY <2>4 DEF StopService, AfterStop, Request
  <2>5. CASE Start(p)
    BY <2>5 DEF Start
  <2>6. CASE Prepare(p)
    BY <2>6 DEF Prepare
  <2>7. CASE Launch(p)
    BY <2>7 DEF Launch
  <2>8. CASE StartService(p)
    <3>1. /\ pc[p] = "start_service"
          /\ \/ pc' = pc
             \/ pc' = [pc EXCEPT ![p] = IF op[p] = "handoff"
                                       THEN "start_sidecar" ELSE "unlock"]
             \/ pc' = [pc EXCEPT ![p] = "unlock"]
          /\ UNCHANGED <<op, config_update_in_progress, lifecycle_lock>>
      BY <2>8 DEF StartService, ServiceFailed, RetryService
    <3>2. QED
      BY <3>1
  <2>9. CASE SpawnSidecar(p)
    <3>1. /\ pc[p] = "start_sidecar"
          /\ UNCHANGED <<op, config_update_in_progress, lifecycle_lock>>
      BY <2>9 DEF SpawnSidecar
    <3>2. CASE pc' = [pc EXCEPT ![p] = "unlock"]
      BY <3>1, <3>2
    <3>3. CASE /\ pc[Watcher] = "idle"
               /\ pc' = [pc EXCEPT ![p] = "unlock", ![Watcher] = "sleep"]
      <4>1. /\ pc'[p] = "unlock" /\ pc'[Watcher] = "sleep" /\ p # Watcher
            /\ \A q \in Procs \ {p, Watcher} : pc'[q] = pc[q]
        BY <3>1, <3>3
      <4>2. op' = op
        BY <3>1
      <4>3. ASSUME NEW q \in Procs
            PROVE  /\ HoldsLock(q)' <=> HoldsLock(q)
                   /\ HoldsFlag(q)' <=> HoldsFlag(q)
        <5>1. CASE q = p
          BY <3>1, <4>1, <4>2, <5>1
        <5>2. CASE q = Watcher
          BY <3>3, <4>1, <4>2, <5>2
        <5>3. CASE q \notin {p, Watcher}
          BY <4>1, <4>2, <5>3
        <5>4. QED
          BY <5>1, <5>2, <5>3
      <4>4. QED
        BY <3>1, <4>3
    <3>4. QED
      BY <2>9, <3>2, <3>3 DEF SpawnSidecar
  <2>10. CASE SidecarFailed(p)
    BY <2>10 DEF SidecarFailed
  <2>11. CASE Unlock(p)
    BY <2>11 DEF Unlock
  <2>12. CASE Unflag(p)
    BY <2>12 DEF Unflag
  <2>13. QED
    BY <1>4, <2>1, <2>2, <2>3, <2>4, <2>5, <2>6, <2>7, <2>8, <2>9, <2>10,
       <2>11, <2>12 DEF Step
<1>5. CASE Handoff
  BY <1>5 DEF Handoff, Wake, NotReady, TryHandoff, Recheck, StopSidecar
<1>6. CASE BeginQuit
  BY <1>6 DEF BeginQuit
<1>7. CASE QuitTimeout
  BY <1>7 DEF QuitTimeout, Drop
<1>8. CASE Exit
  BY <1>8 DEF Exit
<1>9. CASE SidecarDies
  BY <1>9 DEF SidecarDies
<1>10. CASE UNCHANGED vars
  BY <1>10 DEF vars
<1>11. QED
  BY <1>1, <1>2, <1>3, <1>4, <1>5, <1>6, <1>7, <1>8, <1>9, <1>10
     DEF Next, Running, Terminated

-----------------------------------------------------------------------------
(* The core the manager knows of.                                          *)

Starting == {"prepare", "launch", "start_service", "start_sidecar"}

\* While a core is being started there is none, as far as the manager can tell,
\* and while the service is asked to stop one there is no sidecar.
NothingToLose ==
  \A p \in Procs :
    /\ pc[p] \in Starting => /\ child_sidecar = None
                             /\ service_core => ipc_fault
    /\ pc[p] = "stop_service" => running_mode = "Service"

Known == NoOrphanCore /\ NothingToLose

LEMMA InitKnown == Init => Known
<1> SUFFICES ASSUME Init PROVE Known
  OBVIOUS
<1>1. \A p \in Procs : pc[p] = "idle"
  BY DEF Init
<1>2. QED
  BY <1>1 DEF Init, Known, NoOrphanCore, NothingToLose,
            Starting

\* A future that is dropped leaves a known core: what it asked the service for
\* last counts as failed.
LEMMA DropKnown ==
  ASSUME TypeOK, LocksHeld, Known, NEW p \in Procs,
         NEW to \in {"idle", "timed_out"}, Drop(p, to)
  PROVE  Known'
<1> USE DEF Known, NoOrphanCore, NothingToLose, Starting
<1>1. /\ pc'[p] = to /\ \A q \in Procs : q # p => pc'[q] = pc[q]
      /\ UNCHANGED <<child_sidecar, sidecars>>
  BY DEF Drop, TypeOK
<1>2. CASE UNCHANGED <<running_mode, service_core, ipc_fault>>
  BY <1>1, <1>2
<1>3. CASE /\ pc[p] = "stop_service"
           /\ running_mode' = "NotRunning"
           /\ ipc_fault' = TRUE
  <2>1. \A q \in Procs : q # p => pc[q] \notin {"stop_service"} \union Starting
    BY <1>3 DEF LocksHeld, HoldsLock, Critical
  <2>2. child_sidecar = None
    BY <1>3
  <2>3. QED
    BY <1>1, <1>3, <2>1, <2>2
<1>4. CASE pc[p] = "start_service" /\ ipc_fault' = TRUE /\ UNCHANGED running_mode
  BY <1>1, <1>4
<1>5. QED
  BY <1>2, <1>3, <1>4 DEF Drop

\* No step forgets a core: the lock keeps everybody else away between the stop
\* of a core and the start of the next one.
LEMMA NextKnown ==
  TypeOK /\ LocksHeld /\ Known /\ [Next]_vars => Known'
<1> SUFFICES ASSUME TypeOK, LocksHeld, Known, [Next]_vars PROVE Known'
  OBVIOUS
<1> USE NoneAssumption
        DEF TypeOK, LocksHeld, HoldsLock, Known, NoOrphanCore, NothingToLose,
            Starting, Procs, Goto, core, locks, Modes, Critical
<1>1. ASSUME NEW p \in Callers, NEW o \in {"start", "stop", "restart"},
             Call(p, o)
      PROVE  Known'
  BY <1>1 DEF Call
<1>2. ASSUME NEW p \in Callers, NEW o \in Updates, TryUpdate(p, o)
      PROVE  Known'
  BY <1>2 DEF TryUpdate
<1>3. ASSUME NEW p \in Callers, UpdateTimeout(p)
      PROVE  Known'
  BY <1>3, DropKnown DEF UpdateTimeout
<1>4. ASSUME NEW p \in Procs, Step(p)
      PROVE  Known'
  <2>1. CASE Update(p)
    BY <2>1 DEF Update
  <2>2. CASE Lock(p)
    BY <2>2 DEF Lock, Entry
  <2>3. CASE Stop(p)
    BY <2>3 DEF Stop, AfterStop, StopSidecar
  <2>4. CASE StopService(p)
    BY <2>4 DEF StopService, AfterStop, Request
  <2>5. CASE Start(p)
    BY <2>5 DEF Start
  <2>6. CASE Prepare(p)
    BY <2>6 DEF Prepare
  <2>7. CASE Launch(p)
    BY <2>7 DEF Launch
  <2>8. CASE StartService(p)
    <3>1. /\ pc[p] = "start_service"
          /\ UNCHANGED <<child_sidecar, sidecars>>
          /\ \E to \in {"start_service", "start_sidecar", "unlock"} :
               pc' = [pc EXCEPT ![p] = to]
      <4>1. pc = [pc EXCEPT ![p] = pc[p]]
        OBVIOUS
      <4>2. QED
        BY <2>8, <4>1 DEF StartService, ServiceFailed, RetryService
    <3>2. child_sidecar = None /\ sidecars = {} /\ (service_core => ipc_fault)
      BY <3>1
    <3>3. /\ pc'[p] \in {"start_service", "start_sidecar", "unlock"}
          /\ \A q \in Procs : q # p => pc'[q] = pc[q] /\ pc[q] \notin Critical
      BY <3>1
    <3>4. CASE UNCHANGED <<service_core, ipc_fault>>
      BY <3>1, <3>2, <3>3, <3>4
    <3>5. CASE ipc_fault'
      BY <3>1, <3>2, <3>3, <3>5
    <3>6. CASE ~ipc_fault' /\ running_mode' = "Service" /\ pc'[p] = "unlock"
      BY <3>1, <3>2, <3>3, <3>6
    <3>7. QED
      BY <2>8, <3>4, <3>5, <3>6
         DEF StartService, ServiceFailed, RetryService, Request
  <2>9. CASE SpawnSidecar(p)
    BY <2>9 DEF SpawnSidecar
  <2>10. CASE SidecarFailed(p)
    BY <2>10 DEF SidecarFailed
  <2>11. CASE Unlock(p)
    BY <2>11 DEF Unlock
  <2>12. CASE Unflag(p)
    BY <2>12 DEF Unflag
  <2>13. QED
    BY <1>4, <2>1, <2>2, <2>3, <2>4, <2>5, <2>6, <2>7, <2>8, <2>9, <2>10,
       <2>11, <2>12 DEF Step
<1>5. CASE Handoff
  BY <1>5 DEF Handoff, Wake, NotReady, TryHandoff, Recheck, StopSidecar
<1>6. CASE BeginQuit
  BY <1>6 DEF BeginQuit
<1>7. CASE QuitTimeout
  BY <1>7, DropKnown DEF QuitTimeout
<1>8. CASE Exit
  BY <1>8 DEF Exit
<1>9. CASE SidecarDies
  BY <1>9 DEF SidecarDies
<1>10. CASE UNCHANGED vars
  BY <1>10 DEF vars
<1>11. QED
  BY <1>1, <1>2, <1>3, <1>4, <1>5, <1>6, <1>7, <1>8, <1>9, <1>10
     DEF Next, Running, Terminated

-----------------------------------------------------------------------------
(* The end, and the mode.                                                  *)

\* Once quit() stopped the core, the mode is NotRunning and nobody is past the
\* first look at the exit flag.
Final ==
  /\ exiting <=> pc[Quit] # "idle"
  /\ pc[Quit] = "unlock" => running_mode = "NotRunning"
  /\ pc[Quit] = "stopped" =>
       /\ running_mode = "NotRunning"
       /\ \A p \in Procs : pc[p] \notin Starting \union {"stop_service"}

LEMMA InitFinal == Init => Final
BY DEF Init, Final, Procs

LEMMA NextFinal ==
  TypeOK /\ Roles /\ LocksHeld /\ Known /\ Final /\ [Next]_vars => Final'
<1> SUFFICES ASSUME TypeOK, Roles, LocksHeld, Known, Final, [Next]_vars PROVE Final'
  OBVIOUS
<1> USE ProcsAssumption, NoneAssumption
        DEF TypeOK, Roles, LocksHeld, HoldsLock, Known, NothingToLose, Final,
            Starting, Procs, Goto, core, locks, Critical
<1>1. ASSUME NEW p \in Callers, NEW o \in {"start", "stop", "restart"},
             Call(p, o)
      PROVE  Final'
  BY <1>1 DEF Call
<1>2. ASSUME NEW p \in Callers, NEW o \in Updates, TryUpdate(p, o)
      PROVE  Final'
  BY <1>2 DEF TryUpdate
<1>3. ASSUME NEW p \in Callers, UpdateTimeout(p)
      PROVE  Final'
  BY <1>3 DEF UpdateTimeout, Drop
<1>4. ASSUME NEW p \in Procs, Step(p)
      PROVE  Final'
  <2>1. CASE Update(p)
    BY <2>1 DEF Update
  <2>2. CASE Lock(p)
    BY <2>2 DEF Lock, Entry
  <2>3. CASE Stop(p)
    BY <2>3 DEF Stop, AfterStop, StopSidecar
  <2>4. CASE StopService(p)
    BY <2>4 DEF StopService, AfterStop, Request
  <2>5. CASE Start(p)
    BY <2>5 DEF Start
  <2>6. CASE Prepare(p)
    BY <2>6 DEF Prepare
  <2>7. CASE Launch(p)
    BY <2>7 DEF Launch
  <2>8. CASE StartService(p)
    BY <2>8 DEF StartService, ServiceFailed, RetryService, Request
  <2>9. CASE SpawnSidecar(p)
    BY <2>9 DEF SpawnSidecar
  <2>10. CASE SidecarFailed(p)
    BY <2>10 DEF SidecarFailed
  <2>11. CASE Unlock(p)
    BY <2>11 DEF Unlock
  <2>12. CASE Unflag(p)
    BY <2>12 DEF Unflag
  <2>13. QED
    BY <1>4, <2>1, <2>2, <2>3, <2>4, <2>5, <2>6, <2>7, <2>8, <2>9, <2>10,
       <2>11, <2>12 DEF Step
<1>5. CASE Handoff
  BY <1>5 DEF Handoff, Wake, NotReady, TryHandoff, Recheck, StopSidecar
<1>6. CASE BeginQuit
  BY <1>6 DEF BeginQuit
<1>7. CASE QuitTimeout
  BY <1>7 DEF QuitTimeout, Drop
<1>8. CASE Exit
  BY <1>8 DEF Exit
<1>9. CASE SidecarDies
  BY <1>9 DEF SidecarDies
<1>10. CASE UNCHANGED vars
  BY <1>10 DEF vars
<1>11. QED
  BY <1>1, <1>2, <1>3, <1>4, <1>5, <1>6, <1>7, <1>8, <1>9, <1>10
     DEF Next, Running, Terminated

\* What ModeTellsCore says, also while the lock is held, unless a core is just
\* being started.
ModeMatches ==
  (\A p \in Procs : pc[p] \notin Starting \ {"prepare"}) =>
    /\ running_mode = "Sidecar" <=> child_sidecar # None
    /\ running_mode = "Service" => service_core

LEMMA InitMode == Init => ModeMatches
BY DEF Init, ModeMatches

LEMMA NextMode ==
  ~Timeouts /\ TypeOK /\ Roles /\ LocksHeld /\ Known /\ ModeMatches /\ [Next]_vars => ModeMatches'
<1> SUFFICES ASSUME ~Timeouts, TypeOK, Roles, LocksHeld, Known, ModeMatches, [Next]_vars PROVE ModeMatches'
  OBVIOUS
<1> USE ProcsAssumption, NoneAssumption
        DEF TypeOK, Roles, LocksHeld, HoldsLock, Known, NoOrphanCore,
            NothingToLose, ModeMatches, Starting, Procs, Goto, core, locks, Critical
<1>1. ASSUME NEW p \in Callers, NEW o \in {"start", "stop", "restart"},
             Call(p, o)
      PROVE  ModeMatches'
  BY <1>1 DEF Call
<1>2. ASSUME NEW p \in Callers, NEW o \in Updates, TryUpdate(p, o)
      PROVE  ModeMatches'
  BY <1>2 DEF TryUpdate
<1>3. ASSUME NEW p \in Callers, UpdateTimeout(p)
      PROVE  ModeMatches'
  BY <1>3 DEF UpdateTimeout, Drop
<1>4. ASSUME NEW p \in Procs, Step(p)
      PROVE  ModeMatches'
  <2>1. CASE Update(p)
    BY <2>1 DEF Update
  <2>2. CASE Lock(p)
    BY <2>2 DEF Lock, Entry
  <2>3. CASE Stop(p)
    BY <2>3 DEF Stop, AfterStop, StopSidecar
  <2>4. CASE StopService(p)
    BY <2>4 DEF StopService, AfterStop, Request
  <2>5. CASE Start(p)
    BY <2>5 DEF Start
  <2>6. CASE Prepare(p)
    BY <2>6 DEF Prepare
  <2>7. CASE Launch(p)
    BY <2>7 DEF Launch
  <2>8. CASE StartService(p)
    BY <2>8 DEF StartService, ServiceFailed, RetryService, Request
  <2>9. CASE SpawnSidecar(p)
    BY <2>9 DEF SpawnSidecar
  <2>10. CASE SidecarFailed(p)
    BY <2>10 DEF SidecarFailed
  <2>11. CASE Unlock(p)
    BY <2>11 DEF Unlock
  <2>12. CASE Unflag(p)
    BY <2>12 DEF Unflag
  <2>13. QED
    BY <1>4, <2>1, <2>2, <2>3, <2>4, <2>5, <2>6, <2>7, <2>8, <2>9, <2>10,
       <2>11, <2>12 DEF Step
<1>5. CASE Handoff
  BY <1>5 DEF Handoff, Wake, NotReady, TryHandoff, Recheck, StopSidecar
<1>6. CASE BeginQuit
  BY <1>6 DEF BeginQuit
<1>7. CASE QuitTimeout
  <2>1. /\ pc' = [pc EXCEPT ![Quit] = "timed_out"]
        /\ pc[Quit] \notin Starting
        /\ child_sidecar' = child_sidecar
        /\ \/ UNCHANGED <<running_mode, service_core>>
           \/ pc[Quit] = "stop_service" /\ running_mode' = "NotRunning"
    BY <1>7 DEF QuitTimeout, Drop
  <2>2. \A p \in Procs : pc'[p] \in Starting <=> pc[p] \in Starting
    BY <2>1
  <2>3. CASE UNCHANGED <<running_mode, service_core>>
    BY <2>1, <2>3
  <2>4. CASE pc[Quit] = "stop_service" /\ running_mode' = "NotRunning"
    <3>1. child_sidecar = None
      BY <2>4
    <3>2. QED
      BY <2>1, <2>4, <3>1
  <2>5. QED
    BY <2>1, <2>3, <2>4
<1>8. CASE Exit
  BY <1>8 DEF Exit
<1>9. CASE SidecarDies
  BY <1>9 DEF SidecarDies
<1>10. CASE UNCHANGED vars
  BY <1>10 DEF vars
<1>11. QED
  BY <1>1, <1>2, <1>3, <1>4, <1>5, <1>6, <1>7, <1>8, <1>9, <1>10
     DEF Next, Running, Terminated
-----------------------------------------------------------------------------
(* The theorems.                                                           *)

Inductive == TypeOK /\ Roles /\ LocksHeld /\ Known /\ Final

LEMMA Invariance == Spec => []Inductive
<1>1. Init => Inductive
  BY InitTypes, InitLocks, InitKnown, InitFinal DEF Inductive
<1>2. Inductive /\ [Next]_vars => Inductive'
  BY NextTypes, NextRoles, NextLocks, NextKnown, NextFinal DEF Inductive
<1>3. QED
  BY <1>1, <1>2, PTL DEF Spec

\* The lock belongs to the process inside a core section and the flag to the
\* one update or handoff under way, whatever ended the ones before.
THEOREM Exclusion == Spec => []LocksHeld
BY Invariance, PTL DEF Inductive

\* CoreManager never loses a core, unless the service did not answer.
THEOREM NoCoreIsLost == Spec => []NoOrphanCore
BY Invariance, PTL DEF Inductive, Known

\* There are never two cores, unless the service did not answer.
THEOREM OneCore == Spec => []SingleCore
<1>1. TypeOK /\ NoOrphanCore => SingleCore
  BY NoneAssumption DEF TypeOK, NoOrphanCore, SingleCore
<1>2. Inductive => SingleCore
  BY <1>1 DEF Inductive, Known
<1>3. QED
  BY <1>2, Invariance, PTL

\* Nothing starts a core again after the stop of quit() returned.
THEOREM TheEndIsFinal == Spec => []QuitIsFinal
<1>1. Inductive => QuitIsFinal
  <2>1. SUFFICES ASSUME Inductive, pc[Quit] = "stopped" PROVE QuitIsFinal
    BY DEF QuitIsFinal
  <2>2. running_mode = "NotRunning"
    BY <2>1 DEF Inductive, Final
  <2>3. child_sidecar = None /\ (service_core => ipc_fault)
    BY <2>1, <2>2 DEF Inductive, Known, NoOrphanCore
  <2>4. sidecars = {}
    BY <2>1, <2>3, NoneAssumption DEF Inductive, TypeOK, Known, NoOrphanCore
  <2>5. QED
    BY <2>2, <2>3, <2>4 DEF QuitIsFinal
<1>2. QED
  BY <1>1, Invariance, PTL

\* As long as no caller bounds an update by a timeout, a start that started
\* nothing is always rolled back.
THEOREM StartsRollBack ==
  ASSUME ~Timeouts
  PROVE  Spec => []ModeTellsCore
<1>1. Init => Inductive /\ ModeMatches
  BY InitTypes, InitLocks, InitKnown, InitFinal, InitMode DEF Inductive
<1>2. Inductive /\ ModeMatches /\ [Next]_vars => Inductive' /\ ModeMatches'
  BY NextTypes, NextRoles, NextLocks, NextKnown, NextFinal, NextMode
     DEF Inductive
<1>3. Inductive /\ ModeMatches => ModeTellsCore
  BY NoneAssumption
     DEF Inductive, LocksHeld, HoldsLock, ModeMatches, ModeTellsCore, Starting,
         Critical
<1>4. QED
  BY <1>1, <1>2, <1>3, PTL DEF Spec

\* Mode and child change only by a step of the process holding the lock.
THEOREM OthersWait == Spec => OnlyHolderActs
<1>1. Inductive /\ [Next]_vars =>
        (<<running_mode, child_sidecar>>' # <<running_mode, child_sidecar>>
           => \E p \in Procs : lifecycle_lock = p /\ pc'[p] # pc[p])
  <2> SUFFICES ASSUME Inductive, [Next]_vars,
                      <<running_mode, child_sidecar>>'
                        # <<running_mode, child_sidecar>>
               PROVE  \E p \in Procs : lifecycle_lock = p /\ pc'[p] # pc[p]
    OBVIOUS
  <2> USE DEF Inductive, TypeOK, LocksHeld, HoldsLock, Critical, Goto, Procs,
              core, locks
  <2>1. ASSUME NEW p \in Procs, Step(p)
        PROVE  lifecycle_lock = p /\ pc'[p] # pc[p]
    <3>1. Stop(p) \/ StopService(p) \/ Prepare(p) \/ Launch(p)
            \/ StartService(p) \/ SpawnSidecar(p) \/ SidecarFailed(p)
      BY <2>1 DEF Step, Update, Lock, Start, Unlock, Unflag
    <3>2. CASE Stop(p) \/ StopService(p) \/ Prepare(p) \/ Launch(p)
      BY <3>2 DEF Stop, AfterStop, StopService, Prepare, Launch
    <3>3. CASE StartService(p)
      BY <3>3 DEF StartService, ServiceFailed, RetryService
    <3>4. CASE SpawnSidecar(p) \/ SidecarFailed(p)
      BY <3>4, ProcsAssumption DEF SpawnSidecar, SidecarFailed
    <3>5. QED
      BY <3>1, <3>2, <3>3, <3>4
  <2>2. ASSUME NEW p \in Procs, NEW to \in {"idle", "timed_out"}, Drop(p, to)
        PROVE  lifecycle_lock = p /\ pc'[p] # pc[p]
    BY <2>2 DEF Drop
  <2>3. CASE Recheck
    BY <2>3 DEF Recheck, StopSidecar
  <2>4. QED
    BY <2>1, <2>2, <2>3
       DEF Next, Running, Terminated, Handoff, Wake, NotReady, TryHandoff,
           Call, TryUpdate, UpdateTimeout, BeginQuit, QuitTimeout, Exit,
           SidecarDies, vars
<1>2. QED
  BY <1>1, Invariance, PTL DEF Spec, OnlyHolderActs

=============================================================================
