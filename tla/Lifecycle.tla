----------------------------- MODULE Lifecycle ------------------------------
(***************************************************************************)
(* The life of the proxy core (core/manager/{mod,lifecycle,state}.rs).     *)
(*                                                                         *)
(* CoreManager runs one mihomo core, either as a child process (sidecar)   *)
(* or through the privileged service.  start, stop and restart, the        *)
(* restart a config update falls back to, the Windows handoff from sidecar *)
(* to service and the stop of quit() are serialised by lifecycle_lock;     *)
(* updates and the handoff also hold config_update_in_progress, which is   *)
(* only ever tried.  Every label of pc is a point where the future may be  *)
(* suspended, or another thread may run in between.                        *)
(*                                                                         *)
(* The answers of the service manager, the TUN setting and the outcome of  *)
(* generating, validating and reloading a config are left open.            *)
(***************************************************************************)
EXTENDS Naturals

CONSTANTS
  Callers,    \* tasks calling into CoreManager: commands, timer, tray, ...
  Watcher,    \* the handoff watcher; idle while handoff_watcher_running is off
  Quit,       \* quit() or restart_app()
  Pids,       \* process ids
  None,       \* no child process; no holder of the lock
  Windows,    \* TRUE for the Windows build
  Timeouts,   \* TRUE if callers bound an update by a timeout
  Retries     \* SERVICE_START_RETRIES, 1 where there is no retry

Procs == Callers \union {Watcher, Quit}

ASSUME ProcsAssumption ==
  Watcher \notin Callers /\ Quit \notin Callers /\ Watcher # Quit
ASSUME NoneAssumption == None \notin Procs /\ None \notin Pids
ASSUME BuildAssumption ==
  Windows \in BOOLEAN /\ Timeouts \in BOOLEAN /\ Retries \in Nat \ {0}

VARIABLES
  running_mode,    \* State.running_mode
  child_sidecar,   \* State.child_sidecar
  sidecars,        \* sidecar processes alive in the operating system
  service_core,    \* TRUE if the service was told to run a core
  ipc_fault,       \* history: the last request to the service failed, so the
                   \* service may not be doing what the manager thinks
  config_update_in_progress,
  lifecycle_lock,  \* the holder of the lock
  attempt,         \* attempts of start_core_by_service that failed so far
  exiting,         \* Handle.is_exiting
  op,              \* what each process was called for
  pc

vars == <<running_mode, child_sidecar, sidecars, service_core, ipc_fault,
          config_update_in_progress, lifecycle_lock, attempt, exiting, op, pc>>
core == <<running_mode, child_sidecar, sidecars, service_core, ipc_fault>>
locks == <<config_update_in_progress, lifecycle_lock>>

Modes == {"NotRunning", "Sidecar", "Service"}
Updates == {"update", "update_runtime"}
Ops == {"start", "stop", "restart", "handoff", "none"} \union Updates
Critical == {"recheck", "stop", "stop_service", "start", "prepare", "launch",
             "start_service", "start_sidecar", "unlock"}
Labels == Critical \union
  {"idle", "updating", "sleep", "ready", "lock", "unflag", "stopped",
   "timed_out", "exited"}

Init ==
  /\ running_mode = "NotRunning"
  /\ child_sidecar = None
  /\ sidecars = {}
  /\ service_core = FALSE
  /\ ipc_fault = FALSE
  /\ config_update_in_progress = FALSE
  /\ lifecycle_lock = None
  /\ attempt = 0
  /\ exiting = FALSE
  /\ op = [p \in Procs |-> IF p = Watcher THEN "handoff"
                           ELSE IF p = Quit THEN "stop" ELSE "none"]
  /\ pc = [p \in Procs |-> "idle"]

Goto(p, from, to) ==
  /\ pc[p] = from
  /\ pc' = [pc EXCEPT ![p] = to]

\* What is left of a call that returned.
Return(p) == op' = [op EXCEPT ![p] = IF p \in Callers THEN "none" ELSE @]

-----------------------------------------------------------------------------
(* Calls into the manager.                                                 *)

\* start_core, stop_core and restart_core wait for the lock at once.
Call(p, o) ==
  /\ Goto(p, "idle", "lock")
  /\ op' = [op EXCEPT ![p] = o]
  /\ UNCHANGED <<core, locks, attempt, exiting>>

\* update_config_with_force, which refuses while the program exits, and
\* update_runtime_config, which does not; both give up when they are Busy.
TryUpdate(p, o) ==
  /\ o = "update" => ~exiting
  /\ ~config_update_in_progress
  /\ config_update_in_progress' = TRUE
  /\ Goto(p, "idle", "updating")
  /\ op' = [op EXCEPT ![p] = o]
  /\ UNCHANGED <<core, lifecycle_lock, attempt, exiting>>

\* Generating, validating and reloading: it ends the update, or the reload
\* failed and the core is restarted under the same flag.
Update(p) ==
  /\ \E to \in {"unflag", "lock"} : Goto(p, "updating", to)
  /\ UNCHANGED <<core, locks, attempt, exiting, op>>

\* The core section the process holds the lock for.
Entry(p) ==
  CASE op[p] = "start" -> "start"
    [] op[p] = "handoff" -> "recheck"
    [] OTHER -> "stop"

Lock(p) ==
  /\ lifecycle_lock = None
  /\ Goto(p, "lock", Entry(p))
  /\ lifecycle_lock' = p
  /\ UNCHANGED <<core, config_update_in_progress, attempt, exiting, op>>

\* The guard is dropped when the section returns; an update and a handoff
\* still hold the flag then.
Unlock(p) ==
  /\ Goto(p, "unlock", IF op[p] \in Updates \union {"handoff"} THEN "unflag"
                       ELSE IF p = Quit THEN "stopped" ELSE "idle")
  /\ lifecycle_lock' = None
  /\ IF pc'[p] = "unflag" THEN UNCHANGED op ELSE Return(p)
  /\ UNCHANGED <<core, config_update_in_progress, attempt, exiting>>

Unflag(p) ==
  /\ Goto(p, "unflag", "idle")
  /\ config_update_in_progress' = FALSE
  /\ Return(p)
  /\ UNCHANGED <<core, lifecycle_lock, attempt, exiting>>

-----------------------------------------------------------------------------
(* stop_core_inner.                                                        *)

\* Mutant of StopSidecar: the child is forgotten and not killed.
ForgetSidecar ==
  /\ child_sidecar' = None
  /\ running_mode' = "NotRunning"
  /\ UNCHANGED <<sidecars, service_core, ipc_fault>>

\* Killing the child is taken to succeed; the code only logs what it answers.
StopSidecar ==
  /\ sidecars' = sidecars \ {child_sidecar}
  /\ child_sidecar' = None
  /\ running_mode' = "NotRunning"
  /\ UNCHANGED <<service_core, ipc_fault>>

AfterStop(p) == IF op[p] = "stop" THEN "unlock" ELSE "start"

Stop(p) ==
  /\ \/ /\ running_mode = "Service"
        /\ Goto(p, "stop", "stop_service")
        /\ UNCHANGED core
     \/ /\ running_mode = "Sidecar"
        /\ Goto(p, "stop", AfterStop(p))
        /\ StopSidecar
     \/ /\ running_mode = "NotRunning"
        /\ Goto(p, "stop", AfterStop(p))
        /\ UNCHANGED core
  /\ UNCHANGED <<locks, attempt, exiting, op>>

\* A request to the service that fails may have been carried out or not.
Request(wanted) ==
  \/ service_core' = wanted /\ ipc_fault' = FALSE
  \/ service_core' \in {service_core, wanted} /\ ipc_fault' = TRUE

\* The mode is cleared whatever the service answers; an error ends a restart.
StopService(p) ==
  /\ Request(FALSE)
  /\ Goto(p, "stop_service", IF ipc_fault' THEN "unlock" ELSE AfterStop(p))
  /\ running_mode' = "NotRunning"
  /\ UNCHANGED <<child_sidecar, sidecars, locks, attempt, exiting, op>>

-----------------------------------------------------------------------------
(* start_core_inner.                                                       *)

\* Mutant of Start: a running core is no reason to return.
StartAnother(p) ==
  /\ Goto(p, "start", IF exiting THEN "unlock" ELSE "prepare")
  /\ UNCHANGED <<core, locks, attempt, exiting, op>>

Start(p) ==
  /\ Goto(p, "start", IF exiting \/ running_mode # "NotRunning"
                        THEN "unlock" ELSE "prepare")
  /\ UNCHANGED <<core, locks, attempt, exiting, op>>

\* Once the wait for the service is over, the mode is set to what is going to
\* be started.
Prepare(p) ==
  /\ Goto(p, "prepare", "launch")
  /\ running_mode' \in {"Service", "Sidecar"}
  /\ attempt' = 0
  /\ UNCHANGED <<child_sidecar, sidecars, service_core, ipc_fault, locks,
                 exiting, op>>

\* The second look at the exit flag.
Launch(p) ==
  /\ \/ /\ exiting
        /\ Goto(p, "launch", "unlock")
        /\ running_mode' = "NotRunning"
     \/ /\ ~exiting
        /\ Goto(p, "launch", IF running_mode = "Service" THEN "start_service"
                             ELSE "start_sidecar")
        /\ UNCHANGED running_mode
  /\ UNCHANGED <<child_sidecar, sidecars, service_core, ipc_fault, locks,
                 attempt, exiting, op>>

\* start_core_by_service failed for good: a start rolls the mode back, a
\* handoff starts the sidecar again.
ServiceFailed(p) ==
  /\ Goto(p, "start_service",
          IF op[p] = "handoff" THEN "start_sidecar" ELSE "unlock")
  /\ running_mode' = "NotRunning"
  /\ UNCHANGED attempt

RetryService(p) ==
  /\ pc[p] = "start_service"
  /\ attempt + 1 < Retries
  /\ attempt' = attempt + 1
  /\ UNCHANGED <<running_mode, pc>>

\* start_core_by_service: the run config cannot be written, or the service is
\* not ready and no request is sent, or one is sent and answered or not.
StartService(p) ==
  /\ \/ /\ UNCHANGED <<service_core, ipc_fault>>
        /\ \/ ServiceFailed(p) /\ attempt \in {0, Retries - 1}
           \/ RetryService(p)
     \/ /\ Request(TRUE)
        /\ \/ /\ ~ipc_fault'
              /\ Goto(p, "start_service", "unlock")
              /\ running_mode' = "Service"
              /\ UNCHANGED attempt
           \/ /\ ipc_fault'
              /\ \/ ServiceFailed(p) /\ attempt = Retries - 1
                 \/ RetryService(p)
  /\ UNCHANGED <<child_sidecar, sidecars, locks, exiting, op>>

\* start_core_by_sidecar: the process is spawned, recorded and the mode set
\* without a suspension in between; then TUN mode spawns the watcher.
SpawnSidecar(p) ==
  /\ \E pid \in Pids \ sidecars :
       /\ sidecars' = sidecars \union {pid}
       /\ child_sidecar' = pid
  /\ running_mode' = "Sidecar"
  /\ \/ Goto(p, "start_sidecar", "unlock")
     \/ /\ Windows
        /\ op[p] # "handoff"
        /\ pc[Watcher] = "idle"
        /\ pc[p] = "start_sidecar"
        /\ pc' = [pc EXCEPT ![p] = "unlock", ![Watcher] = "sleep"]
  /\ UNCHANGED <<service_core, ipc_fault, locks, attempt, exiting, op>>

\* The run config, the spawn or the Job Object failed; a child that was
\* spawned is killed.
SidecarFailed(p) ==
  /\ Goto(p, "start_sidecar", "unlock")
  /\ running_mode' = "NotRunning"
  /\ UNCHANGED <<child_sidecar, sidecars, service_core, ipc_fault, locks,
                 attempt, exiting, op>>

-----------------------------------------------------------------------------
(* The handoff watcher.                                                    *)

\* The interval is over: the window has elapsed, the mode is no longer
\* Sidecar, or the service is asked for.
Wake ==
  /\ \/ Goto(Watcher, "sleep", "idle")
     \/ running_mode = "Sidecar" /\ Goto(Watcher, "sleep", "ready")
  /\ UNCHANGED <<core, locks, attempt, exiting, op>>

\* The service is not ready, or another update holds the flag.
NotReady ==
  /\ Goto(Watcher, "ready", "sleep")
  /\ UNCHANGED <<core, locks, attempt, exiting, op>>

\* Mutant of TryHandoff: the flag is taken, the lifecycle lock is not.
HandoffUnlocked ==
  /\ ~config_update_in_progress
  /\ config_update_in_progress' = TRUE
  /\ Goto(Watcher, "ready", "recheck")
  /\ UNCHANGED <<core, lifecycle_lock, attempt, exiting, op>>

TryHandoff ==
  /\ ~config_update_in_progress
  /\ config_update_in_progress' = TRUE
  /\ Goto(Watcher, "ready", "lock")
  /\ UNCHANGED <<core, lifecycle_lock, attempt, exiting, op>>

\* Mutant of Recheck: what was seen before the lock is taken to hold still.
HandoffUnchecked ==
  /\ Goto(Watcher, "recheck", "start_service")
  /\ StopSidecar
  /\ attempt' = 0
  /\ UNCHANGED <<locks, exiting, op>>

\* Under the lock the mode, and the TUN setting, are looked at again.
Recheck ==
  /\ \/ Goto(Watcher, "recheck", "unlock") /\ UNCHANGED <<core, attempt>>
     \/ /\ running_mode = "Sidecar"
        /\ Goto(Watcher, "recheck", "start_service")
        /\ StopSidecar
        /\ attempt' = 0
  /\ UNCHANGED <<locks, exiting, op>>

-----------------------------------------------------------------------------
(* Timeouts and the end of the program.                                    *)

\* Mutant of Drop: the lock is not released by a guard.
DropHolding(p, to) ==
  /\ pc' = [pc EXCEPT ![p] = to]
  /\ \/ /\ pc[p] \in {"updating", "lock", "stop", "prepare", "start_sidecar"}
        /\ UNCHANGED <<running_mode, service_core, ipc_fault>>
     \/ /\ pc[p] = "stop_service"
        /\ running_mode' = "NotRunning"
        /\ service_core' \in {service_core, FALSE}
        /\ ipc_fault' = TRUE
     \/ /\ pc[p] = "start_service"
        /\ service_core' \in {service_core, TRUE}
        /\ ipc_fault' = TRUE
        /\ UNCHANGED running_mode
  /\ Return(p)
  /\ UNCHANGED <<child_sidecar, sidecars, lifecycle_lock, attempt>>

\* The future of p is dropped where it waits: its guards are released, and
\* stop_core_by_service clears the mode; nothing else is rolled back.  The
\* request that was being waited for may have reached the service.
Drop(p, to) ==
  /\ pc' = [pc EXCEPT ![p] = to]
  /\ lifecycle_lock' = IF lifecycle_lock = p THEN None ELSE lifecycle_lock
  /\ \/ /\ pc[p] \in {"updating", "lock", "stop", "prepare", "start_sidecar"}
        /\ UNCHANGED <<running_mode, service_core, ipc_fault>>
     \/ /\ pc[p] = "stop_service"
        /\ running_mode' = "NotRunning"
        /\ service_core' \in {service_core, FALSE}
        /\ ipc_fault' = TRUE
     \/ /\ pc[p] = "start_service"
        /\ service_core' \in {service_core, TRUE}
        /\ ipc_fault' = TRUE
        /\ UNCHANGED running_mode
  /\ Return(p)
  /\ UNCHANGED <<child_sidecar, sidecars, attempt>>

\* An update of the profile switch (30 s) or of the timer (40 s) takes longer.
UpdateTimeout(p) ==
  /\ Timeouts
  /\ op[p] = "update"
  /\ Drop(p, "idle")
  /\ config_update_in_progress' = FALSE
  /\ UNCHANGED exiting

BeginQuit ==
  /\ Goto(Quit, "idle", "lock")
  /\ exiting' = TRUE
  /\ UNCHANGED <<core, locks, attempt, op>>

\* quit() does not wait for stop_core longer than two or three seconds.
QuitTimeout ==
  /\ Drop(Quit, "timed_out")
  /\ UNCHANGED <<config_update_in_progress, exiting>>

\* The process ends; Windows closes the Job Object and kills the sidecar.
Exit ==
  /\ pc[Quit] \in {"stopped", "timed_out"}
  /\ pc' = [pc EXCEPT ![Quit] = "exited"]
  /\ sidecars' = IF Windows THEN {} ELSE sidecars
  /\ UNCHANGED <<running_mode, child_sidecar, service_core, ipc_fault, locks,
                 attempt, exiting, op>>

\* The sidecar terminates on its own; the manager only logs it.
SidecarDies ==
  /\ \E pid \in sidecars : sidecars' = sidecars \ {pid}
  /\ UNCHANGED <<running_mode, child_sidecar, service_core, ipc_fault, locks,
                 attempt, exiting, op, pc>>

-----------------------------------------------------------------------------

\* What a process does once it was called.
Step(p) ==
  \/ Update(p)
  \/ Lock(p)
  \/ Stop(p)
  \/ StopService(p)
  \/ Start(p)
  \/ Prepare(p)
  \/ Launch(p)
  \/ StartService(p)
  \/ SpawnSidecar(p)
  \/ SidecarFailed(p)
  \/ Unlock(p)
  \/ Unflag(p)

Handoff ==
  \/ Wake
  \/ NotReady
  \/ TryHandoff
  \/ Recheck

Running ==
  \/ \E p \in Callers :
       \/ \E o \in {"start", "stop", "restart"} : Call(p, o)
       \/ \E o \in Updates : TryUpdate(p, o)
       \/ UpdateTimeout(p)
  \/ \E p \in Procs : Step(p)
  \/ Handoff
  \/ BeginQuit
  \/ QuitTimeout
  \/ Exit
  \/ SidecarDies

Alive == pc[Quit] # "exited"

Terminated == ~Alive /\ UNCHANGED vars

Next ==
  \/ Alive /\ Running
  \/ Terminated

Spec == Init /\ [][Next]_vars

\* The runtime polls every future that can make progress, requests and waits
\* come to an end, and lifecycle_lock is a tokio Mutex, whose waiters are
\* served in turn.  Nothing is assumed of the calls, of the timeouts or of how
\* long the watcher watches.
FairSpec ==
  /\ Spec
  /\ \A p \in Procs :
       WF_vars(Alive /\ Step(p)) /\ SF_vars(Alive /\ Lock(p))
  /\ WF_vars(Alive /\ Recheck)

-----------------------------------------------------------------------------

TypeOK ==
  /\ running_mode \in Modes
  /\ child_sidecar \in Pids \union {None}
  /\ sidecars \subseteq Pids
  /\ service_core \in BOOLEAN
  /\ ipc_fault \in BOOLEAN
  /\ config_update_in_progress \in BOOLEAN
  /\ lifecycle_lock \in Procs \union {None}
  /\ attempt \in 0..(Retries - 1)
  /\ exiting \in BOOLEAN
  /\ op \in [Procs -> Ops]
  /\ pc \in [Procs -> Labels]

HoldsLock(p) == pc[p] \in Critical

HoldsFlag(p) ==
  \/ pc[p] \in {"updating", "unflag"}
  \/ op[p] \in Updates \union {"handoff"} /\ pc[p] \in Critical \union {"lock"}

\* The lock belongs to the one process inside a core section, and the flag is
\* set exactly while one update or handoff is under way: neither is ever left
\* behind, on whichever of the error, timeout and fallback paths they end.
LocksHeld ==
  /\ \A p \in Procs : HoldsLock(p) <=> lifecycle_lock = p
  /\ config_update_in_progress <=> \E p \in Procs : HoldsFlag(p)
  /\ \A p, q \in Procs : HoldsFlag(p) /\ HoldsFlag(q) => p = q

\* Stop and start of a restart, and the handoff, are not interleaved with
\* another operation: mode and child are only changed by a step of the process
\* that holds the lock.
OnlyHolderActs ==
  [][<<running_mode, child_sidecar>>' # <<running_mode, child_sidecar>>
       => \E p \in Procs : lifecycle_lock = p /\ pc'[p] # pc[p]]_vars

\* No core runs that the manager does not know of: a live sidecar is the
\* recorded child, which is recorded in sidecar mode only, and the service
\* runs a core in service mode only, unless a request to it failed.
NoOrphanCore ==
  /\ sidecars \subseteq {child_sidecar}
  /\ child_sidecar # None => running_mode = "Sidecar"
  /\ service_core => running_mode = "Service" \/ ipc_fault

\* Two cores never run at once, which would fight for the ports and the
\* controller socket, unless a request to the service failed.
SingleCore ==
  /\ \A pid1, pid2 \in sidecars : pid1 = pid2
  /\ sidecars # {} /\ service_core => ipc_fault

\* Once the stop of quit() has returned no core runs and none is started until
\* the program ends, whatever was waiting for the lock or watching.
QuitIsFinal ==
  pc[Quit] = "stopped" =>
    /\ sidecars = {}
    /\ service_core => ipc_fault
    /\ running_mode = "NotRunning"

\* Between two operations the mode says whether there is a core to talk to or
\* to stop: a start that did not start anything has been rolled back, so that
\* the next start is not taken for a repeated one.
ModeTellsCore ==
  lifecycle_lock = None =>
    /\ running_mode = "Sidecar" <=> child_sidecar # None
    /\ running_mode = "Service" => service_core

\* Every operation that is waiting or under way comes to its end: flag and
\* lock are never waited for in a circle.
EveryOpReturns ==
  \A p \in Callers \union {Quit} :
    pc[p] = "lock" \/ HoldsLock(p) \/ HoldsFlag(p) ~>
      \/ pc[p] \in {"idle", "stopped", "timed_out"}
      \/ ~Alive

=============================================================================
