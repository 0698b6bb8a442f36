------------------------------ MODULE Service -------------------------------
(***************************************************************************)
(* The manager of the privileged service (core/service.rs).                *)
(*                                                                         *)
(* One operation at a time installs, removes or replaces the service; the  *)
(* user is asked for administrator rights each time a command is run.  The *)
(* background (starting the core, the watcher that hands the core over)    *)
(* may ask once in a run of the program, and not after the user declined;  *)
(* a click in the settings opens the gate again.  current() waits for the  *)
(* operation under way.                                                    *)
(***************************************************************************)
EXTENDS Naturals

CONSTANTS
  Operators,   \* refresh and the commands of the settings, under way
  Readers,     \* callers of current()
  Platform,    \* "windows", "linux" or "macos"
  MaxOps       \* bound: operations, calls of init and of current()

Clicks == {"Install", "Uninstall", "Reinstall", "Repair"}

VARIABLES
  status,             \* ServiceManager.status
  operation_running,
  notified,           \* the readers whose operation_done was notified
  elevation_used, elevation_declined,
  service,            \* what is installed: nothing, an old version, this one
  opPc, opJob, opUser,   \* where an operator is, at what, and for whom
  opClick,            \* history: the number of clicks when it began
  readPc, readStatus, \* readers
  clicks,             \* history: clicks so far
  asked,              \* history: the background has asked since the last click
  turnedDown,         \* history: the user has declined since the last click
  ops                 \* bounded by MaxOps

serviceVars ==
  <<status, operation_running, notified, elevation_used, elevation_declined,
    service, opPc, opJob, opUser, opClick, readPc, readStatus, clicks, asked,
    turnedDown, ops>>
osVars == <<service, clicks, asked, turnedDown>>
gateVars == <<elevation_used, elevation_declined>>
readVars == <<notified, readPc, readStatus>>
callVars == <<opJob, opUser, opClick, ops>>

ServiceInit ==
  /\ status = "Unavailable"
  /\ operation_running = FALSE /\ notified = {}
  /\ elevation_used = FALSE /\ elevation_declined = FALSE
  /\ service = "old"
  /\ opPc = [o \in Operators |-> "idle"]
  /\ opJob = [o \in Operators |-> "Ready"]
  /\ opUser = [o \in Operators |-> FALSE]
  /\ opClick = [o \in Operators |-> 0]
  /\ readPc = [r \in Readers |-> "idle"]
  /\ readStatus = [r \in Readers |-> "Unavailable"]
  /\ clicks = 0 /\ asked = FALSE /\ turnedDown = FALSE
  /\ ops = 0

OpAt(o, label) == opPc[o] = label
OpTo(o, label) == opPc' = [opPc EXCEPT ![o] = label]

-----------------------------------------------------------------------------
(* Operations.                                                             *)

\* refresh, in the background.
Refresh(o) ==
  /\ OpAt(o, "idle") /\ ops < MaxOps
  /\ ops' = ops + 1
  /\ opUser' = [opUser EXCEPT ![o] = FALSE]
  /\ opJob' = [opJob EXCEPT ![o] = "Refresh"]
  /\ opClick' = [opClick EXCEPT ![o] = clicks]
  /\ OpTo(o, "enter")
  /\ UNCHANGED <<status, operation_running, gateVars, osVars, readVars>>

\* handle_service_status: the click opens the gate, before it is known whether
\* the operation can run.
Click(o, job) ==
  /\ OpAt(o, "idle") /\ ops < MaxOps
  /\ ops' = ops + 1
  /\ elevation_used' = FALSE /\ elevation_declined' = FALSE
  /\ opUser' = [opUser EXCEPT ![o] = TRUE]
  /\ opJob' = [opJob EXCEPT ![o] = job]
  /\ opClick' = [opClick EXCEPT ![o] = clicks + 1]
  /\ clicks' = clicks + 1 /\ asked' = FALSE /\ turnedDown' = FALSE
  /\ OpTo(o, "enter")
  /\ UNCHANGED <<status, operation_running, service, readVars>>

\* run_operation
EnterOperation(o) ==
  /\ OpAt(o, "enter")
  /\ operation_running' = TRUE
  /\ OpTo(o, IF operation_running THEN "idle" ELSE "look")
  /\ UNCHANGED <<status, gateVars, osVars, readVars, callVars>>

\* is_reinstall_service_needed: what the version says, or that the service of
\* this version did not answer.
ReinstallNeeded(answer) == answer \in {TRUE, service # "current"}

LookAtVersion(o) ==
  /\ OpAt(o, "look")
  /\ \E needed \in {n \in BOOLEAN : ReinstallNeeded(n)} :
       opJob' = [opJob EXCEPT ![o] =
                   IF @ # "Refresh" THEN @
                   ELSE IF needed THEN "NeedsReinstall" ELSE "Ready"]
  /\ OpTo(o, "gate")
  /\ UNCHANGED <<status, operation_running, gateVars, osVars, readVars, opUser,
                 opClick, ops>>

\* Mutant of GateOpen: the background may ask every time.
GateAjar == ~elevation_declined

\* acquire_auto_elevation
GateOpen == ~elevation_declined /\ ~elevation_used

FirstCommand(job) ==
  CASE job = "Ready" -> "leave"
    [] job = "Install" -> "install"
    [] job = "Uninstall" -> "remove"
    [] OTHER -> "uninstall"

\* apply_service_status: the gate is for the background alone.
PassGate(o) ==
  LET asks == ~opUser[o] /\ opJob[o] # "Ready"
  IN /\ OpAt(o, "gate")
     /\ elevation_used' = (elevation_used \/ (asks /\ ~elevation_declined))
     /\ IF asks /\ ~GateOpen
        THEN status' = "Unavailable" /\ OpTo(o, "leave")
        ELSE status' = opJob[o] /\ OpTo(o, FirstCommand(opJob[o]))
     /\ UNCHANGED <<operation_running, elevation_declined, osVars, readVars,
                    callVars>>

\* The user is asked.  The clicks since the operation began are another turn.
Ask(o, declines) ==
  LET sameTurn == opClick[o] = clicks
  IN /\ asked' = (asked \/ (~opUser[o] /\ sameTurn))
     /\ turnedDown' = (turnedDown \/ (declines /\ sameTurn))

Ran(o, next, left) ==
  /\ service' = left
  /\ OpTo(o, next)
  /\ Ask(o, FALSE)
  /\ UNCHANGED <<status, operation_running, gateVars, readVars, callVars, clicks>>

\* uninstall_service and install_service as the platform has them: which
\* commands can tell that the user declined from any other failure.  On Linux
\* pkexec can, but its failure is followed by sudo, whose exit status is
\* another one.
TellsDecline(command) ==
  CASE Platform = "windows" -> TRUE
    [] Platform = "macos" -> command = "install"
    [] Platform = "linux" -> FALSE

Declines(o, next) ==
  LET told == TellsDecline(IF OpAt(o, "install") THEN "install" ELSE "uninstall")
  IN /\ elevation_declined' = (elevation_declined \/ told)
     /\ OpTo(o, next)
     /\ Ask(o, TRUE)
     /\ UNCHANGED <<status, operation_running, elevation_used, service, clicks,
                    readVars, callVars>>

\* The first half of reinstall_service.
Uninstall(o) ==
  /\ OpAt(o, "uninstall")
  /\ \/ Ran(o, "install", "none")
     \/ Ran(o, "failed", service)
     \/ Declines(o, "failed")

\* Mutant of AfterFailure: the second half comes in any case.
AfterAnyFailure == "install"

AfterFailure == IF elevation_declined THEN "leave" ELSE "install"

\* A failed removal does not keep it from installing, unless it was declined.
UninstallFailed(o) ==
  /\ OpAt(o, "failed")
  /\ OpTo(o, AfterFailure)
  /\ UNCHANGED <<status, operation_running, gateVars, osVars, readVars, callVars>>

Install(o) ==
  /\ OpAt(o, "install")
  /\ \/ \E version \in {"old", "current"} : Ran(o, "wait", version)
     \/ Ran(o, "leave", service)
     \/ Declines(o, "leave")

\* UninstallRequired
RemoveService(o) ==
  /\ OpAt(o, "remove")
  /\ \/ Ran(o, "removed", "none")
     \/ Ran(o, "leave", service)
     \/ Declines(o, "leave")

Removed(o) ==
  /\ OpAt(o, "removed")
  /\ status' = "Unavailable"
  /\ OpTo(o, "leave")
  /\ UNCHANGED <<operation_running, gateVars, osVars, readVars, callVars>>

\* wait_for_service_ipc; after an installation the version is looked at again.
WaitForIpc(o) ==
  /\ OpAt(o, "wait")
  /\ \/ status' = "Unavailable" /\ OpTo(o, "leave")
     \/ status' = "Ready"
        /\ OpTo(o, IF opJob[o] = "Install" THEN "compare" ELSE "leave")
  /\ UNCHANGED <<operation_running, gateVars, osVars, readVars, callVars>>

CompareVersion(o) ==
  /\ OpAt(o, "compare")
  /\ \/ /\ ReinstallNeeded(FALSE)
        /\ OpTo(o, "leave") /\ UNCHANGED <<status, opJob>>
     \/ /\ status' = "NeedsReinstall"
        /\ opJob' = [opJob EXCEPT ![o] = "NeedsReinstall"]
        /\ OpTo(o, "uninstall")
  /\ UNCHANGED <<operation_running, gateVars, osVars, readVars, opUser, opClick,
                 ops>>

\* The operation is over, on every path; those who wait are told afterwards.
LeaveOperation(o) ==
  /\ OpAt(o, "leave")
  /\ operation_running' = FALSE
  /\ OpTo(o, "notify")
  /\ UNCHANGED <<status, gateVars, osVars, readVars, callVars>>

\* Mutant of Listeners: only those who wait already, as if the future was
\* created where it is awaited.
ListenersLate == {r \in Readers : readPc[r] = "wait"}

\* operation_done.notified() is created before anything is looked at: what is
\* notified from then on wakes it.
Listeners == {r \in Readers : readPc[r] # "idle"}

NotifyWaiters(o) ==
  /\ OpAt(o, "notify")
  /\ notified' = notified \union Listeners
  /\ OpTo(o, "idle")
  /\ UNCHANGED <<status, operation_running, gateVars, osVars, readPc, readStatus,
                 callVars>>

\* init, by whoever finds the service's socket: it writes the status without
\* being an operation.
InitFails ==
  /\ ops < MaxOps /\ ops' = ops + 1
  /\ status' = "Unavailable"
  /\ UNCHANGED <<operation_running, gateVars, osVars, readVars, opPc, opJob,
                 opUser, opClick>>

Operation(o) ==
  \/ EnterOperation(o) \/ LookAtVersion(o) \/ PassGate(o)
  \/ Uninstall(o) \/ UninstallFailed(o) \/ Install(o) \/ RemoveService(o) \/ Removed(o)
  \/ WaitForIpc(o) \/ CompareVersion(o) \/ LeaveOperation(o) \/ NotifyWaiters(o)

-----------------------------------------------------------------------------
(* current()                                                               *)

ReadTo(r, label) == readPc' = [readPc EXCEPT ![r] = label]
reading == <<status, operation_running, gateVars, osVars, opPc, opJob, opUser,
             opClick>>

Register(r) == notified \ {r}

CallCurrent(r) ==
  /\ readPc[r] = "idle" /\ ops < MaxOps
  /\ ops' = ops + 1
  /\ notified' = Register(r)
  /\ ReadTo(r, "look")
  /\ UNCHANGED <<reading, readStatus>>

LookIfRunning(r) ==
  /\ readPc[r] = "look"
  /\ ReadTo(r, IF operation_running THEN "await" ELSE "read")
  /\ UNCHANGED <<reading, notified, readStatus, ops>>

ReadStatus(r) ==
  /\ readPc[r] = "read"
  /\ readStatus' = [readStatus EXCEPT ![r] = status]
  /\ ReadTo(r, "again")
  /\ UNCHANGED <<reading, notified, ops>>

LookAgain(r) ==
  /\ readPc[r] = "again"
  /\ ReadTo(r, IF operation_running THEN "await" ELSE "idle")
  /\ UNCHANGED <<reading, notified, readStatus, ops>>

Await(r) ==
  /\ readPc[r] = "await"
  /\ ReadTo(r, "wait")
  /\ UNCHANGED <<reading, notified, readStatus, ops>>

Woken(r) ==
  /\ readPc[r] = "wait" /\ r \in notified
  /\ notified' = Register(r)
  /\ ReadTo(r, "look")
  /\ UNCHANGED <<reading, readStatus, ops>>

ReadCurrent(r) ==
  LookIfRunning(r) \/ ReadStatus(r) \/ LookAgain(r) \/ Await(r) \/ Woken(r)

ServiceNext ==
  \/ \E o \in Operators : Refresh(o) \/ Operation(o)
  \/ \E o \in Operators, job \in Clicks : Click(o, job)
  \/ \E r \in Readers : CallCurrent(r) \/ ReadCurrent(r)
  \/ InitFails

ServiceSpec == ServiceInit /\ [][ServiceNext]_serviceVars

-----------------------------------------------------------------------------
(* Properties.                                                             *)

\* A command that asks the user is about to run for the background.
Prompts(o) ==
  /\ opPc[o] \in {"uninstall", "install", "remove"}
  /\ ~opUser[o] /\ opClick[o] = clicks

\* From one click to the next the background starts at most one operation that
\* asks the user for administrator rights, whatever fails and however often it
\* is tried (the comment on AUTO_ELEVATION_USED).
OneBackgroundPrompt ==
  [][\A o \in Operators :
       Prompts(o)' /\ ~Prompts(o) /\ OpAt(o, "gate") => ~asked]_serviceVars

\* Once the user has declined, the background asks nothing more, not even for
\* the rest of the same operation ("reinstall_service").
NoPromptAfterDecline ==
  \A o \in Operators : Prompts(o) => ~turnedDown

\* Nobody waits in current() for an operation that is over: there is one under
\* way, or one that is about to notify.
NoReaderForgotten ==
  \A r \in Readers :
    readPc[r] = "wait" /\ r \notin notified =>
      \/ operation_running
      \/ \E o \in Operators : OpAt(o, "notify")
=============================================================================
