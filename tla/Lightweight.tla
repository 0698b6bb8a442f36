---------------------------- MODULE Lightweight ----------------------------
(***************************************************************************)
(* The lightweight mode and the main window (module/lightweight.rs,        *)
(* utils/window_manager.rs, utils/resolve/window.rs).                      *)
(*                                                                         *)
(* The mode is an atomic; whoever enters it destroys the window, whoever   *)
(* leaves it shows the window again.  A closed window starts a timer that  *)
(* enters the mode; a focused one cancels it.  The event loop asks to end  *)
(* the program when its last window is gone: the mode keeps it alive.      *)
(***************************************************************************)
EXTENDS Naturals

CONSTANTS
  Callers,     \* clicks on the tray, hotkeys, commands, a second instance
  Timers,      \* the tasks that wait before they enter the mode
  MaxCalls     \* bound: calls, closed windows and changes of the setting

Jobs == {"entry", "exit", "toggle", "show"}

VARIABLES
  lightState,        \* LIGHTWEIGHT_STATE
  autoMode,          \* enable_auto_light_weight_mode
  window,            \* "none", "loading", "hidden" or "shown"
  listening,         \* the close and focus listeners are on this window
  limited,           \* WINDOW_OPERATION_LIMITER: less than 625 ms ago
  cancelTx,          \* CANCEL_TX: the timer it cancels
  wmPc, wmJob,       \* where a caller or a timer is, and for what
  exitRequested,     \* events: the last window is gone
  quitting,          \* the program ends
  overlapped,        \* history: the mode was left while it was being entered
  wmCalls            \* bounded by MaxCalls

lightVars == <<lightState, autoMode, window, listening, limited, cancelTx, wmPc, wmJob,
               exitRequested, quitting, overlapped, wmCalls>>
windowVars == <<autoMode, window, listening, limited>>
endVars == <<exitRequested, quitting>>

NoTimer == "none"
Actors == Callers \union Timers

LightInit ==
  /\ lightState = "Normal"
  /\ autoMode = TRUE
  /\ window = "shown" /\ listening = TRUE /\ limited = FALSE
  /\ cancelTx = NoTimer
  /\ wmPc = [a \in Actors |-> "idle"] /\ wmJob = [a \in Actors |-> "entry"]
  /\ exitRequested = FALSE /\ quitting = FALSE /\ overlapped = FALSE
  /\ wmCalls = 0

WmAt(a, label) == wmPc[a] = label
WmTo(a, label) == wmPc' = [wmPc EXCEPT ![a] = label]

-----------------------------------------------------------------------------
(* The timer.                                                              *)

\* CANCEL_TX emptied or overwritten: the timer it belonged to ends, whether it
\* was sent something or only lost its sender.
Ended(pc) ==
  [a \in Actors |-> IF a = cancelTx /\ pc[a] = "sleeping" THEN "idle" ELSE pc[a]]

IdleTimers == {t \in Timers : WmAt(t, "idle")}

\* The close listener spawns a task of its own ...
Closed(pc) ==
  IF listening /\ IdleTimers # {}
  THEN wmPc' = [pc EXCEPT ![CHOOSE t \in IdleTimers : TRUE] = "setUp"]
  ELSE wmPc' = pc

\* ... setup_light_weight_timer: one timer at a time.
SetUpTimer(t) ==
  /\ WmAt(t, "setUp")
  /\ IF cancelTx = NoTimer THEN cancelTx' = t /\ WmTo(t, "sleeping")
     ELSE UNCHANGED cancelTx /\ WmTo(t, "idle")
  /\ UNCHANGED <<lightState, windowVars, wmJob, endVars, overlapped, wmCalls>>

Expire(t) ==
  /\ WmAt(t, "sleeping")
  /\ WmTo(t, "clear")
  /\ UNCHANGED <<lightState, windowVars, cancelTx, wmJob, endVars, overlapped,
                 wmCalls>>

\* It empties CANCEL_TX, whosever sender that is by now.
ClearTimer(t) ==
  /\ WmAt(t, "clear")
  /\ cancelTx' = NoTimer
  /\ wmPc' = [Ended(wmPc) EXCEPT ![t] = "enter"]
  /\ UNCHANGED <<lightState, windowVars, wmJob, endVars, overlapped, wmCalls>>

-----------------------------------------------------------------------------
(* The window and the event loop.                                          *)

\* The close button: the window is hidden, and its listener starts the timer.
CloseWindow ==
  /\ window = "shown" /\ wmCalls < MaxCalls
  /\ wmCalls' = wmCalls + 1
  /\ window' = "hidden"
  /\ Closed(wmPc)
  /\ UNCHANGED <<lightState, autoMode, listening, limited, cancelTx, wmJob, endVars,
                 overlapped>>

FocusWindow ==
  /\ window = "shown" /\ listening /\ cancelTx # NoTimer
  /\ cancelTx' = NoTimer /\ wmPc' = Ended(wmPc)
  /\ UNCHANGED <<lightState, windowVars, wmJob, endVars, overlapped, wmCalls>>

\* on_page_load: a new window is shown when its page is there.
PageLoaded ==
  /\ window = "loading"
  /\ window' = "shown"
  /\ UNCHANGED <<lightState, autoMode, listening, limited, cancelTx, wmPc, wmJob, endVars,
                 overlapped, wmCalls>>

LimiterElapses ==
  /\ limited /\ limited' = FALSE
  /\ UNCHANGED <<lightState, autoMode, window, listening, cancelTx, wmPc, wmJob,
                 endVars, overlapped, wmCalls>>

\* Mutant of KeepsRunning: Exiting is not taken for the mode, and neither is In.
KeepsNothing == FALSE

KeepsRunning == lightState = "In"

\* RunEvent::ExitRequested without a code.
HandleExitRequest ==
  /\ exitRequested
  /\ exitRequested' = FALSE
  /\ quitting' = ~KeepsRunning
  /\ UNCHANGED <<lightState, windowVars, cancelTx, wmPc, wmJob, overlapped,
                 wmCalls>>

\* enable_auto_light_weight_mode and disable_auto_light_weight_mode, by a patch
\* of the settings.
SwitchAuto ==
  /\ wmCalls < MaxCalls
  /\ wmCalls' = wmCalls + 1
  /\ autoMode' = ~autoMode
  /\ listening' = (autoMode' /\ window # "none")
  /\ IF autoMode' THEN UNCHANGED <<cancelTx, wmPc>>
     ELSE cancelTx' = NoTimer /\ wmPc' = Ended(wmPc)
  /\ UNCHANGED <<lightState, window, limited, wmJob, endVars, overlapped>>

-----------------------------------------------------------------------------
(* Calls.                                                                  *)

Entering(a) == wmPc[a] \in {"recordIn", "destroy"}
Exiting(a) == wmPc[a] \in {"recordExiting", "showExit", "createExit", "listen",
                           "cancelExit", "recordNormal"}
SomeoneEnters == \E a \in Actors : Entering(a)

\* The first step of a job: the tray asks to leave the mode, the dashboard's
\* hotkey looks at it first.
FirstOf(job) ==
  CASE job = "entry" -> "enter"
    [] job \in {"exit", "show"} -> "leave"
    [] job = "toggle" -> IF lightState = "In" THEN "leave" ELSE "toggle"

CallWindow(c, job) ==
  /\ WmAt(c, "idle") /\ wmCalls < MaxCalls
  /\ wmCalls' = wmCalls + 1
  /\ wmJob' = [wmJob EXCEPT ![c] = job]
  /\ WmTo(c, FirstOf(job))
  /\ UNCHANGED <<lightState, windowVars, cancelTx, endVars, overlapped>>

\* entry_lightweight_mode
Enter(a) ==
  /\ WmAt(a, "enter")
  /\ IF lightState = "Normal"
     THEN lightState' = "In" /\ WmTo(a, "recordIn")
     ELSE UNCHANGED lightState /\ WmTo(a, "idle")
  /\ UNCHANGED <<windowVars, cancelTx, wmJob, endVars, overlapped, wmCalls>>

\* record_state_and_log stores the state once more, whatever it is by now.
RecordIn(a) ==
  /\ WmAt(a, "recordIn")
  /\ lightState' = "In"
  /\ WmTo(a, "destroy")
  /\ UNCHANGED <<windowVars, cancelTx, wmJob, endVars, overlapped, wmCalls>>

DestroyWindow(a) ==
  /\ WmAt(a, "destroy")
  /\ window' = "none" /\ listening' = FALSE
  /\ exitRequested' = (exitRequested \/ window # "none")
  /\ WmTo(a, "cancel")
  /\ UNCHANGED <<lightState, autoMode, limited, cancelTx, wmJob, quitting,
                 overlapped, wmCalls>>

\* cancel_light_weight_timer, at the end of both.
CancelTimer(a) ==
  /\ wmPc[a] \in {"cancel", "cancelExit"}
  /\ cancelTx' = NoTimer
  /\ wmPc' = [Ended(wmPc) EXCEPT ![a] =
                IF @ = "cancel" THEN "idle" ELSE "recordNormal"]
  /\ UNCHANGED <<lightState, windowVars, wmJob, endVars, overlapped, wmCalls>>

\* exit_lightweight_mode
Exit(a) ==
  /\ WmAt(a, "leave")
  /\ IF lightState = "In"
     THEN /\ lightState' = "Exiting" /\ WmTo(a, "recordExiting")
          /\ overlapped' = (overlapped \/ exitRequested \/ SomeoneEnters)
     ELSE /\ WmTo(a, IF wmJob[a] = "show" THEN "show" ELSE "idle")
          /\ UNCHANGED <<lightState, overlapped>>
  /\ UNCHANGED <<windowVars, cancelTx, wmJob, endVars, wmCalls>>

RecordExiting(a) ==
  /\ WmAt(a, "recordExiting")
  /\ lightState' = "Exiting"
  /\ WmTo(a, "showExit")
  /\ UNCHANGED <<windowVars, cancelTx, wmJob, endVars, overlapped, wmCalls>>

\* Mutant of AfterShow: a window that does not appear ends the call.
AfterShowOrReturn(a) ==
  IF limited \/ ~WmAt(a, "showExit") THEN "idle" ELSE "listen"

\* What comes after the window: on the way out of the mode, whatever became of
\* it.
AfterShow(a) ==
  IF wmPc[a] \in {"showExit", "createExit"} THEN "listen" ELSE "idle"

\* show_main_window; the operations on the window are limited.
ShowWindow(a) ==
  /\ wmPc[a] \in {"show", "showExit"}
  /\ limited' = TRUE
  /\ IF ~limited /\ window = "none"
     THEN UNCHANGED window
          /\ WmTo(a, IF WmAt(a, "show") THEN "create" ELSE "createExit")
     ELSE window' = (IF limited THEN window ELSE "shown") /\ WmTo(a, AfterShow(a))
  /\ UNCHANGED <<lightState, autoMode, listening, cancelTx, wmJob, endVars,
                 overlapped, wmCalls>>

\* toggle_main_window: to hide is to close, which the listener sees too.
ToggleWindow(a) ==
  LET acts == ~limited
      returned == [wmPc EXCEPT ![a] = IF acts /\ window = "none" THEN "create"
                                      ELSE "idle"]
  IN /\ WmAt(a, "toggle")
     /\ limited' = TRUE
     /\ IF acts /\ window = "shown"
        THEN window' = "hidden" /\ Closed(returned)
        ELSE /\ window' = IF acts /\ window # "none" THEN "shown" ELSE window
             /\ wmPc' = returned
     /\ UNCHANGED <<lightState, autoMode, listening, cancelTx, wmJob, endVars,
                    overlapped, wmCalls>>

\* build_new_window: a second window of the same label is refused.
CreateWindow(a) ==
  /\ wmPc[a] \in {"create", "createExit"}
  /\ window' \in {window, IF window = "none" THEN "loading" ELSE window}
  /\ WmTo(a, AfterShow(a))
  /\ UNCHANGED <<lightState, autoMode, listening, limited, cancelTx, wmJob, endVars,
                 overlapped, wmCalls>>

\* The listeners of a window that is gone were gone with it.
Listen(a) ==
  /\ WmAt(a, "listen")
  /\ listening' = (window # "none" /\ (autoMode \/ listening))
  /\ WmTo(a, "cancelExit")
  /\ UNCHANGED <<lightState, autoMode, window, limited, cancelTx, wmJob, endVars, overlapped,
                 wmCalls>>

RecordNormal(a) ==
  /\ WmAt(a, "recordNormal")
  /\ lightState' = "Normal"
  /\ WmTo(a, "idle")
  /\ UNCHANGED <<windowVars, cancelTx, wmJob, endVars, overlapped, wmCalls>>

WindowStep(a) ==
  \/ Enter(a) \/ RecordIn(a) \/ DestroyWindow(a) \/ CancelTimer(a)
  \/ Exit(a) \/ RecordExiting(a) \/ ShowWindow(a) \/ CreateWindow(a)
  \/ Listen(a) \/ RecordNormal(a)

LightNext ==
  /\ ~quitting
  /\ \/ \E a \in Actors : WindowStep(a)
     \/ \E c \in Callers, job \in Jobs : CallWindow(c, job)
     \/ \E c \in Callers : ToggleWindow(c)
     \/ \E t \in Timers : SetUpTimer(t) \/ Expire(t) \/ ClearTimer(t)
     \/ CloseWindow \/ FocusWindow \/ PageLoaded \/ LimiterElapses \/ SwitchAuto
     \/ HandleExitRequest

LightSpec == LightInit /\ [][LightNext]_lightVars

-----------------------------------------------------------------------------
(* Properties.                                                             *)

\* The mode is not stuck between: as long as it is Exiting, when neither
\* entering nor leaving is possible, someone is on the way to Normal.
NeverStuckExiting ==
  lightState = "Exiting" => \E a \in Actors : Exiting(a)

\* To enter the mode takes the last window away but does not end the program,
\* unless the mode was left again before the event loop saw it.
SurvivesEntry == quitting => overlapped
=============================================================================
