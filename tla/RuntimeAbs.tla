----------------------------- MODULE RuntimeAbs -----------------------------
(***************************************************************************)
(* What an update of the configuration promises: what the program shows as *)
(* the runtime configuration and what the core runs change together, to a  *)
(* configuration the core accepts.                                         *)
(***************************************************************************)

CONSTANTS
  Valid,    \* configurations the core accepts
  None,     \* no core
  Missing   \* no runtime configuration

VARIABLES
  running,  \* the configuration of the core
  shown     \* the runtime configuration

Init == running \in Valid \union {None} /\ shown = Missing

Update ==
  /\ running' \in Valid
  /\ shown' = running'

\* The core is stopped, dies, or is restarted in vain.
Lose ==
  /\ running' = None
  /\ UNCHANGED shown

Next == Update \/ Lose

Spec == Init /\ [][Next]_<<running, shown>>
=============================================================================
