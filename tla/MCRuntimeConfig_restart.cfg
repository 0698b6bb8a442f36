SPECIFICATION Spec
CONSTANTS
  Callers = {c1}
  Boot = boot
  Configs = {v1, v2, bad, default}
  Valid = {v1, v2, default}
  Default = default
  None = none
  Kinds = {"update"}
  AfterBoot = TRUE
  Timeouts = FALSE
  Faults = FALSE
  StopFails = FALSE
  MaxCalls = 2
CHECK_DEADLOCK FALSE
INVARIANT CoreCanRestart
