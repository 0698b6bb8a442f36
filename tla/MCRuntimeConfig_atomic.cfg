SPECIFICATION Spec
CONSTANTS
  Callers = {c1, c2}
  Boot = boot
  Configs = {v1, v2, bad, default}
  Valid = {v1, v2, default}
  Default = default
  None = none
  Kinds = {"update", "chain"}
  AfterBoot = TRUE
  Timeouts = FALSE
  Faults = TRUE
  StopFails = FALSE
  MaxCalls = 3
SYMMETRY Symmetry
CHECK_DEADLOCK FALSE
PROPERTY OneState
