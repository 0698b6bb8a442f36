SPECIFICATION Spec
CONSTANTS
  Callers = {c1, c2}
  Boot = boot
  Configs = {v1, v2, bad, default}
  Valid = {v1, v2, default}
  Default = default
  None = none
  Kinds = {"update", "chain", "touch", "regenerate", "restart", "start", "handoff"}
  AfterBoot = FALSE
  Timeouts = TRUE
  Faults = TRUE
  StopFails = TRUE
  MaxCalls = 2
SYMMETRY Symmetry
CHECK_DEADLOCK FALSE
INVARIANTS AppliesWhatRuns BootStartsValid
