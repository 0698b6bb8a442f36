SPECIFICATION FairSpec
CONSTANTS
  Callers = {c1, c2}
  Boot = boot
  Configs = {v1, bad, default}
  Valid = {v1, default}
  Default = default
  None = none
  Kinds = {"update", "chain", "touch", "regenerate", "restart", "start", "handoff"}
  AfterBoot = TRUE
  Timeouts = TRUE
  Faults = TRUE
  StopFails = TRUE
  MaxCalls = 2
CHECK_DEADLOCK FALSE
PROPERTY EveryCallEnds
