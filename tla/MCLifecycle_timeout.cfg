SPECIFICATION Spec
CONSTANTS
  Callers = {c1}
  Watcher = w
  Quit = q
  Pids = {p1, p2}
  None = none
  Windows = TRUE
  Timeouts = TRUE
  Retries = 2
SYMMETRY Symmetry
INVARIANT ModeTellsCore
