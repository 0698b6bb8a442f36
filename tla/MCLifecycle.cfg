SPECIFICATION Spec
CONSTANTS
  Callers = {c1, c2, c3}
  Watcher = w
  Quit = q
  Pids = {p1, p2}
  None = none
  Windows = TRUE
  Timeouts = TRUE
  Retries = 2
SYMMETRY Symmetry
INVARIANTS NoOrphanCore SingleCore QuitIsFinal
PROPERTY OnlyHolderActs
