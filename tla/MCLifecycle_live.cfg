SPECIFICATION FairSpec
CONSTANTS
  Callers = {c1, c2}
  Watcher = w
  Quit = q
  Pids = {p1}
  None = none
  Windows = TRUE
  Timeouts = TRUE
  Retries = 2
PROPERTY EveryOpReturns
