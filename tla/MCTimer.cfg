SPECIFICATION FairSpec
CONSTANTS
  Uids = {u1, u2}
  Intervals = {1, 2}
  Callers = {c1}
  Boot = boot
  Keys = {k1, k2, k3}
  Runs = {r1, r2}
  None = none
  MaxChanges = 2
  Failures = TRUE
CHECK_DEADLOCK FALSE
INVARIANTS KeysAreLive NeverForgotten Converges
PROPERTY KeepsUpdating
