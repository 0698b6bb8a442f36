SPECIFICATION FairSpec
CONSTANTS
  Tasks = {t1, t2, t3}
  Edits = {e1}
  None = none
  MaxArcs = 4
  MaxCalls = 1
INVARIANTS PermitExclusive NoLostWakeup
PROPERTIES OnlyApplyOvertakes AtomicCell EveryCallReturns
