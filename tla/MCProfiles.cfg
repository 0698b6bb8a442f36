SPECIFICATION FairSpec
CONSTANTS
  a = a
  b = b
  ext_a = ext_a
  ext_b = ext_b
  Mains = {a, b}
  ExtOf <- TwoProfiles
  Callers = {c1, c2}
  Kinds = {"switch", "import", "link", "delete", "reorder", "patch", "update", "cleanup", "exit"}
  First <- BothFirst
  Null = null
  MaxCalls = 3
CHECK_DEADLOCK FALSE
INVARIANTS CurrentExists FilesExist DiskFollows CurrentRuns GivenBack
PROPERTY EveryCommandEnds
