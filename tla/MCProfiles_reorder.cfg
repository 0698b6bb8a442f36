SPECIFICATION Spec
CONSTANTS
  a = a
  b = b
  ext_a = ext_a
  ext_b = ext_b
  Mains = {a, b}
  ExtOf <- TwoProfiles
  Callers = {c1, c2}
  Kinds = {"delete", "reorder"}
  First <- BothFirst
  Null = null
  MaxCalls = 2
CHECK_DEADLOCK FALSE
PROPERTY ReorderKeepsProfiles
