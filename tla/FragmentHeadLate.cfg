SPECIFICATION Spec
CONSTANTS
  SeqMod = 8
  NFrags = 2
  GarbageTotals = {0, 1, 1000}
  HeadFirst = FALSE
  LateRepeats = FALSE
  MaxLists = 3
CHECK_DEADLOCK FALSE
INVARIANTS
  ListForwarded
