SPECIFICATION Spec
CONSTANTS
  SeqMod = 8
  NFrags = 4
  GarbageTotals = {0, 1, 1000}
  HeadFirst = TRUE
  LateRepeats = FALSE
  MaxLists = 3
CHECK_DEADLOCK FALSE
INVARIANTS
  ListsIntact
  ListForwarded
