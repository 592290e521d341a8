SPECIFICATION Spec
CONSTANTS
  SeqMod = 65536
  Routes = {"sso"}
  NFrags = 2
  GarbageTotals = {0, 1, 1000}
  LossyServerLink = FALSE
  ClientRetransmits = FALSE
  Impatient = TRUE
  IdleGaps = FALSE
  RepeatedResponses = FALSE
  MaxSessions = 2
  MaxClient = 3
  MaxStream = 5
  MaxShown = 6
  MaxRetries = 2
CHECK_DEADLOCK FALSE
INVARIANTS
  DroppedIsRepetition
