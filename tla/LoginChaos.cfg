SPECIFICATION Spec
CONSTANTS
  SeqMod = 65536
  Routes = {"sso"}
  NFrags = 2
  GarbageTotals = {0, 1, 1000}
  LossyServerLink = FALSE
  ClientRetransmits = TRUE
  Impatient = TRUE
  IdleGaps = TRUE
  RepeatedResponses = TRUE
  MaxSessions = 2
  MaxClient = 2
  MaxStream = 3
  MaxShown = 4
  MaxRetries = 2
CHECK_DEADLOCK FALSE
INVARIANTS
  RetryConsistent
  TypeOK
