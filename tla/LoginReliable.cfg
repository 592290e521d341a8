SPECIFICATION FairSpec
CONSTANTS
  SeqMod = 65536
  Routes = {"sso", "local", "pass"}
  NFrags = 2
  GarbageTotals = {0, 1, 1000}
  LossyServerLink = FALSE
  ClientRetransmits = FALSE
  Impatient = FALSE
  IdleGaps = FALSE
  RepeatedResponses = FALSE
  MaxSessions = 2
  MaxClient = 4
  MaxStream = 7
  MaxShown = 7
  MaxRetries = 2
CHECK_DEADLOCK FALSE
INVARIANTS
  AcksAreTruthful
  ServerStreamExact
  RetryAtMostOnce
  SsoRejectionWithheld
  RetryWithinSession
  NothingLeftUnacked
PROPERTIES
  RelayFaithful
  LoginGetsAnswer
  ListGetsAnswer
