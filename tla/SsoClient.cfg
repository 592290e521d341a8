SPECIFICATION WsSpec
CONSTANTS
  Settings <- MCSettings
  NoKey = "none"
  Accepted <- MCAccepted
  TlsSettings <- MCTlsSettings
  Entries <- MCEntries
  Accounts = {"a1"}
  DynamicNames = {"zone"}
  Requests = {1, 2}
  Updates <- MCUpdates
  ReconnectMin = 1
  ReconnectMax = 2
  MaxInbox = 2
  MaxEvents = 4
CHECK_DEADLOCK FALSE
INVARIANTS
  WsTypeOK
  WaitsOnThisLink
  CacheMirrorsSso
  LastSentIsTrue
PROPERTIES
  AuthKeepsPromise
  LatestSettingUsed
