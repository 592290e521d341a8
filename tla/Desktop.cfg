SPECIFICATION DesktopSpec
CONSTANTS
  Text <- MCText
  LabelUrl <- MCLabelUrl
  JoinedUrl <- MCJoinedUrl
  UrlName <- MCUrlName
  Urls <- MCUrls
  Backends = {"Good Guys", "Marginal Threat", "Kingdom"}
  BackendUrl <- MCBackendUrl
  Tokens = {"", "t3"}
  ConfigFiles <- MCConfigFiles
  Dirs = {"d1", "d2"}
  NoDir = "nodir"
  Detected = "nodir"
  Hosts = {"proxy", "default", "custom"}
  Proxy = "proxy"
  Default = "default"
  NoFile = NoFile
  HostFiles <- MCHostFiles
  StartHosts <- MCStartHosts
  AssetNames = {"stable", "loose"}
  MaxChecks = 2
  MaxOps = 3
  MaxFaults = 1
CHECK_DEADLOCK FALSE
INVARIANTS
  DesktopTypeOK
  OwnFileKept
  ExitIsDirect
  RestartSame
  RepairSettles
  RepairKeepsTokens
  ProgramOnDisk
  StableKept
PROPERTIES
  OtherTokensKept
