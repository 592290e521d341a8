SPECIFICATION LogSpec
CONSTANTS
  Accounts = {"foo", "Foo"}
  Aliases = {{}, {"foo", "X"}}
  Lower <- MCLower
  Characters = {"c1", "c2"}
  Usernames = {"X", "c1", "s"}
  SsoNames = {"s"}
  SkipNames = {}
  NoAccount = "none"
  Starts <- MCStarts
  Timers = {1, 2}
  MaxOps = 2
  BoolItems = {"neck", "void", "thurg"}
  CountItems = {"mb3", "mb4", "pearl"}
  CountValues = {0, 2, 3, 6, 60}
  LogLines <- MCLogLines
  Dumps <- MCDumps
  SsoCharacters = {"c2"}
  AutoAdd = TRUE
  Window = 2
  MaxWrites = 3
  MaxEvents = 4
CHECK_DEADLOCK FALSE
PROPERTIES
  NeverMispaired
