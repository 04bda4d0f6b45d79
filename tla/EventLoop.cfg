CONSTANTS
  a = a
  b = b
  Names = {a, b}
  Directory <- TheDirectory
  ModsTxt <- TheModsTxt
  EnabledTxt <- TheEnabledTxt
  Loop = loop
  Threads = {game, gui}
  Locking = {game}
  AskUnderLock = FALSE
  KeyKinds = {"restart", "uninstall"}
  KeySelf = FALSE
  PerFrame = 2
  MaxKeys = 1
  MaxRequests = 3
SPECIFICATION FairSpec
INVARIANTS TypeOK NamesUnique ListedMatchesRunning
PROPERTIES KeepsPromise RequestsAreServed IdHitsItsMod ReinstallStartsEnabled
CHECK_DEADLOCK FALSE
