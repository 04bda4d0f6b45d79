CONSTANTS
  a = a
  b = b
  Names = {a, b}
  Directory <- TheDirectory
  ModsTxt <- TheModsTxt
  EnabledTxt <- TheEnabledTxt
  Loop = loop
  Threads = {game, gui}
  Locking = {game}
  AskUnderLock = TRUE
  KeyKinds = {}
  KeySelf = FALSE
  PerFrame = 2
  MaxKeys = 0
  MaxRequests = 2
SPECIFICATION FairSpec
PROPERTY RestartIsCarriedOut
CHECK_DEADLOCK FALSE
