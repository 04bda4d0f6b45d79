CONSTANTS
  Mods = {m1}
  Threads = {game, loop}
  GameThread = game
  Available = {"EngineTick"}
  DefaultMethod = "EngineTick"
  Delays = {1}
  MaxDelayed = 2
  MaxSimple = 2
  MaxHandle = 1
  MaxDepth = 1
SPECIFICATION FairSpec
INVARIANTS TypeOK IndicesStable ExecutingIsInAPass ReadyReferencesLive OneShotFiresOnce SimpleActionsInOrder
PROPERTIES CancelIsFinal DueIsCollected SimpleActionsRun
