CONSTANTS
  Mods = {m1}
  Threads = {game, loop}
  GameThread = game
  LoopThread = loop
  Available = {"EngineTick"}
  DefaultMethod = "EngineTick"
  Delays = {1}
  MaxDelayed = 1
  MaxSimple = 0
  MaxHandle = 1
  MaxDepth = 1
SPECIFICATION HotSpec
INVARIANT NeverInvalidState
CHECK_DEADLOCK FALSE
