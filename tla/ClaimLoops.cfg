CONSTANTS
  Mods = {m1}
  Threads = {game}
  GameThread = game
  Available = {"EngineTick", "ProcessEvent"}
  DefaultMethod = "ProcessEvent"
  Delays = {1}
  MaxDelayed = 2
  MaxSimple = 0
  MaxHandle = 2
  MaxDepth = 2
SPECIFICATION Spec
INVARIANT LoopsContinue
CHECK_DEADLOCK FALSE
