CONSTANTS
  Mods = {m1}
  Threads = {game}
  GameThread = game
  Available = {"EngineTick", "ProcessEvent"}
  DefaultMethod = "ProcessEvent"
  Delays = {1}
  MaxDelayed = 2
  MaxSimple = 1
  MaxHandle = 2
  MaxDepth = 2
SPECIFICATION Spec
INVARIANTS CallbacksDoNotNest LiveHandlesUnique
CHECK_DEADLOCK FALSE
