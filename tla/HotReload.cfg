CONSTANTS
  Mods = {m1, m2}
  Threads = {game, loop}
  GameThread = game
  LoopThread = loop
  Available = {"ProcessEvent"}
  DefaultMethod = "ProcessEvent"
  Delays = {1}
  MaxDelayed = 1
  MaxSimple = 2
  MaxHandle = 1
  MaxDepth = 1
SPECIFICATION HotSpec
INVARIANTS OthersKeepTheirActions UninstalledIsErased
SYMMETRY Symmetry
CHECK_DEADLOCK FALSE
