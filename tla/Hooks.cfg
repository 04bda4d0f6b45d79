\* Native and blueprint hooks of two mods, calls within calls, uninstalls between them.
SPECIFICATION Spec
CONSTANTS
  Mods = {m1, m2}
  Native = {n}
  Script = {s}
  MaxHooks = 3
  MaxDepth = 2
  Sharing = FALSE
  Recursion = FALSE
  Interrupts = FALSE
SYMMETRY Symmetry
INVARIANTS TypeOK ReleasedOnce HooksStay UnregisteredIsRemoved CallbackStateOpen HookDataIsLive
CHECK_DEADLOCK FALSE
