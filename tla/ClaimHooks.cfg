\* Two mods hook one blueprint function; one of them is uninstalled.
SPECIFICATION Spec
CONSTANTS
  Mods = {m1, m2}
  Native = {}
  Script = {s}
  MaxHooks = 2
  MaxDepth = 1
  Sharing = TRUE
  Recursion = FALSE
  Interrupts = FALSE
INVARIANT UnhookedBeforeClose
CHECK_DEADLOCK FALSE
