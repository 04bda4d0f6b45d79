CONSTANTS
  Procs = {p1, p2}
  Shell = shell
  Elf = {host, helper}
  UserPreload <- UserPreloads
  MaxLaunches = 2
SPECIFICATION Spec
INVARIANTS TypeOK StartsOnlyHost AcceptedOnce EnvironmentRestored WrappersLeadToHost
SYMMETRY Symmetry
CHECK_DEADLOCK FALSE
