CONSTANTS
  Platforms = {"linux", "windows"}
  SlowOn <- SlowCallbackOnWindows
  MaxEdits = 3
SPECIFICATION FairSpec
INVARIANTS TypeOK ReloadExcludesLoop
PROPERTIES NeitherIsStuck NotifiedChangeIsLoaded
CHECK_DEADLOCK FALSE
