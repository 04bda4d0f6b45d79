\* Three actions, a hook that takes the mutex, an uninstall at any time.
SPECIFICATION Spec
CONSTANT
  MaxActions = 3
INVARIANTS OneShotsCalledOnce ImmediateInOrder CallbackStateOpen
PROPERTIES ActionsAreCalled UninstallEnds
