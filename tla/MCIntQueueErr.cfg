\* A handler error, and what it does to the hook.
SPECIFICATION Spec
CONSTANTS
  QSize = 4
  LastId = 2
  Resnums = {0}
  NoRes = 0
  HandlerErrors = TRUE
INVARIANT
  HookSetWhileQueued
