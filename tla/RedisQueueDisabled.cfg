SPECIFICATION Spec

CONSTANTS
  CacheCommands = {c1, c2}
  QueueCommands = {c3, c4}
  CacheEnabled = TRUE
  QueueEnabled = FALSE
  CacheRetries = 1
  None = None

INVARIANT DisabledIsIdle
