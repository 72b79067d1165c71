SPECIFICATION Spec

CONSTANTS
  CacheCommands = {c1, c2}
  QueueCommands = {c3, c4}
  CacheEnabled = TRUE
  QueueEnabled = TRUE
  CacheRetries = 1
  None = None

INVARIANTS
  TypeOK
  QueueWaits

PROPERTIES
  CommandsSettle
  UsableAgain
  QueueAnswers
