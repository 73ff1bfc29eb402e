SPECIFICATION LiveSpec
CONSTANTS
  MaxCommands = 2
  MaxReconnectAttempts = 2
  MaxStrays = 1
  MAX_PENDING_WRITES = 1
  MaxOutstanding = 3
INVARIANTS TypeOK NeverLeftFrozen NeverStranded PauseRemembered
PROPERTIES PausedPtyResumes ReconnectEnds
CHECK_DEADLOCK FALSE
