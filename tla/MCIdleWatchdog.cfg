SPECIFICATION FairSpec
CONSTANTS
  Timeout = 3
  PollTime = 2
  BackupInterval = 5
  Ports = {app}
  IdleTimeout = 4
  CheckInterval = 2
  MaxLate = 1
  Configs <- EveryConfig
INVARIANTS TypeOK NextCheckNotices
PROPERTIES ImplementsPolicy StopsWhenIdle ActivityIsBackedUp
