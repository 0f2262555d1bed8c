CONSTANTS
  MaxFailures = 5
  MaxRestarts = 2
  MaxPolls = 3
  MaxCommits = 3
SPECIFICATION ContainerFairSpec
PROPERTIES IdleStopStays DeployCheckHonest NotLeftUnreachable
CHECK_DEADLOCK FALSE
