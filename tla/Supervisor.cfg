\* Two restarts, two supervisors after one another, gateways that die or hang.
CONSTANTS
  c1 = c1 c2 = c2
  Commands <- MCCommands
  Threshold = 2
  MaxSupervisors = 2
  MaxFaults = 1
CHECK_DEADLOCK FALSE
SPECIFICATION FairSpec
INVARIANTS ReportedIsFresh
PROPERTIES NoNeedlessKill RestartServed
