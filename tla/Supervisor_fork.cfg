\* SIGTERM reaches the supervisor as it starts a gateway.
CONSTANTS
  c1 = c1 c2 = c2
  Commands <- MCCommands
  Threshold = 2
  MaxSupervisors = 1
  MaxFaults = 1
SPECIFICATION Spec
INVARIANT NoGatewayLeft
