\* Two models share the global gate; four requests compete.
CONSTANTS
  r1 = r1 r2 = r2 r3 = r3 r4 = r4
  busy = busy other = other none = none
  Requests <- MCRequests
  Keys <- MCKeys
  GlobalKey = "global"
  Policies <- MCPolicies
  GlobalPolicy <- MCGlobal
  EnvPolicy <- MCEnv
  NoPolicy = none
  NoGate = NoGate
SPECIFICATION FairSpec
INVARIANTS TypeOK Conservation NoLostWakeup
PROPERTIES ImplementsPool QueueProgress
