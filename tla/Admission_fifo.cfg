\* A newcomer passes a request that already waits.
CONSTANTS
  r1 = r1 r2 = r2 r3 = r3 r4 = r4
  busy = busy other = other none = none
  Requests <- MCThree
  Keys <- MCKeys
  GlobalKey = "global"
  Policies <- MCPolicies
  GlobalPolicy <- MCGlobal
  EnvPolicy <- MCEnv
  NoPolicy = none
  NoGate = NoGate
SPECIFICATION Spec
PROPERTY FifoAdmission
