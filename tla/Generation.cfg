\* Chat, responses and plain requests compete for one slot.
CONSTANTS
  chat = chat responses = responses embed = embed
  Requests <- MCThree
  Kind <- MCKindThree
  ModelGates <- MCSmall
  Global <- MCGlobal
  NoGate = NoGate
SPECIFICATION FairSpec
INVARIANTS NothingLeaks StreamUsable OneReader InferenceBounded
PROPERTY DisconnectFrees
