\* Two writes, one fault, two checkouts after one another at the path.
CONSTANTS
  config = config labels = labels
  Names <- MCNames
  Config = config
  Identities <- MCIdentities
  Stages <- MCStages
  ZeroGrace = FALSE
  MaxWrites = 2
  MaxFaults = 1
  MaxCheckouts = 2
SPECIFICATION FairSpec
INVARIANTS NewestKept
PROPERTY StagesEmptied
