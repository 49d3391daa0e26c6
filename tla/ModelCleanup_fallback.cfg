\* A helper dies and its scan publishes a version without the staged config.
CONSTANTS
  config = config labels = labels
  Names <- MCNames
  Config = config
  Identities <- MCIdentities
  Stages <- MCStages
  ZeroGrace = FALSE
  MaxWrites = 2
  MaxFaults = 1
  MaxCheckouts = 2
SPECIFICATION Spec
PROPERTY NoFallbackWhileStaged
