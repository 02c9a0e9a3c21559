CONSTANTS
  Inputs <- TunedInputs
  Callers <- SomeCallers
SPECIFICATION Spec
INVARIANTS
  TrialsOnSamples
  GivenBack
  NoLooserBound
  MetasFit
  LevelsOnce
  FreshForBm
  DecoderBuilds
PROPERTY Terminates
CHECK_DEADLOCK FALSE
