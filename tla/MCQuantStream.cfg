SPECIFICATION Spec
CONSTANTS
  IntHalf = 32
  BadInt <- IntMin
  Grid = 2
  RecipScale = 64
  N = 4
  Top = 3
  BaseEb = 3
  Radius = 3
  Ratio <- TunedRatio
  Plans <- MCPlans
  Values <- MixedValues
INVARIANTS
  TypeOK
  DecoderAgrees
  UnpredConsumed
  ErrorBounded
  WithinUserBound
CHECK_DEADLOCK FALSE
