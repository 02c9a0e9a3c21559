SPECIFICATION Spec
CONSTANT Configs <- SweepConfigs
INVARIANTS
  AllCoded
  TrialInvisible
  AllDecoded
PROPERTY
  FollowsOrder
  MovesOn
