SPECIFICATION Spec
CONSTANT Configs <- ShortGridConfigs
INVARIANT
  AllCoded
