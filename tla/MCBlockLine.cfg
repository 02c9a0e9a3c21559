SPECIFICATION Spec
CONSTANT Configs <- LineConfigs
INVARIANT
  BlocksAgree
