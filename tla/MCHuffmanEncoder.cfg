SPECIFICATION Spec
CONSTANTS
  ByteBits = 2
  WordBytes = 4
  Inputs <- AllInputs
INVARIANTS
  TypeOK
  Optimal
  RoundTrip
  Aligned
