SPECIFICATION L2Spec
CONSTANTS
  Claimant = {a, b}
  Width = 3
  Byte = {0, 1, 2}
INVARIANTS
  L2Invariant
  OneOwner
PROPERTIES
  IdentityIsImmutable
