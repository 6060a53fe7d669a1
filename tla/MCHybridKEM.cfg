\* The registered hybrid: X25519 and, with liboqs, ML-KEM-768; each may fail
\* in any call.
SPECIFICATION Spec
CONSTANTS
  Sessions = {alice, bob}
  N = 2
  Liboqs = {2}
  Junk = Junk
  MaxGen = 2
  MaxEncaps = 2
  NoKey = NoKey
  NoOutcome = NoOutcome
SYMMETRY SessionSymmetry
CHECK_DEADLOCK FALSE
INVARIANTS
  TypeOK
  NoComponentLeak
PROPERTIES
  MeetsContract
