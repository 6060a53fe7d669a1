\* An Ed25519 and an ML-DSA-65 session, each signer and verifier; all closed is
\* the end.
SPECIFICATION Spec
CONSTANTS
  Sessions = {ed, ml}
  MLDSA65 = {ml}
  Messages = {hello, tampered}
  Malformed = Malformed
  MaxKey = 2
  MaxSigs = 2
  NoKey = NoKey
  NoOutcome = NoOutcome
  Panic = Panic
CHECK_DEADLOCK FALSE
INVARIANTS
  TypeOK
  SignaturesVerify
PROPERTY MeetsContract
