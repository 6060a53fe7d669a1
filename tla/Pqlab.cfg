\* Every shape of the arguments, every name and an unknown one.
SPECIFICATION Spec
CONSTANTS
  None = None
  Commands = {"none", "demo", "demo-sign", "other"}
  Names = {"X25519", "ML-KEM-768", "Hybrid(X25519+ML-KEM-768)", "Ed25519", "ML-DSA-65",
           "hybrid-tls", "cert-migration", "ca-rotation", "interop-tls", "sign"}
CHECK_DEADLOCK FALSE
INVARIANTS
  TypeOK
  SessionsClosed
  SuccessIsAgreement
  OnlyFailuresFail
