\* One run of each demo; a run that has ended stays so.
SPECIFICATION Spec
CONSTANTS
  Rotations = {r1}
  Migrations = {m1}
CHECK_DEADLOCK FALSE
INVARIANTS
  TypeOK
  OnlyFaultsFail
  KeysFitCertificates
  ClaimsHold
