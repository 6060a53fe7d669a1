\* Three goroutines and two colliding algorithms; a second name is only looked up.
SPECIFICATION FairSpec
CONSTANTS
  Callers = {g1, g2, g3}
  x25519 = x25519
  x25519bis = x25519bis
  X25519 = X25519
  MLKEM768 = MLKEM768
  Names = {X25519, MLKEM768}
  Algorithms = {x25519, x25519bis}
  NameOf <- MCNameOf
  Nil = Nil
  None = None
  NoOne = NoOne
INVARIANTS
  TypeOK
  NoMapFault
PROPERTIES
  EntriesStable
  Linearizable
  CallsReturn
