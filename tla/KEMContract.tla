---------------------------- MODULE KEMContract ----------------------------
(***************************************************************************)
(* What agility.KEMSession promises its callers (internal/agility/kem.go,  *)
(* "Data Flow" in docs/architecture.md), whatever the algorithm: a         *)
(* ciphertext made for the public key a session stands by decapsulates to  *)
(* the secret its encapsulator holds, and no other ciphertext does.  A     *)
(* session stands by the public key of its last GenerateKeyPair; one that  *)
(* fails may leave it without any.                                         *)
(*                                                                         *)
(* Public keys and ciphertexts travel in any order, any number of times,   *)
(* or not at all.                                                          *)
(***************************************************************************)

CONSTANTS
  Sessions,     \* KEMSession values the callers create
  PublicKeys,   \* public keys
  Ciphertexts,  \* ciphertexts
  PublicKeyOf,  \* PublicKeyOf[ct]: the public key ct was made for
  NoKey,        \* no public key
  NoOutcome     \* no Decapsulate yet

VARIABLES
  status,   \* status[s]: "none", "held" by a caller, or "closed"
  current,  \* current[s]: the public key s stands by, or NoKey
  pubs,     \* the public keys GenerateKeyPair has returned
  cts,      \* the ciphertexts Encapsulate has returned
  outcome   \* outcome[s]: the last Decapsulate of s, and whether the secrets match

vars == <<status, current, pubs, cts, outcome>>

Outcomes == [ct : Ciphertexts, match : BOOLEAN] \union {NoOutcome}

Init ==
  /\ status = [s \in Sessions |-> "none"]
  /\ current = [s \in Sessions |-> NoKey]
  /\ pubs = {}
  /\ cts = {}
  /\ outcome = [s \in Sessions |-> NoOutcome]

New(s) ==
  /\ status[s] = "none"
  /\ status' = [status EXCEPT ![s] = "held"]
  /\ UNCHANGED <<current, pubs, cts, outcome>>

GenerateKeyPair(s) ==
  /\ status[s] = "held"
  /\ \E pk \in PublicKeys \ pubs :
       /\ current' = [current EXCEPT ![s] = pk]
       /\ pubs' = pubs \union {pk}
  /\ UNCHANGED <<status, cts, outcome>>

GenerateKeyPairFails(s) ==
  /\ status[s] = "held"
  /\ current' = [current EXCEPT ![s] = NoKey]
  /\ UNCHANGED <<status, pubs, cts, outcome>>

Encapsulate(s) ==
  /\ status[s] = "held"
  /\ \E ct \in Ciphertexts \ cts :
       /\ PublicKeyOf[ct] \in pubs
       /\ cts' = cts \union {ct}
  /\ UNCHANGED <<status, current, pubs, outcome>>

\* A Decapsulate that fails changes nothing.
Decapsulate(s) ==
  /\ status[s] = "held"
  /\ \E ct \in cts :
       outcome' = [outcome EXCEPT ![s] = [ct |-> ct, match |-> PublicKeyOf[ct] = current[s]]]
  /\ UNCHANGED <<status, current, pubs, cts>>

Close(s) ==
  /\ status[s] = "held"
  /\ status' = [status EXCEPT ![s] = "closed"]
  /\ UNCHANGED <<current, pubs, cts, outcome>>

Next ==
  \E s \in Sessions :
    New(s) \/ GenerateKeyPair(s) \/ GenerateKeyPairFails(s) \/ Encapsulate(s)
      \/ Decapsulate(s) \/ Close(s)

Spec == Init /\ [][Next]_vars
=============================================================================
