------------------------- MODULE SignatureContract -------------------------
(***************************************************************************)
(* What agility.SignatureSession promises its callers                      *)
(* (internal/agility/signature.go), whatever the algorithm: a signature    *)
(* verifies for the message it was made for, under the public key its      *)
(* signer stood by, and for nothing else; a verifier needs no key pair.    *)
(* A session stands by the public key of its last GenerateKeyPair; one     *)
(* that fails may leave it without any, and what it signs then verifies    *)
(* under no public key.                                                    *)
(*                                                                         *)
(* Public keys and signatures travel in any order, any number of times.    *)
(***************************************************************************)

CONSTANTS
  Sessions,    \* SignatureSession values the callers create
  Messages,    \* messages
  PublicKeys,  \* public keys
  NoKey,       \* no public key
  NoOutcome    \* no Verify yet

VARIABLES
  status,   \* status[s]: "none", "held" by a caller, or "closed"
  current,  \* current[s]: the public key s stands by, or NoKey
  pubs,     \* the public keys GenerateKeyPair has returned
  sigs,     \* the signatures Sign has returned: the key they are by, the message
  outcome   \* the arguments and the result of the last Verify

vars == <<status, current, pubs, sigs, outcome>>

Init ==
  /\ status = [s \in Sessions |-> "none"]
  /\ current = [s \in Sessions |-> NoKey]
  /\ pubs = {}
  /\ sigs = {}
  /\ outcome = NoOutcome

New(s) ==
  /\ status[s] = "none"
  /\ status' = [status EXCEPT ![s] = "held"]
  /\ UNCHANGED <<current, pubs, sigs, outcome>>

GenerateKeyPair(s) ==
  /\ status[s] = "held"
  /\ \E pk \in PublicKeys \ pubs :
       /\ current' = [current EXCEPT ![s] = pk]
       /\ pubs' = pubs \union {pk}
  /\ UNCHANGED <<status, sigs, outcome>>

GenerateKeyPairFails(s) ==
  /\ status[s] = "held"
  /\ current' = [current EXCEPT ![s] = NoKey]
  /\ UNCHANGED <<status, pubs, sigs, outcome>>

Sign(s) ==
  /\ status[s] = "held"
  /\ \E m \in Messages : sigs' = sigs \union {[by |-> current[s], message |-> m]}
  /\ UNCHANGED <<status, current, pubs, outcome>>

\* A Verify that returns an error changes nothing.
Verify(s) ==
  /\ status[s] = "held"
  /\ \E m \in Messages, sig \in sigs, pk \in pubs :
       outcome' = [message |-> m, signature |-> sig, publicKey |-> pk,
                   valid |-> sig = [by |-> pk, message |-> m]]
  /\ UNCHANGED <<status, current, pubs, sigs>>

Close(s) ==
  /\ status[s] = "held"
  /\ status' = [status EXCEPT ![s] = "closed"]
  /\ UNCHANGED <<current, pubs, sigs, outcome>>

Next ==
  \E s \in Sessions :
    New(s) \/ GenerateKeyPair(s) \/ GenerateKeyPairFails(s) \/ Sign(s) \/ Verify(s) \/ Close(s)

Spec == Init /\ [][Next]_vars
=============================================================================
