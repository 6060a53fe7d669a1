-------------------------- MODULE SignatureSession --------------------------
(***************************************************************************)
(* Signature sessions: Ed25519 (internal/sig/ed25519/ed25519.go) and       *)
(* ML-DSA-65 (internal/sig/mldsa65/mldsa65.go).  crypto/ed25519 and liboqs *)
(* are external: signatures are ideal, crypto/ed25519 panics when a public *)
(* key has the wrong length, liboqs returns an error.  A GenerateKeyPair   *)
(* that fails in liboqs may leave a private key no public key belongs to.  *)
(*                                                                         *)
(* key[s] numbers the key pairs of a session; <<s, k>> is the public key,  *)
(* and what a private key has signed carries it.                           *)
(***************************************************************************)
EXTENDS Naturals, FiniteSets

CONSTANTS
  Sessions,  \* signature sessions
  MLDSA65,   \* those of ML-DSA-65; the others are of Ed25519
  Messages,  \* messages
  Malformed, \* bytes that have not the length of a public key
  MaxKey,    \* bound on the key pairs of a session
  MaxSigs,   \* bound on the signatures
  NoKey, NoOutcome, Panic

AllPublicKeys == Sessions \X (1 .. MaxKey)

Signatures == [by : AllPublicKeys, message : Messages]

Verifications ==
  [message : Messages, signature : Signatures, publicKey : AllPublicKeys, valid : BOOLEAN]

ASSUME SignatureAssumption ==
  /\ MLDSA65 \subseteq Sessions
  /\ MaxKey \in Nat
  /\ Malformed \notin AllPublicKeys /\ NoKey \notin AllPublicKeys
  /\ NoOutcome \notin Verifications /\ Panic \notin Verifications

VARIABLES
  status,     \* status[s]: "none", "held" by a caller, or "closed"
  key,        \* key[s]: the private key of s, 0 for none
  generated,  \* generated[s]: key pairs s has generated
  pubs,       \* the public keys GenerateKeyPair has returned
  sigs,       \* the signatures Sign has returned
  outcome     \* the arguments and the result of the last Verify

vars == <<status, key, generated, pubs, sigs, outcome>>

Init ==
  /\ status = [s \in Sessions |-> "none"]
  /\ key = [s \in Sessions |-> 0] /\ generated = [s \in Sessions |-> 0]
  /\ pubs = {} /\ sigs = {}
  /\ outcome = NoOutcome

\* A New that fails makes no session.
New(s) ==
  /\ status[s] = "none"
  /\ status' = [status EXCEPT ![s] = "held"]
  /\ UNCHANGED <<key, generated, pubs, sigs, outcome>>

Fresh(s) ==
  /\ status[s] = "held" /\ generated[s] < MaxKey
  /\ generated' = [generated EXCEPT ![s] = @ + 1]

\* Mutant: a session that has a private key keeps it.
GenerateKeyPairOnce(s) ==
  /\ Fresh(s)
  /\ key' = [key EXCEPT ![s] = IF @ = 0 THEN generated'[s] ELSE @]
  /\ pubs' = pubs \union {<<s, generated'[s]>>}
  /\ UNCHANGED <<status, sigs, outcome>>

GenerateKeyPair(s) ==
  /\ Fresh(s)
  /\ key' = [key EXCEPT ![s] = generated'[s]]
  /\ pubs' = pubs \union {<<s, generated'[s]>>}
  /\ UNCHANGED <<status, sigs, outcome>>

\* Mutant: the private key is stored before the error is looked at.
GenerateKeyPairFailsLate(s) ==
  /\ Fresh(s)
  /\ key' = [key EXCEPT ![s] = generated'[s]]
  /\ UNCHANGED <<status, pubs, sigs, outcome>>

\* The error of Ed25519 comes before the assignment.
GenerateKeyPairFails(s) ==
  /\ s \in MLDSA65
  /\ Fresh(s)
  /\ key' = [key EXCEPT ![s] = generated'[s]]
  /\ UNCHANGED <<status, pubs, sigs, outcome>>

\* It is an error before GenerateKeyPair.
Sign(s) ==
  /\ status[s] = "held" /\ key[s] # 0 /\ Cardinality(sigs) < MaxSigs
  /\ \E m \in Messages : sigs' = sigs \union {[by |-> <<s, key[s]>>, message |-> m]}
  /\ UNCHANGED <<status, key, generated, pubs, outcome>>

\* Mutant: without the check of the length.
RefusesNone(s, pk) == FALSE

Refuses(s, pk) == pk = Malformed

Verify(s) ==
  /\ status[s] = "held"
  /\ \E m \in Messages, sig \in sigs, pk \in pubs \union {Malformed} :
       /\ ~Refuses(s, pk)
       /\ outcome' = IF pk = Malformed THEN Panic
                     ELSE [message |-> m, signature |-> sig, publicKey |-> pk,
                           valid |-> sig = [by |-> pk, message |-> m]]
  /\ UNCHANGED <<status, key, generated, pubs, sigs>>

Close(s) ==
  /\ status[s] = "held"
  /\ status' = [status EXCEPT ![s] = "closed"]
  /\ UNCHANGED <<key, generated, pubs, sigs, outcome>>

Next ==
  \E s \in Sessions :
    New(s) \/ GenerateKeyPair(s) \/ GenerateKeyPairFails(s) \/ Sign(s) \/ Verify(s) \/ Close(s)

Spec == Init /\ [][Next]_vars

-----------------------------------------------------------------------------
(* Properties *)

\* Type invariant; no Verify panics, whatever bytes it is given as a public key
\* (ed25519.go:53-55).
TypeOK ==
  /\ status \in [Sessions -> {"none", "held", "closed"}]
  /\ key \in [Sessions -> 0 .. MaxKey] /\ generated \in [Sessions -> 0 .. MaxKey]
  /\ pubs \subseteq AllPublicKeys /\ sigs \subseteq Signatures
  /\ outcome \in Verifications \union {NoOutcome}

\* Whatever an Ed25519 session signs verifies under a public key it has
\* returned, after key pairs were replaced and calls have failed
\* (ed25519.go:36-50).
SignaturesVerify ==
  \A sig \in sigs : sig.by[1] \notin MLDSA65 => sig.by \in pubs

\* The signature by a private key whose public key was not returned is by none.
By(pk) == IF pk \in pubs THEN pk ELSE NoKey

BySig(sig) == [by |-> By(sig.by), message |-> sig.message]

Current == [s \in Sessions |-> By(<<s, key[s]>>)]

Sigs == {BySig(sig) : sig \in sigs}

Outcome == IF outcome = NoOutcome THEN NoOutcome
           ELSE [outcome EXCEPT !.signature = BySig(@)]

Contract == INSTANCE SignatureContract WITH
  PublicKeys <- AllPublicKeys, current <- Current, sigs <- Sigs, outcome <- Outcome

\* Sessions of either scheme keep the contract of agility.SignatureSession, in
\* any order of calls of any number of signers and verifiers: a signature
\* verifies for its message under the public key its session stood by, and for
\* nothing else (signature.go:13-20).
MeetsContract == Contract!Spec
=============================================================================
