-------------------------- MODULE SignatureProofs --------------------------
(***************************************************************************)
(* Proofs about SignatureSession, for any number of sessions of either     *)
(* scheme, of key pairs, messages and signatures: no Verify panics, what   *)
(* an Ed25519 session signs verifies under a key it returned, and sessions *)
(* keep the contract of agility.SignatureSession (SignatureContract).      *)
(***************************************************************************)
EXTENDS SignatureSession, TLAPS

-----------------------------------------------------------------------------
(* The inductive invariant *)

\* A public key, a private key and what signs with it number a key pair that
\* has been generated, so that the next key pair is new to all of them; a
\* private key of Ed25519 has its public key out.
KeyInv ==
  /\ \A s \in Sessions :
       /\ key[s] <= generated[s]
       /\ s \notin MLDSA65 /\ key[s] # 0 => <<s, key[s]>> \in pubs
  /\ \A pk \in pubs : pk[2] <= generated[pk[1]]
  /\ \A sig \in sigs : sig.by[2] <= generated[sig.by[1]]
  /\ outcome # NoOutcome => outcome.signature \in sigs

IInv == TypeOK /\ KeyInv /\ SignaturesVerify

LEMMA InitInv == Init => IInv
BY SignatureAssumption DEF Init, IInv, TypeOK, KeyInv, SignaturesVerify

\* Both ways of a GenerateKeyPair: the number of a key pair is new.
LEMMA FreshKey ==
  ASSUME IInv, NEW s \in Sessions, Fresh(s)
  PROVE  /\ generated[s] \in Nat /\ generated'[s] = generated[s] + 1
         /\ generated' = [generated EXCEPT ![s] = generated[s] + 1]
         /\ \A t \in Sessions \ {s} : generated'[t] = generated[t]
         /\ generated'[s] \in 1 .. MaxKey
         /\ <<s, generated'[s]>> \in AllPublicKeys
         /\ \A pk \in pubs : pk # <<s, generated'[s]>>
         /\ \A sig \in sigs : sig.by # <<s, generated'[s]>>
<1>1. /\ generated[s] \in Nat /\ generated'[s] = generated[s] + 1
      /\ generated' = [generated EXCEPT ![s] = generated[s] + 1]
      /\ generated'[s] \in 1 .. MaxKey
      /\ \A t \in Sessions \ {s} : generated'[t] = generated[t]
  BY SignatureAssumption DEF Fresh, IInv, TypeOK
<1>2. ASSUME NEW pk \in AllPublicKeys, pk[2] <= generated[pk[1]]
      PROVE  pk # <<s, generated'[s]>>
  BY <1>1, <1>2
<1>3. \A pk \in pubs : pk \in AllPublicKeys /\ pk[2] <= generated[pk[1]]
  BY DEF IInv, TypeOK, KeyInv
<1>4. \A sig \in sigs : sig.by \in AllPublicKeys /\ sig.by[2] <= generated[sig.by[1]]
  BY DEF IInv, TypeOK, KeyInv, Signatures
<1> QED
  BY <1>1, <1>2, <1>3, <1>4 DEF AllPublicKeys

\* A key pair more leaves what is numbered up to now in order.
LEMMA GrowsInv ==
  ASSUME IInv, NEW s \in Sessions, Fresh(s),
         pubs' \in {pubs, pubs \union {<<s, generated'[s]>>}},
         key' = [key EXCEPT ![s] = generated'[s]],
         s \notin MLDSA65 => <<s, generated'[s]>> \in pubs',
         UNCHANGED <<status, sigs, outcome>>
  PROVE  IInv'
<1> USE FreshKey
<1>1. TypeOK'
  BY SignatureAssumption DEF IInv, TypeOK, AllPublicKeys
<1>2. ASSUME NEW t \in Sessions
      PROVE  generated[t] \in Nat /\ generated'[t] \in Nat /\ generated[t] <= generated'[t]
  BY DEF IInv, TypeOK
<1>3. ASSUME NEW t \in Sessions
      PROVE  key'[t] <= generated'[t] /\ (t \notin MLDSA65 /\ key'[t] # 0 => <<t, key'[t]>> \in pubs')
  <2>1. CASE t = s
    BY <2>1, <1>2 DEF IInv, TypeOK
  <2>2. CASE t # s
    BY <2>2 DEF IInv, TypeOK, KeyInv
  <2> QED
    BY <2>1, <2>2
<1>4. ASSUME NEW pk \in AllPublicKeys, pk[2] <= generated[pk[1]]
      PROVE  pk[2] <= generated'[pk[1]]
  <2>1. pk[1] \in Sessions /\ pk[2] \in Nat
    BY DEF AllPublicKeys
  <2> QED
    BY <2>1, <1>2, <1>4
<1>5. \A pk \in pubs' : pk[2] <= generated'[pk[1]]
  <2>1. ASSUME NEW pk \in pubs PROVE pk[2] <= generated'[pk[1]]
    BY <1>4 DEF IInv, TypeOK, KeyInv
  <2>2. generated'[s] <= generated'[s]
    BY <1>2
  <2> QED
    BY <2>1, <2>2
<1>6. \A sig \in sigs' : sig.by[2] <= generated'[sig.by[1]]
  BY <1>4 DEF IInv, TypeOK, KeyInv, Signatures
<1>7. KeyInv'
  BY <1>3, <1>5, <1>6 DEF IInv, KeyInv
<1>8. SignaturesVerify'
  BY DEF IInv, SignaturesVerify
<1> QED
  BY <1>1, <1>7, <1>8 DEF IInv

LEMMA SignInv ==
  ASSUME IInv, NEW s \in Sessions, Sign(s)
  PROVE  IInv'
<1>1. PICK m \in Messages : sigs' = sigs \union {[by |-> <<s, key[s]>>, message |-> m]}
  BY DEF Sign
<1>2. key[s] \in 1 .. MaxKey
  BY SignatureAssumption DEF Sign, IInv, TypeOK
<1>3. [by |-> <<s, key[s]>>, message |-> m] \in Signatures
  BY <1>2 DEF Signatures, AllPublicKeys
<1>4. TypeOK'
  BY <1>1, <1>3 DEF Sign, IInv, TypeOK
<1>5. KeyInv'
  BY <1>1 DEF Sign, IInv, KeyInv
<1>6. SignaturesVerify'
  BY <1>1 DEF Sign, IInv, KeyInv, SignaturesVerify
<1> QED
  BY <1>4, <1>5, <1>6 DEF IInv

\* Malformed is refused, so that no Verify gets as far as the panic.
LEMMA Verified ==
  ASSUME IInv, NEW s \in Sessions, Verify(s)
  PROVE  \E m \in Messages, sig \in sigs, pk \in pubs :
           LET verified == [message |-> m, signature |-> sig, publicKey |-> pk,
                            valid |-> sig = [by |-> pk, message |-> m]]
           IN  verified \in Verifications /\ outcome' = verified
<1>1. PICK m \in Messages, sig \in sigs, pk \in pubs :
        outcome' = [message |-> m, signature |-> sig, publicKey |-> pk,
                    valid |-> sig = [by |-> pk, message |-> m]]
  BY DEF Verify, Refuses
<1>2. sig \in Signatures /\ pk \in AllPublicKeys
  BY DEF IInv, TypeOK
<1> QED
  BY <1>1, <1>2 DEF Verifications

LEMMA VerifyInv ==
  ASSUME IInv, NEW s \in Sessions, Verify(s)
  PROVE  IInv'
<1> DEFINE Verification(m, sig, pk) == [message |-> m, signature |-> sig, publicKey |-> pk,
                                        valid |-> sig = [by |-> pk, message |-> m]]
<1>1. PICK m \in Messages, sig \in sigs, pk \in pubs :
        Verification(m, sig, pk) \in Verifications /\ outcome' = Verification(m, sig, pk)
  BY Verified
<1>2. outcome' \in Verifications /\ outcome'.signature \in sigs
  BY <1>1
<1> QED
  BY <1>2 DEF Verify, IInv, TypeOK, KeyInv, SignaturesVerify

LEMMA Inductive == IInv /\ [Next]_vars => IInv'
<1> SUFFICES ASSUME IInv, [Next]_vars PROVE IInv'
  OBVIOUS
<1>1. ASSUME NEW s \in Sessions, New(s) \/ Close(s) PROVE IInv'
  BY <1>1 DEF New, Close, IInv, TypeOK, KeyInv, SignaturesVerify
<1>2. ASSUME NEW s \in Sessions, GenerateKeyPair(s) PROVE IInv'
  BY <1>2, GrowsInv DEF GenerateKeyPair
<1>3. ASSUME NEW s \in Sessions, GenerateKeyPairFails(s) PROVE IInv'
  BY <1>3, GrowsInv DEF GenerateKeyPairFails
<1>4. CASE UNCHANGED vars
  BY <1>4 DEF vars, IInv, TypeOK, KeyInv, SignaturesVerify
<1> QED
  BY <1>1, <1>2, <1>3, <1>4, SignInv, VerifyInv DEF Next

LEMMA Invariant == Spec => []IInv
BY InitInv, Inductive, PTL DEF Spec

\* No Verify of either scheme panics, whatever it is given as a public key, and
\* the types (ed25519.go:53-55).
THEOREM TypeCorrect == Spec => []TypeOK
BY Invariant, PTL DEF IInv

\* What an Ed25519 session signs verifies under a public key it has returned
\* (ed25519.go:36-50).
THEOREM Ed25519Verifies == Spec => []SignaturesVerify
BY Invariant, PTL DEF IInv

-----------------------------------------------------------------------------
(* Refinement *)

\* While the public keys stay, so does what their signatures stand for; a new
\* public key is that of no earlier signature.
LEMMA GrowsAbstractly ==
  ASSUME IInv, NEW s \in Sessions, Fresh(s),
         pubs' \in {pubs, pubs \union {<<s, generated'[s]>>}},
         key' = [key EXCEPT ![s] = generated'[s]],
         UNCHANGED <<status, sigs, outcome>>
  PROVE  /\ Sigs' = Sigs /\ Outcome' = Outcome
         /\ Current' = [Current EXCEPT ![s] =
                          IF <<s, generated'[s]>> \in pubs' THEN <<s, generated'[s]>> ELSE NoKey]
<1>1. \A sig \in sigs : BySig(sig)' = BySig(sig)
  BY FreshKey DEF BySig, By
<1>2. Sigs' = Sigs
  BY <1>1 DEF Sigs
<1>3. Outcome' = Outcome
  BY <1>1 DEF Outcome, IInv, KeyInv
<1>4. key'[s] = generated'[s] /\ \A t \in Sessions \ {s} : key'[t] = key[t]
  BY DEF IInv, TypeOK
<1>5. \A t \in Sessions \ {s} : Current'[t] = Current[t]
  BY <1>4 DEF Current, By
<1>6. Current'[s] = IF <<s, generated'[s]>> \in pubs' THEN <<s, generated'[s]>> ELSE NoKey
  BY <1>4 DEF Current, By
<1> QED
  BY <1>2, <1>3, <1>5, <1>6 DEF Current

\* Sessions of either scheme keep the contract of agility.SignatureSession
\* (signature.go:13-20).
THEOREM IsASignature == Spec => MeetsContract
<1>1. Init => Contract!Init
  BY SignatureAssumption DEF Init, Contract!Init, Current, Sigs, Outcome, By
<1>2. IInv /\ [Next]_vars => [Contract!Next]_Contract!vars
  <2> SUFFICES ASSUME IInv, [Next]_vars PROVE [Contract!Next]_Contract!vars
    OBVIOUS
  <2>1. ASSUME NEW s \in Sessions, New(s) PROVE Contract!New(s)
    BY <2>1 DEF New, Contract!New, Current, Sigs, Outcome, By, BySig
  <2>2. ASSUME NEW s \in Sessions, GenerateKeyPair(s) PROVE Contract!GenerateKeyPair(s)
    <3>1. Fresh(s) /\ key' = [key EXCEPT ![s] = generated'[s]]
            /\ pubs' = pubs \union {<<s, generated'[s]>>} /\ UNCHANGED <<status, sigs, outcome>>
      BY <2>2 DEF GenerateKeyPair
    <3>2. <<s, generated'[s]>> \in AllPublicKeys \ pubs
      BY <3>1, FreshKey
    <3>3. Sigs' = Sigs /\ Outcome' = Outcome /\ Current' = [Current EXCEPT ![s] = <<s, generated'[s]>>]
      BY <3>1, GrowsAbstractly
    <3> QED
      BY <3>1, <3>2, <3>3 DEF Fresh, Contract!GenerateKeyPair
  <2>3. ASSUME NEW s \in Sessions, GenerateKeyPairFails(s) PROVE Contract!GenerateKeyPairFails(s)
    <3>1. Fresh(s) /\ key' = [key EXCEPT ![s] = generated'[s]]
            /\ pubs' = pubs /\ UNCHANGED <<status, sigs, outcome>>
      BY <2>3 DEF GenerateKeyPairFails
    <3>2. <<s, generated'[s]>> \notin pubs
      BY <3>1, FreshKey
    <3>3. Sigs' = Sigs /\ Outcome' = Outcome /\ Current' = [Current EXCEPT ![s] = NoKey]
      BY <3>1, <3>2, GrowsAbstractly
    <3> QED
      BY <3>1, <3>3 DEF Fresh, Contract!GenerateKeyPairFails
  <2>4. ASSUME NEW s \in Sessions, Sign(s) PROVE Contract!Sign(s)
    <3>1. PICK m \in Messages : sigs' = sigs \union {[by |-> <<s, key[s]>>, message |-> m]}
      BY <2>4 DEF Sign
    <3>2. \A sig : BySig(sig)' = BySig(sig)
      BY <2>4 DEF Sign, BySig, By
    <3>3. Sigs' = {BySig(sig) : sig \in sigs'}
      BY <3>2 DEF Sigs
    <3>4. BySig([by |-> <<s, key[s]>>, message |-> m]) = [by |-> Current[s], message |-> m]
      BY DEF BySig, Current
    <3>5. Sigs' = Sigs \union {[by |-> Current[s], message |-> m]}
      BY <3>1, <3>3, <3>4 DEF Sigs
    <3>6. Current' = Current /\ Outcome' = Outcome
      BY <2>4 DEF Sign, Current, Outcome, BySig, By
    <3> QED
      BY <2>4, <3>5, <3>6 DEF Sign, Contract!Sign
  <2>5. ASSUME NEW s \in Sessions, Verify(s) PROVE Contract!Verify(s)
    <3> DEFINE Verification(m, sig, pk) == [message |-> m, signature |-> sig, publicKey |-> pk,
                                        valid |-> sig = [by |-> pk, message |-> m]]
    <3>1. PICK m \in Messages, sig \in sigs, pk \in pubs :
            Verification(m, sig, pk) \in Verifications /\ outcome' = Verification(m, sig, pk)
      BY <2>5, Verified
    <3>2. sig = [by |-> sig.by, message |-> sig.message] /\ pk # NoKey
      BY SignatureAssumption DEF IInv, TypeOK, Signatures
    <3>3. By(sig.by) = pk <=> sig.by = pk
      BY <3>2 DEF By
    <3>4. sig = [by |-> pk, message |-> m] <=> BySig(sig) = [by |-> pk, message |-> m]
      BY <3>2, <3>3 DEF BySig
    <3>5. \A x : BySig(x)' = BySig(x)
      BY <2>5 DEF Verify, BySig, By
    <3>6. Outcome' = [outcome' EXCEPT !.signature = BySig(sig)]
      BY <3>1, <3>5, SignatureAssumption DEF Outcome
    <3>7. Outcome' = Verification(m, BySig(sig), pk)
      BY <3>1, <3>4, <3>6
    <3>8. BySig(sig) \in Sigs
      BY DEF Sigs
    <3>9. Current' = Current /\ Sigs' = Sigs
      BY <2>5 DEF Verify, Current, Sigs, BySig, By
    <3> QED
      BY <2>5, <3>7, <3>8, <3>9 DEF Verify, Contract!Verify
  <2>6. ASSUME NEW s \in Sessions, Close(s) PROVE Contract!Close(s)
    BY <2>6 DEF Close, Contract!Close, Current, Sigs, Outcome, By, BySig
  <2>7. CASE UNCHANGED vars
    BY <2>7 DEF vars, Contract!vars, Current, Sigs, Outcome, By, BySig
  <2> QED
    BY <2>1, <2>2, <2>3, <2>4, <2>5, <2>6, <2>7 DEF Next, Contract!Next
<1> QED
  BY <1>1, <1>2, Invariant, PTL DEF Spec, MeetsContract, Contract!Spec
=============================================================================
