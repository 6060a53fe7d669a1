----------------------------- MODULE HybridKEM -----------------------------
(***************************************************************************)
(* KEM sessions of a hybrid of N component KEMs (internal/kem/hybrid over  *)
(* internal/kem/x25519 and internal/kem/mlkem768).  N = 1 is one plain     *)
(* KEM, N = 2 the registered "Hybrid(X25519+ML-KEM-768)"; a hybrid nested  *)
(* in a hybrid visits its leaves from left to right and is N >= 3.         *)
(*                                                                         *)
(* Any component may fail in any call that can return an error, Close      *)
(* included.  x25519 keeps its key pair when GenerateKeyPair fails; what   *)
(* liboqs leaves behind (mlkem768.go:42-44 passes its error on) is not     *)
(* known here: the old private key, none, or one that belongs to no public *)
(* key anybody has.  Callers pass public keys and ciphertexts to each      *)
(* other in any order.                                                     *)
(*                                                                         *)
(* Cryptography is ideal: a component secret is determined by the key pair *)
(* that produced it and the encapsulation, a decapsulation with another    *)
(* key pair gives an unrelated secret (x25519 computes another point,      *)
(* ML-KEM rejects implicitly), and HKDF-SHA384 has no collisions.          *)
(***************************************************************************)
EXTENDS Naturals

CONSTANTS
  Sessions,   \* sessions created with New
  N,          \* how many component KEMs the hybrid composes
  Liboqs,     \* which of them are implemented with liboqs
  Junk,       \* a private key that belongs to no public key
  MaxGen,     \* bound: GenerateKeyPair calls of one session
  MaxEncaps,  \* bound: successful encapsulations
  NoKey,      \* no public key
  NoOutcome   \* no secret returned by Decapsulate yet

VARIABLES
  status,   \* status[s]: "none", "held" by a caller, "closed", or inside New
            \* ("opening", "unwinding" after a failure) or Close ("closing")
  open,     \* open[s]: the components of s holding a live component session
  closeErr, \* closeErr[s]: the component whose error Close returns, 0 for none
  calls,    \* calls[s]: how many times GenerateKeyPair was called
  key,      \* key[s][c]: the call component c of s has its key pair from, 0
            \* for no key pair, or Junk
  latest,   \* latest[s]: the public key s returned last
  pubs,     \* the public keys returned so far
  cts,      \* the ciphertexts returned so far
  outcome   \* outcome[s]: the ciphertext s decapsulated last, and the secret

vars == <<status, open, closeErr, calls, key, latest, pubs, cts, outcome>>

Components == 1 .. N
NoKeys == [c \in Components |-> 0]

\* A public key frames one key per component, a ciphertext is made for one.
PublicKeys  == [owner : Sessions, gens : [Components -> 1 .. MaxGen]]
Ciphertexts == [pub : PublicKeys, nonce : 1 .. MaxEncaps]

\* The secret of one component tells whose key pair it comes from, which one
\* of the session's, and which encapsulation.
Secrets ==
  [Components -> [owner : Sessions, gen : 1 .. MaxGen \union {Junk}, nonce : 1 .. MaxEncaps]]

Decapsulated == [ct : Ciphertexts, secret : Secrets]

ASSUME HybridAssumption ==
  /\ N \in Nat \ {0} /\ MaxGen \in Nat /\ MaxEncaps \in Nat
  /\ Liboqs \subseteq Components
  /\ Junk \notin Nat
  /\ NoKey \notin PublicKeys
  /\ NoOutcome \notin Decapsulated

\* Mutant: only the last component's secret reaches the HKDF.
CombineLast(ss) == [c \in Components |-> ss[N]]

Combine(ss) == ss

\* What a session with key pairs gens derives for one encapsulation.
Secret(s, gens, nonce) ==
  Combine([c \in Components |-> [owner |-> s, gen |-> gens[c], nonce |-> nonce]])

\* The secret Encapsulate returned together with ct.
EncapSecret(ct) == Secret(ct.pub.owner, ct.pub.gens, ct.nonce)

Init ==
  /\ status = [s \in Sessions |-> "none"]
  /\ open = [s \in Sessions |-> {}]
  /\ closeErr = [s \in Sessions |-> 0]
  /\ calls = [s \in Sessions |-> 0]
  /\ key = [s \in Sessions |-> NoKeys]
  /\ latest = [s \in Sessions |-> NoKey]
  /\ pubs = {}
  /\ cts = {}
  /\ outcome = [s \in Sessions |-> NoOutcome]

Opened(s, c) == \A d \in Components : d \in open[s] <=> d <= c

\* New opens the components from left to right.  When the first one fails,
\* nothing has changed; when there is none left, the caller has a session.
NewComponent(s) ==
  /\ status[s] \in {"none", "opening"}
  /\ \E c \in Components :
       /\ Opened(s, c - 1)
       /\ status' = [status EXCEPT ![s] = IF c = N THEN "held" ELSE "opening"]
       /\ open' = [open EXCEPT ![s] = @ \union {c}]
  /\ UNCHANGED <<closeErr, calls, key, latest, pubs, cts, outcome>>

\* Mutant: the component sessions opened before the failure stay open.
NewFailsUnclosed(s) ==
  /\ status[s] = "opening"
  /\ status' = [status EXCEPT ![s] = "none"]
  /\ UNCHANGED <<open, closeErr, calls, key, latest, pubs, cts, outcome>>

\* The New of the next component fails.
NewFails(s) ==
  /\ status[s] = "opening"
  /\ status' = [status EXCEPT ![s] = "unwinding"]
  /\ UNCHANGED <<open, closeErr, calls, key, latest, pubs, cts, outcome>>

\* Those opened before are closed, in the order the nesting of the hybrid
\* gives, and what their Close returns is ignored; then New returns.
Unwind(s) ==
  /\ status[s] = "unwinding"
  /\ \E c \in open[s] :
       /\ open' = [open EXCEPT ![s] = @ \ {c}]
       /\ status' = [status EXCEPT ![s] = IF open[s] = {c} THEN "none" ELSE "unwinding"]
  /\ UNCHANGED <<closeErr, calls, key, latest, pubs, cts, outcome>>

\* The components before f have the key pair of this call.
Rekeyed(s, f) ==
  [c \in Components |-> IF c < f THEN calls[s] + 1 ELSE key[s][c]]

\* Mutant: the error of the last component is ignored.
GenerateKeyPairUnchecked(s) ==
  /\ status[s] = "held" /\ calls[s] < MaxGen
  /\ calls' = [calls EXCEPT ![s] = @ + 1]
  /\ \E f \in {N, N + 1} :
       LET pub == [owner |-> s, gens |-> Rekeyed(s, f)] IN
       /\ key' = [key EXCEPT ![s] = pub.gens]
       /\ latest' = [latest EXCEPT ![s] = pub]
       /\ pubs' = pubs \union {pub}
  /\ UNCHANGED <<status, open, closeErr, cts, outcome>>

GenerateKeyPair(s) ==
  LET pub == [owner |-> s, gens |-> Rekeyed(s, N + 1)] IN
  /\ status[s] = "held" /\ calls[s] < MaxGen
  /\ calls' = [calls EXCEPT ![s] = @ + 1]
  /\ key' = [key EXCEPT ![s] = pub.gens]
  /\ latest' = [latest EXCEPT ![s] = pub]
  /\ pubs' = pubs \union {pub}
  /\ UNCHANGED <<status, open, closeErr, cts, outcome>>

\* The private keys that can be there after a GenerateKeyPair of component f
\* of s that failed.
LeftBehind(s, f) == {key[s][f]} \union (IF f \in Liboqs THEN {0, Junk} ELSE {})

\* The GenerateKeyPair of component f fails: the error is returned, the
\* components before f keep the new key pair, those after it the old one.
GenerateKeyPairFails(s) ==
  /\ status[s] = "held" /\ calls[s] < MaxGen
  /\ calls' = [calls EXCEPT ![s] = @ + 1]
  /\ \E f \in Components : \E k \in LeftBehind(s, f) :
       key' = [key EXCEPT ![s] = [Rekeyed(s, f) EXCEPT ![f] = k]]
  /\ UNCHANGED <<status, open, closeErr, latest, pubs, cts, outcome>>

\* Encapsulate uses ephemeral keys only; one that fails changes nothing.
Encapsulate(s) ==
  /\ status[s] = "held"
  /\ \E pub \in pubs, n \in 1 .. MaxEncaps :
       /\ \A ct \in cts : ct.nonce < n
       /\ \A m \in 1 .. n - 1 : \E ct \in cts : ct.nonce = m
       /\ cts' = cts \union {[pub |-> pub, nonce |-> n]}
  /\ UNCHANGED <<status, open, closeErr, calls, key, latest, pubs, outcome>>

\* A component without a key pair makes the call fail, and change nothing;
\* one with junk answers with a secret nobody else has.
Decapsulate(s) ==
  /\ status[s] = "held"
  /\ \A c \in Components : key[s][c] # 0
  /\ \E ct \in cts :
       outcome' = [outcome EXCEPT ![s] =
                     [ct |-> ct, secret |-> Secret(s, key[s], ct.nonce)]]
  /\ UNCHANGED <<status, open, closeErr, calls, key, latest, pubs, cts>>

\* Mutant: the first error ends the Close.
CloseComponentOrReturn(s) ==
  /\ status[s] \in {"held", "closing"}
  /\ \E c \in Components, err \in BOOLEAN :
       /\ \A d \in Components : d \in open[s] <=> d >= c
       /\ open' = [open EXCEPT ![s] = @ \ {c}]
       /\ closeErr' = [closeErr EXCEPT ![s] = IF err THEN c ELSE 0]
       /\ status' = [status EXCEPT ![s] = IF err \/ c = N THEN "closed" ELSE "closing"]
  /\ UNCHANGED <<calls, key, latest, pubs, cts, outcome>>

\* Close closes the components from left to right, whatever the Close of
\* those before returned, and returns the first error.
CloseComponent(s) ==
  /\ status[s] \in {"held", "closing"}
  /\ \E c \in Components, err \in BOOLEAN :
       /\ \A d \in Components : d \in open[s] <=> d >= c
       /\ open' = [open EXCEPT ![s] = @ \ {c}]
       /\ closeErr' = [closeErr EXCEPT ![s] = IF err /\ @ = 0 THEN c ELSE @]
       /\ status' = [status EXCEPT ![s] = IF c = N THEN "closed" ELSE "closing"]
  /\ UNCHANGED <<calls, key, latest, pubs, cts, outcome>>

Next ==
  \E s \in Sessions :
    \/ NewComponent(s) \/ NewFails(s) \/ Unwind(s)
    \/ GenerateKeyPair(s) \/ GenerateKeyPairFails(s)
    \/ Encapsulate(s) \/ Decapsulate(s)
    \/ CloseComponent(s)

Spec == Init /\ [][Next]_vars

-----------------------------------------------------------------------------
(* Properties *)

\* Type invariant; a public key holds a key of every component, and a
\* ciphertext is made for a public key that was returned.
TypeOK ==
  /\ status \in [Sessions -> {"none", "opening", "unwinding", "held", "closing", "closed"}]
  /\ open \in [Sessions -> SUBSET Components]
  /\ closeErr \in [Sessions -> 0 .. N]
  /\ calls \in [Sessions -> 0 .. MaxGen]
  /\ key \in [Sessions -> [Components -> 0 .. MaxGen \union {Junk}]]
  /\ latest \in [Sessions -> PublicKeys \union {NoKey}]
  /\ pubs \subseteq PublicKeys
  /\ cts \subseteq [pub : pubs, nonce : 1 .. MaxEncaps]
  /\ outcome \in [Sessions -> Decapsulated \union {NoOutcome}]

\* No component session outlives its hybrid, and a caller's hybrid has all
\* of them: a New that fails half way has closed what it opened when it
\* returns (combiner.go:51-55), and a Close every component, although the
\* first may have reported an error (combiner.go:111-118).
NoComponentLeak ==
  \A s \in Sessions :
    /\ status[s] \in {"none", "closed"} => open[s] = {}
    /\ status[s] = "held" => open[s] = Components

\* The refinement mapping: a caller has a session from the return of New to
\* that of Close, and the session stands by the public key it returned last
\* if every component still has the private key for it.
Status ==
  [s \in Sessions |->
     IF status[s] \in {"none", "opening", "unwinding"} THEN "none"
     ELSE IF status[s] \in {"held", "closing"} THEN "held" ELSE "closed"]

Current ==
  [s \in Sessions |->
     IF latest[s] # NoKey /\ latest[s] = [owner |-> s, gens |-> key[s]]
       THEN latest[s] ELSE NoKey]

Outcome ==
  [s \in Sessions |->
     IF outcome[s] = NoOutcome THEN NoOutcome
     ELSE [ct |-> outcome[s].ct, match |-> outcome[s].secret = EncapSecret(outcome[s].ct)]]

Contract == INSTANCE KEMContract WITH
  PublicKeyOf <- [ct \in Ciphertexts |-> ct.pub],
  status <- Status, current <- Current, outcome <- Outcome

\* A hybrid is again a KEM session: as long as no GenerateKeyPair failed
\* since, the two sides agree; and they agree only if every component of
\* both used the same key pair, whatever a failed one left behind
\* (combiner.go:63-109, 155-163, x25519.go:63-66, mlkem768.go:42-52).
MeetsContract == Contract!Spec
=============================================================================
