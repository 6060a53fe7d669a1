---------------------------- MODULE HybridProofs ----------------------------
(***************************************************************************)
(* Proofs about internal/kem/hybrid.  HybridKEM, for any number of         *)
(* sessions and components, any pattern of failures and any number of      *)
(* re-keyings: the types, that no component session leaks, and that a      *)
(* hybrid of KEMs is a KEM (KEMContract).  Framing, for every radix and    *)
(* every byte string: unframe never slices out of range, what it accepts   *)
(* is the frame of what it returns, and it refuses no frame of two         *)
(* components.                                                             *)
(***************************************************************************)
EXTENDS HybridKEM, Framing, SequenceTheorems, TLAPS

-----------------------------------------------------------------------------
(* HybridKEM: the inductive invariant *)

\* New opens a prefix of the components and Close closes one; an unwinding
\* New still has something to close.
OpenInv ==
  \A s \in Sessions :
    /\ status[s] \in {"none", "closed"} => open[s] = {}
    /\ status[s] = "opening" => \E c \in Components : c < N /\ open[s] = 1 .. c
    /\ status[s] = "unwinding" => open[s] # {}
    /\ status[s] = "held" => open[s] = Components
    /\ status[s] = "closing" => \E c \in Components : open[s] = c .. N

\* A private key that belongs to a public key is of a call of the session,
\* and not of one before the public key returned last.
KeyInv ==
  \A s \in Sessions : \A c \in Components :
    /\ key[s][c] \in Nat => key[s][c] <= calls[s]
    /\ latest[s] # NoKey =>
         /\ latest[s].owner = s
         /\ latest[s].gens[c] <= calls[s]
         /\ key[s][c] \in Nat \ {0} => latest[s].gens[c] <= key[s][c]

\* No public key is newer than the one its session returned last.
FreshInv ==
  \A pub \in pubs :
    /\ latest[pub.owner] # NoKey
    /\ \A c \in Components : pub.gens[c] <= latest[pub.owner].gens[c]

IInv == TypeOK /\ OpenInv /\ KeyInv /\ FreshInv

-----------------------------------------------------------------------------
(* Operators *)

LEMMA LeqTransitive ==
  ASSUME NEW i \in Nat, NEW j \in Nat, NEW k \in Nat, i <= j, j <= k
  PROVE  i <= k
OBVIOUS

LEMMA NComponent == N \in Components /\ 1 \in Components /\ Components \subseteq Nat
BY HybridAssumption DEF Components

\* Two sides hold the same secret exactly if every component used the same
\* key pair.
LEMMA SecretEqual ==
  ASSUME NEW s, NEW t, NEW n, NEW g, NEW h,
         DOMAIN g = Components, DOMAIN h = Components, g = [c \in Components |-> g[c]],
         h = [c \in Components |-> h[c]]
  PROVE  Secret(s, g, n) = Secret(t, h, n) <=> s = t /\ g = h
<1> DEFINE Parts(o, k) == [c \in Components |-> [owner |-> o, gen |-> k[c], nonce |-> n]]
<1>1. ASSUME Parts(s, g) = Parts(t, h) PROVE s = t /\ g = h
  <2>1. ASSUME NEW c \in Components
        PROVE  [owner |-> s, gen |-> g[c], nonce |-> n] = [owner |-> t, gen |-> h[c], nonce |-> n]
    <3>1. Parts(s, g)[c] = Parts(t, h)[c]
      BY <1>1
    <3> QED
      BY <3>1
  <2>2. ASSUME NEW c \in Components PROVE s = t /\ g[c] = h[c]
    BY <2>1
  <2> QED
    BY <2>2, NComponent
<1> QED
  BY <1>1 DEF Secret, Combine

-----------------------------------------------------------------------------
(* Types *)

LEMMA RekeyedType ==
  ASSUME TypeOK, NEW s \in Sessions, calls[s] < MaxGen
  PROVE  /\ calls[s] + 1 \in 1 .. MaxGen
         /\ \A f : Rekeyed(s, f) \in [Components -> 0 .. MaxGen \union {Junk}]
         /\ \A c \in Components : Rekeyed(s, N + 1)[c] = calls[s] + 1
         /\ [owner |-> s, gens |-> Rekeyed(s, N + 1)] \in PublicKeys
<1>1. calls[s] + 1 \in 1 .. MaxGen /\ calls[s] + 1 \in 0 .. MaxGen
  BY HybridAssumption DEF TypeOK
<1>2. ASSUME NEW f PROVE Rekeyed(s, f) \in [Components -> 0 .. MaxGen \union {Junk}]
  <2>1. ASSUME NEW c \in Components PROVE key[s][c] \in 0 .. MaxGen \union {Junk}
    BY DEF TypeOK
  <2> QED
    BY <1>1, <2>1 DEF Rekeyed
<1>3. ASSUME NEW c \in Components PROVE Rekeyed(s, N + 1)[c] = calls[s] + 1
  BY HybridAssumption DEF Rekeyed, Components
<1>4. Rekeyed(s, N + 1) \in [Components -> 1 .. MaxGen]
  BY <1>1, <1>3 DEF Rekeyed
<1> QED
  BY <1>1, <1>2, <1>3, <1>4 DEF PublicKeys

\* What a failed GenerateKeyPair leaves of the key pairs of s.
LEMMA Failed ==
  ASSUME TypeOK, NEW s \in Sessions, GenerateKeyPairFails(s)
  PROVE  \E f \in Components, k \in 0 .. MaxGen \union {Junk} :
           /\ k \in {key[s][f], 0, Junk}
           /\ key' = [key EXCEPT ![s] = [Rekeyed(s, f) EXCEPT ![f] = k]]
           /\ key'[s] \in [Components -> 0 .. MaxGen \union {Junk}]
           /\ \A c \in Components : key'[s][c] \in {key[s][c], calls[s] + 1, 0, Junk}
<1>0. PICK f \in Components :
        \E k \in LeftBehind(s, f) : key' = [key EXCEPT ![s] = [Rekeyed(s, f) EXCEPT ![f] = k]]
  BY DEF GenerateKeyPairFails
<1>1. PICK k \in LeftBehind(s, f) :
        key' = [key EXCEPT ![s] = [Rekeyed(s, f) EXCEPT ![f] = k]]
  BY <1>0
<1>2. k \in {key[s][f], 0, Junk}
  BY DEF LeftBehind
<1>3. k \in 0 .. MaxGen \union {Junk}
  BY <1>2, HybridAssumption DEF TypeOK
<1>4. Rekeyed(s, f) \in [Components -> 0 .. MaxGen \union {Junk}]
  BY RekeyedType DEF GenerateKeyPairFails
<1>5. key'[s] = [Rekeyed(s, f) EXCEPT ![f] = k]
  BY <1>1 DEF TypeOK
<1>6. key'[s] \in [Components -> 0 .. MaxGen \union {Junk}]
  BY <1>3, <1>4, <1>5
<1>7. ASSUME NEW c \in Components PROVE key'[s][c] \in {key[s][c], calls[s] + 1, 0, Junk}
  BY <1>2, <1>4, <1>5 DEF Rekeyed
<1> QED
  BY <1>1, <1>2, <1>3, <1>6, <1>7

LEMMA DecapsulatedType ==
  ASSUME TypeOK, NEW s \in Sessions, Decapsulate(s), NEW ct \in cts
  PROVE  [ct |-> ct, secret |-> Secret(s, key[s], ct.nonce)] \in Decapsulated
<1>1. ct \in Ciphertexts /\ ct.nonce \in 1 .. MaxEncaps
  BY DEF TypeOK, Ciphertexts
<1>2. ASSUME NEW c \in Components PROVE key[s][c] \in 1 .. MaxGen \union {Junk}
  BY HybridAssumption DEF TypeOK, Decapsulate
<1>3. Secret(s, key[s], ct.nonce) \in Secrets
  BY <1>1, <1>2 DEF Secret, Combine, Secrets
<1> QED
  BY <1>1, <1>3 DEF Decapsulated

LEMMA TypeStep == ASSUME TypeOK, [Next]_vars PROVE TypeOK'
<1> USE HybridAssumption DEF TypeOK
<1>1. ASSUME NEW s \in Sessions, NewComponent(s) \/ NewFails(s) \/ Unwind(s) PROVE TypeOK'
  <2>1. UNCHANGED <<closeErr, calls, key, latest, pubs, cts, outcome>>
    BY <1>1 DEF NewComponent, NewFails, Unwind
  <2>2. status' \in [Sessions -> {"none", "opening", "unwinding", "held", "closing", "closed"}]
    BY <1>1 DEF NewComponent, NewFails, Unwind
  <2>3. open' \in [Sessions -> SUBSET Components]
    BY <1>1 DEF NewComponent, NewFails, Unwind
  <2> QED
    BY <2>1, <2>2, <2>3
<1>2. ASSUME NEW s \in Sessions, CloseComponent(s) PROVE TypeOK'
  <2>1. UNCHANGED <<calls, key, latest, pubs, cts, outcome>>
    BY <1>2 DEF CloseComponent
  <2>2. /\ status' \in [Sessions -> {"none", "opening", "unwinding", "held", "closing", "closed"}]
        /\ open' \in [Sessions -> SUBSET Components]
    BY <1>2 DEF CloseComponent
  <2>3. closeErr' \in [Sessions -> 0 .. N]
    BY <1>2 DEF CloseComponent, Components
  <2> QED
    BY <2>1, <2>2, <2>3
<1>3. ASSUME NEW s \in Sessions, GenerateKeyPair(s) PROVE TypeOK'
  <2>1. /\ [owner |-> s, gens |-> Rekeyed(s, N + 1)] \in PublicKeys
        /\ Rekeyed(s, N + 1) \in [Components -> 0 .. MaxGen \union {Junk}]
        /\ calls[s] + 1 \in 0 .. MaxGen
    BY <1>3, RekeyedType DEF GenerateKeyPair
  <2> QED
    BY <1>3, <2>1 DEF GenerateKeyPair
<1>4. ASSUME NEW s \in Sessions, GenerateKeyPairFails(s) PROVE TypeOK'
  <2>1. calls[s] + 1 \in 0 .. MaxGen
    BY <1>4 DEF GenerateKeyPairFails
  <2>2. key' \in [Sessions -> [Components -> 0 .. MaxGen \union {Junk}]]
    BY <1>4, Failed
  <2> QED
    BY <1>4, <2>1, <2>2 DEF GenerateKeyPairFails
<1>5. ASSUME NEW s \in Sessions, Encapsulate(s) PROVE TypeOK'
  BY <1>5 DEF Encapsulate
<1>6. ASSUME NEW s \in Sessions, Decapsulate(s) PROVE TypeOK'
  <2>1. PICK ct \in cts :
          outcome' = [outcome EXCEPT ![s] =
                        [ct |-> ct, secret |-> Secret(s, key[s], ct.nonce)]]
    BY <1>6 DEF Decapsulate
  <2> QED
    BY <1>6, <2>1, DecapsulatedType DEF Decapsulate
<1>7. CASE UNCHANGED vars
  BY <1>7 DEF vars
<1> QED
  BY <1>1, <1>2, <1>3, <1>4, <1>5, <1>6, <1>7 DEF Next

-----------------------------------------------------------------------------
(* Resources *)

\* What OpenInv says of one session.
OpenOf(st, op) ==
  /\ st \in {"none", "closed"} => op = {}
  /\ st = "opening" => \E c \in Components : c < N /\ op = 1 .. c
  /\ st = "unwinding" => op # {}
  /\ st = "held" => op = Components
  /\ st = "closing" => \E c \in Components : op = c .. N

LEMMA OpenStep == ASSUME TypeOK, OpenInv, [Next]_vars PROVE OpenInv'
<1> USE HybridAssumption, NComponent
<1>0. OpenInv <=> \A t \in Sessions : OpenOf(status[t], open[t])
  BY DEF OpenInv, OpenOf
<1>1. OpenInv' <=> \A t \in Sessions : OpenOf(status'[t], open'[t])
  BY DEF OpenInv, OpenOf
<1>2. ASSUME NEW s \in Sessions, NewComponent(s) PROVE OpenOf(status'[s], open'[s])
  <2>1. PICK c \in Components :
          /\ Opened(s, c - 1)
          /\ status' = [status EXCEPT ![s] = IF c = N THEN "held" ELSE "opening"]
          /\ open' = [open EXCEPT ![s] = @ \union {c}]
    BY <1>2 DEF NewComponent
  <2>2. open[s] \subseteq Components /\ open'[s] = open[s] \union {c}
    BY <2>1 DEF TypeOK
  <2>3. \A d \in Components : d \in open'[s] <=> d <= c
    BY <2>1, <2>2 DEF Opened
  <2>4. open'[s] = 1 .. c
    BY <2>2, <2>3 DEF Components
  <2>5. status'[s] = IF c = N THEN "held" ELSE "opening"
    BY <2>1 DEF TypeOK
  <2> QED
    BY <2>4, <2>5 DEF OpenOf, Components
<1>3. ASSUME NEW s \in Sessions, NewFails(s) PROVE OpenOf(status'[s], open'[s])
  <2>1. status'[s] = "unwinding" /\ open'[s] = open[s] /\ status[s] = "opening"
    BY <1>3 DEF NewFails, TypeOK
  <2>2. PICK c \in Components : open[s] = 1 .. c
    BY <2>1 DEF OpenInv
  <2>3. 1 \in open[s]
    BY <2>2 DEF Components
  <2> QED
    BY <2>1, <2>3 DEF OpenOf
<1>4. ASSUME NEW s \in Sessions, Unwind(s) PROVE OpenOf(status'[s], open'[s])
  <2>1. PICK c \in open[s] :
          /\ open'[s] = open[s] \ {c}
          /\ status'[s] = IF open[s] = {c} THEN "none" ELSE "unwinding"
    BY <1>4 DEF Unwind, TypeOK
  <2> QED
    BY <2>1 DEF OpenOf
<1>5. ASSUME NEW s \in Sessions, CloseComponent(s) PROVE OpenOf(status'[s], open'[s])
  <2>1. PICK c \in Components :
          /\ \A d \in Components : d \in open[s] <=> d >= c
          /\ open' = [open EXCEPT ![s] = @ \ {c}]
          /\ status' = [status EXCEPT ![s] = IF c = N THEN "closed" ELSE "closing"]
    BY <1>5 DEF CloseComponent
  <2>2. open[s] \subseteq Components /\ open'[s] = open[s] \ {c}
    BY <2>1 DEF TypeOK
  <2>3. status'[s] = IF c = N THEN "closed" ELSE "closing"
    BY <2>1 DEF TypeOK
  <2>4. open'[s] = c + 1 .. N
    <3>1. ASSUME NEW d PROVE d \in open'[s] <=> d \in c + 1 .. N
      <4>1. d \in Components /\ d \in c + 1 .. N <=> d \in Components /\ d > c
        BY DEF Components
      <4>2. d \in c + 1 .. N => d \in Components
        BY DEF Components
      <4>3. d \in open'[s] <=> d \in Components /\ d >= c /\ d # c
        BY <2>1, <2>2
      <4>4. d \in Components => (d >= c /\ d # c <=> d > c)
        BY NComponent
      <4> QED
        BY <4>1, <4>2, <4>3, <4>4
    <3> QED
      BY <3>1
  <2>5. CASE c = N
    BY <2>3, <2>4, <2>5 DEF OpenOf
  <2>6. CASE c # N
    <3>1. c + 1 \in Components
      BY <2>6 DEF Components
    <3> QED
      BY <2>3, <2>4, <2>6, <3>1 DEF OpenOf
  <2> QED
    BY <2>5, <2>6
<1>6. ASSUME NEW s \in Sessions,
             NewComponent(s) \/ NewFails(s) \/ Unwind(s) \/ CloseComponent(s)
      PROVE  OpenInv'
  <2>1. \A t \in Sessions \ {s} : status'[t] = status[t] /\ open'[t] = open[t]
    BY <1>6 DEF NewComponent, NewFails, Unwind, CloseComponent, TypeOK
  <2>2. OpenOf(status'[s], open'[s])
    BY <1>2, <1>3, <1>4, <1>5, <1>6
  <2> QED
    BY <1>0, <1>1, <2>1, <2>2
<1>7. ASSUME NEW s \in Sessions,
             GenerateKeyPair(s) \/ GenerateKeyPairFails(s) \/ Encapsulate(s) \/ Decapsulate(s)
      PROVE  OpenInv'
  <2>1. status' = status /\ open' = open
    BY <1>7 DEF GenerateKeyPair, GenerateKeyPairFails, Encapsulate, Decapsulate
  <2> QED
    BY <1>0, <1>1, <2>1
<1>8. CASE UNCHANGED vars
  BY <1>0, <1>1, <1>8 DEF vars
<1> QED
  BY <1>6, <1>7, <1>8 DEF Next

-----------------------------------------------------------------------------
(* Keys *)

LEMMA KeyStep == ASSUME IInv, [Next]_vars PROVE KeyInv' /\ FreshInv'
<1> USE HybridAssumption, NComponent DEF IInv
<1>0. /\ \A t \in Sessions : calls[t] \in Nat
      /\ \A t \in Sessions : latest[t] # NoKey =>
           latest[t] \in PublicKeys /\ \A c \in Components : latest[t].gens[c] \in Nat
  BY DEF TypeOK, PublicKeys
<1>1. ASSUME NEW s \in Sessions,
             \/ NewComponent(s) \/ NewFails(s) \/ Unwind(s) \/ CloseComponent(s)
             \/ Encapsulate(s) \/ Decapsulate(s)
      PROVE  KeyInv' /\ FreshInv'
  <2>1. UNCHANGED <<calls, key, latest, pubs>>
    BY <1>1 DEF NewComponent, NewFails, Unwind, CloseComponent, Encapsulate, Decapsulate
  <2> QED
    BY <2>1 DEF KeyInv, FreshInv
<1>2. ASSUME NEW s \in Sessions, GenerateKeyPair(s) PROVE KeyInv' /\ FreshInv'
  <2> DEFINE pub == [owner |-> s, gens |-> Rekeyed(s, N + 1)]
  <2>1. pub \in PublicKeys /\ \A c \in Components : pub.gens[c] = calls[s] + 1
    BY <1>2, RekeyedType DEF GenerateKeyPair
  <2>2. pub # NoKey /\ pub.owner = s
    BY <2>1
  <2>3. /\ key' = [key EXCEPT ![s] = pub.gens]
        /\ latest' = [latest EXCEPT ![s] = pub]
        /\ pubs' = pubs \union {pub}
        /\ calls' = [calls EXCEPT ![s] = @ + 1]
    BY <1>2 DEF GenerateKeyPair
  <2> HIDE DEF pub
  <2>4. /\ key'[s] = pub.gens /\ latest'[s] = pub /\ calls'[s] = calls[s] + 1
        /\ \A t \in Sessions \ {s} :
             key'[t] = key[t] /\ latest'[t] = latest[t] /\ calls'[t] = calls[t]
    BY <2>3 DEF TypeOK
  <2>5. KeyInv'
    <3>1. ASSUME NEW c \in Components
          PROVE  /\ key'[s][c] = calls'[s]
                 /\ latest'[s].owner = s
                 /\ latest'[s].gens[c] = calls'[s]
      BY <2>1, <2>2, <2>4
    <3>2. calls'[s] <= calls'[s]
      <4>1. calls'[s] \in Nat
        BY <1>0, <2>4
      <4> QED
        BY <4>1
    <3>3. ASSUME NEW c \in Components
          PROVE  key'[s][c] <= calls'[s] /\ latest'[s].gens[c] <= calls'[s]
                   /\ latest'[s].gens[c] <= key'[s][c]
      BY <3>1, <3>2
    <3> QED
      BY <2>4, <3>1, <3>3 DEF KeyInv
  <2>6. FreshInv'
    <3> SUFFICES ASSUME NEW p \in pubs', NEW c \in Components
                 PROVE  /\ latest'[p.owner] # NoKey
                        /\ p.gens[c] <= latest'[p.owner].gens[c]
      BY DEF FreshInv
    <3>0. p \in PublicKeys /\ p.owner \in Sessions /\ p.gens[c] \in Nat
      BY <2>1, <2>3 DEF TypeOK, PublicKeys
    <3>1. CASE p = pub
      BY <2>2, <2>4, <3>0, <3>1
    <3>2. CASE p \in pubs /\ p.owner = s
      <4>1. /\ latest[s] # NoKey
            /\ p.gens[c] <= latest[s].gens[c]
            /\ latest[s].gens[c] <= calls[s]
            /\ latest[s].gens[c] \in Nat
        BY <1>0, <3>2 DEF FreshInv, KeyInv
      <4>2. latest'[s].gens[c] = calls[s] + 1
        BY <2>1, <2>4
      <4> QED
        BY <1>0, <2>2, <2>4, <3>0, <3>2, <4>1, <4>2
    <3>3. CASE p \in pubs /\ p.owner # s
      BY <2>4, <3>0, <3>3 DEF FreshInv
    <3> QED
      BY <2>3, <3>1, <3>2, <3>3
  <2> QED
    BY <2>5, <2>6
<1>3. ASSUME NEW s \in Sessions, GenerateKeyPairFails(s) PROVE KeyInv' /\ FreshInv'
  <2>1. PICK f \in Components, k \in 0 .. MaxGen \union {Junk} :
          /\ key' = [key EXCEPT ![s] = [Rekeyed(s, f) EXCEPT ![f] = k]]
          /\ \A c \in Components : key'[s][c] \in {key[s][c], calls[s] + 1, 0, Junk}
    BY <1>3, Failed
  <2>2. /\ latest' = latest /\ pubs' = pubs
        /\ calls'[s] = calls[s] + 1
        /\ \A t \in Sessions \ {s} : calls'[t] = calls[t] /\ key'[t] = key[t]
    BY <1>3, <2>1 DEF GenerateKeyPairFails, TypeOK
  <2>3. FreshInv'
    BY <2>2 DEF FreshInv
  <2>4. ASSUME NEW c \in Components
        PROVE  /\ key'[s][c] \in Nat => key'[s][c] <= calls'[s]
               /\ latest[s] # NoKey =>
                    /\ latest[s].owner = s
                    /\ latest[s].gens[c] <= calls'[s]
                    /\ key'[s][c] \in Nat \ {0} => latest[s].gens[c] <= key'[s][c]
    <3>1. key'[s][c] \in {key[s][c], calls[s] + 1, 0, Junk}
      BY <2>1
    <3>2. /\ key[s][c] \in Nat => key[s][c] <= calls[s]
          /\ latest[s] # NoKey =>
               /\ latest[s].owner = s
               /\ latest[s].gens[c] \in Nat /\ latest[s].gens[c] <= calls[s]
               /\ key[s][c] \in Nat \ {0} => latest[s].gens[c] <= key[s][c]
      BY <1>0 DEF KeyInv
    <3> QED
      BY <1>0, <2>2, <3>1, <3>2
  <2>5. KeyInv'
    BY <2>2, <2>4 DEF KeyInv
  <2> QED
    BY <2>3, <2>5
<1>4. CASE UNCHANGED vars
  BY <1>4 DEF vars, KeyInv, FreshInv
<1> QED
  BY <1>1, <1>2, <1>3, <1>4 DEF Next

LEMMA InitInv == Init => IInv
BY HybridAssumption, NComponent
DEF Init, IInv, TypeOK, OpenInv, KeyInv, FreshInv, NoKeys

LEMMA Inductive == Spec => []IInv
<1>1. IInv /\ [Next]_vars => IInv'
  BY TypeStep, OpenStep, KeyStep DEF IInv
<1> QED
  BY <1>1, InitInv, PTL DEF Spec

-----------------------------------------------------------------------------
(* HybridKEM: the theorems *)

\* The state keeps its types: in particular every public key handed out
\* frames a key of every component (combiner.go:63-73).
THEOREM TypeCorrect == Spec => []TypeOK
<1>1. IInv => TypeOK
  BY DEF IInv
<1> QED
  BY <1>1, Inductive, PTL

\* When New or Close returns, no component session outlives the hybrid,
\* whichever component's New or Close failed, and in whatever order they
\* were closed (combiner.go:46-57, 111-118).
THEOREM NoLeak == Spec => []NoComponentLeak
<1>1. IInv => NoComponentLeak
  BY DEF IInv, OpenInv, NoComponentLeak
<1> QED
  BY <1>1, Inductive, PTL

-----------------------------------------------------------------------------
(* Refinement *)

\* Secrets are equal exactly if the session's key pairs are those of the
\* public key the ciphertext was made for.
LEMMA MatchLemma ==
  ASSUME TypeOK, NEW s \in Sessions, NEW ct \in cts
  PROVE  Secret(s, key[s], ct.nonce) = EncapSecret(ct)
           <=> ct.pub = [owner |-> s, gens |-> key[s]]
<1>1. /\ ct.pub \in PublicKeys
      /\ ct.pub = [owner |-> ct.pub.owner, gens |-> ct.pub.gens]
  BY DEF TypeOK, PublicKeys
<1>2. /\ key[s] \in [Components -> 0 .. MaxGen \union {Junk}]
      /\ ct.pub.gens \in [Components -> 1 .. MaxGen]
  BY <1>1 DEF TypeOK, PublicKeys
<1>3. Secret(s, key[s], ct.nonce) = Secret(ct.pub.owner, ct.pub.gens, ct.nonce)
        <=> s = ct.pub.owner /\ key[s] = ct.pub.gens
  BY <1>2, SecretEqual
<1> QED
  BY <1>1, <1>3 DEF EncapSecret

\* A session stands by the public key with its key pairs, if it returned it.
LEMMA CurrentLemma ==
  ASSUME IInv, NEW s \in Sessions, NEW pub \in pubs
  PROVE  pub = [owner |-> s, gens |-> key[s]] <=> pub = Current[s]
<1> USE DEF IInv
<1>1. pub \in PublicKeys /\ pub # NoKey
  BY HybridAssumption DEF TypeOK
<1>2. ASSUME pub = [owner |-> s, gens |-> key[s]] PROVE pub = Current[s]
  <2>1. pub.owner = s /\ pub.gens = key[s]
    BY <1>2
  <2>2. /\ latest[s] # NoKey
        /\ latest[s] \in PublicKeys /\ latest[s].owner = s
    BY <2>1, NComponent DEF FreshInv, KeyInv, TypeOK
  <2>3. ASSUME NEW c \in Components PROVE latest[s].gens[c] = key[s][c]
    <3>1. key[s][c] \in Nat \ {0} /\ latest[s].gens[c] \in Nat
      BY <1>1, <2>1, <2>2 DEF PublicKeys
    <3>2. pub.gens[c] <= latest[s].gens[c] /\ latest[s].gens[c] <= key[s][c]
      BY <2>1, <2>2, <3>1 DEF FreshInv, KeyInv
    <3> QED
      BY <2>1, <3>1, <3>2
  <2>4. latest[s].gens = pub.gens
    BY <1>1, <2>1, <2>2, <2>3 DEF PublicKeys
  <2>5. latest[s] = [owner |-> s, gens |-> key[s]]
    BY <2>1, <2>2, <2>4 DEF PublicKeys
  <2> QED
    BY <1>2, <2>2, <2>5 DEF Current
<1>3. ASSUME pub = Current[s] PROVE pub = [owner |-> s, gens |-> key[s]]
  BY <1>1, <1>3 DEF Current
<1> QED
  BY <1>2, <1>3

\* A function that differs from f at s only.
LEMMA ChangedAt ==
  ASSUME NEW S, NEW f, NEW g, NEW s \in S, NEW v,
         f = [t \in S |-> f[t]], g = [t \in S |-> g[t]],
         \A t \in S \ {s} : g[t] = f[t], g[s] = v
  PROVE  g = [f EXCEPT ![s] = v]
OBVIOUS

\* A step that changes the key pairs and the latest public key of s only
\* changes what s stands by only.
LEMMA CurrentChange ==
  ASSUME NEW s \in Sessions, NEW pub,
         \A t \in Sessions \ {s} : key'[t] = key[t] /\ latest'[t] = latest[t],
         Current'[s] = pub
  PROVE  Current' = [Current EXCEPT ![s] = pub]
<1>1. \A t \in Sessions \ {s} : Current'[t] = Current[t]
  BY DEF Current
<1>2. /\ Current = [t \in Sessions |-> Current[t]]
      /\ Current' = [t \in Sessions |-> Current'[t]]
  BY DEF Current
<1> QED
  BY <1>1, <1>2

LEMMA DifferSomewhere ==
  ASSUME NEW S, NEW T, NEW f \in [S -> T], NEW g \in [S -> T], f # g
  PROVE  \E x \in S : f[x] # g[x]
OBVIOUS

\* A failed GenerateKeyPair leaves the key pairs as they were, or the session
\* no longer stands by any public key.
LEMMA FailedCurrent ==
  ASSUME IInv, NEW s \in Sessions, GenerateKeyPairFails(s), key'[s] # key[s]
  PROVE  Current'[s] = NoKey
<1> USE HybridAssumption, NComponent DEF IInv
<1>1. PICK f \in Components, k \in 0 .. MaxGen \union {Junk} :
        /\ key'[s] \in [Components -> 0 .. MaxGen \union {Junk}]
        /\ \A c \in Components : key'[s][c] \in {key[s][c], calls[s] + 1, 0, Junk}
  BY Failed
<1>2. key[s] \in [Components -> 0 .. MaxGen \union {Junk}]
  BY DEF TypeOK
<1>3. PICK c \in Components : key'[s][c] # key[s][c]
  <2> DEFINE Types == [Components -> 0 .. MaxGen \union {Junk}]
  <2>1. key'[s] \in Types /\ key[s] \in Types /\ key'[s] # key[s]
    BY <1>1, <1>2
  <2> HIDE HybridAssumption, NComponent DEF IInv, Types
  <2>2. PICK g, h : g = key'[s] /\ h = key[s]
    OBVIOUS
  <2>4. g \in Types /\ h \in Types /\ g # h
    BY <2>1, <2>2
  <2>5. Types = [Components -> 0 .. MaxGen \union {Junk}]
    BY DEF Types
  <2>3. \E c \in Components : g[c] # h[c]
    BY <2>4, <2>5, DifferSomewhere
  <2> QED
    BY <2>2, <2>3
<1>4. key'[s][c] \in {calls[s] + 1, 0, Junk}
  BY <1>1, <1>3
<1>5. latest' = latest /\ calls[s] \in Nat
  BY DEF GenerateKeyPairFails, TypeOK
<1>6. ASSUME latest[s] # NoKey, latest[s] = [owner |-> s, gens |-> key'[s]] PROVE FALSE
  <2>1. latest[s].gens[c] \in Nat \ {0} /\ latest[s].gens[c] <= calls[s]
    BY <1>6 DEF TypeOK, PublicKeys, KeyInv
  <2>2. latest[s].gens[c] = key'[s][c]
    BY <1>6
  <2> QED
    BY <1>4, <1>5, <2>1, <2>2
<1> QED
  BY <1>5, <1>6 DEF Current

\* A hybrid of any number of KEMs keeps the contract of a KEM session: both
\* sides agree unless a GenerateKeyPair failed since, and they agree only if
\* every component of both used the same key pair, whatever private key a
\* failed liboqs left behind (combiner.go:63-109, 155-163, mlkem768.go:42-52).
THEOREM IsAKEM == Spec => MeetsContract
<1> USE HybridAssumption, NComponent
<1>1. Init => Contract!Init
  BY DEF Init, Contract!Init, Status, Current, Outcome
<1>2. ASSUME IInv, IInv', [Next]_vars PROVE [Contract!Next]_(Contract!vars)
  <2>0. TypeOK /\ TypeOK' /\ OpenInv /\ KeyInv /\ FreshInv
    BY <1>2 DEF IInv
  <2>1. ASSUME NEW s \in Sessions,
               NewComponent(s) \/ NewFails(s) \/ Unwind(s) \/ CloseComponent(s)
        PROVE  Contract!New(s) \/ Contract!Close(s) \/ UNCHANGED Contract!vars
    <3>1. UNCHANGED <<key, latest, pubs, cts, outcome>>
      BY <2>1 DEF NewComponent, NewFails, Unwind, CloseComponent
    <3>2. Current' = Current /\ Outcome' = Outcome
      BY <3>1 DEF Current, Outcome
    <3>3. \A t \in Sessions \ {s} : Status'[t] = Status[t]
      BY <2>0, <2>1 DEF NewComponent, NewFails, Unwind, CloseComponent, Status, TypeOK
    <3>4. /\ Status = [t \in Sessions |-> Status[t]]
          /\ Status' = [t \in Sessions |-> Status'[t]]
      BY DEF Status
    <3>5. CASE NewComponent(s)
      <4>1. Status[s] = "none" /\ Status'[s] \in {"none", "held"}
        BY <2>0, <3>5 DEF NewComponent, Status, TypeOK
      <4>2. CASE Status'[s] = "none"
        <5>1. Status' = Status
          BY <3>3, <3>4, <4>1, <4>2
        <5> QED
          BY <3>1, <3>2, <5>1 DEF Contract!vars
      <4>3. CASE Status'[s] = "held"
        <5>1. Status' = [Status EXCEPT ![s] = "held"]
          BY <3>3, <3>4, <4>3, ChangedAt
        <5> QED
          BY <3>1, <3>2, <4>1, <5>1 DEF Contract!New
      <4> QED
        BY <4>1, <4>2, <4>3
    <3>6. CASE NewFails(s) \/ Unwind(s)
      <4>1. Status'[s] = "none" /\ Status[s] = "none"
        BY <2>0, <3>6 DEF NewFails, Unwind, Status, TypeOK
      <4>2. Status' = Status
        BY <3>3, <3>4, <4>1
      <4> QED
        BY <3>1, <3>2, <4>2 DEF Contract!vars
    <3>7. CASE CloseComponent(s)
      <4>1. Status[s] = "held" /\ Status'[s] \in {"held", "closed"}
        BY <2>0, <3>7 DEF CloseComponent, Status, TypeOK
      <4>2. CASE Status'[s] = "held"
        <5>1. Status' = Status
          BY <3>3, <3>4, <4>1, <4>2
        <5> QED
          BY <3>1, <3>2, <5>1 DEF Contract!vars
      <4>3. CASE Status'[s] = "closed"
        <5>1. Status' = [Status EXCEPT ![s] = "closed"]
          BY <3>3, <3>4, <4>3, ChangedAt
        <5> QED
          BY <3>1, <3>2, <4>1, <5>1 DEF Contract!Close
      <4> QED
        BY <4>1, <4>2, <4>3
    <3> QED
      BY <2>1, <3>5, <3>6, <3>7
  <2>2. ASSUME NEW s \in Sessions, status[s] = "held", UNCHANGED <<status, open, closeErr>>
        PROVE  Status[s] = "held" /\ Status' = Status
    BY <2>0, <2>2 DEF Status, TypeOK
  <2>3. ASSUME NEW s \in Sessions, GenerateKeyPair(s) PROVE Contract!GenerateKeyPair(s)
    <3> DEFINE pub == [owner |-> s, gens |-> Rekeyed(s, N + 1)]
    <3>0. Status[s] = "held" /\ Status' = Status
      BY <2>2, <2>3 DEF GenerateKeyPair
    <3>1. pub \in PublicKeys /\ \A c \in Components : pub.gens[c] = calls[s] + 1
      BY <2>0, <2>3, RekeyedType DEF GenerateKeyPair
    <3>2. pub \notin pubs
      <4>1. SUFFICES ASSUME pub \in pubs PROVE FALSE
        OBVIOUS
      <4>2. pub.owner = s /\ pub.gens[N] = calls[s] + 1
        BY <3>1
      <4>3. latest[s] # NoKey /\ pub.gens[N] <= latest[s].gens[N]
        BY <2>0, <4>1, <4>2 DEF FreshInv
      <4>4. latest[s].gens[N] <= calls[s] /\ latest[s].gens[N] \in Nat /\ calls[s] \in Nat
        BY <2>0, <4>3 DEF KeyInv, TypeOK, PublicKeys
      <4> QED
        BY <4>2, <4>3, <4>4
    <3>3. key'[s] = pub.gens /\ latest'[s] = pub
      BY <2>0, <2>3 DEF GenerateKeyPair, TypeOK
    <3>4. \A t \in Sessions \ {s} : key'[t] = key[t] /\ latest'[t] = latest[t]
      BY <2>0, <2>3 DEF GenerateKeyPair, TypeOK
    <3>5. Current'[s] = pub
      BY <3>1, <3>3 DEF Current
    <3>6. Current' = [Current EXCEPT ![s] = pub]
      BY <3>4, <3>5, CurrentChange
    <3>7. Outcome' = Outcome
      BY <2>3 DEF GenerateKeyPair, Outcome
    <3> QED
      BY <2>3, <3>0, <3>1, <3>2, <3>6, <3>7 DEF GenerateKeyPair, Contract!GenerateKeyPair
  <2>4. ASSUME NEW s \in Sessions, GenerateKeyPairFails(s)
        PROVE  Contract!GenerateKeyPairFails(s) \/ UNCHANGED Contract!vars
    <3>0. Status[s] = "held" /\ Status' = Status
      BY <2>2, <2>4 DEF GenerateKeyPairFails
    <3>1. /\ \A t \in Sessions \ {s} : key'[t] = key[t] /\ latest'[t] = latest[t]
          /\ latest'[s] = latest[s]
      BY <2>0, <2>4, Failed DEF GenerateKeyPairFails, TypeOK
    <3>2. Outcome' = Outcome /\ pubs' = pubs /\ cts' = cts
      BY <2>4 DEF GenerateKeyPairFails, Outcome
    <3>3. CASE key'[s] = key[s]
      <4>1. Current'[s] = Current[s]
        BY <3>1, <3>3 DEF Current
      <4>2. Current' = Current
        BY <3>1, <4>1 DEF Current
      <4> QED
        BY <3>0, <3>2, <4>2 DEF Contract!vars
    <3>4. CASE key'[s] # key[s]
      <4>1. Current' = [Current EXCEPT ![s] = NoKey]
        BY <1>2, <2>4, <3>1, <3>4, FailedCurrent, CurrentChange
      <4> QED
        BY <3>0, <3>2, <4>1 DEF Contract!GenerateKeyPairFails
    <3> QED
      BY <3>3, <3>4
  <2>5. ASSUME NEW s \in Sessions, Encapsulate(s) PROVE Contract!Encapsulate(s)
    <3>0. Status[s] = "held" /\ Status' = Status
      BY <2>2, <2>5 DEF Encapsulate
    <3>1. Current' = Current /\ Outcome' = Outcome
      BY <2>5 DEF Encapsulate, Current, Outcome
    <3>2. PICK pub \in pubs, n \in 1 .. MaxEncaps :
            /\ \A ct \in cts : ct.nonce < n
            /\ cts' = cts \union {[pub |-> pub, nonce |-> n]}
      BY <2>5 DEF Encapsulate
    <3> DEFINE new == [pub |-> pub, nonce |-> n]
    <3>3. new \in Ciphertexts /\ new.pub \in pubs
      BY <2>0 DEF TypeOK, Ciphertexts
    <3>4. new \notin cts
      BY <3>2
    <3>5. [ct \in Ciphertexts |-> ct.pub][new] = pub
      BY <3>3
    <3> QED
      BY <2>5, <3>0, <3>1, <3>2, <3>3, <3>4, <3>5 DEF Encapsulate, Contract!Encapsulate
  <2>6. ASSUME NEW s \in Sessions, Decapsulate(s) PROVE Contract!Decapsulate(s)
    <3>0. Status[s] = "held" /\ Status' = Status
      BY <2>2, <2>6 DEF Decapsulate
    <3>1. PICK ct \in cts :
            outcome' = [outcome EXCEPT ![s] =
                          [ct |-> ct, secret |-> Secret(s, key[s], ct.nonce)]]
      BY <2>6 DEF Decapsulate
    <3>2. ct \in Ciphertexts /\ ct.pub \in pubs
      BY <2>0 DEF TypeOK, Ciphertexts
    <3>3. Secret(s, key[s], ct.nonce) = EncapSecret(ct) <=> ct.pub = Current[s]
      BY <1>2, <2>0, <3>2, MatchLemma, CurrentLemma
    <3>4. outcome'[s] = [ct |-> ct, secret |-> Secret(s, key[s], ct.nonce)]
      BY <2>0, <3>1 DEF TypeOK
    <3>5. outcome'[s] # NoOutcome
      BY <2>0, <2>6, <3>4, DecapsulatedType
    <3>6. Outcome'[s] = [ct |-> ct, match |-> ct.pub = Current[s]]
      BY <3>3, <3>4, <3>5 DEF Outcome
    <3>7. \A t \in Sessions \ {s} : Outcome'[t] = Outcome[t]
      BY <2>0, <3>1 DEF Outcome, TypeOK
    <3>8. Outcome' = [Outcome EXCEPT ![s] = [ct |-> ct, match |-> ct.pub = Current[s]]]
      <4>1. PICK v : v = [ct |-> ct, match |-> ct.pub = Current[s]]
        BY Zenon
      <4>2. Outcome'[s] = v
        BY <3>6, <4>1, Zenon
      <4>3. Outcome = [t \in Sessions |-> Outcome[t]] /\ Outcome' = [t \in Sessions |-> Outcome'[t]]
        BY DEF Outcome
      <4>4. Outcome' = [Outcome EXCEPT ![s] = v]
        BY <3>7, <4>2, <4>3, ChangedAt
      <4> QED
        BY <4>1, <4>4, Zenon
    <3>9. Current' = Current /\ pubs' = pubs /\ cts' = cts
      BY <2>6 DEF Decapsulate, Current
    <3>10. [c \in Ciphertexts |-> c.pub][ct] = ct.pub
      BY <3>2
    <3> QED
      BY <3>0, <3>8, <3>9, <3>10 DEF Contract!Decapsulate
  <2>7. CASE UNCHANGED vars
    BY <2>7 DEF vars, Status, Current, Outcome, Contract!vars
  <2> QED
    BY <1>2, <2>1, <2>3, <2>4, <2>5, <2>6, <2>7 DEF Next, Contract!Next
<1> QED
  BY <1>1, <1>2, Inductive, PTL DEF Spec, MeetsContract, Contract!Spec

-----------------------------------------------------------------------------
(* Numbers *)

LEMMA ZeroOrOne == ASSUME NEW k \in Nat, k < 2 PROVE k = 0 \/ k = 1
OBVIOUS

\* Dividing q * r + d by r gives back q and the digit d.
LEMMA DivMod ==
  ASSUME NEW r \in Nat, r > 1, NEW q \in Nat, NEW d \in 0 .. r - 1
  PROVE  /\ (q * r + d) \div r = q
         /\ (q * r + d) % r = d
         /\ q * r + d \in Nat
OBVIOUS

LEMMA Horner ==
  ASSUME NEW q \in Nat, NEW x \in Bytes
  PROVE  /\ (q * Radix + x) \div Radix = q
         /\ (q * Radix + x) % Radix = x
         /\ q * Radix + x \in Nat
BY FramingAssumption, DivMod DEF Bytes

LEMMA Digit == ASSUME NEW x \in Bytes PROVE x \in Nat /\ x % Radix = x
<1>1. x \in Nat /\ x < Radix
  BY FramingAssumption DEF Bytes
<1> QED
  BY <1>1, FramingAssumption

\* The prefix that announces a length is read back as that length's prefix.
LEMMA PrefixInverse ==
  ASSUME NEW d \in Seq(Bytes), Len(d) >= 4
  PROVE  /\ Uint32(d) \in Nat
         /\ PutUint32(Uint32(d)) = <<d[1], d[2], d[3], d[4]>>
<1>1. d[1] \in Bytes /\ d[2] \in Bytes /\ d[3] \in Bytes /\ d[4] \in Bytes
  OBVIOUS
<1> DEFINE b == d[1] * Radix + d[2]
           c == b * Radix + d[3]
           n == c * Radix + d[4]
<1>2. Uint32(d) = n
  BY DEF Uint32
<1>3. d[1] \in Nat /\ d[1] % Radix = d[1]
  BY <1>1, Digit
<1>4. b \in Nat /\ b \div Radix = d[1] /\ b % Radix = d[2]
  BY <1>1, <1>3, Horner
<1> HIDE DEF b
<1>5. c \in Nat /\ c \div Radix = b /\ c % Radix = d[3]
  BY <1>1, <1>4, Horner
<1> HIDE DEF c
<1>6. n \in Nat /\ n \div Radix = c /\ n % Radix = d[4]
  BY <1>1, <1>5, Horner
<1> HIDE DEF n
<1> QED
  BY <1>2, <1>3, <1>4, <1>5, <1>6 DEF PutUint32

-----------------------------------------------------------------------------
(* Byte strings *)

LEMMA PartsAreBytes ==
  ASSUME NEW s \in Seq(Bytes), NEW t \in Seq(Bytes)
  PROVE  s \o t \in Seq(Bytes)
BY ConcatProperties

LEMMA Assoc ==
  ASSUME NEW s \in Seq(Bytes), NEW t \in Seq(Bytes), NEW u \in Seq(Bytes)
  PROVE  (s \o t) \o u = s \o (t \o u)
BY ConcatAssociative

\* Cutting a byte string at n loses nothing.
LEMMA Cut ==
  ASSUME NEW s \in Seq(Bytes), NEW n \in 0 .. Len(s)
  PROVE  /\ UpTo(s, n) \in Seq(Bytes) /\ Len(UpTo(s, n)) = n
         /\ From(s, n) \in Seq(Bytes)
         /\ s = UpTo(s, n) \o From(s, n)
<1>1. Len(s) \in Nat /\ \A i \in 1 .. Len(s) : s[i] \in Bytes
  BY LenProperties, ElementOfSeq
<1>2. UpTo(s, n) \in Seq(Bytes) /\ Len(UpTo(s, n)) = n
  BY <1>1, SubSeqProperties, 1 \in Int, n \in Int DEF UpTo
<1>3. From(s, n) \in Seq(Bytes)
  BY <1>1, SubSeqProperties, n + 1 \in Int, Len(s) \in Int DEF From
<1>4. SubSeq(s, 1, n) \o SubSeq(s, n + 1, Len(s)) = SubSeq(s, 1, Len(s))
  <2>1. 1 \in 1 .. Len(s) + 1 /\ n \in 1 - 1 .. Len(s) /\ Len(s) \in n .. Len(s)
    BY <1>1
  <2> QED
    BY <2>1, ConcatAdjacentSubSeq
<1>5. SubSeq(s, 1, Len(s)) = s
  BY SubSeqFull
<1> QED
  BY <1>2, <1>3, <1>4, <1>5 DEF UpTo, From

LEMMA PrefixIsBytes ==
  ASSUME NEW d \in Seq(Bytes), Len(d) >= 4
  PROVE  UpTo(d, 4) = PutUint32(Uint32(d))
<1>1. Len(d) \in Nat /\ \A i \in 1 .. 4 : d[i] \in Bytes
  BY LenProperties, ElementOfSeq
<1>2. /\ UpTo(d, 4) \in Seq(Bytes) /\ Len(UpTo(d, 4)) = 4
      /\ \A i \in 1 .. 4 : UpTo(d, 4)[i] = d[i]
  BY <1>1, SubSeqProperties DEF UpTo
<1>3. <<d[1], d[2], d[3], d[4]>> \in Seq(Bytes)
  BY <1>1
<1>4. UpTo(d, 4) = <<d[1], d[2], d[3], d[4]>>
  BY <1>2, <1>3, SeqEqual
<1> QED
  BY <1>4, PrefixInverse

\* One round of the loop cuts off the frame of the part it returns.
LEMMA SplitPart ==
  ASSUME NEW d \in Seq(Bytes), Len(d) >= 4, Uint32(d) <= Len(From(d, 4))
  PROVE  LET n == Uint32(d)
             rest == From(d, 4)
         IN  /\ UpTo(rest, n) \in Seq(Bytes) /\ From(rest, n) \in Seq(Bytes)
             /\ FramePart(UpTo(rest, n)) \in Seq(Bytes)
             /\ d = FramePart(UpTo(rest, n)) \o From(rest, n)
<1> DEFINE n == Uint32(d)
           rest == From(d, 4)
<1>1. Len(d) \in Nat /\ 4 \in 0 .. Len(d)
  BY LenProperties
<1>2. rest \in Seq(Bytes) /\ d = UpTo(d, 4) \o rest /\ UpTo(d, 4) \in Seq(Bytes)
  BY <1>1, Cut
<1>3. n \in 0 .. Len(rest)
  BY <1>2, PrefixInverse, LenProperties
<1>4. /\ UpTo(rest, n) \in Seq(Bytes) /\ Len(UpTo(rest, n)) = n
      /\ From(rest, n) \in Seq(Bytes)
      /\ rest = UpTo(rest, n) \o From(rest, n)
  <2> HIDE DEF n, rest
  <2> QED
    BY <1>2, <1>3, Cut
<1>5. FramePart(UpTo(rest, n)) = UpTo(d, 4) \o UpTo(rest, n)
  BY <1>4, PrefixIsBytes DEF FramePart
<1>6. FramePart(UpTo(rest, n)) \in Seq(Bytes)
  <2> HIDE DEF n, rest
  <2>1. UpTo(d, 4) \o UpTo(rest, n) \in Seq(Bytes)
    BY <1>2, <1>4, PartsAreBytes
  <2> QED
    BY <1>5, <2>1
<1>7. FramePart(UpTo(rest, n)) \o From(rest, n)
        = UpTo(d, 4) \o (UpTo(rest, n) \o From(rest, n))
  <2> HIDE DEF n, rest
  <2>1. (UpTo(d, 4) \o UpTo(rest, n)) \o From(rest, n)
          = UpTo(d, 4) \o (UpTo(rest, n) \o From(rest, n))
    BY <1>2, <1>4, Assoc
  <2> QED
    BY <1>5, <2>1
<1> QED
  BY <1>2, <1>4, <1>6, <1>7

-----------------------------------------------------------------------------
(* Framing: the inductive invariant. What was read, framed again, and what  *)
(* is left are the input.                                                   *)

Parsed ==
  IF Len(parts) = 0 THEN <<>>
  ELSE IF Len(parts) = 1 THEN FramePart(parts[1])
  ELSE Frame(parts[1], parts[2])

SplitInv ==
  /\ \A i \in 1 .. Len(parts) : FramePart(parts[i]) \in Seq(Bytes)
  /\ returned \in {"reading", "ok"} => input = Parsed \o data
  /\ returned = "ok" => Len(parts) = 2 /\ data = <<>>

UnframeInv == UnframeTypeOK /\ SplitInv

LEMMA UnframeInitInv == UnframeInit => UnframeInv
<1> SUFFICES ASSUME UnframeInit PROVE UnframeInv
  OBVIOUS
<1>1. input \in Seq(Bytes)
  BY FramingAssumption DEF UnframeInit
<1>2. <<>> \o input = input
  BY <1>1, ConcatEmptySeq
<1> QED
  BY <1>1, <1>2 DEF UnframeInit, UnframeInv, UnframeTypeOK, SplitInv, Parsed

LEMMA UnframeStepInv == ASSUME UnframeInv, [UnframeNext]_unframeVars PROVE UnframeInv'
<1>0. /\ data \in Seq(Bytes) /\ parts \in Seq(Seq(Bytes))
      /\ Len(parts) \in Nat /\ Len(parts) <= 2
  BY LenProperties DEF UnframeInv, UnframeTypeOK
<1>1. CASE TruncatedPrefix
  BY <1>1 DEF TruncatedPrefix, Reading, UnframeInv, UnframeTypeOK, SplitInv, Errors
<1>2. CASE TruncatedComponent
  <2>1. From(data, 4) \in Seq(Bytes)
    <3>1. Len(data) \in Nat /\ Len(data) >= 4
      BY <1>0, <1>2, LenProperties DEF TruncatedComponent
    <3>2. 4 \in 0 .. Len(data)
      BY <3>1
    <3> QED
      BY <1>0, <3>2, Cut
  <2> QED
    BY <1>2, <2>1 DEF TruncatedComponent, Reading, UnframeInv, UnframeTypeOK, SplitInv, Errors
<1>3. CASE TakePart
  <2> DEFINE n == Uint32(data)
             rest == From(data, 4)
             p == UpTo(rest, n)
  <2>1. /\ returned = "reading" /\ Len(parts) < 2
        /\ Len(data) >= 4 /\ n <= Len(rest)
        /\ parts' = Append(parts, p) /\ data' = From(rest, n)
        /\ returned' = returned /\ input' = input
    BY <1>3 DEF TakePart, Reading, Fits
  <2>2. /\ p \in Seq(Bytes) /\ data' \in Seq(Bytes) /\ FramePart(p) \in Seq(Bytes)
        /\ data = FramePart(p) \o data'
    BY <1>0, <2>1, SplitPart
  <2> HIDE DEF n, rest, p
  <2>3. /\ parts' \in Seq(Seq(Bytes)) /\ Len(parts') = Len(parts) + 1
        /\ \A i \in 1 .. Len(parts) : parts'[i] = parts[i]
        /\ parts'[Len(parts) + 1] = p
    BY <1>0, <2>1, <2>2, AppendProperties
  <2>4. UnframeTypeOK'
    BY <1>0, <2>1, <2>2, <2>3 DEF UnframeInv, UnframeTypeOK
  <2>5. \A i \in 1 .. Len(parts') : FramePart(parts'[i]) \in Seq(Bytes)
    <3>1. Len(parts) \in Nat /\ \A i \in 1 .. Len(parts) : FramePart(parts[i]) \in Seq(Bytes)
      BY <1>0 DEF UnframeInv, SplitInv
    <3>2. \A i \in 1 .. Len(parts') : i \in 1 .. Len(parts) \/ i = Len(parts) + 1
      BY <2>3, <3>1
    <3> QED
      BY <2>2, <2>3, <3>1, <3>2
  <2>6. input = Parsed \o (FramePart(p) \o data')
    BY <2>1, <2>2 DEF UnframeInv, SplitInv
  <2>7. CASE Len(parts) = 0
    <3>1. Parsed = <<>> /\ Parsed' = FramePart(p)
      BY <2>3, <2>7 DEF Parsed
    <3>2. <<>> \o (FramePart(p) \o data') = FramePart(p) \o data'
      BY <2>2, PartsAreBytes, ConcatEmptySeq
    <3>3. input' = Parsed' \o data'
      BY <2>1, <2>6, <3>1, <3>2
    <3> QED
      BY <2>1, <2>4, <2>5, <3>3 DEF UnframeInv, SplitInv
  <2>8. CASE Len(parts) = 1
    <3>1. Parsed = FramePart(parts[1]) /\ Parsed' = FramePart(parts[1]) \o FramePart(p)
      BY <2>3, <2>8 DEF Parsed, Frame
    <3>2. FramePart(parts[1]) \in Seq(Bytes)
      BY <2>8 DEF UnframeInv, SplitInv
    <3>3. FramePart(parts[1]) \o (FramePart(p) \o data')
            = (FramePart(parts[1]) \o FramePart(p)) \o data'
      BY <2>2, <3>2, Assoc
    <3>4. input' = Parsed' \o data'
      BY <2>1, <2>6, <3>1, <3>3
    <3> QED
      BY <2>1, <2>4, <2>5, <3>4 DEF UnframeInv, SplitInv
  <2>9. Len(parts) = 0 \/ Len(parts) = 1
    <3>1. Len(parts) \in Nat /\ Len(parts) < 2
      BY <1>0, <2>1
    <3> QED
      BY <3>1, ZeroOrOne
  <2> QED
    BY <2>7, <2>8, <2>9
<1>4. CASE Finish
  <2>1. Len(data) = 0 => data = <<>>
    BY <1>0, EmptySeq
  <2> QED
    BY <1>4, <2>1 DEF Finish, UnframeInv, UnframeTypeOK, SplitInv, Errors, Parsed
<1>5. CASE UNCHANGED unframeVars
  BY <1>5 DEF unframeVars, UnframeInv, UnframeTypeOK, SplitInv, Parsed
<1> QED
  BY <1>1, <1>2, <1>3, <1>4, <1>5 DEF UnframeNext

LEMMA UnframeInductive == UnframeSpec => []UnframeInv
BY UnframeInitInv, UnframeStepInv, PTL DEF UnframeSpec

-----------------------------------------------------------------------------
(* Framing: the theorems *)

\* unframe never slices out of range, whatever a peer sends: no reachable
\* returned is "panic" (combiner.go:133-151).
THEOREM NeverPanics == UnframeSpec => []UnframeTypeOK
<1>1. UnframeInv => UnframeTypeOK
  BY DEF UnframeInv
<1> QED
  BY <1>1, UnframeInductive, PTL

\* What unframe accepts is the frame of the two components it returns, so no
\* two byte strings are read as the same key or ciphertext
\* (combiner.go:121-151).
THEOREM Exact == UnframeSpec => []ExactInverse
<1>1. UnframeInv => ExactInverse
  <2> SUFFICES ASSUME UnframeInv, returned = "ok" PROVE input = Frame(parts[1], parts[2])
    BY DEF ExactInverse
  <2>0. Len(parts) = 2 /\ data = <<>> /\ input = Parsed \o data
    BY DEF UnframeInv, SplitInv
  <2>1. /\ input = Frame(parts[1], parts[2]) \o <<>>
        /\ FramePart(parts[1]) \in Seq(Bytes) /\ FramePart(parts[2]) \in Seq(Bytes)
    BY <2>0 DEF UnframeInv, SplitInv, Parsed
  <2>2. Frame(parts[1], parts[2]) \in Seq(Bytes)
    BY <2>1, PartsAreBytes DEF Frame
  <2> QED
    BY <2>1, <2>2, ConcatEmptySeq
<1> QED
  BY <1>1, UnframeInductive, PTL

-----------------------------------------------------------------------------
(* Frames are accepted *)

LEMMA DivSmall ==
  ASSUME NEW r \in Nat, r > 1, NEW x \in Nat, NEW y \in Nat, x < y * r
  PROVE  /\ x \div r \in Nat /\ x \div r < y
         /\ x % r \in 0 .. r - 1
         /\ (x \div r) * r + (x % r) = x
OBVIOUS

\* A length below Radix^4 is what its prefix announces.
LEMMA LengthInverse ==
  ASSUME NEW d \in Seq(Bytes), Len(d) >= 4, NEW m \in Nat, m < MaxLength,
         UpTo(d, 4) = PutUint32(m)
  PROVE  Uint32(d) = m
<1> DEFINE n1 == m \div Radix
           n2 == n1 \div Radix
           n3 == n2 \div Radix
<1>0. Radix \in Nat /\ Radix > 1 /\ Radix * Radix \in Nat /\ Radix * Radix * Radix \in Nat
  BY FramingAssumption
<1>1. n1 \in Nat /\ n1 < Radix * Radix * Radix /\ n1 * Radix + (m % Radix) = m
  BY <1>0, DivSmall DEF MaxLength
<1>2. n2 \in Nat /\ n2 < Radix * Radix /\ n2 * Radix + (n1 % Radix) = n1
  <2> HIDE DEF n1
  <2> QED
    BY <1>0, <1>1, DivSmall
<1>3. n3 \in Nat /\ n3 < Radix /\ n3 * Radix + (n2 % Radix) = n2
  <2> HIDE DEF n1, n2
  <2> QED
    BY <1>0, <1>2, DivSmall
<1>4. n3 % Radix = n3
  <2> HIDE DEF n3
  <2> QED
    BY <1>0, <1>3
<1>5. UpTo(d, 4) = <<n3 % Radix, n2 % Radix, n1 % Radix, m % Radix>>
  BY DEF PutUint32
<1>6. \A i \in 1 .. 4 : UpTo(d, 4)[i] = d[i]
  BY LenProperties, SubSeqProperties DEF UpTo
<1>7. d[1] = n3 /\ d[2] = n2 % Radix /\ d[3] = n1 % Radix /\ d[4] = m % Radix
  <2> HIDE DEF n1, n2, n3
  <2> QED
    BY <1>4, <1>5, <1>6
<1> HIDE DEF n1, n2, n3
<1> QED
  BY <1>1, <1>2, <1>3, <1>7 DEF Uint32

LEMMA FromProperties ==
  ASSUME NEW s \in Seq(Bytes), NEW k \in Nat, k <= Len(s)
  PROVE  /\ From(s, k) \in Seq(Bytes) /\ Len(From(s, k)) = Len(s) - k
         /\ \A x \in 1 .. Len(s) - k : From(s, k)[x] = s[k + x]
<1>1. Len(s) \in Nat /\ \A x \in k + 1 .. Len(s) : s[x] \in Bytes
  BY LenProperties, ElementOfSeq
<1> QED
  BY <1>1, SubSeqProperties DEF From

LEMMA FromFrom ==
  ASSUME NEW s \in Seq(Bytes), NEW i \in Nat, NEW j \in Nat, i + j <= Len(s)
  PROVE  From(From(s, i), j) = From(s, i + j)
<1>0. Len(s) \in Nat /\ i <= Len(s) /\ i + j \in Nat
  BY LenProperties
<1> DEFINE t == From(s, i)
           u == From(s, i + j)
<1>1. t \in Seq(Bytes) /\ Len(t) = Len(s) - i /\ \A x \in 1 .. Len(s) - i : t[x] = s[i + x]
  BY <1>0, FromProperties
<1>2. /\ u \in Seq(Bytes) /\ Len(u) = Len(s) - (i + j)
      /\ \A x \in 1 .. Len(s) - (i + j) : u[x] = s[i + j + x]
  BY <1>0, FromProperties
<1> HIDE DEF t, u
<1>3. j <= Len(t)
  BY <1>0, <1>1
<1>4. /\ From(t, j) \in Seq(Bytes) /\ Len(From(t, j)) = Len(t) - j
      /\ \A x \in 1 .. Len(t) - j : From(t, j)[x] = t[j + x]
  BY <1>1, <1>3, FromProperties
<1>5. Len(From(t, j)) = Len(u)
  BY <1>0, <1>1, <1>2, <1>4
<1>6. ASSUME NEW x \in 1 .. Len(u) PROVE From(t, j)[x] = u[x]
  <2>1. x \in 1 .. Len(t) - j /\ j + x \in 1 .. Len(s) - i /\ i + (j + x) = i + j + x
    BY <1>0, <1>1, <1>2
  <2>2. From(t, j)[x] = t[j + x] /\ t[j + x] = s[i + (j + x)]
    BY <1>1, <1>4, <2>1
  <2> QED
    BY <1>2, <2>1, <2>2
<1>7. From(t, j) = u
  BY <1>2, <1>4, <1>5, <1>6, SeqEqual
<1> QED
  BY <1>7 DEF t, u

LEMMA RoomForFour ==
  ASSUME NEW l \in Nat, NEW m \in Nat, m <= l - 8
  PROVE  l - 4 - m >= 4 /\ l - 8 - m \in Nat
OBVIOUS

LEMMA NotShort == ASSUME NEW k \in Nat, k >= 4 PROVE ~(k < 4)
OBVIOUS

\* The rounds on the frame whose first component has length m.
OnFrame(m) ==
  /\ returned \in {"reading", "ok"}
  /\ returned = "reading" =>
       /\ Len(parts) = 0 => data = input
       /\ Len(parts) = 1 => data = From(input, 4 + m)
       /\ Len(parts) = 2 => Len(data) = 0

FrameInv == \A m \in 0 .. Len(input) - 8 : SplitsAt(input, m) => OnFrame(m)

LEMMA OnFrameStep ==
  ASSUME UnframeInv, UnframeNext, NEW m \in Nat, m <= Len(input) - 8, SplitsAt(input, m), OnFrame(m)
  PROVE  OnFrame(m)'
<1>0. /\ input \in Seq(Bytes) /\ data \in Seq(Bytes) /\ parts \in Seq(Seq(Bytes))
      /\ Len(parts) \in Nat /\ Len(parts) <= 2 /\ Len(input) \in Nat /\ Len(data) \in Nat
      /\ m \in Nat /\ m <= Len(input) - 8 /\ 4 + m \in Nat
  BY FramingAssumption, LenProperties DEF UnframeInv, UnframeTypeOK
<1> DEFINE n == Uint32(data)
           rest == From(data, 4)
\* What the round before the last and the last one find.
<1>1. ASSUME Reading
      PROVE  /\ Len(data) >= 4 /\ Fits(n) /\ rest \in Seq(Bytes)
             /\ Len(parts) = 0 => From(rest, n) = From(input, 4 + m)
             /\ Len(parts) = 1 => Len(From(rest, n)) = 0
  <2>0. Len(parts) = 0 \/ Len(parts) = 1
    <3>1. Len(parts) \in Nat /\ Len(parts) < 2
      BY <1>0, <1>1 DEF Reading
    <3> QED
      BY <3>1, ZeroOrOne
  <2>1. CASE Len(parts) = 0
    <3>1. data = input
      BY <1>1, <2>1 DEF OnFrame, Reading
    <3>2. Len(data) >= 4
      BY <1>0, <3>1
    <3>3. n = m
      BY <1>0, <3>1, <3>2, LengthInverse DEF SplitsAt
    <3>4. rest \in Seq(Bytes) /\ Len(rest) = Len(input) - 4 /\ From(rest, m) = From(input, 4 + m)
      BY <1>0, <3>1, FromProperties, FromFrom
    <3>5. n <= Len(rest)
      BY <1>0, <3>3, <3>4
    <3> QED
      BY <2>1, <3>2, <3>3, <3>4, <3>5 DEF Fits
  <2>2. CASE Len(parts) = 1
    <3>1. data = From(input, 4 + m)
      BY <1>1, <2>2 DEF OnFrame, Reading
    <3>2. Len(data) = Len(input) - 4 - m
      <4>1. Len(input) - 4 \in Nat /\ 4 + m <= Len(input) /\ Len(input) - (4 + m) = Len(input) - 4 - m
        BY <1>0
      <4>2. Len(From(input, 4 + m)) = Len(input) - (4 + m)
        BY <1>0, <4>1, FromProperties
      <4> QED
        BY <3>1, <4>1, <4>2
    <3>3. Len(data) >= 4 /\ Len(input) - 8 - m \in Nat
      BY <1>0, <3>2, RoomForFour
    <3>4. n = Len(input) - 8 - m
      BY <1>0, <3>1, <3>3, LengthInverse DEF SplitsAt
    <3>5. rest \in Seq(Bytes) /\ Len(rest) = n
      <4>1. rest \in Seq(Bytes) /\ Len(rest) = Len(data) - 4
        BY <1>0, <3>3, FromProperties
      <4>2. Len(data) - 4 = Len(input) - 8 - m
        BY <1>0, <3>2
      <4> QED
        BY <3>4, <4>1, <4>2
    <3>6. Len(From(rest, n)) = 0
      <4> HIDE DEF rest, n
      <4>1. Len(rest) \in Nat
        BY <3>5, LenProperties
      <4> QED
        BY <3>5, <4>1, FromProperties
    <3>7. n <= Len(rest)
      BY <1>0, <3>4, <3>5
    <3> QED
      BY <2>2, <3>3, <3>5, <3>6, <3>7 DEF Fits
  <2> QED
    BY <2>0, <2>1, <2>2
<1>2. CASE TruncatedPrefix
  BY <1>0, <1>1, <1>2, NotShort DEF TruncatedPrefix
<1>3. CASE TruncatedComponent
  BY <1>1, <1>3 DEF TruncatedComponent
<1>4. CASE TakePart
  <2>1. /\ Reading /\ n <= Len(rest)
        /\ parts' = Append(parts, UpTo(rest, n)) /\ data' = From(rest, n)
        /\ returned' = returned /\ input' = input
    BY <1>4 DEF TakePart, Fits
  <2>2. Len(parts') = Len(parts) + 1
    BY <1>0, <2>1, LenProperties
  <2> HIDE DEF n, rest
  <2>3. (Len(parts) = 0 \/ Len(parts) = 1) /\ returned = "reading"
    <3>1. Len(parts) \in Nat /\ Len(parts) < 2 /\ returned = "reading"
      BY <1>0, <2>1 DEF Reading
    <3> QED
      BY <3>1, ZeroOrOne
  <2>4. CASE Len(parts) = 0
    BY <1>1, <2>1, <2>2, <2>3, <2>4 DEF OnFrame
  <2>5. CASE Len(parts) = 1
    BY <1>1, <2>1, <2>2, <2>3, <2>5 DEF OnFrame
  <2> QED
    BY <2>3, <2>4, <2>5
<1>5. CASE Finish
  BY <1>5 DEF Finish, OnFrame
<1> QED
  BY <1>2, <1>3, <1>4, <1>5 DEF UnframeNext

LEMMA FrameInductive == UnframeSpec => []FrameInv
<1>1. UnframeInit => FrameInv
  <2>1. ASSUME UnframeInit PROVE Len(parts) = 0 /\ returned = "reading" /\ data = input
    BY <2>1 DEF UnframeInit
  <2> QED
    BY <2>1 DEF FrameInv, OnFrame
<1>2. UnframeInv /\ FrameInv /\ [UnframeNext]_unframeVars => FrameInv'
  <2> SUFFICES ASSUME UnframeInv, FrameInv, [UnframeNext]_unframeVars,
                      NEW m \in 0 .. Len(input') - 8, SplitsAt(input', m)
               PROVE  OnFrame(m)'
    BY DEF FrameInv, SplitsAt
  <2>1. input' = input
    BY DEF unframeVars, UnframeNext, TruncatedPrefix, TruncatedComponent, TakePart, Finish
  <2>2. SplitsAt(input, m) /\ OnFrame(m)
    BY <2>1 DEF FrameInv
  <2>6. m \in Nat /\ m <= Len(input) - 8
    <3>1. Len(input) \in Nat
      BY LenProperties, FramingAssumption DEF UnframeInv, UnframeTypeOK
    <3> QED
      BY <2>1, <3>1
  <2>3. CASE UnframeNext
    BY <2>2, <2>3, <2>6, OnFrameStep
  <2>4. CASE UNCHANGED unframeVars
    BY <2>2, <2>4 DEF unframeVars, OnFrame
  <2> QED
    BY <2>3, <2>4
<1> QED
  BY <1>1, <1>2, UnframeInductive, PTL DEF UnframeSpec

\* unframe refuses no frame of two components that are shorter than Radix^4
\* bytes each (combiner.go:121-150).
THEOREM Complete == UnframeSpec => []RefusesNoFrame
<1>1. FrameInv => RefusesNoFrame
  BY DEF FrameInv, RefusesNoFrame, IsFrame, OnFrame, Errors
<1> QED
  BY <1>1, FrameInductive, PTL
=============================================================================
