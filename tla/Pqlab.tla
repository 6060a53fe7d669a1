------------------------------- MODULE Pqlab -------------------------------
(***************************************************************************)
(* Command pqlab (cmd/pqlab/main.go, cmd/pqlab/signdemo.go): main's        *)
(* dispatch, buildRegistry, the KEM demo with its two sessions and the     *)
(* signature demo with its one.  The sessions are any that keep            *)
(* KEMContract and SignatureContract; every call of theirs may fail.  The  *)
(* demos that run openssl end with or without an error here.               *)
(***************************************************************************)
EXTENDS Naturals, Sequences

CONSTANTS
  Commands,  \* "none", "demo", "demo-sign", "other": the shape of the arguments
  Names,     \* the names given to a demo
  None       \* nothing yet

ASSUME PqlabAssumption ==
  None \notin {"nil", "error", "initiator", "responder", "session"} /\ None \notin {0, 1}

OpenSSLDemos == {"hybrid-tls", "cert-migration", "ca-rotation", "interop-tls"}

\* Mutant: the hybrid takes the name of its first component.
HybridNameOfFirst == "X25519"

HybridName == "Hybrid(X25519+ML-KEM-768)"

KEMFactories == {"X25519", "ML-KEM-768", HybridName}
SignatureFactories == {"Ed25519", "ML-DSA-65"}

\* The algorithms of buildRegistry, in its order.
Algorithms == <<"X25519", "ML-KEM-768", HybridName, "Ed25519", "ML-DSA-65">>

VARIABLES
  command, name,  \* os.Args
  pc,             \* the next call
  registry,       \* the registered names
  index,          \* of the algorithm buildRegistry registers next
  deferred,       \* the sessions whose Close is deferred
  failed,         \* a call has returned an error
  result,         \* what the demo returns, "nil" or "error"
  exit            \* the exit status

VARIABLES kemStatus, kemKey, pubs, cts, decapsulated, sigStatus, sigKey, sigPubs, sigs, verified

mainVars == <<command, name, registry, index>>
kemVars  == <<kemStatus, kemKey, pubs, cts, decapsulated>>
sigVars  == <<sigStatus, sigKey, sigPubs, sigs, verified>>
vars == <<mainVars, pc, deferred, failed, result, exit, kemVars, sigVars>>

PublicKeys == {"pk1", "pk2"}

KEM == INSTANCE KEMContract WITH
  Sessions <- {"initiator", "responder"},
  Ciphertexts <- {"ct1", "ct2"}, PublicKeyOf <- [ct1 |-> "pk1", ct2 |-> "pk2"],
  NoKey <- None, NoOutcome <- None,
  status <- kemStatus, current <- kemKey, outcome <- decapsulated

Sig == INSTANCE SignatureContract WITH
  Sessions <- {"session"}, Messages <- {"signDemoMessage"}, NoKey <- None, NoOutcome <- None,
  status <- sigStatus, current <- sigKey, pubs <- sigPubs, outcome <- verified

Init ==
  /\ command \in Commands /\ name \in Names
  /\ pc = "main" /\ registry = {} /\ index = 1 /\ deferred = <<>>
  /\ failed = FALSE /\ result = None /\ exit = None
  /\ KEM!Init /\ Sig!Init

-----------------------------------------------------------------------------
(* main, and the registry *)

Go(from, to) == pc = from /\ pc' = to

Exit(status) == Go("main", "exited") /\ exit' = status

\* The usage, or the end of main.
Main ==
  /\ \/ command = "none" /\ Exit(0)
     \/ command = "other" /\ Exit(1)
     \/ result # None /\ Exit(IF result = "nil" THEN 0 ELSE 1)
  /\ UNCHANGED <<mainVars, deferred, failed, result, kemVars, sigVars>>

\* runDemo and runSignDemo up to buildRegistry.
StartDemo ==
  /\ command \in {"demo", "demo-sign"} /\ result = None
  /\ Go("main", IF command = "demo" /\ name \in OpenSSLDemos THEN name ELSE "Register")
  /\ UNCHANGED <<mainVars, deferred, failed, result, exit, kemVars, sigVars>>

OpenSSLDemo ==
  /\ pc \in OpenSSLDemos
  /\ pc' = "main"
  /\ \/ result' = "nil" /\ UNCHANGED failed
     \/ result' = "error" /\ failed' = TRUE
  /\ UNCHANGED <<mainVars, deferred, exit, kemVars, sigVars>>

\* A name that is taken makes buildRegistry panic.
Register ==
  /\ pc = "Register"
  /\ pc' = IF Algorithms[index] \in registry THEN "panic"
           ELSE IF index = Len(Algorithms) THEN "Lookup" ELSE "Register"
  /\ registry' = registry \union {Algorithms[index]}
  /\ index' = index + 1
  /\ UNCHANGED <<command, name, deferred, failed, result, exit, kemVars, sigVars>>

Factories == IF command = "demo" THEN KEMFactories ELSE SignatureFactories

\* Lookup and the type assertion.
Lookup ==
  /\ \/ /\ name \in registry \intersect Factories
        /\ Go("Lookup", IF command = "demo" THEN "NewInitiator" ELSE "NewSession")
        /\ UNCHANGED result
     \/ /\ name \notin registry \intersect Factories
        /\ Go("Lookup", "main")
        /\ result' = "error"
  /\ UNCHANGED <<mainVars, deferred, failed, exit, kemVars, sigVars>>

-----------------------------------------------------------------------------
(* Calls of a session *)

\* Mutant: the initiator's Close is deferred together with the responder's.
CallDeferLate(from, to, s) ==
  /\ Go(from, to)
  /\ deferred' = IF from = "NewResponder" THEN <<"initiator", s>>
                 ELSE IF from = "NewInitiator" THEN deferred
                 ELSE IF s = None THEN deferred ELSE Append(deferred, s)
  /\ UNCHANGED <<mainVars, failed, result, exit>>

\* A call that succeeds; after New the Close of the session s is deferred.
Call(from, to, s) ==
  /\ Go(from, to)
  /\ deferred' = IF s = None THEN deferred ELSE Append(deferred, s)
  /\ UNCHANGED <<mainVars, failed, result, exit>>

KEMCall(from, to, s) == Call(from, to, s) /\ UNCHANGED sigVars
SigCall(from, to, s) == Call(from, to, s) /\ UNCHANGED kemVars

NewInitiator == KEMCall("NewInitiator", "NewResponder", "initiator") /\ KEM!New("initiator")
NewResponder ==
  KEMCall("NewResponder", "KEMGenerateKeyPair", "responder") /\ KEM!New("responder")

\* Mutant: the responder generates the key pair.
KEMGenerateKeyPairByResponder ==
  KEMCall("KEMGenerateKeyPair", "Encapsulate", None) /\ KEM!GenerateKeyPair("responder")

KEMGenerateKeyPair ==
  KEMCall("KEMGenerateKeyPair", "Encapsulate", None) /\ KEM!GenerateKeyPair("initiator")
Encapsulate == KEMCall("Encapsulate", "Decapsulate", None) /\ KEM!Encapsulate("responder")

Decapsulate == KEMCall("Decapsulate", "compare", None) /\ KEM!Decapsulate("initiator")

NewSession == SigCall("NewSession", "SigGenerateKeyPair", "session") /\ Sig!New("session")
SigGenerateKeyPair ==
  SigCall("SigGenerateKeyPair", "Sign", None) /\ Sig!GenerateKeyPair("session")
Sign == SigCall("Sign", "Verify", None) /\ Sig!Sign("session")
Verify == SigCall("Verify", "compare", None) /\ Sig!Verify("session")

Calls == {"NewInitiator", "NewResponder", "KEMGenerateKeyPair", "Encapsulate", "Decapsulate",
          "NewSession", "SigGenerateKeyPair", "Sign", "Verify"}

\* Mutant: the error of the last call is lost, and runDemo returns nil.
CallFailsShadowed ==
  /\ pc \in Calls
  /\ pc' = "return"
  /\ failed' = TRUE
  /\ result' = IF pc \in {"Decapsulate", "Verify"} THEN "nil" ELSE "error"
  /\ UNCHANGED <<mainVars, deferred, exit, kemVars, sigVars>>

\* Any call may return an error, which the demo returns.
CallFails ==
  /\ pc \in Calls
  /\ pc' = "return"
  /\ failed' = TRUE /\ result' = "error"
  /\ IF pc = "KEMGenerateKeyPair" THEN KEM!GenerateKeyPairFails("initiator")
     ELSE UNCHANGED kemVars
  /\ IF pc = "SigGenerateKeyPair" THEN Sig!GenerateKeyPairFails("session")
     ELSE UNCHANGED sigVars
  /\ UNCHANGED <<mainVars, deferred, exit>>

\* The secrets must match, the signature must be valid.
Compare ==
  /\ Go("compare", "return")
  /\ result' = IF (IF command = "demo" THEN decapsulated["initiator"].match ELSE verified.valid)
               THEN "nil" ELSE "error"
  /\ UNCHANGED <<mainVars, deferred, failed, exit, kemVars, sigVars>>

\* The deferred calls, the last one first.
DeferredClose ==
  /\ pc = "return"
  /\ IF deferred = <<>> THEN pc' = "main" /\ UNCHANGED <<deferred, kemVars, sigVars>>
     ELSE LET s == deferred[Len(deferred)]
          IN  /\ deferred' = SubSeq(deferred, 1, Len(deferred) - 1)
              /\ IF s = "session" THEN Sig!Close(s) /\ UNCHANGED kemVars
                 ELSE KEM!Close(s) /\ UNCHANGED sigVars
              /\ UNCHANGED pc
  /\ UNCHANGED <<mainVars, failed, result, exit>>

Next ==
  \/ Main \/ StartDemo \/ OpenSSLDemo \/ Register \/ Lookup
  \/ NewInitiator \/ NewResponder \/ KEMGenerateKeyPair \/ Encapsulate \/ Decapsulate
  \/ NewSession \/ SigGenerateKeyPair \/ Sign \/ Verify
  \/ CallFails \/ Compare \/ DeferredClose

Spec == Init /\ [][Next]_vars

-----------------------------------------------------------------------------
(* Properties *)

\* Type invariant; buildRegistry does not panic (main.go:76-81).
TypeOK ==
  /\ command \in Commands /\ name \in Names
  /\ pc \in Calls \union OpenSSLDemos
              \union {"main", "Register", "Lookup", "compare", "return", "exited"}
  /\ registry \subseteq {Algorithms[i] : i \in DOMAIN Algorithms}
  /\ index \in 1 .. Len(Algorithms) + 1
  /\ result \in {None, "nil", "error"} /\ exit \in {None, 0, 1} /\ failed \in BOOLEAN

\* Every session a demo has opened is closed, once, when pqlab exits, whichever
\* call fails (main.go:112-122, signdemo.go:27-31; "Callers must Close it when
\* done", agility/kem.go:9).
SessionsClosed ==
  exit # None => /\ \A s \in DOMAIN kemStatus : kemStatus[s] # "held"
                 /\ sigStatus["session"] # "held"

\* pqlab reports success only after both sides hold one secret, or the
\* signature has verified, and no call failed (main.go:139-143,
\* signdemo.go:43-48).
SuccessIsAgreement ==
  exit = 0 =>
    /\ ~failed
    /\ command = "demo" /\ name \in KEMFactories => decapsulated["initiator"].match
    /\ command = "demo-sign" => name \in SignatureFactories /\ verified.valid

\* It fails only for its arguments or because a call failed: the exchange of
\* runDemo and the round of runSignDemo never end in a mismatch.
OnlyFailuresFail ==
  exit = 1 =>
    \/ failed \/ command = "other"
    \/ command = "demo" /\ name \notin KEMFactories
    \/ command = "demo-sign" /\ name \notin SignatureFactories
=============================================================================
