---------------------------- MODULE PqlabProofs ----------------------------
(***************************************************************************)
(* The inductive invariant of Pqlab, for any arguments: which sessions are *)
(* held is told by the deferred calls, and what the exchange has produced  *)
(* by the call that comes next.                                            *)
(***************************************************************************)
EXTENDS Pqlab, SequenceTheorems, TLAPS

KEMCalls == {"NewInitiator", "NewResponder", "KEMGenerateKeyPair", "Encapsulate", "Decapsulate"}
SigCalls == {"NewSession", "SigGenerateKeyPair", "Sign", "Verify"}

Both == <<"initiator", "responder">>

\* The sessions whose Close is deferred are those that are held; a demo defers
\* nothing before its first New and after its return.
DeferInv ==
  /\ DOMAIN kemStatus = {"initiator", "responder"} /\ DOMAIN sigStatus = {"session"}
  /\ deferred \in {<<>>, <<"initiator">>, Both, <<"session">>}
  /\ kemStatus["initiator"] = "held" <=> deferred \in {<<"initiator">>, Both}
  /\ kemStatus["responder"] = "held" <=> deferred = Both
  /\ sigStatus["session"] = "held" <=> deferred = <<"session">>
  /\ pc = "NewResponder" => deferred = <<"initiator">>
  /\ pc \notin {"NewResponder", "KEMGenerateKeyPair", "Encapsulate", "Decapsulate",
                "SigGenerateKeyPair", "Sign", "Verify", "compare", "return"} => deferred = <<>>

\* buildRegistry has registered the algorithms before index, each once.
RegistryInv ==
  /\ pc \in OpenSSLDemos \union {"main"} /\ result = None => registry = {} /\ index = 1
  /\ pc = "Register" =>
       index \in 1 .. Len(Algorithms) /\ registry = {Algorithms[i] : i \in 1 .. index - 1}
  /\ pc = "Lookup" => registry = {Algorithms[i] : i \in 1 .. Len(Algorithms)}

\* The public key the initiator stands by, the ciphertext made for it, the
\* secret in it.
KEMInv ==
  /\ DOMAIN kemKey = {"initiator", "responder"}
  /\ DOMAIN decapsulated = {"initiator", "responder"}
  /\ result = None /\ pc \notin {"Encapsulate", "Decapsulate", "compare"} => pubs = {} /\ cts = {}
  /\ pc = "Encapsulate" => pubs = {kemKey["initiator"]} /\ cts = {}
  /\ pc = "Decapsulate" =>
       \A ct \in cts : [ct1 |-> "pk1", ct2 |-> "pk2"][ct] = kemKey["initiator"]
  /\ pc = "compare" /\ command = "demo" => decapsulated["initiator"].match

\* The public key the session stands by, the signature it has made.
SigInv ==
  /\ DOMAIN sigKey = {"session"}
  /\ result = None /\ pc \notin {"Sign", "Verify", "compare"} => sigPubs = {} /\ sigs = {}
  /\ pc \in {"Sign", "Verify"} => sigPubs = {sigKey["session"]}
  /\ pc = "Sign" => sigs = {}
  /\ pc = "Verify" => sigs = {[by |-> sigKey["session"], message |-> "signDemoMessage"]}
  /\ pc = "compare" /\ command = "demo-sign" => verified.valid

\* Which demo the next call belongs to.
DemoInv ==
  /\ pc \in KEMCalls => command = "demo" /\ name \in KEMFactories
  /\ pc \in SigCalls => command = "demo-sign" /\ name \in SignatureFactories
  /\ pc \in {"compare", "Register", "Lookup", "return"} => command \in {"demo", "demo-sign"}
  /\ pc = "compare" => name \in Factories
  /\ pc \in OpenSSLDemos => command = "demo" /\ name = pc
  /\ result # None => command \in {"demo", "demo-sign"} /\ pc \in {"return", "main", "exited"}
  /\ pc = "return" => result # None
  /\ exit # None <=> pc = "exited"

\* What a demo returns, and the exit status, tell what has happened.
VerdictInv ==
  /\ result = None => ~failed
  /\ result = "nil" =>
       /\ ~failed
       /\ command = "demo" /\ name \in KEMFactories => decapsulated["initiator"].match
       /\ command = "demo-sign" => name \in SignatureFactories /\ verified.valid
  /\ result = "error" => failed \/ name \notin Factories
  /\ exit = 0 => (command = "none" /\ result = None) \/ result = "nil"
  /\ exit = 1 => command = "other" \/ result = "error"

IInv == TypeOK /\ DeferInv /\ RegistryInv /\ KEMInv /\ SigInv /\ DemoInv /\ VerdictInv

LEMMA FiveAlgorithms == Len(Algorithms) = 5 /\ DOMAIN Algorithms = 1 .. 5
BY DEF Algorithms

LEMMA InitInv == Init => IInv
<1> SUFFICES ASSUME Init PROVE IInv
  OBVIOUS
<1> USE PqlabAssumption DEF Init
<1>1. TypeOK
  <2>1. index \in 1 .. Len(Algorithms) + 1
    BY FiveAlgorithms
  <2>2. exit \in {None, 0, 1} /\ result \in {None, "nil", "error"}
    OBVIOUS
  <2>3. failed \in BOOLEAN
    OBVIOUS
  <2>4. pc \in Calls \union OpenSSLDemos
                 \union {"main", "Register", "Lookup", "compare", "return", "exited"}
    OBVIOUS
  <2>5. registry \subseteq {Algorithms[i] : i \in DOMAIN Algorithms}
    OBVIOUS
  <2> QED
    BY <2>1, <2>2, <2>3, <2>4, <2>5 DEF TypeOK
<1>2. DeferInv
  BY DEF DeferInv, KEM!Init, Sig!Init, Both, OpenSSLDemos
<1>3. RegistryInv
  BY DEF RegistryInv
<1>4. KEMInv /\ SigInv
  BY DEF KEMInv, SigInv, KEM!Init, Sig!Init
<1>5. DemoInv
  BY DEF DemoInv, KEMCalls, SigCalls, OpenSSLDemos
<1>6. VerdictInv
  BY DEF VerdictInv
<1> QED
  BY <1>1, <1>2, <1>3, <1>4, <1>5, <1>6 DEF IInv

-----------------------------------------------------------------------------
(* main and the registry *)

LEMMA MainInv == IInv /\ Main => IInv'
<1> SUFFICES ASSUME IInv, Main PROVE IInv'
  OBVIOUS
<1>1. /\ pc = "main" /\ pc' = "exited"
      /\ UNCHANGED <<command, name, registry, index, deferred, failed, result>>
      /\ UNCHANGED <<kemStatus, kemKey, pubs, cts, decapsulated>>
      /\ UNCHANGED <<sigStatus, sigKey, sigPubs, sigs, verified>>
  BY DEF Main, Exit, Go, mainVars, kemVars, sigVars
<1>2. \/ command = "none" /\ exit' = 0
      \/ command = "other" /\ exit' = 1
      \/ result # None /\ exit' = IF result = "nil" THEN 0 ELSE 1
  BY DEF Main, Exit, Go
<1>3. TypeOK'
  BY <1>1, <1>2 DEF IInv, TypeOK
<1>4. DeferInv' /\ RegistryInv'
  BY <1>1 DEF IInv, DeferInv, RegistryInv, OpenSSLDemos
<1>5. KEMInv' /\ SigInv'
  BY <1>1 DEF IInv, KEMInv, SigInv
<1>6. DemoInv'
  BY <1>1, <1>2, PqlabAssumption DEF IInv, DemoInv, OpenSSLDemos, KEMCalls, SigCalls
<1>7. VerdictInv'
  <2>1. exit' = 0 => (command = "none" /\ result = None) \/ result = "nil"
    BY <1>1, <1>2 DEF IInv, DemoInv
  <2>2. exit' = 1 => command = "other" \/ result = "error"
    BY <1>1, <1>2, PqlabAssumption DEF IInv, TypeOK
  <2> QED
    BY <1>1, <2>1, <2>2 DEF IInv, VerdictInv, Factories
<1> QED
  BY <1>3, <1>4, <1>5, <1>6, <1>7 DEF IInv

\* The sessions and what they have exchanged are left alone, and so are the
\* sessions' deferred calls, by the steps that are not calls.
NoCall == /\ UNCHANGED <<kemStatus, kemKey, pubs, cts, decapsulated>>
          /\ UNCHANGED <<sigStatus, sigKey, sigPubs, sigs, verified>>
          /\ UNCHANGED <<command, name, deferred>>

LEMMA StartDemoInv == IInv /\ StartDemo => IInv'
<1> SUFFICES ASSUME IInv, StartDemo PROVE IInv'
  OBVIOUS
<1>1. /\ pc = "main" /\ result = None /\ command \in {"demo", "demo-sign"} /\ NoCall
      /\ UNCHANGED <<registry, index, failed, result, exit>>
      /\ pc' = IF command = "demo" /\ name \in OpenSSLDemos THEN name ELSE "Register"
  BY DEF StartDemo, Go, mainVars, kemVars, sigVars, NoCall
<1>2. pc' = "Register" \/ (command = "demo" /\ pc' = name /\ name \in OpenSSLDemos)
  BY <1>1
<1>3. TypeOK'
  BY <1>1, <1>2 DEF IInv, TypeOK, NoCall
<1>4. DeferInv'
  BY <1>1, <1>2 DEF IInv, DeferInv, NoCall, OpenSSLDemos
<1>5. RegistryInv'
  <2>1. registry = {} /\ index = 1
    BY <1>1 DEF IInv, RegistryInv
  <2>2. index \in 1 .. Len(Algorithms) /\ registry = {Algorithms[i] : i \in 1 .. index - 1}
    BY <2>1, FiveAlgorithms
  <2> QED
    BY <1>1, <1>2, <2>1, <2>2 DEF RegistryInv, OpenSSLDemos, NoCall
<1>6. KEMInv' /\ SigInv'
  BY <1>1, <1>2 DEF IInv, KEMInv, SigInv, NoCall, OpenSSLDemos
<1>7. DemoInv'
  BY <1>1, <1>2 DEF IInv, DemoInv, NoCall, OpenSSLDemos, KEMCalls, SigCalls
<1>8. VerdictInv'
  BY <1>1 DEF IInv, VerdictInv, NoCall, Factories
<1> QED
  BY <1>3, <1>4, <1>5, <1>6, <1>7, <1>8 DEF IInv

LEMMA OpenSSLDemoInv == IInv /\ OpenSSLDemo => IInv'
<1> SUFFICES ASSUME IInv, OpenSSLDemo PROVE IInv'
  OBVIOUS
<1>1. /\ pc \in OpenSSLDemos /\ pc' = "main" /\ NoCall
      /\ UNCHANGED <<registry, index, exit>>
      /\ result' \in {"nil", "error"}
      /\ result' = "nil" => failed' = failed
      /\ result' = "error" => failed' = TRUE
  BY DEF OpenSSLDemo, mainVars, kemVars, sigVars, NoCall
<1>2. /\ result' # None /\ result = None /\ exit = None /\ ~failed
      /\ command = "demo" /\ name = pc
  BY <1>1, PqlabAssumption DEF IInv, DemoInv, VerdictInv, OpenSSLDemos
<1>3. name \notin KEMFactories
  <2>1. HybridName \notin OpenSSLDemos
    BY DEF HybridName, OpenSSLDemos
  <2> QED
    BY <1>1, <1>2, <2>1 DEF OpenSSLDemos, KEMFactories
<1>4. TypeOK'
  BY <1>1, <1>2 DEF IInv, TypeOK, NoCall
<1>5. DeferInv'
  BY <1>1 DEF IInv, DeferInv, NoCall, OpenSSLDemos
<1>6. RegistryInv' /\ KEMInv' /\ SigInv'
  BY <1>1, <1>2 DEF IInv, RegistryInv, KEMInv, SigInv, NoCall, OpenSSLDemos
<1>7. DemoInv'
  BY <1>1, <1>2 DEF IInv, DemoInv, NoCall, OpenSSLDemos, KEMCalls, SigCalls
<1>8. VerdictInv'
  <2>1. exit' # 0 /\ exit' # 1
    BY <1>1, <1>2, PqlabAssumption
  <2> QED
    BY <1>1, <1>2, <1>3, <2>1 DEF VerdictInv, NoCall, Factories
<1> QED
  BY <1>4, <1>5, <1>6, <1>7, <1>8 DEF IInv

\* No two algorithms of buildRegistry have the same name.
LEMMA Distinct ==
  \A i, j \in 1 .. 5 : Algorithms[i] = Algorithms[j] => i = j
<1>1. HybridName \notin {"X25519", "ML-KEM-768", "Ed25519", "ML-DSA-65"}
  BY DEF HybridName
<1> QED
  BY <1>1 DEF Algorithms

LEMMA RegisterInv == IInv /\ Register => IInv'
<1> SUFFICES ASSUME IInv, Register PROVE IInv'
  OBVIOUS
<1>1. /\ pc = "Register" /\ NoCall /\ UNCHANGED <<failed, result, exit>>
      /\ registry' = registry \union {Algorithms[index]} /\ index' = index + 1
      /\ pc' = IF Algorithms[index] \in registry THEN "panic"
               ELSE IF index = Len(Algorithms) THEN "Lookup" ELSE "Register"
  BY DEF Register, kemVars, sigVars, NoCall
<1>2. index \in 1 .. 5 /\ registry = {Algorithms[i] : i \in 1 .. index - 1}
  BY <1>1, FiveAlgorithms DEF IInv, RegistryInv
<1>3. Algorithms[index] \notin registry
  BY <1>2, Distinct
<1>4. pc' = IF index = 5 THEN "Lookup" ELSE "Register"
  BY <1>1, <1>3, FiveAlgorithms
<1>5. registry' = {Algorithms[i] : i \in 1 .. index' - 1}
  <2>1. 1 .. index' - 1 = (1 .. index - 1) \union {index}
    BY <1>1, <1>2
  <2> QED
    BY <1>1, <1>2, <2>1
<1>6. TypeOK'
  <2>1. index' \in 1 .. Len(Algorithms) + 1
    BY <1>1, <1>2, FiveAlgorithms
  <2>2. registry' \subseteq {Algorithms[i] : i \in DOMAIN Algorithms}
    BY <1>1, <1>2, FiveAlgorithms DEF IInv, TypeOK
  <2>3. pc' \in {"Lookup", "Register"}
    BY <1>4
  <2> QED
    BY <1>1, <2>1, <2>2, <2>3 DEF IInv, TypeOK, NoCall
<1>7. DeferInv'
  BY <1>1, <1>4 DEF IInv, DeferInv, NoCall
<1>8. RegistryInv'
  <2>1. pc' = "Register" => index' \in 1 .. Len(Algorithms)
    BY <1>1, <1>2, <1>4, FiveAlgorithms
  <2>2. pc' = "Lookup" => registry' = {Algorithms[i] : i \in 1 .. Len(Algorithms)}
    BY <1>1, <1>2, <1>4, <1>5, FiveAlgorithms
  <2> QED
    BY <1>4, <1>5, <2>1, <2>2 DEF RegistryInv, OpenSSLDemos
<1>9. KEMInv' /\ SigInv'
  BY <1>1, <1>4 DEF IInv, KEMInv, SigInv, NoCall
<1>10. DemoInv' /\ VerdictInv'
  BY <1>1, <1>4 DEF IInv, DemoInv, VerdictInv, Factories, NoCall, OpenSSLDemos, KEMCalls, SigCalls
<1> QED
  BY <1>6, <1>7, <1>8, <1>9, <1>10 DEF IInv

\* buildRegistry registers every factory a demo may ask for.
LEMMA AllRegistered ==
  ASSUME IInv, pc = "Lookup"
  PROVE  Factories \subseteq registry
<1>1. registry = {Algorithms[i] : i \in 1 .. 5}
  BY FiveAlgorithms DEF IInv, RegistryInv
<1>2. \A i \in 1 .. 5 : Algorithms[i] \in registry
  BY <1>1
<1>3. {Algorithms[1], Algorithms[2], Algorithms[3], Algorithms[4], Algorithms[5]} \subseteq registry
  BY <1>2
<1>4. /\ Algorithms[1] = "X25519" /\ Algorithms[2] = "ML-KEM-768" /\ Algorithms[3] = HybridName
      /\ Algorithms[4] = "Ed25519" /\ Algorithms[5] = "ML-DSA-65"
  BY DEF Algorithms
<1> QED
  BY <1>3, <1>4 DEF Factories, KEMFactories, SignatureFactories

LEMMA LookupInv == IInv /\ Lookup => IInv'
<1> SUFFICES ASSUME IInv, Lookup PROVE IInv'
  OBVIOUS
<1>1. /\ pc = "Lookup" /\ NoCall /\ UNCHANGED <<registry, index, failed, exit>>
      /\ \/ /\ name \in registry \intersect Factories /\ UNCHANGED result
            /\ pc' = IF command = "demo" THEN "NewInitiator" ELSE "NewSession"
         \/ /\ name \notin registry \intersect Factories
            /\ pc' = "main" /\ result' = "error"
  BY DEF Lookup, Go, mainVars, kemVars, sigVars, NoCall
<1>2. command \in {"demo", "demo-sign"} /\ result = None /\ exit = None /\ ~failed
  BY <1>1 DEF IInv, DemoInv, VerdictInv
<1>3. name \in registry \intersect Factories <=> name \in Factories
  BY <1>1, AllRegistered
<1>4. ASSUME name \in Factories, UNCHANGED result, pc' = "NewInitiator", command = "demo"
      PROVE  IInv'
  <2>1. TypeOK'
    BY <1>1, <1>4 DEF IInv, TypeOK, NoCall, Calls
  <2>2. DeferInv' /\ RegistryInv'
    BY <1>1, <1>4 DEF IInv, DeferInv, RegistryInv, NoCall, OpenSSLDemos
  <2>3. KEMInv' /\ SigInv'
    BY <1>1, <1>4 DEF IInv, KEMInv, SigInv, NoCall
  <2>4. DemoInv' /\ VerdictInv'
    BY <1>1, <1>2, <1>4
       DEF IInv, DemoInv, VerdictInv, Factories, NoCall, OpenSSLDemos, KEMCalls, SigCalls
  <2> QED
    BY <2>1, <2>2, <2>3, <2>4 DEF IInv
<1>5. ASSUME name \in Factories, UNCHANGED result, pc' = "NewSession", command = "demo-sign"
      PROVE  IInv'
  <2>1. TypeOK'
    BY <1>1, <1>5 DEF IInv, TypeOK, NoCall, Calls
  <2>2. DeferInv' /\ RegistryInv'
    BY <1>1, <1>5 DEF IInv, DeferInv, RegistryInv, NoCall, OpenSSLDemos
  <2>3. KEMInv' /\ SigInv'
    BY <1>1, <1>5 DEF IInv, KEMInv, SigInv, NoCall
  <2>4. DemoInv' /\ VerdictInv'
    BY <1>1, <1>2, <1>5
       DEF IInv, DemoInv, VerdictInv, Factories, NoCall, OpenSSLDemos, KEMCalls, SigCalls
  <2> QED
    BY <2>1, <2>2, <2>3, <2>4 DEF IInv
<1>6. ASSUME name \notin Factories, result' = "error", pc' = "main"
      PROVE  IInv'
  <2>0. result' # None
    BY <1>6, PqlabAssumption
  <2>1. TypeOK'
    BY <1>1, <1>6 DEF IInv, TypeOK, NoCall
  <2>2. DeferInv' /\ RegistryInv'
    BY <1>1, <1>6, <2>0 DEF IInv, DeferInv, RegistryInv, NoCall, OpenSSLDemos
  <2>3. KEMInv' /\ SigInv'
    BY <1>1, <1>6, <2>0 DEF IInv, KEMInv, SigInv, NoCall
  <2>4. DemoInv'
    BY <1>1, <1>2, <1>6, <2>0 DEF IInv, DemoInv, NoCall, OpenSSLDemos, KEMCalls, SigCalls
  <2>5. VerdictInv'
    <3>1. exit' # 0 /\ exit' # 1
      BY <1>1, <1>2, PqlabAssumption
    <3> QED
      BY <1>1, <1>2, <1>6, <2>0, <3>1 DEF VerdictInv, NoCall, Factories
  <2> QED
    BY <2>1, <2>2, <2>3, <2>4, <2>5 DEF IInv
<1> QED
  BY <1>1, <1>2, <1>3, <1>4, <1>5, <1>6

-----------------------------------------------------------------------------
(* The calls of a session *)

\* What holds of every call, whatever it does to its session.
LEMMA CallKeeps ==
  ASSUME IInv, pc \in Calls, NEW to, pc' = to,
         pc \in KEMCalls => to \in {"NewResponder", "KEMGenerateKeyPair", "Encapsulate",
                                    "Decapsulate", "compare"},
         pc \in SigCalls => to \in {"SigGenerateKeyPair", "Sign", "Verify", "compare"},
         UNCHANGED <<command, name, registry, index, failed, result, exit>>
  PROVE  TypeOK' /\ RegistryInv' /\ DemoInv' /\ VerdictInv'
<1>1. pc \in KEMCalls \/ pc \in SigCalls
  BY DEF Calls, KEMCalls, SigCalls
<1>2. result = None /\ exit = None /\ ~failed
  BY <1>1, PqlabAssumption DEF IInv, DemoInv, VerdictInv, KEMCalls, SigCalls
<1>3. TypeOK'
  BY <1>1 DEF IInv, TypeOK, Calls
<1>4. RegistryInv'
  BY <1>1 DEF RegistryInv, OpenSSLDemos
<1>5. DemoInv'
  BY <1>1, <1>2 DEF IInv, DemoInv, Factories, OpenSSLDemos, KEMCalls, SigCalls
<1>6. VerdictInv'
  BY <1>2, PqlabAssumption DEF VerdictInv
<1> QED
  BY <1>3, <1>4, <1>5, <1>6

\* Appending to a list of at most one session.
LEMMA Deferring ==
  /\ Append(<<>>, "initiator") = <<"initiator">> /\ Append(<<>>, "session") = <<"session">>
  /\ Append(<<"initiator">>, "responder") = Both
<1> DEFINE S == {"initiator", "responder", "session"}
<1>1. <<>> \in Seq(S) /\ <<"initiator">> \in Seq(S) /\ <<"session">> \in Seq(S) /\ Both \in Seq(S)
  BY DEF Both
<1>2. Append(<<>>, "initiator") = <<"initiator">> /\ Append(<<>>, "session") = <<"session">>
  OBVIOUS
<1>3. Append(<<"initiator">>, "responder") = Both
  <2> DEFINE t == Append(<<"initiator">>, "responder")
  <2>1. t \in Seq(S) /\ Len(t) = 2 /\ t[1] = "initiator" /\ t[2] = "responder"
    BY AppendProperties, <1>1
  <2>2. Len(Both) = 2 /\ Both[1] = "initiator" /\ Both[2] = "responder"
    BY DEF Both
  <2> HIDE DEF t, S
  <2>3. \A i \in 1 .. Len(t) : t[i] = Both[i]
    BY <2>1, <2>2
  <2>4. t = Both
    BY <1>1, <2>1, <2>2, <2>3, SeqEqual
  <2> QED
    BY <2>4 DEF t
<1> QED
  BY <1>2, <1>3

LEMMA Different ==
  /\ <<"initiator">> # <<>> /\ <<"session">> # <<>> /\ Both # <<>>
  /\ <<"initiator">> # <<"session">> /\ <<"initiator">> # Both /\ <<"session">> # Both
<1>1. Len(<<>>) = 0 /\ Len(<<"initiator">>) = 1 /\ Len(<<"session">>) = 1 /\ Len(Both) = 2
  BY DEF Both
<1>2. <<"initiator">>[1] = "initiator" /\ <<"session">>[1] = "session"
  OBVIOUS
<1>3. <<"initiator">> # <<"session">>
  BY <1>2
<1> QED
  BY <1>1, <1>3

LEMMA NewInitiatorInv == IInv /\ NewInitiator => IInv'
<1> SUFFICES ASSUME IInv, NewInitiator PROVE IInv'
  OBVIOUS
<1>1. /\ pc = "NewInitiator" /\ pc' = "NewResponder" /\ deferred' = Append(deferred, "initiator")
      /\ kemStatus' = [kemStatus EXCEPT !["initiator"] = "held"]
      /\ UNCHANGED <<command, name, registry, index, failed, result, exit>>
      /\ UNCHANGED <<kemKey, pubs, cts, decapsulated, sigStatus, sigKey, sigPubs, sigs, verified>>
  BY PqlabAssumption DEF NewInitiator, KEMCall, Call, Go, KEM!New, mainVars, sigVars
<1>2. TypeOK' /\ RegistryInv' /\ DemoInv' /\ VerdictInv'
  BY <1>1, CallKeeps DEF Calls, KEMCalls, SigCalls
<1>3. DeferInv'
  <2>1. deferred = <<>> /\ deferred' = <<"initiator">>
    BY <1>1, Deferring DEF IInv, DeferInv
  <2> QED
    BY <1>1, <2>1, Different DEF IInv, DeferInv
<1>4. KEMInv' /\ SigInv'
  BY <1>1 DEF IInv, KEMInv, SigInv
<1> QED
  BY <1>2, <1>3, <1>4 DEF IInv

LEMMA NewResponderInv == IInv /\ NewResponder => IInv'
<1> SUFFICES ASSUME IInv, NewResponder PROVE IInv'
  OBVIOUS
<1>1. /\ pc = "NewResponder" /\ pc' = "KEMGenerateKeyPair"
      /\ deferred' = Append(deferred, "responder")
      /\ kemStatus' = [kemStatus EXCEPT !["responder"] = "held"]
      /\ UNCHANGED <<command, name, registry, index, failed, result, exit>>
      /\ UNCHANGED <<kemKey, pubs, cts, decapsulated, sigStatus, sigKey, sigPubs, sigs, verified>>
  BY PqlabAssumption DEF NewResponder, KEMCall, Call, Go, KEM!New, mainVars, sigVars
<1>2. TypeOK' /\ RegistryInv' /\ DemoInv' /\ VerdictInv'
  BY <1>1, CallKeeps DEF Calls, KEMCalls, SigCalls
<1>3. DeferInv'
  <2>1. deferred = <<"initiator">> /\ deferred' = Both
    BY <1>1, Deferring DEF IInv, DeferInv
  <2> QED
    BY <1>1, <2>1, Different DEF IInv, DeferInv
<1>4. KEMInv' /\ SigInv'
  BY <1>1 DEF IInv, KEMInv, SigInv
<1> QED
  BY <1>2, <1>3, <1>4 DEF IInv

\* The other calls of the exchange defer nothing.
LEMMA KEMGenerateKeyPairInv == IInv /\ KEMGenerateKeyPair => IInv'
<1> SUFFICES ASSUME IInv, KEMGenerateKeyPair PROVE IInv'
  OBVIOUS
<1>1. /\ pc = "KEMGenerateKeyPair" /\ pc' = "Encapsulate"
      /\ \E pk \in PublicKeys \ pubs :
           kemKey' = [kemKey EXCEPT !["initiator"] = pk] /\ pubs' = pubs \union {pk}
      /\ UNCHANGED <<command, name, registry, index, failed, result, exit, deferred>>
      /\ UNCHANGED <<kemStatus, cts, decapsulated, sigStatus, sigKey, sigPubs, sigs, verified>>
  BY DEF KEMGenerateKeyPair, KEMCall, Call, Go, KEM!GenerateKeyPair, mainVars, sigVars
<1>2. TypeOK' /\ RegistryInv' /\ DemoInv' /\ VerdictInv'
  BY <1>1, CallKeeps DEF Calls, KEMCalls, SigCalls
<1>3. DeferInv'
  BY <1>1 DEF IInv, DeferInv
<1>4. KEMInv' /\ SigInv'
  <2>1. pubs = {} /\ cts = {} /\ DOMAIN kemKey = {"initiator", "responder"}
    BY <1>1 DEF IInv, KEMInv, DemoInv
  <2> QED
    BY <1>1, <2>1 DEF IInv, KEMInv, SigInv
<1> QED
  BY <1>2, <1>3, <1>4 DEF IInv

LEMMA EncapsulateInv == IInv /\ Encapsulate => IInv'
<1> SUFFICES ASSUME IInv, Encapsulate PROVE IInv'
  OBVIOUS
<1>1. /\ pc = "Encapsulate" /\ pc' = "Decapsulate"
      /\ \E ct \in {"ct1", "ct2"} \ cts :
           [ct1 |-> "pk1", ct2 |-> "pk2"][ct] \in pubs /\ cts' = cts \union {ct}
      /\ UNCHANGED <<command, name, registry, index, failed, result, exit, deferred>>
      /\ UNCHANGED <<kemStatus, kemKey, pubs, decapsulated>>
      /\ UNCHANGED <<sigStatus, sigKey, sigPubs, sigs, verified>>
  BY DEF Encapsulate, KEMCall, Call, Go, KEM!Encapsulate, mainVars, sigVars
<1>2. TypeOK' /\ RegistryInv' /\ DemoInv' /\ VerdictInv'
  BY <1>1, CallKeeps DEF Calls, KEMCalls, SigCalls
<1>3. DeferInv'
  BY <1>1 DEF IInv, DeferInv
<1>4. KEMInv' /\ SigInv'
  <2>1. pubs = {kemKey["initiator"]} /\ cts = {}
    BY <1>1 DEF IInv, KEMInv
  <2> QED
    BY <1>1, <2>1 DEF IInv, KEMInv, SigInv
<1> QED
  BY <1>2, <1>3, <1>4 DEF IInv

LEMMA DecapsulateInv == IInv /\ Decapsulate => IInv'
<1> SUFFICES ASSUME IInv, Decapsulate PROVE IInv'
  OBVIOUS
<1>1. /\ pc = "Decapsulate" /\ pc' = "compare"
      /\ \E ct \in cts :
           decapsulated' = [decapsulated EXCEPT !["initiator"] =
             [ct |-> ct, match |-> [ct1 |-> "pk1", ct2 |-> "pk2"][ct] = kemKey["initiator"]]]
      /\ UNCHANGED <<command, name, registry, index, failed, result, exit, deferred>>
      /\ UNCHANGED <<kemStatus, kemKey, pubs, cts>>
      /\ UNCHANGED <<sigStatus, sigKey, sigPubs, sigs, verified>>
  BY DEF Decapsulate, KEMCall, Call, Go, KEM!Decapsulate, mainVars, sigVars
<1>2. TypeOK' /\ RegistryInv' /\ DemoInv' /\ VerdictInv'
  BY <1>1, CallKeeps DEF Calls, KEMCalls, SigCalls
<1>3. DeferInv'
  BY <1>1 DEF IInv, DeferInv
<1>4. KEMInv' /\ SigInv'
  <2>1. \A ct \in cts : [ct1 |-> "pk1", ct2 |-> "pk2"][ct] = kemKey["initiator"]
    BY <1>1 DEF IInv, KEMInv
  <2>2. PICK ct \in cts :
          decapsulated' = [decapsulated EXCEPT !["initiator"] =
            [ct |-> ct, match |-> [ct1 |-> "pk1", ct2 |-> "pk2"][ct] = kemKey["initiator"]]]
    BY <1>1
  <2>3. DOMAIN decapsulated = {"initiator", "responder"}
    BY DEF IInv, KEMInv
  <2>4. decapsulated'["initiator"].match = ([ct1 |-> "pk1", ct2 |-> "pk2"][ct] = kemKey["initiator"])
    BY <2>2, <2>3
  <2>5. DOMAIN decapsulated' = {"initiator", "responder"} /\ decapsulated'["initiator"].match
    BY <2>1, <2>2, <2>3, <2>4
  <2>6. command = "demo" /\ result = None
    BY <1>1 DEF IInv, DemoInv, KEMCalls
  <2> QED
    BY <1>1, <2>5, <2>6 DEF IInv, KEMInv, SigInv
<1> QED
  BY <1>2, <1>3, <1>4 DEF IInv

LEMMA NewSessionInv == IInv /\ NewSession => IInv'
<1> SUFFICES ASSUME IInv, NewSession PROVE IInv'
  OBVIOUS
<1>1. /\ pc = "NewSession" /\ pc' = "SigGenerateKeyPair" /\ deferred' = Append(deferred, "session")
      /\ sigStatus' = [sigStatus EXCEPT !["session"] = "held"]
      /\ UNCHANGED <<command, name, registry, index, failed, result, exit>>
      /\ UNCHANGED <<kemStatus, kemKey, pubs, cts, decapsulated, sigKey, sigPubs, sigs, verified>>
  BY PqlabAssumption DEF NewSession, SigCall, Call, Go, Sig!New, mainVars, kemVars
<1>2. TypeOK' /\ RegistryInv' /\ DemoInv' /\ VerdictInv'
  BY <1>1, CallKeeps DEF Calls, KEMCalls, SigCalls
<1>3. DeferInv'
  <2>1. deferred = <<>> /\ deferred' = <<"session">>
    BY <1>1, Deferring DEF IInv, DeferInv
  <2> QED
    BY <1>1, <2>1, Different DEF IInv, DeferInv
<1>4. KEMInv' /\ SigInv'
  BY <1>1 DEF IInv, KEMInv, SigInv
<1> QED
  BY <1>2, <1>3, <1>4 DEF IInv

LEMMA SigGenerateKeyPairInv == IInv /\ SigGenerateKeyPair => IInv'
<1> SUFFICES ASSUME IInv, SigGenerateKeyPair PROVE IInv'
  OBVIOUS
<1>1. /\ pc = "SigGenerateKeyPair" /\ pc' = "Sign"
      /\ \E pk \in PublicKeys \ sigPubs :
           sigKey' = [sigKey EXCEPT !["session"] = pk] /\ sigPubs' = sigPubs \union {pk}
      /\ UNCHANGED <<command, name, registry, index, failed, result, exit, deferred>>
      /\ UNCHANGED <<kemStatus, kemKey, pubs, cts, decapsulated, sigStatus, sigs, verified>>
  BY DEF SigGenerateKeyPair, SigCall, Call, Go, Sig!GenerateKeyPair, mainVars, kemVars
<1>2. TypeOK' /\ RegistryInv' /\ DemoInv' /\ VerdictInv'
  BY <1>1, CallKeeps DEF Calls, KEMCalls, SigCalls
<1>3. DeferInv'
  BY <1>1 DEF IInv, DeferInv
<1>4. KEMInv' /\ SigInv'
  <2>1. sigPubs = {} /\ sigs = {} /\ DOMAIN sigKey = {"session"}
    BY <1>1 DEF IInv, SigInv, DemoInv
  <2> QED
    BY <1>1, <2>1 DEF IInv, KEMInv, SigInv
<1> QED
  BY <1>2, <1>3, <1>4 DEF IInv

LEMMA SignInv == IInv /\ Sign => IInv'
<1> SUFFICES ASSUME IInv, Sign PROVE IInv'
  OBVIOUS
<1>1. /\ pc = "Sign" /\ pc' = "Verify"
      /\ sigs' = sigs \union {[by |-> sigKey["session"], message |-> "signDemoMessage"]}
      /\ UNCHANGED <<command, name, registry, index, failed, result, exit, deferred>>
      /\ UNCHANGED <<kemStatus, kemKey, pubs, cts, decapsulated, sigStatus, sigKey, sigPubs, verified>>
  BY DEF Sign, SigCall, Call, Go, Sig!Sign, mainVars, kemVars
<1>2. TypeOK' /\ RegistryInv' /\ DemoInv' /\ VerdictInv'
  BY <1>1, CallKeeps DEF Calls, KEMCalls, SigCalls
<1>3. DeferInv'
  BY <1>1 DEF IInv, DeferInv
<1>4. KEMInv' /\ SigInv'
  <2>1. sigPubs = {sigKey["session"]} /\ sigs = {}
    BY <1>1 DEF IInv, SigInv
  <2> QED
    BY <1>1, <2>1 DEF IInv, KEMInv, SigInv
<1> QED
  BY <1>2, <1>3, <1>4 DEF IInv

LEMMA VerifyInv == IInv /\ Verify => IInv'
<1> SUFFICES ASSUME IInv, Verify PROVE IInv'
  OBVIOUS
<1>1. /\ pc = "Verify" /\ pc' = "compare"
      /\ \E sig \in sigs, pk \in sigPubs :
           verified' = [message |-> "signDemoMessage", signature |-> sig, publicKey |-> pk,
                        valid |-> sig = [by |-> pk, message |-> "signDemoMessage"]]
      /\ UNCHANGED <<command, name, registry, index, failed, result, exit, deferred>>
      /\ UNCHANGED <<kemStatus, kemKey, pubs, cts, decapsulated, sigStatus, sigKey, sigPubs, sigs>>
  BY DEF Verify, SigCall, Call, Go, Sig!Verify, mainVars, kemVars
<1>2. TypeOK' /\ RegistryInv' /\ DemoInv' /\ VerdictInv'
  BY <1>1, CallKeeps DEF Calls, KEMCalls, SigCalls
<1>3. DeferInv'
  BY <1>1 DEF IInv, DeferInv
<1>4. KEMInv' /\ SigInv'
  <2>1. /\ sigPubs = {sigKey["session"]}
        /\ sigs = {[by |-> sigKey["session"], message |-> "signDemoMessage"]}
    BY <1>1 DEF IInv, SigInv
  <2>2. PICK sig \in sigs, pk \in sigPubs :
          verified' = [message |-> "signDemoMessage", signature |-> sig, publicKey |-> pk,
                       valid |-> sig = [by |-> pk, message |-> "signDemoMessage"]]
    BY <1>1
  <2>3. sig = [by |-> pk, message |-> "signDemoMessage"]
    BY <2>1
  <2>4. verified'.valid = (sig = [by |-> pk, message |-> "signDemoMessage"])
    BY <2>2
  <2>5. verified'.valid
    BY <2>3, <2>4
  <2>6. command = "demo-sign" /\ result = None
    BY <1>1 DEF IInv, DemoInv, SigCalls
  <2> QED
    BY <1>1, <2>5, <2>6 DEF IInv, KEMInv, SigInv
<1> QED
  BY <1>2, <1>3, <1>4 DEF IInv

LEMMA CallFailsInv == IInv /\ CallFails => IInv'
<1> SUFFICES ASSUME IInv, CallFails PROVE IInv'
  OBVIOUS
<1>1. /\ pc \in Calls /\ pc' = "return" /\ failed' = TRUE /\ result' = "error"
      /\ UNCHANGED <<command, name, registry, index, exit, deferred>>
      /\ UNCHANGED <<kemStatus, pubs, cts, decapsulated, sigStatus, sigPubs, sigs, verified>>
  BY DEF CallFails, KEM!GenerateKeyPairFails, Sig!GenerateKeyPairFails, mainVars, kemVars, sigVars
<1>2. /\ kemKey' = kemKey \/ kemKey' = [kemKey EXCEPT !["initiator"] = None]
      /\ sigKey' = sigKey \/ sigKey' = [sigKey EXCEPT !["session"] = None]
  BY DEF CallFails, KEM!GenerateKeyPairFails, Sig!GenerateKeyPairFails, kemVars, sigVars
<1>3. result' # None /\ pc' \notin Calls /\ pc' \notin KEMCalls /\ pc' \notin SigCalls
  BY <1>1, PqlabAssumption DEF Calls, KEMCalls, SigCalls
<1>4. command \in {"demo", "demo-sign"} /\ result = None /\ exit = None
  BY <1>1, PqlabAssumption DEF IInv, DemoInv, Calls, KEMCalls, SigCalls
<1>5. TypeOK'
  BY <1>1 DEF IInv, TypeOK
<1>6. DeferInv' /\ RegistryInv'
  BY <1>1, <1>3 DEF IInv, DeferInv, RegistryInv
<1>7. KEMInv' /\ SigInv'
  BY <1>1, <1>2, <1>3 DEF IInv, KEMInv, SigInv
<1>8. DemoInv'
  BY <1>1, <1>3, <1>4 DEF DemoInv, OpenSSLDemos
<1>9. VerdictInv'
  <2>1. exit' # 0 /\ exit' # 1
    BY <1>1, <1>4, PqlabAssumption
  <2> QED
    BY <1>1, <1>3, <2>1 DEF VerdictInv
<1> QED
  BY <1>5, <1>6, <1>7, <1>8, <1>9 DEF IInv

LEMMA CompareInv == IInv /\ Compare => IInv'
<1> SUFFICES ASSUME IInv, Compare PROVE IInv'
  OBVIOUS
<1>1. /\ pc = "compare" /\ pc' = "return"
      /\ result' = IF (IF command = "demo" THEN decapsulated["initiator"].match ELSE verified.valid)
                   THEN "nil" ELSE "error"
      /\ UNCHANGED <<command, name, registry, index, exit, failed, deferred>>
      /\ UNCHANGED <<kemStatus, kemKey, pubs, cts, decapsulated>>
      /\ UNCHANGED <<sigStatus, sigKey, sigPubs, sigs, verified>>
  BY DEF Compare, Go, mainVars, kemVars, sigVars
<1>2. /\ command \in {"demo", "demo-sign"} /\ name \in Factories
      /\ result = None /\ exit = None /\ ~failed
  BY <1>1, PqlabAssumption DEF IInv, DemoInv, VerdictInv
<1>3. /\ command = "demo" => decapsulated["initiator"].match
      /\ command = "demo-sign" => verified.valid
  BY <1>1 DEF IInv, KEMInv, SigInv
<1>4. result' = "nil"
  BY <1>1, <1>2, <1>3
<1>5. result' # None
  BY <1>4, PqlabAssumption
<1>6. TypeOK'
  BY <1>1, <1>4 DEF IInv, TypeOK
<1>7. DeferInv' /\ RegistryInv'
  BY <1>1, <1>5 DEF IInv, DeferInv, RegistryInv
<1>8. KEMInv' /\ SigInv'
  BY <1>1, <1>5 DEF IInv, KEMInv, SigInv
<1>9. DemoInv'
  BY <1>1, <1>2, <1>5 DEF DemoInv, OpenSSLDemos, KEMCalls, SigCalls
<1>10. VerdictInv'
  <2>1. exit' # 0 /\ exit' # 1
    BY <1>1, <1>2, PqlabAssumption
  <2>2. command = "demo-sign" => name \in SignatureFactories
    BY <1>2 DEF Factories
  <2> QED
    BY <1>1, <1>2, <1>3, <1>4, <1>5, <2>1, <2>2 DEF VerdictInv
<1> QED
  BY <1>6, <1>7, <1>8, <1>9, <1>10 DEF IInv

-----------------------------------------------------------------------------
(* The deferred calls *)

\* What is left of the deferred calls when the last one is made.
LEMMA Popping ==
  /\ SubSeq(Both, 1, Len(Both) - 1) = <<"initiator">> /\ Both[Len(Both)] = "responder"
  /\ \A s : SubSeq(<<s>>, 1, Len(<<s>>) - 1) = <<>> /\ <<s>>[Len(<<s>>)] = s
<1>1. Len(Both) = 2 /\ Both[1] = "initiator" /\ Both[2] = "responder"
  BY DEF Both
<1>2. SubSeq(Both, 1, 1) = <<"initiator">>
  <2> DEFINE S == {"initiator", "responder"}
             t == SubSeq(Both, 1, 1)
  <2>1. \A i \in 1 .. 1 : Both[i] \in S
    BY <1>1
  <2>2. t \in Seq(S) /\ Len(t) = 1 /\ t[1] = "initiator"
    BY <1>1, <2>1, SubSeqProperties
  <2>3. <<"initiator">> \in Seq(S) /\ Len(<<"initiator">>) = 1 /\ <<"initiator">>[1] = "initiator"
    OBVIOUS
  <2> HIDE DEF t, S
  <2>4. \A i \in 1 .. Len(t) : t[i] = <<"initiator">>[i]
    BY <2>2, <2>3
  <2>5. t = <<"initiator">>
    BY <2>2, <2>3, <2>4, SeqEqual
  <2> QED
    BY <2>5 DEF t
<1>3. ASSUME NEW s PROVE SubSeq(<<s>>, 1, 0) = <<>>
  OBVIOUS
<1>4. Len(Both) - 1 = 1
  BY <1>1
<1>5. ASSUME NEW s PROVE Len(<<s>>) = 1 /\ Len(<<s>>) - 1 = 0 /\ <<s>>[1] = s
  OBVIOUS
<1> QED
  BY <1>1, <1>2, <1>3, <1>4, <1>5

LEMMA DeferredCloseInv == IInv /\ DeferredClose => IInv'
<1> SUFFICES ASSUME IInv, DeferredClose PROVE IInv'
  OBVIOUS
<1>1. /\ pc = "return"
      /\ UNCHANGED <<command, name, registry, index, exit, failed, result>>
      /\ UNCHANGED <<kemKey, pubs, cts, decapsulated, sigKey, sigPubs, sigs, verified>>
  BY DEF DeferredClose, KEM!Close, Sig!Close, mainVars, kemVars, sigVars
<1>2. /\ command \in {"demo", "demo-sign"} /\ result # None /\ exit = None
      /\ deferred \in {<<>>, <<"initiator">>, Both, <<"session">>}
  BY <1>1, PqlabAssumption DEF IInv, DemoInv, DeferInv
<1>3. pc' \in {"return", "main"}
  BY <1>1 DEF DeferredClose
<1>4. TypeOK'
  BY <1>1, <1>3 DEF IInv, TypeOK
<1>5. RegistryInv'
  BY <1>1, <1>2, <1>3 DEF RegistryInv
<1>6. KEMInv' /\ SigInv'
  BY <1>1, <1>2, <1>3 DEF IInv, KEMInv, SigInv
<1>7. DemoInv'
  BY <1>1, <1>2, <1>3 DEF DemoInv, OpenSSLDemos, KEMCalls, SigCalls
<1>8. VerdictInv'
  BY <1>1 DEF IInv, VerdictInv, Factories
<1>9. DeferInv'
  <2>1. CASE deferred = <<>>
    <3>1. pc' = "main" /\ UNCHANGED <<deferred, kemStatus, sigStatus>>
      BY <2>1 DEF DeferredClose, kemVars, sigVars
    <3> QED
      BY <2>1, <3>1 DEF IInv, DeferInv
  <2>2. CASE deferred = <<"initiator">>
    <3>1. /\ pc' = pc /\ deferred' = <<>> /\ UNCHANGED sigStatus
          /\ kemStatus' = [kemStatus EXCEPT !["initiator"] = "closed"]
      BY <2>2, Popping, Different DEF DeferredClose, KEM!Close, sigVars
    <3> QED
      BY <1>1, <2>2, <3>1, Different DEF IInv, DeferInv
  <2>3. CASE deferred = Both
    <3>1. /\ pc' = pc /\ deferred' = <<"initiator">> /\ UNCHANGED sigStatus
          /\ kemStatus' = [kemStatus EXCEPT !["responder"] = "closed"]
      BY <2>3, Popping, Different DEF DeferredClose, KEM!Close, sigVars
    <3> QED
      BY <1>1, <2>3, <3>1, Different DEF IInv, DeferInv
  <2>4. CASE deferred = <<"session">>
    <3>1. /\ pc' = pc /\ deferred' = <<>> /\ UNCHANGED kemStatus
          /\ sigStatus' = [sigStatus EXCEPT !["session"] = "closed"]
      BY <2>4, Popping, Different DEF DeferredClose, Sig!Close, kemVars
    <3> QED
      BY <1>1, <2>4, <3>1, Different DEF IInv, DeferInv
  <2> QED
    BY <1>2, <2>1, <2>2, <2>3, <2>4
<1> QED
  BY <1>4, <1>5, <1>6, <1>7, <1>8, <1>9 DEF IInv

-----------------------------------------------------------------------------

LEMMA Inductive == IInv /\ [Next]_vars => IInv'
<1> SUFFICES ASSUME IInv, [Next]_vars PROVE IInv'
  OBVIOUS
<1>1. CASE UNCHANGED vars
  BY <1>1 DEF vars, mainVars, kemVars, sigVars, IInv, TypeOK, DeferInv, RegistryInv, KEMInv,
              SigInv, DemoInv, VerdictInv, Factories
<1> QED
  BY <1>1, MainInv, StartDemoInv, OpenSSLDemoInv, RegisterInv, LookupInv, NewInitiatorInv,
     NewResponderInv, KEMGenerateKeyPairInv, EncapsulateInv, DecapsulateInv, NewSessionInv,
     SigGenerateKeyPairInv, SignInv, VerifyInv, CallFailsInv, CompareInv, DeferredCloseInv
     DEF Next

LEMMA Invariant == Spec => []IInv
BY InitInv, Inductive, PTL DEF Spec

\* buildRegistry panics over no name, and the types (main.go:76-81).
THEOREM TypeCorrect == Spec => []TypeOK
<1>1. IInv => TypeOK
  BY DEF IInv
<1> QED
  BY <1>1, Invariant, PTL

\* When pqlab exits no session of a demo is open, whichever call failed
\* (main.go:112-122, signdemo.go:27-31).
THEOREM AllClosed == Spec => []SessionsClosed
<1>1. IInv => SessionsClosed
  <2> SUFFICES ASSUME IInv, exit # None
               PROVE  (\A s \in DOMAIN kemStatus : kemStatus[s] # "held")
                      /\ sigStatus["session"] # "held"
    BY DEF SessionsClosed
  <2>1. pc = "exited" /\ deferred = <<>>
    BY DEF IInv, DemoInv, DeferInv
  <2> QED
    BY <2>1, Different DEF IInv, DeferInv
<1> QED
  BY <1>1, Invariant, PTL

\* Success means that both sides hold one secret, or that the signature
\* verified, and that no call failed (main.go:139-143, signdemo.go:43-48).
THEOREM Agreement == Spec => []SuccessIsAgreement
<1>1. IInv => SuccessIsAgreement
  BY DEF IInv, VerdictInv, SuccessIsAgreement
<1> QED
  BY <1>1, Invariant, PTL

\* pqlab fails only for its arguments or because a call failed: an exchange or
\* a round whose calls succeed never ends in a mismatch (main.go:112-143,
\* signdemo.go:23-48).
THEOREM FailsForCause == Spec => []OnlyFailuresFail
<1>1. IInv => OnlyFailuresFail
  <2> SUFFICES ASSUME IInv, exit = 1, ~failed, command # "other"
               PROVE  \/ command = "demo" /\ name \notin KEMFactories
                      \/ command = "demo-sign" /\ name \notin SignatureFactories
    BY DEF OnlyFailuresFail
  <2>1. result = "error"
    BY DEF IInv, VerdictInv
  <2>2. name \notin Factories
    BY <2>1 DEF IInv, VerdictInv
  <2>3. command \in {"demo", "demo-sign"}
    BY <2>1, PqlabAssumption DEF IInv, DemoInv
  <2> QED
    BY <2>2, <2>3 DEF Factories
<1> QED
  BY <1>1, Invariant, PTL
=============================================================================
