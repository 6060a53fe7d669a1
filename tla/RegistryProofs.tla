--------------------------- MODULE RegistryProofs ---------------------------
(***************************************************************************)
(* Proofs about Registry, for any number of goroutines, names and          *)
(* algorithms: type correctness, freedom from faults on the map, stability *)
(* of the entries, and that the registry implements AtomicRegistry.        *)
(***************************************************************************)
EXTENDS Registry, TLAPS

-----------------------------------------------------------------------------
(* The inductive invariant *)

\* Who is inside the lock: a goroutine at a writer's step is the writer, the
\* readers are the goroutines between RLock and RUnlock, and past the drain
\* no reader is left.
LockInv ==
  /\ \A p \in Callers : pc[p] \in WriterSteps => writer = p
  /\ readers = {p \in Callers : pc[p] \in {"read", "runlock"}}
  /\ \A p \in Callers : pc[p] \in {"check", "make", "store", "unlock"} => readers = {}

\* What the check established still holds when the entry is stored.
DataInv ==
  /\ ~allocated => \A n \in Names : algorithms[n] = None
  /\ \A p \in Callers :
       /\ pc[p] \in {"make", "store"} => algorithms[Name(p)] = None
       /\ pc[p] = "store" => allocated

IInv == TypeOK /\ LockInv /\ DataInv

-----------------------------------------------------------------------------
(* Types *)

LEMMA TypeStep == ASSUME TypeOK, [Next]_vars PROVE TypeOK'
<1> USE RegistryAssumption DEF TypeOK, Steps, RegisterSteps, LookupSteps, WriterSteps
<1>1. ASSUME NEW p \in Callers, CallRegister(p) PROVE TypeOK'
  BY <1>1 DEF CallRegister, Step, Abs!Requests, Abs!Registers, Abs!Lookups
<1>2. ASSUME NEW p \in Callers, CallLookup(p) PROVE TypeOK'
  BY <1>2 DEF CallLookup, Step, Abs!Requests, Abs!Registers, Abs!Lookups
<1>3. ASSUME NEW p \in Callers, NilCheck(p) PROVE TypeOK'
  BY <1>3 DEF NilCheck, Step, Abs!Results
<1>4. ASSUME NEW p \in Callers, Lock(p) PROVE TypeOK'
  BY <1>4 DEF Lock, Step
<1>5. ASSUME NEW p \in Callers, Drain(p) PROVE TypeOK'
  BY <1>5 DEF Drain, Step
<1>6. ASSUME NEW p \in Callers, CheckExists(p) PROVE TypeOK'
  BY <1>6 DEF CheckExists, Step, Abs!Results
<1>7. ASSUME NEW p \in Callers, MakeMap(p) PROVE TypeOK'
  BY <1>7 DEF MakeMap, Step
<1>8. ASSUME NEW p \in Callers, Store(p) PROVE TypeOK'
  BY <1>8 DEF Store, Step, Name, Abs!Registers, Abs!Results
<1>9. ASSUME NEW p \in Callers, Unlock(p) PROVE TypeOK'
  BY <1>9 DEF Unlock
<1>10. ASSUME NEW p \in Callers, RLock(p) PROVE TypeOK'
  BY <1>10 DEF RLock, Step
<1>11. ASSUME NEW p \in Callers, Read(p) PROVE TypeOK'
  BY <1>11 DEF Read, Step, Abs!Lookups, Abs!Results
<1>12. ASSUME NEW p \in Callers, RUnlock(p) PROVE TypeOK'
  BY <1>12 DEF RUnlock, Step
<1>13. ASSUME NEW p \in Callers, Return(p) PROVE TypeOK'
  BY <1>13 DEF Return, Step, Abs!Results
<1>14. CASE UNCHANGED vars
  BY <1>14 DEF vars
<1> QED
  BY <1>1, <1>2, <1>3, <1>4, <1>5, <1>6, <1>7, <1>8, <1>9, <1>10, <1>11,
     <1>12, <1>13, <1>14 DEF Next, Progress

-----------------------------------------------------------------------------
(* The lock and the data it protects *)

LEMMA LockStep == ASSUME TypeOK, LockInv, [Next]_vars PROVE LockInv'
<1> USE RegistryAssumption DEF LockInv, WriterSteps
<1>0. pc \in [Callers -> Steps] /\ readers \subseteq Callers
  BY DEF TypeOK
<1>1. ASSUME NEW p \in Callers, CallRegister(p) \/ CallLookup(p) PROVE LockInv'
  BY <1>0, <1>1 DEF CallRegister, CallLookup, Step
<1>2. ASSUME NEW p \in Callers, NilCheck(p) PROVE LockInv'
  BY <1>0, <1>2 DEF NilCheck, Step
<1>3. ASSUME NEW p \in Callers, Lock(p) PROVE LockInv'
  BY <1>0, <1>3 DEF Lock, Step
<1>4. ASSUME NEW p \in Callers, Drain(p) PROVE LockInv'
  BY <1>0, <1>4 DEF Drain, Step
<1>5. ASSUME NEW p \in Callers, CheckExists(p) PROVE LockInv'
  BY <1>0, <1>5 DEF CheckExists, Step
<1>6. ASSUME NEW p \in Callers, MakeMap(p) \/ Store(p) PROVE LockInv'
  BY <1>0, <1>6 DEF MakeMap, Store, Step
<1>7. ASSUME NEW p \in Callers, Unlock(p) PROVE LockInv'
  BY <1>0, <1>7 DEF Unlock
<1>8. ASSUME NEW p \in Callers, RLock(p) PROVE LockInv'
  BY <1>0, <1>8 DEF RLock, Step
<1>9. ASSUME NEW p \in Callers, Read(p) \/ RUnlock(p) PROVE LockInv'
  BY <1>0, <1>9 DEF Read, RUnlock, Step
<1>10. ASSUME NEW p \in Callers, Return(p) PROVE LockInv'
  BY <1>0, <1>10 DEF Return, Step
<1>11. CASE UNCHANGED vars
  BY <1>11 DEF vars
<1> QED
  BY <1>1, <1>2, <1>3, <1>4, <1>5, <1>6, <1>7, <1>8, <1>9, <1>10, <1>11
  DEF Next, Progress

LEMMA DataStep == ASSUME IInv, [Next]_vars PROVE DataInv'
<1> USE RegistryAssumption DEF IInv, DataInv, Name
<1>0. pc \in [Callers -> Steps] /\ req \in [Callers -> Abs!Requests \union {Abs!NoRequest}]
  BY DEF TypeOK
<1>1. ASSUME NEW p \in Callers, CallRegister(p) \/ CallLookup(p) PROVE DataInv'
  BY <1>0, <1>1 DEF CallRegister, CallLookup, Step
<1>2. ASSUME NEW p \in Callers, NilCheck(p) PROVE DataInv'
  BY <1>0, <1>2 DEF NilCheck, Step
<1>3. ASSUME NEW p \in Callers, Lock(p) \/ Drain(p) PROVE DataInv'
  BY <1>0, <1>3 DEF Lock, Drain, Step
<1>4. ASSUME NEW p \in Callers, CheckExists(p) PROVE DataInv'
  BY <1>0, <1>4 DEF CheckExists, Step
<1>5. ASSUME NEW p \in Callers, MakeMap(p) PROVE DataInv'
  <2>1. algorithms' = algorithms
    BY <1>5 DEF MakeMap, TypeOK
  <2> QED
    BY <1>0, <1>5, <2>1 DEF MakeMap, Step
<1>6. ASSUME NEW p \in Callers, Store(p) PROVE DataInv'
  <2>1. \A q \in Callers \ {p} : pc[q] \notin {"make", "store"}
    BY <1>6 DEF Store, Step, LockInv, WriterSteps
  <2>2. \A q \in Callers : pc'[q] \notin {"make", "store"}
    BY <1>0, <1>6, <2>1 DEF Store, Step
  <2> QED
    BY <1>6, <2>2 DEF Store, Step
<1>7. ASSUME NEW p \in Callers, Unlock(p) PROVE DataInv'
  BY <1>0, <1>7 DEF Unlock
<1>8. ASSUME NEW p \in Callers, RLock(p) PROVE DataInv'
  BY <1>0, <1>8 DEF RLock, Step
<1>9. ASSUME NEW p \in Callers, Read(p) \/ RUnlock(p) PROVE DataInv'
  BY <1>0, <1>9 DEF Read, RUnlock, Step
<1>10. ASSUME NEW p \in Callers, Return(p) PROVE DataInv'
  BY <1>0, <1>10 DEF Return, Step
<1>11. CASE UNCHANGED vars
  BY <1>11 DEF vars
<1> QED
  BY <1>1, <1>2, <1>3, <1>4, <1>5, <1>6, <1>7, <1>8, <1>9, <1>10, <1>11
  DEF Next, Progress

LEMMA Inductive == Spec => []IInv
<1>1. Init => IInv
  BY RegistryAssumption
  DEF Init, IInv, TypeOK, LockInv, DataInv, Steps, RegisterSteps, LookupSteps,
      WriterSteps, Abs!Results
<1>2. IInv /\ [Next]_vars => IInv'
  BY TypeStep, LockStep, DataStep DEF IInv
<1> QED
  BY <1>1, <1>2, PTL DEF Spec

-----------------------------------------------------------------------------
(* Theorems *)

\* The registry's state keeps its types, and a Register past its nil check
\* works on a real algorithm (agility.go:52-54).
THEOREM TypeCorrect == Spec => []TypeOK
<1>1. IInv => TypeOK
  BY DEF IInv
<1> QED
  BY <1>1, Inductive, PTL

\* No two goroutines meet on the map while one writes it, and no goroutine
\* writes the nil map (agility.go:56-65).
THEOREM FaultFree == Spec => []NoMapFault
<1>1. IInv => NoMapFault
  <2> SUFFICES ASSUME IInv, NEW p \in Callers
               PROVE  /\ pc[p] \in {"make", "store"} =>
                           \A q \in Callers \ {p} :
                             pc[q] \notin {"check", "make", "store", "read"}
                      /\ pc[p] = "store" => allocated
    BY DEF NoMapFault
  <2>1. ASSUME pc[p] \in {"make", "store"}, NEW q \in Callers \ {p}
        PROVE  pc[q] \notin {"check", "make", "store"}
    BY <2>1 DEF IInv, LockInv, WriterSteps
  <2>2. ASSUME pc[p] \in {"make", "store"}, NEW q \in Callers \ {p}
        PROVE  pc[q] # "read"
    BY <2>2 DEF IInv, LockInv
  <2> QED
    BY <2>1, <2>2 DEF IInv, DataInv
<1> QED
  BY <1>1, Inductive, PTL

\* What is registered stays registered, and is never replaced
\* (agility.go:59-65).
THEOREM Stable == Spec => EntriesStable
<1> DEFINE Kept == \A n \in Names : algorithms[n] # None => algorithms'[n] = algorithms[n]
<1>1. ASSUME IInv, [Next]_vars PROVE [Kept]_vars
  <2>1. ASSUME NEW p \in Callers, MakeMap(p) PROVE Kept
    <3>1. algorithms' = algorithms
      BY <1>1, <2>1 DEF MakeMap, IInv, DataInv, TypeOK
    <3> QED
      BY <3>1
  <2>2. ASSUME NEW p \in Callers, Store(p) PROVE Kept
    <3>1. algorithms[Name(p)] = None /\ algorithms \in [Names -> Algorithms \union {None}]
      BY <1>1, <2>2 DEF Store, Step, IInv, DataInv, TypeOK
    <3> QED
      BY <2>2, <3>1 DEF Store
  <2>3. ASSUME NEW p \in Callers,
               CallRegister(p) \/ CallLookup(p) \/ NilCheck(p) \/ Lock(p) \/ Drain(p)
                 \/ CheckExists(p) \/ Unlock(p) \/ RLock(p) \/ Read(p) \/ RUnlock(p)
                 \/ Return(p)
        PROVE  Kept
    BY <2>3 DEF CallRegister, CallLookup, NilCheck, Lock, Drain, CheckExists, Unlock,
                RLock, Read, RUnlock, Return
  <2>4. CASE UNCHANGED vars
    BY <2>4
  <2> QED
    BY <1>1, <2>1, <2>2, <2>3, <2>4 DEF Next, Progress
<1> QED
  BY <1>1, Inductive, PTL DEF Spec, EntriesStable

-----------------------------------------------------------------------------
(* Refinement *)

\* A step of one goroutine moves its abstract phase and no other's.
LEMMA PhaseStep ==
  ASSUME NEW p \in Callers, NEW from, NEW to, pc \in [Callers -> Steps], Step(p, from, to)
  PROVE  /\ Phase[p] = PhaseOf(from)
         /\ Phase' = [Phase EXCEPT ![p] = PhaseOf(to)]
         /\ PhaseOf(from) = PhaseOf(to) => Phase' = Phase
<1>1. Phase[p] = PhaseOf(from)
  BY DEF Phase, Step
<1>2. Phase' = [Phase EXCEPT ![p] = PhaseOf(to)]
  BY DEF Phase, Step
<1>3. ASSUME PhaseOf(from) = PhaseOf(to) PROVE Phase' = Phase
  BY <1>1, <1>2, <1>3 DEF Phase
<1> QED
  BY <1>1, <1>2, <1>3

\* Every Register and every Lookup takes effect at one instant between its
\* call and its return, the instant its result is set (agility.go:51-76).
THEOREM Refines == Spec => Linearizable
<1> USE RegistryAssumption
<1>1. Init => Abs!Init
  BY DEF Init, Abs!Init, Phase, PhaseOf
<1>2. ASSUME IInv, [Next]_vars PROVE [Abs!Next]_(Abs!vars)
  <2>0. pc \in [Callers -> Steps] /\ TypeOK /\ DataInv
    BY <1>2 DEF IInv, TypeOK
  <2> USE <2>0
  <2>1. ASSUME NEW p \in Callers, CallRegister(p) \/ CallLookup(p) PROVE Abs!Invoke(p)
    <3>1. /\ Phase[p] = "idle"
          /\ Phase' = [Phase EXCEPT ![p] = "invoked"]
      BY <2>1, PhaseStep DEF CallRegister, CallLookup, PhaseOf
    <3> QED
      BY <2>1, <3>1 DEF CallRegister, CallLookup, Abs!Invoke, Abs!Requests
  <2>2. ASSUME NEW p \in Callers, NilCheck(p)
        PROVE  Abs!ApplyRegister(p) \/ UNCHANGED Abs!vars
    <3>1. CASE req[p].arg = Nil
      <4>1. Step(p, "nil", "return") /\ res' = [res EXCEPT ![p] = "nil algorithm"]
        BY <2>2, <3>1 DEF NilCheck
      <4>2. Phase[p] = "invoked" /\ Phase' = [Phase EXCEPT ![p] = "applied"]
        BY <4>1 DEF Step, Phase, PhaseOf
      <4>3. req[p].op = "Register"
        BY <4>1 DEF Step, TypeOK, Abs!Registers
      <4> QED
        BY <2>2, <3>1, <4>1, <4>2, <4>3 DEF NilCheck, Abs!ApplyRegister, Abs!Answer
    <3>2. CASE req[p].arg # Nil
      <4>1. Step(p, "nil", "lock") /\ res' = res
        BY <2>2, <3>2 DEF NilCheck
      <4>2. Phase' = Phase
        BY <4>1, PhaseStep DEF PhaseOf
      <4> QED
        BY <2>2, <4>1, <4>2 DEF NilCheck, Abs!vars
    <3> QED
      BY <3>1, <3>2
  <2>3. ASSUME NEW p \in Callers, Lock(p) \/ Drain(p) PROVE UNCHANGED Abs!vars
    <3>1. Phase' = Phase
      BY <2>3, PhaseStep DEF Lock, Drain, PhaseOf
    <3> QED
      BY <2>3, <3>1 DEF Lock, Drain, Abs!vars
  <2>4. ASSUME NEW p \in Callers, CheckExists(p)
        PROVE  Abs!ApplyRegister(p) \/ UNCHANGED Abs!vars
    <3>1. CASE algorithms[Name(p)] # None
      <4>1. /\ Step(p, "check", "unlock")
            /\ res' = [res EXCEPT ![p] = "already registered"]
        BY <2>4, <3>1 DEF CheckExists
      <4>2. Phase[p] = "invoked" /\ Phase' = [Phase EXCEPT ![p] = "applied"]
        BY <4>1 DEF Step, Phase, PhaseOf
      <4>3. req[p].op = "Register" /\ req[p].arg # Nil
        BY <4>1 DEF Step, TypeOK, RegisterSteps, WriterSteps, Abs!Registers
      <4> QED
        BY <2>4, <3>1, <4>1, <4>2, <4>3 DEF CheckExists, Name, Abs!ApplyRegister, Abs!Answer
    <3>2. CASE algorithms[Name(p)] = None
      <4>1. Step(p, "check", "make") /\ res' = res
        BY <2>4, <3>2 DEF CheckExists
      <4>2. Phase' = Phase
        BY <4>1, PhaseStep DEF PhaseOf
      <4> QED
        BY <2>4, <4>1, <4>2 DEF CheckExists, Abs!vars
    <3> QED
      BY <3>1, <3>2
  <2>5. ASSUME NEW p \in Callers, MakeMap(p) PROVE UNCHANGED Abs!vars
    <3>1. Phase' = Phase
      BY <2>5, PhaseStep DEF MakeMap, PhaseOf
    <3>2. algorithms' = algorithms
      BY <2>5 DEF MakeMap, TypeOK, DataInv
    <3> QED
      BY <2>5, <3>1, <3>2 DEF MakeMap, Abs!vars
  <2>6. ASSUME NEW p \in Callers, Store(p) PROVE Abs!ApplyRegister(p)
    <3>1. pc[p] = "store" /\ Phase[p] = "invoked" /\ Phase' = [Phase EXCEPT ![p] = "applied"]
      BY <2>6, PhaseStep DEF Store, Step, PhaseOf
    <3>2. /\ req[p].op = "Register" /\ req[p].arg # Nil
          /\ algorithms[Name(p)] = None
      BY <3>1 DEF TypeOK, DataInv, RegisterSteps, WriterSteps, Abs!Registers
    <3> QED
      BY <2>6, <3>1, <3>2 DEF Store, Name, Abs!ApplyRegister, Abs!Answer
  <2>7. ASSUME NEW p \in Callers, Unlock(p) PROVE UNCHANGED Abs!vars
    <3>1. Phase' = Phase
      BY <2>7 DEF Unlock, Phase, PhaseOf
    <3> QED
      BY <2>7, <3>1 DEF Unlock, Abs!vars
  <2>8. ASSUME NEW p \in Callers, RLock(p) \/ RUnlock(p) PROVE UNCHANGED Abs!vars
    <3>1. Phase' = Phase
      BY <2>8, PhaseStep DEF RLock, RUnlock, PhaseOf
    <3> QED
      BY <2>8, <3>1 DEF RLock, RUnlock, Abs!vars
  <2>9. ASSUME NEW p \in Callers, Read(p) PROVE Abs!ApplyLookup(p)
    <3>1. pc[p] = "read" /\ Phase[p] = "invoked" /\ Phase' = [Phase EXCEPT ![p] = "applied"]
      BY <2>9, PhaseStep DEF Read, Step, PhaseOf
    <3>2. req[p].op = "Lookup"
      BY <3>1 DEF TypeOK, LookupSteps, Abs!Lookups
    <3> QED
      BY <2>9, <3>1, <3>2 DEF Read, Abs!ApplyLookup, Abs!Answer
  <2>10. ASSUME NEW p \in Callers, Return(p) PROVE Abs!Return(p)
    <3>1. Phase[p] = "applied" /\ Phase' = [Phase EXCEPT ![p] = "idle"]
      BY <2>10, PhaseStep DEF Return, PhaseOf
    <3> QED
      BY <2>10, <3>1 DEF Return, Abs!Return
  <2>11. CASE UNCHANGED vars
    BY <2>11 DEF vars, Phase, Abs!vars
  <2> QED
    BY <1>2, <2>1, <2>2, <2>3, <2>4, <2>5, <2>6, <2>7, <2>8, <2>9, <2>10, <2>11
    DEF Next, Progress, Abs!Next
<1> QED
  BY <1>1, <1>2, Inductive, PTL DEF Spec, Linearizable, Abs!Spec
=============================================================================
