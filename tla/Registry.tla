------------------------------ MODULE Registry ------------------------------
(***************************************************************************)
(* agility.Registry (internal/agility/agility.go): a map from names to     *)
(* algorithms behind a sync.RWMutex.  Every goroutine makes any number of  *)
(* Register and Lookup calls; each statement that touches the lock or the  *)
(* map is a step of its own, so that the calls interleave as the Go        *)
(* scheduler may interleave them.                                          *)
(*                                                                         *)
(* The RWMutex is outside this repository and is modelled by what Register *)
(* and Lookup rely on: Lock announces the writer, which holds back new     *)
(* readers, and then waits for the readers inside to leave; Unlock lets in *)
(* the readers that were held back.                                        *)
(***************************************************************************)
EXTENDS FiniteSets

CONSTANTS
  Callers,     \* goroutines that call the registry
  Names,       \* algorithm names
  Algorithms,  \* Algorithm values
  NameOf,      \* NameOf[a] is the value of a.Name()
  Nil,         \* the nil Algorithm
  None,        \* "no algorithm under this name"
  NoOne        \* no goroutine

ASSUME RegistryAssumption ==
  /\ NameOf \in [Algorithms -> Names]
  /\ Nil \notin Algorithms
  /\ None \notin Algorithms
  /\ NoOne \notin Callers

VARIABLES
  algorithms,  \* the map's contents: an algorithm, or None, per name
  allocated,   \* FALSE while the map is nil
  writer,      \* the goroutine between Lock and Unlock, waiting or inside
  readers,     \* the goroutines inside RLock ... RUnlock
  pc,          \* the next step of each goroutine
  req,         \* the call each goroutine makes
  res          \* what each goroutine's call returns

vars == <<algorithms, allocated, writer, readers, pc, req, res>>

\* The refinement mapping: a call has taken effect once its result is set.
PhaseOf(step) ==
  IF step = "idle" THEN "idle"
  ELSE IF step \in {"unlock", "runlock", "return"} THEN "applied"
  ELSE "invoked"

Phase == [p \in Callers |-> PhaseOf(pc[p])]

Abs == INSTANCE AtomicRegistry WITH table <- algorithms, phase <- Phase

\* The steps at which a goroutine has announced itself as the writer.
WriterSteps == {"drain", "check", "make", "store", "unlock"}
\* The steps of Register after its nil check, and those of Lookup.
RegisterSteps == {"lock"} \union WriterSteps
LookupSteps   == {"rlock", "rwait", "read", "runlock"}
Steps == {"idle", "nil", "return"} \union RegisterSteps \union LookupSteps

Step(p, from, to) ==
  /\ pc[p] = from
  /\ pc' = [pc EXCEPT ![p] = to]

Name(p) == NameOf[req[p].arg]

Init ==
  /\ algorithms = [n \in Names |-> None]
  /\ allocated = FALSE
  /\ writer = NoOne
  /\ readers = {}
  /\ pc = [p \in Callers |-> "idle"]
  /\ req = [p \in Callers |-> Abs!NoRequest]
  /\ res = [p \in Callers |-> "nothing"]

-----------------------------------------------------------------------------
(* Register *)

CallRegister(p) ==
  /\ Step(p, "idle", "nil")
  /\ \E r \in Abs!Registers : req' = [req EXCEPT ![p] = r]
  /\ UNCHANGED <<algorithms, allocated, writer, readers, res>>

\* Mutant: no nil check.
NilCheckDropped(p) ==
  /\ Step(p, "nil", "lock")
  /\ UNCHANGED <<algorithms, allocated, writer, readers, req, res>>

NilCheck(p) ==
  /\ \/ /\ req[p].arg = Nil
        /\ Step(p, "nil", "return")
        /\ res' = [res EXCEPT ![p] = "nil algorithm"]
     \/ /\ req[p].arg # Nil
        /\ Step(p, "nil", "lock")
        /\ UNCHANGED res
  /\ UNCHANGED <<algorithms, allocated, writer, readers, req>>

\* Lock, first half: become the one pending writer.  The mutant takes the
\* read lock instead, so that two goroutines can be inside Register.
LockShared(p) ==
  /\ Step(p, "lock", "drain")
  /\ writer' = p
  /\ UNCHANGED <<algorithms, allocated, readers, req, res>>

Lock(p) ==
  /\ writer = NoOne
  /\ Step(p, "lock", "drain")
  /\ writer' = p
  /\ UNCHANGED <<algorithms, allocated, readers, req, res>>

\* Lock, second half: wait for the readers inside to leave.
DrainNotAwaited(p) ==
  /\ Step(p, "drain", "check")
  /\ UNCHANGED <<algorithms, allocated, writer, readers, req, res>>

Drain(p) ==
  /\ readers = {}
  /\ Step(p, "drain", "check")
  /\ UNCHANGED <<algorithms, allocated, writer, readers, req, res>>

\* Mutants: the check is dropped; the early return forgets the Unlock.
CheckExistsDropped(p) ==
  /\ Step(p, "check", "make")
  /\ UNCHANGED <<algorithms, allocated, writer, readers, req, res>>

CheckExistsNoUnlock(p) ==
  /\ pc[p] = "check"
  /\ \/ /\ algorithms[Name(p)] # None
        /\ Step(p, "check", "return")
        /\ res' = [res EXCEPT ![p] = "already registered"]
     \/ /\ algorithms[Name(p)] = None
        /\ Step(p, "check", "make")
        /\ UNCHANGED res
  /\ UNCHANGED <<algorithms, allocated, writer, readers, req>>

CheckExists(p) ==
  /\ pc[p] = "check"
  /\ \/ /\ algorithms[Name(p)] # None
        /\ Step(p, "check", "unlock")
        /\ res' = [res EXCEPT ![p] = "already registered"]
     \/ /\ algorithms[Name(p)] = None
        /\ Step(p, "check", "make")
        /\ UNCHANGED res
  /\ UNCHANGED <<algorithms, allocated, writer, readers, req>>

MakeMap(p) ==
  /\ Step(p, "make", "store")
  /\ allocated' = TRUE
  /\ algorithms' = IF allocated THEN algorithms ELSE [n \in Names |-> None]
  /\ UNCHANGED <<writer, readers, req, res>>

Store(p) ==
  /\ Step(p, "store", "unlock")
  /\ algorithms' = [algorithms EXCEPT ![Name(p)] = req[p].arg]
  /\ res' = [res EXCEPT ![p] = "ok"]
  /\ UNCHANGED <<allocated, writer, readers, req>>

\* The deferred Unlock: every reader held back by this writer enters.
Unlock(p) ==
  LET held == {q \in Callers : pc[q] = "rwait"} IN
  /\ pc[p] = "unlock"
  /\ pc' = [q \in Callers |-> IF q = p THEN "return"
                              ELSE IF q \in held THEN "read" ELSE pc[q]]
  /\ writer' = NoOne
  /\ readers' = held
  /\ UNCHANGED <<algorithms, allocated, req, res>>

-----------------------------------------------------------------------------
(* Lookup *)

CallLookup(p) ==
  /\ Step(p, "idle", "rlock")
  /\ \E r \in Abs!Lookups : req' = [req EXCEPT ![p] = r]
  /\ UNCHANGED <<algorithms, allocated, writer, readers, res>>

RLock(p) ==
  /\ \/ /\ writer = NoOne
        /\ Step(p, "rlock", "read")
        /\ readers' = readers \union {p}
     \/ /\ writer # NoOne
        /\ Step(p, "rlock", "rwait")
        /\ UNCHANGED readers
  /\ UNCHANGED <<algorithms, allocated, writer, req, res>>

\* Reading a nil map is legal in Go and finds nothing.
Read(p) ==
  /\ Step(p, "read", "runlock")
  /\ res' = [res EXCEPT ![p] = algorithms[req[p].arg]]
  /\ UNCHANGED <<algorithms, allocated, writer, readers, req>>

RUnlock(p) ==
  /\ Step(p, "runlock", "return")
  /\ readers' = readers \ {p}
  /\ UNCHANGED <<algorithms, allocated, writer, req, res>>

Return(p) ==
  /\ Step(p, "return", "idle")
  /\ req' = [req EXCEPT ![p] = Abs!NoRequest]
  /\ res' = [res EXCEPT ![p] = "nothing"]
  /\ UNCHANGED <<algorithms, allocated, writer, readers>>

-----------------------------------------------------------------------------

\* What a goroutine does once it has called.
Progress(p) ==
  \/ NilCheck(p) \/ Lock(p) \/ Drain(p) \/ CheckExists(p) \/ MakeMap(p)
  \/ Store(p) \/ Unlock(p)
  \/ RLock(p) \/ Read(p) \/ RUnlock(p)
  \/ Return(p)

Next == \E p \in Callers : CallRegister(p) \/ CallLookup(p) \/ Progress(p)

Spec == Init /\ [][Next]_vars

\* A goroutine that can run is scheduled; sync.Mutex hands the lock to a
\* waiter that has starved for a millisecond, hence strong fairness of Lock.
FairSpec == Spec /\ \A p \in Callers : WF_vars(Progress(p)) /\ SF_vars(Lock(p))

-----------------------------------------------------------------------------
(* Properties *)

\* Type invariant of the registry's state (agility.go:37-40); past its nil
\* check Register works on a real algorithm (agility.go:52-54).
TypeOK ==
  /\ algorithms \in [Names -> Algorithms \union {None}]
  /\ allocated \in BOOLEAN
  /\ writer \in Callers \union {NoOne}
  /\ readers \subseteq Callers
  /\ pc \in [Callers -> Steps]
  /\ req \in [Callers -> Abs!Requests \union {Abs!NoRequest}]
  /\ res \in [Callers -> Abs!Results]
  /\ \A p \in Callers :
       /\ pc[p] = "nil" => req[p] \in Abs!Registers
       /\ pc[p] \in RegisterSteps => req[p] \in Abs!Registers /\ req[p].arg # Nil
       /\ pc[p] \in LookupSteps => req[p] \in Abs!Lookups

\* "Safe to call concurrently" (agility.go:35-36): no goroutine is about to
\* write the map, or to replace it by a new one, while another is about to
\* read or write it, and nobody stores into the nil map of a zero Registry.
NoMapFault ==
  \A p \in Callers :
    /\ pc[p] \in {"make", "store"} =>
         \A q \in Callers \ {p} : pc[q] \notin {"check", "make", "store", "read"}
    /\ pc[p] = "store" => allocated

\* An entry, once in the table, is neither replaced nor dropped by any later
\* step: neither by a second Register of its name (agility.go:59-61) nor by
\* the lazy allocation of the map (agility.go:62-64).
EntriesStable ==
  [][\A n \in Names : algorithms[n] # None => algorithms'[n] = algorithms[n]]_vars

\* The registry implements the atomic one: of several concurrent Registers
\* of a name exactly the first to take effect succeeds, and every Lookup
\* returns what was registered at one instant of its call.
Linearizable == Abs!Spec

\* Every call returns: no path of Register or Lookup keeps the lock
\* (agility.go:56-57, 71-72).
CallsReturn == \A p \in Callers : pc[p] # "idle" ~> pc[p] = "idle"
=============================================================================
