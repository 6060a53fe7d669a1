--------------------------- MODULE AtomicRegistry ---------------------------
(***************************************************************************)
(* What agility.Registry promises its callers: every Register and every    *)
(* Lookup takes effect at one instant between the call and its return, on  *)
(* a table in which the first registration of a name stays.                *)
(***************************************************************************)

CONSTANTS
  Callers,     \* goroutines that call the registry
  Names,       \* algorithm names
  Algorithms,  \* Algorithm values
  NameOf,      \* NameOf[a] is the value of a.Name()
  Nil,         \* the nil Algorithm
  None         \* "no algorithm under this name"

VARIABLES
  table,       \* table[n]: the algorithm registered under n, or None
  phase,       \* phase[p]: where p is in its call
  req,         \* req[p]: the call p makes
  res          \* res[p]: what p's last applied call returns

vars == <<table, phase, req, res>>

Registers == [op : {"Register"}, arg : Algorithms \union {Nil}]
Lookups   == [op : {"Lookup"}, arg : Names]
Requests  == Registers \union Lookups
NoRequest == [op |-> "none", arg |-> Nil]

Results == {"nothing", "ok", "nil algorithm", "already registered", None} \union Algorithms

Init ==
  /\ table = [n \in Names |-> None]
  /\ phase = [p \in Callers |-> "idle"]
  /\ req = [p \in Callers |-> NoRequest]
  /\ res = [p \in Callers |-> "nothing"]

Invoke(p) ==
  /\ phase[p] = "idle"
  /\ \E r \in Requests : req' = [req EXCEPT ![p] = r]
  /\ phase' = [phase EXCEPT ![p] = "invoked"]
  /\ UNCHANGED <<table, res>>

Answer(p, r) ==
  /\ phase[p] = "invoked"
  /\ phase' = [phase EXCEPT ![p] = "applied"]
  /\ res' = [res EXCEPT ![p] = r]
  /\ UNCHANGED req

ApplyRegister(p) ==
  LET a == req[p].arg IN
  /\ phase[p] = "invoked" /\ req[p].op = "Register"
  /\ \/ /\ a = Nil
        /\ Answer(p, "nil algorithm")
        /\ UNCHANGED table
     \/ /\ a # Nil /\ table[NameOf[a]] # None
        /\ Answer(p, "already registered")
        /\ UNCHANGED table
     \/ /\ a # Nil /\ table[NameOf[a]] = None
        /\ Answer(p, "ok")
        /\ table' = [table EXCEPT ![NameOf[a]] = a]

ApplyLookup(p) ==
  /\ phase[p] = "invoked" /\ req[p].op = "Lookup"
  /\ Answer(p, table[req[p].arg])
  /\ UNCHANGED table

Return(p) ==
  /\ phase[p] = "applied"
  /\ phase' = [phase EXCEPT ![p] = "idle"]
  /\ req' = [req EXCEPT ![p] = NoRequest]
  /\ res' = [res EXCEPT ![p] = "nothing"]
  /\ UNCHANGED table

Next == \E p \in Callers : Invoke(p) \/ ApplyRegister(p) \/ ApplyLookup(p) \/ Return(p)

Spec == Init /\ [][Next]_vars
=============================================================================
