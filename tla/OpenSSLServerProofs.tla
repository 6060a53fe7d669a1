------------------------ MODULE OpenSSLServerProofs ------------------------
(***************************************************************************)
(* Proofs about OpenSSLServerDemo, for any number of runs of either kind:  *)
(* a port belongs to one s_server of its kind, the Go client meets its     *)
(* own, the two kinds do not meet, and the deferred calls leave nothing    *)
(* and remove no file too early.                                           *)
(***************************************************************************)
EXTENDS OpenSSLServerDemo, TLAPS

-----------------------------------------------------------------------------
(* The inductive invariant *)

\* Where a run is tells what it has: no s_server before "start" and none after
\* it was waited for, both files from "start" until all deferred calls but the
\* last are made.  The certificate of a run is its own, and so is that of its
\* s_server; a success has a peer, for the Go client the own one.
RunAt(r) ==
  /\ main[r] \in {"cert", "files", "start"} => child[r] = "none"
  /\ main[r] \in {"cleanup", "returned"} => child[r] \in {"none", "reaped"}
  /\ main[r] \in {"cert", "returned"} => files[r] = None
  /\ main[r] \in {"start", "waitForPort", "client", "handshake", "kill", "wait"} => files[r] = r
  /\ child[r] = "starting" => files[r] = r
  /\ files[r] \in {None, Partial, r}
  /\ child[r] = "listening" => served[r] = r
  /\ main[r] = "handshake" => peer[r] # None
  /\ result[r] = "ok" =>
       /\ main[r] \in {"kill", "wait", "cleanup", "returned", "crashed"}
       /\ peer[r] # None
       /\ r \in HybridRuns \/ peer[r] = r

RunInv == \A r \in Runs : RunAt(r)

PortInv == \A p \in Ports : owner[p] # None => Port(owner[p]) = p

\* What a client connected to is an s_server that was started on its port.
PeerInv ==
  \A r \in Runs : peer[r] # None => Port(peer[r]) = Port(r) /\ main[peer[r]] # "cert"

IInv == TypeOK /\ RunInv /\ PortInv /\ PeerInv

LEMMA PortType == \A r \in Runs : Port(r) \in Ports
BY DEF Port, Ports

LEMMA InitInv == Init => IInv
BY PortType, DemoAssumption
   DEF Init, All, IInv, TypeOK, RunInv, RunAt, PortInv, PeerInv, Ports

\* The end of an s_server: its port is free, and no other port was its own.
LEMMA Freed ==
  ASSUME IInv, NEW r \in Runs, FreePort(r)
  PROVE  /\ owner' \in [Ports -> Runs \union {None}]
         /\ owner'[Port(r)] # r
         /\ \A p \in Ports : owner'[p] \in {owner[p], None}
         /\ \A q \in Runs \ {r} : owner'[Port(q)] = q <=> owner[Port(q)] = q
BY PortType, DemoAssumption DEF FreePort, IInv, TypeOK

\* A step of run r, or of its s_server, that says nothing of the other runs.
LEMMA OwnStep ==
  ASSUME IInv, NEW r \in Runs, TypeOK', RunAt(r)', PortInv',
         main[r] = "cert" \/ main'[r] # "cert",
         peer'[r] # None => Port(peer'[r]) = Port(r) /\ main'[peer'[r]] # "cert",
         \A q \in Runs \ {r} :
           /\ main'[q] = main[q] /\ result'[q] = result[q] /\ files'[q] = files[q]
           /\ child'[q] = child[q] /\ served'[q] = served[q] /\ peer'[q] = peer[q]
  PROVE  IInv'
<1>1. RunInv'
  BY DEF IInv, RunInv, RunAt
<1>2. PeerInv'
  <2> SUFFICES ASSUME NEW q \in Runs, peer'[q] # None
               PROVE  Port(peer'[q]) = Port(q) /\ main'[peer'[q]] # "cert"
    BY DEF PeerInv
  <2>1. CASE q = r
    BY <2>1
  <2>2. CASE q # r
    <3>1. peer'[q] \in Runs /\ Port(peer'[q]) = Port(q) /\ main[peer'[q]] # "cert"
      BY <2>2 DEF IInv, TypeOK, PeerInv
    <3> QED
      BY <3>1
  <2> QED
    BY <2>1, <2>2
<1> QED
  BY <1>1, <1>2 DEF IInv

\* A step of run r that leaves its s_server and its peer alone.
LEMMA MainStep ==
  ASSUME IInv, NEW r \in Runs, UNCHANGED <<child, served, owner, peer>>,
         NEW to \in {"files", "start", "waitForPort", "client", "handshake",
                     "kill", "wait", "cleanup", "returned", "crashed"},
         main' = [main EXCEPT ![r] = to],
         result' \in [Runs -> {"none", "error", "ok"}],
         files' \in [Runs -> Runs \union {None, Partial}],
         \A q \in Runs \ {r} : result'[q] = result[q] /\ files'[q] = files[q],
         lastErr' \in [Runs -> BOOLEAN], expired' \in [Runs -> BOOLEAN],
         RunAt(r)'
  PROVE  IInv'
<1>1. main' \in [Runs -> {"cert", "files", "start", "waitForPort", "client", "handshake",
                          "kill", "wait", "cleanup", "returned", "crashed"}]
  BY DEF IInv, TypeOK
<1>2. TypeOK' /\ PortInv'
  BY <1>1 DEF IInv, TypeOK, PortInv
<1>3. main'[r] = to /\ \A q \in Runs \ {r} : main'[q] = main[q]
  BY DEF IInv, TypeOK
<1>4. peer'[r] # None => Port(peer'[r]) = Port(r) /\ main'[peer'[r]] # "cert"
  <2> SUFFICES ASSUME peer[r] # None PROVE Port(peer[r]) = Port(r) /\ main'[peer[r]] # "cert"
    OBVIOUS
  <2>1. peer[r] \in Runs /\ Port(peer[r]) = Port(r) /\ main[peer[r]] # "cert"
    BY DEF IInv, TypeOK, PeerInv
  <2> QED
    BY <1>3, <2>1
<1> QED
  BY <1>2, <1>3, <1>4, OwnStep

LEMMA LeaveInv ==
  ASSUME IInv, NEW r \in Runs,
         NEW from \in {"files", "start", "waitForPort", "client", "handshake"},
         NEW outcome \in {"error", "ok"}, Leave(r, from, outcome),
         outcome = "ok" => from = "handshake" /\ (r \in HybridRuns \/ peer[r] = r),
         UNCHANGED <<serverVars, peer>>
  PROVE  IInv'
<1> DEFINE to == IF child[r] = "none" THEN "cleanup" ELSE "kill"
<1>1. /\ main[r] = from /\ main' = [main EXCEPT ![r] = to]
      /\ result' = [result EXCEPT ![r] = outcome]
      /\ lastErr' = [lastErr EXCEPT ![r] = FALSE]
      /\ expired' = [expired EXCEPT ![r] = FALSE]
      /\ UNCHANGED <<files, child, served, owner, peer>>
  BY DEF Leave, Go, serverVars
<1>2. /\ main'[r] = to /\ result'[r] = outcome
      /\ \A q \in Runs \ {r} : result'[q] = result[q]
      /\ result' \in [Runs -> {"none", "error", "ok"}]
      /\ lastErr' \in [Runs -> BOOLEAN] /\ expired' \in [Runs -> BOOLEAN]
      /\ files' \in [Runs -> Runs \union {None, Partial}]
  BY <1>1 DEF IInv, TypeOK
<1>3. RunAt(r)'
  <2>1. RunAt(r) /\ main[r] = from
    BY <1>1 DEF IInv, RunInv
  <2>2. main'[r] = "kill" => main[r] # "files"
    BY <1>2, <2>1 DEF RunAt
  <2> QED
    BY <1>1, <1>2, <2>1, <2>2 DEF RunAt
<1> QED
  BY <1>1, <1>2, <1>3, MainStep

-----------------------------------------------------------------------------
(* One step of a run *)

LEMMA MkdirTempInv == ASSUME IInv, NEW r \in Runs, MkdirTemp(r) PROVE IInv'
<1>0. main[r] = "cert" /\ RunAt(r) /\ UNCHANGED <<child, served, owner, lastErr, expired, peer>>
  BY DEF MkdirTemp, Go, serverVars, timeVars, IInv, RunInv
<1>1. CASE /\ main' = [main EXCEPT ![r] = "files"] /\ files' = [files EXCEPT ![r] = Partial]
           /\ UNCHANGED result
  <2>1. /\ main'[r] = "files" /\ files'[r] = Partial
        /\ \A q \in Runs \ {r} : files'[q] = files[q]
    BY <1>1 DEF IInv, TypeOK
  <2>2. RunAt(r)'
    BY <1>0, <1>1, <2>1 DEF RunAt
  <2> QED
    BY <1>0, <1>1, <2>1, <2>2, MainStep DEF IInv, TypeOK
<1>2. CASE /\ main' = [main EXCEPT ![r] = "returned"] /\ UNCHANGED files
           /\ result' = [result EXCEPT ![r] = "error"]
  <2>1. /\ main'[r] = "returned" /\ result'[r] = "error"
        /\ \A q \in Runs \ {r} : result'[q] = result[q]
    BY <1>2 DEF IInv, TypeOK
  <2>2. RunAt(r)'
    BY <1>0, <1>2, <2>1 DEF RunAt
  <2> QED
    BY <1>0, <1>2, <2>1, <2>2, MainStep DEF IInv, TypeOK
<1> QED
  BY <1>1, <1>2 DEF MkdirTemp, Go

LEMMA WriteFilesInv == ASSUME IInv, NEW r \in Runs, WriteFiles(r) PROVE IInv'
<1>1. /\ main[r] = "files" /\ main' = [main EXCEPT ![r] = "start"]
      /\ files' = [files EXCEPT ![r] = r]
      /\ RunAt(r) /\ UNCHANGED <<result, child, served, owner, lastErr, expired, peer>>
  BY DEF WriteFiles, Go, serverVars, timeVars, IInv, RunInv
<1>2. main'[r] = "start" /\ files'[r] = r /\ \A q \in Runs \ {r} : files'[q] = files[q]
  BY <1>1 DEF IInv, TypeOK
<1>3. RunAt(r)'
  BY <1>1, <1>2 DEF RunAt
<1> QED
  BY <1>1, <1>2, <1>3, MainStep DEF IInv, TypeOK

LEMMA RemoveAllInv == ASSUME IInv, NEW r \in Runs, RemoveAll(r) PROVE IInv'
<1>1. /\ main[r] = "cleanup" /\ main' = [main EXCEPT ![r] = "returned"]
      /\ files' = [files EXCEPT ![r] = None]
      /\ RunAt(r) /\ UNCHANGED <<result, child, served, owner, lastErr, expired, peer>>
  BY DEF RemoveAll, Go, serverVars, timeVars, IInv, RunInv
<1>2. main'[r] = "returned" /\ files'[r] = None /\ \A q \in Runs \ {r} : files'[q] = files[q]
  BY <1>1 DEF IInv, TypeOK
<1>3. RunAt(r)'
  BY <1>1, <1>2 DEF RunAt
<1> QED
  BY <1>1, <1>2, <1>3, MainStep DEF IInv, TypeOK

LEMMA CrashInv == ASSUME IInv, NEW r \in Runs, Crash(r) PROVE IInv'
<1>1. /\ main[r] \notin {"cert", "returned", "crashed"}
      /\ main' = [main EXCEPT ![r] = "crashed"]
      /\ lastErr' = [lastErr EXCEPT ![r] = FALSE]
      /\ expired' = [expired EXCEPT ![r] = FALSE]
      /\ RunAt(r) /\ UNCHANGED <<result, files, child, served, owner, peer>>
  BY DEF Crash, serverVars, IInv, RunInv
<1>2. main'[r] = "crashed"
  BY <1>1 DEF IInv, TypeOK
<1>3. RunAt(r)'
  BY <1>1, <1>2 DEF RunAt
<1> QED
  BY <1>1, <1>3, MainStep DEF IInv, TypeOK

LEMMA ProbeInv == ASSUME IInv, NEW r \in Runs, Probe(r) PROVE IInv'
<1>0. /\ main[r] = "waitForPort" /\ RunAt(r)
      /\ UNCHANGED <<result, files, child, served, owner, expired, peer>>
  BY DEF Probe, serverVars, IInv, RunInv
<1>1. CASE main' = [main EXCEPT ![r] = "client"] /\ lastErr' = [lastErr EXCEPT ![r] = FALSE]
  <2>1. main'[r] = "client"
    BY <1>1 DEF IInv, TypeOK
  <2>2. RunAt(r)'
    BY <1>0, <2>1 DEF RunAt
  <2> QED
    BY <1>0, <1>1, <2>2, MainStep DEF IInv, TypeOK
<1>2. CASE lastErr' = [lastErr EXCEPT ![r] = TRUE] /\ UNCHANGED main
  BY <1>0, <1>2 DEF IInv, TypeOK, RunInv, RunAt, PortInv, PeerInv
<1> QED
  BY <1>1, <1>2 DEF Probe, Go

LEMMA DeadlineInv == ASSUME IInv, NEW r \in Runs, Deadline(r) PROVE IInv'
<1>1. CASE Leave(r, "waitForPort", "error")
  BY <1>1, LeaveInv DEF Deadline
<1>2. CASE Go(r, "waitForPort", "client") /\ UNCHANGED <<result, files, timeVars>>
  <2>1. /\ main[r] = "waitForPort" /\ RunAt(r) /\ main' = [main EXCEPT ![r] = "client"]
        /\ UNCHANGED <<result, files, child, served, owner, lastErr, expired, peer>>
    BY <1>2 DEF Deadline, Go, serverVars, timeVars, IInv, RunInv
  <2>2. main'[r] = "client"
    BY <2>1 DEF IInv, TypeOK
  <2>3. RunAt(r)'
    BY <2>1, <2>2 DEF RunAt
  <2> QED
    BY <2>1, <2>3, MainStep DEF IInv, TypeOK
<1> QED
  BY <1>1, <1>2 DEF Deadline

LEMMA ConnectInv == ASSUME IInv, NEW r \in Runs, Connect(r) PROVE IInv'
<1>1. /\ main[r] = "client" /\ RunAt(r) /\ main' = [main EXCEPT ![r] = "handshake"]
      /\ peer' = [peer EXCEPT ![r] = owner[Port(r)]]
      /\ UNCHANGED <<result, files, child, served, owner, lastErr, expired>>
  BY DEF Connect, Go, serverVars, timeVars, IInv, RunInv
<1>2. /\ owner[Port(r)] \in Runs /\ Port(owner[Port(r)]) = Port(r)
      /\ main[owner[Port(r)]] # "cert"
  <2>1. owner[Port(r)] \in Runs /\ Port(owner[Port(r)]) = Port(r)
    BY PortType DEF Connect, IInv, TypeOK, PortInv
  <2>2. child[owner[Port(r)]] \in {"listening", "killed"}
    BY <2>1 DEF IInv, TypeOK
  <2> QED
    BY <2>1, <2>2 DEF IInv, RunInv, RunAt
<1>3. /\ main'[r] = "handshake" /\ peer'[r] = owner[Port(r)]
      /\ \A q \in Runs \ {r} : main'[q] = main[q] /\ peer'[q] = peer[q]
  BY <1>1 DEF IInv, TypeOK
<1>4. RunAt(r)'
  BY <1>1, <1>2, <1>3, DemoAssumption DEF RunAt
<1>5. TypeOK' /\ PortInv'
  BY <1>1, <1>2 DEF IInv, TypeOK, PortInv
<1>6. Port(peer'[r]) = Port(r) /\ main'[peer'[r]] # "cert"
  BY <1>2, <1>3
<1> QED
  BY <1>1, <1>3, <1>4, <1>5, <1>6, OwnStep

-----------------------------------------------------------------------------
(* The s_server of a run *)

\* A step of the s_server of run r, and at most a step of main with it.
LEMMA ChildStep ==
  ASSUME IInv, NEW r \in Runs, UNCHANGED <<result, files, peer>>,
         NEW to \in {"none", "starting", "listening", "killed", "exited", "reaped"},
         child' = [child EXCEPT ![r] = to],
         main' \in [Runs -> {"cert", "files", "start", "waitForPort", "client", "handshake",
                             "kill", "wait", "cleanup", "returned", "crashed"}],
         main[r] = "cert" \/ main'[r] # "cert",
         \A q \in Runs \ {r} : main'[q] = main[q] /\ served'[q] = served[q],
         served' \in [Runs -> Runs \union {None}],
         owner' \in [Ports -> Runs \union {None}], PortInv',
         \A q \in Runs \ {r} : owner'[Port(q)] = q <=> owner[Port(q)] = q,
         to = "listening" => owner'[Port(r)] = r,
         owner'[Port(r)] = r => to \in {"listening", "killed"},
         lastErr' \in [Runs -> BOOLEAN], expired' \in [Runs -> BOOLEAN],
         RunAt(r)'
  PROVE  IInv'
<1>1. child'[r] = to /\ \A q \in Runs \ {r} : child'[q] = child[q]
  BY DEF IInv, TypeOK
<1>2. ASSUME NEW q \in Runs
      PROVE  /\ child'[q] = "listening" => owner'[Port(q)] = q
             /\ owner'[Port(q)] = q => child'[q] \in {"listening", "killed"}
  <2>1. CASE q = r
    BY <1>1, <2>1
  <2>2. CASE q # r
    BY <1>1, <2>2 DEF IInv, TypeOK
  <2> QED
    BY <2>1, <2>2
<1>3. child' \in [Runs -> {"none", "starting", "listening", "killed", "exited", "reaped"}]
  BY DEF IInv, TypeOK
<1>4. TypeOK'
  BY <1>2, <1>3 DEF IInv, TypeOK
<1>5. peer'[r] # None => Port(peer'[r]) = Port(r) /\ main'[peer'[r]] # "cert"
  <2> SUFFICES ASSUME peer[r] # None PROVE Port(peer[r]) = Port(r) /\ main'[peer[r]] # "cert"
    OBVIOUS
  <2>1. peer[r] \in Runs /\ Port(peer[r]) = Port(r) /\ main[peer[r]] # "cert"
    BY DEF IInv, TypeOK, PeerInv
  <2> QED
    BY <2>1
<1> QED
  BY <1>1, <1>4, <1>5, OwnStep

LEMMA StartServerInv == ASSUME IInv, NEW r \in Runs, StartServer(r) PROVE IInv'
<1>1. /\ main[r] = "start" /\ RunAt(r) /\ main' = [main EXCEPT ![r] = "waitForPort"]
      /\ child' = [child EXCEPT ![r] = "starting"]
      /\ UNCHANGED <<result, files, served, owner, lastErr, expired, peer>>
  BY DEF StartServer, Go, timeVars, IInv, RunInv
<1>2. main'[r] = "waitForPort" /\ child'[r] = "starting"
  BY <1>1 DEF IInv, TypeOK
<1>3. RunAt(r)'
  BY <1>1, <1>2 DEF RunAt
<1>4. owner[Port(r)] # r
  BY <1>1 DEF IInv, TypeOK, RunAt
<1> QED
  BY <1>1, <1>2, <1>3, <1>4, ChildStep DEF IInv, TypeOK, PortInv

\* A signal leaves the port with its s_server until the process has ended.
LEMMA SignalInv ==
  ASSUME IInv, NEW r \in Runs, Signal(r),
         main[r] \in {"waitForPort", "client", "handshake", "kill"},
         main' = main \/ (main[r] = "kill" /\ main' = [main EXCEPT ![r] = "wait"]),
         expired' \in [Runs -> BOOLEAN], UNCHANGED <<result, files, served, owner, lastErr, peer>>
  PROVE  IInv'
<1> DEFINE to == IF child[r] \in {"starting", "listening"} THEN "killed" ELSE child[r]
<1>1. child' = [child EXCEPT ![r] = to]
  BY DEF Signal
<1>2. child'[r] = to /\ to \in {"none", "starting", "listening", "killed", "exited", "reaped"}
  BY <1>1 DEF IInv, TypeOK
<1>3. to # "listening" /\ to # "starting"
  OBVIOUS
<1>4. owner[Port(r)] = r => to = "killed"
  BY DEF IInv, TypeOK
<1>5. main'[r] = main[r] \/ (main[r] = "kill" /\ main'[r] = "wait")
  BY DEF IInv, TypeOK
<1>6. RunAt(r)'
  BY <1>2, <1>3, <1>5 DEF IInv, RunInv, RunAt
<1>7. main' \in [Runs -> {"cert", "files", "start", "waitForPort", "client", "handshake",
                          "kill", "wait", "cleanup", "returned", "crashed"}]
  BY DEF IInv, TypeOK
<1>8. \A q \in Runs \ {r} : main'[q] = main[q]
  BY DEF IInv, TypeOK
<1> HIDE DEF to
<1> QED
  BY <1>1, <1>2, <1>3, <1>4, <1>5, <1>6, <1>7, <1>8, ChildStep DEF IInv, TypeOK, PortInv

LEMMA ExpireInv == ASSUME IInv, NEW r \in Runs, Expire(r) PROVE IInv'
<1>1. expired' \in [Runs -> BOOLEAN]
  BY DEF Expire, IInv, TypeOK
<1> QED
  BY <1>1, SignalInv DEF Expire

LEMMA KillInv == ASSUME IInv, NEW r \in Runs, Kill(r) PROVE IInv'
<1>1. expired' \in [Runs -> BOOLEAN]
  BY DEF Kill, timeVars, IInv, TypeOK
<1> QED
  BY <1>1, SignalInv DEF Kill, Go, timeVars

LEMMA WaitInv == ASSUME IInv, NEW r \in Runs, Wait(r) PROVE IInv'
<1>1. /\ main[r] = "wait" /\ RunAt(r) /\ main' = [main EXCEPT ![r] = "cleanup"]
      /\ child[r] = "exited" /\ child' = [child EXCEPT ![r] = "reaped"]
      /\ UNCHANGED <<result, files, served, owner, lastErr, expired, peer>>
  BY DEF Wait, Go, timeVars, IInv, RunInv
<1>2. main'[r] = "cleanup" /\ child'[r] = "reaped"
  BY <1>1 DEF IInv, TypeOK
<1>3. RunAt(r)'
  BY <1>1, <1>2 DEF RunAt
<1>4. owner[Port(r)] # r
  BY <1>1 DEF IInv, TypeOK
<1> QED
  BY <1>1, <1>2, <1>3, <1>4, ChildStep DEF IInv, TypeOK, PortInv

LEMMA BindInv == ASSUME IInv, NEW r \in Runs, Bind(r) PROVE IInv'
<1>1. /\ Port(r) \in Ports /\ owner[Port(r)] = None /\ child[r] = "starting" /\ RunAt(r)
      /\ child' = [child EXCEPT ![r] = "listening"] /\ owner' = [owner EXCEPT ![Port(r)] = r]
      /\ served' = [served EXCEPT ![r] = files[r]] /\ files[r] = r
      /\ UNCHANGED <<main, result, files, lastErr, expired, peer>>
  BY PortType DEF Bind, timeVars, IInv, RunInv, RunAt
<1>2. /\ owner'[Port(r)] = r /\ \A p \in Ports \ {Port(r)} : owner'[p] = owner[p]
      /\ child'[r] = "listening" /\ served'[r] = r
      /\ \A q \in Runs \ {r} : served'[q] = served[q]
  BY <1>1 DEF IInv, TypeOK
<1>3. ASSUME NEW q \in Runs \ {r} PROVE owner'[Port(q)] = q <=> owner[Port(q)] = q
  <2>1. CASE Port(q) = Port(r)
    BY <1>1, <1>2, <2>1, DemoAssumption
  <2>2. CASE Port(q) # Port(r)
    BY <1>2, <2>2, PortType
  <2> QED
    BY <2>1, <2>2
<1>4. PortInv'
  BY <1>2 DEF IInv, PortInv
<1>5. RunAt(r)'
  BY <1>1, <1>2 DEF RunAt
<1>6. owner' \in [Ports -> Runs \union {None}] /\ served' \in [Runs -> Runs \union {None}]
  BY <1>1 DEF IInv, TypeOK
<1> QED
  BY <1>1, <1>2, <1>3, <1>4, <1>5, <1>6, ChildStep DEF IInv, TypeOK

LEMMA ExitInv == ASSUME IInv, NEW r \in Runs, Exit(r) PROVE IInv'
<1>1. /\ child[r] \in {"starting", "listening", "killed"} /\ RunAt(r) /\ FreePort(r)
      /\ child' = [child EXCEPT ![r] = "exited"]
      /\ UNCHANGED <<main, result, files, served, lastErr, expired, peer>>
  BY DEF Exit, timeVars, IInv, RunInv
<1>2. child'[r] = "exited"
  BY <1>1 DEF IInv, TypeOK
<1>3. RunAt(r)'
  BY <1>1, <1>2 DEF RunAt
<1>4. PortInv'
  <2>1. ASSUME NEW p \in Ports, owner'[p] # None PROVE Port(owner'[p]) = p
    BY <1>1, <2>1, Freed DEF IInv, PortInv
  <2> QED
    BY <2>1 DEF PortInv
<1> QED
  BY <1>1, <1>2, <1>3, <1>4, Freed, ChildStep DEF IInv, TypeOK

-----------------------------------------------------------------------------
(* The invariant *)

\* The Go client's own certificate is served by its own s_server only.
LEMMA SucceedInv == ASSUME IInv, NEW r \in Runs, Succeed(r) PROVE IInv'
<1>1. main[r] = "handshake" /\ peer[r] \in Runs /\ files[r] = r
  BY DEF Succeed, IInv, TypeOK, RunInv, RunAt
<1>2. served[peer[r]] = peer[r]
  BY <1>1 DEF Succeed, IInv, RunInv, RunAt
<1>3. r \in HybridRuns \/ peer[r] = r
  BY <1>1, <1>2 DEF Succeed, Verifies
<1> QED
  BY <1>3, LeaveInv DEF Succeed

LEMMA Inductive == IInv /\ [Next]_vars => IInv'
<1> SUFFICES ASSUME IInv, [Next]_vars PROVE IInv'
  OBVIOUS
<1>1. ASSUME NEW r \in Runs, Fail(r) PROVE IInv'
  <2>1. main[r] \in {"files", "start", "client", "handshake"}
    BY <1>1 DEF Fail
  <2> QED
    BY <1>1, <2>1, LeaveInv DEF Fail
<1>2. CASE UNCHANGED vars
  BY <1>2 DEF vars, serverVars, timeVars, IInv, TypeOK, RunInv, RunAt, PortInv, PeerInv
<1> QED
  BY <1>1, <1>2, MkdirTempInv, WriteFilesInv, StartServerInv, KillInv, WaitInv, RemoveAllInv,
     ConnectInv, SucceedInv, ProbeInv, DeadlineInv, ExpireInv, CrashInv, BindInv, ExitInv
     DEF Next, Step

LEMMA Invariant == Spec => []IInv
BY InitInv, Inductive, PTL DEF Spec

-----------------------------------------------------------------------------
(* Theorems *)

\* The types; a port belongs to the one s_server that listens on it, or that
\* has been killed and has not ended yet.
THEOREM TypeCorrect == Spec => []TypeOK
BY Invariant, PTL DEF IInv

\* The Go client of interop-tls reports success only for its own s_server: its
\* trust pool holds the certificate of its own directory, and an s_server only
\* ever serves the one it read from its run's (interoptls.go:165-182).
THEOREM OwnServer == Spec => []GoClientMeetsOwnServer
<1>1. IInv => GoClientMeetsOwnServer
  BY DEF IInv, RunInv, RunAt, GoClientMeetsOwnServer
<1> QED
  BY <1>1, Invariant, PTL

\* A run that is alone of its kind reports success only for its own s_server,
\* whatever runs of the other kind do (interoptls.go:25-27).
THEOREM NoCollision == Spec => []KindsDoNotCollide
<1>1. IInv => KindsDoNotCollide
  <2> SUFFICES ASSUME IInv, NEW r \in Runs, result[r] = "ok",
                      \A q \in Runs \ {r} : (q \in HybridRuns <=> r \in HybridRuns) => main[q] = "cert"
               PROVE  peer[r] = r
    BY DEF KindsDoNotCollide
  <2>1. peer[r] # None
    BY DEF IInv, RunInv, RunAt
  <2>2. peer[r] \in Runs /\ Port(peer[r]) = Port(r) /\ main[peer[r]] # "cert"
    BY <2>1 DEF IInv, TypeOK, PeerInv
  <2>3. peer[r] \in HybridRuns <=> r \in HybridRuns
    BY <2>2 DEF Port
  <2> QED
    BY <2>2, <2>3
<1> QED
  BY <1>1, Invariant, PTL

\* A run that returns has killed and reaped its s_server, freed its port and
\* removed its directory, whichever call failed and whenever the context
\* expired (hybridtls.go:43, 65-68, 133-197, interoptls.go:46, 156-159).
THEOREM Clean == Spec => []NothingLeft
<1>1. IInv => NothingLeft
  <2> SUFFICES ASSUME IInv, NEW r \in Runs, main[r] = "returned"
               PROVE  child[r] \in {"none", "reaped"} /\ owner[Port(r)] # r /\ files[r] = None
    BY DEF NothingLeft
  <2>1. child[r] \in {"none", "reaped"} /\ files[r] = None
    BY DEF IInv, RunInv, RunAt
  <2>2. owner[Port(r)] = r => child[r] \in {"listening", "killed"}
    BY DEF IInv, TypeOK
  <2> QED
    BY <2>1, <2>2
<1> QED
  BY <1>1, Invariant, PTL

\* The files are removed after the last process that may still read them has
\* ended (hybridtls.go:43, 48-68, interoptls.go:46-53, 165).
THEOREM FilesOutlive == Spec => []FilesOutliveUse
<1>1. IInv => FilesOutliveUse
  BY DEF IInv, RunInv, RunAt, FilesOutliveUse
<1> QED
  BY <1>1, Invariant, PTL
=============================================================================
