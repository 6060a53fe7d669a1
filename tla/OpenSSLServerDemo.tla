------------------------- MODULE OpenSSLServerDemo -------------------------
(***************************************************************************)
(* The demos that run openssl s_server: "pqlab demo hybrid-tls"            *)
(* (cmd/pqlab/hybridtls.go), whose client is openssl s_client, and the     *)
(* second direction of "pqlab demo interop-tls" (cmd/pqlab/interoptls.go), *)
(* whose client is Go's crypto/tls.  A run writes a key and a certificate, *)
(* starts s_server on a fixed port, polls the port, connects, and makes    *)
(* its deferred calls: kill s_server, wait for it, remove the directory.   *)
(*                                                                         *)
(* Several runs may overlap, and a run may be killed, which leaves its     *)
(* s_server and its files behind.  Time is abstracted to its events: the   *)
(* 2-second deadline of waitForPort and the 20-second context may pass at  *)
(* any moment.  s_server, s_client, the handshake and the operating system *)
(* are external; removing the directory succeeds.                          *)
(*                                                                         *)
(* The certificates of all runs have the same subject and serial number    *)
(* and differ in their keys; each run's key is named by the run.           *)
(***************************************************************************)

CONSTANTS
  Runs,        \* runs of the two commands
  HybridRuns,  \* those of hybrid-tls
  None,        \* no run, no certificate
  Partial      \* a directory that lacks a file, or has one cut short

ASSUME DemoAssumption ==
  HybridRuns \subseteq Runs /\ None \notin Runs /\ Partial \notin Runs /\ None # Partial

VARIABLES
  main,     \* main[r]: the next step of run r
  result,   \* result[r]: what it returns
  files,    \* files[r]: the key of the certificate in its temporary directory,
            \* Partial, or None when there is no directory
  child,    \* child[r]: its s_server process
  served,   \* served[r]: the key of the certificate s_server has read
  owner,    \* owner[p]: the run whose s_server has port p
  lastErr,  \* lastErr[r]: a dial of waitForPort has failed
  expired,  \* expired[r]: the 20 seconds of its context are over
  peer      \* peer[r]: the run whose s_server the client has connected to

serverVars == <<child, served, owner>>
timeVars   == <<lastErr, expired>>
vars       == <<main, result, files, serverVars, timeVars, peer>>

Ports == {"hybridTLSPort", "interopOpenSSLServerPort"}

\* Mutant: both demos use one port.
PortShared(r) == "hybridTLSPort"

Port(r) == IF r \in HybridRuns THEN "hybridTLSPort" ELSE "interopOpenSSLServerPort"

All(v) == [r \in Runs |-> v]

Init ==
  /\ main = All("cert") /\ result = All("none") /\ files = All(None)
  /\ child = All("none") /\ served = All(None) /\ owner = [p \in Ports |-> None]
  /\ lastErr = All(FALSE) /\ expired = All(FALSE) /\ peer = All(None)

-----------------------------------------------------------------------------
(* The command *)

Go(r, from, to) ==
  /\ main[r] = from
  /\ main' = [main EXCEPT ![r] = to]

FreePort(r) == owner' = [p \in Ports |-> IF owner[p] = r THEN None ELSE owner[p]]

\* Mutant: the directory goes first, as if its removal were deferred last.
LeaveFilesFirst(r, from, outcome) ==
  /\ Go(r, from, IF child[r] = "none" THEN "cleanup" ELSE "kill")
  /\ files' = [files EXCEPT ![r] = None]
  /\ result' = [result EXCEPT ![r] = outcome]
  /\ lastErr' = [lastErr EXCEPT ![r] = FALSE]
  /\ expired' = [expired EXCEPT ![r] = FALSE]

\* A return: what was deferred so far runs, the last first, while the files
\* stay.  The context may still expire before it is cancelled, when s_server
\* is being killed anyway.
Leave(r, from, outcome) ==
  /\ Go(r, from, IF child[r] = "none" THEN "cleanup" ELSE "kill")
  /\ result' = [result EXCEPT ![r] = outcome]
  /\ lastErr' = [lastErr EXCEPT ![r] = FALSE]
  /\ expired' = [expired EXCEPT ![r] = FALSE]
  /\ UNCHANGED files

\* generateEphemeralCert: the directory, or nothing at all.
MkdirTemp(r) ==
  /\ \/ /\ Go(r, "cert", "files")
        /\ files' = [files EXCEPT ![r] = Partial]
        /\ UNCHANGED result
     \/ /\ Go(r, "cert", "returned")
        /\ result' = [result EXCEPT ![r] = "error"]
        /\ UNCHANGED files
  /\ UNCHANGED <<serverVars, timeVars, peer>>

\* A new key, its certificate, and the two files; an error is a Fail.
WriteFiles(r) ==
  /\ Go(r, "files", "start")
  /\ files' = [files EXCEPT ![r] = r]
  /\ UNCHANGED <<result, serverVars, timeVars, peer>>

StartServer(r) ==
  /\ Go(r, "start", "waitForPort")
  /\ child' = [child EXCEPT ![r] = "starting"]
  /\ UNCHANGED <<result, files, served, owner, timeVars, peer>>

\* Every early return: the key, the certificate or a file is not to be had,
\* s_server does not start, the client cannot read the certificate, start or
\* connect, the handshake or the verification of the certificate fails.
Fail(r) ==
  /\ main[r] \in {"files", "start", "client", "handshake"}
  /\ Leave(r, main[r], "error")
  /\ UNCHANGED <<serverVars, peer>>

\* waitForPort: one dial of its loop.
Probe(r) ==
  /\ main[r] = "waitForPort"
  /\ \/ /\ owner[Port(r)] # None
        /\ Go(r, "waitForPort", "client")
        /\ lastErr' = [lastErr EXCEPT ![r] = FALSE]
     \/ /\ owner[Port(r)] = None
        /\ lastErr' = [lastErr EXCEPT ![r] = TRUE]
        /\ UNCHANGED main
  /\ UNCHANGED <<result, files, serverVars, expired, peer>>

\* Mutant: a failed dial starts the two seconds anew.
DeadlineExtended(r) ==
  /\ main[r] = "waitForPort" /\ ~lastErr[r]
  /\ Go(r, "waitForPort", "client")
  /\ UNCHANGED <<result, files, serverVars, timeVars, peer>>

\* waitForPort: the loop ends without a connection and returns lastErr, which
\* is nil if the deadline had passed before the first dial.
Deadline(r) ==
  /\ \/ /\ lastErr[r]
        /\ Leave(r, "waitForPort", "error")
     \/ /\ ~lastErr[r]
        /\ Go(r, "waitForPort", "client")
        /\ UNCHANGED <<result, files, timeVars>>
  /\ UNCHANGED <<serverVars, peer>>

\* The client reaches whichever s_server has the port.
Connect(r) ==
  /\ owner[Port(r)] # None
  /\ Go(r, "client", "handshake")
  /\ peer' = [peer EXCEPT ![r] = owner[Port(r)]]
  /\ UNCHANGED <<result, files, serverVars, timeVars>>

\* Mutant: the Go client does not verify the server's certificate.
VerifiesNothing(r) == TRUE

\* s_client verifies nothing; the Go client trusts the certificate in this
\* run's directory only.
Verifies(r) == r \in HybridRuns \/ served[peer[r]] = files[r]

Succeed(r) ==
  /\ main[r] = "handshake"
  /\ child[peer[r]] = "listening"
  /\ Verifies(r)
  /\ Leave(r, "handshake", "ok")
  /\ UNCHANGED <<serverVars, peer>>

\* A signal ends a process that has not ended, but not at once.
Signal(r) == child' = [child EXCEPT ![r] = IF @ \in {"starting", "listening"} THEN "killed" ELSE @]

\* The 20 seconds are over: the context kills s_server.
Expire(r) ==
  /\ main[r] \in {"waitForPort", "client", "handshake"} /\ ~expired[r]
  /\ expired' = [expired EXCEPT ![r] = TRUE]
  /\ Signal(r)
  /\ UNCHANGED <<main, result, files, served, owner, lastErr, peer>>

\* Mutant: s_server is not killed, and there is nothing to wait for.
KillNothing(r) ==
  /\ Go(r, "kill", "cleanup")
  /\ UNCHANGED <<result, files, serverVars, timeVars, peer>>

\* Deferred: server.Process.Kill.
Kill(r) ==
  /\ Go(r, "kill", "wait")
  /\ Signal(r)
  /\ UNCHANGED <<result, files, served, owner, timeVars, peer>>

\* Mutant: a process that was sent a signal is taken to have ended.
WaitNot(r) ==
  /\ Go(r, "wait", "cleanup")
  /\ child' = [child EXCEPT ![r] = "reaped"]
  /\ UNCHANGED <<result, files, served, owner, timeVars, peer>>

\* Deferred: server.Wait.
Wait(r) ==
  /\ child[r] = "exited"
  /\ Go(r, "wait", "cleanup")
  /\ child' = [child EXCEPT ![r] = "reaped"]
  /\ UNCHANGED <<result, files, served, owner, timeVars, peer>>

\* Deferred, or called by generateEphemeralCert before it returns an error.
RemoveAll(r) ==
  /\ Go(r, "cleanup", "returned")
  /\ files' = [files EXCEPT ![r] = None]
  /\ UNCHANGED <<result, serverVars, timeVars, peer>>

\* The process is killed, at any moment; a deferred call is not made then.
Crash(r) ==
  /\ main[r] \notin {"cert", "returned", "crashed"}
  /\ main' = [main EXCEPT ![r] = "crashed"]
  /\ lastErr' = [lastErr EXCEPT ![r] = FALSE]
  /\ expired' = [expired EXCEPT ![r] = FALSE]
  /\ UNCHANGED <<result, files, serverVars, peer>>

-----------------------------------------------------------------------------
(* The s_server process *)

\* It reads the certificate, then it listens.
Bind(r) ==
  /\ child[r] = "starting" /\ files[r] \in Runs /\ owner[Port(r)] = None
  /\ child' = [child EXCEPT ![r] = "listening"]
  /\ served' = [served EXCEPT ![r] = files[r]]
  /\ owner' = [owner EXCEPT ![Port(r)] = r]
  /\ UNCHANGED <<main, result, files, timeVars, peer>>

\* It ends: by itself, because the port is taken, the provider missing or the
\* certificate unreadable for instance, or of the signal.
Exit(r) ==
  /\ child[r] \in {"starting", "listening", "killed"}
  /\ child' = [child EXCEPT ![r] = "exited"]
  /\ FreePort(r)
  /\ UNCHANGED <<main, result, files, served, timeVars, peer>>

-----------------------------------------------------------------------------

Step(r) ==
  \/ MkdirTemp(r) \/ WriteFiles(r) \/ StartServer(r)
  \/ Kill(r) \/ Wait(r) \/ RemoveAll(r)

Next ==
  \E r \in Runs :
    \/ Step(r) \/ Fail(r) \/ Connect(r) \/ Succeed(r)
    \/ Probe(r) \/ Deadline(r) \/ Expire(r) \/ Crash(r)
    \/ Bind(r) \/ Exit(r)

Spec == Init /\ [][Next]_vars

\* Connecting to a local port succeeds or is refused, and nothing stands
\* between the client and its handshake.
Dial(r) == Connect(r) \/ (main[r] = "client" /\ Fail(r))

\* Mutant: s_client is started without the context.
AbandonedByServer(r) == main[r] = "handshake" /\ child[peer[r]] \in {"exited", "reaped"}

\* A handshake ends when its s_server is gone, or when the context kills
\* s_client; the Go client of interop-tls has no context and no deadline.
Abandoned(r) ==
  /\ main[r] = "handshake"
  /\ child[peer[r]] \in {"exited", "reaped"} \/ (r \in HybridRuns /\ expired[r])

\* Deadlines pass, a signal ends a process, and so every wait of a run ends but
\* for a handshake that is not Abandoned.  Nothing else is assumed of s_server.
WaitsEnd(r) ==
  /\ WF_vars(Deadline(r)) /\ WF_vars(Expire(r))
  /\ WF_vars(child[r] = "killed" /\ Exit(r))
  /\ WF_vars(Dial(r)) /\ WF_vars(Abandoned(r) /\ Fail(r))

\* A run is scheduled.
FairSpec ==
  /\ Spec
  /\ \A r \in Runs :
       /\ WF_vars(Step(r) \/ (main[r] \in {"files", "start"} /\ Fail(r)))
       /\ WaitsEnd(r)

-----------------------------------------------------------------------------
(* Properties *)

\* Type invariant; a port belongs to the one s_server that listens on it, or
\* that has been killed and has not ended yet.
TypeOK ==
  /\ main \in [Runs -> {"cert", "files", "start", "waitForPort", "client", "handshake",
                        "kill", "wait", "cleanup", "returned", "crashed"}]
  /\ result \in [Runs -> {"none", "error", "ok"}]
  /\ files \in [Runs -> Runs \union {None, Partial}]
  /\ child \in [Runs -> {"none", "starting", "listening", "killed", "exited", "reaped"}]
  /\ served \in [Runs -> Runs \union {None}]
  /\ owner \in [Ports -> Runs \union {None}]
  /\ \A r \in Runs :
       /\ child[r] = "listening" => owner[Port(r)] = r
       /\ owner[Port(r)] = r => child[r] \in {"listening", "killed"}
  /\ lastErr \in [Runs -> BOOLEAN] /\ expired \in [Runs -> BOOLEAN]
  /\ peer \in [Runs -> Runs \union {None}]

\* The Go client of interop-tls reports success only for the s_server of its
\* own run: another run's, or one left behind by a killed run, presents the
\* certificate of another key (hybridtls.go:132-153, interoptls.go:165-182).
GoClientMeetsOwnServer ==
  \A r \in Runs \ HybridRuns : result[r] = "ok" => peer[r] = r

\* "distinct from hybridTLSPort so nothing here collides with the hybrid-tls
\* demo if ever run alongside it" (interoptls.go:25-27): a run that is alone
\* of its kind reports success only for its own s_server.
KindsDoNotCollide ==
  \A r \in Runs :
    /\ result[r] = "ok"
    /\ \A q \in Runs \ {r} : (q \in HybridRuns <=> r \in HybridRuns) => main[q] = "cert"
    => peer[r] = r

\* Nothing of a run is left when it returns, on whichever path: its s_server
\* has been killed and waited for, its port is free and its directory removed
\* (hybridtls.go:43, 65-68, 133-197, interoptls.go:46, 156-159).
NothingLeft ==
  \A r \in Runs : main[r] = "returned" =>
    /\ child[r] \in {"none", "reaped"} /\ owner[Port(r)] # r /\ files[r] = None

\* The deferred calls keep the order of the resources: while an s_server may
\* still read the certificate and the key, and when the run itself comes to,
\* both files are there (hybridtls.go:43, 48-68, interoptls.go:46-53, 63, 165).
FilesOutliveUse ==
  \A r \in Runs :
    child[r] = "starting" \/ main[r] \in {"start", "client"} => files[r] \in Runs

\* Nothing ends the handshake of the Go client with an s_server that a killed
\* run has left.
Stranded(r) ==
  r \notin HybridRuns /\ main[r] = "handshake" /\ main[peer[r]] = "crashed"

\* A run that has its certificate returns, unless it is killed or Stranded
\* (hybridtls.go:45, 65-68, 74, 105-118, interoptls.go:136, 156-159, 174).
Returns ==
  \A r \in Runs : main[r] = "start" ~> main[r] \in {"returned", "crashed"} \/ Stranded(r)

\* "Every client connection in the demos targets 127.0.0.1, against a server
\* the same command started moments earlier" (README.md:32-33).
ConnectsToOwnServer == \A r \in Runs : result[r] = "ok" => peer[r] = r
=============================================================================
