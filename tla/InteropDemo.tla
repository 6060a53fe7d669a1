---------------------------- MODULE InteropDemo ----------------------------
(***************************************************************************)
(* "pqlab demo interop-tls" (runInteropTLSDemo, cmd/pqlab/interoptls.go):  *)
(* one certificate, then the direction of GoServerDemo, then, if that one  *)
(* succeeded, the direction of OpenSSLServerDemo.  Runs overlap, each may  *)
(* be in either direction, and a killed run leaves its processes behind.   *)
(***************************************************************************)

CONSTANTS Runs, None, Partial

\* runGoServerOpenSSLClient
VARIABLES goMain, goResult, port, server, serving, done, client, clientErr, target,
          finished, expired

\* runInteropTLSDemo, and runOpenSSLServerGoClient in it
VARIABLES main, result, files, child, served, owner, lastErr, sslExpired, peer

goVars  == <<goMain, goResult, port, server, serving, done, client, clientErr, target,
             finished, expired>>
sslVars == <<main, result, files, child, served, owner, lastErr, sslExpired, peer>>
vars    == <<goVars, sslVars>>

GoServer  == INSTANCE GoServerDemo WITH main <- goMain, result <- goResult
SSLServer == INSTANCE OpenSSLServerDemo WITH HybridRuns <- {}, expired <- sslExpired

ASSUME InteropAssumption ==
  None \notin Runs \union GoServer!Outcomes /\ Partial \notin Runs \union {None}

Init == GoServer!Init /\ SSLServer!Init

-----------------------------------------------------------------------------

GenerateCert(r) == (SSLServer!MkdirTemp(r) \/ SSLServer!WriteFiles(r)) /\ UNCHANGED goVars

\* The first direction, between the certificate and the start of s_server.
FirstDirection(r) ==
  /\ main[r] = "start"
  /\ \/ GoServer!Listen(r) \/ GoServer!ListenFails(r) \/ GoServer!Exec(r)
     \/ GoServer!Wait(r) \/ GoServer!Receive(r) \/ GoServer!Expire(r)
  /\ UNCHANGED sslVars

\* Its goroutine, which ends with the process at the latest, and its s_client,
\* which a killed run leaves running.
Concurrently(r) ==
  /\ \/ GoServer!Accept(r) \/ GoServer!AcceptFails(r) \/ GoServer!Handshake(r)
     \/ GoServer!HandshakeFails(r) \/ GoServer!Write(r) \/ GoServer!CloseConn(r)
     \/ GoServer!Dial(r) \/ GoServer!ClientFinishes(r) \/ GoServer!ClientFails(r)
     \/ GoServer!ClientExits(r) \/ GoServer!Kill(r)
  /\ UNCHANGED sslVars

\* Mutant: the error of the first direction is not looked at.
SecondDirectionAnyway(r) ==
  goMain[r] = "returned" /\ SSLServer!StartServer(r) /\ UNCHANGED goVars

SecondDirection(r) == goResult[r] = "ok" /\ SSLServer!StartServer(r) /\ UNCHANGED goVars

\* The error of the certificate, of the first direction, or of the second.
Fail(r) ==
  /\ main[r] = "start" => goMain[r] = "returned"
  /\ SSLServer!Fail(r)
  /\ UNCHANGED goVars

\* The second direction, its s_server, and its deadlines.
Continue(r) ==
  /\ \/ SSLServer!Probe(r) \/ SSLServer!Deadline(r) \/ SSLServer!Connect(r)
     \/ SSLServer!Succeed(r) \/ SSLServer!Expire(r)
     \/ SSLServer!Bind(r) \/ SSLServer!Exit(r)
  /\ UNCHANGED goVars

\* What was deferred in the second direction, and by runInteropTLSDemo.
Deferred(r) ==
  (SSLServer!Kill(r) \/ SSLServer!Wait(r) \/ SSLServer!RemoveAll(r)) /\ UNCHANGED goVars

Crash(r) ==
  /\ SSLServer!Crash(r)
  /\ IF goMain[r] \in {"exec", "wait", "receive"} THEN GoServer!Crash(r) ELSE UNCHANGED goVars

Next ==
  \E r \in Runs :
    \/ GenerateCert(r) \/ FirstDirection(r) \/ Concurrently(r) \/ SecondDirection(r)
    \/ Fail(r) \/ Continue(r) \/ Deferred(r) \/ Crash(r)

Spec == Init /\ [][Next]_vars

\* The fairness of both directions; the second can start only after the first.
FairSpec ==
  /\ Spec /\ GoServer!Fairness
  /\ \A r \in Runs :
       /\ SSLServer!WaitsEnd(r)
       /\ WF_vars(\/ GenerateCert(r) \/ SecondDirection(r) \/ Deferred(r)
                  \/ main[r] \in {"files", "start"} /\ Fail(r))

-----------------------------------------------------------------------------
(* Properties *)

\* Type invariant; each direction is used as its own module describes it.
TypeOK ==
  /\ GoServer!TypeOK /\ SSLServer!TypeOK
  /\ \A r \in Runs :
       /\ goMain[r] # "listen" => main[r] \notin {"cert", "files"}
       /\ child[r] # "none" => goResult[r] = "ok"

\* interop-tls succeeds only if both directions did, each between the two sides
\* of this run, also beside another run and after a killed one, whose s_client
\* may dial the same fixed port (interoptls.go:48-54, 59-61).
BothDirections ==
  /\ GoServer!SuccessIsMutual
  /\ \A r \in Runs : result[r] = "ok" => goResult[r] = "ok" /\ peer[r] = r

\* What the goroutine has left to do, but for the conn.Close it has deferred,
\* and the channel with its result are part of the first direction.
FirstDirectionLeft(r) ==
  \/ port = r \/ client[r] = "running"
  \/ server[r] \in {"accept", "handshake", "write"} \/ done[r] # None

\* The second direction starts, and the demo returns, when of the first at most
\* the goroutine's conn.Close is still to come: port 14434 is free, s_client is
\* gone, and the goroutine is stuck neither on a connection nor on the channel
\* (interoptls.go:48-51, 76, 82, 89, 114).
NothingCarriedOver ==
  \A r \in Runs :
    main[r] \in {"waitForPort", "client", "handshake", "returned"} => ~FirstDirectionLeft(r)

\* Once its goroutine serves its own s_client, or another one that has gone, a
\* run returns, unless the s_server of a killed run keeps it in its handshake:
\* s_client is killed after 10 seconds, and its end ends the handshake, the
\* goroutine and the receive (interoptls.go:92-114, 136, 156-163, 174).
ReturnsOnceConnected ==
  \A r \in Runs :
    serving[r] = r \/ (serving[r] # None /\ client[serving[r]] = "exited")
      ~> main[r] \in {"returned", "crashed"} \/ SSLServer!Stranded(r)
=============================================================================
