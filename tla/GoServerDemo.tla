---------------------------- MODULE GoServerDemo ----------------------------
(***************************************************************************)
(* runGoServerOpenSSLClient, the first direction of "pqlab demo            *)
(* interop-tls" (cmd/pqlab/interoptls.go): main listens on a fixed port,   *)
(* starts a goroutine that serves one connection, runs openssl s_client    *)
(* under a 10-second context, and receives the goroutine's result from a   *)
(* channel.  Several runs of the command may overlap, and a run may be     *)
(* killed, which leaves its s_client behind.                               *)
(*                                                                         *)
(* s_client, the TLS handshake and the operating system are external:      *)
(* s_client may fail to start, or exit with an error before or after it    *)
(* connects; it exits by itself once its handshake is over (its stdin is   *)
(* at end of file).  A process that exits closes its connection, but what  *)
(* it sent before can still be read.                                       *)
(***************************************************************************)

CONSTANTS
  Runs,  \* runs of the command
  None   \* no run, no result

VARIABLES
  main,       \* main[r]: the next step of runGoServerOpenSSLClient in run r
  result,     \* result[r]: what it returns
  port,       \* the run listening on interopGoServerPort, or None
  server,     \* server[r]: the next step of the goroutine
  serving,    \* serving[r]: the run whose s_client the goroutine accepted
  done,       \* done[r]: the buffered channel, one result or None
  client,     \* client[r]: the s_client process
  clientErr,  \* clientErr[r]: s_client could not start, failed, or was killed
  target,     \* target[r]: the run whose listener s_client dialed
  finished,   \* finished[r]: s_client has printed its handshake summary
  expired     \* expired[r]: the 10 seconds are over, and main waits for s_client

mainVars   == <<main, result, port>>
serverVars == <<server, serving>>
clientVars == <<client, clientErr, target, finished>>
vars == <<mainVars, serverVars, done, clientVars, expired>>

Outcomes == {"accept error", "handshake error", "write error", "hybrid group"}

All(v) == [r \in Runs |-> v]

Init ==
  /\ main = All("listen") /\ result = All("none") /\ port = None
  /\ server = All("none") /\ serving = All(None)
  /\ done = All(None)
  /\ client = All("none") /\ clientErr = All(FALSE)
  /\ target = All(None) /\ finished = All(FALSE)
  /\ expired = All(FALSE)

-----------------------------------------------------------------------------
(* main *)

Go(r, from, to) ==
  /\ main[r] = from
  /\ main' = [main EXCEPT ![r] = to]

\* The deferred ln.Close, or the end of the process.
ClosePort(r) == port' = IF port = r THEN None ELSE port

\* tls.Listen, and the start of the goroutine.
Listen(r) ==
  /\ port = None
  /\ Go(r, "listen", "exec")
  /\ port' = r
  /\ server' = [server EXCEPT ![r] = "accept"]
  /\ UNCHANGED <<result, serving, done, clientVars, expired>>

\* The key pair does not load, or the port is not to be had.
ListenFails(r) ==
  /\ Go(r, "listen", "returned")
  /\ result' = [result EXCEPT ![r] = "setup error"]
  /\ UNCHANGED <<port, serverVars, done, clientVars, expired>>

\* CombinedOutput starts s_client and waits for it, or cannot start it.
Exec(r) ==
  /\ \/ /\ Go(r, "exec", "wait")
        /\ client' = [client EXCEPT ![r] = "running"]
        /\ UNCHANGED clientErr
     \/ /\ Go(r, "exec", "receive")
        /\ clientErr' = [clientErr EXCEPT ![r] = TRUE]
        /\ UNCHANGED client
  /\ UNCHANGED <<result, port, serverVars, done, target, finished, expired>>

\* The wait is over, and with it what the context is for.
Wait(r) ==
  /\ client[r] = "exited"
  /\ Go(r, "wait", "receive")
  /\ expired' = [expired EXCEPT ![r] = FALSE]
  /\ UNCHANGED <<result, port, serverVars, done, clientVars>>

\* Mutant: only what the goroutine recorded counts.
VerdictOfServer(r, outcome) ==
  IF outcome # "hybrid group" THEN "server error" ELSE "ok"

\* What main returns, once it has a result of the server.
Verdict(r, outcome) ==
  IF outcome # "hybrid group" THEN "server error"
  ELSE IF clientErr[r] THEN "client error"
  ELSE IF ~finished[r] THEN "no handshake"
  ELSE "ok"

\* Mutant: an error of s_client is returned without waiting for the server.
ReceiveUnlessClientErr(r) ==
  /\ done[r] # None \/ clientErr[r]
  /\ Go(r, "receive", "returned")
  /\ done' = [done EXCEPT ![r] = None]
  /\ result' = [result EXCEPT ![r] =
                  IF clientErr[r] THEN "client error" ELSE Verdict(r, done[r])]
  /\ ClosePort(r)
  /\ UNCHANGED <<serverVars, clientVars, expired>>

Receive(r) ==
  /\ done[r] # None
  /\ Go(r, "receive", "returned")
  /\ done' = [done EXCEPT ![r] = None]
  /\ result' = [result EXCEPT ![r] = Verdict(r, done[r])]
  /\ ClosePort(r)
  /\ UNCHANGED <<serverVars, clientVars, expired>>

\* The timer of the context exists while main waits for s_client.
Expire(r) ==
  /\ main[r] = "wait" /\ ~expired[r]
  /\ expired' = [expired EXCEPT ![r] = TRUE]
  /\ UNCHANGED <<mainVars, serverVars, done, clientVars>>

\* The command is killed: the goroutine goes with it, s_client does not.
Crash(r) ==
  /\ main[r] \in {"exec", "wait", "receive"}
  /\ main' = [main EXCEPT ![r] = "crashed"]
  /\ server' = [server EXCEPT ![r] = "exited"]
  /\ done' = [done EXCEPT ![r] = None]
  /\ ClosePort(r)
  /\ expired' = [expired EXCEPT ![r] = FALSE]
  /\ UNCHANGED <<result, serving, clientVars>>

-----------------------------------------------------------------------------
(* The goroutine *)

Send(r, outcome) ==
  /\ done[r] = None
  /\ done' = [done EXCEPT ![r] = outcome]

Serve(r, from, to) ==
  /\ server[r] = from
  /\ server' = [server EXCEPT ![r] = to]

\* A connection can be accepted even when the s_client that made it is gone.
Accept(r) ==
  /\ Serve(r, "accept", "handshake")
  /\ \E c \in Runs : target[c] = r /\ serving' = [serving EXCEPT ![r] = c]
  /\ UNCHANGED <<mainVars, done, clientVars, expired>>

\* The operating system may refuse, for want of a file descriptor say.
AcceptFails(r) ==
  /\ Serve(r, "accept", "exited")
  /\ Send(r, "accept error")
  /\ UNCHANGED <<mainVars, serving, clientVars, expired>>

Handshake(r) ==
  /\ serving[r] # None /\ finished[serving[r]]
  /\ Serve(r, "handshake", "write")
  /\ UNCHANGED <<mainVars, serving, done, clientVars, expired>>

\* Mutants: no return after the error; no send of the error.
HandshakeFailsThrough(r) ==
  /\ serving[r] # None /\ ~finished[serving[r]]
  /\ Serve(r, "handshake", "write")
  /\ Send(r, "handshake error")
  /\ UNCHANGED <<mainVars, serving, clientVars, expired>>

HandshakeFailsSilently(r) ==
  /\ serving[r] # None /\ ~finished[serving[r]]
  /\ Serve(r, "handshake", "close")
  /\ UNCHANGED <<mainVars, serving, done, clientVars, expired>>

\* No common group or version, or the peer went away before it finished.
HandshakeFails(r) ==
  /\ serving[r] # None /\ ~finished[serving[r]]
  /\ Serve(r, "handshake", "close")
  /\ Send(r, "handshake error")
  /\ UNCHANGED <<mainVars, serving, clientVars, expired>>

\* The write can fail once the s_client has gone.
Write(r) ==
  /\ Serve(r, "write", "close")
  /\ \/ Send(r, "hybrid group")
     \/ client[serving[r]] = "exited" /\ Send(r, "write error")
  /\ UNCHANGED <<mainVars, serving, clientVars, expired>>

\* Deferred: conn.Close, after the result has been sent.
CloseConn(r) ==
  /\ Serve(r, "close", "exited")
  /\ UNCHANGED <<mainVars, serving, done, clientVars, expired>>

-----------------------------------------------------------------------------
(* The s_client process *)

Dial(r) ==
  /\ client[r] = "running" /\ target[r] = None /\ port # None
  /\ target' = [target EXCEPT ![r] = port]
  /\ UNCHANGED <<mainVars, serverVars, done, client, clientErr, finished, expired>>

Accepted(r) ==
  \E s \in Runs : target[r] = s /\ serving[s] = r /\ server[s] = "handshake"

\* s_client has the server's part of the handshake, sends its own and prints
\* "New, TLSv1.3,".
ClientFinishes(r) ==
  /\ client[r] = "running" /\ ~finished[r] /\ Accepted(r)
  /\ finished' = [finished EXCEPT ![r] = TRUE]
  /\ UNCHANGED <<mainVars, serverVars, done, client, clientErr, target, expired>>

ClientStops(r, err) ==
  /\ client[r] = "running"
  /\ client' = [client EXCEPT ![r] = "exited"]
  /\ clientErr' = [clientErr EXCEPT ![r] = err]
  /\ UNCHANGED <<mainVars, serverVars, done, target, finished, expired>>

\* A missing provider, a refused connection or group, an alert.
ClientFails(r) == ~finished[r] /\ ClientStops(r, TRUE)

ClientExits(r) == finished[r] /\ ClientStops(r, FALSE)

\* exec.CommandContext kills the process when its context is done.
Kill(r) == main[r] = "wait" /\ expired[r] /\ ClientStops(r, TRUE)

-----------------------------------------------------------------------------

Next ==
  \E r \in Runs :
    \/ Listen(r) \/ ListenFails(r) \/ Exec(r) \/ Wait(r) \/ Receive(r)
    \/ Expire(r) \/ Crash(r)
    \/ Accept(r) \/ AcceptFails(r) \/ Handshake(r) \/ HandshakeFails(r) \/ Write(r)
    \/ CloseConn(r)
    \/ Dial(r) \/ ClientFinishes(r) \/ ClientFails(r) \/ ClientExits(r) \/ Kill(r)

Spec == Init /\ [][Next]_vars

PeerGone(r) == serving[r] # None /\ client[serving[r]] = "exited"

\* main and the goroutine are scheduled, the timer fires, a killed process
\* dies, and a handshake whose s_client is gone fails.  Nothing is assumed of
\* an s_client that lives, of a handshake with it, of AcceptFails or of Crash.
Fairness ==
  \A r \in Runs :
    /\ WF_vars(Exec(r) \/ Wait(r) \/ Receive(r))
    /\ WF_vars(Expire(r)) /\ WF_vars(Kill(r))
    /\ WF_vars(Accept(r) \/ Handshake(r) \/ Write(r) \/ CloseConn(r))
    /\ WF_vars(PeerGone(r) /\ HandshakeFails(r))

FairSpec == Spec /\ Fairness

-----------------------------------------------------------------------------
(* Properties *)

\* Type invariant; the goroutine sends one result, after which it does nothing
\* but close its connection, so that the channel's one place is always enough
\* (interoptls.go:82-101).
TypeOK ==
  /\ main \in [Runs -> {"listen", "exec", "wait", "receive", "returned", "crashed"}]
  /\ result \in [Runs -> {"none", "setup error", "server error", "client error",
                          "no handshake", "ok"}]
  /\ port \in Runs \union {None}
  /\ server \in [Runs -> {"none", "accept", "handshake", "write", "close", "exited"}]
  /\ done \in [Runs -> Outcomes \union {None}]
  /\ \A r \in Runs : done[r] # None => server[r] \in {"close", "exited"}
  /\ client \in [Runs -> {"none", "running", "exited"}]
  /\ target \in [Runs -> Runs \union {None}] /\ serving \in [Runs -> Runs \union {None}]
  /\ clientErr \in [Runs -> BOOLEAN] /\ finished \in [Runs -> BOOLEAN]
  /\ expired \in [Runs -> BOOLEAN]

\* A run reports success only if its own goroutine served its own s_client to
\* the end, whatever other runs, and s_clients left over from killed runs, do
\* on the same fixed port ("confirms both that the client's handshake
\* completed and that the Go server's side recorded the expected negotiated
\* group", interoptls.go:59-61).
SuccessIsMutual ==
  \A r \in Runs : result[r] = "ok" =>
    /\ target[r] = r /\ serving[r] = r
    /\ server[r] \in {"close", "exited"}
    /\ finished[r] /\ client[r] = "exited" /\ ~clientErr[r]

\* A run that has started its s_client returns: an s_client that fails is
\* reported with its output (interoptls.go:118-120), one that hangs is killed
\* (interoptls.go:103).
Returns == \A r \in Runs : main[r] = "exec" ~> main[r] \in {"returned", "crashed"}
=============================================================================
