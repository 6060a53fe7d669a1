--------------------------- MODULE InteropProofs ---------------------------
(***************************************************************************)
(* Proofs about InteropDemo, for any number of overlapping runs: its steps *)
(* are steps of the two directions.  GoIInv is the inductive invariant of  *)
(* the first: what holds at each step of its main, of its s_client and of  *)
(* its goroutine, so that a success is mutual and a run that returns       *)
(* leaves nothing.  That of the second is proved in OpenSSLServerProofs,   *)
(* and CompInv ties the two together.                                      *)
(***************************************************************************)
EXTENDS InteropDemo, TLAPS

S == INSTANCE OpenSSLServerProofs WITH HybridRuns <- {}, expired <- sslExpired

LEMMA NoneIsNew == None \notin Runs /\ None \notin GoServer!Outcomes
BY InteropAssumption DEF GoServer!Outcomes

-----------------------------------------------------------------------------
(* The first direction: main *)

\* The port is a run's own from tls.Listen until it returns; by then s_client
\* has ended, the channel is empty, and the goroutine has at most its
\* connection to close.  In a run that was killed the goroutine is gone.
GoMainInv ==
  \A r \in Runs :
    /\ port = r <=> goMain[r] \in {"exec", "wait", "receive"}
    /\ goMain[r] = "listen" => server[r] = "none"
    /\ goMain[r] \in {"listen", "exec"} => client[r] = "none"
    /\ goMain[r] = "receive" => client[r] = "exited" \/ (client[r] = "none" /\ clientErr[r])
    /\ goMain[r] = "crashed" => server[r] = "exited"
    /\ goMain[r] = "returned" =>
         client[r] # "running" /\ server[r] \in {"none", "close", "exited"}
    /\ goMain[r] \in {"listen", "returned"} => done[r] = None

\* An s_client dials its own run's port unless that run was killed, and one that
\* has finished is the one its server serves.
GoClientInv ==
  \A r \in Runs :
    /\ client[r] = "none" => target[r] = None /\ ~finished[r]
    /\ target[r] \notin {None, r} => goMain[r] = "crashed"
    /\ finished[r] => target[r] # None /\ serving[target[r]] = r
    /\ server[r] \in {"none", "accept"} => serving[r] = None

\* A run that returns nil has returned.
GoResultInv == \A r \in Runs : goResult[r] # "none" => goMain[r] = "returned"

GoIInv == GoServer!TypeOK /\ GoMainInv /\ GoClientInv /\ GoResultInv /\ GoServer!SuccessIsMutual

LEMMA GoInitInv == ASSUME GoServer!Init PROVE GoIInv
BY NoneIsNew DEF GoServer!Init, GoServer!All, GoIInv, GoServer!TypeOK, GoMainInv, GoClientInv,
                 GoResultInv, GoServer!SuccessIsMutual

LEMMA GoListenInv == ASSUME GoIInv, NEW r \in Runs, GoServer!Listen(r) PROVE GoIInv'
<1>1. /\ goMain[r] = "listen" /\ goMain' = [goMain EXCEPT ![r] = "exec"]
      /\ port = None /\ port' = r
      /\ server' = [server EXCEPT ![r] = "accept"]
      /\ UNCHANGED <<goResult, serving, done, client, clientErr, target, finished, expired>>
  BY DEF GoServer!Listen, GoServer!Go, GoServer!clientVars
<1>2. /\ goMain'[r] = "exec" /\ server'[r] = "accept"
      /\ \A q \in Runs \ {r} : goMain'[q] = goMain[q] /\ server'[q] = server[q]
  BY <1>1 DEF GoIInv, GoServer!TypeOK
<1>3. GoServer!TypeOK'
  <2>1. /\ goMain' \in [Runs -> {"listen", "exec", "wait", "receive", "returned", "crashed"}]
        /\ server' \in [Runs -> {"none", "accept", "handshake", "write", "close", "exited"}]
        /\ port' \in Runs \union {None}
    BY <1>1 DEF GoIInv, GoServer!TypeOK
  <2>2. \A q \in Runs : done[q] # None => server[q] \in {"close", "exited"}
    BY DEF GoIInv, GoServer!TypeOK
  <2>3. server[r] = "none"
    BY <1>1 DEF GoIInv, GoMainInv
  <2>4. \A q \in Runs : done'[q] # None => server'[q] \in {"close", "exited"}
    BY <1>1, <1>2, <2>2, <2>3
  <2> QED
    BY <1>1, <2>1, <2>4 DEF GoIInv, GoServer!TypeOK
<1>4. GoMainInv'
  BY <1>1, <1>2, NoneIsNew DEF GoIInv, GoMainInv
<1>5. GoClientInv'
  BY <1>1, <1>2 DEF GoIInv, GoMainInv, GoClientInv
<1>6. GoResultInv' /\ GoServer!SuccessIsMutual'
  BY <1>1, <1>2 DEF GoIInv, GoResultInv, GoServer!SuccessIsMutual
<1> QED
  BY <1>3, <1>4, <1>5, <1>6 DEF GoIInv

LEMMA GoListenFailsInv == ASSUME GoIInv, NEW r \in Runs, GoServer!ListenFails(r) PROVE GoIInv'
<1>1. /\ goMain[r] = "listen" /\ goMain' = [goMain EXCEPT ![r] = "returned"]
      /\ UNCHANGED <<port, server, serving, done, client, clientErr, target, finished,
                     expired>>
  BY DEF GoServer!ListenFails, GoServer!Go, GoServer!clientVars, GoServer!serverVars
<1>2. goMain'[r] = "returned" /\ \A q \in Runs \ {r} : goMain'[q] = goMain[q]
  BY <1>1 DEF GoIInv, GoServer!TypeOK
<1>3. goResult' = [goResult EXCEPT ![r] = "setup error"]
  BY DEF GoServer!ListenFails
<1>4. goResult'[r] # "ok" /\ \A q \in Runs \ {r} : goResult'[q] = goResult[q]
  BY <1>3 DEF GoIInv, GoServer!TypeOK
<1>5. GoServer!TypeOK'
  BY <1>1, <1>3 DEF GoIInv, GoServer!TypeOK
<1>6. GoMainInv'
  BY <1>1, <1>2 DEF GoIInv, GoMainInv
<1>7. GoClientInv'
  BY <1>1, <1>2 DEF GoIInv, GoMainInv, GoClientInv
<1>8. GoResultInv' /\ GoServer!SuccessIsMutual'
  BY <1>1, <1>2, <1>4 DEF GoIInv, GoResultInv, GoServer!SuccessIsMutual
<1> QED
  BY <1>5, <1>6, <1>7, <1>8 DEF GoIInv

LEMMA GoExecInv == ASSUME GoIInv, NEW r \in Runs, GoServer!Exec(r) PROVE GoIInv'
<1>0. /\ goMain[r] = "exec"
      /\ UNCHANGED <<goResult, port, server, serving, done, target, finished, expired>>
  BY DEF GoServer!Exec, GoServer!Go, GoServer!serverVars
<1>1. ASSUME goMain' = [goMain EXCEPT ![r] = "wait"], client' = [client EXCEPT ![r] = "running"],
             UNCHANGED clientErr
      PROVE  GoIInv'
  <2>1. /\ goMain'[r] = "wait" /\ client'[r] = "running"
        /\ \A q \in Runs \ {r} : goMain'[q] = goMain[q] /\ client'[q] = client[q]
    BY <1>1 DEF GoIInv, GoServer!TypeOK
  <2>2. GoServer!TypeOK'
    BY <1>0, <1>1 DEF GoIInv, GoServer!TypeOK
  <2>3. GoMainInv' /\ GoClientInv'
    BY <1>0, <1>1, <2>1 DEF GoIInv, GoMainInv, GoClientInv
  <2>4. GoResultInv' /\ GoServer!SuccessIsMutual'
    BY <1>0, <1>1, <2>1 DEF GoIInv, GoResultInv, GoServer!SuccessIsMutual
  <2> QED
    BY <2>2, <2>3, <2>4 DEF GoIInv
<1>2. ASSUME goMain' = [goMain EXCEPT ![r] = "receive"],
             clientErr' = [clientErr EXCEPT ![r] = TRUE],
             UNCHANGED client
      PROVE  GoIInv'
  <2>1. /\ goMain'[r] = "receive" /\ clientErr'[r]
        /\ \A q \in Runs \ {r} : goMain'[q] = goMain[q] /\ clientErr'[q] = clientErr[q]
    BY <1>2 DEF GoIInv, GoServer!TypeOK
  <2>2. GoServer!TypeOK'
    BY <1>0, <1>2 DEF GoIInv, GoServer!TypeOK
  <2>3. GoMainInv' /\ GoClientInv'
    BY <1>0, <1>2, <2>1 DEF GoIInv, GoMainInv, GoClientInv
  <2>4. GoResultInv' /\ GoServer!SuccessIsMutual'
    BY <1>0, <1>2, <2>1 DEF GoIInv, GoResultInv, GoServer!SuccessIsMutual
  <2> QED
    BY <2>2, <2>3, <2>4 DEF GoIInv
<1> QED
  BY <1>1, <1>2 DEF GoServer!Exec, GoServer!Go

LEMMA GoWaitInv == ASSUME GoIInv, NEW r \in Runs, GoServer!Wait(r) PROVE GoIInv'
<1>1. /\ goMain[r] = "wait" /\ client[r] = "exited" /\ goMain' = [goMain EXCEPT ![r] = "receive"]
      /\ expired' = [expired EXCEPT ![r] = FALSE]
      /\ UNCHANGED <<goResult, port, server, serving, done, client, clientErr, target, finished>>
  BY DEF GoServer!Wait, GoServer!Go, GoServer!clientVars, GoServer!serverVars
<1>2. goMain'[r] = "receive" /\ \A q \in Runs \ {r} : goMain'[q] = goMain[q]
  BY <1>1 DEF GoIInv, GoServer!TypeOK
<1>3. GoServer!TypeOK'
  BY <1>1 DEF GoIInv, GoServer!TypeOK
<1>4. GoMainInv' /\ GoClientInv'
  BY <1>1, <1>2 DEF GoIInv, GoMainInv, GoClientInv
<1>5. GoResultInv' /\ GoServer!SuccessIsMutual'
  BY <1>1, <1>2 DEF GoIInv, GoResultInv, GoServer!SuccessIsMutual
<1> QED
  BY <1>3, <1>4, <1>5 DEF GoIInv

LEMMA GoReceiveInv == ASSUME GoIInv, NEW r \in Runs, GoServer!Receive(r) PROVE GoIInv'
<1>1. /\ goMain[r] = "receive" /\ goMain' = [goMain EXCEPT ![r] = "returned"]
      /\ done[r] # None /\ server[r] \in {"close", "exited"} /\ port = r /\ port' = None
      /\ done' = [done EXCEPT ![r] = None]
      /\ goResult' = [goResult EXCEPT ![r] = GoServer!Verdict(r, done[r])]
      /\ UNCHANGED <<server, serving, client, clientErr, target, finished, expired>>
  BY DEF GoServer!Receive, GoServer!Go, GoServer!ClosePort, GoServer!clientVars,
         GoServer!serverVars, GoIInv, GoServer!TypeOK, GoMainInv
<1>2. GoServer!Verdict(r, done[r]) \in {"server error", "client error", "no handshake", "ok"}
  BY DEF GoServer!Verdict
<1>3. /\ goMain'[r] = "returned" /\ goResult'[r] = GoServer!Verdict(r, done[r])
      /\ done'[r] = None
      /\ \A q \in Runs \ {r} :
           goMain'[q] = goMain[q] /\ goResult'[q] = goResult[q] /\ done'[q] = done[q]
  BY <1>1 DEF GoIInv, GoServer!TypeOK
<1>4. GoServer!TypeOK'
  BY <1>1, <1>2 DEF GoIInv, GoServer!TypeOK
<1>5. GoMainInv'
  BY <1>1, <1>3, NoneIsNew DEF GoIInv, GoMainInv
<1>6. GoClientInv'
  BY <1>1, <1>3 DEF GoIInv, GoClientInv
<1>7. GoResultInv'
  BY <1>3 DEF GoIInv, GoResultInv
<1>8. GoServer!SuccessIsMutual'
  <2>1. ASSUME GoServer!Verdict(r, done[r]) = "ok"
        PROVE  /\ target[r] = r /\ serving[r] = r /\ finished[r]
               /\ client[r] = "exited" /\ ~clientErr[r]
    <3>1. finished[r] /\ ~clientErr[r]
      BY <2>1 DEF GoServer!Verdict
    <3> QED
      BY <1>1, <3>1 DEF GoIInv, GoMainInv, GoClientInv
  <2> QED
    BY <1>1, <1>3, <2>1 DEF GoIInv, GoServer!SuccessIsMutual
<1> QED
  BY <1>4, <1>5, <1>6, <1>7, <1>8 DEF GoIInv

LEMMA GoCrashInv == ASSUME GoIInv, NEW r \in Runs, GoServer!Crash(r) PROVE GoIInv'
<1>1. /\ goMain[r] \in {"exec", "wait", "receive"} /\ goMain' = [goMain EXCEPT ![r] = "crashed"]
      /\ server' = [server EXCEPT ![r] = "exited"] /\ done' = [done EXCEPT ![r] = None]
      /\ port' = IF port = r THEN None ELSE port
      /\ expired' = [expired EXCEPT ![r] = FALSE]
      /\ UNCHANGED <<goResult, serving, client, clientErr, target, finished>>
  BY DEF GoServer!Crash, GoServer!ClosePort, GoServer!clientVars
<1>2. port = r /\ port' = None
  BY <1>1 DEF GoIInv, GoMainInv
<1>3. /\ goMain'[r] = "crashed" /\ server'[r] = "exited"
      /\ \A q \in Runs \ {r} : goMain'[q] = goMain[q] /\ server'[q] = server[q]
  BY <1>1 DEF GoIInv, GoServer!TypeOK
<1>4. GoServer!TypeOK'
  BY <1>1 DEF GoIInv, GoServer!TypeOK
<1>5. GoMainInv'
  BY <1>1, <1>2, <1>3, NoneIsNew DEF GoIInv, GoMainInv
<1>6. GoClientInv'
  BY <1>1, <1>3 DEF GoIInv, GoClientInv
<1>7. GoResultInv' /\ GoServer!SuccessIsMutual'
  BY <1>1, <1>3 DEF GoIInv, GoResultInv, GoServer!SuccessIsMutual
<1> QED
  BY <1>4, <1>5, <1>6, <1>7 DEF GoIInv

LEMMA GoExpireInv == ASSUME GoIInv, NEW r \in Runs, GoServer!Expire(r) PROVE GoIInv'
<1>1. /\ expired' = [expired EXCEPT ![r] = TRUE]
      /\ UNCHANGED <<goMain, goResult, port, server, serving, done, client, clientErr,
                     target, finished>>
  BY DEF GoServer!Expire, GoServer!mainVars, GoServer!clientVars, GoServer!serverVars
<1>2. GoServer!TypeOK'
  BY <1>1 DEF GoIInv, GoServer!TypeOK
<1> QED
  BY <1>1, <1>2 DEF GoIInv, GoMainInv, GoClientInv, GoResultInv, GoServer!SuccessIsMutual

-----------------------------------------------------------------------------
(* The goroutine *)

LEMMA GoAcceptInv == ASSUME GoIInv, NEW r \in Runs, GoServer!Accept(r) PROVE GoIInv'
<1>1. PICK c \in Runs : target[c] = r /\ serving' = [serving EXCEPT ![r] = c]
  BY DEF GoServer!Accept
<1>2. /\ server[r] = "accept" /\ server' = [server EXCEPT ![r] = "handshake"]
      /\ UNCHANGED <<goMain, goResult, port, done, client, clientErr, target, finished,
                     expired>>
  BY DEF GoServer!Accept, GoServer!Serve, GoServer!mainVars, GoServer!clientVars
<1>3. serving[r] = None
  BY <1>2 DEF GoIInv, GoClientInv
<1>4. /\ server'[r] = "handshake"
      /\ \A q \in Runs \ {r} : serving'[q] = serving[q] /\ server'[q] = server[q]
  <2>1. /\ server \in [Runs -> {"none", "accept", "handshake", "write", "close", "exited"}]
        /\ serving \in [Runs -> Runs \union {None}]
    BY DEF GoIInv, GoServer!TypeOK
  <2> QED
    BY <1>1, <1>2, <2>1
<1>5. GoServer!TypeOK'
  <2>1. /\ server' \in [Runs -> {"none", "accept", "handshake", "write", "close", "exited"}]
        /\ serving' \in [Runs -> Runs \union {None}]
    BY <1>1, <1>2 DEF GoIInv, GoServer!TypeOK
  <2>2. \A q \in Runs : done[q] # None => server[q] \in {"close", "exited"}
    BY DEF GoIInv, GoServer!TypeOK
  <2>3. \A q \in Runs : done'[q] # None => server'[q] \in {"close", "exited"}
    BY <1>2, <1>4, <2>2
  <2> QED
    BY <1>2, <2>1, <2>3 DEF GoIInv, GoServer!TypeOK
<1>6. GoMainInv'
  BY <1>2, <1>4 DEF GoIInv, GoMainInv
<1>7. GoClientInv'
  <2>1. \A q \in Runs : finished[q] => target[q] # None /\ serving[target[q]] = q
    BY DEF GoIInv, GoClientInv
  <2>2. \A q \in Runs : q # None /\ target[q] \in Runs \union {None}
    BY NoneIsNew DEF GoIInv, GoServer!TypeOK
  <2>3. \A q \in Runs : finished[q] => target[q] \in Runs /\ target[q] # r
    BY <1>3, <2>1, <2>2
  <2> QED
    BY <1>2, <1>4, <2>3 DEF GoIInv, GoClientInv
<1>8. GoResultInv' /\ GoServer!SuccessIsMutual'
  BY <1>2, <1>4 DEF GoIInv, GoResultInv, GoServer!SuccessIsMutual
<1> QED
  BY <1>5, <1>6, <1>7, <1>8 DEF GoIInv

\* Its other steps leave the port, main and s_client alone; it sends its result
\* when it ends, or when its connection is all it has left to close.
LEMMA GoServeInv ==
  ASSUME GoIInv, NEW r \in Runs, server[r] \in {"accept", "handshake", "write", "close"},
         NEW to \in {"write", "close", "exited"}, server' = [server EXCEPT ![r] = to],
         \/ done' = done /\ (server[r] = "close" => to = "exited")
         \/ /\ server[r] # "close" /\ to # "write"
            /\ \E outcome \in GoServer!Outcomes : done' = [done EXCEPT ![r] = outcome],
         UNCHANGED <<goMain, goResult, port, serving, client, clientErr, target, finished,
                     expired>>
  PROVE  GoIInv'
<1>1. server'[r] = to /\ \A q \in Runs \ {r} : server'[q] = server[q]
  BY DEF GoIInv, GoServer!TypeOK
<1>2. server[r] # "close" => done[r] = None /\ goMain[r] \notin {"listen", "returned"}
  BY DEF GoIInv, GoServer!TypeOK, GoMainInv
<1>3. GoServer!TypeOK' /\ (goMain[r] \in {"listen", "returned"} => done'[r] = done[r])
                     /\ \A q \in Runs \ {r} : done'[q] = done[q]
  <2>1. CASE done' = done /\ (server[r] = "close" => to = "exited")
    BY <1>1, <1>2, <2>1 DEF GoIInv, GoServer!TypeOK
  <2>2. ASSUME server[r] # "close", to # "write", NEW outcome \in GoServer!Outcomes,
               done' = [done EXCEPT ![r] = outcome]
        PROVE  /\ GoServer!TypeOK' /\ (goMain[r] \in {"listen", "returned"} => done'[r] = done[r])
               /\ \A q \in Runs \ {r} : done'[q] = done[q]
    BY <1>1, <1>2, <2>2 DEF GoIInv, GoServer!TypeOK
  <2> QED
    BY <2>1, <2>2
<1>4. GoMainInv'
  <2>1. goMain[r] # "listen" /\ (goMain[r] = "returned" => to = "exited")
    BY <1>2 DEF GoIInv, GoMainInv
  <2>2. goMain[r] = "crashed" => to = "exited"
    BY DEF GoIInv, GoMainInv
  <2> QED
    BY <1>1, <1>3, <2>1, <2>2 DEF GoIInv, GoMainInv
<1>5. GoClientInv'
  BY <1>1 DEF GoIInv, GoClientInv
<1>6. GoResultInv' /\ GoServer!SuccessIsMutual'
  BY <1>1 DEF GoIInv, GoResultInv, GoServer!SuccessIsMutual
<1> QED
  BY <1>3, <1>4, <1>5, <1>6 DEF GoIInv

LEMMA GoGoroutineInv ==
  ASSUME GoIInv, NEW r \in Runs,
         \/ GoServer!AcceptFails(r) \/ GoServer!Handshake(r)
         \/ GoServer!HandshakeFails(r) \/ GoServer!Write(r) \/ GoServer!CloseConn(r)
  PROVE  GoIInv'
BY GoServeInv
   DEF GoServer!AcceptFails, GoServer!Handshake, GoServer!HandshakeFails, GoServer!Write,
       GoServer!CloseConn, GoServer!Serve, GoServer!Send, GoServer!Outcomes,
       GoServer!mainVars, GoServer!clientVars

-----------------------------------------------------------------------------
(* s_client *)

LEMMA GoDialInv == ASSUME GoIInv, NEW r \in Runs, GoServer!Dial(r) PROVE GoIInv'
<1>1. /\ client[r] = "running" /\ target[r] = None /\ port \in Runs
      /\ target' = [target EXCEPT ![r] = port]
      /\ UNCHANGED <<goMain, goResult, port, server, serving, done, client, clientErr,
                     finished, expired>>
  BY DEF GoServer!Dial, GoServer!mainVars, GoServer!serverVars, GoIInv, GoServer!TypeOK
<1>2. port = r \/ goMain[r] = "crashed"
  BY <1>1 DEF GoIInv, GoServer!TypeOK, GoMainInv
<1>3. target'[r] = port /\ \A q \in Runs \ {r} : target'[q] = target[q]
  BY <1>1 DEF GoIInv, GoServer!TypeOK
<1>4. GoServer!TypeOK'
  BY <1>1 DEF GoIInv, GoServer!TypeOK
<1>5. GoMainInv'
  BY <1>1 DEF GoIInv, GoMainInv
<1>6. GoClientInv'
  BY <1>1, <1>2, <1>3 DEF GoIInv, GoClientInv
<1>7. GoResultInv' /\ GoServer!SuccessIsMutual'
  BY <1>1, <1>3 DEF GoIInv, GoResultInv, GoServer!SuccessIsMutual
<1> QED
  BY <1>4, <1>5, <1>6, <1>7 DEF GoIInv

LEMMA GoClientFinishesInv ==
  ASSUME GoIInv, NEW r \in Runs, GoServer!ClientFinishes(r)
  PROVE  GoIInv'
<1>1. /\ client[r] = "running" /\ finished' = [finished EXCEPT ![r] = TRUE]
      /\ target[r] \in Runs /\ serving[target[r]] = r
      /\ UNCHANGED <<goMain, goResult, port, server, serving, done, client, clientErr,
                     target, expired>>
  BY DEF GoServer!ClientFinishes, GoServer!Accepted, GoServer!mainVars, GoServer!serverVars
<1>2. finished'[r] /\ \A q \in Runs \ {r} : finished'[q] = finished[q]
  BY <1>1 DEF GoIInv, GoServer!TypeOK
<1>3. GoServer!TypeOK'
  BY <1>1 DEF GoIInv, GoServer!TypeOK
<1>4. GoMainInv'
  BY <1>1 DEF GoIInv, GoMainInv
<1>5. GoClientInv'
  BY <1>1, <1>2, NoneIsNew DEF GoIInv, GoClientInv
<1>6. GoResultInv' /\ GoServer!SuccessIsMutual'
  BY <1>1, <1>2 DEF GoIInv, GoResultInv, GoServer!SuccessIsMutual
<1> QED
  BY <1>3, <1>4, <1>5, <1>6 DEF GoIInv

LEMMA GoClientStopsInv ==
  ASSUME GoIInv, NEW r \in Runs, NEW err \in BOOLEAN, GoServer!ClientStops(r, err)
  PROVE  GoIInv'
<1>1. /\ client[r] = "running" /\ client' = [client EXCEPT ![r] = "exited"]
      /\ clientErr' = [clientErr EXCEPT ![r] = err]
      /\ UNCHANGED <<goMain, goResult, port, server, serving, done, target, finished,
                     expired>>
  BY DEF GoServer!ClientStops, GoServer!mainVars, GoServer!serverVars
<1>2. /\ client'[r] = "exited"
      /\ \A q \in Runs \ {r} : client'[q] = client[q] /\ clientErr'[q] = clientErr[q]
  BY <1>1 DEF GoIInv, GoServer!TypeOK
<1>3. GoServer!TypeOK'
  BY <1>1 DEF GoIInv, GoServer!TypeOK
<1>4. GoMainInv' /\ GoClientInv'
  BY <1>1, <1>2 DEF GoIInv, GoMainInv, GoClientInv
<1>5. GoResultInv' /\ GoServer!SuccessIsMutual'
  BY <1>1, <1>2 DEF GoIInv, GoResultInv, GoServer!SuccessIsMutual
<1> QED
  BY <1>3, <1>4, <1>5 DEF GoIInv

-----------------------------------------------------------------------------

LEMMA GoStepInv ==
  ASSUME GoIInv, GoServer!Next \/ UNCHANGED goVars
  PROVE  GoIInv'
<1>1. ASSUME NEW r \in Runs,
             GoServer!ClientFails(r) \/ GoServer!ClientExits(r) \/ GoServer!Kill(r)
      PROVE  GoIInv'
  BY <1>1, GoClientStopsInv DEF GoServer!ClientFails, GoServer!ClientExits, GoServer!Kill
<1>2. CASE UNCHANGED goVars
  <2>1. UNCHANGED <<goMain, goResult, port, server, serving, done, client, clientErr,
                    target, finished, expired>>
    BY <1>2 DEF goVars
  <2>2. GoServer!TypeOK'
    BY <2>1 DEF GoIInv, GoServer!TypeOK
  <2>3. GoMainInv' /\ GoClientInv'
    BY <2>1 DEF GoIInv, GoMainInv, GoClientInv
  <2>4. GoResultInv' /\ GoServer!SuccessIsMutual'
    BY <2>1 DEF GoIInv, GoResultInv, GoServer!SuccessIsMutual
  <2> QED
    BY <2>2, <2>3, <2>4 DEF GoIInv
<1> QED
  BY <1>1, <1>2, GoListenInv, GoListenFailsInv, GoExecInv, GoWaitInv, GoReceiveInv, GoExpireInv,
     GoCrashInv, GoAcceptInv, GoGoroutineInv, GoDialInv, GoClientFinishesInv
     DEF GoServer!Next

-----------------------------------------------------------------------------
(* A step is a step of each direction, or leaves it alone *)

LEMMA SSLStep == SSLServer!Next => S!Next
BY DEF
  SSLServer!Next, S!Next, SSLServer!Step, S!Step, SSLServer!Go, S!Go,
  SSLServer!MkdirTemp, S!MkdirTemp, SSLServer!WriteFiles, S!WriteFiles,
  SSLServer!StartServer, S!StartServer, SSLServer!Fail, S!Fail, SSLServer!Leave, S!Leave,
  SSLServer!Kill, S!Kill, SSLServer!Signal, S!Signal, SSLServer!Wait, S!Wait,
  SSLServer!RemoveAll, S!RemoveAll, SSLServer!FreePort, S!FreePort,
  SSLServer!Ports, S!Ports, SSLServer!Port, S!Port,
  SSLServer!Connect, S!Connect, SSLServer!Succeed, S!Succeed, SSLServer!Verifies, S!Verifies,
  SSLServer!Probe, S!Probe, SSLServer!Deadline, S!Deadline, SSLServer!Expire, S!Expire,
  SSLServer!Crash, S!Crash, SSLServer!Bind, S!Bind, SSLServer!Exit, S!Exit,
  SSLServer!serverVars, S!serverVars, SSLServer!timeVars, S!timeVars

LEMMA Steps ==
  [Next]_vars => (GoServer!Next \/ UNCHANGED goVars) /\ (SSLServer!Next \/ UNCHANGED sslVars)
<1> SUFFICES ASSUME [Next]_vars
             PROVE  (GoServer!Next \/ UNCHANGED goVars) /\ (SSLServer!Next \/ UNCHANGED sslVars)
  OBVIOUS
<1>1. CASE UNCHANGED vars
  BY <1>1 DEF vars
<1>2. ASSUME NEW r \in Runs, GenerateCert(r) \/ SecondDirection(r) \/ Deferred(r)
      PROVE  SSLServer!Next /\ UNCHANGED goVars
  BY <1>2 DEF GenerateCert, SecondDirection, Deferred, SSLServer!Next, SSLServer!Step
<1>3. ASSUME NEW r \in Runs, Fail(r) \/ Continue(r)
      PROVE  SSLServer!Next /\ UNCHANGED goVars
  BY <1>3 DEF Fail, Continue, SSLServer!Next
<1>4. ASSUME NEW r \in Runs, FirstDirection(r) \/ Concurrently(r)
      PROVE  GoServer!Next /\ UNCHANGED sslVars
  BY <1>4 DEF FirstDirection, Concurrently, GoServer!Next
<1>5. ASSUME NEW r \in Runs, Crash(r)
      PROVE  SSLServer!Next /\ (GoServer!Next \/ UNCHANGED goVars)
  BY <1>5 DEF Crash, SSLServer!Next, GoServer!Next
<1> QED
  BY <1>1, <1>2, <1>3, <1>4, <1>5 DEF Next

LEMMA DirectionsInv ==
  ASSUME GoIInv, S!IInv, [Next]_vars
  PROVE  GoIInv' /\ S!IInv'
<1>1. GoIInv'
  BY Steps, GoStepInv
<1>2. [S!Next]_S!vars
  BY Steps, SSLStep DEF sslVars, S!vars, S!serverVars, S!timeVars
<1>3. S!IInv'
  BY <1>2, S!Inductive, InteropAssumption
<1> QED
  BY <1>1, <1>3

-----------------------------------------------------------------------------
(* The two directions together *)

\* The first direction begins after the certificate, and has succeeded when
\* the second begins; what was deferred waits for both.
CompAt(r) ==
  /\ main[r] \in {"cert", "files"} => goMain[r] = "listen"
  /\ main[r] \in {"waitForPort", "client", "handshake"} => goResult[r] = "ok"
  /\ main[r] \in {"kill", "wait", "cleanup", "returned"} => goMain[r] \in {"listen", "returned"}
  /\ goMain[r] = "crashed" => main[r] = "crashed"
  /\ child[r] # "none" \/ result[r] = "ok" => goResult[r] = "ok"

CompInv == \A r \in Runs : CompAt(r)

IInv == GoIInv /\ S!IInv /\ CompInv

LEMMA InitInv == Init => IInv
<1> SUFFICES ASSUME Init PROVE IInv
  OBVIOUS
<1>1. GoServer!Init /\ S!Init
  BY DEF Init, SSLServer!Init, S!Init, SSLServer!All, S!All, SSLServer!Ports, S!Ports
<1>2. GoIInv /\ S!IInv
  BY <1>1, GoInitInv, S!InitInv, InteropAssumption
<1>3. CompInv
  BY DEF Init, GoServer!Init, GoServer!All, SSLServer!Init, SSLServer!All, CompInv, CompAt
<1> QED
  BY <1>2, <1>3 DEF IInv

\* What the invariants of the directions say of the variables CompInv is about.
LEMMA Facts ==
  ASSUME GoIInv, S!IInv
  PROVE  \A r \in Runs :
           /\ goResult[r] # "none" => goMain[r] = "returned"
           /\ main[r] \in {"cert", "files", "start"} => child[r] = "none" /\ result[r] # "ok"
           /\ result[r] = "ok" =>
                main[r] \in {"kill", "wait", "cleanup", "returned", "crashed"} /\ peer[r] = r
<1>1. \A r \in Runs : goResult[r] # "none" => goMain[r] = "returned"
  BY DEF GoIInv, GoResultInv
<1>2. \A r \in Runs :
        /\ main[r] \in {"cert", "files", "start"} => child[r] = "none"
        /\ result[r] = "ok" =>
             main[r] \in {"kill", "wait", "cleanup", "returned", "crashed"} /\ peer[r] = r
  BY DEF S!IInv, S!RunInv, S!RunAt
<1> QED
  BY <1>1, <1>2

LEMMA Arrays ==
  ASSUME GoIInv, S!IInv
  PROVE  /\ DOMAIN goMain = Runs /\ DOMAIN goResult = Runs /\ DOMAIN main = Runs
         /\ DOMAIN result = Runs /\ DOMAIN child = Runs
BY DEF GoIInv, GoServer!TypeOK, S!IInv, S!TypeOK

\* A step of run r leaves these variables of the other runs unchanged.
LEMMA Others ==
  ASSUME CompInv, NEW r \in Runs,
         \A q \in Runs \ {r} :
           /\ goMain'[q] = goMain[q] /\ goResult'[q] = goResult[q] /\ main'[q] = main[q]
           /\ result'[q] = result[q] /\ child'[q] = child[q],
         CompAt(r)'
  PROVE  CompInv'
BY DEF CompInv, CompAt

\* A step of main that leaves s_server and the result of the first direction.
LEMMA MainComp ==
  ASSUME IInv, NEW r \in Runs, NEW to, main' = [main EXCEPT ![r] = to],
         \/ UNCHANGED result
         \/ \E outcome \in {"error", "ok"} :
              /\ result' = [result EXCEPT ![r] = outcome]
              /\ outcome = "ok" => goResult[r] = "ok",
         to \in {"cert", "files"} => goMain[r] = "listen",
         to \in {"waitForPort", "client", "handshake"} => goResult[r] = "ok",
         to \in {"kill", "wait", "cleanup", "returned"} => goMain[r] \in {"listen", "returned"},
         main[r] # "crashed", UNCHANGED <<goMain, goResult, child>>
  PROVE  CompInv'
<1>1. main'[r] = to /\ \A q \in Runs \ {r} : main'[q] = main[q]
  BY Arrays DEF IInv
<1>2. /\ \A q \in Runs \ {r} : result'[q] = result[q]
      /\ result'[r] = "ok" => goResult[r] = "ok"
  <2>1. CASE UNCHANGED result
    BY <2>1 DEF IInv, CompInv, CompAt
  <2>2. ASSUME NEW outcome \in {"error", "ok"}, result' = [result EXCEPT ![r] = outcome],
               outcome = "ok" => goResult[r] = "ok"
        PROVE  /\ \A q \in Runs \ {r} : result'[q] = result[q]
               /\ result'[r] = "ok" => goResult[r] = "ok"
    BY <2>2, Arrays DEF IInv
  <2> QED
    BY <2>1, <2>2
<1>3. CompAt(r)'
  BY <1>1, <1>2 DEF IInv, CompInv, CompAt
<1> QED
  BY <1>1, <1>2, <1>3, Others DEF IInv

LEMMA FirstDirectionComp ==
  ASSUME IInv, NEW r \in Runs, FirstDirection(r) PROVE CompInv'
<1>1. main[r] = "start" /\ UNCHANGED sslVars
  BY DEF FirstDirection
<1>2. \A q \in Runs \ {r} : goMain'[q] = goMain[q] /\ goResult'[q] = goResult[q]
  BY Arrays DEF IInv, FirstDirection, GoServer!Listen, GoServer!ListenFails, GoServer!Exec,
                GoServer!Wait, GoServer!Receive, GoServer!Expire, GoServer!Go, GoServer!mainVars
<1>3. goMain'[r] # "crashed"
  BY <1>1, Arrays
     DEF IInv, CompInv, CompAt, FirstDirection, GoServer!Listen, GoServer!ListenFails,
         GoServer!Exec, GoServer!Wait, GoServer!Receive, GoServer!Expire, GoServer!Go,
         GoServer!mainVars
<1>4. child[r] = "none" /\ result[r] # "ok"
  BY <1>1, Facts DEF IInv
<1> QED
  BY <1>1, <1>2, <1>3, <1>4, Others DEF IInv, CompAt, sslVars

LEMMA ConcurrentlyComp ==
  ASSUME IInv, NEW r \in Runs, Concurrently(r) PROVE CompInv'
<1>1. UNCHANGED sslVars /\ UNCHANGED <<goMain, goResult>>
  BY DEF Concurrently, GoServer!Accept, GoServer!AcceptFails, GoServer!Handshake,
         GoServer!HandshakeFails, GoServer!Write, GoServer!CloseConn, GoServer!Dial,
         GoServer!ClientFinishes, GoServer!ClientFails, GoServer!ClientExits, GoServer!Kill,
         GoServer!ClientStops, GoServer!mainVars
<1> QED
  BY <1>1 DEF IInv, CompInv, CompAt, sslVars

LEMMA GenerateCertComp ==
  ASSUME IInv, NEW r \in Runs, GenerateCert(r) PROVE CompInv'
<1>1. /\ main[r] \in {"cert", "files"} /\ UNCHANGED <<goMain, goResult, child>>
      /\ \/ /\ \E to \in {"files", "start"} : main' = [main EXCEPT ![r] = to]
            /\ UNCHANGED result
         \/ /\ main' = [main EXCEPT ![r] = "returned"]
            /\ result' = [result EXCEPT ![r] = "error"]
  BY DEF GenerateCert, SSLServer!MkdirTemp, SSLServer!WriteFiles, SSLServer!Go,
         SSLServer!serverVars, goVars
<1>2. goMain[r] = "listen"
  BY <1>1 DEF IInv, CompInv, CompAt
<1> QED
  BY <1>1, <1>2, MainComp

LEMMA SecondDirectionComp ==
  ASSUME IInv, NEW r \in Runs, SecondDirection(r) PROVE CompInv'
<1>1. /\ goResult[r] = "ok" /\ main[r] = "start"
      /\ main' = [main EXCEPT ![r] = "waitForPort"] /\ child' = [child EXCEPT ![r] = "starting"]
      /\ UNCHANGED <<goMain, goResult, result>>
  BY DEF SecondDirection, SSLServer!StartServer, SSLServer!Go, goVars
<1>2. /\ main'[r] = "waitForPort"
      /\ \A q \in Runs \ {r} : main'[q] = main[q] /\ child'[q] = child[q]
  BY <1>1, Arrays DEF IInv
<1>3. goMain[r] = "returned"
  BY <1>1, Facts DEF IInv
<1>4. CompAt(r)'
  BY <1>1, <1>2, <1>3 DEF CompAt
<1> QED
  BY <1>1, <1>2, <1>4, Others DEF IInv

\* A run in the second direction has returned from the first.
LEMMA InSecond ==
  ASSUME IInv, NEW r \in Runs, main[r] \in {"waitForPort", "client", "handshake"}
  PROVE  goResult[r] = "ok" /\ goMain[r] = "returned"
BY Facts DEF IInv, CompInv, CompAt

\* A return, with the error of the run or with success.
LEMMA LeaveComp ==
  ASSUME IInv, NEW r \in Runs,
         NEW from \in {"files", "start", "waitForPort", "client", "handshake"},
         NEW outcome \in {"error", "ok"}, SSLServer!Leave(r, from, outcome),
         goMain[r] \in {"listen", "returned"}, outcome = "ok" => goResult[r] = "ok",
         UNCHANGED <<goMain, goResult, child>>
  PROVE  CompInv'
<1>1. /\ main[r] = from
      /\ main' = [main EXCEPT ![r] = IF child[r] = "none" THEN "cleanup" ELSE "kill"]
      /\ result' = [result EXCEPT ![r] = outcome]
  BY DEF SSLServer!Leave, SSLServer!Go
<1> QED
  BY <1>1, MainComp

LEMMA FailComp ==
  ASSUME IInv, NEW r \in Runs, Fail(r) PROVE CompInv'
<1>1. /\ main[r] \in {"files", "start", "client", "handshake"}
      /\ SSLServer!Leave(r, main[r], "error")
      /\ main[r] = "start" => goMain[r] = "returned"
      /\ UNCHANGED <<goMain, goResult, child>>
  BY DEF Fail, SSLServer!Fail, SSLServer!serverVars, goVars
<1>2. goMain[r] \in {"listen", "returned"}
  BY <1>1, InSecond DEF IInv, CompInv, CompAt
<1> QED
  BY <1>1, <1>2, LeaveComp

\* A step of s_server, and at most of the main that waits for it.
LEMMA ChildComp ==
  ASSUME IInv, NEW r \in Runs, child[r] # "none", NEW to, child' = [child EXCEPT ![r] = to],
         \/ UNCHANGED main
         \/ main[r] = "kill" /\ main' = [main EXCEPT ![r] = "wait"]
         \/ main[r] = "wait" /\ main' = [main EXCEPT ![r] = "cleanup"],
         UNCHANGED <<goMain, goResult, result>>
  PROVE  CompInv'
<1>1. \A q \in Runs \ {r} : child'[q] = child[q] /\ main'[q] = main[q]
  BY Arrays DEF IInv
<1>2. \/ main'[r] = main[r]
      \/ main[r] = "kill" /\ main'[r] = "wait"
      \/ main[r] = "wait" /\ main'[r] = "cleanup"
  BY Arrays DEF IInv
<1>3. CompAt(r)'
  BY <1>2 DEF IInv, CompInv, CompAt
<1> QED
  BY <1>1, <1>3, Others DEF IInv

\* A signal finds an s_server, or changes nothing.
LEMMA SignalComp ==
  ASSUME IInv, NEW r \in Runs, SSLServer!Signal(r),
         \/ UNCHANGED main
         \/ main[r] = "kill" /\ main' = [main EXCEPT ![r] = "wait"],
         UNCHANGED <<goMain, goResult, result>>
  PROVE  CompInv'
<1> DEFINE to == IF child[r] \in {"starting", "listening"} THEN "killed" ELSE child[r]
<1>1. child' = [child EXCEPT ![r] = to]
  BY DEF SSLServer!Signal
<1>2. CASE child[r] = "none"
  <2>1. child'[r] = child[r] /\ \A q \in Runs \ {r} : child'[q] = child[q]
    BY <1>1, <1>2, Arrays DEF IInv
  <2>2. /\ main'[r] = main[r] \/ (main[r] = "kill" /\ main'[r] = "wait")
        /\ \A q \in Runs \ {r} : main'[q] = main[q]
    BY Arrays DEF IInv
  <2>3. CompAt(r)'
    BY <2>1, <2>2 DEF IInv, CompInv, CompAt
  <2> QED
    BY <2>1, <2>2, <2>3, Others DEF IInv
<1>3. CASE child[r] # "none"
  <2> HIDE DEF to
  <2> QED
    BY <1>1, <1>3, ChildComp
<1> QED
  BY <1>2, <1>3

LEMMA ContinueComp ==
  ASSUME IInv, NEW r \in Runs, Continue(r) PROVE CompInv'
<1>0. UNCHANGED <<goMain, goResult>>
  BY DEF Continue, goVars
<1>1. CASE SSLServer!Probe(r)
  <2>1. main[r] = "waitForPort" /\ UNCHANGED <<result, child>>
    BY <1>1 DEF SSLServer!Probe, SSLServer!serverVars
  <2>2. CASE main' = [main EXCEPT ![r] = "client"]
    BY <1>0, <2>1, <2>2, InSecond, MainComp
  <2>3. CASE UNCHANGED main
    BY <1>0, <2>1, <2>3 DEF IInv, CompInv, CompAt
  <2> QED
    BY <1>1, <2>2, <2>3 DEF SSLServer!Probe, SSLServer!Go
<1>2. CASE SSLServer!Deadline(r)
  <2>1. main[r] = "waitForPort" /\ UNCHANGED child
    BY <1>2 DEF SSLServer!Deadline, SSLServer!Leave, SSLServer!Go, SSLServer!serverVars
  <2>2. CASE SSLServer!Leave(r, "waitForPort", "error")
    BY <1>0, <2>1, <2>2, InSecond, LeaveComp
  <2>3. CASE main' = [main EXCEPT ![r] = "client"] /\ UNCHANGED result
    BY <1>0, <2>1, <2>3, InSecond, MainComp
  <2> QED
    BY <1>2, <2>2, <2>3 DEF SSLServer!Deadline, SSLServer!Go
<1>3. CASE SSLServer!Connect(r)
  <2>1. /\ main[r] = "client" /\ main' = [main EXCEPT ![r] = "handshake"]
        /\ UNCHANGED <<result, child>>
    BY <1>3 DEF SSLServer!Connect, SSLServer!Go, SSLServer!serverVars
  <2> QED
    BY <1>0, <2>1, InSecond, MainComp
<1>4. CASE SSLServer!Succeed(r)
  <2>1. main[r] = "handshake" /\ SSLServer!Leave(r, "handshake", "ok") /\ UNCHANGED child
    BY <1>4 DEF SSLServer!Succeed, SSLServer!serverVars
  <2> QED
    BY <1>0, <2>1, InSecond, LeaveComp
<1>5. CASE SSLServer!Expire(r)
  BY <1>0, <1>5, SignalComp DEF SSLServer!Expire
<1>6. CASE SSLServer!Bind(r) \/ SSLServer!Exit(r)
  BY <1>0, <1>6, ChildComp DEF SSLServer!Bind, SSLServer!Exit
<1> QED
  BY <1>1, <1>2, <1>3, <1>4, <1>5, <1>6 DEF Continue

LEMMA DeferredComp ==
  ASSUME IInv, NEW r \in Runs, Deferred(r) PROVE CompInv'
<1>0. UNCHANGED <<goMain, goResult>>
  BY DEF Deferred, goVars
<1>1. CASE SSLServer!Kill(r)
  BY <1>0, <1>1, SignalComp DEF SSLServer!Kill, SSLServer!Go
<1>2. CASE SSLServer!Wait(r)
  BY <1>0, <1>2, ChildComp DEF SSLServer!Wait, SSLServer!Go
<1>3. CASE SSLServer!RemoveAll(r)
  <2>1. /\ main[r] = "cleanup" /\ main' = [main EXCEPT ![r] = "returned"]
        /\ UNCHANGED <<result, child>>
    BY <1>3 DEF SSLServer!RemoveAll, SSLServer!Go, SSLServer!serverVars
  <2>2. goMain[r] \in {"listen", "returned"}
    BY <2>1 DEF IInv, CompInv, CompAt
  <2> QED
    BY <1>0, <2>1, <2>2, MainComp
<1> QED
  BY <1>1, <1>2, <1>3 DEF Deferred

LEMMA CrashComp ==
  ASSUME IInv, NEW r \in Runs, Crash(r) PROVE CompInv'
<1>1. /\ main[r] \notin {"cert", "returned", "crashed"}
      /\ main' = [main EXCEPT ![r] = "crashed"]
      /\ UNCHANGED <<result, child, goResult>>
  BY DEF Crash, SSLServer!Crash, SSLServer!serverVars, GoServer!Crash, goVars
<1>2. main'[r] = "crashed" /\ \A q \in Runs \ {r} : main'[q] = main[q] /\ goMain'[q] = goMain[q]
  BY <1>1, Arrays DEF IInv, Crash, GoServer!Crash, goVars
<1>3. CompAt(r)'
  BY <1>1, <1>2 DEF IInv, CompInv, CompAt
<1> QED
  BY <1>1, <1>2, <1>3, Others DEF IInv

LEMMA Inductive == IInv /\ [Next]_vars => IInv'
<1> SUFFICES ASSUME IInv, [Next]_vars PROVE IInv'
  OBVIOUS
<1>1. GoIInv' /\ S!IInv'
  BY DirectionsInv DEF IInv
<1>2. CompInv'
  <2>1. CASE UNCHANGED vars
    BY <2>1 DEF vars, goVars, sslVars, IInv, CompInv, CompAt
  <2> QED
    BY <2>1, GenerateCertComp, FirstDirectionComp, ConcurrentlyComp, SecondDirectionComp,
       FailComp, ContinueComp, DeferredComp, CrashComp DEF Next
<1> QED
  BY <1>1, <1>2 DEF IInv

LEMMA Invariant == Spec => []IInv
BY InitInv, Inductive, PTL DEF Spec

-----------------------------------------------------------------------------
(* The properties *)

LEMMA FirstDirectionIsOver ==
  ASSUME IInv, NEW r \in Runs, FirstDirectionLeft(r)
  PROVE  goMain[r] \notin {"listen", "returned"}
<1>1. /\ port = r <=> goMain[r] \in {"exec", "wait", "receive"}
      /\ goMain[r] = "listen" => server[r] = "none" /\ client[r] = "none"
      /\ goMain[r] = "returned" =>
           client[r] # "running" /\ server[r] \in {"none", "close", "exited"}
      /\ goMain[r] \in {"listen", "returned"} => done[r] = None
  BY DEF IInv, GoIInv, GoMainInv
<1> QED
  BY <1>1 DEF FirstDirectionLeft

\* The two directions keep the types of their own modules, the first begins
\* after the certificate, and the second after the first succeeded
\* (interoptls.go:41-51).
THEOREM TypeCorrect == Spec => []TypeOK
<1>1. IInv => TypeOK
  <2> SUFFICES ASSUME IInv PROVE TypeOK
    OBVIOUS
  <2>1. GoServer!TypeOK
    BY DEF IInv, GoIInv, GoServer!TypeOK, GoServer!Outcomes
  <2>2. SSLServer!TypeOK
    BY DEF IInv, S!IInv, S!TypeOK, SSLServer!TypeOK, S!Ports, SSLServer!Ports, S!Port,
           SSLServer!Port
  <2>3. \A r \in Runs :
          /\ goMain[r] # "listen" => main[r] \notin {"cert", "files"}
          /\ child[r] # "none" => goResult[r] = "ok"
    BY DEF IInv, CompInv, CompAt
  <2> QED
    BY <2>1, <2>2, <2>3 DEF TypeOK
<1> QED
  BY <1>1, Invariant, PTL

\* interop-tls succeeds only if both directions did, each between the two sides
\* of this run, whatever other runs and killed ones do (interoptls.go:48-54).
THEOREM Both == Spec => []BothDirections
<1>1. IInv => BothDirections
  <2> SUFFICES ASSUME IInv PROVE BothDirections
    OBVIOUS
  <2>1. GoServer!SuccessIsMutual
    BY DEF IInv, GoIInv, GoServer!SuccessIsMutual
  <2>2. \A r \in Runs : result[r] = "ok" => goResult[r] = "ok" /\ peer[r] = r
    BY Facts DEF IInv, CompInv, CompAt
  <2> QED
    BY <2>1, <2>2 DEF BothDirections
<1> QED
  BY <1>1, Invariant, PTL

\* The second direction starts, and the demo returns, when of the first at most
\* the goroutine's conn.Close is still to come (interoptls.go:48-51, 89, 114).
THEOREM NothingCarried == Spec => []NothingCarriedOver
<1>1. IInv => NothingCarriedOver
  <2> SUFFICES ASSUME IInv, NEW r \in Runs,
                      main[r] \in {"waitForPort", "client", "handshake", "returned"}
               PROVE  ~FirstDirectionLeft(r)
    BY DEF NothingCarriedOver
  <2>1. goMain[r] \in {"listen", "returned"}
    BY InSecond DEF IInv, CompInv, CompAt
  <2> QED
    BY <2>1, FirstDirectionIsOver
<1> QED
  BY <1>1, Invariant, PTL

\* Each direction runs as its own module specifies it: between the certificate
\* and the return, runInteropTLSDemo takes no step that its two functions would
\* not take alone (interoptls.go:41-54).
THEOREM Directions == Spec => GoServer!Spec /\ SSLServer!Spec
<1>1. Init => GoServer!Init /\ SSLServer!Init
  BY DEF Init
<1>2. [Next]_vars => [GoServer!Next]_(GoServer!vars)
  BY Steps DEF goVars, GoServer!vars, GoServer!mainVars, GoServer!serverVars, GoServer!clientVars
<1>3. [Next]_vars => [SSLServer!Next]_(SSLServer!vars)
  BY Steps DEF sslVars, SSLServer!vars, SSLServer!serverVars, SSLServer!timeVars
<1> QED
  BY <1>1, <1>2, <1>3, PTL DEF Spec, GoServer!Spec, SSLServer!Spec
=============================================================================
