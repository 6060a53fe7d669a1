----------------------------- MODULE CertDemos -----------------------------
(***************************************************************************)
(* "pqlab demo cert-migration" (cmd/pqlab/certmigration.go) and "pqlab     *)
(* demo ca-rotation" (cmd/pqlab/carotation.go): sequences of openssl       *)
(* commands on the files of a temporary directory, each of which may fail, *)
(* followed or interleaved by verifications with an expected verdict.      *)
(*                                                                         *)
(* openssl is external: what a command reads and writes is modelled by the *)
(* data that decide whether a chain verifies.  A key is named by the step  *)
(* that generated it.  req -x509 makes a CA certificate, by its            *)
(* configuration or by -addext.                                            *)
(***************************************************************************)
EXTENDS Naturals, Sequences

CONSTANTS
  Rotations,  \* runs of ca-rotation
  Migrations  \* runs of cert-migration

Runs == Rotations \union Migrations

VARIABLES
  step,      \* step[r]: the next command of run r
  state,     \* state[r]: "start", "running", "crashed", or what it returns
  dir,       \* dir[r]: the temporary directory exists
  fs,        \* fs[r]: the .key, .csr and .crt files written, by base name
  verdicts,  \* verdicts[r]: verified = true or false, by the step of the check
  faulty     \* faulty[r]: the steps whose command failed although it could have run

vars == <<step, state, dir, fs, verdicts, faulty>>

-----------------------------------------------------------------------------
(* The two sequences of commands *)

CreateCA(name) == [do |-> "createCA", name |-> name]
Request(name, key, ca) == [do |-> "request", name |-> name, key |-> key, ca |-> ca]
Issue(name, csr, by, copy) == [do |-> "issue", name |-> name, csr |-> csr, by |-> by, copy |-> copy]
Bundle(name, of) == [do |-> "bundle", name |-> name, of |-> of]
Check(crt, caFile, want) == [do |-> "check", crt |-> crt, caFile |-> caFile, want |-> want]

IssueLeaf(name, ca) == <<Request(name, "new", FALSE), Issue(name, name, ca, FALSE)>>

Migration ==
  <<CreateCA("ca")>>
    \o IssueLeaf("ed25519", "ca") \o <<Check("ed25519", "ca", TRUE)>>
    \o IssueLeaf("mldsa65", "ca") \o <<Check("mldsa65", "ca", TRUE)>>

\* Mutant: the request for the cross-certificate generates a key of its own.
CrossRequestNewKey == Request("new-ca", "new", TRUE)

\* For the new CA's own key, with the extensions of a CA.
CrossRequest == Request("new-ca", "new-ca", TRUE)

\* Mutant: without -copy_extensions.
CrossIssueBare == Issue("cross", "new-ca", "old-ca", FALSE)

CrossIssue == Issue("cross", "new-ca", "old-ca", TRUE)

\* Mutant: the bundle is written over the old CA's certificate.
BundleOverOldCA == "old-ca"

OldTrustBundle == "old-trust-bundle"

Rotation ==
  <<CreateCA("old-ca")>> \o IssueLeaf("legacy-leaf", "old-ca")
    \o <<CreateCA("new-ca"), CrossRequest, CrossIssue,
         Bundle(OldTrustBundle, <<"cross", "old-ca">>)>>
    \o IssueLeaf("new-leaf", "new-ca")
    \o <<Check("legacy-leaf", "old-ca", TRUE), Check("new-leaf", "old-ca", FALSE),
         Check("new-leaf", "new-ca", TRUE), Check("new-leaf", OldTrustBundle, TRUE)>>

Script(r) == IF r \in Rotations THEN Rotation ELSE Migration

Command(r) == Script(r)[step[r]]

-----------------------------------------------------------------------------
(* openssl verify *)

IssuedBy(c, i) == c.issuer = i.subject /\ c.signer = i.key /\ i.ca

\* A chain may stop at a self-signed certificate of the trust file.
ClosedUnderIssue(S, pool) ==
  /\ \A c \in pool : IssuedBy(c, c) => c \in S
  /\ \A c \in pool, i \in S : IssuedBy(c, i) => c \in S

\* The certificates of a trust file from which a chain leads to a self-signed
\* one: the fewest such a set can hold.
Anchored(trust) ==
  LET pool == {trust[i] : i \in DOMAIN trust}
  IN  {c \in pool : \A S \in SUBSET pool : ClosedUnderIssue(S, pool) => c \in S}

Verifies(r, crt, caFile) == \E i \in Anchored(fs[r].crt[caFile]) : IssuedBy(fs[r].crt[crt][1], i)

-----------------------------------------------------------------------------

All(v) == [r \in Runs |-> v]

\* f with v written under n
Written(f, n, v) == [m \in DOMAIN f \union {n} |-> IF m = n THEN v ELSE f[m]]

Init ==
  /\ step = All(1) /\ state = All("start") /\ dir = All(FALSE)
  /\ fs = All([key |-> <<>>, csr |-> <<>>, crt |-> <<>>])
  /\ verdicts = All(<<>>) /\ faulty = All({})

At(r, command) == state[r] = "running" /\ Command(r).do = command

\* A return; the deferred call is still to come.
End(r, result) == state' = [state EXCEPT ![r] = result] /\ UNCHANGED dir

\* To the next command, or to return nil.
Advance(r) ==
  /\ step' = [step EXCEPT ![r] = @ + 1]
  /\ IF step[r] = Len(Script(r)) THEN End(r, "ok") ELSE UNCHANGED <<state, dir>>

MkdirTemp(r) ==
  /\ state[r] = "start"
  /\ \/ /\ state' = [state EXCEPT ![r] = "running"]
        /\ dir' = [dir EXCEPT ![r] = TRUE]
        /\ UNCHANGED faulty
     \/ End(r, "error") /\ faulty' = [faulty EXCEPT ![r] = {0}]
  /\ UNCHANGED <<step, fs, verdicts>>

\* openssl req -x509
DoCreateCA(r) ==
  LET n    == Command(r).name
      cert == [subject |-> n, key |-> step[r], issuer |-> n, signer |-> step[r], ca |-> TRUE]
  IN  /\ At(r, "createCA")
      /\ fs' = [fs EXCEPT ![r].key = Written(@, n, step[r]), ![r].crt = Written(@, n, <<cert>>)]
      /\ Advance(r)
      /\ UNCHANGED <<verdicts, faulty>>

\* openssl req -new, with -newkey or for an existing key
DoRequest(r) ==
  LET c   == Command(r)
      key == IF c.key = "new" THEN step[r] ELSE fs[r].key[c.key]
      csr == [subject |-> c.name, key |-> key, ca |-> c.ca]
  IN  /\ At(r, "request")
      /\ fs' = [fs EXCEPT ![r].key = Written(@, c.name, key), ![r].csr = Written(@, c.name, csr)]
      /\ Advance(r)
      /\ UNCHANGED <<verdicts, faulty>>

\* openssl x509 -req refuses a CA certificate of another key.
CanIssue(r) ==
  At(r, "issue") /\ fs[r].crt[Command(r).by][1].key = fs[r].key[Command(r).by]

DoIssue(r) ==
  LET c    == Command(r)
      csr  == fs[r].csr[c.csr]
      cert == [subject |-> csr.subject, key |-> csr.key, issuer |-> fs[r].crt[c.by][1].subject,
               signer |-> fs[r].key[c.by], ca |-> c.copy /\ csr.ca]
  IN  /\ CanIssue(r)
      /\ fs' = [fs EXCEPT ![r].crt = Written(@, c.name, <<cert>>)]
      /\ Advance(r)
      /\ UNCHANGED <<verdicts, faulty>>

\* concatFiles
DoBundle(r) ==
  LET c == Command(r)
  IN  /\ At(r, "bundle")
      /\ fs' = [fs EXCEPT ![r].crt = Written(@, c.name, @[c.of[1]] \o @[c.of[2]])]
      /\ Advance(r)
      /\ UNCHANGED <<verdicts, faulty>>

\* Mutant: an unexpected verdict is printed, and the run goes on.
JudgeLeniently(r, verified) ==
  verdicts' = [verdicts EXCEPT ![r] = Written(@, step[r], verified)] /\ Advance(r)

Judge(r, verified) ==
  /\ verdicts' = [verdicts EXCEPT ![r] = Written(@, step[r], verified)]
  /\ IF verified = Command(r).want THEN Advance(r)
     ELSE End(r, "error") /\ UNCHANGED step

DoCheck(r) ==
  LET c == Command(r)
  IN  /\ At(r, "check")
      /\ Judge(r, Verifies(r, c.crt, c.caFile))
      /\ UNCHANGED <<fs, faulty>>

\* openssl verify does not run, or ends without a verdict: not verified.
CheckFaults(r) ==
  /\ At(r, "check")
  /\ Judge(r, FALSE)
  /\ faulty' = [faulty EXCEPT ![r] = @ \union {step[r]}]
  /\ UNCHANGED fs

\* Any other command that fails ends the demo.
Fails(r) ==
  /\ state[r] = "running" /\ Command(r).do # "check"
  /\ End(r, "error")
  /\ faulty' = [faulty EXCEPT ![r] =
                  IF At(r, "issue") /\ ~CanIssue(r) THEN @ ELSE @ \union {step[r]}]
  /\ UNCHANGED <<step, fs, verdicts>>

\* Deferred: os.RemoveAll.
RemoveAll(r) ==
  /\ state[r] \in {"ok", "error"} /\ dir[r]
  /\ dir' = [dir EXCEPT ![r] = FALSE]
  /\ UNCHANGED <<step, state, fs, verdicts, faulty>>

\* A killed run leaves its directory.
Crash(r) ==
  /\ state[r] # "crashed" /\ dir[r]
  /\ state' = [state EXCEPT ![r] = "crashed"]
  /\ UNCHANGED <<step, dir, fs, verdicts, faulty>>

Next ==
  \E r \in Runs :
    \/ MkdirTemp(r) \/ DoCreateCA(r) \/ DoRequest(r) \/ DoIssue(r) \/ DoBundle(r)
    \/ DoCheck(r) \/ CheckFaults(r) \/ Fails(r) \/ RemoveAll(r) \/ Crash(r)

Spec == Init /\ [][Next]_vars

-----------------------------------------------------------------------------
(* Properties *)

ChecksBefore(r) == {i \in 1 .. step[r] - 1 : Script(r)[i].do = "check"}

\* Type invariant; a command finds the directory, and a run that still goes on,
\* or ended well, has the expected verdict of every check behind it
\* (carotation.go:33-37, 131-133).
TypeOK ==
  /\ \A r \in Runs : step[r] \in 1 .. Len(Script(r)) + 1
  /\ state \in [Runs -> {"start", "running", "ok", "error", "crashed"}]
  /\ dir \in [Runs -> BOOLEAN] /\ faulty \in [Runs -> SUBSET Nat]
  /\ \A r \in Runs : state[r] = "running" => dir[r]
  /\ \A r \in Runs : state[r] \in {"running", "ok"} =>
       verdicts[r] = [i \in ChecksBefore(r) |-> Script(r)[i].want]

\* A demo fails only when a command it ran failed by itself: the sequence alone
\* gives every certificate a chain, or none, as its checks expect
\* (certmigration.go:23-28, carotation.go:20-31, 76-120).
OnlyFaultsFail == \A r \in Runs : state[r] = "error" => faulty[r] # {}

\* No command leaves a certificate beside a key that is not its own, so that
\* what is issued or requested with the pair is valid (carotation.go:65-88,
\* certmigration.go:63-69).
KeysFitCertificates ==
  \A r \in Runs : \A n \in DOMAIN fs[r].key :
    /\ n \in DOMAIN fs[r].crt => fs[r].crt[n][1].key = fs[r].key[n]
    /\ n \in DOMAIN fs[r].csr => fs[r].csr[n].key = fs[r].key[n]

\* A demo that succeeds shows what is so: every certificate it reports has a
\* chain in the trust file of its check, or none, as the check expects, also when
\* a verification failed by itself (carotation.go:20-31, 120-135).
ClaimsHold ==
  \A r \in Runs : state[r] = "ok" =>
    \A i \in DOMAIN Script(r) :
      LET c == Script(r)[i] IN c.do = "check" => Verifies(r, c.crt, c.caFile) = c.want
=============================================================================
