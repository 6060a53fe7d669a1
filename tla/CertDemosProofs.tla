-------------------------- MODULE CertDemosProofs --------------------------
(***************************************************************************)
(* The inductive invariant of CertDemos, for any number of runs: the step  *)
(* a run has reached tells every file of its directory.  A file is written *)
(* with one content, so that each check judges, at its step and at the     *)
(* end, the certificates the sequence of commands is meant to give.        *)
(***************************************************************************)
EXTENDS CertDemos, SequenceTheorems, TLAPS

-----------------------------------------------------------------------------
(* The sequences *)

LEMMA RotationIs ==
  /\ Len(Rotation) = 13
  /\ Rotation[1] = CreateCA("old-ca")
  /\ Rotation[2] = Request("legacy-leaf", "new", FALSE)
  /\ Rotation[3] = Issue("legacy-leaf", "legacy-leaf", "old-ca", FALSE)
  /\ Rotation[4] = CreateCA("new-ca")
  /\ Rotation[5] = CrossRequest
  /\ Rotation[6] = CrossIssue
  /\ Rotation[7] = Bundle(OldTrustBundle, <<"cross", "old-ca">>)
  /\ Rotation[8] = Request("new-leaf", "new", FALSE)
  /\ Rotation[9] = Issue("new-leaf", "new-leaf", "new-ca", FALSE)
  /\ Rotation[10] = Check("legacy-leaf", "old-ca", TRUE)
  /\ Rotation[11] = Check("new-leaf", "old-ca", FALSE)
  /\ Rotation[12] = Check("new-leaf", "new-ca", TRUE)
  /\ Rotation[13] = Check("new-leaf", OldTrustBundle, TRUE)
<1>1. PICK c1, c2, c3, c4, c5, c6, c7, c8, c9, c10, c11, c12, c13 :
        /\ c1 = CreateCA("old-ca")
        /\ c2 = Request("legacy-leaf", "new", FALSE)
        /\ c3 = Issue("legacy-leaf", "legacy-leaf", "old-ca", FALSE)
        /\ c4 = CreateCA("new-ca")
        /\ c5 = CrossRequest
        /\ c6 = CrossIssue
        /\ c7 = Bundle(OldTrustBundle, <<"cross", "old-ca">>)
        /\ c8 = Request("new-leaf", "new", FALSE)
        /\ c9 = Issue("new-leaf", "new-leaf", "new-ca", FALSE)
        /\ c10 = Check("legacy-leaf", "old-ca", TRUE)
        /\ c11 = Check("new-leaf", "old-ca", FALSE)
        /\ c12 = Check("new-leaf", "new-ca", TRUE)
        /\ c13 = Check("new-leaf", OldTrustBundle, TRUE)
  BY Zenon
<1>2. Rotation = <<c1>> \o <<c2, c3>> \o <<c4, c5, c6, c7>> \o <<c8, c9>> \o <<c10, c11, c12, c13>>
  BY <1>1, Zenon DEF Rotation, IssueLeaf
<1>3. /\ Len(Rotation) = 13
      /\ Rotation[1] = c1 /\ Rotation[2] = c2 /\ Rotation[3] = c3 /\ Rotation[4] = c4
      /\ Rotation[5] = c5 /\ Rotation[6] = c6 /\ Rotation[7] = c7 /\ Rotation[8] = c8
      /\ Rotation[9] = c9 /\ Rotation[10] = c10 /\ Rotation[11] = c11 /\ Rotation[12] = c12
      /\ Rotation[13] = c13
  BY <1>2
<1> QED
  BY <1>1, <1>3

LEMMA MigrationIs ==
  /\ Len(Migration) = 7
  /\ Migration[1] = CreateCA("ca")
  /\ Migration[2] = Request("ed25519", "new", FALSE)
  /\ Migration[3] = Issue("ed25519", "ed25519", "ca", FALSE)
  /\ Migration[4] = Check("ed25519", "ca", TRUE)
  /\ Migration[5] = Request("mldsa65", "new", FALSE)
  /\ Migration[6] = Issue("mldsa65", "mldsa65", "ca", FALSE)
  /\ Migration[7] = Check("mldsa65", "ca", TRUE)
<1>1. PICK c1, c2, c3, c4, c5, c6, c7 :
        /\ c1 = CreateCA("ca")
        /\ c2 = Request("ed25519", "new", FALSE)
        /\ c3 = Issue("ed25519", "ed25519", "ca", FALSE)
        /\ c4 = Check("ed25519", "ca", TRUE)
        /\ c5 = Request("mldsa65", "new", FALSE)
        /\ c6 = Issue("mldsa65", "mldsa65", "ca", FALSE)
        /\ c7 = Check("mldsa65", "ca", TRUE)
  BY Zenon
<1>2. Migration = <<c1>> \o <<c2, c3>> \o <<c4>> \o <<c5, c6>> \o <<c7>>
  BY <1>1, Zenon DEF Migration, IssueLeaf
<1>3. /\ Len(Migration) = 7
      /\ Migration[1] = c1 /\ Migration[2] = c2 /\ Migration[3] = c3 /\ Migration[4] = c4
      /\ Migration[5] = c5 /\ Migration[6] = c6 /\ Migration[7] = c7
  BY <1>2
<1> QED
  BY <1>1, <1>3

-----------------------------------------------------------------------------
(* The files a run has written, by the step it has reached *)

CAs == {"old-ca", "new-ca", "ca"}

\* The names of the certificate files of a run, of those that have a key, and of
\* those that have a request.
Names(r) == IF r \in Rotations
            THEN {"old-ca", "legacy-leaf", "new-ca", "cross", "old-trust-bundle", "new-leaf"}
            ELSE {"ca", "ed25519", "mldsa65"}
KeyNames(r) == Names(r) \ {"cross", "old-trust-bundle"}
CsrNames(r) == Names(r) \ {"cross", "old-trust-bundle", "old-ca", "ca"}

\* The step that writes a file; a key is named by its step.
KeyStep(x) == IF x \in {"old-ca", "ca"} THEN 1
              ELSE IF x \in {"legacy-leaf", "ed25519"} THEN 2
              ELSE IF x = "new-ca" THEN 4
              ELSE IF x = "mldsa65" THEN 5 ELSE 8
CsrStep(x) == IF x \in {"legacy-leaf", "ed25519"} THEN 2
              ELSE IF x \in {"new-ca", "mldsa65"} THEN 5 ELSE 8
CrtStep(x) == IF x \in {"old-ca", "ca"} THEN 1
              ELSE IF x \in {"legacy-leaf", "ed25519"} THEN 3
              ELSE IF x = "new-ca" THEN 4
              ELSE IF x \in {"cross", "mldsa65"} THEN 6
              ELSE IF x = "old-trust-bundle" THEN 7 ELSE 9

Csr(x) == [subject |-> x, key |-> KeyStep(x), ca |-> IF x = "new-ca" THEN TRUE ELSE FALSE]

Certificate(subject, issuer, ca) ==
  [subject |-> subject, key |-> KeyStep(subject), issuer |-> issuer, signer |-> KeyStep(issuer),
   ca |-> ca]

Cross == Certificate("new-ca", "old-ca", TRUE)

Issuer(x) == IF x = "legacy-leaf" THEN "old-ca" ELSE IF x = "new-leaf" THEN "new-ca" ELSE "ca"

Crt(x) == IF x \in CAs THEN <<Certificate(x, x, TRUE)>>
          ELSE IF x = "cross" THEN <<Cross>>
          ELSE IF x = "old-trust-bundle" THEN <<Cross, Certificate("old-ca", "old-ca", TRUE)>>
          ELSE <<Certificate(x, Issuer(x), FALSE)>>

Keys(r, n) == [x \in {y \in KeyNames(r) : KeyStep(y) < n} |-> KeyStep(x)]
Csrs(r, n) == [x \in {y \in CsrNames(r) : CsrStep(y) < n} |-> Csr(x)]
Crts(r, n) == [x \in {y \in Names(r) : CrtStep(y) < n} |-> Crt(x)]

-----------------------------------------------------------------------------
(* What each command reads has been written, and what it writes is new *)

LEMMA StepsAreNumbers == \A x : KeyStep(x) \in Nat /\ CsrStep(x) \in Nat /\ CrtStep(x) \in Nat
BY DEF KeyStep, CsrStep, CrtStep

LEMMA StepsDiffer ==
  ASSUME NEW r \in Runs
  PROVE  /\ \A x, y \in KeyNames(r) : KeyStep(x) = KeyStep(y) => x = y
         /\ \A x, y \in CsrNames(r) : CsrStep(x) = CsrStep(y) => x = y
         /\ \A x, y \in Names(r) : CrtStep(x) = CrtStep(y) => x = y
<1>1. CASE r \in Rotations
  BY <1>1 DEF Names, KeyNames, CsrNames, KeyStep, CsrStep, CrtStep
<1>2. CASE r \notin Rotations
  BY <1>2 DEF Names, KeyNames, CsrNames, KeyStep, CsrStep, CrtStep
<1> QED
  BY <1>1, <1>2

\* The script of a run, command by command.
NoKey(r, n) == \A x \in KeyNames(r) : KeyStep(x) # n
NoCsr(r, n) == \A x \in CsrNames(r) : CsrStep(x) # n
NoCrt(r, n) == \A x \in Names(r) : CrtStep(x) # n

CreatesCA(r, n, c) ==
  /\ c.name \in CAs /\ c.name \in KeyNames(r)
  /\ KeyStep(c.name) = n /\ CrtStep(c.name) = n /\ NoCsr(r, n)

Requests(r, n, c) ==
  /\ c.name \in CsrNames(r) /\ CsrStep(c.name) = n /\ NoCrt(r, n)
  /\ \/ c.ca = TRUE /\ c.name = "new-ca"
     \/ c.ca = FALSE /\ c.name # "new-ca"
  /\ \/ c.key = "new" /\ KeyStep(c.name) = n
     \/ c.key # "new" /\ c.key = c.name /\ KeyStep(c.name) < n /\ NoKey(r, n)

IssuesCrt(c) ==
  \/ c.copy = FALSE /\ Crt(c.name) = <<Certificate(c.csr, c.by, FALSE)>>
  \/ c.copy = TRUE /\ c.csr = "new-ca" /\ Crt(c.name) = <<Certificate(c.csr, c.by, TRUE)>>

Issues(r, n, c) ==
  /\ c.name \in Names(r) /\ CrtStep(c.name) = n /\ NoKey(r, n) /\ NoCsr(r, n)
  /\ c.csr \in CsrNames(r) /\ CsrStep(c.csr) < n
  /\ c.by \in CAs /\ c.by \in KeyNames(r) /\ KeyStep(c.by) < n /\ CrtStep(c.by) < n
  /\ IssuesCrt(c)

Bundles(r, n, c) ==
  /\ c.name \in Names(r) /\ CrtStep(c.name) = n /\ NoKey(r, n) /\ NoCsr(r, n)
  /\ \A i \in {1, 2} : c.of[i] \in Names(r) /\ CrtStep(c.of[i]) < n
  /\ Crt(c.name) = Crt(c.of[1]) \o Crt(c.of[2])

Checks(r, n, c) ==
  /\ c.crt \in Names(r) /\ c.caFile \in Names(r) /\ CrtStep(c.crt) < n /\ CrtStep(c.caFile) < n
  /\ \/ c.crt = "legacy-leaf" /\ c.caFile = "old-ca" /\ c.want = TRUE
     \/ c.crt = "new-leaf" /\ c.caFile = "old-ca" /\ c.want = FALSE
     \/ c.crt = "new-leaf" /\ c.caFile \in {"new-ca", "old-trust-bundle"} /\ c.want = TRUE
     \/ c.crt \in {"ed25519", "mldsa65"} /\ c.caFile = "ca" /\ c.want = TRUE
  /\ NoKey(r, n) /\ NoCsr(r, n) /\ NoCrt(r, n)

IsCommand(r, n, c) ==
  \/ c.do = "createCA" /\ CreatesCA(r, n, c)
  \/ c.do = "request" /\ Requests(r, n, c)
  \/ c.do = "issue" /\ Issues(r, n, c)
  \/ c.do = "bundle" /\ Bundles(r, n, c)
  \/ c.do = "check" /\ Checks(r, n, c)

LEMMA RotationTimes ==
  ASSUME NEW r \in Rotations, NEW n \in 1 .. 13
  PROVE  /\ n \notin {1, 2, 4, 8} => NoKey(r, n)
         /\ n \notin {2, 5, 8} => NoCsr(r, n)
         /\ n \notin {1, 3, 4, 6, 7, 9} => NoCrt(r, n)
BY DEF NoKey, NoCsr, NoCrt, Names, KeyNames, CsrNames, KeyStep, CsrStep, CrtStep

LEMMA MigrationTimes ==
  ASSUME NEW r, r \notin Rotations, NEW n \in 1 .. 7
  PROVE  /\ n \notin {1, 2, 5} => NoKey(r, n)
         /\ n \notin {2, 5} => NoCsr(r, n)
         /\ n \notin {1, 3, 6} => NoCrt(r, n)
BY DEF NoKey, NoCsr, NoCrt, Names, KeyNames, CsrNames, KeyStep, CsrStep, CrtStep

LEMMA RotationCommands ==
  ASSUME NEW r \in Rotations, NEW n \in 1 .. 13
  PROVE  IsCommand(r, n, Rotation[n])
<1> DEFINE c == Rotation[n]
<1> USE RotationTimes DEF Names, KeyNames, CsrNames, CAs
<1>1. CASE n \in {1, 4}
  <2>1. c.do = "createCA" /\ c.name = IF n = 1 THEN "old-ca" ELSE "new-ca"
    BY <1>1, RotationIs DEF CreateCA
  <2> HIDE DEF c
  <2>2. CreatesCA(r, n, c)
    BY <1>1, <2>1 DEF CreatesCA, KeyStep, CrtStep
  <2> QED
    BY <2>1, <2>2 DEF IsCommand, c
<1>2. CASE n \in {2, 8}
  <2>1. /\ c.do = "request" /\ c.key = "new" /\ c.ca = FALSE
        /\ c.name = IF n = 2 THEN "legacy-leaf" ELSE "new-leaf"
    BY <1>2, RotationIs DEF Request
  <2> HIDE DEF c
  <2>2. Requests(r, n, c)
    BY <1>2, <2>1 DEF Requests, KeyStep, CsrStep
  <2> QED
    BY <2>1, <2>2 DEF IsCommand, c
<1>3. CASE n = 5
  <2>1. c.do = "request" /\ c.key = "new-ca" /\ c.ca = TRUE /\ c.name = "new-ca"
    BY <1>3, RotationIs DEF CrossRequest, Request
  <2> HIDE DEF c
  <2>2. Requests(r, n, c)
    BY <1>3, <2>1 DEF Requests, KeyStep, CsrStep
  <2> QED
    BY <2>1, <2>2 DEF IsCommand, c
<1>4. CASE n \in {3, 9}
  <2>1. /\ c.do = "issue" /\ c.csr = c.name /\ c.copy = FALSE
        /\ c.name = IF n = 3 THEN "legacy-leaf" ELSE "new-leaf"
        /\ c.by = IF n = 3 THEN "old-ca" ELSE "new-ca"
    BY <1>4, RotationIs DEF Issue
  <2> HIDE DEF c
  <2>2. Crt(c.name) = <<Certificate(c.csr, c.by, FALSE)>>
    BY <1>4, <2>1 DEF Crt, Issuer
  <2>3. IssuesCrt(c)
    BY <2>1, <2>2, Zenon DEF IssuesCrt
  <2>4. Issues(r, n, c)
    BY <1>4, <2>1, <2>3 DEF Issues, KeyStep, CsrStep, CrtStep
  <2> QED
    BY <2>1, <2>4 DEF IsCommand, c
<1>5. CASE n = 6
  <2>1. c.do = "issue" /\ c.name = "cross" /\ c.csr = "new-ca" /\ c.by = "old-ca" /\ c.copy = TRUE
    BY <1>5, RotationIs DEF CrossIssue, Issue
  <2> HIDE DEF c
  <2>2. Crt(c.name) = <<Certificate(c.csr, c.by, TRUE)>>
    BY <2>1 DEF Crt, Cross
  <2>3. IssuesCrt(c)
    BY <2>1, <2>2, Zenon DEF IssuesCrt
  <2>4. Issues(r, n, c)
    BY <1>5, <2>1, <2>3 DEF Issues, KeyStep, CsrStep, CrtStep
  <2> QED
    BY <2>1, <2>4 DEF IsCommand, c
<1>6. CASE n = 7
  <2>1. /\ c.do = "bundle" /\ c.name = "old-trust-bundle"
        /\ c.of[1] = "cross" /\ c.of[2] = "old-ca"
    BY <1>6, RotationIs DEF Bundle, OldTrustBundle
  <2> HIDE DEF c
  <2>2. Crt(c.name) = Crt(c.of[1]) \o Crt(c.of[2])
    <3>1. /\ Crt("old-trust-bundle") = <<Cross, Certificate("old-ca", "old-ca", TRUE)>>
          /\ Crt("cross") = <<Cross>>
          /\ Crt("old-ca") = <<Certificate("old-ca", "old-ca", TRUE)>>
      BY DEF Crt
    <3>2. ASSUME NEW x, NEW y PROVE <<x>> \o <<y>> = <<x, y>>
      <4> DEFINE S == {x, y}
                 s == <<x>> \o <<y>>
                 t == <<x, y>>
      <4>1. s \in Seq(S) /\ Len(s) = 2 /\ s[1] = x /\ s[2] = y
        OBVIOUS
      <4>2. t \in Seq(S) /\ Len(t) = 2 /\ t[1] = x /\ t[2] = y
        OBVIOUS
      <4> HIDE DEF s, t, S
      <4>3. \A i \in 1 .. Len(s) : s[i] = t[i]
        BY <4>1, <4>2
      <4>4. s = t
        BY <4>1, <4>2, <4>3, SeqEqual
      <4> QED
        BY <4>4 DEF s, t
    <3>3. PICK x, y : x = Cross /\ y = Certificate("old-ca", "old-ca", TRUE)
      BY Zenon
    <3>4. Crt(c.name) = <<x, y>> /\ Crt(c.of[1]) = <<x>> /\ Crt(c.of[2]) = <<y>>
      BY <2>1, <3>1, <3>3, Zenon
    <3>5. <<x>> \o <<y>> = <<x, y>>
      BY <3>2
    <3> QED
      BY <3>4, <3>5, Zenon
  <2>3. Bundles(r, n, c)
    <3>1. CrtStep(c.name) = n /\ CrtStep(c.of[1]) < n /\ CrtStep(c.of[2]) < n
      BY <1>6, <2>1 DEF CrtStep
    <3>2. c.name \in Names(r) /\ c.of[1] \in Names(r) /\ c.of[2] \in Names(r)
      BY <2>1
    <3>3. NoKey(r, n) /\ NoCsr(r, n)
      BY <1>6 DEF NoKey, NoCsr
    <3> QED
      BY <2>2, <3>1, <3>2, <3>3 DEF Bundles
  <2> QED
    BY <2>1, <2>3, Zenon DEF IsCommand, c
<1>7. CASE n \in {10, 11, 12, 13}
  <2>1. /\ c.do = "check" /\ c.crt = IF n = 10 THEN "legacy-leaf" ELSE "new-leaf"
        /\ c.caFile = IF n \in {10, 11} THEN "old-ca"
                      ELSE IF n = 12 THEN "new-ca" ELSE "old-trust-bundle"
    BY <1>7, RotationIs DEF Check, OldTrustBundle
  <2>2. (n = 11 /\ c.want = FALSE) \/ (n # 11 /\ c.want = TRUE)
    BY <1>7, RotationIs DEF Check
  <2> HIDE DEF c
  <2>3. Checks(r, n, c)
    BY <1>7, <2>1, <2>2 DEF Checks, CrtStep
  <2> QED
    BY <2>1, <2>3 DEF IsCommand, c
<1> QED
  BY <1>1, <1>2, <1>3, <1>4, <1>5, <1>6, <1>7

LEMMA MigrationCommands ==
  ASSUME NEW r, r \notin Rotations, NEW n \in 1 .. 7
  PROVE  IsCommand(r, n, Migration[n])
<1> DEFINE c == Migration[n]
<1> USE MigrationTimes DEF Names, KeyNames, CsrNames, CAs
<1>1. CASE n = 1
  <2>1. c.do = "createCA" /\ c.name = "ca"
    BY <1>1, MigrationIs DEF CreateCA
  <2> HIDE DEF c
  <2>2. CreatesCA(r, n, c)
    BY <1>1, <2>1 DEF CreatesCA, KeyStep, CrtStep
  <2> QED
    BY <2>1, <2>2 DEF IsCommand, c
<1>2. CASE n \in {2, 5}
  <2>1. /\ c.do = "request" /\ c.key = "new" /\ c.ca = FALSE
        /\ c.name = IF n = 2 THEN "ed25519" ELSE "mldsa65"
    BY <1>2, MigrationIs DEF Request
  <2> HIDE DEF c
  <2>2. Requests(r, n, c)
    BY <1>2, <2>1 DEF Requests, KeyStep, CsrStep
  <2> QED
    BY <2>1, <2>2 DEF IsCommand, c
<1>3. CASE n \in {3, 6}
  <2>1. /\ c.do = "issue" /\ c.csr = c.name /\ c.by = "ca" /\ c.copy = FALSE
        /\ c.name = IF n = 3 THEN "ed25519" ELSE "mldsa65"
    BY <1>3, MigrationIs DEF Issue
  <2> HIDE DEF c
  <2>2. Crt(c.name) = <<Certificate(c.csr, c.by, FALSE)>>
    BY <1>3, <2>1 DEF Crt, Issuer
  <2>3. IssuesCrt(c)
    BY <2>1, <2>2, Zenon DEF IssuesCrt
  <2>4. Issues(r, n, c)
    BY <1>3, <2>1, <2>3 DEF Issues, KeyStep, CsrStep, CrtStep
  <2> QED
    BY <2>1, <2>4 DEF IsCommand, c
<1>4. CASE n \in {4, 7}
  <2>1. /\ c.do = "check" /\ c.caFile = "ca" /\ c.want = TRUE
        /\ c.crt = IF n = 4 THEN "ed25519" ELSE "mldsa65"
    BY <1>4, MigrationIs DEF Check
  <2> HIDE DEF c
  <2>2. Checks(r, n, c)
    BY <1>4, <2>1 DEF Checks, CrtStep
  <2> QED
    BY <2>1, <2>2 DEF IsCommand, c
<1> QED
  BY <1>1, <1>2, <1>3, <1>4

LEMMA ScriptCommands ==
  ASSUME NEW r \in Runs
  PROVE  /\ Len(Script(r)) \in Nat \ {0}
         /\ \A n \in 1 .. Len(Script(r)) : IsCommand(r, n, Script(r)[n])
<1>1. CASE r \in Rotations
  <2>1. Script(r) = Rotation
    BY <1>1 DEF Script
  <2> QED
    BY <1>1, <2>1, RotationIs, RotationCommands
<1>2. CASE r \notin Rotations
  <2>1. Script(r) = Migration
    BY <1>2 DEF Script
  <2> QED
    BY <1>2, <2>1, MigrationIs, MigrationCommands
<1> QED
  BY <1>1, <1>2

-----------------------------------------------------------------------------
(* openssl verify *)

LEMMA IssuedByName ==
  ASSUME NEW x, NEW y, NEW z, NEW w, NEW ca
  PROVE  IssuedBy(Certificate(x, y, ca), Certificate(z, w, TRUE)) <=> y = z
BY DEF IssuedBy, Certificate

\* A self-signed certificate alone, and with another it has issued.
LEMMA AnchoredAlone ==
  ASSUME NEW c, IssuedBy(c, c)
  PROVE  Anchored(<<c>>) = {c}
<1>1. {<<c>>[i] : i \in DOMAIN <<c>>} = {c}
  OBVIOUS
<1>2. \A S \in SUBSET {c} : ClosedUnderIssue(S, {c}) => c \in S
  BY DEF ClosedUnderIssue
<1> QED
  BY <1>1, <1>2 DEF Anchored

LEMMA AnchoredPair ==
  ASSUME NEW c, NEW i, IssuedBy(i, i), IssuedBy(c, i)
  PROVE  Anchored(<<c, i>>) = {c, i}
<1>1. {<<c, i>>[k] : k \in DOMAIN <<c, i>>} = {c, i}
  OBVIOUS
<1>2. \A S \in SUBSET {c, i} : ClosedUnderIssue(S, {c, i}) => c \in S /\ i \in S
  BY DEF ClosedUnderIssue
<1> QED
  BY <1>1, <1>2 DEF Anchored

\* The certificates a trust file anchors.
LEMMA TrustFiles ==
  /\ \A ca \in CAs : Anchored(Crt(ca)) = {Certificate(ca, ca, TRUE)}
  /\ Anchored(Crt("old-trust-bundle")) = {Cross, Certificate("old-ca", "old-ca", TRUE)}
<1>1. ASSUME NEW ca \in CAs PROVE Anchored(Crt(ca)) = {Certificate(ca, ca, TRUE)}
  <2>1. Crt(ca) = <<Certificate(ca, ca, TRUE)>>
    BY <1>1, Zenon DEF Crt
  <2>2. IssuedBy(Certificate(ca, ca, TRUE), Certificate(ca, ca, TRUE))
    BY IssuedByName, Zenon
  <2> QED
    BY <2>1, <2>2, AnchoredAlone, Zenon
<1>2. Anchored(Crt("old-trust-bundle")) = {Cross, Certificate("old-ca", "old-ca", TRUE)}
  <2>1. Crt("old-trust-bundle") = <<Cross, Certificate("old-ca", "old-ca", TRUE)>>
    BY DEF Crt, CAs
  <2>2. /\ IssuedBy(Cross, Certificate("old-ca", "old-ca", TRUE))
        /\ IssuedBy(Certificate("old-ca", "old-ca", TRUE), Certificate("old-ca", "old-ca", TRUE))
    BY IssuedByName, Zenon DEF Cross
  <2> QED
    BY <2>1, <2>2, AnchoredPair, Zenon
<1> QED
  BY <1>1, <1>2

\* Each check of the sequences expects what openssl verify finds.
LEMMA AsExpected ==
  ASSUME NEW r \in Runs, NEW n \in Nat, fs[r].crt = Crts(r, n),
         NEW m, NEW c, Checks(r, m, c), CrtStep(c.crt) < n, CrtStep(c.caFile) < n
  PROVE  Verifies(r, c.crt, c.caFile) <=> c.want = TRUE
<1> DEFINE leaf == Certificate(c.crt, Issuer(c.crt), FALSE)
<1>1. fs[r].crt[c.crt] = Crt(c.crt) /\ fs[r].crt[c.caFile] = Crt(c.caFile)
  BY DEF Checks, Crts
<1>2. c.crt \in {"legacy-leaf", "new-leaf", "ed25519", "mldsa65"}
  BY DEF Checks
<1>3. Crt(c.crt) = <<leaf>>
  <2>1. c.crt \notin CAs /\ c.crt # "cross" /\ c.crt # "old-trust-bundle"
    BY <1>2 DEF CAs
  <2> QED
    BY <2>1, Zenon DEF Crt
<1>4. \A ca : IssuedBy(leaf, Certificate(ca, ca, TRUE)) <=> Issuer(c.crt) = ca
  BY DEF IssuedBy, Certificate
<1>5. IssuedBy(leaf, Cross) <=> Issuer(c.crt) = "new-ca"
  BY DEF IssuedBy, Certificate, Cross
<1> HIDE DEF leaf
<1>6. Verifies(r, c.crt, c.caFile) <=> \E i \in Anchored(Crt(c.caFile)) : IssuedBy(leaf, i)
  <2>1. fs[r].crt[c.crt][1] = leaf
    BY <1>1, <1>3
  <2> QED
    BY <1>1, <2>1, Zenon DEF Verifies
<1>7. CASE c.caFile \in CAs
  <2>1. Anchored(Crt(c.caFile)) = {Certificate(c.caFile, c.caFile, TRUE)}
    BY <1>7, TrustFiles, Zenon
  <2>2. Verifies(r, c.crt, c.caFile) <=> Issuer(c.crt) = c.caFile
    BY <1>4, <1>6, <2>1, Zenon
  <2>3. Issuer(c.crt) = c.caFile <=> c.want = TRUE
    BY <1>7 DEF Checks, Issuer, CAs
  <2> QED
    BY <2>2, <2>3
<1>8. CASE c.caFile = "old-trust-bundle"
  <2>1. c.want = TRUE /\ Issuer(c.crt) = "new-ca"
    BY <1>8 DEF Checks, Issuer
  <2>2. Cross \in Anchored(Crt(c.caFile))
    BY <1>8, TrustFiles, Zenon
  <2> QED
    BY <1>5, <1>6, <2>1, <2>2
<1> QED
  BY <1>7, <1>8 DEF Checks, CAs

-----------------------------------------------------------------------------
(* The directory grows by what a command writes *)

LEMMA KeysGrow ==
  ASSUME NEW r \in Runs, NEW n \in Nat
  PROVE  /\ NoKey(r, n) => Keys(r, n + 1) = Keys(r, n)
         /\ \A x \in KeyNames(r) :
              KeyStep(x) = n \/ (KeyStep(x) < n /\ NoKey(r, n)) =>
                Keys(r, n + 1) = Written(Keys(r, n), x, KeyStep(x))
<1>1. \A y : KeyStep(y) \in Nat
  BY StepsAreNumbers
<1>2. NoKey(r, n) => {y \in KeyNames(r) : KeyStep(y) < n + 1} = {y \in KeyNames(r) : KeyStep(y) < n}
  BY <1>1 DEF NoKey
<1>3. ASSUME NEW x \in KeyNames(r), KeyStep(x) = n \/ (KeyStep(x) < n /\ NoKey(r, n))
      PROVE  {y \in KeyNames(r) : KeyStep(y) < n + 1} =
               {y \in KeyNames(r) : KeyStep(y) < n} \union {x}
  BY <1>1, <1>3, StepsDiffer DEF NoKey
<1> QED
  BY <1>2, <1>3 DEF Keys, Written

LEMMA CsrsGrow ==
  ASSUME NEW r \in Runs, NEW n \in Nat
  PROVE  /\ NoCsr(r, n) => Csrs(r, n + 1) = Csrs(r, n)
         /\ \A x \in CsrNames(r) :
              CsrStep(x) = n => Csrs(r, n + 1) = Written(Csrs(r, n), x, Csr(x))
<1>1. \A y : CsrStep(y) \in Nat
  BY StepsAreNumbers
<1>2. NoCsr(r, n) => {y \in CsrNames(r) : CsrStep(y) < n + 1} = {y \in CsrNames(r) : CsrStep(y) < n}
  BY <1>1 DEF NoCsr
<1>3. ASSUME NEW x \in CsrNames(r), CsrStep(x) = n
      PROVE  {y \in CsrNames(r) : CsrStep(y) < n + 1} =
               {y \in CsrNames(r) : CsrStep(y) < n} \union {x}
  BY <1>1, <1>3, StepsDiffer
<1> QED
  BY <1>2, <1>3 DEF Csrs, Written

LEMMA CrtsGrow ==
  ASSUME NEW r \in Runs, NEW n \in Nat
  PROVE  /\ NoCrt(r, n) => Crts(r, n + 1) = Crts(r, n)
         /\ \A x \in Names(r) :
              CrtStep(x) = n => Crts(r, n + 1) = Written(Crts(r, n), x, Crt(x))
<1>1. \A y : CrtStep(y) \in Nat
  BY StepsAreNumbers
<1>2. NoCrt(r, n) => {y \in Names(r) : CrtStep(y) < n + 1} = {y \in Names(r) : CrtStep(y) < n}
  BY <1>1 DEF NoCrt
<1>3. ASSUME NEW x \in Names(r), CrtStep(x) = n
      PROVE  {y \in Names(r) : CrtStep(y) < n + 1} =
               {y \in Names(r) : CrtStep(y) < n} \union {x}
  BY <1>1, <1>3, StepsDiffer
<1> QED
  BY <1>2, <1>3 DEF Crts, Written

-----------------------------------------------------------------------------
(* The invariant *)

Files(r, n) == [key |-> Keys(r, n), csr |-> Csrs(r, n), crt |-> Crts(r, n)]

\* The expected verdicts of the checks before step n.
Wanted(r, n) == [i \in {j \in 1 .. n - 1 : Script(r)[j].do = "check"} |-> Script(r)[i].want]

Arrays ==
  /\ step \in [Runs -> Nat]
  /\ state \in [Runs -> {"start", "running", "ok", "error", "crashed"}]
  /\ dir \in [Runs -> BOOLEAN] /\ faulty \in [Runs -> SUBSET Nat]
  /\ DOMAIN fs = Runs /\ DOMAIN verdicts = Runs

RunInv(r) ==
  /\ step[r] \in 1 .. Len(Script(r)) + 1
  /\ state[r] = "start" => step[r] = 1
  /\ state[r] = "running" => step[r] <= Len(Script(r))
  /\ state[r] = "ok" => step[r] = Len(Script(r)) + 1
  /\ state[r] \in {"start", "running", "ok"} => verdicts[r] = Wanted(r, step[r])
  /\ state[r] = "running" => dir[r]
  /\ state[r] = "error" => faulty[r] # {}
  /\ fs[r] = Files(r, step[r])

IInv == Arrays /\ \A r \in Runs : RunInv(r)

LEMMA InitInv == Init => IInv
<1> SUFFICES ASSUME Init PROVE IInv
  OBVIOUS
<1>1. Arrays
  BY DEF Init, All, Arrays
<1> SUFFICES ASSUME NEW r \in Runs PROVE RunInv(r)
  BY <1>1 DEF IInv
<1>2. /\ step[r] = 1 /\ state[r] = "start" /\ dir[r] = FALSE /\ verdicts[r] = <<>>
      /\ fs[r] = [key |-> <<>>, csr |-> <<>>, crt |-> <<>>]
  BY DEF Init, All
<1>3. fs[r] = Files(r, 1)
  <2>1. \A x : KeyStep(x) >= 1 /\ CsrStep(x) >= 1 /\ CrtStep(x) >= 1
    BY DEF KeyStep, CsrStep, CrtStep
  <2>2. /\ {y \in KeyNames(r) : KeyStep(y) < 1} = {} /\ {y \in CsrNames(r) : CsrStep(y) < 1} = {}
        /\ {y \in Names(r) : CrtStep(y) < 1} = {}
    BY <2>1, StepsAreNumbers
  <2>3. Keys(r, 1) = <<>> /\ Csrs(r, 1) = <<>> /\ Crts(r, 1) = <<>>
    BY <2>2 DEF Keys, Csrs, Crts
  <2> QED
    BY <1>2, <2>3 DEF Files
<1>4. verdicts[r] = Wanted(r, 1)
  <2>1. {j \in 1 .. 1 - 1 : Script(r)[j].do = "check"} = {}
    OBVIOUS
  <2> QED
    BY <1>2, <2>1 DEF Wanted
<1>5. Len(Script(r)) \in Nat \ {0}
  BY ScriptCommands
<1> QED
  BY <1>2, <1>3, <1>4, <1>5 DEF RunInv

\* A step of one run leaves the others as they are.
LEMMA OneRun ==
  ASSUME IInv, NEW r \in Runs, Arrays', RunInv(r)',
         \A q \in Runs \ {r} :
           /\ step'[q] = step[q] /\ state'[q] = state[q] /\ dir'[q] = dir[q]
           /\ fs'[q] = fs[q] /\ verdicts'[q] = verdicts[q] /\ faulty'[q] = faulty[q]
  PROVE  IInv'
<1>1. \A q \in Runs \ {r} : RunInv(q) => RunInv(q)'
  BY DEF RunInv
<1> QED
  BY <1>1 DEF IInv

LEMMA EndIs ==
  ASSUME IInv, NEW r \in Runs, NEW to \in {"ok", "error"}, End(r, to)
  PROVE  /\ state' \in [Runs -> {"start", "running", "ok", "error", "crashed"}]
         /\ dir' = dir /\ state'[r] = to
         /\ \A q \in Runs \ {r} : state'[q] = state[q] /\ dir'[q] = dir[q]
BY DEF IInv, Arrays, End

\* To the next command, or to the end, with the files and the verdicts of that step.
LEMMA AdvanceInv ==
  ASSUME IInv, NEW r \in Runs, state[r] = "running", Advance(r),
         DOMAIN fs' = Runs, fs'[r] = Files(r, step[r] + 1),
         DOMAIN verdicts' = Runs, verdicts'[r] = Wanted(r, step[r] + 1),
         faulty' \in [Runs -> SUBSET Nat],
         \A q \in Runs \ {r} :
           fs'[q] = fs[q] /\ verdicts'[q] = verdicts[q] /\ faulty'[q] = faulty[q]
  PROVE  IInv'
<1>1. /\ step[r] \in 1 .. Len(Script(r)) /\ Len(Script(r)) \in Nat \ {0}
  BY ScriptCommands DEF IInv, RunInv
<1>2. /\ step' \in [Runs -> Nat] /\ step'[r] = step[r] + 1
      /\ \A q \in Runs \ {r} : step'[q] = step[q]
  BY <1>1 DEF IInv, Arrays, Advance
<1>3. CASE step[r] = Len(Script(r))
  <2>1. End(r, "ok")
    BY <1>3 DEF Advance
  <2>2. /\ state' \in [Runs -> {"start", "running", "ok", "error", "crashed"}]
        /\ dir' = dir /\ state'[r] = "ok"
        /\ \A q \in Runs \ {r} : state'[q] = state[q] /\ dir'[q] = dir[q]
    BY <2>1, EndIs
  <2>3. Arrays'
    BY <1>2, <2>2 DEF IInv, Arrays
  <2>4. RunInv(r)'
    BY <1>1, <1>2, <1>3, <2>2 DEF RunInv, Wanted, Files, Keys, Csrs, Crts, Script
  <2> QED
    BY <1>2, <2>2, <2>3, <2>4, OneRun
<1>4. CASE step[r] # Len(Script(r))
  <2>1. UNCHANGED <<state, dir>>
    BY <1>4 DEF Advance
  <2>2. Arrays'
    BY <1>2, <2>1 DEF IInv, Arrays
  <2>3. RunInv(r)'
    BY <1>1, <1>2, <1>4, <2>1 DEF IInv, RunInv
  <2> QED
    BY <1>2, <2>1, <2>2, <2>3, OneRun
<1> QED
  BY <1>3, <1>4

\* A command other than a check leaves the verdicts that are wanted.
LEMMA WantedStays ==
  ASSUME NEW r \in Runs, NEW n \in 1 .. Len(Script(r)), Script(r)[n].do # "check"
  PROVE  Wanted(r, n + 1) = Wanted(r, n)
<1>1. {j \in 1 .. n + 1 - 1 : Script(r)[j].do = "check"} = {j \in 1 .. n - 1 : Script(r)[j].do = "check"}
  <2>1. 1 .. n + 1 - 1 = (1 .. n - 1) \union {n}
    BY ScriptCommands
  <2> QED
    BY <2>1
<1> QED
  BY <1>1 DEF Wanted

\* What a run that is about to run a command knows.
LEMMA Running ==
  ASSUME IInv, NEW r \in Runs, state[r] = "running"
  PROVE  /\ step[r] \in 1 .. Len(Script(r)) /\ step[r] \in Nat
         /\ IsCommand(r, step[r], Command(r))
         /\ fs[r] = Files(r, step[r]) /\ verdicts[r] = Wanted(r, step[r])
BY ScriptCommands DEF IInv, RunInv, Command

\* A command that writes files, and no verdict.
LEMMA WriteInv ==
  ASSUME IInv, NEW r \in Runs, state[r] = "running", Command(r).do # "check", Advance(r),
         DOMAIN fs' = Runs, fs'[r] = Files(r, step[r] + 1),
         \A q \in Runs \ {r} : fs'[q] = fs[q], UNCHANGED <<verdicts, faulty>>
  PROVE  IInv'
<1>1. verdicts'[r] = Wanted(r, step[r] + 1)
  BY Running, WantedStays DEF Command
<1> QED
  BY <1>1, AdvanceInv DEF IInv, Arrays

-----------------------------------------------------------------------------
(* The actions *)

LEMMA MkdirTempInv == ASSUME IInv, NEW r \in Runs, MkdirTemp(r) PROVE IInv'
<1> USE DEF IInv
<1>1. state[r] = "start" /\ UNCHANGED <<step, fs, verdicts>> /\ Len(Script(r)) \in Nat \ {0}
  BY ScriptCommands DEF MkdirTemp
<1>2. CASE End(r, "error") /\ faulty' = [faulty EXCEPT ![r] = {0}]
  <2>1. /\ state' \in [Runs -> {"start", "running", "ok", "error", "crashed"}]
        /\ dir' = dir /\ state'[r] = "error"
        /\ \A q \in Runs \ {r} : state'[q] = state[q] /\ dir'[q] = dir[q]
    BY <1>2, EndIs
  <2>2. /\ faulty' \in [Runs -> SUBSET Nat] /\ faulty'[r] # {}
        /\ \A q \in Runs \ {r} : faulty'[q] = faulty[q]
    BY <1>2 DEF Arrays
  <2>3. Arrays'
    BY <1>1, <2>1, <2>2 DEF Arrays
  <2>4. RunInv(r)'
    BY <1>1, <2>1, <2>2 DEF RunInv
  <2> QED
    BY <1>1, <2>1, <2>2, <2>3, <2>4, OneRun
<1>3. CASE /\ state' = [state EXCEPT ![r] = "running"] /\ dir' = [dir EXCEPT ![r] = TRUE]
           /\ UNCHANGED faulty
  <2>1. Arrays'
    BY <1>1, <1>3 DEF Arrays
  <2>2. /\ state'[r] = "running" /\ dir'[r]
        /\ \A q \in Runs \ {r} : state'[q] = state[q] /\ dir'[q] = dir[q]
    BY <1>3 DEF Arrays
  <2>3. RunInv(r)'
    BY <1>1, <1>3, <2>2 DEF RunInv
  <2> QED
    BY <1>1, <1>3, <2>1, <2>2, <2>3, OneRun
<1> QED
  BY <1>2, <1>3 DEF MkdirTemp

LEMMA DoCreateCAInv == ASSUME IInv, NEW r \in Runs, DoCreateCA(r) PROVE IInv'
<1> DEFINE n == Command(r).name
           k == step[r]
           cert == [subject |-> n, key |-> k, issuer |-> n, signer |-> k, ca |-> TRUE]
<1>1. /\ state[r] = "running" /\ Command(r).do = "createCA" /\ Advance(r)
      /\ UNCHANGED <<verdicts, faulty>>
      /\ fs' = [fs EXCEPT ![r].key = Written(@, n, k), ![r].crt = Written(@, n, <<cert>>)]
  BY DEF DoCreateCA, At
<1>2. k \in Nat /\ fs[r] = Files(r, k) /\ CreatesCA(r, k, Command(r))
  BY <1>1, Running DEF IsCommand
<1>3. /\ n \in CAs /\ n \in KeyNames(r) /\ n \in Names(r)
      /\ KeyStep(n) = k /\ CrtStep(n) = k /\ NoCsr(r, k)
  BY <1>2 DEF CreatesCA, KeyNames
<1>4. cert = Certificate(n, n, TRUE)
  BY <1>3 DEF Certificate
<1>5. Crt(n) = <<cert>>
  BY <1>3, <1>4, Zenon DEF Crt
<1>6. DOMAIN fs = Runs
  BY DEF IInv, Arrays
<1> HIDE DEF n, k, cert
<1>7. /\ DOMAIN fs' = Runs /\ \A q \in Runs \ {r} : fs'[q] = fs[q]
      /\ fs'[r] = [fs[r] EXCEPT !.key = Written(@, n, k), !.crt = Written(@, n, <<cert>>)]
  BY <1>1, <1>6
<1>8. fs'[r] = [key |-> Written(Keys(r, k), n, k), csr |-> Csrs(r, k),
                crt |-> Written(Crts(r, k), n, <<cert>>)]
  <2>1. /\ fs[r] = [key |-> Keys(r, k), csr |-> Csrs(r, k), crt |-> Crts(r, k)]
        /\ fs[r].key = Keys(r, k) /\ fs[r].crt = Crts(r, k)
    BY <1>2 DEF Files
  <2>2. fs'[r] = [fs[r] EXCEPT !.key = Written(Keys(r, k), n, k), !.crt = Written(Crts(r, k), n, <<cert>>)]
    BY <1>7, <2>1
  <2>3. PICK f, g, a, b : /\ f = fs[r]
                          /\ g = fs'[r]
                          /\ a = Written(Keys(r, k), n, k)
                          /\ b = Written(Crts(r, k), n, <<cert>>)
    BY Zenon
  <2>4. g = [f EXCEPT !.key = a, !.crt = b]
    BY <2>2, <2>3, Zenon
  <2>5. f = [key |-> Keys(r, k), csr |-> Csrs(r, k), crt |-> Crts(r, k)]
    BY <2>1, <2>3
  <2>6. g = [key |-> a, csr |-> Csrs(r, k), crt |-> b]
    BY <2>4, <2>5
  <2> QED
    BY <2>3, <2>6
<1>9. /\ Keys(r, k + 1) = Written(Keys(r, k), n, k) /\ Csrs(r, k + 1) = Csrs(r, k)
      /\ Crts(r, k + 1) = Written(Crts(r, k), n, <<cert>>)
  BY <1>2, <1>3, <1>5, KeysGrow, CsrsGrow, CrtsGrow
<1>10. fs'[r] = Files(r, step[r] + 1)
  BY <1>8, <1>9 DEF Files, k
<1> QED
  BY <1>1, <1>7, <1>10, WriteInv

LEMMA DoRequestInv == ASSUME IInv, NEW r \in Runs, DoRequest(r) PROVE IInv'
<1> DEFINE c == Command(r)
           k == step[r]
           key == IF c.key = "new" THEN step[r] ELSE fs[r].key[c.key]
           csr == [subject |-> c.name, key |-> key, ca |-> c.ca]
<1>1. /\ state[r] = "running" /\ Command(r).do = "request" /\ Advance(r)
      /\ UNCHANGED <<verdicts, faulty>>
      /\ fs' = [fs EXCEPT ![r].key = Written(@, c.name, key), ![r].csr = Written(@, c.name, csr)]
  BY DEF DoRequest, At
<1>2. k \in Nat /\ fs[r] = Files(r, k) /\ Requests(r, k, c)
  BY <1>1, Running DEF IsCommand
<1>3. /\ c.name \in CsrNames(r) /\ c.name \in KeyNames(r) /\ CsrStep(c.name) = k /\ NoCrt(r, k)
  BY <1>2 DEF Requests, KeyNames, CsrNames
<1>4. key = KeyStep(c.name) /\ (KeyStep(c.name) = k \/ (KeyStep(c.name) < k /\ NoKey(r, k)))
  <2>1. CASE c.key = "new" /\ KeyStep(c.name) = k
    BY <2>1
  <2>2. CASE c.key # "new" /\ c.key = c.name /\ KeyStep(c.name) < k /\ NoKey(r, k)
    <3>1. fs[r].key = Keys(r, k)
      BY <1>2 DEF Files
    <3> QED
      BY <1>3, <2>2, <3>1 DEF Keys
  <2> QED
    BY <1>2, <2>1, <2>2 DEF Requests
<1>5. csr = Csr(c.name)
  BY <1>2, <1>4 DEF Csr, Requests
<1>6. DOMAIN fs = Runs
  BY DEF IInv, Arrays
<1> HIDE DEF c, k, key, csr
<1>7. /\ DOMAIN fs' = Runs /\ \A q \in Runs \ {r} : fs'[q] = fs[q]
      /\ fs'[r] = [fs[r] EXCEPT !.key = Written(@, c.name, key), !.csr = Written(@, c.name, csr)]
  BY <1>1, <1>6
<1>8. fs'[r] = [key |-> Written(Keys(r, k), c.name, key), csr |-> Written(Csrs(r, k), c.name, csr),
                crt |-> Crts(r, k)]
  <2>1. /\ fs[r] = [key |-> Keys(r, k), csr |-> Csrs(r, k), crt |-> Crts(r, k)]
        /\ fs[r].key = Keys(r, k) /\ fs[r].csr = Csrs(r, k)
    BY <1>2 DEF Files
  <2>2. fs'[r] = [fs[r] EXCEPT !.key = Written(Keys(r, k), c.name, key),
                               !.csr = Written(Csrs(r, k), c.name, csr)]
    BY <1>7, <2>1
  <2>3. PICK f, g, a, b : /\ f = fs[r]
                          /\ g = fs'[r]
                          /\ a = Written(Keys(r, k), c.name, key)
                          /\ b = Written(Csrs(r, k), c.name, csr)
    BY Zenon
  <2>4. g = [f EXCEPT !.key = a, !.csr = b]
    BY <2>2, <2>3, Zenon
  <2>5. f = [key |-> Keys(r, k), csr |-> Csrs(r, k), crt |-> Crts(r, k)]
    BY <2>1, <2>3
  <2>6. g = [key |-> a, csr |-> b, crt |-> Crts(r, k)]
    BY <2>4, <2>5
  <2> QED
    BY <2>3, <2>6
<1>9. /\ Keys(r, k + 1) = Written(Keys(r, k), c.name, key)
      /\ Csrs(r, k + 1) = Written(Csrs(r, k), c.name, csr) /\ Crts(r, k + 1) = Crts(r, k)
  BY <1>2, <1>3, <1>4, <1>5, KeysGrow, CsrsGrow, CrtsGrow
<1>10. fs'[r] = Files(r, step[r] + 1)
  BY <1>8, <1>9 DEF Files, k
<1> QED
  BY <1>1, <1>7, <1>10, WriteInv

\* The key and the certificate of a CA fit, so that an issue is possible.
LEMMA IssuerIs ==
  ASSUME IInv, NEW r \in Runs, At(r, "issue")
  PROVE  /\ fs[r].crt[Command(r).by] = <<Certificate(Command(r).by, Command(r).by, TRUE)>>
         /\ fs[r].key[Command(r).by] = KeyStep(Command(r).by)
         /\ fs[r].csr[Command(r).csr] = Csr(Command(r).csr)
         /\ CanIssue(r)
<1> DEFINE c == Command(r)
           k == step[r]
<1>1. k \in Nat /\ fs[r] = Files(r, k) /\ Issues(r, k, c)
  BY Running DEF IsCommand, At
<1>2. /\ c.by \in CAs /\ c.by \in KeyNames(r) /\ c.by \in Names(r) /\ KeyStep(c.by) < k
      /\ CrtStep(c.by) < k /\ c.csr \in CsrNames(r) /\ CsrStep(c.csr) < k
  BY <1>1 DEF Issues, KeyNames
<1> HIDE DEF c, k
<1>3. fs[r].key[c.by] = KeyStep(c.by) /\ fs[r].csr[c.csr] = Csr(c.csr) /\ fs[r].crt[c.by] = Crt(c.by)
  BY <1>1, <1>2 DEF Files, Keys, Csrs, Crts
<1>4. Crt(c.by) = <<Certificate(c.by, c.by, TRUE)>>
  BY <1>2, Zenon DEF Crt
<1>5. fs[r].crt[c.by][1].key = fs[r].key[c.by]
  BY <1>3, <1>4 DEF Certificate
<1> QED
  BY <1>3, <1>4, <1>5, Zenon DEF CanIssue, c

LEMMA DoIssueInv == ASSUME IInv, NEW r \in Runs, DoIssue(r) PROVE IInv'
<1> DEFINE c == Command(r)
           k == step[r]
           csr == fs[r].csr[c.csr]
           copied == c.copy /\ csr.ca
           cert == [subject |-> csr.subject, key |-> csr.key, issuer |-> fs[r].crt[c.by][1].subject,
                    signer |-> fs[r].key[c.by], ca |-> c.copy /\ csr.ca]
<1>1. /\ state[r] = "running" /\ Command(r).do = "issue" /\ Advance(r) /\ At(r, "issue")
      /\ UNCHANGED <<verdicts, faulty>>
      /\ fs' = [fs EXCEPT ![r].crt = Written(@, c.name, <<cert>>)]
  BY DEF DoIssue, CanIssue, At
<1>2. k \in Nat /\ fs[r] = Files(r, k) /\ Issues(r, k, c)
  BY <1>1, Running DEF IsCommand
<1>3. c.name \in Names(r) /\ CrtStep(c.name) = k /\ NoKey(r, k) /\ NoCsr(r, k)
  BY <1>2 DEF Issues
<1>4. /\ csr = Csr(c.csr) /\ fs[r].key[c.by] = KeyStep(c.by)
      /\ fs[r].crt[c.by] = <<Certificate(c.by, c.by, TRUE)>>
  BY <1>1, IssuerIs
<1>5. /\ csr.subject = c.csr /\ csr.key = KeyStep(c.csr)
      /\ fs[r].crt[c.by][1].subject = c.by
  BY <1>4 DEF Csr, Certificate
<1>6. Crt(c.name) = <<cert>>
  <2>1. CASE c.copy = FALSE /\ Crt(c.name) = <<Certificate(c.csr, c.by, FALSE)>>
    <3>1. cert = Certificate(c.csr, c.by, FALSE)
      BY <1>4, <1>5, <2>1 DEF Certificate
    <3> QED
      BY <2>1, <3>1
  <2>2. CASE c.copy = TRUE /\ c.csr = "new-ca" /\ Crt(c.name) = <<Certificate(c.csr, c.by, TRUE)>>
    <3>1. csr.ca = TRUE
      BY <1>4, <2>2 DEF Csr
    <3>2. cert = Certificate(c.csr, c.by, TRUE)
      BY <1>4, <1>5, <2>2, <3>1 DEF Certificate
    <3> QED
      BY <2>2, <3>2
  <2> QED
    BY <1>2, <2>1, <2>2 DEF Issues, IssuesCrt
<1>7. DOMAIN fs = Runs
  BY DEF IInv, Arrays
<1> HIDE DEF c, k, csr, cert
<1>8. /\ DOMAIN fs' = Runs /\ \A q \in Runs \ {r} : fs'[q] = fs[q]
      /\ fs'[r] = [fs[r] EXCEPT !.crt = Written(@, c.name, <<cert>>)]
  BY <1>1, <1>7
<1>9. fs'[r] = [key |-> Keys(r, k), csr |-> Csrs(r, k), crt |-> Written(Crts(r, k), c.name, <<cert>>)]
  BY <1>2, <1>8 DEF Files
<1>10. /\ Keys(r, k + 1) = Keys(r, k) /\ Csrs(r, k + 1) = Csrs(r, k)
       /\ Crts(r, k + 1) = Written(Crts(r, k), c.name, <<cert>>)
  BY <1>2, <1>3, <1>6, KeysGrow, CsrsGrow, CrtsGrow
<1>11. fs'[r] = Files(r, step[r] + 1)
  BY <1>9, <1>10 DEF Files, k
<1> QED
  BY <1>1, <1>8, <1>11, WriteInv

LEMMA DoBundleInv == ASSUME IInv, NEW r \in Runs, DoBundle(r) PROVE IInv'
<1> DEFINE c == Command(r)
           k == step[r]
           both == fs[r].crt[c.of[1]] \o fs[r].crt[c.of[2]]
<1>1. /\ state[r] = "running" /\ Command(r).do = "bundle" /\ Advance(r)
      /\ UNCHANGED <<verdicts, faulty>>
      /\ fs' = [fs EXCEPT ![r].crt = Written(@, c.name, @[c.of[1]] \o @[c.of[2]])]
  BY DEF DoBundle, At
<1>2. k \in Nat /\ fs[r] = Files(r, k) /\ Bundles(r, k, c)
  BY <1>1, Running DEF IsCommand
<1>3. c.name \in Names(r) /\ CrtStep(c.name) = k /\ NoKey(r, k) /\ NoCsr(r, k)
  BY <1>2 DEF Bundles
<1>4. both = Crt(c.name)
  <2>1. \A i \in {1, 2} : fs[r].crt[c.of[i]] = Crt(c.of[i])
    BY <1>2 DEF Bundles, Files, Crts
  <2> QED
    BY <1>2, <2>1 DEF Bundles
<1>5. DOMAIN fs = Runs
  BY DEF IInv, Arrays
<1>6. /\ DOMAIN fs' = Runs /\ \A q \in Runs \ {r} : fs'[q] = fs[q]
      /\ fs'[r] = [fs[r] EXCEPT !.crt = Written(@, c.name, both)]
  BY <1>1, <1>5
<1> HIDE DEF c, k, both
<1>7. fs'[r] = [key |-> Keys(r, k), csr |-> Csrs(r, k), crt |-> Written(Crts(r, k), c.name, both)]
  BY <1>2, <1>6 DEF Files
<1>8. /\ Keys(r, k + 1) = Keys(r, k) /\ Csrs(r, k + 1) = Csrs(r, k)
      /\ Crts(r, k + 1) = Written(Crts(r, k), c.name, both)
  BY <1>2, <1>3, <1>4, KeysGrow, CsrsGrow, CrtsGrow
<1>9. fs'[r] = Files(r, step[r] + 1)
  BY <1>7, <1>8 DEF Files, k
<1> QED
  BY <1>1, <1>6, <1>9, WriteInv

\* A check whose verdict is the expected one leads to the next command.
LEMMA CheckedInv ==
  ASSUME IInv, NEW r \in Runs, At(r, "check"), NEW v, v = Command(r).want,
         verdicts' = [verdicts EXCEPT ![r] = Written(@, step[r], v)], Advance(r), UNCHANGED fs,
         faulty' \in [Runs -> SUBSET Nat], \A q \in Runs \ {r} : faulty'[q] = faulty[q]
  PROVE  IInv'
<1> DEFINE k == step[r]
           checks(n) == {j \in 1 .. n - 1 : Script(r)[j].do = "check"}
<1>1. /\ state[r] = "running" /\ k \in 1 .. Len(Script(r)) /\ k \in Nat /\ k + 1 \in Nat
      /\ fs[r] = Files(r, k) /\ verdicts[r] = Wanted(r, k) /\ Checks(r, k, Command(r))
      /\ Script(r)[k] = Command(r) /\ Script(r)[k].do = "check"
  BY Running DEF At, IsCommand, Command
<1>2. fs'[r] = Files(r, k + 1)
  <2>1. NoKey(r, k) /\ NoCsr(r, k) /\ NoCrt(r, k)
    BY <1>1 DEF Checks
  <2>2. Keys(r, k + 1) = Keys(r, k) /\ Csrs(r, k + 1) = Csrs(r, k) /\ Crts(r, k + 1) = Crts(r, k)
    BY <1>1, <2>1, KeysGrow, CsrsGrow, CrtsGrow
  <2>3. fs'[r] = fs[r]
    OBVIOUS
  <2> HIDE DEF k
  <2> QED
    BY <1>1, <2>2, <2>3 DEF Files
<1>3. checks(k + 1) = checks(k) \union {k}
  <2>1. 1 .. k + 1 - 1 = (1 .. k - 1) \union {k}
    BY <1>1
  <2> QED
    BY <1>1, <2>1
<1>4. DOMAIN verdicts = Runs
  BY DEF IInv, Arrays
<1>5. verdicts'[r] = Written(Wanted(r, k), k, v) /\ DOMAIN verdicts' = Runs
  BY <1>1, <1>4
<1>6. \A q \in Runs \ {r} : fs'[q] = fs[q] /\ verdicts'[q] = verdicts[q]
  BY <1>4
<1>7. Wanted(r, k + 1) = Written(Wanted(r, k), k, v)
  <2>1. /\ Wanted(r, k) = [i \in checks(k) |-> Script(r)[i].want]
        /\ Wanted(r, k + 1) = [i \in checks(k + 1) |-> Script(r)[i].want]
    BY DEF Wanted
  <2>2. \A i \in checks(k) : i # k
    BY <1>1
  <2>3. Script(r)[k].want = v
    BY <1>1
  <2> HIDE DEF checks, k
  <2> QED
    BY <1>3, <2>1, <2>2, <2>3 DEF Written
<1>8. verdicts'[r] = Wanted(r, step[r] + 1) /\ fs'[r] = Files(r, step[r] + 1) /\ DOMAIN fs' = Runs
  BY <1>2, <1>5, <1>7 DEF IInv, Arrays
<1> HIDE DEF k, checks
<1> QED
  BY <1>1, <1>5, <1>6, <1>8, AdvanceInv

\* What openssl verify finds is what the check expects.
LEMMA VerdictIs ==
  ASSUME IInv, NEW r \in Runs, At(r, "check")
  PROVE  Verifies(r, Command(r).crt, Command(r).caFile) = Command(r).want
<1> DEFINE c == Command(r)
           k == step[r]
<1>1. k \in Nat /\ fs[r] = Files(r, k) /\ Checks(r, k, c)
  BY Running DEF IsCommand, At
<1>2. fs[r].crt = Crts(r, k) /\ CrtStep(c.crt) < k /\ CrtStep(c.caFile) < k
  BY <1>1 DEF Files, Checks
<1> HIDE DEF k, c
<1>3. Verifies(r, c.crt, c.caFile) <=> c.want = TRUE
  BY <1>1, <1>2, AsExpected
<1>4. c.want = TRUE \/ c.want = FALSE
  BY <1>1 DEF Checks
<1>5. Verifies(r, c.crt, c.caFile) \in BOOLEAN
  BY Zenon DEF Verifies
<1> QED
  BY <1>3, <1>4, <1>5, Zenon DEF c

LEMMA DoCheckInv == ASSUME IInv, NEW r \in Runs, DoCheck(r) PROVE IInv'
<1> DEFINE v == Verifies(r, Command(r).crt, Command(r).caFile)
<1>1. At(r, "check") /\ Judge(r, v) /\ UNCHANGED <<fs, faulty>>
  BY Zenon DEF DoCheck
<1>2. v = Command(r).want
  BY <1>1, VerdictIs
<1> HIDE DEF v
<1>3. verdicts' = [verdicts EXCEPT ![r] = Written(@, step[r], v)] /\ Advance(r)
  BY <1>1, <1>2 DEF Judge
<1>4. faulty' \in [Runs -> SUBSET Nat] /\ \A q \in Runs \ {r} : faulty'[q] = faulty[q]
  BY <1>1 DEF IInv, Arrays
<1> QED
  BY <1>1, <1>2, <1>3, <1>4, CheckedInv

\* A command that ends the demo with an error, by a fault.
LEMMA ErrorInv ==
  ASSUME IInv, NEW r \in Runs, state[r] = "running", End(r, "error"), UNCHANGED <<step, fs>>,
         DOMAIN verdicts' = Runs, \A q \in Runs \ {r} : verdicts'[q] = verdicts[q],
         faulty' = [faulty EXCEPT ![r] = @ \union {step[r]}]
  PROVE  IInv'
<1>1. /\ state' \in [Runs -> {"start", "running", "ok", "error", "crashed"}]
      /\ dir' = dir /\ state'[r] = "error"
      /\ \A q \in Runs \ {r} : state'[q] = state[q] /\ dir'[q] = dir[q]
  BY EndIs
<1>2. /\ faulty' \in [Runs -> SUBSET Nat] /\ faulty'[r] # {}
      /\ \A q \in Runs \ {r} : faulty'[q] = faulty[q]
  BY Running DEF IInv, Arrays
<1>3. Arrays'
  BY <1>1, <1>2 DEF IInv, Arrays
<1>4. RunInv(r)'
  BY <1>1, <1>2 DEF IInv, RunInv
<1> QED
  BY <1>1, <1>2, <1>3, <1>4, OneRun

LEMMA CheckFaultsInv == ASSUME IInv, NEW r \in Runs, CheckFaults(r) PROVE IInv'
<1>1. /\ At(r, "check") /\ state[r] = "running" /\ UNCHANGED fs
      /\ verdicts' = [verdicts EXCEPT ![r] = Written(@, step[r], FALSE)]
      /\ faulty' = [faulty EXCEPT ![r] = @ \union {step[r]}]
  BY DEF CheckFaults, Judge, At
<1>2. /\ faulty' \in [Runs -> SUBSET Nat] /\ \A q \in Runs \ {r} : faulty'[q] = faulty[q]
      /\ DOMAIN verdicts' = Runs /\ \A q \in Runs \ {r} : verdicts'[q] = verdicts[q]
  BY <1>1, Running DEF IInv, Arrays
<1>3. CASE Command(r).want = FALSE
  <2>1. Advance(r)
    BY <1>3, Zenon DEF CheckFaults, Judge
  <2> QED
    BY <1>1, <1>2, <1>3, <2>1, CheckedInv
<1>4. CASE Command(r).want # FALSE
  <2>1. End(r, "error") /\ UNCHANGED step
    BY <1>4, Zenon DEF CheckFaults, Judge
  <2> QED
    BY <1>1, <1>2, <2>1, ErrorInv
<1> QED
  BY <1>3, <1>4

LEMMA FailsInv == ASSUME IInv, NEW r \in Runs, Fails(r) PROVE IInv'
<1>1. state[r] = "running" /\ End(r, "error") /\ UNCHANGED <<step, fs, verdicts>>
  BY DEF Fails
<1>2. ~(At(r, "issue") /\ ~CanIssue(r))
  BY IssuerIs
<1>3. faulty' = [faulty EXCEPT ![r] = @ \union {step[r]}]
  BY <1>2 DEF Fails
<1>4. DOMAIN verdicts' = Runs
  BY <1>1 DEF IInv, Arrays
<1> QED
  BY <1>1, <1>3, <1>4, ErrorInv

LEMMA RemoveAllInv == ASSUME IInv, NEW r \in Runs, RemoveAll(r) PROVE IInv'
<1>1. /\ UNCHANGED <<step, state, fs, verdicts, faulty>> /\ state[r] \in {"ok", "error"}
      /\ \A q \in Runs \ {r} : dir'[q] = dir[q]
  BY DEF RemoveAll, IInv, Arrays
<1>2. Arrays'
  BY DEF RemoveAll, IInv, Arrays
<1>3. RunInv(r)'
  BY <1>1 DEF IInv, RunInv
<1> QED
  BY <1>1, <1>2, <1>3, OneRun

LEMMA CrashInv == ASSUME IInv, NEW r \in Runs, Crash(r) PROVE IInv'
<1>1. /\ UNCHANGED <<step, dir, fs, verdicts, faulty>> /\ state'[r] = "crashed"
      /\ \A q \in Runs \ {r} : state'[q] = state[q]
  BY DEF Crash, IInv, Arrays
<1>2. Arrays'
  BY DEF Crash, IInv, Arrays
<1>3. RunInv(r)'
  BY <1>1 DEF IInv, RunInv
<1> QED
  BY <1>1, <1>2, <1>3, OneRun

LEMMA Inductive == IInv /\ [Next]_vars => IInv'
<1> SUFFICES ASSUME IInv, [Next]_vars PROVE IInv'
  OBVIOUS
<1>1. ASSUME NEW r \in Runs, MkdirTemp(r) PROVE IInv'
  BY <1>1, MkdirTempInv
<1>2. ASSUME NEW r \in Runs, DoCreateCA(r) PROVE IInv'
  BY <1>2, DoCreateCAInv
<1>3. ASSUME NEW r \in Runs, DoRequest(r) PROVE IInv'
  BY <1>3, DoRequestInv
<1>4. ASSUME NEW r \in Runs, DoIssue(r) PROVE IInv'
  BY <1>4, DoIssueInv
<1>5. ASSUME NEW r \in Runs, DoBundle(r) PROVE IInv'
  BY <1>5, DoBundleInv
<1>6. ASSUME NEW r \in Runs, DoCheck(r) PROVE IInv'
  BY <1>6, DoCheckInv
<1>7. ASSUME NEW r \in Runs, CheckFaults(r) PROVE IInv'
  BY <1>7, CheckFaultsInv
<1>8. ASSUME NEW r \in Runs, Fails(r) PROVE IInv'
  BY <1>8, FailsInv
<1>9. ASSUME NEW r \in Runs, RemoveAll(r) PROVE IInv'
  BY <1>9, RemoveAllInv
<1>10. ASSUME NEW r \in Runs, Crash(r) PROVE IInv'
  BY <1>10, CrashInv
<1>11. ASSUME UNCHANGED vars PROVE IInv'
  BY <1>11 DEF vars, IInv, Arrays, RunInv
<1> QED
  BY <1>1, <1>2, <1>3, <1>4, <1>5, <1>6, <1>7, <1>8, <1>9, <1>10, <1>11 DEF Next

LEMMA Invariant == Spec => []IInv
BY InitInv, Inductive, PTL DEF Spec

-----------------------------------------------------------------------------
(* The theorems *)

\* Every variable keeps its type, a command finds the directory, and a run that
\* goes on, or ended well, has the expected verdict of every check behind it
\* (carotation.go:33-37, 131-133).
THEOREM TypeCorrect == Spec => []TypeOK
<1>1. IInv => TypeOK
  BY DEF IInv, Arrays, RunInv, TypeOK, Wanted, ChecksBefore
<1> QED
  BY <1>1, Invariant, PTL

\* A demo fails only when a command it ran failed by itself
\* (certmigration.go:23-28, carotation.go:20-31, 76-120).
THEOREM OnlyFaults == Spec => []OnlyFaultsFail
<1>1. IInv => OnlyFaultsFail
  BY DEF IInv, RunInv, OnlyFaultsFail
<1> QED
  BY <1>1, Invariant, PTL

\* No command leaves a certificate or a request beside a key that is not its own
\* (carotation.go:65-88, certmigration.go:63-69).
THEOREM KeysFit == Spec => []KeysFitCertificates
<1>1. ASSUME IInv, NEW r \in Runs, NEW n \in DOMAIN fs[r].key
      PROVE  /\ n \in DOMAIN fs[r].crt => fs[r].crt[n][1].key = fs[r].key[n]
             /\ n \in DOMAIN fs[r].csr => fs[r].csr[n].key = fs[r].key[n]
  <2>1. /\ fs[r].key = Keys(r, step[r]) /\ fs[r].csr = Csrs(r, step[r])
        /\ fs[r].crt = Crts(r, step[r])
    <3>1. fs[r] = Files(r, step[r])
      BY <1>1 DEF IInv, RunInv
    <3> QED
      BY <3>1 DEF Files
  <2>2. n \in KeyNames(r) /\ fs[r].key[n] = KeyStep(n)
    BY <1>1, <2>1 DEF Keys
  <2>3. n \in DOMAIN fs[r].csr => fs[r].csr[n].key = fs[r].key[n]
    BY <2>1, <2>2 DEF Csrs, Csr
  <2>4. n \in DOMAIN fs[r].crt => fs[r].crt[n] = Crt(n)
    BY <2>1 DEF Crts
  <2>5. Crt(n)[1].key = KeyStep(n)
    <3>1. n \notin {"cross", "old-trust-bundle"}
      BY <2>2 DEF KeyNames
    <3>2. PICK issuer, ca : Crt(n) = <<Certificate(n, issuer, ca)>>
      BY <3>1, Zenon DEF Crt
    <3> QED
      BY <3>2 DEF Certificate
  <2> QED
    BY <2>2, <2>3, <2>4, <2>5
<1>2. IInv => KeysFitCertificates
  BY <1>1 DEF KeysFitCertificates
<1> QED
  BY <1>2, Invariant, PTL

\* A demo that succeeds shows what is so: openssl verify gives at the end what
\* every check expected (carotation.go:20-31, 120-135).
THEOREM Claims == Spec => []ClaimsHold
<1>1. ASSUME IInv, NEW r \in Runs, state[r] = "ok",
             NEW i \in DOMAIN Script(r), Script(r)[i].do = "check"
      PROVE  Verifies(r, Script(r)[i].crt, Script(r)[i].caFile) = Script(r)[i].want
  <2> DEFINE c == Script(r)[i]
             n == step[r]
  <2>1. n = Len(Script(r)) + 1 /\ Len(Script(r)) \in Nat /\ n \in Nat /\ fs[r] = Files(r, n)
    BY <1>1, ScriptCommands DEF IInv, RunInv
  <2>2. i \in 1 .. Len(Script(r))
    <3>1. DOMAIN Rotation = 1 .. Len(Rotation) /\ DOMAIN Migration = 1 .. Len(Migration)
      BY DEF Rotation, Migration, IssueLeaf
    <3> QED
      BY <3>1 DEF Script
  <2>3. Checks(r, i, c)
    BY <1>1, <2>2, ScriptCommands DEF IsCommand
  <2>4. CrtStep(c.crt) < n /\ CrtStep(c.caFile) < n /\ fs[r].crt = Crts(r, n)
    BY <2>1, <2>2, <2>3, StepsAreNumbers DEF Checks, Files
  <2> HIDE DEF c, n
  <2>5. Verifies(r, c.crt, c.caFile) <=> c.want = TRUE
    BY <2>1, <2>3, <2>4, AsExpected
  <2>6. c.want = TRUE \/ c.want = FALSE
    BY <2>3 DEF Checks
  <2>7. Verifies(r, c.crt, c.caFile) \in BOOLEAN
    BY Zenon DEF Verifies
  <2> QED
    BY <2>5, <2>6, <2>7, Zenon DEF c
<1>2. IInv => ClaimsHold
  BY <1>1, Zenon DEF ClaimsHold
<1> QED
  BY <1>2, Invariant, PTL
=============================================================================
