# Specifications of pq-migration-lab

TLA+ modules of pq-migration-lab: the algorithm registry, the KEM and signature
sessions, the hybrid combiner and its framing, the `pqlab` command, the TLS
demos with their processes and ports, the certificate demos, and the benchmark
dashboard. TLC checks them on small instances; TLAPS proves every safety
property of the passing runs for every value of the constants. `PROJECT.json`
lists the runs, the correspondence of definitions and source lines, the mutants
each property was tried against, the hazards and the findings.

## 1. Inventory

Paths are below `src/`.

| Component | State | Operations | Hard behaviour | What makes it correct |
|---|---|---|---|---|
| Registry (`internal/agility/agility.go`) | a map, nil until first used, and a `sync.RWMutex` | `Register`, `Lookup` | any number of goroutines; check-then-store; lazy allocation; early returns under a deferred unlock | no race on the map, entries stay, linearizable, every call returns |
| KEM interfaces (`internal/agility/kem.go`) | none | `KEMFactory.New`, the four methods of `KEMSession` | keys and ciphertexts arrive late, twice, or from another session | a ciphertext for the key a session stands by, and no other, gives both sides one secret |
| Hybrid combiner (`internal/kem/hybrid/combiner.go`) | two component sessions | `New`, `GenerateKeyPair`, `Encapsulate`, `Decapsulate`, `Close` | the second component fails after the first succeeded | it is a KEM session again, depends on both components, leaks none |
| Framing (same file) | none; `unframe` loops over a byte slice | `frame`, `unframe` | peer's bytes: any length against any rest, 32-bit lengths | never out of range, one reading per input, exact inverse of `frame` |
| X25519, ML-KEM-768 (`internal/kem/...`) | a private key; a liboqs object | the session's methods | call order, failed key generation, native memory | as the KEM session |
| Signature sessions (`internal/agility/signature.go`, `internal/sig/...`) | a private key; a liboqs object | `New`, `GenerateKeyPair`, `Sign`, `Verify`, `Close` | call order, re-keying, verifier without a key pair | a signature verifies under the key it was made with and no other |
| `pqlab` command (`cmd/pqlab/main.go`, `signdemo.go`) | a registry per run, sessions | `buildRegistry`, `runDemo`, `runSignDemo` | early returns with sessions open | every session closed; success only if both sides agree |
| hybrid-tls demo (`cmd/pqlab/hybridtls.go`) | temporary directory, `s_server` process, fixed port 14433 | generate certificate, start, `waitForPort`, `s_client`, clean up | fixed port, processes left by killed runs, two deadlines | success means this run's server; nothing left behind |
| interop-tls demo (`cmd/pqlab/interoptls.go`) | listener on 14434, a goroutine, a channel, `s_client`; then `s_server` on 14435 and a Go client | `runGoServerOpenSSLClient`, `runOpenSSLServerGoClient` | goroutine against process, context timeout, channel, fixed ports | success means both sides of this run; it returns; nothing left behind |
| Certificate demos (`certmigration.go`, `carotation.go`) | files of keys, requests, certificates | `issueLeaf`, `openssl verify`, `concatFiles` | a long sequence whose mistakes show only in the last verification | exactly the expected chains verify; no private key is left behind |
| Dashboard (`cmd/benchdash`) | benchmark results, the page of an earlier run | `runBenchmarks`, `parseBenchOutput`, `renderDashboard`, write | duplicates, missing suffixes, over-long lines, axis steps | the page shows every line, the last result of each benchmark, on an axis that holds it |
| Docker, CI, docs, generated dashboard page | - | - | - | - |

How they interact: `buildRegistry` registers the KEM and signature factories;
`runDemo` looks one up and drives two sessions of it. The hybrid factory
composes two factories and calls their sessions in order; it passes their keys
and ciphertexts through `frame` and `unframe`. The TLS demos share nothing with
the registry: they interact with processes they start, through fixed TCP ports
and files, and with other runs of themselves through the same ports.

## 2. The modules

| Module | Models | Role |
|---|---|---|
| `AtomicRegistry` | what `Registry` promises | abstract specification |
| `Registry` | `Register` and `Lookup`, one step per statement | implements `AtomicRegistry` |
| `KEMContract` | what `KEMSession` promises | abstract specification |
| `HybridKEM` | sessions of a hybrid of N component KEMs | implements `KEMContract` |
| `Framing` | `frame`, and `unframe` one round at a time | |
| `SignatureContract` | what `SignatureSession` promises | abstract specification |
| `SignatureSession` | Ed25519 and ML-DSA-65 sessions | implements `SignatureContract` |
| `Pqlab` | `main`, `buildRegistry`, `runDemo`, `runSignDemo` | composes both contracts |
| `GoServerDemo` | `runGoServerOpenSSLClient` with goroutine and process | |
| `OpenSSLServerDemo` | `runHybridTLSDemo`, `runOpenSSLServerGoClient`, `waitForPort`, `generateEphemeralCert` | |
| `InteropDemo` | `runInteropTLSDemo` | composes the two above |
| `CertDemos` | `runCertMigrationDemo`, `runCARotationDemo` | |
| `Axis` | `niceStep`, gridlines, `formatCommaInt` | arithmetic of `Dashboard` |
| `Dashboard` | `benchdash` | |
| `MCRegistry`, `MCHybridKEM`, `MCFraming`, `MCDashboard` | instances for TLC; the others are checked as they are | |
| `RegistryProofs`, `HybridProofs` (`HybridKEM` and `Framing`), `SignatureProofs`, `OpenSSLServerProofs`, `InteropProofs` (with `GoServerDemo`), `PqlabProofs`, `CertDemosProofs`, `DashboardProofs` (with `Axis`) | theorems | |

An operator whose comment says *Mutant* is a wrong version of the definition
that follows it. No specification uses it; each property of a passing run is
violated when one of them takes the place of the definition.

### Registry

The variables are the map (`algorithms`, and `allocated` for "not nil"), the
mutex (`writer`, `readers`) and, for each goroutine, its next statement, its
call and its result. The actions follow the statements: `NilCheck`, `Lock` and
`Drain` (the two halves of `RWMutex.Lock`: announce, wait for readers),
`CheckExists`, `MakeMap`, `Store`, `Unlock`; `RLock`, `Read`, `RUnlock`. The
mutex is external and modelled by what the registry relies on: a pending writer
holds back new readers, and its unlock lets them in.

`AtomicRegistry` has one step per call between its start and its return. The
refinement mapping takes the table as it is and calls a request "applied" once
its result is set (`PhaseOf`): for a `Register` that is the check or the store,
for a `Lookup` the read. So `Linearizable` says every call takes effect at one
instant of its own duration.

### KEM sessions

`HybridKEM` has N components; 2 is the registered hybrid, 1 a plain KEM, more
than 2 are nested hybrids (components in a row, as the nesting visits them).
`New` and `Close` are a step per component: a `New` that fails unwinds what it
opened before it returns (`NewFails`, `Unwind`), and a `Close` goes on after a
component that reports an error and keeps the first one (`CloseComponent`).
`key[s][c]` names the key pair of a component by the call that made it, 0 for
none. A failed `GenerateKeyPair` picks the component that fails: those before it
have a new key pair, those after it the old one. `Encapsulate` keeps no state in
the session. A failed `Encapsulate` or `Decapsulate` changes nothing and is the
stuttering step. Two key pairs of one component, and two sessions, have
different secrets.

What the failing component keeps is its own affair (`LeftBehind`). `x25519.go`
keeps the old key. `mlkem768.go` returns the error of liboqs, which is not in
this repository, and so a component of `Liboqs` may keep the old key, have none,
or have `Junk`, a private key that belongs to no public key; `SignatureSession`
treats ML-DSA-65 alike.

`KEMContract` says what a caller may rely on. A session stands by the public key
it returned last, unless a `GenerateKeyPair` failed since, in which case it may
stand by none. `Decapsulate` of a ciphertext matches the peer's secret if and
only if it was made for the key the session stands by. The refinement mapping
(`Current`, `Outcome`) compares the components' key pairs with the last public
key, and the derived secret with the peer's.

The contract says nothing of the key that a failed `GenerateKeyPair` leaves, for
neither `kem.go` nor `docs/architecture.md` does: they describe one key
generation and one exchange per session. A hybrid may then hold components of
two calls; what it must not do is agree with anybody.

Cryptography is ideal (no collisions, no forgeries). One assumption is about
liboqs: an ML-KEM session that never had a key pair refuses to decapsulate.

### Framing

The module is parameterised by the number of values of a byte. The code has
256; the proofs hold for every radix, and TLC uses 2, where a prefix carries 0
to 15, so that lengths at, below and above the limit of the prefix can be
enumerated. The conversion to `uint32` is the modulus in `PutUint32`. A slice
out of range would set `returned` to "panic", which `UnframeTypeOK` excludes.

### Signature sessions

`SignatureSession` numbers the key pairs of a session; a signature carries the
key pair and the message it was made with. The two schemes differ in one place,
which `MLDSA65` parameterises: a `GenerateKeyPair` of Ed25519 assigns nothing
before it looks at the error, while one that fails inside liboqs may leave a
private key whose public key nobody has. `Verify` takes any bytes as public key:
`crypto/ed25519` panics on those of a wrong length, and the code asks first
(`Refuses`). The contract is that of `KEMContract` in kind: a session stands by
its last public key, or by none after a failure, and a signature verifies for
its message under the key its session stood by, and for nothing else.

### The pqlab command

`Pqlab` is `main` with its dispatch, `buildRegistry` as one step per
registration, and the two demos as the calls they make, one action each. The
sessions are not those of `HybridKEM` or `SignatureSession` but any that keep
the contracts: each call is the contract's action together with the command's
step, so the demos are checked against every algorithm at once. Any call may
fail (`CallFails`); deferred calls run last-in-first-out (`DeferredClose`). The
demos that run openssl are entered and left here, and modelled in their own
modules.

### The TLS demos

`GoServerDemo` has three actors per run: `main`, the goroutine that serves one
connection, and the `s_client` process, joined by the buffered channel `done`,
the listening port and the context. The goroutine's deferred `conn.Close` is a
step of its own (`CloseConn`) after the send, so `main` may return before it.

`OpenSSLServerDemo` has the command and its `s_server`; its client is folded
into `Connect`, `Succeed` and `Fail`, since nothing else of the run acts while
the command waits for it. Both commands that use `s_server` are in one module,
because they share `waitForPort` and the certificate and because the comment on
the ports is about both; `HybridRuns` says which run is which.

- *Certificates.* A run writes the certificate of its own key (`files`), its
  `s_server` reads what the directory holds when it starts (`served`), and the
  Go client accepts what is `served` if it is the certificate it trusts
  (`Verifies`). That this makes success and own `s_server` the same is a
  property, not a guard.
- *Returns.* A return (`Leave`) sets the result; what the code has deferred
  follows a call at a time and in its order, `Kill`, `Wait`, `RemoveAll`, and
  the run may be killed between any two. `Wait` needs a process that has ended,
  which a signal brings about later (`Exit`). The error returns of
  `generateEphemeralCert` come after `MkdirTemp` has made the directory, and go
  through `RemoveAll` as well. Removing a directory succeeds.

`InteropDemo` is `runInteropTLSDemo`: it instantiates both modules with
variables of their own, and its actions are theirs, put in the order of the
code. The certificate comes first, the first direction lies between it and the
start of `s_server`, which requires that it returned nil, and an error of either
direction makes the deferred calls that are due by then. A killed run is killed
in both.

Several runs overlap, each may be killed at any point (`Crash`), and the
processes of a killed run live on, so that an `s_client` left by one run may
dial the listener of another. Time is abstracted to events: the context
expires, or the deadline passes, whenever they can.

### The certificate demos

Each demo is a sequence of commands (`Migration`, `Rotation`), read off the
code's tables and calls, on the files of a directory; there is one action per
kind of command, which is what makes the sequences comparable to the code line
by line. A key is named by the step that generated it, and a certificate holds
what decides whether it verifies: subject, key, issuer, signer, and whether it
is a CA's. `Verifies` is an ideal `openssl verify -CAfile` without
`-partial_chain`: a chain to a self-signed certificate of the trust file. The
`-copy_extensions` of the cross-certificate, the key its request is for and the
contents of the bundle are therefore behaviour of the model. Any command may
fail, and a verification that fails to run counts as "not verified", as in the
code, which asks only whether the command's error is nil. The deferred removal
of the directory is a step after the return (`RemoveAll`), and a run may be
killed before it.

### The dashboard

`Dashboard` follows a run of benchdash: go test's output, one round of the
scanner at a time, the page, the file. A line is a record of its name's parts
and its (value, unit) pairs; the page is its numbers: the axis of each chart, a
bar for each benchmark, a table row for each one that ran. Values are fixed-point
naturals (`Unit` 100, one hundredth of a nanosecond), and positions on an axis
are exact fractions (`Fine`). The one place where floating point may decide
otherwise, `math.Log10` of a power of ten, is a nondeterministic choice (`low`).

## 3. What the runs check

| Run | Instance | Distinct states | Shows |
|---|---|---|---|
| `registry` | 3 goroutines, 2 algorithms of one name, and a second name that is only looked up; no symmetry | 34 963 | `TypeOK`, `NoMapFault`, `EntriesStable`, `Linearizable`, `CallsReturn` |
| `hybrid_kem` | 2 sessions, N = 2 (X25519, and ML-KEM with liboqs), 2 `GenerateKeyPair` calls each, 2 encapsulations; symmetry of sessions | 126 342 | `TypeOK`, `NoComponentLeak`, `MeetsContract` |
| `framing` | all bit strings up to 11 bits; frames of components of 0 to 17 bits | 11 342 | `UnframeTypeOK`, `ExactInverse`, `RefusesNoFrame` |
| `signature` | one session of each scheme, 2 messages, 2 key pairs each, 2 signatures, malformed public keys | 13 139 | `TypeOK`, `SignaturesVerify`, `MeetsContract` |
| `pqlab` | every shape of the arguments, every name and an unknown one | 429 | `TypeOK`, `SessionsClosed`, `SuccessIsAgreement`, `OnlyFailuresFail` |
| `go_server_returns` | 1 run | violated | `Returns` (finding 1) |
| `openssl_server` | 1 hybrid-tls run, 2 interop-tls runs | 997 830 | `TypeOK`, `GoClientMeetsOwnServer`, `KindsDoNotCollide`, `NothingLeft`, `FilesOutliveUse` |
| `hybrid_tls_returns` | 2 hybrid-tls runs | 13 519 | `Returns` |
| `openssl_server_own` | 2 hybrid-tls runs | violated | `ConnectsToOwnServer` (finding 2) |
| `interop` | 2 runs through both directions | 114 279 | `TypeOK`, `BothDirections`, `NothingCarriedOver`, `ReturnsOnceConnected` |
| `cert_demos` | 1 run of each demo | 3 200 | `TypeOK`, `OnlyFaultsFail`, `KeysFitCertificates`, `ClaimsHold` |
| `dashboard` | outputs of up to 3 lines of 9 kinds; single lines of 1 216 values | 22 725 | `TypeOK`, `SuccessShowsAll`, `PageShowsLastRun`, `BarsFit`, `Log10RoundingHidden`, `CommasReadBack` |

What some of them do not say:

- `SuccessShowsAll` is about the lines that `parseBenchLine` accepts. A line
  without the `-N` suffix is dropped without notice; only if none is left does
  the run fail, and keep the page.
- `BarsFit` is about the scale and the number of gridlines, not their labels.
- `ClaimsHold` evaluates the chains of a run that has succeeded, which the
  script alone decides. It says that a success with a verification that never
  ran still tells the truth; that the code noticed is what `TypeOK` is about,
  for the verdicts that were recorded.
- `NothingCarriedOver` allows the goroutine its deferred `conn.Close`, which may
  come after the second direction has begun, and even after the return.

Bounds and why they are enough:

- *Registry.* Three goroutines are the least with which a pending writer, a
  reader inside and a reader held back meet; a call's behaviour depends on no
  more than one other entry of its name.
- *KEM.* Two sessions can play both roles; two calls of `GenerateKeyPair`
  (`MaxGen`) allow a complete key pair and one that replaces it, in part or in
  whole, or a failure and the recovery from it; two encapsulations
  (`MaxEncaps`) allow reordering and repetition. The proofs do without these
  numbers.
- *Framing.* With radix 2, 11 bits hold two prefixes and three bits of data, and
  every prefix value meets every shorter rest; 17 is past 2^4, where the length
  wraps.
- *Signatures.* Two key pairs (`MaxKey`) are an old and a new one, or one of
  them failed; two signatures (`MaxSigs`) and two messages are one before and
  one after, and one that does not belong. Each session may verify what the
  other signed.
- *pqlab.* The arguments are all there are, up to the name; nothing is bounded.
- *Demos.* Two runs suffice for one to meet what the other left; the
  `s_server` module has a third so that two of a kind meet beside the other
  kind. `Returns` is checked for two hybrid-tls runs, and what it says of
  interop-tls as part of `ReturnsOnceConnected`: a run's waits depend on itself
  and on the `s_server` its client reached, which is one of its kind, for the
  ports differ. The proofs are for any number of runs.
- *Certificate demos.* Runs have a directory of their own and share nothing, so
  one of each is enough; the sequences are complete.
- *Dashboard.* Three lines are an old result, the last one and anything between
  or after them; `PageShowsLastRun`, `SuccessShowsAll` and the largest value
  depend on lines pairwise. The step and the gridlines depend on the first
  digits of the largest value, which 0 to 12 in hundredths covers on both sides
  of 1, 2, 5 and 10; longer numbers are sampled at the same limits, and at the
  lengths where a comma comes in or rounding carries.

Deadlock is checked for the registry, where a goroutine can always call
again. The other systems may stop: all sessions closed, parsed, returned,
written. The demos may also hang, which is finding 1; there the temporal
properties say what does end.

Fairness:

- *Registry.* A goroutine that can run is scheduled (weak fairness), and
  `Lock` is strongly fair: other writers may take the mutex first again and
  again, but `sync.Mutex` hands it over to one that has starved for a
  millisecond. Nothing is assumed of the start of calls.
- *`GoServerDemo`.* `main` and the goroutine are scheduled, the timer fires, a
  killed process ends, and a handshake whose `s_client` is gone fails. Nothing
  is assumed of an `s_client` that lives: it need not dial, and a handshake with
  it need not end, for `Handshake` (`interoptls.go:92`) has no deadline. `Accept`
  need not fail, runs need not be killed.
- *`OpenSSLServerDemo`.* A run is scheduled, its deadlines pass, and a process
  that was killed ends. Dialing a local port succeeds or is refused. A handshake
  ends when its `s_server` is gone or, in hybrid-tls, when the context kills
  `s_client` (`Abandoned`). The Go client has neither context nor deadline
  (`tls.Dial`, `interoptls.go:174`): with its own `s_server`, the context that
  kills that one ends the handshake, with another run's, that run's return
  does. Nothing ends it when the `s_server` is one that a killed run has left;
  `Returns` excepts this case by name (`Stranded`). Nothing else is assumed of
  an `s_server`.
- *`InteropDemo`.* The fairness of both: that of the first direction as it is,
  and of the command's steps and waits in the second. `ReturnsOnceConnected`
  requires that the goroutine serves the run's own `s_client`, which the context
  kills, or one that is gone, and excepts `Stranded`.

The other specifications have no fairness: their properties are about safety.

## 4. What is proved

TLAPS checks every step; nothing is assumed beyond the `ASSUME`s of the
modules, which TLC evaluates for each run.

**Registry** (`RegistryAssumption`: every algorithm has a name; the
placeholders are no algorithms or goroutines). `TypeCorrect`, `FaultFree`,
`Stable`, `Refines`. The inductive invariant adds to `TypeOK` a `LockInv`, which
says who may be at which step given `writer` and `readers` (the steps between
`Drain` and `Unlock` exclude everybody else, a reader's steps are exactly those
of `readers`), and a `DataInv`, which carries what the check found across the
following steps: at `MakeMap` and `Store` the name is still free, and a map that
is not allocated is empty. `NoMapFault` alone is not inductive, since it says
nothing of a writer that waits while a reader enters.

**KEM sessions** (`HybridAssumption`: N positive, placeholders distinct).
`TypeCorrect`, `NoLeak`, `IsAKEM`. The invariant has three parts. `OpenInv` tells
the components that are open inside `New` and `Close`: a first stretch while
`New` opens them, a last one while `Close` closes them, and not none while `New`
unwinds; `NoComponentLeak` is about the two ends and follows. `KeyInv` bounds
every key pair that a component has or a public key names by the session's
calls, so that a complete `GenerateKeyPair` yields a public key never returned
before, which is what the abstract one needs, and says that no component is
behind the public key returned last. `FreshInv` says that no public key is newer
than that one, so that a session whose keys are those of any public key has those
of the last, whatever a failure left in between. `MatchLemma` shows that secrets agree exactly
if the key pairs are those of the public key.

**Framing** (`FramingAssumption`: a radix above 1, inputs are byte strings).
`NeverPanics`, `Exact` and `Complete`. The invariant says that the input is the
frames of the parts read so far followed by the rest. It needs that a prefix is
the one `frame` writes for the number it is read as (`PrefixInverse`), which is
Horner's scheme with four digits. `Complete` has an invariant of its own (`FrameInv`):
for every split of the input that carries both lengths, the parser is where
that split says after each component, and so never short of bytes.

**Signature sessions** (`SignatureAssumption`: placeholders distinct).
`TypeCorrect`, `Ed25519Verifies`, `IsASignature`. The invariant (`KeyInv`) bounds
the number of every key pair that occurs in a session, a public key or a
signature by `generated`, so that the next key pair is new to all three, and
says that the private key of an Ed25519 session has its public key out. The
step of the refinement that is not obvious is a `GenerateKeyPair` that fails: it
maps to the contract's only because the lost key pair is no public key's, now
or later.

**`s_server` demos** (`DemoAssumption`). `TypeCorrect`, `OwnServer`,
`NoCollision`, `Clean`, `FilesOutlive`. `RunInv` says what each step of a run has
behind it: the files are complete from "start" until all deferred calls but the
last are made, there is no `s_server` before "start" and none after `Wait`, and
an `s_server` that listens serves the certificate of its own run. `PortInv`
says that a port belongs to a run of its kind, and `PeerInv` that what a client
connected to was started on its own port by a run past its certificate.
`OwnServer` follows because keys differ between runs, `NoCollision` from
`PeerInv`, and `Clean` and `FilesOutlive` from the order of the deferred calls.

**interop-tls** (`InteropAssumption`: the placeholder is neither a run nor an
outcome). `TypeCorrect`, `Both`, `NothingCarried`, `Directions`.
`GoIInv` is the inductive invariant of the first direction: who holds
the port and what `s_client` and the goroutine may do at each step of `main`
(`GoMainInv`); and that an `s_client` dials the listener of its own run unless
that run was killed, and that one that has finished is served by the goroutine
it dialed (`GoClientInv`). From these a success is mutual even though the
goroutine may have accepted a stranger. A second part shows that each step of
the composition is a step of each direction or leaves it alone (`Steps`), so
that the demo implements the modules of both (`Directions`) and their invariants
carry over, and adds `CompInv`, which relates them: the
first direction has not begun with the certificate, has succeeded when the
second begins, and has returned when the run has. `NothingCarriedOver` needs all
three, since neither direction's module knows of the other.

**pqlab** (`PqlabAssumption`: the placeholder is no result and no session).
`TypeCorrect`, `AllClosed`, `Agreement`, `FailsForCause`, from the two contracts
alone, so for every KEM and signature that keeps them. `DeferInv` says that the
sessions held are those whose `Close` is deferred, in the one order the code
can defer them; `SessionsClosed` is the case where nothing is deferred any more.
`KEMInv` and `SigInv` carry the exchange from call to call: the one public key
that is out is the one the session stands by, and the ciphertext or signature is
for it, so that the comparison at the end cannot fail. `RegistryInv` says what
is registered before each `Register`, and `VerdictInv` what a result or an exit
status has behind it.

**Certificate demos** (no assumption). `TypeCorrect`, `OnlyFaults`, `KeysFit`,
`Claims`, for any number of runs of either demo. The invariant is that
the step a run has reached tells all its files (`Files`): the certificate, key
and request that each name has once its command has run, in closed form. That
makes every later command's input known, so an issue always finds a CA
certificate with its own key (`IssuerIs`), and it makes the invariant hold for
files written later, since no name is written twice with different contents
(`KeysGrow`, `CsrsGrow`, `CrtsGrow`). `AsExpected` computes what `openssl verify`
finds for each check, at its own step or any later one, from the certificates
that a trust file anchors (`TrustFiles`). `OnlyFaultsFail` is not inductive alone,
for nothing in it says what a file holds.

**Dashboard** (`AxisAssumption`: the powers of ten begin with 1 and have no gap;
`DashboardAssumption`: the outputs are sequences of `Lines`, whose benchmark
lines give no unit twice, as go test prints them, and numbers below ten times
some power). `TypeCorrect`, `ShowsAll`, `ShowsLastRun`, `Fits`,
`HidesRounding`, `ReadBack`, and `AxisHoldsValue`, the arithmetic of one axis.
The invariant says that the results are those of the lines scanned, each
benchmark line once and in order, that there is no page before it is rendered
and that it is rendered from the results. The page's properties then are about
`RenderDashboard`:

- *Axes.* The residual is by definition the least of 1, 2, 5 and 10 that reaches
  the value, and each of them is at most two and a half times the one before it;
  the rest is that of rounding up (`Ceiling`). The largest value of a chart is
  one (`MaxValFacts`), so every bar is below the top gridline.
- *Last results.* The last line of a benchmark is the last of its results
  (`LastLine`), since the results keep the order of the lines.
- *Labels.* The digits of a number and the groups of a label are recursive
  functions. The theorems about induction and recursion in the library take an
  operator as a parameter, which the provers cannot instantiate; the first
  section of `DashboardProofs` derives both anew, with sets and functions in the
  operator's place (`Induction`, `Recursion`), from the theorem that strict
  inclusion among finite sets is well-founded. `CommaPartsReadBack` is then an
  induction on the length of the number.

Only model-checked: liveness (`CallsReturn`, `Returns`, `ReturnsOnceConnected`),
which is out of the prover's reach.

## 5. Findings

1. `interoptls.go:114`: `main` waits for the goroutine even when `s_client`
   could not start or failed before connecting; `Accept` never returns then, and
   the run hangs. The error return of lines 118-120 is out of reach.
2. `hybridtls.go:70`: nothing checks that the process on the port is the run's
   own `s_server`; the demo can report success for another run's. The Go client
   of interop-tls is not affected: it trusts only the run's certificate.

Read, without a run:

- `hybridtls.go:117`: `waitForPort` returns nil if its deadline passes before
  the first dial (`Deadline` of `OpenSSLServerDemo`). No property tells: the client
  then meets a closed port and fails, or an `s_server` that has come up.
- `interoptls.go:174`: the Go client has no deadline; the `s_server` of a killed
  run can keep it in its handshake (`Stranded`).
- `render.go:322`: `niceStep` divides a step of 1, 2, 5 or 10 times a power of
  ten by four; its comment, line 303, promises such a step. Ticks of small axes
  are no integers, and their rounded labels are unevenly spaced (0, 13, 25, 38
  for 0, 12.5, 25, 37.5). `BarsFit` shows that the axis still divides into two
  to four and ends above every bar.
- `parse.go:31`: on one CPU go test appends no `-N` to a benchmark's name, and
  every line is skipped; benchdash then ends with an error and keeps the earlier
  page (`SuccessShowsAll`).
- `carotation.go:129`: a verification that fails to run counts as a rejection.
  `ClaimsHold` shows that what the demo reports is true all the same, as long as
  the chains are what they should be.
- `docs/architecture.md` describes `s_client` with `-tls1_3`, which
  `hybridtls.go:74-79` does not pass.

## 6. Not modelled

- The buffer `serverOutput` of `hybridtls.go:71`, which an error path reads while
  the copier of `os/exec` may write it: only the text of an error message
  depends on it.
- Cryptographic arithmetic, liboqs, oqs-provider, OpenSSL and crypto/tls: they
  are external, and modelled by what the code relies on.
- SVG paths, the HTML shell, wording, and printing.
- Tests and benchmarks, the container, CI, and the documents.

## 7. Plan

Done: the registry, the KEM sessions and framing, the signature sessions,
`pqlab`, the TLS demos and their composition, the certificate demos, the
dashboard, each checked; and the proofs of section 4, which state every
invariant and action property of the passing runs. Left, in this order:

1. One module for the two TLS demos beside each other, `hybrid-tls` and both
   directions of `interop-tls`; now they meet in the `s_server` module only.
2. The exit of the goroutine with the process, after the return of `main`, when
   `conn.Close` has not run.
