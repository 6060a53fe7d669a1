----------------------------- MODULE Dashboard -----------------------------
(***************************************************************************)
(* Command benchdash (cmd/benchdash): it runs go test, reads the benchmark *)
(* lines of its output, renders charts and tables, and replaces the page   *)
(* of an earlier run.                                                      *)
(*                                                                         *)
(* go test and the file system are external.  A benchmark line is a record *)
(* of its name's parts and its (value, unit) pairs; SVG and HTML layout    *)
(* and the other texts of the page are left out.                           *)
(***************************************************************************)
EXTENDS Axis, SequencesExt

CONSTANTS
  Lines,    \* the lines go test may print
  Outputs,  \* what it may print
  NaN       \* a field that is no number

\* A benchmark line gives a unit once, and a number that the axis has a power of
\* ten for.
ASSUME DashboardAssumption ==
  /\ Outputs \subseteq Seq(Lines)
  /\ \A line \in Lines : line.kind = "benchmark" =>
       /\ line.pairs \in Seq((Nat \union {NaN}) \X STRING)
       /\ \A i, j \in DOMAIN line.pairs : line.pairs[i][2] = line.pairs[j][2] => i = j
       /\ \A i \in DOMAIN line.pairs :
            line.pairs[i][1] # NaN => \E p \in Powers : line.pairs[i][1] < 10 * p

Suites == {"KEM", "Signature"}
Units  == {"ns/op", "B/op", "allocs/op"}

\* The table `algorithms`, by suite, and suiteOperations.
Algorithms(suite) ==
  IF suite = "KEM" THEN {"X25519", "MLKEM768", "Hybrid"} ELSE {"Ed25519", "MLDSA65"}

Operations(suite) ==
  {"GenerateKeyPair"} \union
    (IF suite = "KEM" THEN {"Encapsulate", "Decapsulate"} ELSE {"Sign", "Verify"})

VARIABLES
  pc,       \* the next step of main, or "exited"
  output,   \* the lines go test printed
  next,     \* the line parseBenchOutput reads next
  results,  \* the results it has parsed
  page,     \* the charts and tables of renderDashboard
  file,     \* dashboard.html: of an "earlier" run, "partial", or this "page"
  exit      \* the exit status

vars == <<pc, output, next, results, page, file, exit>>

NoPage == [charts |-> <<>>, tables |-> <<>>]

Init ==
  /\ pc = "go test" /\ output = <<>> /\ next = 1 /\ results = <<>>
  /\ page = NoPage /\ file = "earlier" /\ exit = -1

-----------------------------------------------------------------------------
(* parse.go *)

\* Mutant: any name of an operation will do.
IsResultAny(line) == line.kind = "benchmark" /\ line.cpus

\* benchNameRE: a known operation, and the -N that go test adds to the name
\* when it runs on more than one CPU; and at least one (value, unit) pair.
IsResult(line) ==
  /\ line.kind = "benchmark" /\ line.cpus /\ line.pairs # <<>>
  /\ line.operation \in UNION {Operations(s) : s \in Suites}

\* B/op and allocs/op are converted to integers.
Converted(pair) == IF pair[2] = "ns/op" THEN pair[1] ELSE Unit * (pair[1] \div Unit)

\* Mutant: a pair is told by its place, not by its unit.
MeasuredInOrder(line) ==
  LET Value(i) == IF i \in DOMAIN line.pairs THEN line.pairs[i][1] ELSE 0
  IN  [u \in Units |-> CASE u = "ns/op" -> Value(1) [] u = "B/op" -> Value(2) [] OTHER -> Value(3)]

\* The pairs in any order, a later one replacing an earlier one; a unit that is
\* missing counts as 0.
Measured(line) ==
  [u \in Units |->
     LET given == {i \in DOMAIN line.pairs : line.pairs[i][1] # NaN /\ line.pairs[i][2] = u}
     IN  IF given = {} THEN 0 ELSE Converted(line.pairs[Max(given)])]

ParseBenchLine(line) ==
  [algorithm |-> line.algorithm, operation |-> line.operation, measured |-> Measured(line)]

-----------------------------------------------------------------------------
(* render.go *)

ResultsOf(rs, a, op) == {i \in DOMAIN rs : rs[i].algorithm = a /\ rs[i].operation = op}

Has(rs, a, op) == ResultsOf(rs, a, op) # {}

\* A later result of a benchmark replaces an earlier one.
LastResult(rs, a, op) == rs[Max(ResultsOf(rs, a, op))]

\* Every result of the suite's algorithms counts, replaced ones included.
MaxVal(rs, suite, unit) ==
  Max({0} \union
      {rs[i].measured[unit] : i \in {j \in DOMAIN rs : rs[j].algorithm \in Algorithms(suite)}})

Value(rs, a, op, unit) == IF Has(rs, a, op) THEN LastResult(rs, a, op).measured[unit] ELSE 0

RenderBarChart(rs, suite, unit, low) ==
  LET maxVal == MaxVal(rs, suite, unit)
      step   == NiceStep(maxVal, low)
  IN  [step  |-> step,
       ticks |-> [i \in 1 .. Gridlines(maxVal, step) + 1 |-> (i - 1) * step],
       top   |-> Top(maxVal, step),
       bars  |-> [row \in Operations(suite) \X Algorithms(suite) |->
                    Fine * Value(rs, row[2], row[1], unit)]]

\* A row for every benchmark of the suite that has a result.
RenderTable(rs, suite) ==
  LET rows == {row \in Operations(suite) \X Algorithms(suite) : Has(rs, row[2], row[1])}
  IN  [row \in rows |->
         [u \in Units |-> Label(Fine * LastResult(rs, row[2], row[1]).measured[u])]]

RenderDashboard(rs, low) ==
  [charts |-> [k \in Suites \X Units |-> RenderBarChart(rs, k[1], k[2], low)],
   tables |-> [suite \in Suites |-> RenderTable(rs, suite)]]

-----------------------------------------------------------------------------
(* main.go *)

Exit(status) == pc' = "exited" /\ exit' = status

RunBenchmarks ==
  /\ pc = "go test"
  /\ pc' = "scan"
  /\ output' \in Outputs
  /\ UNCHANGED <<next, results, page, file, exit>>

\* go test is missing, or a package does not build or fails.
RunBenchmarksFails ==
  /\ pc = "go test"
  /\ Exit(1)
  /\ UNCHANGED <<output, next, results, page, file>>

\* parseBenchOutput: one round of its loop.
Scan ==
  /\ pc = "scan" /\ next <= Len(output) /\ output[next].kind # "too long"
  /\ next' = next + 1
  /\ results' = IF IsResult(output[next])
                THEN Append(results, ParseBenchLine(output[next])) ELSE results
  /\ UNCHANGED <<pc, output, page, file, exit>>

\* Mutant: scanner.Err is not asked.
ScanFailsUnnoticed ==
  /\ pc = "scan" /\ next <= Len(output) /\ output[next].kind = "too long"
  /\ pc' = "render"
  /\ UNCHANGED <<output, next, results, page, file, exit>>

\* The line is longer than the scanner's buffer.
ScanFails ==
  /\ pc = "scan" /\ next <= Len(output) /\ output[next].kind = "too long"
  /\ Exit(1)
  /\ UNCHANGED <<output, next, results, page, file>>

ScanEnds ==
  /\ pc = "scan" /\ next > Len(output)
  /\ IF results = <<>> THEN Exit(1) ELSE pc' = "render" /\ UNCHANGED exit
  /\ UNCHANGED <<output, next, results, page, file>>

Render ==
  /\ pc = "render"
  /\ pc' = "write"
  /\ \E low \in BOOLEAN : page' = RenderDashboard(results, low)
  /\ UNCHANGED <<output, next, results, file, exit>>

WriteFile ==
  /\ pc = "write"
  /\ \/ file' = "page" /\ Exit(0)
     \/ file' \in {"earlier", "partial"} /\ Exit(1)
  /\ UNCHANGED <<output, next, results, page>>

Next ==
  RunBenchmarks \/ RunBenchmarksFails \/ Scan \/ ScanFails \/ ScanEnds \/ Render
    \/ WriteFile

Spec == Init /\ [][Next]_vars

-----------------------------------------------------------------------------
(* Properties *)

Charts == IF page = NoPage THEN {} ELSE {page.charts[k] : k \in Suites \X Units}

\* Type invariant.
TypeOK ==
  /\ pc \in {"go test", "scan", "render", "write", "exited"}
  /\ output \in Outputs \union {<<>>} /\ next \in 1 .. Len(output) + 1
  /\ \A i \in DOMAIN results :
       /\ results[i].operation \in UNION {Operations(s) : s \in Suites}
       /\ results[i].measured \in [Units -> Nat]
  /\ file \in {"earlier", "partial", "page"} /\ exit \in {-1, 0, 1}
  /\ pc = "exited" <=> exit # -1

\* The results are those of the first n lines, every line IsResult accepts once
\* and in the order go test printed them.
ResultsOfLines(n) ==
  \E place \in [DOMAIN results -> 1 .. n] :
    /\ {place[k] : k \in DOMAIN results} = {i \in 1 .. n : IsResult(output[i])}
    /\ \A j, k \in DOMAIN results : j < k => place[j] < place[k]
    /\ \A k \in DOMAIN results : results[k] = ParseBenchLine(output[place[k]])

\* benchdash reports success only for a page made of every line that go test
\* printed and parseBenchLine accepts, in order; a run that fails before leaves
\* the earlier page (main.go:20-39, parse.go:73-84).
SuccessShowsAll ==
  /\ exit = 0 => ResultsOfLines(Len(output))
  /\ file # "earlier" => next = Len(output) + 1 /\ results # <<>>

\* The value go test printed last for a benchmark, whatever the order of its
\* units, is the one its bar stands for and the one in the table; a benchmark
\* that did not run has no row and an empty bar (render.go:163-175, 276-297).
PageShowsLastRun ==
  page # NoPage =>
    \A suite \in Suites, unit \in Units :
      \A op \in Operations(suite), a \in Algorithms(suite) :
        LET runs  == {i \in DOMAIN output :
                        /\ IsResult(output[i])
                        /\ output[i].algorithm = a /\ output[i].operation = op}
            given == {p \in ToSet(output[Max(runs)].pairs) : p[1] # NaN /\ p[2] = unit}
            bar   == page.charts[<<suite, unit>>].bars[<<op, a>>]
        IN  IF runs = {} THEN bar = 0 /\ <<op, a>> \notin DOMAIN page.tables[suite]
            ELSE /\ \A p \in given : bar = Fine * Converted(p)
                 /\ given = {} => bar = 0
                 /\ page.tables[suite][<<op, a>>][unit] = Label(bar)

\* Every bar fits under the top gridline, and two to four gridlines divide the
\* axis ("roughly 4", render.go:304), also when -count or several CPUs give
\* several results of a benchmark (render.go:163-182).
BarsFit ==
  \A c \in Charts :
    /\ \A k \in DOMAIN c.bars : c.bars[k] <= c.top
    /\ c.ticks[Len(c.ticks)] = c.top
    /\ Len(c.ticks) - 1 \in 2 .. 4 \/ \A k \in DOMAIN c.bars : c.bars[k] = 0

\* The page does not depend on which way Log10 of a power of ten is rounded
\* (render.go:309-310).
Log10RoundingHidden ==
  page # NoPage => \A low \in BOOLEAN : page = RenderDashboard(results, low)

\* What the table and the labels show reads back as the number: groups of
\* three digits after the first, which is not empty (render.go:336-353).
CommasReadBack ==
  page # NoPage =>
    \A suite \in Suites : \A row \in DOMAIN page.tables[suite] : \A u \in Units :
      LET parts == page.tables[suite][row][u]
      IN  /\ FlattenSeq(parts) =
               FormatInt[Rounded(page.charts[<<suite, u>>].bars[row])]
          /\ Len(parts[1]) \in 1 .. 3
          /\ \A i \in 2 .. Len(parts) : Len(parts[i]) = 3
=============================================================================
