----------------------------- MODULE MCDashboard -----------------------------
(***************************************************************************)
(* An instance of Dashboard: short outputs of different lines, and single  *)
(* lines whose values sweep the axis of a chart.                           *)
(***************************************************************************)
EXTENDS Dashboard

Line(a, op, cpus, pairs) ==
  [kind |-> "benchmark", algorithm |-> a, operation |-> op, cpus |-> cpus, pairs |-> pairs]

\* Two results of one benchmark, units in another order, missing or unreadable,
\* another unit, an unknown algorithm and an unknown operation, a line of a run
\* on one CPU, a PASS line.
SomeLines ==
  {Line("X25519", "Encapsulate", TRUE, <<<<30012, "ns/op">>, <<800, "B/op">>, <<100, "allocs/op">>>>),
   Line("X25519", "Encapsulate", TRUE, <<<<4250, "MB/s">>, <<1600, "B/op">>, <<2950, "ns/op">>>>),
   Line("Hybrid", "Encapsulate", TRUE, <<<<NaN, "ns/op">>, <<1200, "allocs/op">>>>),
   Line("Ed25519", "Verify", TRUE, <<<<10000, "ns/op">>, <<0, "B/op">>, <<0, "allocs/op">>>>),
   Line("Kyber", "Encapsulate", TRUE, <<<<7000, "ns/op">>>>),
   Line("X25519", "Unknown", TRUE, <<<<7000, "ns/op">>>>),
   Line("X25519", "Encapsulate", FALSE, <<<<7000, "ns/op">>>>),
   [kind |-> "other"], [kind |-> "too long"]}

\* 0 to 12 ns in steps of a hundredth, and numbers of four to seven digits.
Values ==
  0 .. 1200 \union {10000, 12345, 99949, 99950, 100000, 100001, 200000, 200001, 500000,
                    500001, 1000000, 1234500, 10000000, 10000100, 10050000}

SweepLines ==
  {Line("MLKEM768", "Decapsulate", TRUE, <<<<v, u>>>>) : v \in Values, u \in {"ns/op", "B/op"}}

MCLines == SomeLines \union SweepLines

MCOutputs ==
  UNION {[1 .. n -> SomeLines] : n \in 0 .. 3} \union {<<line>> : line \in SweepLines}

MCPowers == {10^k : k \in 0 .. 7}
=============================================================================
