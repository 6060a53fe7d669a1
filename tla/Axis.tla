-------------------------------- MODULE Axis --------------------------------
(***************************************************************************)
(* The arithmetic of the dashboard's charts (cmd/benchdash/render.go): the *)
(* gridline step for the largest value of a chart, the top of its axis,    *)
(* its gridlines, and the label of a value.                                *)
(*                                                                         *)
(* A float64 is an exact fraction here: a value is a natural number of     *)
(* 1/Unit, a position on the axis one of 1/(Fine * Unit).  Its rounding    *)
(* matters in one place: math.Log10 of a power of ten may come out just    *)
(* below the integer, as it does for 1000; then `low` holds.               *)
(***************************************************************************)
EXTENDS Naturals, Sequences, FiniteSets, FiniteSetsExt

CONSTANTS
  Unit,   \* what go test prints is a multiple of 1/Unit
  Powers  \* the powers of ten, or the lower ones, from 1 to above every value / 10

ASSUME AxisAssumption ==
  /\ Unit \in Nat \ {0}
  /\ Powers \subseteq Nat \ {0} /\ 1 \in Powers
  /\ \A p, q \in Powers : p < q => 10 * p \in Powers

Fine == 40

\* Ten times the magnitude of v, a positive value.
Magnitude10(v, low) ==
  LET p == Max({q \in Powers : q <= v})
  IN  IF low /\ p = v THEN p ELSE 10 * p

NiceResidual(v, m) == Min({n \in {1, 2, 5} : 10 * v <= n * m} \union {10})

\* Mutant: "residual < 1", and 1 goes with the residuals up to 2.
NiceStepStrict(v, low) ==
  IF v = 0 THEN Fine * Unit
  ELSE LET m == Magnitude10(v, low)
       IN  (IF 10 * v = m THEN 2 ELSE NiceResidual(v, m)) * m

NiceStep(v, low) ==
  IF v = 0 THEN Fine * Unit
  ELSE LET m == Magnitude10(v, low) IN NiceResidual(v, m) * m

\* Mutant: math.Floor for math.Ceil.
GridlinesFloor(v, step) == (Fine * v) \div step

\* Gridlines above the baseline: math.Ceil(maxVal/step), or 1/step.
Gridlines(v, step) ==
  IF v = 0 THEN 1 ELSE (Fine * v + step - 1) \div step

Top(v, step) == step * Gridlines(v, step)

\* math.Round of a position on the axis.
Rounded(x) == (x + (Fine * Unit) \div 2) \div (Fine * Unit)

-----------------------------------------------------------------------------
(* formatCommaInt, on the digits strconv.FormatInt writes *)

Digits == 0 .. 9

FormatInt[n \in Nat] == IF n < 10 THEN <<n>> ELSE Append(FormatInt[n \div 10], n % 10)

\* Mutant: "for len(s) >= 3".
CommaPartsGreedy(digits) ==
  LET parts[s \in Seq(Digits)] ==
        IF Len(s) < 3 THEN <<s>>
        ELSE Append(parts[SubSeq(s, 1, Len(s) - 3)], SubSeq(s, Len(s) - 2, Len(s)))
  IN  parts[digits]

CommaParts(digits) ==
  LET parts[s \in Seq(Digits)] ==
        IF Len(s) <= 3 THEN <<s>>
        ELSE Append(parts[SubSeq(s, 1, Len(s) - 3)], SubSeq(s, Len(s) - 2, Len(s)))
  IN  parts[digits]

Label(x) == CommaParts(FormatInt[Rounded(x)])
=============================================================================
