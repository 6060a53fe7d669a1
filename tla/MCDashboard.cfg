\* Outputs of up to three lines, and single lines whose value sweeps the axis;
\* benchdash stops once it has written the page.
SPECIFICATION Spec
CONSTANTS
  NaN = NaN
  Unit = 100
  Powers <- MCPowers
  Lines <- MCLines
  Outputs <- MCOutputs
CHECK_DEADLOCK FALSE
INVARIANTS
  TypeOK
  SuccessShowsAll
  PageShowsLastRun
  BarsFit
  Log10RoundingHidden
  CommasReadBack
