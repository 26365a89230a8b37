\* Every kind of instruction, whatever byte an acknowledge cycle shows; the
\* tracer is switched at any edge.
SPECIFICATION Spec
CONSTANTS
  Addr = {0, 1}
  Operands <- MCOperands
  Data <- MCData
  AckByte = {"op", "dd", "ed", "cb"}
  AckMore = {FALSE, TRUE}
  MaxOff = 1
PROPERTIES ReportsAreExact ImplementsCpuSteps
