\* A tracer that is turned on between an opcode and its operand.
SPECIFICATION Spec
CONSTANTS
  Addr = {0, 1}
  Operands <- MCOperands
  Data <- MCData
  AckByte = {"op", "dd", "ed", "cb"}
  AckMore = {FALSE, TRUE}
  MaxOff = 1
PROPERTY NoDataInTraces
