SPECIFICATION Spec
CONSTANTS
  Capacity = 3
  Byte = {0, 1}
  MaxInput = 4
  MaxWritten = 6
  Inputs <- MCInputs
PROPERTY ImplementsFifo
CHECK_DEADLOCK FALSE
