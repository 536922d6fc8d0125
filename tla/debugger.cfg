SPECIFICATION Spec
CONSTANTS
  Code = {1, 2, 3, 4, 8, 9}
  Entry = 1
  Flow <- ModelFlow
  Halting = {4}
  Failing = {3}
  Unknown = {9}
  OpcodeOf <- ModelOpcodes
  CalleeOf <- ModelCallees
  FunctionOf <- ModelFunctions
  OperandsOf <- ModelOperands
  MisreadOf <- ModelMisreads
  Functions = {"main"}
  Registers = {1}
  Null = Null
  TickCounts <- ModelTicks
  ResumeCounts = {0, 1, 2}
  MaxStops = 1
CHECK_DEADLOCK FALSE
INVARIANTS
  TypeOK
  TicksExact
  StopsHonoured
  WaitsForRequest
PROPERTIES
  Transparent
  TicksEnd
  RunStops
