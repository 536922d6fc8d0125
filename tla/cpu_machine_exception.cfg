SPECIFICATION Spec
CONSTANTS
  main = main  g = g  ext = ext  body = body  handler = handler  lib = lib
  a1 = a1  a2 = a2  a3 = a3  a4 = a4  a5 = a5
  Null = Null  Start = Start  Exit = Exit  Bytecode = Bytecode
  Types <- AllTypes
  CatchTypes = {"Exception"}
  Blocks = {body, handler}
  Chains <- Derivation
  Thrown <- ObjectsThrown
  Functions = {main}
  Main = main
  Foreign = {ext}
  Addr = {a1, a2, a3, a4}
  Modules = {Bytecode}
  HighModules = {}
  ModuleOf <- OneModule
  Rules = {"end_in_function", "leave_in_block", "jumps_stay"}
  MAX_STACK_SIZE = 2
  MaxTryFrames = 2
SYMMETRY AddrSymmetry
PROPERTIES ImplementsStructuredControl
