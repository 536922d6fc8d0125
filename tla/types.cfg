SPECIFICATION Spec
CONSTANTS
  A = A
  B = B
  Names <- ModelNames
  Object = Object
  BuiltIn = BuiltIn
  Methods = {m}
  Defined = {f}
  Undefined = {missing}
  ObjectMethod = set
  r1 = r1
  r2 = r2
  Registers <- ModelRegisters
  Addresses <- ModelAddresses
  Null = Null
  MaxEdits = 3
SYMMETRY ModelSymmetry
CHECK_DEADLOCK FALSE
INVARIANTS
  TypeOK
  EntriesIntact
  BasesRegistered
  AncestryAcyclic
  ChainComplete
  DerivedFirst
  MethodsResolve
  NoCrash
PROPERTIES
  ResolutionStable
  NearestAnswers
