SPECIFICATION Spec
CONSTANTS
  Null = Null
  Objects <- Addresses
  Cells <- CellAddresses
  u = u  v = v
  Values = {u, v}
  Registers = {0, 1}
  Slots = {1}
  Rules = {"flat_references", "lent_untouched", "catch_outside",
           "move_to_empty", "take_first", "no_empty"}
  MaxFrames = 2
  MaxLive = 3
SYMMETRY ValueSymmetry
INVARIANTS TypeOK OneOwner
PROPERTIES ImplementsRegisterSemantics
