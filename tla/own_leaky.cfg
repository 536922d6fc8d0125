SPECIFICATION Spec
CONSTANTS
  Null = Null
  Objects <- Addresses
  Cells <- CellAddresses
  u = u  v = v
  Values = {u, v}
  Registers = {0, 1}
  Slots = {1}
  Rules = {"flat_references", "lent_untouched", "catch_outside"}
  MaxFrames = 2
  MaxLive = 3
SYMMETRY ValueSymmetry
INVARIANTS NoDoubleFree CountsMatch
