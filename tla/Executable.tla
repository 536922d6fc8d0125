----------------------------- MODULE Executable ----------------------------
(***************************************************************************)
(* The readers of an image: Loader, which the linker, the CPU's front end  *)
(* and the disassembler use, and the disassembler's front end (dis.cpp).   *)
(***************************************************************************)
EXTENDS Encoding

\* loadmap: the order of the names in the file, and the address of each; of
\* several entries for a name the last one counts.
LoadMap(table) ==
  [order |-> [i \in DOMAIN table |-> table[i][1]],
   mapping |-> [name \in {table[i][1] : i \in DOMAIN table} |->
                  table[Max({i \in DOMAIN table : table[i][1] = name})][2]]]

LoadJumpTable(image) == image.jumps
LoadFunctionsMap(image) == LoadMap(image.functions)
LoadBlocksMap(image) == LoadMap(image.blocks)
LoadBytecode(image) == [size |-> image.size, code |-> image.code]

\* A function extends to the next one of the table, the last one to the end.
CalculateFunctionSizes(functions, size) ==
  LET order == functions.order
      from(i) == functions.mapping[order[i]]
      to(i) == IF i < Len(order) THEN from(i + 1) ELSE size
  IN [name \in ToSet(order) |->
        LET i == Max({j \in DOMAIN order : order[j] = name}) IN to(i) - from(i)]

\* Loader::executable, and Loader::load for a library, which has a table of
\* jumps in front.
ExecutableOf(image) ==
  LET functions == LoadFunctionsMap(image)
      bytecode == LoadBytecode(image)
  IN [functions |-> functions, blocks |-> LoadBlocksMap(image),
      sizes |-> CalculateFunctionSizes(functions, bytecode.size),
      size |-> bytecode.size, code |-> bytecode.code]
LibraryOf(image) ==
  LET executable == ExecutableOf(image)
  IN [functions |-> executable.functions, blocks |-> executable.blocks, sizes |-> executable.sizes,
      size |-> executable.size, code |-> executable.code, jumps |-> LoadJumpTable(image)]

-----------------------------------------------------------------------------
\* A block extends to the next one, the last one to the first function.
BlockSizes(loaded) ==
  LET order == loaded.blocks.order
      from(i) == loaded.blocks.mapping[order[i]]
      to(i) == IF i < Len(order) THEN from(i + 1)
               ELSE loaded.functions.mapping[loaded.functions.order[1]]
  IN [name \in ToSet(order) |->
        LET i == Max({j \in DOMAIN order : order[j] = name}) IN to(i) - from(i)]

\* The lines of the size bytes from address on, each instruction where the
\* one before ended.
DisassembledLines(code, address, size) ==
  LET from[j \in Nat] ==
        IF j >= size THEN <<>>
        ELSE <<DisassembledLine(code[address + j])>> \o from[j + DisassembledSize(code[address + j])]
  IN from[0]

\* Blocks first, then functions, in the order of their tables; the entry
\* function only on request.
Disassembly(loaded) ==
  LET block_sizes == BlockSizes(loaded)
      element(directive, name, address, size) ==
        <<[op |-> directive, args |-> <<name>>]>> \o DisassembledLines(loaded.code, address, size)
        \o <<[op |-> ".end", args |-> <<>>]>>
      block(name) == element(".block:", name, loaded.blocks.mapping[name], block_sizes[name])
      function(name) == element(".function:", name, loaded.functions.mapping[name], loaded.sizes[name])
      shown == SelectSeq(loaded.functions.order, LAMBDA name : name # "__entry")
  IN FlattenSeq([i \in DOMAIN loaded.blocks.order |-> block(loaded.blocks.order[i])])
     \o FlattenSeq([i \in DOMAIN shown |-> function(shown[i])])
=============================================================================
