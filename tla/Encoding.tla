------------------------------ MODULE Encoding ------------------------------
(***************************************************************************)
(* The byte format of instructions, as the five parts of the repository    *)
(* that must agree on it see it: cg/bytecode/instructions.cpp emits it,    *)
(* maps.h and Program::countBytes compute its size from the source line,   *)
(* Program::getInstructionBytecodeOffset walks over it, and                *)
(* cg/disassembler reads it back.                                          *)
(*                                                                         *)
(* A line or an instruction is a record [op, args]: op is the mnemonic,    *)
(* args the operands, in order.  A register operand is <<"", n>> (the      *)
(* register n), <<"@", n>> (the register whose index register n holds) or, *)
(* in a source line, <<"name", x>> and <<"@name", x>>.  Names and strings  *)
(* are TLA+ strings, whose lengths are what the sizes depend on.           *)
(***************************************************************************)
EXTENDS Lines, SequencesExt

-----------------------------------------------------------------------------
\* A name or string ends with a zero.  (Its length is a number: the provers do
\* not know that of the Len of a string.)
TextSize(text) == (IF Len(text) \in Nat THEN Len(text) ELSE 0) + 1

\* What instructions.cpp emits after the opcode: one kind of field after the
\* other.  The bytes of a field: an operand is a bool and an int, a jump
\* target and the number of a register set are ints, a byte literal has the
\* same flag as an operand.
FieldSize(kind, value) ==
  CASE kind = "operand" -> 5
    [] kind \in {"target", "set", "float"} -> 4
    [] kind = "byte" -> 2
    [] kind = "name" -> TextSize(value)

One == <<"operand">>
Two == <<"operand", "operand">>
Three == <<"operand", "operand", "operand">>
Named == <<"operand", "name">>

\* Tables that have no mnemonic in common, as one.
Merged(tables) ==
  [op \in UNION {DOMAIN t : t \in tables} |-> (CHOOSE t \in tables : op \in DOMAIN t)[op]]

NopLayout == [op \in {"nop"} |-> <<>>]
IntegerLayout ==
  Merged({
    [op \in {"izero", "iinc", "idec"} |-> One], [op \in {"istore"} |-> Two],
    [op \in {"iadd", "isub", "imul", "idiv", "ilt", "ilte", "igt", "igte", "ieq"} |-> Three]})
FloatLayout ==
  Merged({
    [op \in {"fstore"} |-> <<"operand", "float">>],
    [op \in {"fadd", "fsub", "fmul", "fdiv", "flt", "flte", "fgt", "fgte", "feq"} |-> Three]})
ByteLayout == [op \in {"bstore"} |-> <<"operand", "byte">>]
CastLayout == [op \in {"itof", "ftoi", "stoi", "stof"} |-> Two]
StringLayout == [op \in {"strstore"} |-> Named]
VectorLayout ==
  Merged({
    [op \in {"vec"} |-> One], [op \in {"vpush", "vlen"} |-> Two],
    [op \in {"vinsert", "vpop", "vat"} |-> Three]})
LogicLayout == Merged({[op \in {"not"} |-> One], [op \in {"and", "or"} |-> Three]})
RegisterLayout ==
  Merged({
    [op \in {"free", "empty", "tmpri", "tmpro"} |-> One], [op \in {"ress"} |-> <<"set">>],
    [op \in {"move", "copy", "ref", "swap", "isnull"} |-> Two]})
OutputLayout == [op \in {"print", "echo"} |-> One]
ClosureLayout ==
  Merged({
    [op \in {"clbind"} |-> One], [op \in {"closure", "function"} |-> Named],
    [op \in {"fcall"} |-> Two]})
CallLayout ==
  Merged({
    [op \in {"frame", "param", "paref", "arg"} |-> Two], [op \in {"argc"} |-> One],
    [op \in {"call"} |-> Named]})
JumpLayout ==
  Merged({
    [op \in {"jump"} |-> <<"target">>],
    [op \in {"branch"} |-> <<"operand", "target", "target">>]})
BlockLayout ==
  Merged({
    [op \in {"try", "leave"} |-> <<>>], [op \in {"catch"} |-> <<"name", "name">>],
    [op \in {"pull", "throw"} |-> One], [op \in {"enter"} |-> <<"name">>]})
LinkLayout == [op \in {"import", "link"} |-> <<"name">>]
ObjectLayout ==
  Merged({
    [op \in {"class", "derive", "new", "msg"} |-> Named], [op \in {"register"} |-> One],
    [op \in {"attach"} |-> <<"operand", "name", "name">>]})
StopLayout == [op \in {"end", "halt"} |-> <<>>]

Layout ==
  Merged({
    NopLayout, IntegerLayout, FloatLayout, ByteLayout, CastLayout, StringLayout,
    VectorLayout, LogicLayout, RegisterLayout, OutputLayout, ClosureLayout, CallLayout,
    JumpLayout, BlockLayout, LinkLayout, ObjectLayout, StopLayout})

\* The offset of field i in an instruction, and what the instruction takes: no
\* layout has more than three fields.
OffsetIn(layout, args, i) ==
  LET before(j) == IF j < i THEN FieldSize(layout[j], args[j]) ELSE 0
  IN 1 + before(1) + before(2) + before(3)
FieldOffset(instruction, i) == OffsetIn(Layout[instruction.op], instruction.args, i)
EmittedSize(instruction) ==
  LET size(layout) == OffsetIn(layout, instruction.args, Len(layout) + 1)
  IN size(Layout[instruction.op])

-----------------------------------------------------------------------------
\* maps.h: the fixed part of each instruction the source may name, more of
\* them than instructions.cpp can emit.
OpSize ==
  Merged({
    [op \in {"nop", "catch", "try", "enter", "leave", "import", "link", "end", "halt"} |-> 1],
    [op \in {"ress", "jump"} |-> 5],
    [op \in {"izero", "iinc", "idec", "binc", "bdec", "strstore", "vec", "bool", "not", "free",
              "empty", "tmpri", "tmpro", "print", "echo", "clbind", "closure", "function",
              "call", "argc", "throw", "pull", "class", "prototype", "derive", "attach",
              "register", "new", "msg"} |-> 6],
    [op \in {"bstore"} |-> 8], [op \in {"fstore"} |-> 10],
    [op \in {"istore", "itof", "ftoi", "stoi", "stof", "vpush", "vlen", "move", "copy", "ref",
              "swap", "isnull", "fcall", "frame", "param", "paref", "arg"} |-> 11],
    [op \in {"branch"} |-> 14],
    [op \in {"iadd", "isub", "imul", "idiv", "ilt", "ilte", "igt", "igte", "ieq", "fadd",
              "fsub", "fmul", "fdiv", "flt", "flte", "fgt", "fgte", "feq", "badd", "bsub",
              "blt", "blte", "bgt", "bgte", "beq", "streq", "vinsert", "vpop", "vat", "and",
              "or"} |-> 16]})

IsDirective(line) == SubSeq(line.op, 1, 1) = "."

\* Directives begin with a dot and mnemonics do not (the provers do not look into
\* strings).
ASSUME MnemonicsHaveNoDot == \A op \in DOMAIN OpSize : ~IsDirective([op |-> op])
ASSUME DirectivesHaveADot ==
  \A op \in {".function:", ".block:", ".end", ".mark:", ".name:", ".main:", ".link:",
             ".signature:", ".bsignature:", ".type:"} : IsDirective([op |-> op])

\* One name, two or none.
SizeOfNames(names) ==
  LET size(i) == IF i \in DOMAIN names THEN TextSize(names[i]) ELSE 0
  IN size(1) + size(2)

\* A name that is not given is empty; what is written for a register.
TextAt(args, i) == IF i \in DOMAIN args THEN args[i] ELSE ""
RegisterText(reg) ==
  (IF reg[1] \in {"@", "@name"} THEN "@" ELSE "")
  \o (IF reg[1] \in {"name", "@name"} THEN reg[2] ELSE ToString(reg[2]))

\* Program::countBytes for one line: a directive takes nothing; the names are
\* looked for in the text of the line, and the register of a msg that gives no
\* method is taken for one.
CountedNames(line) ==
  LET a == line.args
  IN CASE line.op \in {"enter", "import", "link"} -> <<TextAt(a, 1)>>
       [] line.op = "call" -> <<IF Len(a) = 1 THEN a[1] ELSE TextAt(a, 2)>>
       [] line.op = "msg" -> <<IF Len(a) = 1 THEN RegisterText(a[1]) ELSE TextAt(a, 2)>>
       [] line.op \in {"closure", "function", "class", "prototype", "derive", "new", "strstore"} ->
            <<TextAt(a, 2)>>
       [] line.op = "attach" -> <<TextAt(a, 2), TextAt(a, 3)>>
       [] line.op = "catch" -> <<TextAt(a, 1), TextAt(a, 2)>>
       [] OTHER -> <<>>
CountedSize(line) ==
  IF IsDirective(line) THEN 0 ELSE OpSize[line.op] + SizeOfNames(CountedNames(line))
CountBytes(lines) == Total([i \in DOMAIN lines |-> CountedSize(lines[i])])

\* Faulty variant: the name that a msg carries is not walked over.
WalkedNamesButOfMsg(instruction) ==
  LET a == instruction.args
  IN CASE instruction.op \in {"import", "enter", "link"} -> <<a[1]>>
       [] instruction.op \in {"call", "closure", "function", "class", "prototype", "derive",
                              "new", "strstore"} -> <<a[2]>>
       [] instruction.op = "attach" -> <<a[2], a[3]>>
       [] instruction.op = "catch" -> <<a[1], a[2]>>
       [] OTHER -> <<>>

\* How far getInstructionBytecodeOffset goes for one instruction: it knows
\* where the opcodes keep their names.
WalkedNames(instruction) ==
  LET a == instruction.args
  IN CASE instruction.op \in {"import", "enter", "link"} -> <<a[1]>>
       [] instruction.op \in {"call", "closure", "function", "class", "prototype", "derive",
                              "new", "msg", "strstore"} -> <<a[2]>>
       [] instruction.op = "attach" -> <<a[2], a[3]>>
       [] instruction.op = "catch" -> <<a[1], a[2]>>
       [] OTHER -> <<>>
WalkedSize(instruction) == OpSize[instruction.op] + SizeOfNames(WalkedNames(instruction))

\* The offset of instruction n in code, a function from offsets, that takes
\* size bytes.  The walk fails as soon as it leaves the code, even when it
\* stops exactly at its end.
OutOfBounds == -1
WalkOver(code, size, offset) ==
  IF offset = OutOfBounds \/ offset + WalkedSize(code[offset]) >= size
  THEN OutOfBounds ELSE offset + WalkedSize(code[offset])
BytecodeOffset(code, size, n) ==
  LET walk[i \in 0..n] == IF i = 0 THEN 0 ELSE WalkOver(code, size, walk[i - 1])
  IN walk[n]

-----------------------------------------------------------------------------
\* disassembler::instruction: how much it consumes, and the source line it
\* prints.  Fixed-size opcodes take their size from maps.h; targets are
\* printed as bytes; the flag of a byte literal is skipped.
VariableLength ==
  {"strstore", "closure", "function", "call", "catch", "enter", "import", "link", "class",
   "prototype", "derive", "attach", "new", "msg"}
DisassembledSize(instruction) ==
  LET a == instruction.args
  IN CASE instruction.op \notin VariableLength -> OpSize[instruction.op]
       [] instruction.op \in {"strstore", "call", "closure", "function", "class", "new", "derive", "msg"}
            -> 1 + FieldSize("operand", a[1]) + TextSize(a[2])
       [] instruction.op \in {"import", "enter", "link"} -> 1 + TextSize(a[1])
       [] instruction.op = "catch" -> 1 + SizeOfNames(a)
       [] instruction.op = "attach" -> 1 + FieldSize("operand", a[1]) + TextSize(a[2]) + TextSize(a[3])
\* Faulty variant: targets are printed as plain numbers, without the 0x.
PrintedAsNumber(kind, value) ==
  CASE kind = "target" -> <<"index", value>>
    [] kind = "byte" -> <<"", value[2]>>
    [] OTHER -> value
Printed(kind, value) ==
  CASE kind = "target" -> <<"0x", value>>
    [] kind = "byte" -> <<"", value[2]>>
    [] OTHER -> value
DisassembledLine(instruction) ==
  [op |-> instruction.op,
   args |-> [i \in DOMAIN instruction.args |-> Printed(Layout[instruction.op][i], instruction.args[i])]]
=============================================================================
