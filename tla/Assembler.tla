------------------------------ MODULE Assembler -----------------------------
(***************************************************************************)
(* The assembler: what a source file is taken apart into (codeextract.cpp, *)
(* gather.cpp), which files it refuses (verify.cpp, asm.cpp), the          *)
(* instructions of a body (compile in generate.cpp) and their place in the *)
(* image, static linking included (generate).                              *)
(*                                                                         *)
(* A source file is a sequence of lines [op, args]; the directives         *)
(* .function:, .block:, .end, .mark:, .name:, .main:, .signature:,         *)
(* .bsignature: and .type: are lines too.  Comments, blank lines,          *)
(* parenthesised subexpressions, .class: blocks and the wording of reports *)
(* are left out; bodies are not nested.                                    *)
(***************************************************************************)
EXTENDS Encoding

\* The first operand of each line of this kind, in order.
Named1(lines, directive) ==
  LET found == Pick(lines, {i \in DOMAIN lines : lines[i].op = directive})
  IN [k \in DOMAIN found |-> found[k].args[1]]

-----------------------------------------------------------------------------
(***************************************************************************)
(* codeextract.cpp and gather.cpp: names, bodies, marks                    *)
(***************************************************************************)
Closing(lines, i) == Min({j \in DOMAIN lines : j > i /\ lines[j].op = ".end"})
Within(lines, i, directive) ==
  \E o \in DOMAIN lines : lines[o].op = directive /\ o <= i /\ i <= Closing(lines, o)

\* Names in the order of the file, repetitions included.
FunctionNames(lines) == Named1(lines, ".function:")
BlockNames(lines) == Named1(lines, ".block:")
Signatures(lines) == ToSet(Named1(lines, ".signature:"))
BlockSignatures(lines) == ToSet(Named1(lines, ".bsignature:"))

\* The body a name has: the last definition of it wins.
Invokables(lines, directive) ==
  LET opened(name) == Max({i \in DOMAIN lines : lines[i].op = directive /\ lines[i].args[1] = name})
  IN [name \in ToSet(Named1(lines, directive)) |->
        SubSeq(lines, opened(name) + 1, Closing(lines, opened(name)) - 1)]

\* What gatherFunctions and gatherBlocks collect.
GatherFunctions(lines) ==
  [names |-> FunctionNames(lines), signatures |-> Signatures(lines),
   bodies |-> Invokables(lines, ".function:")]
GatherBlocks(lines) ==
  [names |-> BlockNames(lines), signatures |-> BlockSignatures(lines),
   bodies |-> Invokables(lines, ".block:")]

\* The instruction a mark stands for, by the number of lines before it that
\* count as instructions: every line but names, links and marks that is not
\* in a function.  Other directives, and blocks with their .end, count.
Marks(lines) ==
  LET counts(i) == /\ lines[i].op \notin {".name:", ".link:", ".mark:"}
                   /\ ~Within(lines, i, ".function:")
      marking(name) == {i \in DOMAIN lines : /\ lines[i].op = ".mark:"
                                             /\ lines[i].args[1] = name
                                             /\ ~Within(lines, i, ".function:")}
  IN [name \in {n \in ToSet(Named1(lines, ".mark:")) : marking(n) # {}} |->
        Cardinality({i \in 1..Max(marking(name)) : counts(i)})]

\* The register a name stands for: the last .name: line wins.
Names(lines) ==
  LET naming == {i \in DOMAIN lines : lines[i].op = ".name:"}
  IN [name \in {lines[i].args[2] : i \in naming} |->
        lines[Max({i \in naming : lines[i].args[2] = name})].args[1]]

\* The lines that are instructions of this body: no directives, and not the
\* bodies of the functions, blocks and classes in it.
Filter(lines) ==
  Pick(lines, {i \in DOMAIN lines :
                 /\ lines[i].op \notin {".mark:", ".name:", ".main:", ".link:", ".signature:",
                                        ".bsignature:", ".type:"}
                 /\ \A d \in {".function:", ".block:", ".class:"} : ~Within(lines, i, d)})

-----------------------------------------------------------------------------
(***************************************************************************)
(* verify.cpp and asm.cpp: what is refused before anything is generated    *)
(***************************************************************************)
Lines(lines, ops) == {i \in DOMAIN lines : lines[i].op \in ops}

Directives(lines) ==
  \A i \in DOMAIN lines :
    IsDirective(lines[i]) =>
      lines[i].op \in {".function:", ".signature:", ".bsignature:", ".block:", ".end", ".name:",
                       ".mark:", ".main:", ".type:", ".class:"}

\* An instruction is anything without a leading dot; maps.h must list it.
Instructions(lines) == \A i \in DOMAIN lines : IsDirective(lines[i]) \/ lines[i].op \in DOMAIN OpSize

RessInstructions(lines, as_lib) ==
  \A i \in Lines(lines, {"ress"}) :
    LET before == {j \in Lines(lines, {".function:"}) : j < i}
        function == IF before = {} THEN "" ELSE lines[Max(before)].args[1]
    IN /\ TextAt(lines[i].args, 1) \in {"global", "local", "static", "temp"}
       /\ lines[i].args[1] = "global" /\ as_lib => function = "main"

FunctionBodiesAreNonempty(functions) == \A name \in DOMAIN functions.bodies : functions.bodies[name] # <<>>

BlockTries(lines, blocks) ==
  \A i \in Lines(lines, {"enter"}) :
    TextAt(lines[i].args, 1) \in ToSet(blocks.names) \cup blocks.signatures

\* One count over the whole file, in the order of its lines: a call takes the
\* frame, at most one frame is waiting, and none is at an end.
FrameBalance(lines) ==
  LET Spawning == {"frame"}
      Taking == {"call", "excall", "fcall", "msg"}
      balance(i) == Cardinality({j \in Lines(lines, Spawning) : j <= i})
                    - Cardinality({j \in Lines(lines, Taking) : j <= i})
  IN \A i \in Lines(lines, Spawning \cup Taking \cup {"end"}) :
       balance(i) \in {0, 1} /\ (lines[i].op = "end" => balance(i) = 0)

FrameOperands(lines) == \A i \in Lines(lines, {"frame"}) : lines[i].args # <<>>

\* Only with the option that turns warnings into errors: main does not end
\* with halt, and the other functions end with end or halt.
MainFunctionDoesNotEndWithHalt(functions) ==
  "main" \in DOMAIN functions.bodies => Last(functions.bodies["main"]).op # "halt"
FunctionsEnd(functions) ==
  \A name \in DOMAIN functions.bodies \ {"main"} : Last(functions.bodies[name]).op \in {"end", "halt"}

BlocksEnd(blocks) ==
  \A name \in DOMAIN blocks.bodies :
    blocks.bodies[name] # <<>> /\ Last(blocks.bodies[name]).op \in {"leave", "end", "halt"}

\* What main() of asm.cpp requires, in its order, before it calls generate.
Verified(lines, functions, blocks, flags) ==
  /\ Directives(lines)
  /\ Instructions(lines)
  /\ RessInstructions(lines, flags.as_lib)
  /\ FunctionBodiesAreNonempty(functions)
  /\ BlockTries(lines, blocks)
  /\ FrameBalance(lines)
  /\ flags.errors /\ ~flags.as_lib => MainFunctionDoesNotEndWithHalt(functions)
  /\ FrameOperands(lines)
  /\ flags.errors => FunctionsEnd(functions)
  /\ BlocksEnd(blocks)

\* After the names of linked functions are known.  The register of a call may be
\* left out.
CalledName(line) == IF Len(line.args) = 1 THEN line.args[1] ELSE TextAt(line.args, 2)
FunctionCallsAreDefined(lines, names, signatures) ==
  \A i \in Lines(lines, {"call"}) : CalledName(lines[i]) \in names \cup signatures
CallableCreations(lines, names, signatures) ==
  \A i \in Lines(lines, {"closure", "function"}) :
    TextAt(lines[i].args, 2) \in names \cup signatures

-----------------------------------------------------------------------------
(***************************************************************************)
(* compile: the instruction a line becomes                                 *)
(***************************************************************************)
\* Targets of jumps, as written: <<"index", n>>, <<".", n>>, <<"0x", n>>,
\* <<"+", n>>, <<"-", n>>, <<"mark", m>>.  Instructions of a body are
\* numbered from 0; k is the number of the one that jumps.
CanResolveJump(target, marks, k) ==
  /\ target[1] = "mark" => target[2] \in DOMAIN marks
  /\ target[1] = "-" => k - target[2] >= 0
ResolveJump(target, marks, k) ==
  LET n == target[2]
  IN CASE target[1] = "index" -> [type |-> "relative", addr |-> n]
       [] target[1] = "." -> [type |-> "absolute", addr |-> n]
       [] target[1] = "0x" -> [type |-> "byte", addr |-> n]
       [] target[1] = "-" -> [type |-> "relative", addr |-> k - n]
       [] target[1] = "+" -> [type |-> "relative", addr |-> k + n]
       [] target[1] = "mark" -> [type |-> "relative", addr |-> marks[n]]

CanResolveRegister(reg, names) == reg[1] \in {"name", "@name"} => reg[2] \in DOMAIN names
ResolveRegister(reg, names) ==
  CASE reg[1] = "name" -> <<"", names[reg[2]]>>
    [] reg[1] = "@name" -> <<"@", names[reg[2]]>>
    [] OTHER -> reg

\* The mnemonics compile has a case for.
ArithmeticInstructions ==
  {"nop", "izero", "istore", "iadd", "isub", "imul", "idiv", "ilt", "ilte", "igt", "igte", "ieq",
   "iinc", "idec", "fstore", "fadd", "fsub", "fmul", "fdiv", "flt", "flte", "fgt", "fgte", "feq",
   "bstore"}
RegisterInstructions ==
  {"not", "and", "or", "move", "copy", "ref", "swap", "free", "empty", "isnull", "ress", "tmpri",
   "tmpro", "print", "echo"}
CallableInstructions == {"clbind", "closure", "function", "fcall"}
CallInstructions == {"frame", "param", "paref", "arg", "argc", "call"}
BlockInstructions == {"try", "catch", "pull", "enter", "throw", "leave", "import", "link"}
ObjectInstructions == {"class", "derive", "attach", "register", "new", "msg", "end", "halt"}

\* The operands compile supplies for those left out.
ThreeIntop == {"iadd", "isub", "imul", "idiv", "ilt", "ilte", "igt", "igte", "ieq",
               "fadd", "fsub", "fmul", "fdiv", "flt", "flte", "fgt", "fgte", "feq", "and", "or"}
ThreeOperands(a) == IF Len(a) = 2 THEN <<a[1], a[2], a[1]>> ELSE a
CastOperands(a) == IF Len(a) = 1 THEN <<a[1], a[1]>> ELSE a
VectorOperands(op, a) ==
  CASE op = "vinsert" /\ Len(a) = 2 -> Append(a, <<"", 0>>)
    [] op = "vpop" /\ Len(a) = 1 -> a \o << <<"", 0>>, <<"", -1>> >>
    [] op \in {"vpop", "vat"} /\ Len(a) = 2 -> Append(a, <<"", -1>>)
    [] OTHER -> a
CallOperands(op, a) ==
  CASE op = "frame" /\ a = <<>> -> << <<"", 0>>, <<"", 16>> >>
    [] op = "frame" /\ Len(a) = 1 -> Append(a, <<"", 16>>)
    [] op = "call" /\ Len(a) = 1 -> << <<"", 0>>, a[1]>>
    [] OTHER -> a
\* A name left out is empty; for one of an attach that comes last, what is written
\* for its register is taken (get3).
NameOperands(op, a) ==
  CASE op = "attach" /\ Len(a) = 1 -> <<a[1], "", RegisterText(a[1])>>
    [] op = "attach" /\ Len(a) = 2 -> <<a[1], a[2], RegisterText(a[1])>>
    [] op \in {"class", "derive", "new", "msg", "catch"} /\ Len(a) = 1 -> <<a[1], "">>
    [] op = "link" /\ a = <<>> -> <<"">>
    [] OTHER -> a
\* The short form goes on with the next instruction when the register is false.
BranchOperands(a, k) == IF Len(a) = 2 THEN Append(a, <<"index", k + 1>>) ELSE a

Operands(line, k) ==
  LET a == line.args
  IN CASE line.op \in ThreeIntop -> ThreeOperands(a)
       [] line.op \in {"itof", "ftoi", "stoi", "stof"} -> CastOperands(a)
       [] line.op \in {"vinsert", "vpop", "vat"} -> VectorOperands(line.op, a)
       [] line.op \in CallInstructions -> CallOperands(line.op, a)
       [] line.op \in {"attach", "class", "derive", "new", "msg", "catch", "link"} ->
            NameOperands(line.op, a)
       [] line.op = "branch" -> BranchOperands(a, k)
       [] OTHER -> a

Implemented ==
  ArithmeticInstructions \cup RegisterInstructions \cup CallableInstructions \cup CallInstructions
  \cup BlockInstructions \cup ObjectInstructions
  \cup {"itof", "ftoi", "stoi", "stof", "strstore", "vec", "vinsert", "vpush", "vpop", "vat", "vlen"}
  \cup {"jump", "branch"}

\* A register, a number or a target left out is reported.  (So is, here, a string
\* left out, which the assembler does not survive.)
CanCompileLine(line, k, marks, names) ==
  LET can(a, layout) ==
        /\ Len(a) >= Len(layout)
        /\ \A i \in DOMAIN layout :
             /\ layout[i] \in {"operand", "byte"} => CanResolveRegister(a[i], names)
             /\ layout[i] = "target" => CanResolveJump(a[i], marks, k)
  IN line.op \in Implemented /\ can(Operands(line, k), Layout[line.op])

\* An instruction and, for each field that is a jump target, the type of jump.
CompileLine(line, k, marks, names) ==
  LET field(kind, value) ==
        CASE kind \in {"operand", "byte"} -> ResolveRegister(value, names)
          [] kind = "target" -> ResolveJump(value, marks, k).addr
          [] OTHER -> value
      type(kind, value) == IF kind = "target" THEN ResolveJump(value, marks, k).type ELSE "none"
      compiled(a, layout) ==
        [op |-> line.op,
         args |-> [i \in DOMAIN layout |-> field(layout[i], a[i])],
         types |-> [i \in DOMAIN layout |-> type(layout[i], a[i])]]
  IN compiled(Operands(line, k), Layout[line.op])

\* A body: its instructions in order.
CanCompile(lines) ==
  LET ilines == Filter(lines) marks == Marks(lines) names == Names(lines)
  IN \A k \in DOMAIN ilines : CanCompileLine(ilines[k], k - 1, marks, names)
Compile(lines) ==
  LET ilines == Filter(lines) marks == Marks(lines) names == Names(lines)
  IN [k \in DOMAIN ilines |-> CompileLine(ilines[k], k - 1, marks, names)]

-----------------------------------------------------------------------------
(***************************************************************************)
(* Program: a body as bytes, and its jumps                                 *)
(***************************************************************************)
\* Code is a function from byte offsets to instructions.
Placed(instructions) ==
  LET at == Places([k \in DOMAIN instructions |-> EmittedSize(instructions[k])])
  IN [o \in {at[k - 1] : k \in DOMAIN instructions} |->
        instructions[CHOOSE k \in DOMAIN instructions : at[k - 1] = o]]

\* Where Program::jump and Program::branch find targets in an instruction,
\* byte targets left out.  The second target of a branch is recorded as what
\* the first one is.
JumpPosition(instruction, absolute) ==
  IF instruction.types[1] # "byte" /\ (instruction.types[1] = "absolute") = absolute THEN {1} ELSE {}
BranchPositions(instruction, absolute) ==
  LET truth == instruction.types[2]
      false == instruction.types[3]
  IN IF (truth = "absolute") = absolute
     THEN {p \in {6} : truth # "byte"} \cup {p \in {10} : false # "byte"}
     ELSE {}
Jumps(code, absolute) ==
  UNION {{o + p : p \in CASE code[o].op = "jump" -> JumpPosition(code[o], absolute)
                          [] code[o].op = "branch" -> BranchPositions(code[o], absolute)
                          [] OTHER -> {}} : o \in DOMAIN code}

\* The fields whose bytes start at one of the positions, and the code with the
\* int of each replaced.
FieldsAt(instruction, o, positions) ==
  {i \in DOMAIN instruction.args : o + FieldOffset(instruction, i) \in positions}
Stored(code, positions, int(_)) ==
  [o \in DOMAIN code |->
     [code[o] EXCEPT !.args =
        [i \in DOMAIN @ |-> IF i \in FieldsAt(code[o], o, positions) THEN int(@[i]) ELSE @[i]]]]

\* calculateJumps: instruction numbers become offsets into the image; offset is
\* added to each.  A number out of bounds throws what nothing catches.  (The
\* walk reads opcodes and names, so the order of the positions is of no account.)
CanCalculateJumps(code, size, positions) ==
  \A o \in DOMAIN code : \A i \in FieldsAt(code[o], o, positions) :
    BytecodeOffset(code, size, code[o].args[i]) # OutOfBounds
CalculateJumps(code, size, positions, offset) ==
  LET target(n) == offset + BytecodeOffset(code, size, n)
  IN Stored(code, positions, target)

-----------------------------------------------------------------------------
(***************************************************************************)
(* generate: the image of a program or of a library                        *)
(*                                                                         *)
(* An image is [blocks, functions, size, code, jumps]: the two address     *)
(* tables as sequences of <<name, address>>, the size it declares, the     *)
(* code and, for a library, the positions to relocate.  libs holds the     *)
(* libraries to link as Loader has read them (see Executable).  Sizes and  *)
(* addresses stay below 2^16 and the wrap-around of uint16_t is left out.  *)
(***************************************************************************)
EntryFunctionName == "__entry"
Line(op, args) == [op |-> op, args |-> args]

MainFunction(lines, flags) ==
  LET named == Named1(lines, ".main:")
  IN IF named # <<>> THEN Head(named) ELSE IF flags.as_lib THEN "" ELSE "main"

\* The last line but one of main, directives included, sets a register.
MainReturns(functions, main) ==
  LET body == functions.bodies[main]
  IN main \in DOMAIN functions.bodies =>
       body[Len(body) - 1].op \in {"copy", "move", "swap", "izero"}

\* The entry function: the whole file between its first and last instructions.
EntryBody(lines, main) ==
  <<Line("ress", <<"local">>)>> \o lines
  \o <<Line("frame", << <<"", 1>> >>), Line("param", << <<"", 0>>, <<"", 1>> >>),
       Line("call", << <<"", 1>>, main>>), Line("move", << <<"", 0>>, <<"", 1>> >>),
       Line("halt", <<>>)>>
\* Faulty variant: the name of main in the call of the entry function is not counted.
EntrySizeWithoutName(main) ==
  OpSize["ress"] + OpSize["frame"] + OpSize["param"] + OpSize["call"] + OpSize["move"] + OpSize["halt"]
EntrySize(main) ==
  OpSize["ress"] + OpSize["frame"] + OpSize["param"] + OpSize["call"] + TextSize(main)
  + OpSize["move"] + OpSize["halt"]

\* The bytes of the file itself: where the code of libraries is expected.
LocalSize(lines, flags) ==
  CountBytes(lines) + IF flags.as_lib THEN 0 ELSE EntrySize(MainFunction(lines, flags))

\* Faulty variant: addresses stay relative to the library.
LinkedFunctionsUnmoved(libs, offset) ==
  LET table(functions) == [f \in DOMAIN functions.order |->
                             <<functions.order[f], functions.mapping[functions.order[f]]>>]
  IN FlattenSeq([l \in DOMAIN libs |-> table(libs[l].functions)])

\* The functions of the libraries, each with its address moved by offset: the
\* same one for every library.
LinkedFunctions(libs, offset) ==
  LET table(functions) == [f \in DOMAIN functions.order |->
                             <<functions.order[f], functions.mapping[functions.order[f]] + offset>>]
  IN FlattenSeq([l \in DOMAIN libs |-> table(libs[l].functions)])
NamesIn(table) == {table[i][1] : i \in DOMAIN table}
AddressIn(table, name) == table[Max({i \in DOMAIN table : table[i][1] = name})][2]

\* What is generated, in order: the blocks, then the functions of these names.
\* A body is [directive, name, lines].
ToGenerate(blocks, functions, names) ==
  LET body(directive, invokables, name) ==
        [directive |-> directive, name |-> name, lines |-> invokables.bodies[name]]
  IN [k \in DOMAIN blocks.names |-> body(".block:", blocks, blocks.names[k])]
     \o [k \in DOMAIN names |-> body(".function:", functions, names[k])]

\* The size of a body: only the entry function has lines that are not its own.
BodySize(body) ==
  CountBytes(IF body.directive = ".function:" /\ body.name = EntryFunctionName
             THEN Filter(body.lines) ELSE body.lines)

\* A body is written into a buffer of the size counted for it, that is zeroed,
\* and a zero is a nop.  What is emitted beyond its end is undefined.
Nop == [op |-> "nop", args |-> <<>>, types |-> <<>>]
EmittedBytes(instructions) == Total([k \in DOMAIN instructions |-> EmittedSize(instructions[k])])
Filled(instructions, size) ==
  instructions \o [k \in 1..(size - EmittedBytes(instructions)) |-> Nop]
Overruns(body) == EmittedBytes(Compile(body.lines)) > BodySize(body)

\* Where instructions come from is kept with them, for the properties.
Tagged(instructions, unit, name) ==
  [k \in DOMAIN instructions |->
     [op |-> instructions[k].op, args |-> instructions[k].args,
      types |-> instructions[k].types, source |-> <<unit, name, k>>]]

\* A body generated for this offset, with its relative jumps calculated; the
\* jumps to relocate, and the absolute ones.
Generated(unit, body, offset) ==
  LET generated(code, size, jumps) ==
        [size |-> size, code |-> CalculateJumps(code, size, jumps, offset),
         jumps |-> {p + offset : p \in jumps}, positions |-> {p + offset : p \in Jumps(code, TRUE)},
         died |-> ~CanCalculateJumps(code, size, jumps)]
      placed(code) == generated(code, BodySize(body), Jumps(code, FALSE))
  IN placed(Placed(Tagged(Filled(Compile(body.lines), BodySize(body)), unit, body.name)))
Section(unit, bodies) ==
  LET at == Places([k \in DOMAIN bodies |-> BodySize(bodies[k])])
  IN [k \in DOMAIN bodies |-> Generated(unit, bodies[k], at[k - 1])]

\* Pieces [size, code] one after the other from start on.
Written(pieces, start) ==
  LET at == Places([k \in DOMAIN pieces |-> pieces[k].size])
      from(k) == start + at[k - 1]
      piece(o) == CHOOSE k \in DOMAIN pieces : o - from(k) \in DOMAIN pieces[k].code
  IN [o \in UNION {{p + from(k) : p \in DOMAIN pieces[k].code} : k \in DOMAIN pieces} |->
        pieces[piece(o)].code[o - from(piece(o))]]

\* The buffer gets the bytecode each name has, the one generated last, once for
\* every time it is named.
WriteBodies(bodies, section) ==
  Written([k \in DOMAIN bodies |-> section[Max({j \in DOMAIN bodies : bodies[j] = bodies[k]})]], 0)

\* Names with the addresses their bodies get when placed from start on.
AddressTable(start, names, bodies) ==
  LET at == Places([i \in DOMAIN names |-> CountBytes(bodies[names[i]])])
  IN [i \in DOMAIN names |-> <<names[i], start + at[i - 1]>>]

\* Faulty variant: the code of a library is copied as it is.
Unrelocated(lib, offset) == lib.code

\* The code of a library with its recorded jumps moved by offset.
Relocated(lib, offset) ==
  LET moved(address) == address + offset IN Stored(lib.code, lib.jumps, moved)
\* Libraries are written one after the other; each is relocated by offset.
WriteLibraries(libs, start, offset) ==
  Written([l \in DOMAIN libs |-> [size |-> libs[l].size, code |-> Relocated(libs[l], offset)]], start)

Refused == [outcome |-> "refused"]
Overrun == [outcome |-> "overrun"]
Died == [outcome |-> "died"]

\* The functions of a program have the entry function as their last.
WithEntry(functions, lines, main) ==
  [functions EXCEPT !.names = Append(functions.names, EntryFunctionName),
                    !.bodies = [name \in DOMAIN functions.bodies \cup {EntryFunctionName} |->
                                  IF name = EntryFunctionName THEN EntryBody(lines, main)
                                  ELSE functions.bodies[name]]]
\* A function that has the name of a linked one is not generated.
LocalNames(functions, linked) ==
  Pick(functions.names, {i \in DOMAIN functions.names : functions.names[i] \notin NamesIn(linked)})

\* Everything that can be refused, in the verification and by generate.
Accepted(lines, flags, main, gathered, blocks, functions, linked) ==
  LET names == ToSet(functions.names) \cup NamesIn(linked)
  IN /\ Verified(lines, gathered, blocks, flags)
     /\ flags.as_lib \/ MainReturns(gathered, main)
     /\ FunctionCallsAreDefined(lines, names, functions.signatures)
     /\ CallableCreations(lines, names, functions.signatures)
     /\ \A name \in ToSet(blocks.names) : CanCompile(blocks.bodies[name])
     /\ \A name \in ToSet(LocalNames(functions, linked)) : CanCompile(functions.bodies[name])
     /\ flags.as_lib \/ main \in names

\* The tables, and the code: the bodies with their absolute jumps calculated, and
\* the libraries behind them.
Image(libs, flags, blocks, functions, linked, link_offset, bytes, section, buffer) ==
  LET local == LocalNames(functions, linked)
      block_bytes == Total([k \in DOMAIN blocks.names |-> CountBytes(blocks.bodies[blocks.names[k]])])
      used == Total([k \in DOMAIN section |-> section[k].size])
      bodies == CalculateJumps(buffer, bytes, UNION {section[k].positions : k \in DOMAIN section}, 0)
      libraries == WriteLibraries(libs, used, link_offset)
  IN [blocks |-> AddressTable(0, blocks.names, blocks.bodies),
      functions |-> AddressTable(block_bytes, local, functions.bodies)
                    \o [i \in DOMAIN linked |-> <<linked[i][1], AddressIn(linked, linked[i][1])>>],
      size |-> bytes,
      code |-> [o \in DOMAIN bodies \cup DOMAIN libraries |->
                  IF o \in DOMAIN bodies THEN bodies[o] ELSE libraries[o]],
      jumps |-> IF flags.as_lib THEN UNION {section[k].jumps : k \in DOMAIN section} ELSE {}]

\* Blocks are generated before functions, and written before them.  A build that
\* has written beyond a buffer is not followed any further.
GenerateBodies(unit, libs, flags, blocks, functions, linked, link_offset) ==
  LET bytes == link_offset + Total([l \in DOMAIN libs |-> libs[l].size])
      finish(section, buffer) ==
        IF \/ \E k \in DOMAIN section : section[k].died
           \/ ~CanCalculateJumps(buffer, bytes, UNION {section[k].positions : k \in DOMAIN section})
        THEN Died
        ELSE [outcome |-> "assembled",
              image |-> Image(libs, flags, blocks, functions, linked, link_offset, bytes, section, buffer)]
      write(bodies, section) == finish(section, WriteBodies(bodies, section))
      generate(bodies) ==
        IF \E k \in DOMAIN bodies : Overruns(bodies[k]) THEN Overrun
        ELSE write(bodies, Section(unit, bodies))
  IN generate(ToGenerate(blocks, functions, LocalNames(functions, linked)))

Generate(unit, lines, libs, flags) ==
  LET main == MainFunction(lines, flags)
      link_offset == LocalSize(lines, flags)
      generate(gathered, blocks, functions, linked) ==
        IF Accepted(lines, flags, main, gathered, blocks, functions, linked)
        THEN GenerateBodies(unit, libs, flags, blocks, functions, linked, link_offset)
        ELSE Refused
      gather(gathered) ==
        generate(gathered, GatherBlocks(lines),
                 IF flags.as_lib THEN gathered ELSE WithEntry(gathered, lines, main),
                 LinkedFunctions(libs, link_offset))
  IN gather(GatherFunctions(lines))
====
