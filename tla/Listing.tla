------------------------------- MODULE Listing -----------------------------
(***************************************************************************)
(* What a source file means, said without bytes: bodies are sequences of   *)
(* instructions, names stand for the first instruction of a body, and a    *)
(* jump goes to an instruction.  The manual describes assembly this way    *)
(* (doc/viua_virtual_machine.lyx:1555-1680, marks, relative and absolute   *)
(* jumps).  A place in a project is <<unit, name, k>>: instruction k of    *)
(* the body called name in one of its files.                               *)
(***************************************************************************)
EXTENDS Lines, SequencesExt

IsInstruction(line) == SubSeq(line.op, 1, 1) # "."
\* The lines from a definition of a body to its end.
DefinedAt(lines, directive, name) ==
  {i \in DOMAIN lines : lines[i].op = directive /\ lines[i].args[1] = name}
BodyFrom(lines, i) ==
  SubSeq(lines, i + 1, Min({j \in DOMAIN lines : j > i /\ lines[j].op = ".end"}) - 1)
Defined(lines, directive) ==
  {lines[i].args[1] : i \in {j \in DOMAIN lines : lines[j].op = directive}}

\* The lines outside of every body.
TopLevel(lines) ==
  LET inside(i) == \E o \in DOMAIN lines :
        /\ lines[o].op \in {".function:", ".block:"}
        /\ o <= i /\ i <= Min({j \in DOMAIN lines : j > o /\ lines[j].op = ".end"})
  IN Pick(lines, {i \in DOMAIN lines : ~inside(i)})

\* The instructions of a body, and how many of them come before its line i.
InstructionsOf(body) == Pick(body, {i \in DOMAIN body : IsInstruction(body[i])})
Before(body, i) == Cardinality({j \in 1..(i - 1) : IsInstruction(body[j])})

\* The number, from 1, of the instruction a target of instruction k means.
MarkedBy(body, mark) ==
  Before(body, CHOOSE i \in DOMAIN body : body[i].op = ".mark:" /\ body[i].args[1] = mark) + 1
TargetIn(body, k, target) ==
  CASE target[1] = "mark" -> MarkedBy(body, target[2])
    [] target[1] = "index" -> target[2] + 1
    [] target[1] = "+" -> k + target[2]
    [] target[1] = "-" -> k - target[2]
\* The targets of a jump or branch; a branch with one goes on otherwise.
TargetsOf(line) ==
  IF line.op = "jump" THEN <<line.args[1]>>
  ELSE IF Len(line.args) = 2 THEN <<line.args[2], <<"+", 1>> >> ELSE <<line.args[2], line.args[3]>>
=============================================================================
