------------------------------ MODULE Assembly -----------------------------
(***************************************************************************)
(* Building an executable: libraries are assembled one after the other,    *)
(* each with the ones it links, then the program with the ones it links    *)
(* (viua-asm's main and generate), the CPU's front end loads the image,    *)
(* and the disassembler turns it into source that is assembled again, as   *)
(* tests/tests.py does with most samples.                                  *)
(*                                                                         *)
(* A project is [lines, links, libs, errors]: the program's file, the      *)
(* numbers of the libraries it links, the libraries, each [lines, links],  *)
(* and whether warnings are errors.                                        *)
(***************************************************************************)
EXTENDS Assembler, Executable

CONSTANT Projects  \* the projects to build

\* Source files and projects as they are modelled: targets are written as the
\* manual says, a definition has an end, bodies are not nested, and a library
\* links libraries that have been built before.
WrittenTargets == ({"index", ".", "0x", "+", "-"} \X Nat) \cup ({"mark"} \X STRING)
IsSequence(s) == Len(s) \in Nat /\ s = [i \in 1..Len(s) |-> s[i]]
IsFile(lines) ==
  /\ IsSequence(lines)
  /\ \A i \in DOMAIN lines :
       /\ IsSequence(lines[i].args) /\ lines[i].op # ".class:"
       /\ lines[i].op = "jump" => lines[i].args[1] \in WrittenTargets
       /\ lines[i].op = "branch" => \A k \in DOMAIN lines[i].args : k > 1 => lines[i].args[k] \in WrittenTargets
       /\ lines[i].op \in {".function:", ".block:"} =>
            \E e \in DOMAIN lines :
              /\ e > i /\ lines[e].op = ".end"
              /\ \A j \in (i + 1)..e : lines[j].op \notin {".function:", ".block:"}
IsProject(p) ==
  /\ IsFile(p.lines) /\ p.links \in Seq(DOMAIN p.libs)
  /\ IsSequence(p.libs)
  /\ \A n \in DOMAIN p.libs : IsFile(p.libs[n].lines) /\ p.libs[n].links \in Seq(1..(n - 1))
ASSUME ProjectsAssumption == \A p \in Projects : IsProject(p)

VARIABLES
  project,
  stage,   \* what has been reached, or how the build has ended
  built,   \* the libraries, as Loader reads them
  image,   \* the file the assembler wrote for the program
  loaded,  \* what the front end of the CPU has of it
  again    \* the image assembled from its disassembly

vars == <<project, stage, built, image, loaded, again>>

Listing == INSTANCE Listing

Flags(as_lib) == [as_lib |-> as_lib, errors |-> project.errors]
Links(numbers) == [i \in DOMAIN numbers |-> built[numbers[i]]]

NoImage == [blocks |-> <<>>, functions |-> <<>>, size |-> 0, code |-> <<>>, jumps |-> {}]

Init ==
  /\ project \in Projects
  /\ stage = "sources"
  /\ built = <<>>
  /\ image = NoImage
  /\ loaded = ExecutableOf(NoImage)
  /\ again = NoImage

AssembleLibrary ==
  /\ stage = "sources" /\ Len(built) < Len(project.libs)
  /\ LET n == Len(built) + 1
     IN \E result \in {Generate(n, project.libs[n].lines, Links(project.libs[n].links), Flags(TRUE))} :
          IF result.outcome = "assembled"
          THEN built' = Append(built, LibraryOf(result.image)) /\ UNCHANGED stage
          ELSE stage' = result.outcome /\ UNCHANGED built
  /\ UNCHANGED <<project, image, loaded, again>>

AssembleProgram ==
  /\ stage = "sources" /\ Len(built) = Len(project.libs)
  /\ \E result \in {Generate(0, project.lines, Links(project.links), Flags(FALSE))} :
       /\ stage' = result.outcome
       /\ image' = IF result.outcome = "assembled" THEN result.image ELSE image
  /\ UNCHANGED <<project, built, loaded, again>>

Load ==
  /\ stage = "assembled"
  /\ loaded' = ExecutableOf(image)
  /\ stage' = "loaded"
  /\ UNCHANGED <<project, built, image, again>>

\* The disassembler is modelled where instructions fill the image and every
\* function starts at one; what it makes of other bytes is not.
Readable ==
  /\ \A name \in DOMAIN loaded.functions.mapping : loaded.functions.mapping[name] \in DOMAIN image.code
  /\ \A o \in DOMAIN image.code :
       o + EmittedSize(image.code[o]) \in DOMAIN image.code \cup {loaded.size}

Reassemble ==
  /\ stage = "loaded" /\ Readable
  /\ \E result \in {Generate(0, Disassembly(loaded), <<>>, Flags(FALSE))} :
       /\ again' = IF result.outcome = "assembled" THEN result.image ELSE again
       /\ stage' = IF result.outcome = "assembled" THEN "reassembled" ELSE "not reassembled"
  /\ UNCHANGED <<project, built, image, loaded>>

Next == AssembleLibrary \/ AssembleProgram \/ Load \/ Reassemble
Spec == Init /\ [][Next]_vars

-----------------------------------------------------------------------------
(***************************************************************************)
(* Source and meaning                                                      *)
(***************************************************************************)
File(unit) == IF unit = 0 THEN project.lines ELSE project.libs[unit].lines
Units == 0..Len(project.libs)

\* The body called name: blocks and functions have different names here, see
\* DistinctNames.
Body(unit, name) ==
  IF name = EntryFunctionName
  THEN EntryBody(Listing!TopLevel(File(unit)), MainFunction(File(unit), Flags(FALSE)))
  ELSE Listing!BodyFrom(File(unit), Max(Listing!DefinedAt(File(unit), ".function:", name)
                                          \cup Listing!DefinedAt(File(unit), ".block:", name)))
InstructionsIn(body) == Listing!InstructionsOf(body)
Bodies(unit) == Listing!Defined(File(unit), ".function:") \cup Listing!Defined(File(unit), ".block:")

\* The place an address of the image holds.
At(address) == IF address \in DOMAIN image.code THEN image.code[address].source ELSE <<"nowhere">>
Starting(unit, name) == <<unit, name, 1>>

\* The libraries whose code the image has, directly or through another one.
Reached ==
  LET closed(units) == /\ ToSet(project.links) \subseteq units
                       /\ \A u \in units : ToSet(project.libs[u].links) \subseteq units
  IN {u \in DOMAIN project.libs : \A units \in SUBSET DOMAIN project.libs : closed(units) => u \in units}

-----------------------------------------------------------------------------
(***************************************************************************)
(* Conventions: what a project must keep to for the properties to hold.    *)
(* The assembler checks none of them.                                      *)
(***************************************************************************)
\* No name is defined twice, in a file or in two files that meet, and none is
\* that of the entry function.
DistinctNames ==
  LET definitions == UNION {{<<u, i>> : i \in {j \in DOMAIN File(u) : File(u)[j].op \in {".function:", ".block:"}}}
                              : u \in {0} \cup Reached}
      name(d) == File(d[1])[d[2]].args[1]
  IN \A d, e \in definitions : name(d) # EntryFunctionName /\ (name(d) = name(e) => d = e)
\* Every executable or library links at most one library, one that links none.
OneLibrary == Len(project.links) <= 1 /\ \A u \in Reached : project.libs[u].links = <<>>
\* Libraries have no blocks: those of a linked library do not get into the
\* tables of the program.
NoBlocksInLibraries == \A u \in Reached : Listing!Defined(File(u), ".block:") = {}
\* The manual prohibits absolute jumps in libraries
\* (doc/viua_virtual_machine.lyx:1555-1680).
NoAbsoluteInLibraries ==
  \A u \in Reached : \A i \in DOMAIN File(u) :
    File(u)[i].op \in {"jump", "branch"} =>
      \A t \in ToSet(Listing!TargetsOf(File(u)[i])) : t[1] # "."
\* Both targets of a branch are absolute, or none is.
LikeTargets(line) ==
  LET targets == Listing!TargetsOf(line)
  IN line.op = "branch" => (targets[1][1] = "." <=> targets[2][1] = ".")
\* Directives inside a body, apart from names and marks, count as
\* instructions for the marks after them, and so do blocks among the code
\* outside of bodies.  Of several marks of one name the last one counts.
PlainMarks(unit, name) ==
  LET body == Body(unit, name)
  IN /\ \A i \in DOMAIN body : body[i].op \in {".name:", ".mark:"} \/ ~IsDirective(body[i])
     /\ \A i, j \in DOMAIN body : body[i].op = ".mark:" /\ body[j].op = ".mark:" /\ body[i].args[1] = body[j].args[1]
                                     => i = j
     /\ name = EntryFunctionName => Listing!Defined(File(unit), ".block:") = {}
\* Code outside of bodies, which becomes part of the entry function.
NoTopLevelCode ==
  \A u \in {0} \cup Reached : InstructionsIn(Listing!TopLevel(File(u))) = <<>>
\* Every msg names its register and its method, and every attach its register,
\* its function and its method.  With one of them left out other names are
\* emitted than are counted: generate.cpp:587-602 takes what get3 makes up
\* (assembler.h:21), program.cpp:147-172 looks at the text.
GivesNames(line) ==
  /\ line.op = "msg" => Len(line.args) >= 2
  /\ line.op = "attach" => Len(line.args) >= 3
NamesGiven == \A u \in Units : \A i \in DOMAIN File(u) : GivesNames(File(u)[i])
\* The frames of a body are taken in it, so that bodies can be counted in any
\* order.
NoFrameWaits ==
  \A name \in Bodies(0) : FrameBalance(Append(Body(0, name), Line("end", <<>>)))
\* What the disassembly does not show: linked functions are moved by the new
\* entry function, the name of main and declared names are not printed, a body
\* without instructions is printed as an empty one, which is refused, and a
\* byte literal taken from a register loses its @.
Printable ==
  /\ project.links = <<>> /\ NoTopLevelCode
  /\ \A name \in Bodies(0) : InstructionsIn(Body(0, name)) # <<>>
  /\ \A i \in DOMAIN project.lines :
       LET line == project.lines[i]
       IN /\ line.op \notin {".main:", ".signature:", ".bsignature:"}
          /\ line.op = "bstore" => line.args[2][1] \notin {"@", "@name"}

-----------------------------------------------------------------------------
(***************************************************************************)
(* Properties                                                              *)
(***************************************************************************)
Built == stage \in {"loaded", "reassembled", "not reassembled"}

\* The stages, and what is built so far: nothing is written beyond the size
\* counted for a body, code lies within the size of the image, and no two
\* instructions overlap.  (A function defined twice is generated twice with its
\* last body, for which there need not be room.)
TypeOK ==
  /\ stage \in {"sources", "refused", "died", "overrun", "assembled", "loaded", "reassembled",
                "not reassembled"}
  /\ Len(built) <= Len(project.libs)
  /\ NamesGiven => stage # "overrun"
  /\ NamesGiven /\ DistinctNames =>
       \A o \in DOMAIN image.code :
         /\ o >= 0 /\ o + EmittedSize(image.code[o]) <= image.size
         /\ \A p \in DOMAIN image.code : p > o => p >= o + EmittedSize(image.code[o])

\* The parts that deal with bytes agree on the size of every instruction of
\* the project whose line gives its names: what is emitted for it
\* (instructions.cpp), what is counted for its line (countBytes, maps.h), how
\* far the walk that computes jumps goes over it (getInstructionBytecodeOffset),
\* and what the disassembler consumes.
LayoutsAgree ==
  LET agree(lines, instructions) ==
        \A k \in {i \in DOMAIN lines : GivesNames(lines[i])} :
          \A size \in {CountedSize(lines[k]), WalkedSize(instructions[k]), DisassembledSize(instructions[k])} :
            size = EmittedSize(instructions[k])
  IN stage = "sources" /\ built = <<>> =>
       \A u \in Units : \A name \in Bodies(u) :
         CanCompile(Body(u, name)) => agree(Filter(Body(u, name)), Compile(Body(u, name)))

\* The tables the CPU gets lead to the first instruction of the function or
\* block of that name, those of the linked library included, if it has one, and
\* every name an instruction refers to is in them or was declared with a
\* signature.
EntryPoints ==
  Built /\ NamesGiven /\ DistinctNames /\ OneLibrary /\ NoBlocksInLibraries =>
    LET functions == loaded.functions.mapping
        blocks == loaded.blocks.mapping
        leads(mapping, u, name) ==
          /\ name \in DOMAIN mapping
          /\ InstructionsIn(Body(u, name)) # <<>> => At(mapping[name]) = Starting(u, name)
    IN /\ \A u \in {0} \cup Reached : \A name \in Listing!Defined(File(u), ".function:") :
            leads(functions, u, name)
       /\ \A name \in Listing!Defined(File(0), ".block:") : leads(blocks, 0, name)
       /\ At(functions[EntryFunctionName]) = Starting(0, EntryFunctionName)
       /\ \A o \in DOMAIN image.code :
            LET instruction == image.code[o]
                file == File(instruction.source[1])
            IN /\ instruction.op \in {"call", "closure", "function"} =>
                    instruction.args[2] \in DOMAIN functions \cup Signatures(file)
               /\ instruction.op = "enter" =>
                    instruction.args[1] \in DOMAIN blocks \cup BlockSignatures(file)

\* The address a jump or branch of the image holds is that of the instruction
\* its source line means: the one after the mark, the n-th of the body or the
\* one n further or before, the n-th of the whole program.  (The code of libraries
\* is not in the buffer yet when absolute jumps are calculated.)
Absolute(n) ==
  At(CHOOSE o \in DOMAIN image.code : Cardinality({p \in DOMAIN image.code : p < o}) = n)
Lands(place, body, target, address) ==
  CASE target[1] = "0x" -> TRUE
    [] target[1] = "." -> target[2] < Cardinality({o \in DOMAIN image.code : image.code[o].source[1] = 0})
                            => At(address) = Absolute(target[2])
    [] OTHER -> At(address) = <<place[1], place[2], Listing!TargetIn(body, place[3], target)>>
JumpsLand ==
  Built /\ NamesGiven /\ DistinctNames /\ OneLibrary /\ NoAbsoluteInLibraries =>
    \A o \in {p \in DOMAIN image.code : image.code[p].op \in {"jump", "branch"}} :
      LET place == image.code[o].source
          body == Body(place[1], place[2])
          line == InstructionsIn(body)[place[3]]
          targets == Listing!TargetsOf(line)
          addresses == SubSeq(image.code[o].args, Len(image.code[o].args) - Len(targets) + 1,
                              Len(image.code[o].args))
      IN PlainMarks(place[1], place[2]) /\ LikeTargets(line) =>
           \A i \in DOMAIN targets : Lands(place, body, targets[i], addresses[i])

\* Disassembling an executable and assembling the result gives the same tables
\* and the same code, byte for byte: the tests run the result and expect the
\* same output and exit code (tests/tests.py:204-210).
Bytes(code) == [o \in DOMAIN code |-> <<code[o].op, code[o].args>>]
RoundTrip ==
  (/\ stage \in {"reassembled", "not reassembled"}
   /\ NamesGiven /\ DistinctNames /\ NoFrameWaits /\ Printable) =>
    /\ stage = "reassembled"
    /\ again.functions = image.functions /\ again.blocks = image.blocks /\ again.size = image.size
    /\ Bytes(again.code) = Bytes(image.code)
====
