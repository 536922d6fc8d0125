# Viua VM in TLA+

A verification development for the Viua virtual machine: models of its CPU, its
registers and objects, its typesystem, its assembler, loader and disassembler, and
its debugger, the TLC runs that check them on small instances, and proofs,
checked by TLAPS, that hold for every program and every size.

All paths below are relative to the root of the repository.

## 1. The system

Viua is a register machine with its own assembler.  `viua-asm` turns assembly
into a bytecode file, `viua-cpu` loads it and executes it, `viua-wdb` debugs it
and `viua-dis` prints it.  The CPU is a single thread: `CPU::run` calls
`CPU::tick` until it returns a null pointer, and a tick executes one
instruction.  Nothing is concurrent and nothing is persisted.  What is hard
is the **order of legal instructions**: any instruction may fail, a failure is an
object thrown in the middle of an instruction, and a program that catches it
goes on with whatever state the failed instruction left.

### Components

| component | state it keeps | operations | interacts with |
|---|---|---|---|
| **CPU control core** (`src/cpu/cpu.cpp`, `src/cpu/instr/calls.cpp`, `tcmechanism.cpp`, `closure.cpp`, `general.cpp`) | call stack `frames`, prepared frame `frame_new`, block stack `tryframes`, prepared block `try_frame_new`, `instruction_pointer`, `jump_base`, `uregset`, `thrown`, `caught` | `frame`, `call`, `fcall`, `msg`, `end`, `try`, `catch`, `enter`, `leave`, `throw`, `pull`, `ress`, `jump`, `branch`, `halt`, the search for catchers | every instruction throws into it; typesystem (ancestors of a thrown type); linked modules (jump base) |
| **Registers and ownership** (`src/cpu/registerset.cpp`, `src/types/reference.cpp`, `src/cpu/instr/registers.cpp`, `vector.cpp`, `closure.cpp`) | register sets with masks, argument sets, counters of references, contents of vectors and closures | `move`, `copy`, `ref`, `swap`, `free`, `empty`, `tmpri`, `tmpro`, `param`, `paref`, `arg`, `clbind`, `closure`, `vinsert`, `vpush`, `vpop`, `vat` | frames own register sets; `end` moves a return value between them |
| **Typesystem** (`src/cpu/instr/prototype.cpp`, `object.cpp`, `src/types/prototype.cpp`) | `typesystem`: name to prototype (ancestors, methods) | `class`, `derive`, `attach`, `register`, `new`, `msg`, `inheritanceChainOf` | catching (ancestors), calls (`msg`) |
| **Loader and run-time linking** (`src/loader.cpp`, `CPU::loadNativeLibrary`) | tables of functions, blocks and jumps; `linked_modules` | `load`, `executable`, `link`, `import` | control core (jump base, bounds check) |
| **Assembler: code generation and static linking** (`src/front/asm/generate.cpp`, `src/program.cpp`) | addresses, jump tables, the bytes of the program | `compile`, `calculateJumps`, linking loop | loader reads what it writes |
| **Assembler: verification** (`src/cg/assembler/verify.cpp`) | none | `frameBalance`, `blockTries`, ... | promises about programs the CPU relies on |
| **Assembler: text** (`codeextract.cpp`, `operands.cpp`, `tokenize.cpp`) | none | splitting lines | |
| **Debugger** (`src/front/wdb.cpp`) | breakpoints, watchpoints, ticks left, paused, finished | commands around `CPU::tick` | drives the CPU step by step |
| **Instructions on values**, **disassembler**, **front end**, **standard library** | none of their own | arithmetic, printing, start-up | external functions are called by the core |

### What makes each correct

* *Control core*: `end` and `leave` resume the code that called or entered; a
  thrown object unwinds both stacks to the block that catches it; no
  instruction works on a deleted frame or register set; the stack stays within its
  limit; jumps are relative to the module of the code that jumps; an error is
  reported as what it is.
* *Ownership*: every object is deleted exactly once, and never while a register,
  an argument or a vector still holds it; a reference lives as long as its
  last copy.
* *Typesystem*: the search order for methods and catchers is a linearisation of
  the ancestors; it ends.
* *Linking*: every call, jump and table entry of the linked file points at the
  code it pointed at in the module it came from.
* *Verification*: the calls, blocks and marks of a program that is accepted exist.  Some
  of its checks only count along the text (`frameBalance` pairs `frame` with `call` as
  they are written, not as they are executed), and promise nothing about a program that
  runs.
* *Debugger*: it stops where it was told to, and running under it does not
  change what the program does.

`PROJECT.json` lists the hazards of this code line by line ("hazards") and
every component ("components").

## 2. Plan

| # | module | subject | state |
|---|---|---|---|
| 1 | `Catching` | which catcher is selected for a thrown object | done |
| 2 | `Cpu` | the control core, one action per tick | done |
| 3 | `StructuredControl`, `CpuRefinement` | what calls, blocks and exceptions promise, over one stack, and the mapping of the CPU's two stacks onto it | done, proved |
| 4 | `CpuProofs`, `StructuredProofs` | stacks and registers stay sound for every program; the two stacks stay tied and implement the one, and jumps stay in their module, for programs that keep the rules | proved |
| 5 | `Ownership`, `OwnershipProofs` | registers, references, parameters, return values, exceptions: who deletes what | done, proved; vectors and closures left out |
| 5a | `RegisterSemantics`, `OwnershipRefinement`, `OwnershipProofs` | registers as values and variables, and the mapping of the pointers onto them | done, proved |
| 6 | `Inheritance`, `TypeSystem`, `TypeSystemProofs` | prototypes, inheritance chains, method lookup | done, proved |
| 7 | `Lines`, `Encoding`, `Assembler`, `Executable`, `Listing`, `Assembly`, `AssemblyProofs`, `ImageProofs`, `JumpProofs` | verification, code generation, static linking, loading and disassembly of whole projects | done; proved but for the round trip, which TLC checks |
| 8 | `Machine`, `Debugger`, `DebuggerProofs` | commands, breakpoints, pause and resume around `CPU::tick`, over a machine without a debugger | done, safety proved |

`Cpu` is the centre: `Ownership` says what its steps do to registers, `TypeSystem`
computes the chains it searches (`Chains` of `Catching`), `Assembly` produces the
image it executes, with the modules it jumps in, and `Debugger` drives its ticks,
abstracted to the control flow of a program (`Machine`).

## 3. The modules

### `Catching`

The two searches of `CPU::tick` over the try frames.  `DetailedHits` is the
first (`cpu.cpp:626`, only objects whose `type()` is `Exception`, by `etype()`),
`TypeHits` the second (`cpu.cpp:641`, by `type()` and then by the ancestors
`inheritanceChainOf` returns).  A catcher map is a partial function from type
names to blocks, as `TryFrame::catchers`.  `CaughtByDetail`, `CaughtByType` and
`Uncaught` say which try frame and block are selected.

### `Cpu`

One action is one tick: the dispatched instruction **and** what `tick` does after
it.  The outcome of an instruction is either

* `GoTo(u, fs, ts, same)`: execution continues in body `u` with these stacks; the
  bounds check (`OutOfCode`) and the check for an unchanged instruction pointer
  decide `status`; or
* `Raise(e, fs, rs)`: the instruction threw `e` after it had made the call stack
  `fs` and the register set `rs`; the bounds check comes first, as in the code,
  then the two searches.

| variable | code |
|---|---|
| `frames` | `CPU::frames`; a frame is its address, function, return point and whether a return value is placed |
| `frameNew`, `tryOpen`, `tryCatchers` | `frame_new`, `try_frame_new` |
| `tryframes` | `CPU::tryframes` with `return_address`, `associated_frame`, `block_name`, `catchers` |
| `ip` | `instruction_pointer`, abstracted to the function or block it points into |
| `jumpBase` | `jump_base`, as the module whose bytecode it points to |
| `uregset` | `uregset`: kind and owner of the set in use |
| `caught` | `caught != nullptr` |
| `status` | why `tick` returned a null pointer (`halted`, `finished`: no frame left, `uncaught`, `invalid_address`, `endless_loop`), or how it killed the process: `null_hook` (a prepared frame or block was written through that does not exist) and `crashed` (an error `tick` does not catch, or a jump into bytes that are no body) |

A program is not fixed: in every state any instruction may come next, so a run
covers all programs over its names.  Functions' bodies are not paths but sets of
possible instructions; conversely nothing depends on what a value is.  The
exceptions are the five instructions of `__entry` the assembler generates
(`src/front/asm/generate.cpp:769`), which are fixed: `Start` prepares a frame and
calls `Main`, `Exit` halts.

Some points where the model is deliberately as odd as the code:

* `param`, `paref` and `msg` read `frame_new->args`, and `catch` and `enter` write
  through `try_frame_new`, without looking whether there is one: `NoFrame` and
  `NoTryFrame` end the process, they do not throw.
* a jump may lead into any body of the module it is relative to, or out of all of
  them, unless the program keeps the rule `jumps_stay`.
* `Kept` never looks at the two lowest frames, like the loop over `distance`
  (`j > 1`).
* `Call` moves `jumpBase` before the call can be refused.
* an external function that throws leaves its frame on the stack (the frame
  has been pushed by `pushFrame` and only `dropFrame`, which is skipped, or
  unwinding removes it).
* `End` drops the frame before a return value is placed, so a failure to place
  it is raised with the caller on top, while the instruction pointer is still
  in the callee.
* `End` and `Leave` ask for the function on top in `linked_functions` with `at`,
  which ends the process for an external function.
* frames are identified by their addresses, which `new` returns again after a
  `delete` (`FreeAddr`), so a stale `associated_frame` can meet a new frame.

`msg` reaches the same three ways of calling; its lookup is in `TypeSystem`.  Instructions that only read or write values are either a
stuttering step or, when they fail, `Throw` (all of them fail before they have
changed the state modelled here).

### `StructuredControl` and `CpuRefinement`

`StructuredControl` is the promise: one stack whose elements are calls and entered
blocks.  `end` closes a call, `leave` closes a block, each resuming the code that
opened it, and a thrown object closes everything inside the block that catches it.
`CpuRefinement` reads the CPU's two stacks as this one: each frame is followed
by the try frames whose `associated_frame` it is.  The mapping (`Contexts`) is stated
by place: the i-th try frame comes after the frames up to the one that entered it and
after i - 1 try frames (`Place`), and the calls take the places that are left.  The
mapping is only defined while the CPU runs; a stopped CPU maps to the empty stack.

### `Ownership`

The pointers behind the registers.  `heap.obj` says what is at an address: a simple
object with its value, a `Reference` with its cell, or nothing.  `heap.cell` is
what all copies of a `Reference` share (`Type **pointer`, `unsigned *counter`).

| variable | code |
|---|---|
| `frames` | `CPU::frames` from the program's main function on: `regset` (`regs`, and `keep` for the mask `KEEP`), `args`, `place_return_value_in` (`ret`) |
| `prepared` | `frame_new->args`, or `Null` without a prepared frame |
| `tmp`, `caught` | `CPU::tmp`, `CPU::caught` |

The helpers have the names and the case distinctions of the code: `SetHeap` and
`SetRegs` are `RegisterSet::set` (store, rebind the `Reference`, or delete and
store), `PlaceRegs` adds `hasrefs`/`updaterefs`, `DeleteAll` is `delete` with
`~Reference`, `Owned` is what `~RegisterSet` deletes.  They take the heap and the
register set as arguments because most instructions change the heap more than
once.  `new` returns the lowest free address, so addresses are used again
at once.

One action is one instruction; instructions that fail change nothing here and
are left to `Cpu`.  `New` stands for every instruction that ends in `place` of a
new simple object, `Modify` for those that change the fetched object.  `Throw` goes
together with the unwinding of `tick` to any frame below.

Some points as in the code: `param` stores the pointer `fetch` returns, not a
copy; `paref` stores the very `Reference` the caller's register holds; `~Frame` drops
the parameter slots without deleting; `move` overwrites without deleting;
`tmpro` frees the register even if it holds a `Reference`; `end` makes its copy
before the frame is deleted and places it after.

### `RegisterSemantics` and `OwnershipRefinement`

What the instructions mean to someone who does not know pointers: a register is
empty, holds a value or stands for a variable; writing to a register that stands
for a variable writes the variable; an argument is what it was when it was passed;
a variable is gone when nothing stands for it any more.  `OwnershipRefinement` maps
an address to what is at it, and a cell to a variable.

### `Inheritance` and `TypeSystem`

`Inheritance` holds `inheritanceChainOf` (`cpu.cpp:487`) and reference definitions to
compare it with: the ancestors of a type as the least closed set, the distance to
one.  The loop of the code runs over the vector it appends to: `Grown` says what it
makes of the types it has not reached yet, given the chain of each type.  The calls
within one another are `ChainsWithin`: a call for a type makes calls for its
ancestors, and as long as the recursion ends no two of them are for one type, so
there are at most as many calls within one another as there are types.  Counting them makes the
definition total: were the recursion written without a count, a cycle of
derivations anywhere in the typesystem would leave all chains undefined, and not
only those of the types that reach it.  Where the recursion of the code does not end
(`ChainEnds` is false) `TypeSystem` says `crashed` and uses no chain.  The linearisation the
code computes after the loop is not what it returns, and is left out.

| variable | code |
|---|---|
| `prototypes` | the `Prototype` objects at their addresses: name, bases, methods |
| `registers` | the registers of the running function that hold prototypes |
| `typesystem` | `CPU::typesystem` |
| `resolved` | the function the last `msg` resolved its method to |
| `broken` | which conventions the program has left so far |
| `crashed` | the process has ended: unbounded recursion, `at` or a null pointer |

One action is one of `class`, `derive`, `attach`, `register`, `ref`, `copy`, `free`,
`msg` or the search for a catcher.  As in the code, `register` empties the register
without deleting, so that a `Reference` that held the prototype leaves a count
behind (`pinned`); registering a name again loses the earlier prototype; `copy`
copies only the name; `derive` and `attach` look their operand up when they are
executed and never again; a program may register a class of its own named `Object`.
Instead of constants, the conventions are recorded
as they are left, so that one run serves properties with different premises.

### `Lines`, `Encoding`, `Assembler`, `Executable`, `Listing`, `Assembly`

A source file is a sequence of lines `[op, args]`, an image is its tables, its size
and a function from byte offsets to instructions.  Each instruction carries the place
in the sources it comes from, for the properties only.

* `Lines`: the elements of a sequence at some indexes (`Pick`), and where pieces start
  that are placed one after the other (`Places`, `Total`).  The assembler does little
  else: its loops copy the lines that meet a condition, and add up sizes.
* `Encoding`: the size of an instruction as each of the five parts that know it sees
  it (`instructions.cpp` emits, `maps.h` and `countBytes` count,
  `getInstructionBytecodeOffset` walks, `disassembler.cpp` prints).
* `Assembler`: what is taken from the text (`FunctionNames`, `Invokables`, `Marks`,
  ...), what is refused (`Verified`, `Accepted`), the instruction a line becomes
  (`CompileLine`), the jumps and their places (`Jumps`, `CalculateJumps`), and
  `Generate`, which places blocks, functions, the entry function and linked libraries.
* `Executable`: what `Loader` and the front end of the disassembler read back.
* `Listing`: what a source file means, said without bytes.
* `Assembly`: a project of a program and libraries is built step by step, loaded,
  disassembled and assembled again.  The abstract listing is compared with
  the image at the end.

The loops of `generate` over bodies are written by what each body gets: body k starts
where the sizes of the bodies before it say (`Section`), the buffer is these pieces at
their places (`Written`), and `calculateJumps` replaces the fields at the recorded
positions, in any order, since the walk it makes reads opcodes and names only
(`Stored`).  `ProjectsAssumption` says which files are modelled: definitions have an
end and are not nested, jumps have targets as the manual writes them, and a
library links libraries that have been built before it.

Some points as in the code: the second target of a `branch` is recorded by the type
of the first; `getmarks` counts lines that are no instructions; all linked libraries
are relocated by the same offset; linked blocks do not get into the tables; jumps
of a library inside a library are not relocated; the walk over the bytes throws
a `const char*` nobody catches when a target is past the end (outcome `died`).
`attach` and `msg` may leave names out: `get3` (`assembler.h:21`) makes up what is
missing and the line compiles, but `countBytes` takes the names from the text.  If less
is counted than emitted, the instructions are written beyond the buffer of the body,
which has no defined result (outcome `overrun`); if more is counted, the buffer keeps
`nop`s behind them (`Filled`).

### `Machine` and `Debugger`

`Machine` is a program executed without a debugger: its control flow, the instructions
that end it and those that may fail.  `Debugger` is `viua-wdb`: one action per command
(verification and effect), and the inner loop over `CPU::tick` that follows every
command.

| variable | code |
|---|---|
| `ip`, `outcome` | `instruction_pointer`, what `tick` returned |
| `initialised`, `paused`, `finished`, `raised`, `ticksLeft`, `autoresumes` | fields of `State` (`exception_raised` is `raised`) |
| `stops` | breakpoints by address, opcode and function, watchpoints by function and register |
| `command`, `granted`, `spent`, `resumes`, `hits` | the command being executed, and what was asked for, to compare with |

Some points as in the code: a breakpoint on the instruction a command starts with is
not tested; the watchpoint test takes the register written from the wrong operand
for most instructions (`TakenForWritten`); an unknown opcode ends the debugger, not the
program; `raised` is never cleared; `cpu.run` is accepted after the end and leaves
`ticksLeft` at -1, which a later `cpu.unfinish` finds; a second `cpu.init` resets nothing;
`show` reads the back of an empty trace after the program has ended, and `cpu.jump`
over bytes that are no instruction throws a string nobody catches: both may end the
debugger.

### `MCCpu`, `MCOwnership`, `MCTypeSystem`, `MCDebugger`, `MCAssembly`

Values of the constants for TLC; addresses of frames, values of objects, type names
and registers are symmetric.  `MCAssembly` lists the projects that are built.

## 4. What is checked

The assembler lets a block end with `end` (`src/front/asm.cpp:271`) and lets a
function contain `leave`; such programs break the pairing of the two stacks.
`Rules` names the conventions a run assumes: `end_in_function`,
`leave_in_block`, `jumps_stay` (the manual allows absolute jumps anywhere) and
`local_blocks` (blocks are entered in their own module).  The machine checks none of
them.  The first run assumes none.  No run assumes that frames and blocks are prepared
before they are used.

| run | question | instance | result |
|---|---|---|---|
| `cpu_any` | do stacks, prepared frame and registers stay sound for *every* program? | one function, one block, one external function, catchers for `Exception` and a class, limit of 2 (3 frames), 1 try frame | holds; `TypeOK`, `NoFramePushedTwice`, `RegistersOfTopFrame`, `StackBounded`, `BuriedFramesKept` |
| `cpu_structured` | do the two stacks implement structured control when catching by type? | 4 frames and 2 try frames deep, so two callees are unwound at once, and blocks nest within a frame and across frames; an external function throws what is caught | holds; `ImplementsStructuredControl`, `BlockRunsInItsFrame`, `TryFramesFollowFrames`, `OnlyHooksKill` |
| `cpu_machine_exception` | the same with a catcher for `Exception` | 3 frames, 2 try frames | **violated** (finding 1) |
| `cpu_linked` | are jumps relative to the right module? | function and block in a module linked at run time, nothing caught | holds; `JumpBaseOfCode`, `OnlyFailuresLeaveCode` |
| `cpu_failure_in_library` | does a failure inside a linked module reach its catchers? | the same with a catcher | **violated** (finding 2) |
| `own_careful` | do the pointers behave as values and variables, with one owner for every object? | 2 frames of 2 registers, 1 slot, 4 objects, 1 cell, all conventions | holds; `TypeOK`, `OneOwner`, `ImplementsRegisterSemantics` |
| `own_leaky` | can a program that merely leaks also corrupt? | the same, with the conventions against leaks dropped | it cannot; `NoDoubleFree`, `CountsMatch` |
| `own_param` | is an argument a copy? | without `lent_untouched` | **violated** (finding 3) |
| `own_catch` | can the function that threw also catch? | without `catch_outside` | **violated** (finding 4) |
| `types` | does the search of ancestors end, complete, in the right order, and is it stable, although nothing checks for cycles? | two classes and `Object`, 3 prototypes, 2 registers, 3 edits | holds; `TypeOK`, `EntriesIntact`, `BasesRegistered`, `AncestryAcyclic`, `ChainComplete`, `DerivedFirst`, `MethodsResolve`, `NoCrash`, `ResolutionStable`, `NearestAnswers` |
| `debugger` | do the flags that survive a command ever let the program run too far, too short or unasked? | a loop, an exit, a failure and bytes that are no instruction; ticks -2, -1, 2, 3; resumes 0, 1, 2; one stop | holds; `TypeOK`, `TicksExact`, `StopsHonoured`, `WaitsForRequest`, `Transparent`, `TicksEnd`, `RunStops` |
| `assembler` | do sizes, tables, jumps and the disassembly agree with the source? | one program for each instruction and form of it, with names left out too, bodies of `main` of two free lines, programs with one or two libraries | holds; `TypeOK`, `LayoutsAgree`, `EntryPoints`, `JumpsLand`, `RoundTrip` |

`OwnershipRules` names the conventions of the four `own_` runs.  The machine checks
none of them.  `flat_references`, `lent_untouched` and `catch_outside` keep a program
from corrupting memory; `move_to_empty`, `take_first` and `no_empty` keep it from
leaking.  `own_leaky` shows that the first three suffice against corruption, and
`OwnershipProofs` proves it.
They are not idle: without `flat_references`, `ref 1 1` makes a cell that points
to its own `Reference`.

The properties of the typesystem name the conventions they need (`Keeps`).  With
them they say more than without: a type that is registered twice, or a prototype
that a reference still reaches, really can make the ancestry cyclic and end the
process, while a second base only spoils the order (`DerivedFirst`).

The properties of the assembler hold for projects that keep the conventions of
`Assembly` (`DistinctNames`, `OneLibrary`, `NoBlocksInLibraries`,
`NoAbsoluteInLibraries`, `LikeTargets`, `PlainMarks`, `NamesGiven`, `NoFrameWaits`,
`Printable`).  The assembler checks none of them, and each is needed: the instances
contain projects that leave one and for which the property would be false.  Of a function
that is defined twice, for example, the last body is generated each time, while
room is counted for the bodies as they are written: code then overlaps, or passes
the end (`DistinctNames`, which also keeps `__entry` for the assembler).  A
function whose lines are all marks is no instruction anywhere, so its entry leads
to the next body (`EntryPoints` asks for an instruction to lead to).  The
manual only states that libraries have no absolute jumps (it calls them prohibited;
nothing enforces it).  `NamesGiven` excludes an `attach` or `msg` with names left out,
`LayoutsAgree` only the line itself.

`RoundTrip` is about projects with blocks as well as functions, whatever instruction
they end in.  `NoFrameWaits` is needed because the disassembler prints bodies in another
order than the source has them, and `frameBalance` counts from one body into the next; a
body must have an instruction because an empty one is refused (`Printable`).

`frameBalance` itself has no property.  What it accepts says nothing about execution:
in `frame 1`, `enter b`, with `frame 0` in block `b`, each frame has its call in
the text, and the second fails when it runs.  What happens then is `Cpu`'s subject, whose
programs keep no such rule.

### Bounds

`MAX_STACK_SIZE` is 8192 in the code and 2 or 3 in the runs: enough for a callee
of a callee of `main`, for the refused push, and for an unwinding that drops two
frames.  `MaxTryFrames` bounds the block stack, which the code does not; two try
frames give an inner block that does not catch around an outer one that does, in
one frame and in two.  There is one address more than frames can be on the stack, so
that one can be prepared at the limit.  `cpu_any` needs only one try frame because
its properties do not read the block stack: a stale one is enough to unwind wrongly.
The proofs do not depend on any of these numbers.

`Ownership` needs two registers for a reference and a copy of it, two frames for
arguments, return values and unwinding, and four objects: two `Reference`s, what
they refer to, and the object a write through either puts in its place, so three
are left after an instruction (`MaxLive`).  One cell suffices because cells
never meet (`flat_references`).  Values are only copied, two tell them apart.

`TypeSystem` has as many types as a cycle through a class and `Object` or through
two classes needs, and one address for each and one to spare: with it a type can
be replaced while another prototype is built.  Three edits give two derivations and an
attached method.  `Debugger` needs a loop through a stop (`MaxStops` = 1 stop of any
kind), a finite grant longer than the way to the first stop, and a negative number
of ticks the code does not expect.  `Assembly` has no bound but its projects: two free
lines in a body are a jump and the mark or frame it concerns; two libraries are the
smallest project in which offsets can differ.

### Fairness

`Debugger` assumes `WF_vars(Loop)`: the debugger is one thread, so once a command is
accepted the inner loop goes on until it is left, and every `tick` ends because it
executes one instruction.  Nothing is assumed of the user, who may never type another
command.  `TicksEnd` and `RunStops` are its liveness properties: every command but
`cpu.run` returns to the prompt, and `cpu.run` does if every loop of the program
goes through a breakpoint on an address.  The other modules state no fairness: the
machine promises no progress of its own, and a program may loop.  Deadlock is
checked for the CPU (a stopped CPU stutters in `Stopped`) and for ownership; it is
not where the system really stops: a crashed process, a debugger that has ended, a
project that is built.

### Faulty variants

Beside a definition there may be a variant marked *faulty* (`KeptToCaller`,
`LeaveFrames`, `CallRefusedWhenFull`, ...).  It is the definition with a plausible
mistake.  `PROJECT.json` ("mutants") pairs each checked property with a variant
that makes TLC find it violated: that is the evidence that the property constrains
the code.

`OnlyHooksKill` says what is left when `null_hook` is set apart: no other tick of a
structured program kills the process.  That `param`, `paref` and `msg` can is not the
wish of the manual (see *Other oddities*).

### Findings

1. **A machine exception does not unwind** (`src/cpu/cpu.cpp:626`).  The first
   search, marked as a temporary hack, starts the handler with the call stack and
   the block stack of the point of failure.  A handler for `Exception` therefore
   runs on the registers of the function that failed, its `leave` pops the wrong
   block if the callee had entered one, and its function's `end` ends the callee.
   After a failed external function the handler's `leave` ends the process, since
   the frame on top belongs to no linked function.  The docs say try frames "are
   closely tied to their respective frames", and the test for
   `restore_catcher_state.asm` (an `Integer` is thrown there) expects it.
2. **A failure in a linked module may be reported as an address fault**
   (`src/cpu/cpu.cpp:592`).  The bounds check runs before the search for catchers
   and looks at the name of the frame on top, which after a failed external
   call or a failed return is not the function the instruction pointer is in.

3. **`param` does not copy** (`src/cpu/instr/calls.cpp:61`).  The docs say "Put a copy
   of an object"; the slot gets the caller's pointer and `arg` copies it in the
   callee.  Writing to the register between `param` and `call` changes or deletes
   the argument, and so does a callee that writes through a reference to the same
   object before it reads the argument.
4. **A caught object can be deleted by `pull`** (`src/cpu/instr/tcmechanism.cpp:64`).
   `throw` leaves the object in its register, masked `KEEP` so that unwinding spares
   it.  When the function that threw catches it, `pull` into the same register
   deletes the object it stores; `pull` into another leaves two registers with one
   object, one of which dangles as soon as the other is written or freed.
   `sample/asm/blocks/catching_builtin_type.asm` throws from register 1 and pulls
   into register 2, and gets away with it because it ends there.

Other oddities the models contain and no run is spent on: `param` and `paref`
without a prepared frame end the process, where the manual has "Instruction will fail if
no unused frame is present" (the action `NoFrame`); an `attach` without
its last operand makes the assembler write beyond the buffer of the body (`Overruns`), and
a `msg` without a method, whose register is counted as its name, leaves room that is not
filled; a caught stack
overflow or failed call leaves `frame_new` set; the stack accepts
`MAX_STACK_SIZE + 1` frames (`StackBounded` says so); `jump_base` is not restored
when an object thrown in another module is caught; the disassembly of a program with
`.main:`, signatures, linked code, code outside of bodies or `bstore` from a register
is another program; the second library linked into a file is relocated by the offset of
the first.

## 5. What is proved

`CpuProofs` proves, for all programs, all finite or infinite sets of addresses,
types and names, and every stack limit, under `CatchingAssumption` and
`CpuAssumption` (distinct names, positive limit):

* `TypeCorrect`, `NoStackCorruption`, `NoDanglingRegisters`, `BoundedStack`: the
  invariants of the run `cpu_any`;
* `BuriedFramesStay`: its action property.

The inductive invariant `Inv` is the conjunction of the four invariants.  None of
them is inductive alone: a push keeps addresses distinct only because `frame_new`
is never on the stack; the registers in use belong to the top frame after
unwinding only because unwinding leaves at least one frame; the type of the
pushed frame depends on the call having been refused without a prepared frame.
`Sound` restates `Inv` for a running CPU over arbitrary stacks, so that `RaiseSound`
can be used for the three stacks an instruction can leave behind when it throws:
the present one, the one without the callee, the one with an external callee.
There is one lemma per action, and `TickInv` puts them together.

`StructuredProofs` assumes of the program that it keeps `end_in_function`,
`leave_in_block` and `jumps_stay`, and catches no type by the detailed type of an
`Exception` (`Structured`).  For a program in one module (`OneModule`):

* `TryFramesStayTied`, `BlocksRunInTheirFrames`, `OnlyMissingHooksKill`: the
  invariants of `cpu_structured`, for every depth of calls and blocks.  The last says
  that the only ticks that kill the process are `param`, `paref` and `msg` without a
  prepared frame, and `catch` and `enter` without a block: `end` and `leave` always
  find the function they return to, whatever has been thrown.

For any number of linked modules, under two further conditions (`ManyModules`): each
block is entered in its own module, and nothing that is thrown is ever caught:

* `JumpBasesFollowCode`, `ControlStaysInCode`: the properties of `cpu_linked`.

The second condition cannot be dropped: catching leaves `jump_base` as it was when
the object was thrown, so a handler in another module jumps relative to the wrong code.
These two theorems are about calls, returns, blocks and jumps only.

The strengthening `Linked` says of both stacks at once who owns what: every try frame
was entered from one frame (`Tied`), a function is in a block exactly as long as it
owns a try frame (`Shape`), and the first try frame a function enters returns to its
body, the others to blocks (`Nested`).  That is what makes `leave` resume the right
code and `end` find its blocks left.  `UnwoundToOwner` shows that the loop over
`distance`, which ignores the two lowest frames, stops at the owner of the try frame
that catches.  `Located` adds that each function is in code of its own module.

For the programs of `cpu_structured` (`Structured` and `OneModule`), `StructuredProofs`
also proves:

* `ControlIsStructured`: `Cpu` implements `StructuredControl`
  (`ImplementsStructuredControl`), for every depth of calls and blocks.

On tied stacks the places of blocks rise (`PlacesRise`), so each place of the one
stack holds a block or a call, and which it is depends on what lies below only.
`ContextsCut` is the lemma everything else rests on: if the lowest m frames and i try
frames are kept, and no other try frame has its place among the first m + i, the one
stack is cut after m + i contexts.  `call` and `enter` are the reverse of a cut by
one (`OneCallMore`, `OneBlockMore`), `end` and `leave` are such cuts, and unwinding is
the cut at the block that catches (`CutAtBlock`).  Catchers are found at the same
place in both, since the calls of the one stack have none (`SameHits`).

`OwnershipProofs` proves, for any number of objects, cells, registers, parameter slots,
values and frames, under `OwnershipAssumption` and `NullAssumption` (addresses are
numbers, finitely many; `Null` is none of them), and for every program that keeps
`flat_references`, `lent_untouched` and `catch_outside` (`Careful`):

* `OwnershipTypes`, `DeletedOnce`, `CountedRight`: `TypeOK`, `NoDoubleFree` and
  `CountsMatch`;
* `OwnedOnce`, for programs that keep all six conventions (`Leakless`): `OneOwner`.

It also proves for these programs, under the same assumptions and
`RowAssumption` (`Null` is no row of parameters either, as the null pointer is none):

* `OwnershipRefines`: `Ownership` implements `RegisterSemantics`
  (`ImplementsRegisterSemantics`).

An instruction takes several steps on the heap, and between them what it has just
made, or is about to store, is in no register.  So the invariant is about a heap and
a set of objects held somewhere (`Sound`): what is held lives, each cell in use
points to a simple object that is neither held nor the target of another cell, and
counts the `Reference`s that name it; whatever lives is held, is a target, or may
be lost.  One lemma for each of `new`, copy, `new Reference`, `rebind` and `delete`
says how it changes the set (`CloneSound`, `RebindSound`, `DeleteAllSound` ...), and
`SetSound` puts them together for `RegisterSet::set`.  `Inv` is `Sound` for what the
frames, the temporary register and the caught object hold (`Held`), that no object is
in two of these places (`Apart`), and that what parameter slots point to lives.
`Lost` is empty for programs that do not leak, and every object otherwise: the two
claims are one proof.  That no two registers of a frame share a pointer also means
that the case of `place` for such registers (`hasrefs`) never arises (`PlaceIsSet`).

`OwnershipRefines` adds what an instruction writes to whom it belongs to.  An operator
on the heap changes the contents of the objects it is given and of no object held
elsewhere, so the meaning of every other place stays (the `...Content` and `...Means`
lemmas), and one instruction is one step of `RegisterSemantics`: writing through a
`Reference` is writing the variable its cell stands for, `ref` of a value makes a
variable, `ref` of a `Reference` names one again.  A variable of the abstract machine
is gone when nothing stands for it; a cell when its count reaches 0.  These agree
because the counts are exact, which is `Sound` once more.  There is one lemma
for each action, and `NextMeans` puts them together.

`TypeSystemProofs` proves about `inheritanceChainOf`, for any finite number of types
and any derivations among them, if no type above the one asked for (nor that one)
inherits from itself:

* `ChainHoldsAncestors`: it returns the ancestors, all of them and nothing else;
* `ChainInOrder` and `ChainByDistance`, if every type derives from at most one: ancestors
  come in the order of their distance.

What makes the loop end although it appends to the vector it runs over is that the
appended types rank lower: the rank of a type is the number of its ancestors.  A
vector of types that rank below a number is induced over twice, by its highest
rank and by how far the last type of that rank is from the front (`LoopInduction`).  That the recursive functions
have the values their equations state is proved and not assumed: the least relation
closed under the equations is shown to be a function (`LoopEnds`, `Repetition`).

It also proves, for any number of types, registers and prototypes:

* `TypesCorrect`, `EntriesStayIntact`, `BasesStayRegistered`, `AncestryStaysAcyclic`,
  `MessagesDoNotCrash`;
* `ChainsAreComplete`, `DerivedComeFirst`, `MethodsAlwaysResolve`, `ResolutionsAreStable`,
  `NearestTypeAnswers`: all other properties of the run `types`.

`EntriesIntact` is not inductive; `OneHolder` is: without references each prototype
has one holder, an entry or a register, so that what a register does never reaches
an entry.  Acyclicity needs no ranking: a registration adds one type to the graph,
and a set of types without a member that derives from none of the others would,
without the new type, have been one before (`StepAcyclic`).  `AcyclicSearches` turns
acyclicity into the end of the recursion, on which `NoCrash` rests.  `Plain` adds that
the typesystem is finite, that methods are functions there are, and that a second
base leaves a convention; with it the theorems on chains apply to every searchable
type (`SearchFinds`).  `StepStable` is where a type registered later could do harm:
it changes no entry (`StepKeepsEntries`), so the ancestors of a type, and with them
its chain, stay what they were (`SameChain`).

`DebuggerProofs` proves, for every program, every set of stops and every operand:

* `TypesCorrect`, `TicksStayExact`, `StopsStayHonoured`, `ExecutionWaits`, and
  `DebuggerIsTransparent`: every step of `Debugger` is a step of `Machine` or a stutter.

Its `Inv` says what is left of a command at the prompt (`AtPrompt`: no resumes, and no
way to go on), that stops met and resumes left stay within the operand
(`ResumesLeft`), and that the debugger knows when the program has ended
(`EndNoticed`), without which it would tick a CPU that has stopped.

`AssemblyProofs` proves, for every line, body, table of marks and table of names:

* `LineSizesAgree`: what is counted for a line that compiles and gives its names
  (`GivesNames`), what is walked over and what the disassembler consumes is what is emitted
  for it;
* `PrintedLineIsTheInstruction`: the line the disassembler prints for a compiled
  instruction is accepted in every body and compiles to the same instruction, if its
  own line gave its names.  The exception is `bstore` from a register, whose flag is not printed (`Unflagged`).
  Printed targets are absolute, so the line means the same wherever it stands: this is
  the step from instructions to lines that `RoundTrip` rests on.

Layouts and sizes are two tables written down apart from each other.  The proof looks
both up by kind of instruction (`Formats`), so that a disagreement of the tables would
fail there, and compares the four computations kind by kind.  Where they differ in shape
is in the names: `countBytes` finds them in the text of the line, the others in what
`compile` made of it after it has supplied missing operands (`OperandsOfNames`).  `call`
with and without a register gets the same count.  `msg` and `attach` do not: the
operands `compile` makes up for them are counted as if they were in the text, or not at
all, and that is what `GivesNames` is for.  `MnemonicsHaveNoDot` and `DirectivesHaveADot` are assumed since the provers
do not look into strings; TLC evaluates them.

`AssemblyProofs` goes on to what `generate` makes of one file, `ImageProofs` to the
images, where files meet, and `JumpProofs` to the jumps in them.  For every project,
with files of any length, any number of libraries and any links among them, under
`ProjectsAssumption` and these two:

* `SizesAgree`: `LayoutsAgree` of the run `assembler`, for every line that gives its names;
* `CodeIsInPlace`: the type invariant of the run.  If all lines give their names
  (`NamesGiven`), no body is written beyond its buffer (`NeverOverruns`), and if no name
  is defined twice either, code lies within the written size and nothing overlaps;
* `TablesLead`: `EntryPoints`;
* `JumpsAreRight`: `JumpsLand`.

The last two have `NamesGiven` among their premises.

The inductive invariant `BuildInv` says what each stage has made: every image and
every library is what `Generate` makes of its file and the libraries built before it.
What is left are facts about `Generate`, for all files, in layers:

1. *Selections and sums.*  `Pick` keeps the order and every line once (`Picked`);
   `Places` adds up (`PlacesAdd`), so pieces of their sizes do not meet and fill the
   total; what is picked weighs what it weighs where it stands (`PickedTotal`,
   `PartsAdd`).  These take the place of inductions over files: the induction
   (`CountingUp`, from the smallest number of a set) is in them.
2. *Bodies.*  The instructions of a body fill what is counted for its lines, because
   the sizes of each line agree (`LineSizesAgree`); replacing targets changes no size
   (`RetargetedCode`).  The entry function is the whole file between its own six lines;
   what is counted for it is counted for these and the code outside of bodies
   (`EntryMass`).
3. *Sections, buffer, image.*  A section is a row of such bodies, the buffer holds it at
   its places, absolute jumps change no size, the libraries follow, each as the image of
   its own build, relocated.  `GoodUnit` is what is known of an image, and it goes from
   the libraries a file reaches to the file (`UnitIsMade`, `ReachedGood`), since links
   point to libraries built before.
4. *Sources.*  Each instruction of an image carries its place in the sources:
   `CodeFromSource` says that there really is that instruction at that place, and
   `CodeIsInPlace` follows from 3.
5. *Tables.*  The loader looks up the last entry of a name; without names defined twice
   it is the only one.  The address of a name is the running sum of what is counted for
   the bodies before it, the start of a body the running sum of what is emitted for
   them, and they are equal by 2.  The functions of a library come with the offset their
   code is moved by, which is the end of the file's own code (only for the first library:
   hence `OneLibrary`).  What `functionCallsAreDefined` and `callableCreations` accept is
   a name of the file, of the library or a signature, and the first two are in the tables.
6. *Jumps.*  A target passes through four hands.  `getmarks` counts lines and the manual
   means instructions: in a body with plain marks these are as many (`MarksMeant`).  The
   walk of `calculateJumps` goes over bytes: bodies have no gaps (`PlacedContiguous`), so
   after n steps it is where n instructions lie behind (`WalkFinds`), within a body for
   relative jumps and over the whole buffer for absolute ones (`BufferContiguous`,
   `AbsoluteFinds`).  Fields are patched at recorded positions, several times: no two
   fields of an image have the same position, so each is patched as it was recorded
   (`FieldsRecorded`), for which both targets of a branch must be of one kind, since
   `branch` records them under the type of the first.  What is found moves with its body
   into the buffer and with its library into the image (`ImageTargets`).  `TargetLands`
   puts these together for one target.

Only model-checked:

* `TicksEnd` and `RunStops`: liveness;
* `RoundTrip` of `Assembly`: it is about generating a file that was generated from another
  one.  `PrintedLineIsTheInstruction` is its step for one line; that the file as a whole
  passes `verify.cpp` again and is cut into the same bodies is not proved.

In the proofs about `Cpu`, `Chains`, the result of the recursive `inheritanceChainOf`,
is a parameter.

## 6. What is not modelled

* *Values.*  Arithmetic, strings, casts and printing compute values without state.
  Where they matter they appear as a stuttering step or as `Throw` (`Cpu`), as an
  object made or changed in place (`Ownership`), or as a layout (`Encoding`).
* *Vectors, closures, static and global register sets as owners.*  `Ownership` gives
  every object one level of holders.  That `vat` returns a pointer the vector
  goes on owning is a hazard no property covers.
* *Linking at run time* (`link`, `import`) is a fixed set of modules in `Cpu`.
* *Text of the assembler.*  Lines are split already; nested bodies, `.class:` blocks,
  parenthesised subexpressions and `.link:` lines (which `directives` refuses) are left
  out, and so are addresses beyond 65535, which wrap.  Two inputs whose outcome is
  undefined are not generated: a `main` of one line (a read past the front of a
  vector) and absolute jumps into the area of a library that is not written yet.
* *Parts of the debugger*: `watch.register.global.write` (its test is never called),
  `cpu.preload`, configuration, history and printing.
* *Options, paths and printing* of the front ends; the *standard library*, whose C++
  functions are external functions to `Cpu`.
* What happens after the process ended: `CPU::run` deletes the last frame, which is
  undefined if that frame has ended already.
