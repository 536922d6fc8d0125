------------------------------ MODULE Debugger ------------------------------
(***************************************************************************)
(* viua-wdb: a loop that reads a command, changes the state of the         *)
(* debugger, and then lets the CPU run for as long as that state allows.   *)
(* Whatever the command was, the inner loop over CPU::tick is reached once *)
(* the CPU is initialised; paused, finished, exception_raised and          *)
(* ticks_left decide whether it does anything.                             *)
(*                                                                         *)
(* The program is fixed, as control flow with what the debugger looks at   *)
(* in an instruction.  broken records the conventions the user has left.   *)
(***************************************************************************)
EXTENDS Integers, FiniteSets, Sequences

CONSTANTS
  Code, Entry, Flow, Halting, Failing,  \* the program, see Machine
  Unknown,      \* addresses that hold no instruction
  OpcodeOf,     \* address -> name of the instruction there
  CalleeOf,     \* address -> function a `call` there calls, or Null
  FunctionOf,   \* address -> the function it belongs to
  OperandsOf,   \* address -> the registers the instruction names, in order
  MisreadOf,    \* address -> what is read in place of a second operand
  Functions, Registers, Null,
  TickCounts, ResumeCounts,  \* operands of cpu.tick and cpu.resume
  MaxStops                   \* bound of the model only: stops that are set

\* no_jump:      cpu.jump is not used.
\* one_init:     cpu.init is used once, and nothing that needs a frame before.
\* no_unfinish:  cpu.unfinish is not used.
\* run_to_run:   cpu.run is not used when the program has finished.
Conventions == {"no_jump", "one_init", "no_unfinish", "run_to_run"}

Known == Code \ Unknown

Opcodes == {OpcodeOf[a] : a \in Known}

ASSUME DebuggerAssumption ==
  /\ Entry \in Known
  /\ Unknown \subseteq Code
  /\ Flow \in [Code -> SUBSET Code]
  /\ Halting \subseteq Known /\ Failing \subseteq Known
  /\ TickCounts \subseteq Int /\ ResumeCounts \subseteq Int
  /\ MaxStops \in Nat

VARIABLES
  ip,           \* cpu.instruction_pointer
  outcome,      \* what the last tick returned, see Machine
  initialised, paused, finished,
  raised,       \* exception_raised
  ticksLeft, autoresumes,
  stops,        \* breakpoints and watchpoints
  command,      \* the command that is executed, or "prompt"
  granted,      \* operand of the last cpu.tick (-1 for cpu.run), less the
                \* ticks that were given up since
  spent,        \* ticks since, if their number was granted
  resumes,      \* operand of this command if it is cpu.resume, or 0
  hits,         \* stops this command has run into (at most resumes + 1)
  broken,       \* conventions the user has broken
  crashed       \* the debugger itself has ended

cpuVars == <<ip, outcome>>
flags == <<initialised, paused, finished, raised>>
counters == <<ticksLeft, autoresumes>>
grant == <<granted, spent>>
stopCount == <<resumes, hits>>
vars == <<cpuVars, flags, counters, stops, command, grant, stopCount, broken, crashed>>

\* Without a debugger the program would be at its entry point.
at == IF initialised THEN ip ELSE Entry

CPU == INSTANCE Machine

NoStops == [byte |-> {}, opcode |-> {}, function |-> {}, watch |-> {}]

Commands == {"breakpoint", "watch", "init", "run", "tick", "resume",
             "unpause", "unfinish", "jump", "show"}

TypeOK ==
  /\ ip \in Code
  /\ outcome \in {"running", "halted", "failed"}
  /\ {initialised, paused, finished, raised, crashed} \subseteq BOOLEAN
  /\ ticksLeft \in Int /\ autoresumes \in Int
  /\ stops \in [byte : SUBSET Code, opcode : SUBSET Opcodes,
                function : SUBSET Functions, watch : SUBSET (Functions \X Registers)]
  /\ command \in Commands \cup {"prompt"}
  /\ granted \in Int /\ spent \in Nat /\ resumes \in Nat /\ hits \in Nat
  /\ broken \subseteq Conventions
  \* A program that has ended is not paused, and the CPU knows why it ended.
  /\ raised => outcome = "failed"
  /\ finished => ~paused

-----------------------------------------------------------------------------
(***************************************************************************)
(* What stops execution before the instruction at a.                       *)
(***************************************************************************)

\* Opcodes by the operand if_watchpoint_local_register_write takes for the
\* register written: the first, the second or the third; vpop and swap write
\* two.  Instructions in none of the lists are taken to write nothing.
FirstWritten == {"izero", "istore", "iinc", "idec", "fstore", "bstore", "strstore",
                 "vec", "vinsert", "vpush", "bool", "not", "free", "empty", "tmpro"}
SecondWritten == {"itof", "ftoi", "stoi", "stof", "vlen", "move", "copy", "ref",
                  "isnull", "arg"}
ThirdWritten == {"iadd", "isub", "imul", "idiv", "ilt", "ilte", "igt", "igte", "ieq",
                 "fadd", "fsub", "fmul", "fdiv", "flt", "flte", "fgt", "fgte", "feq",
                 "badd", "bsub", "blt", "blte", "bgt", "bgte", "beq", "vat", "and", "or"}
BothWritten == {"vpop", "swap"}

\* The registers the debugger takes to be written.  The second operand of
\* vpop and swap is read from the middle of the first.
TakenForWritten(a) ==
  LET op == OpcodeOf[a]
  IN CASE op \in FirstWritten -> {OperandsOf[a][1]}
       [] op \in SecondWritten -> {OperandsOf[a][2]}
       [] op \in ThirdWritten -> {OperandsOf[a][3]}
       [] op \in BothWritten -> {OperandsOf[a][1], MisreadOf[a]}
       [] OTHER -> {}

ByteStop(a) == a \in stops.byte
OpcodeStop(a) == OpcodeOf[a] \in stops.opcode
FunctionStop(a) == OpcodeOf[a] = "call" /\ CalleeOf[a] \in stops.function
WatchStop(a) == \E r \in TakenForWritten(a) : <<FunctionOf[a], r>> \in stops.watch

\* Faulty: opcodes are not compared.
StopsButOpcodes(a) == ByteStop(a) \/ (a \in Known /\ (FunctionStop(a) \/ WatchStop(a)))

StopsAt(a) ==
  \/ ByteStop(a)
  \/ a \in Known /\ (OpcodeStop(a) \/ FunctionStop(a) \/ WatchStop(a))

\* What the user asked to be stopped at.  Of the instructions that write a
\* register, those whose first operand is the one the debugger looks at.
AskedFor(a) ==
  \/ ByteStop(a)
  \/ /\ a \in Known
     /\ \/ OpcodeStop(a)
        \/ FunctionStop(a)
        \/ OpcodeOf[a] \in FirstWritten /\ <<FunctionOf[a], OperandsOf[a][1]>> \in stops.watch

-----------------------------------------------------------------------------
(***************************************************************************)
(* Commands.  command_dispatch does nothing unless command_verify accepts. *)
(***************************************************************************)

Init ==
  /\ ip = Entry /\ outcome = "running"
  /\ initialised = FALSE /\ paused = FALSE /\ finished = FALSE /\ raised = FALSE
  /\ ticksLeft = 0 /\ autoresumes = 0
  /\ stops = NoStops
  /\ command = "prompt"
  /\ granted = 0 /\ spent = 0 /\ resumes = 0 /\ hits = 0
  /\ broken = {} /\ crashed = FALSE

\* command_verify: what a command needs before command_dispatch is called.
Accepted(name) ==
  CASE name = "run" -> initialised /\ ~paused
    [] name = "tick" -> initialised /\ ~finished /\ ~paused
    [] name = "resume" -> paused
    [] name = "unpause" -> paused /\ ~finished
    [] name = "unfinish" -> finished
    [] OTHER -> TRUE

\* Every accepted command goes on to the inner loop if the CPU is initialised,
\* unless the debugger has ended over it.
EnterResuming(name, n) ==
  /\ command = "prompt" /\ ~crashed /\ Accepted(name)
  /\ command' = IF initialised' /\ ~crashed' THEN name ELSE "prompt"
  /\ resumes' = n /\ hits' = 0

Enter(name) == EnterResuming(name, 0)

Breaks(convention, condition) ==
  broken' = broken \cup (IF condition THEN {convention} ELSE {})

StopCount ==
  Cardinality(stops.byte) + Cardinality(stops.opcode)
  + Cardinality(stops.function) + Cardinality(stops.watch)

\* breakpoint.set.at, breakpoint.set.on.opcode, breakpoint.set.on.function
SetBreakpoint ==
  /\ StopCount < MaxStops
  /\ \/ \E a \in Code : stops' = [stops EXCEPT !.byte = @ \cup {a}]
     \/ \E o \in Opcodes : stops' = [stops EXCEPT !.opcode = @ \cup {o}]
     \/ \E f \in Functions : stops' = [stops EXCEPT !.function = @ \cup {f}]
  /\ UNCHANGED <<cpuVars, flags, counters, grant, broken, crashed>>
  /\ Enter("breakpoint")

\* watch.register.local.write <function> <register>
SetWatch ==
  /\ StopCount < MaxStops
  /\ \E w \in Functions \X Registers : stops' = [stops EXCEPT !.watch = @ \cup {w}]
  /\ UNCHANGED <<cpuVars, flags, counters, grant, broken, crashed>>
  /\ Enter("watch")

\* watch.register.local.write without a function, and the commands that show
\* local registers, arguments or the frame, ask for the frame on top; without
\* a frame that is undefined.  A program that has ended may have left none.
Show ==
  /\ crashed' \in IF initialised /\ outcome = "running" THEN {FALSE} ELSE BOOLEAN
  /\ Breaks("one_init", ~initialised)
  /\ UNCHANGED <<cpuVars, flags, counters, stops, grant>>
  /\ Enter("show")

\* cpu.init: a first frame, and the instruction pointer at the entry point.
\* Nothing else is reset.
CpuInit ==
  /\ initialised' = TRUE
  /\ ip' = Entry
  /\ Breaks("one_init", initialised)
  /\ UNCHANGED <<outcome, paused, finished, raised, counters, stops, grant, crashed>>
  /\ Enter("init")

\* cpu.run is refused while paused, but not when the program has finished.
CpuRun ==
  /\ ticksLeft' = -1
  /\ granted' = -1 /\ spent' = 0
  /\ Breaks("run_to_run", finished)
  /\ UNCHANGED <<cpuVars, flags, autoresumes, stops, crashed>>
  /\ Enter("run")

\* cpu.tick [n]
CpuTick(n) ==
  /\ ticksLeft' = n
  /\ granted' = n /\ spent' = 0
  /\ UNCHANGED <<cpuVars, flags, autoresumes, stops, broken, crashed>>
  /\ Enter("tick")

\* Faulty: the number of ticks is granted again.
CpuResumeAfresh(n) ==
  /\ paused' = FALSE /\ autoresumes' = n /\ ticksLeft' = granted
  /\ UNCHANGED <<cpuVars, initialised, finished, raised, stops, grant, broken, crashed>>
  /\ EnterResuming("resume", IF n > 0 THEN n ELSE 0)

\* cpu.resume [n]: go on with the ticks that are left, past n more stops.
CpuResume(n) ==
  /\ paused' = FALSE /\ autoresumes' = n
  /\ UNCHANGED <<cpuVars, initialised, finished, raised, ticksLeft, stops, grant,
                 broken, crashed>>
  /\ EnterResuming("resume", IF n > 0 THEN n ELSE 0)

\* Faulty: the ticks that are left are kept.
CpuUnpauseOnly ==
  /\ paused' = FALSE
  /\ UNCHANGED <<cpuVars, initialised, finished, raised, counters, stops, grant,
                 broken, crashed>>
  /\ Enter("unpause")

GiveUpTicks == ticksLeft' = 0 /\ granted' = spent'

\* cpu.unpause gives up the ticks that are left.
CpuUnpause ==
  /\ paused' = FALSE
  /\ UNCHANGED <<cpuVars, initialised, finished, raised, autoresumes, stops, spent,
                 broken, crashed>>
  /\ GiveUpTicks
  /\ Enter("unpause")

\* cpu.unfinish
CpuUnfinish ==
  /\ finished' = FALSE
  /\ Breaks("no_unfinish", TRUE)
  /\ UNCHANGED <<cpuVars, initialised, paused, raised, counters, stops, grant, crashed>>
  /\ Enter("unfinish")

\* cpu.jump to any address; only the instruction pointer changes.  On its way
\* over n instructions cpu.jump +n may come to bytes that are none: what the
\* disassembler throws then is not caught.
CpuJump(a) ==
  /\ ip' = a
  /\ crashed' \in IF a \in Unknown THEN BOOLEAN ELSE {FALSE}
  /\ Breaks("no_jump", TRUE)
  /\ UNCHANGED <<outcome, flags, counters, stops, grant>>
  /\ Enter("jump")

-----------------------------------------------------------------------------
(***************************************************************************)
(* The inner loop.                                                         *)
(***************************************************************************)

\* Faulty: any number but zero lets the CPU go on.
MayTickLoosely == ~paused /\ ~finished /\ ~raised /\ ticksLeft # 0

\* Faulty: an exception nothing caught does not stop the loop.
MayTickRaised == ~paused /\ ~finished /\ (ticksLeft = -1 \/ ticksLeft > 0)

MayTick ==
  /\ ~paused /\ ~finished /\ ~raised
  /\ ticksLeft = -1 \/ ticksLeft > 0

\* printInstruction finds no name for what is there; the disassembler throws
\* an object the loop has no handler for.
UnknownInstruction ==
  /\ ip \in Unknown
  /\ crashed' = TRUE
  /\ command' = "prompt"
  /\ UNCHANGED <<cpuVars, flags, counters, grant, stopCount>>

CountDown ==
  /\ ticksLeft' = IF ticksLeft > 0 THEN ticksLeft - 1 ELSE ticksLeft
  /\ granted' = granted

\* Faulty: the loop does not see an exception nothing caught.
EndedUnnoticed ==
  /\ outcome' # "running"
  /\ finished' = (outcome' = "halted")
  /\ CountDown
  /\ UNCHANGED <<paused, raised, command, autoresumes, hits, crashed>>

\* tick returned a null pointer: the loop is left.
Ended ==
  /\ outcome' # "running"
  /\ finished' = (outcome' = "halted")
  /\ raised' = (outcome' = "failed")
  /\ GiveUpTicks
  /\ command' = "prompt" /\ autoresumes' = 0
  /\ UNCHANGED <<paused, hits, crashed>>

\* Nothing stops execution at the next instruction.
GoesOn ==
  /\ outcome' = "running" /\ ip' \in Known /\ ~StopsAt(ip')
  /\ CountDown
  /\ UNCHANGED <<paused, finished, raised, command, autoresumes, crashed>>

\* Faulty: an autoresume is not used up.
StoppedFreely ==
  /\ outcome' = "running" /\ ip' \in Known /\ StopsAt(ip')
  /\ CountDown
  /\ paused' = (autoresumes <= 0)
  /\ UNCHANGED <<autoresumes, finished, raised, command, crashed>>

\* The next instruction is a stop.  An autoresume is used up, or the loop ends.
Stopped ==
  /\ outcome' = "running" /\ ip' \in Known /\ StopsAt(ip')
  /\ CountDown
  /\ paused' = (autoresumes <= 0)
  /\ autoresumes' = autoresumes - 1
  /\ UNCHANGED <<finished, raised, command, crashed>>

\* Execution has run into something that is no instruction: paused if a
\* breakpoint was set at this address; otherwise if_breakpoint_opcode throws.
RanIntoUnknown ==
  /\ outcome' = "running" /\ ip' \in Unknown
  /\ command' = "prompt"
  /\ IF ByteStop(ip')
     THEN paused' = TRUE /\ GiveUpTicks /\ autoresumes' = 0 /\ UNCHANGED crashed
     ELSE crashed' = TRUE /\ CountDown /\ UNCHANGED <<paused, autoresumes>>
  /\ UNCHANGED <<finished, raised>>

\* CPU::tick
TickCpu ==
  /\ ip \in Known
  /\ \E next \in Code, result \in {"running", "halted", "failed"} :
       CPU!Ticks(ip, next, result) /\ ip' = next /\ outcome' = result
  /\ spent' = IF granted > 0 THEN spent + 1 ELSE spent
  /\ UNCHANGED initialised

CountStop ==
  hits' = IF AskedFor(ip') /\ hits <= resumes THEN hits + 1 ELSE hits

\* One iteration of the inner loop.
Tick ==
  /\ command # "prompt" /\ ~crashed /\ MayTick
  /\ \/ UnknownInstruction
     \/ TickCpu /\ UNCHANGED resumes
        /\ (Ended \/ (CountStop /\ (GoesOn \/ Stopped \/ RanIntoUnknown)))
  /\ UNCHANGED <<stops, broken>>

\* Faulty: autoresumes that were not used are kept.
PromptKeepingResumes ==
  /\ command # "prompt" /\ ~crashed /\ ~MayTick
  /\ command' = "prompt"
  /\ UNCHANGED <<cpuVars, flags, counters, stops, grant, stopCount, broken, crashed>>

\* The inner loop is left.
Prompt ==
  /\ command # "prompt" /\ ~crashed /\ ~MayTick
  /\ command' = "prompt" /\ autoresumes' = 0
  /\ UNCHANGED <<cpuVars, flags, ticksLeft, stops, grant, stopCount, broken, crashed>>

Loop == Tick \/ Prompt

Next ==
  \/ SetBreakpoint \/ SetWatch \/ Show
  \/ CpuInit \/ CpuRun \/ CpuUnpause \/ CpuUnfinish
  \/ \E n \in TickCounts : CpuTick(n)
  \/ \E n \in ResumeCounts : CpuResume(n)
  \/ \E a \in Code : CpuJump(a)
  \/ Loop

\* The debugger is one thread and every tick ends; the user may walk away.
Spec == Init /\ [][Next]_vars /\ WF_vars(Loop)

-----------------------------------------------------------------------------
(***************************************************************************)
(* Properties.                                                             *)
(***************************************************************************)

\* cpu.tick n lets the CPU execute n instructions, however often execution is
\* paused and resumed meanwhile: what was executed and what is left add up,
\* unless the rest was given up (by cpu.unpause, or because the program ended).
TicksExact ==
  /\ granted >= 0 => spent + ticksLeft = granted
  /\ granted < 0 => ticksLeft = granted

\* Execution passes no stop it was not told to pass: a command runs on only if
\* the breakpoints and watchpoints it has met since its first instruction are
\* at most as many as the operand of cpu.resume, and none for other commands.
StopsHonoured == (command # "prompt" /\ MayTick) => hits <= resumes

\* A command that does not ask for execution starts none, whatever state the
\* commands before it have left behind.  cpu.unfinish after a cpu.run that was
\* given when the program had finished is the exception.
WaitsForRequest ==
  (command \notin {"prompt", "run", "tick", "resume"} /\ MayTick)
    => "run_to_run" \in broken

\* A program under the debugger takes the steps it takes without: the commands
\* and the loop never skip, repeat or invent one, unless the user moves the
\* instruction pointer, starts the program again or goes on after its end.
Undisturbed == broken \cap {"no_jump", "one_init", "no_unfinish"} = {}

Transparent == CPU!Init /\ [][Undisturbed' => CPU!Next]_<<at, outcome>>

\* Every command but cpu.run (and cpu.tick -1) comes back to the prompt.
TicksEnd == (command # "prompt" /\ ticksLeft # -1) ~> (command = "prompt")

\* So does cpu.run, and cpu.resume with any operand, when every loop of the
\* program goes through a breakpoint.
Cut == \A loop \in SUBSET (Known \ stops.byte) :
         loop # {} => \E a \in loop : Flow[a] \cap loop = {}

RunStops == (command # "prompt" /\ Cut) ~> (command = "prompt")
=============================================================================
