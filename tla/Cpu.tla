-------------------------------- MODULE Cpu --------------------------------
(***************************************************************************)
(* The control core of the Viua CPU: the call stack, the stack of try      *)
(* frames, the hooks frame_new and try_frame_new, the register set in use, *)
(* the jump base, and what CPU::tick does with the outcome of every        *)
(* instruction.  One action is one tick: the dispatched instruction and    *)
(* all that tick does after it.                                            *)
(*                                                                         *)
(* A program is a set of functions and blocks whose bodies may execute any *)
(* instruction at any time; the instruction pointer is abstracted to the   *)
(* body it points into.  Addr is the set of addresses `new Frame` returns: *)
(* an address is used again once its frame is deleted.  Rules names the    *)
(* conventions the modelled program keeps to (see RuleNames).              *)
(***************************************************************************)
EXTENDS Catching, SequencesExt

CONSTANTS
  Functions,    \* native functions (function_addresses, linked_functions)
  Main,         \* the function __entry calls
  Foreign,      \* registered external functions
  Start, Exit,  \* code of __entry before and after its call of Main
  Addr,         \* addresses of frames
  Null,
  Modules, Bytecode, HighModules,   \* linked modules, the program, modules mapped above it
  ModuleOf,     \* module that holds the code of a body
  Rules,
  MAX_STACK_SIZE,
  MaxTryFrames  \* bound of the model only: tryframes is unbounded in the code

Units == Functions \cup Blocks \cup {Start, Exit}
Bodies == Functions \cup Blocks
Names == Functions \cup Foreign \cup {Start}   \* Start stands for "__entry"

\* end_in_function: blocks do not execute `end`.
\* leave_in_block:  functions do not execute `leave`.
\* jumps_stay:      jumps lead to instructions of the body they are in.
\* local_blocks:    `catch` and `enter` name blocks of the module they are in.
RuleNames == {"end_in_function", "leave_in_block", "jumps_stay", "local_blocks"}

ASSUME CpuAssumption ==
  /\ Main \in Functions
  /\ Start \notin Bodies /\ Exit \notin Bodies /\ Start # Exit
  /\ Functions \cap Blocks = {}
  /\ Foreign \cap (Functions \cup {Start}) = {}
  /\ Null \notin Addr /\ Addr # {}
  /\ ModuleOf \in [Units -> Modules]
  /\ ModuleOf[Start] = Bytecode /\ ModuleOf[Exit] = Bytecode
  /\ HighModules \subseteq Modules \ {Bytecode}
  /\ Rules \subseteq RuleNames
  /\ MAX_STACK_SIZE \in Nat \ {0}
  /\ MaxTryFrames \in Nat

VARIABLES
  frames,       \* call stack: [addr, fn, ret, place]
  frameNew,     \* frame_new: the frame being prepared, or Null
  tryframes,    \* block stack: [ret, assoc, block, catchers]
  tryOpen,      \* whether try_frame_new is set
  tryCatchers,  \* catchers registered in try_frame_new
  ip,           \* body the instruction pointer is in
  jumpBase,     \* module jump offsets are relative to
  uregset,      \* register set in use: <<kind, owner>>
  caught,       \* whether a caught object waits for `pull`
  status        \* "running", or why tick returned a null pointer

vars == <<frames, frameNew, tryframes, tryOpen, tryCatchers, ip, jumpBase,
          uregset, caught, status>>

pending == <<frameNew, tryOpen, tryCatchers>>

Frame == [addr : Addr, fn : Names, ret : Units, place : BOOLEAN]
TryFrame == [ret : Bodies, assoc : Addr, block : Blocks, catchers : CatcherMaps]
RegisterSets == ({"local"} \X Addr) \cup ({"static", "closure"} \X Names)
                  \cup {<<"global", Null>>}
Statuses == {"running", "halted", "finished", "uncaught", "invalid_address",
             "endless_loop", "null_hook", "crashed"}

LocalOf(frame) == <<"local", frame.addr>>

FreeAddr == Addr \ ({frames[i].addr : i \in DOMAIN frames} \cup {frameNew})

Follows(rule, convention) == rule \in Rules => convention

-----------------------------------------------------------------------------
(***************************************************************************)
(* What tick does once an instruction has been dispatched.                 *)
(***************************************************************************)

\* Faulty: linked functions are not looked up.
NotLinked(fn) == FALSE

LinkedFunction(fn) == fn \in Functions /\ ModuleOf[fn] # Bytecode

\* instruction_pointer >= bytecode+bytecode_size, and neither the function on
\* top nor the block last entered comes from a linked module.
OutOfCode(u, fs, ts) ==
  /\ ModuleOf[u] \in HighModules
  /\ ~LinkedFunction(Last(fs).fn)
  /\ ts # <<>> => ModuleOf[Last(ts).block] = Bytecode

\* Execution goes on in u; same: at the very instruction that was dispatched.
GoTo(u, fs, ts, same) ==
  /\ ip' = u
  /\ frames' = fs
  /\ tryframes' = ts
  /\ status' = IF OutOfCode(u, fs, ts) THEN "invalid_address"
               ELSE IF same THEN "endless_loop" ELSE "running"

GoOn == GoTo(ip, frames, tryframes, FALSE)

TryCatchers == [i \in DOMAIN tryframes |-> tryframes[i].catchers]

\* How many frames are left once the loop over `distance` has dropped those
\* above the frame at address a.  The loop does not look at frames[0] and
\* frames[1], the two lowest.
KeptToCaller(fs, a, n) ==    \* faulty: the loop counts before it compares
  /\ n \in DOMAIN fs
  /\ \/ n > 1 /\ n < Len(fs) /\ fs[n + 1].addr = a
     \/ n = 2 /\ \A j \in DOMAIN fs : j > 2 => fs[j].addr # a
     \/ n = 1 /\ Len(fs) = 1

Kept(fs, a, n) ==
  /\ n \in DOMAIN fs
  /\ \A j \in DOMAIN fs : j > n /\ j > 2 => fs[j].addr # a
  /\ \/ n > 2 /\ fs[n].addr = a
     \/ n = 2
     \/ n = 1 /\ Len(fs) = 1

\* First search: the handler starts on the stacks as they are.
CatchDetailed(e, fs, rs) ==
  \E i \in DOMAIN tryframes, b \in Blocks :
    /\ CaughtByDetail(TryCatchers, e, i, b)
    /\ ip' = b
    /\ frames' = fs /\ uregset' = rs
    /\ UNCHANGED tryframes

\* Faulty variants of UnwindFrames: nothing is dropped; frames are deleted
\* without the registers of the new top frame being restored.
LeaveFrames(a, fs, rs) == frames' = fs /\ uregset' = rs

UnwindFramesOnly(a, fs, rs) ==
  /\ \E n \in DOMAIN fs : Kept(fs, a, n) /\ frames' = SubSeq(fs, 1, n)
  /\ uregset' = rs

\* The frames above the one at address a are dropped.
UnwindFrames(a, fs, rs) ==
  \E n \in DOMAIN fs :
    /\ Kept(fs, a, n)
    /\ frames' = SubSeq(fs, 1, n)
    /\ uregset' = IF n < Len(fs) THEN LocalOf(fs[n]) ELSE rs

\* Faulty: the try frames inside the one that catches stay.
LeaveTryFrames(i) == UNCHANGED tryframes

UnwindTryFrames(i) == tryframes' = SubSeq(tryframes, 1, i)

\* Second search: what lies above the try frame that catches is unwound.
CatchByType(e, fs, rs) ==
  \E i \in DOMAIN tryframes, b \in Blocks :
    /\ CaughtByType(TryCatchers, e, i, b)
    /\ ip' = b
    /\ UnwindFrames(tryframes[i].assoc, fs, rs)
    /\ UnwindTryFrames(i)

\* The dispatched instruction threw e, leaving the frames fs and the register
\* set rs; the instruction pointer has not moved.
Raise(e, fs, rs) ==
  \/ /\ OutOfCode(ip, fs, tryframes)
     /\ status' = "invalid_address" /\ frames' = fs /\ uregset' = rs
     /\ UNCHANGED <<ip, tryframes, caught>>
  \/ /\ ~OutOfCode(ip, fs, tryframes)
     /\ CatchDetailed(e, fs, rs) \/ CatchByType(e, fs, rs)
     /\ caught' = TRUE
     /\ UNCHANGED status
  \/ /\ ~OutOfCode(ip, fs, tryframes)
     /\ Uncaught(TryCatchers, e)
     /\ status' = "uncaught" /\ frames' = fs /\ uregset' = rs
     /\ UNCHANGED <<ip, tryframes, caught>>

\* The process ends within the tick: an error tick does not handle
\* (std::out_of_range), or a hook that is a null pointer.
Die(how) ==
  /\ status' = how
  /\ UNCHANGED <<frames, pending, tryframes, ip, jumpBase, uregset, caught>>

Crash == Die("crashed")

Fault == Raise(MachineException, frames, uregset)

Executing(units) == status = "running" /\ ip \in units

-----------------------------------------------------------------------------
(***************************************************************************)
(* Calls.                                                                  *)
(***************************************************************************)

\* frame: requestNewFrame throws if the last prepared frame is unused.
NewFrame ==
  /\ Executing(Bodies \cup {Start})
  /\ ip = Start => frameNew = Null
  /\ IF frameNew # Null
     THEN Fault /\ UNCHANGED frameNew
     ELSE /\ \E a \in FreeAddr : frameNew' = a
          /\ GoOn
          /\ UNCHANGED <<uregset, caught>>
  /\ UNCHANGED <<tryOpen, tryCatchers, jumpBase>>

\* param, paref and msg read frame_new->args without looking at frame_new: with
\* no prepared frame the process dies.  With one they go on, or fail as any
\* instruction may (see Throw).
NoFrame ==
  /\ Executing(Bodies)
  /\ frameNew = Null
  /\ Die("null_hook")

ReturnTo == IF ip = Start THEN Exit ELSE ip

PreparedFrame(f, place) ==
  [addr |-> frameNew, fn |-> f, ret |-> ReturnTo, place |-> place]

\* Faulty: one frame more is accepted.
StackOverfull == Len(frames) > MAX_STACK_SIZE + 1

\* pushFrame refuses when frames.size() > MAX_STACK_SIZE.
StackFull == Len(frames) > MAX_STACK_SIZE

\* Faulty: a call without a prepared frame is accepted.
CallRefusedWhenFull == StackFull

CallRefused == frameNew = Null \/ StackFull

\* Faulty: the return address is written to the caller's frame.
PushOverCaller(frame) ==
  Append([frames EXCEPT ![Len(frames)].ret = frame.ret], frame)

Push(frame) == Append(frames, frame)

\* Faulty: pushFrame leaves its frame in frame_new.
KeepFrameHook == UNCHANGED frameNew

ClearFrameHook == frameNew' = Null

\* call and fcall of a native function.  A closure brings its own registers.
Call(f, place, closure, same) ==
  /\ Executing(Bodies \cup {Start})
  /\ ip = Start => f = Main /\ place /\ ~closure /\ frameNew # Null
  /\ same => f = ip
  /\ jumpBase' = ModuleOf[f]
  /\ IF CallRefused
     THEN ~same /\ Fault /\ UNCHANGED frameNew
     ELSE /\ ClearFrameHook
          /\ GoTo(f, Push(PreparedFrame(f, place)), tryframes, same)
          /\ uregset' = IF closure THEN <<"closure", f>> ELSE <<"local", frameNew>>
          /\ UNCHANGED caught
  /\ UNCHANGED <<tryOpen, tryCatchers>>

\* call of an external function, which runs within the tick.  An object thrown
\* by it, or for a missing return value, finds its frame on the stack; an
\* error of placing the return value finds the frame dropped.
CallForeign(f, place) ==
  /\ Executing(Bodies)
  /\ IF CallRefused
     THEN Fault /\ UNCHANGED frameNew
     ELSE /\ ClearFrameHook
          /\ LET called == PreparedFrame(f, place)
             IN \/ \E e \in Faults : Raise(e, Push(called), LocalOf(called))
                \/ place /\ Raise(MachineException, frames, LocalOf(Last(frames)))
                \/ GoOn /\ uregset' = LocalOf(Last(frames)) /\ UNCHANGED caught
  /\ UNCHANGED <<tryOpen, tryCatchers, jumpBase>>

\* Faulty: the program's own bytecode is always restored.
BytecodeOf(frame) == Bytecode

\* end and leave restore the jump base of the function whose frame is on top;
\* linked_functions.at fails if that is an external function.
JumpBaseOf(frame) == ModuleOf[frame.fn]

End ==
  /\ Executing(Bodies)
  /\ Follows("end_in_function", ip \in Functions)
  /\ LET top == Last(frames)
         rest == Front(frames)
     IN \/ /\ top.place    \* the return register is empty
           /\ Fault
           /\ UNCHANGED jumpBase
        \/ /\ top.place /\ rest # <<>>    \* the value cannot be placed
           /\ Raise(MachineException, rest, LocalOf(Last(rest)))
           /\ UNCHANGED jumpBase
        \/ /\ rest = <<>>
           /\ status' = "finished" /\ frames' = rest /\ ip' = top.ret
           /\ uregset' = <<"global", Null>>
           /\ UNCHANGED <<tryframes, jumpBase, caught>>
        \/ /\ rest # <<>> /\ Last(rest).fn \in Foreign
           /\ status' = "crashed"
           /\ UNCHANGED <<frames, tryframes, ip, jumpBase, uregset, caught>>
        \/ /\ rest # <<>> /\ Last(rest).fn \notin Foreign
           /\ GoTo(top.ret, rest, tryframes, FALSE)
           /\ uregset' = LocalOf(Last(rest))
           /\ jumpBase' = JumpBaseOf(Last(rest))
           /\ UNCHANGED caught
  /\ UNCHANGED pending

-----------------------------------------------------------------------------
(***************************************************************************)
(* Blocks and exceptions.                                                  *)
(***************************************************************************)

Try ==
  /\ Executing(Bodies)
  /\ IF tryOpen
     THEN Fault /\ UNCHANGED <<tryOpen, tryCatchers>>
     ELSE /\ tryOpen' = TRUE /\ tryCatchers' = NoCatchers
          /\ GoOn
          /\ UNCHANGED <<uregset, caught>>
  /\ UNCHANGED <<frameNew, jumpBase>>

\* catch: the jump base moves to the handler's module as it is registered.
Catch(t, b) ==
  /\ Executing(Bodies)
  /\ Follows("local_blocks", ModuleOf[b] = ModuleOf[ip])
  /\ tryCatchers' = AddCatcher(tryCatchers, t, b)
  /\ tryOpen
  /\ jumpBase' = ModuleOf[b]
  /\ GoOn
  /\ UNCHANGED <<frameNew, tryOpen, uregset, caught>>

Enter(b, same) ==
  /\ Executing(Bodies)
  /\ Follows("local_blocks", ModuleOf[b] = ModuleOf[ip])
  /\ same => b = ip
  /\ tryOpen
  /\ Len(tryframes) < MaxTryFrames
  /\ LET entered == [ret |-> ip, assoc |-> Last(frames).addr, block |-> b,
                     catchers |-> tryCatchers]
     IN GoTo(b, frames, Append(tryframes, entered), same)
  /\ tryOpen' = FALSE /\ tryCatchers' = NoCatchers
  /\ jumpBase' = ModuleOf[b]
  /\ UNCHANGED <<frameNew, uregset, caught>>

\* catch and enter write through try_frame_new without looking at it.
NoTryFrame ==
  /\ Executing(Bodies)
  /\ ~tryOpen
  /\ Die("null_hook")

Leave ==
  /\ Executing(Bodies)
  /\ Follows("leave_in_block", ip \in Blocks)
  /\ IF tryframes = <<>>
     THEN Fault /\ UNCHANGED <<pending, jumpBase>>
     ELSE IF Last(frames).fn \in Foreign
     THEN Crash
     ELSE /\ GoTo(Last(tryframes).ret, frames, Front(tryframes), FALSE)
          /\ jumpBase' = JumpBaseOf(Last(frames))
          /\ UNCHANGED <<pending, uregset, caught>>

\* throw of a user's object, and any instruction that fails with an exception
\* before it has changed anything.
Throw(e) ==
  /\ Executing(Bodies)
  /\ Raise(e, frames, uregset)
  /\ UNCHANGED <<pending, jumpBase>>

Pull ==
  /\ Executing(Bodies)
  /\ IF ~caught
     THEN Fault
     ELSE caught' = FALSE /\ GoOn /\ UNCHANGED uregset
  /\ UNCHANGED <<pending, jumpBase>>

-----------------------------------------------------------------------------
(***************************************************************************)
(* Register sets, jumps, halting.                                          *)
(***************************************************************************)

Ress(kind) ==
  /\ Executing(Bodies)
  /\ uregset' = CASE kind = "global" -> <<"global", Null>>
                  [] kind = "local"  -> LocalOf(Last(frames))
                  [] kind = "static" -> <<"static", Last(frames).fn>>
  /\ GoOn
  /\ UNCHANGED <<pending, jumpBase, caught>>

\* A jump that is its own target stops the CPU.  Any other target lies in some
\* body of the module the jump is relative to, or outside of the bodies' code
\* (in __entry, in data, beyond the end), where the model does not follow it.
\* A program whose jumps stay in their bodies stays in this one, unless the
\* base is not that of the code.
StaysInBody == "jumps_stay" \in Rules /\ jumpBase = ModuleOf[ip]

Jump ==
  /\ Executing(Bodies)
  /\ \/ jumpBase = ModuleOf[ip] /\ GoTo(ip, frames, tryframes, TRUE)
     \/ \E u \in Bodies :
          /\ ModuleOf[u] = jumpBase
          /\ StaysInBody => u = ip
          /\ GoTo(u, frames, tryframes, FALSE)
     \/ /\ ~StaysInBody
        /\ status' = "crashed" /\ UNCHANGED <<ip, frames, tryframes>>
  /\ UNCHANGED <<pending, jumpBase, uregset, caught>>

Halt ==
  /\ Executing(Bodies \cup {Exit})
  /\ status' = "halted"
  /\ UNCHANGED <<frames, pending, tryframes, ip, jumpBase, uregset, caught>>

-----------------------------------------------------------------------------
Init ==
  \E a \in Addr :
    /\ frames = <<[addr |-> a, fn |-> Start, ret |-> Exit, place |-> FALSE]>>
    /\ frameNew = Null
    /\ tryframes = <<>>
    /\ tryOpen = FALSE /\ tryCatchers = NoCatchers
    /\ ip = Start
    /\ jumpBase = Bytecode
    /\ uregset = <<"local", a>>
    /\ caught = FALSE
    /\ status = "running"

Tick ==
  \/ NewFrame
  \/ NoFrame
  \/ \E f \in Functions, place, closure, same \in BOOLEAN : Call(f, place, closure, same)
  \/ \E f \in Foreign, place \in BOOLEAN : CallForeign(f, place)
  \/ End
  \/ Try
  \/ \E t \in CatchTypes, b \in Blocks : Catch(t, b)
  \/ \E b \in Blocks, same \in BOOLEAN : Enter(b, same)
  \/ NoTryFrame
  \/ Leave
  \/ \E e \in Thrown : Throw(e)
  \/ Pull
  \/ \E kind \in {"global", "local", "static"} : Ress(kind)
  \/ Jump
  \/ Halt

Stopped == status # "running" /\ UNCHANGED vars

Next == Tick \/ Stopped

Spec == Init /\ [][Next]_vars

-----------------------------------------------------------------------------
(***************************************************************************)
(* Properties of every program.                                            *)
(***************************************************************************)

\* Every variable has its type.
TypeOK ==
  /\ frames \in Seq(Frame)
  /\ frameNew \in Addr \cup {Null}
  /\ tryframes \in Seq(TryFrame)
  /\ tryOpen \in BOOLEAN
  /\ tryCatchers \in CatcherMaps
  /\ ip \in Units
  /\ jumpBase \in Modules
  /\ uregset \in RegisterSets
  /\ caught \in BOOLEAN
  /\ status \in Statuses

\* A frame is never on the stack twice, nor both on the stack and being
\* prepared, whatever is thrown and caught on the way: the check for "stack
\* corruption" in pushFrame, whose std::string nobody catches, cannot fire.
NoFramePushedTwice ==
  /\ \A i, j \in DOMAIN frames : frames[i].addr = frames[j].addr => i = j
  /\ \A i \in DOMAIN frames : frames[i].addr # frameNew

\* The register set in use is the global one, or a set of the function whose
\* frame is on top.  Instructions never work on the registers of
\* a frame that was dropped by end, by an external call or by unwinding.
RegistersOfTopFrame ==
  status = "running" =>
    \/ uregset = <<"global", Null>>
    \/ uregset = LocalOf(Last(frames))
    \/ uregset \in {"static", "closure"} \X {Last(frames).fn}

\* The stack grows to at most one frame more than MAX_STACK_SIZE, and __entry's
\* frame stays at the bottom while the CPU runs.
StackBounded ==
  /\ Len(frames) <= MAX_STACK_SIZE + 1
  /\ status = "running" => frames # <<>> /\ frames[1].fn = Start

\* A tick only adds frames on top or removes frames from the top: no call, no
\* return and no unwinding changes where a buried frame will return to.
BuriedFramesKept ==
  [][IsPrefix(frames, frames') \/ IsPrefix(frames', frames)]_vars

-----------------------------------------------------------------------------
(***************************************************************************)
(* Properties of programs that keep to the rules.                          *)
(***************************************************************************)

\* While the body of a block or of a handler runs, the innermost try frame
\* belongs to the frame on top: the body works on the registers of the
\* function that entered the block (restore_catcher_state.asm).
BlockRunsInItsFrame ==
  status = "running" /\ ip \in Blocks =>
    /\ tryframes # <<>>
    /\ Last(tryframes).assoc = Last(frames).addr

\* Every try frame is tied to a frame that is on the stack, and the two stacks
\* are in the same order.
TryFramesFollowFrames ==
  \A i, j \in DOMAIN tryframes : i <= j =>
    \E m, n \in DOMAIN frames :
      /\ m <= n
      /\ tryframes[i].assoc = frames[m].addr
      /\ tryframes[j].assoc = frames[n].addr

\* Only a hook that was never set (param, paref or msg without `frame`, catch or
\* enter without `try`) kills the process.  No other tick does: linked_functions.at
\* always finds the function that end and leave return to, whatever external
\* functions have thrown, and no jump strays.
OnlyHooksKill == status # "crashed"

\* Jumps are relative to the module of the code that executes them.
JumpBaseOfCode == status = "running" /\ ip \in Bodies => jumpBase = ModuleOf[ip]

\* No call, return, jump, entered or left block leads to an address fault,
\* wherever its module was mapped: if the CPU ends with
\* InvalidBytecodeAddress, the instruction it executed had failed.
OnlyFailuresLeaveCode ==
  [][status' = "invalid_address" => UNCHANGED ip]_vars

\* "All machine-thrown exceptions are passed back to user code" (comment in
\* CPU::tick): an instruction that failed is never answered with an address
\* fault, before any catcher has been looked for.
FailuresReachCatchers ==
  [][status' = "invalid_address" => ~UNCHANGED ip]_vars
=============================================================================
