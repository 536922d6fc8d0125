---------------------------- MODULE DebuggerProofs ----------------------------
(***************************************************************************)
(* Proofs about the debugger, for every program, every set of breakpoints  *)
(* and watchpoints, and every operand of cpu.tick and cpu.resume.          *)
(***************************************************************************)
EXTENDS Debugger, TLAPS

\* Nothing happens before cpu.init.
Initialised == (command # "prompt" \/ paused) => initialised

\* Ticks are given up when the program ends: a program that has finished has
\* none left unless cpu.run was used afterwards.
NoneLeft == finished => (ticksLeft = 0 \/ "run_to_run" \in broken)

\* The ticks that are left are never negative if a number was granted.
TicksLeft == granted >= 0 => ticksLeft >= 0

\* At the prompt nothing is left of the resumes, and execution is stopped.
AtPrompt ==
  (command = "prompt" /\ ~crashed) =>
    autoresumes = 0 /\ (MayTick => "run_to_run" \in broken)

\* The stops met and the resumes left do not exceed the operand of cpu.resume.
ResumesLeft ==
  (command # "prompt" /\ ~paused) =>
    hits <= resumes /\ (autoresumes > 0 => hits + autoresumes <= resumes)

\* The debugger knows that the program has ended.
EndNoticed ==
  outcome # "running" => (finished \/ raised \/ "no_unfinish" \in broken)

Inv ==
  /\ TypeOK /\ TicksExact /\ WaitsForRequest
  /\ Initialised /\ NoneLeft /\ TicksLeft /\ AtPrompt /\ ResumesLeft /\ EndNoticed

\* A step of the user, at the prompt.
Command ==
  \/ SetBreakpoint \/ SetWatch \/ Show
  \/ CpuInit \/ CpuRun \/ CpuUnpause \/ CpuUnfinish
  \/ \E n \in TickCounts : CpuTick(n)
  \/ \E n \in ResumeCounts : CpuResume(n)
  \/ \E a \in Code : CpuJump(a)

-----------------------------------------------------------------------------
(***************************************************************************)
(* Types.                                                                  *)
(***************************************************************************)
LEMMA CommandType ==
  ASSUME TypeOK, Command
  PROVE  TypeOK'
  <1> USE DEF TypeOK
  <1>1. CASE SetBreakpoint
    BY <1>1 DEF SetBreakpoint, Enter, EnterResuming, Commands, cpuVars, flags, counters, grant
  <1>2. CASE SetWatch
    BY <1>2 DEF SetWatch, Enter, EnterResuming, Commands, cpuVars, flags, counters, grant
  <1>3. CASE Show
    BY <1>3 DEF Show, Enter, EnterResuming, Commands, Breaks, Conventions,
                cpuVars, flags, counters, grant
  <1>4. CASE CpuInit
    BY <1>4, DebuggerAssumption
       DEF CpuInit, Enter, EnterResuming, Commands, Breaks, Conventions, Known, counters, grant
  <1>5. CASE CpuRun
    BY <1>5 DEF CpuRun, Enter, EnterResuming, Commands, Breaks, Conventions, cpuVars, flags
  <1>6. CASE CpuUnpause
    <2>1. ticksLeft' \in Int /\ granted' \in Int
      BY <1>6 DEF CpuUnpause, GiveUpTicks
    <2>2. command' \in {"unpause", "prompt"} /\ resumes' = 0 /\ hits' = 0
      BY <1>6 DEF CpuUnpause, Enter, EnterResuming
    <2> QED BY <1>6, <2>1, <2>2 DEF CpuUnpause, Commands, cpuVars
  <1>7. CASE CpuUnfinish
    BY <1>7 DEF CpuUnfinish, Enter, EnterResuming, Accepted, Commands, Breaks, Conventions,
                cpuVars, counters, grant
  <1>8. ASSUME NEW n \in TickCounts, CpuTick(n)
        PROVE  TypeOK'
    BY <1>8, DebuggerAssumption DEF CpuTick, Enter, EnterResuming, Commands, cpuVars, flags
  <1>9. ASSUME NEW n \in ResumeCounts, CpuResume(n)
        PROVE  TypeOK'
    <2>1. n \in Int /\ (IF n > 0 THEN n ELSE 0) \in Nat
      BY DebuggerAssumption
    <2>2. command' \in {"resume", "prompt"} /\ resumes' \in Nat /\ hits' = 0
      BY <1>9, <2>1 DEF CpuResume, EnterResuming
    <2> QED BY <1>9, <2>1, <2>2 DEF CpuResume, Commands, cpuVars, grant
  <1>10. ASSUME NEW a \in Code, CpuJump(a)
         PROVE  TypeOK'
    BY <1>10 DEF CpuJump, Enter, EnterResuming, Commands, Breaks, Conventions,
                 flags, counters, grant
  <1> QED BY <1>1, <1>2, <1>3, <1>4, <1>5, <1>6, <1>7, <1>8, <1>9, <1>10 DEF Command

LEMMA TickCases ==
  ASSUME Tick
  PROVE  /\ command # "prompt" /\ ~crashed /\ MayTick /\ UNCHANGED <<stops, broken>>
         /\ \/ UnknownInstruction
            \/ TickCpu /\ Ended /\ UNCHANGED resumes
            \/ TickCpu /\ CountStop /\ GoesOn /\ UNCHANGED resumes
            \/ TickCpu /\ CountStop /\ Stopped /\ UNCHANGED resumes
            \/ TickCpu /\ CountStop /\ RanIntoUnknown /\ UNCHANGED resumes
  BY DEF Tick

LEMMA LoopType ==
  ASSUME TypeOK, Loop
  PROVE  TypeOK'
  <1>1. CASE Prompt
    BY <1>1 DEF Prompt, TypeOK, cpuVars, flags, grant, stopCount
  <1>2. CASE Tick
    <2>1. MayTick /\ UNCHANGED <<stops, broken>>
      BY <1>2, TickCases
    <2>2. CASE UnknownInstruction
      BY <2>1, <2>2 DEF UnknownInstruction, TypeOK, cpuVars, flags, counters, grant, stopCount
    <2>3. TickCpu /\ UNCHANGED resumes =>
            /\ ip' \in Code /\ outcome' \in {"running", "halted", "failed"}
            /\ spent' \in Nat /\ UNCHANGED <<initialised, resumes>>
      BY DEF TypeOK, TickCpu
    <2>4. CountStop => hits' \in Nat
      BY DEF TypeOK, CountStop
    <2>5. CASE TickCpu /\ Ended /\ UNCHANGED resumes
      BY <2>1, <2>3, <2>5 DEF Ended, GiveUpTicks, MayTick, TypeOK
    <2>6. CASE TickCpu /\ CountStop /\ GoesOn /\ UNCHANGED resumes
      BY <2>1, <2>3, <2>4, <2>6 DEF GoesOn, CountDown, MayTick, TypeOK
    <2>7. CASE TickCpu /\ CountStop /\ Stopped /\ UNCHANGED resumes
      BY <2>1, <2>3, <2>4, <2>7 DEF Stopped, CountDown, MayTick, TypeOK
    <2>8. CASE TickCpu /\ CountStop /\ RanIntoUnknown /\ UNCHANGED resumes
      <3>1. /\ command' = "prompt" /\ outcome' = "running"
            /\ UNCHANGED <<finished, raised>>
            /\ \/ paused' = TRUE /\ GiveUpTicks /\ autoresumes' = 0 /\ UNCHANGED crashed
               \/ crashed' = TRUE /\ CountDown /\ UNCHANGED <<paused, autoresumes>>
        BY <2>8 DEF RanIntoUnknown
      <3>2. ticksLeft' \in Int /\ autoresumes' \in Int /\ granted' \in Int
        BY <2>3, <2>8, <3>1 DEF TypeOK, GiveUpTicks, CountDown
      <3>3. {initialised', paused', finished', raised', crashed'} \subseteq BOOLEAN
        BY <2>3, <2>8, <3>1 DEF TypeOK
      <3> QED BY <2>1, <2>3, <2>4, <2>8, <3>1, <3>2, <3>3 DEF TypeOK, MayTick
    <2> QED BY <1>2, <2>2, <2>5, <2>6, <2>7, <2>8, TickCases
  <1> QED BY <1>1, <1>2 DEF Loop

-----------------------------------------------------------------------------
(***************************************************************************)
(* Ticks.                                                                  *)
(***************************************************************************)
Ticking == TicksExact /\ TicksLeft

LEMMA CommandTicks ==
  ASSUME TypeOK, Ticking, Command
  PROVE  Ticking'
  <1>1. CASE CpuRun
    BY <1>1 DEF CpuRun, Ticking, TicksExact, TicksLeft
  <1>2. CASE CpuUnpause
    BY <1>2 DEF CpuUnpause, GiveUpTicks, TypeOK, Ticking, TicksExact, TicksLeft
  <1>3. ASSUME NEW n \in TickCounts, CpuTick(n)
        PROVE  Ticking'
    BY <1>3, DebuggerAssumption DEF CpuTick, Ticking, TicksExact, TicksLeft
  <1>4. UNCHANGED <<ticksLeft, granted, spent>> => Ticking'
    BY DEF Ticking, TicksExact, TicksLeft
  <1> QED BY <1>1, <1>2, <1>3, <1>4
      DEF Command, SetBreakpoint, SetWatch, Show, CpuInit, CpuUnfinish, CpuResume, CpuJump,
          counters, grant

LEMMA LoopTicks ==
  ASSUME TypeOK, Ticking, Loop
  PROVE  Ticking'
  <1>1. UNCHANGED <<ticksLeft, granted, spent>> => Ticking'
    BY DEF Ticking, TicksExact, TicksLeft
  <1>2. CASE Tick
    <2>1. CASE UnknownInstruction
      BY <1>1, <2>1 DEF UnknownInstruction, counters, grant
    <2>2. CASE TickCpu
      <3>1. /\ spent' \in Nat
            /\ spent' = IF granted > 0 THEN spent + 1 ELSE spent
        BY <2>2 DEF TickCpu, TypeOK
      <3>2. CASE GiveUpTicks
        BY <3>1, <3>2 DEF GiveUpTicks, Ticking, TicksExact, TicksLeft
      <3>3. CASE CountDown
        <4>1. ticksLeft = -1 \/ ticksLeft > 0
          BY <1>2, TickCases DEF MayTick
        <4> QED BY <3>1, <3>3, <4>1 DEF CountDown, TypeOK, Ticking, TicksExact, TicksLeft
      <3> QED BY <1>2, <2>2, <3>2, <3>3, <2>1, TickCases
          DEF Ended, GoesOn, Stopped, RanIntoUnknown
    <2> QED BY <1>2, <2>1, <2>2, TickCases
  <1> QED BY <1>1, <1>2 DEF Loop, Prompt, grant

-----------------------------------------------------------------------------
(***************************************************************************)
(* Requests.                                                               *)
(***************************************************************************)
Requested == Initialised /\ NoneLeft /\ AtPrompt /\ WaitsForRequest

LEMMA CommandRequests ==
  ASSUME TypeOK, Requested, Command
  PROVE  Requested'
  <1> DEFINE Idle == MayTick => "run_to_run" \in broken
  <1>1. /\ command = "prompt" /\ ~crashed /\ autoresumes = 0 /\ Idle
        /\ paused => initialised
        /\ finished => (ticksLeft = 0 \/ "run_to_run" \in broken)
    BY DEF Requested, Initialised, NoneLeft, AtPrompt, Command, Enter, EnterResuming,
           SetBreakpoint, SetWatch, Show, CpuInit, CpuRun, CpuUnpause, CpuUnfinish,
           CpuTick, CpuResume, CpuJump
  <1>2. ASSUME NEW name \in Commands \ {"run", "tick", "resume"}, Enter(name),
               Idle', autoresumes' = 0, paused' => initialised', NoneLeft'
        PROVE  Requested'
    <2>1. command' = IF initialised' /\ ~crashed' THEN name ELSE "prompt"
      BY <1>2 DEF Enter, EnterResuming
    <2> QED BY <1>2, <2>1 DEF Requested, Initialised, AtPrompt, WaitsForRequest, Commands
  <1>3. ASSUME NEW name \in {"run", "tick", "resume"}, initialised', command' = name, NoneLeft'
        PROVE  Requested'
    BY <1>3 DEF Requested, Initialised, AtPrompt, WaitsForRequest
  <1>4. broken \subseteq broken'
    BY DEF Breaks, Command, SetBreakpoint, SetWatch, Show, CpuInit, CpuRun, CpuUnpause,
           CpuUnfinish, CpuTick, CpuResume, CpuJump
  <1>5. ASSUME UNCHANGED <<paused, finished, raised, ticksLeft, autoresumes>>,
               initialised => initialised'
        PROVE  Idle' /\ autoresumes' = 0 /\ (paused' => initialised') /\ NoneLeft'
    BY <1>1, <1>4, <1>5 DEF MayTick, NoneLeft
  <1>6. CASE SetBreakpoint
    BY <1>2, <1>5, <1>6 DEF SetBreakpoint, flags, counters, Commands
  <1>7. CASE SetWatch
    BY <1>2, <1>5, <1>7 DEF SetWatch, flags, counters, Commands
  <1>8. CASE Show
    BY <1>2, <1>5, <1>8 DEF Show, flags, counters, Commands
  <1>9. CASE CpuInit
    BY <1>2, <1>5, <1>9 DEF CpuInit, counters, Commands
  <1>10. CASE CpuUnpause
    <2>1. /\ ticksLeft' = 0 /\ paused' = FALSE /\ UNCHANGED autoresumes /\ Enter("unpause")
      BY <1>10 DEF CpuUnpause, GiveUpTicks
    <2> QED BY <1>1, <1>2, <2>1 DEF MayTick, NoneLeft, Commands
  <1>11. CASE CpuUnfinish
    <2>1. /\ finished /\ finished' = FALSE /\ Enter("unfinish")
          /\ UNCHANGED <<initialised, paused, raised, ticksLeft, autoresumes>>
      BY <1>11 DEF CpuUnfinish, Enter, EnterResuming, Accepted, counters
    <2> QED BY <1>1, <1>2, <1>4, <2>1 DEF MayTick, NoneLeft, Commands
  <1>12. ASSUME NEW a \in Code, CpuJump(a)
         PROVE  Requested'
    BY <1>2, <1>5, <1>12 DEF CpuJump, flags, counters, Commands
  <1>13. CASE CpuRun
    <2>1. /\ initialised' /\ command' = "run" /\ UNCHANGED finished
          /\ finished => "run_to_run" \in broken'
      BY <1>13 DEF CpuRun, Enter, EnterResuming, Accepted, Breaks, flags
    <2> QED BY <1>3, <2>1 DEF NoneLeft
  <1>14. ASSUME NEW n \in TickCounts, CpuTick(n)
         PROVE  Requested'
    <2>1. initialised' /\ command' = "tick" /\ finished' = FALSE
      BY <1>14 DEF CpuTick, Enter, EnterResuming, Accepted, flags, TypeOK
    <2> QED BY <1>3, <2>1 DEF NoneLeft
  <1>15. ASSUME NEW n \in ResumeCounts, CpuResume(n)
         PROVE  Requested'
    <2>1. paused /\ initialised' /\ command' = "resume" /\ UNCHANGED <<finished, ticksLeft, broken>>
      BY <1>1, <1>15 DEF CpuResume, EnterResuming, Accepted
    <2> QED BY <1>1, <1>3, <2>1 DEF NoneLeft
  <1> QED BY <1>6, <1>7, <1>8, <1>9, <1>10, <1>11, <1>12, <1>13, <1>14, <1>15 DEF Command

LEMMA LoopRequests ==
  ASSUME TypeOK, Requested, Loop
  PROVE  Requested'
  <1>1. command # "prompt" /\ ~crashed /\ initialised
    BY DEF Loop, Tick, Prompt, Requested, Initialised
  <1>2. UNCHANGED <<initialised, broken>>
    BY DEF Loop, Tick, UnknownInstruction, TickCpu, Prompt, flags
  <1>3. CASE Prompt
    <2>1. /\ ~MayTick /\ command' = "prompt" /\ autoresumes' = 0
          /\ UNCHANGED <<paused, finished, raised, ticksLeft>>
      BY <1>3 DEF Prompt, flags
    <2> QED BY <1>1, <1>2, <2>1
            DEF Requested, Initialised, NoneLeft, AtPrompt, WaitsForRequest, MayTick
  <1>4. CASE Tick
    <2>1. /\ MayTick
          /\ command \in {"run", "tick", "resume"} \/ "run_to_run" \in broken
      BY <1>1, <1>4, TickCases DEF Requested, WaitsForRequest
    <2>2. CASE UnknownInstruction
      BY <1>1, <1>2, <2>1, <2>2
         DEF UnknownInstruction, flags, counters,
             Requested, Initialised, NoneLeft, AtPrompt, WaitsForRequest
    <2>3. CASE Ended
      BY <1>1, <1>2, <2>3
         DEF Ended, GiveUpTicks, MayTick,
             Requested, Initialised, NoneLeft, AtPrompt, WaitsForRequest
    <2>4. CASE GoesOn \/ Stopped
      <3>1. UNCHANGED <<finished, command, crashed>> /\ ~finished
        BY <2>1, <2>4 DEF GoesOn, Stopped, MayTick
      <3> QED BY <1>1, <1>2, <2>1, <3>1
              DEF Requested, Initialised, NoneLeft, AtPrompt, WaitsForRequest
    <2>5. CASE RanIntoUnknown
      <3>1. /\ command' = "prompt" /\ UNCHANGED finished /\ ~finished
            /\ (paused' = TRUE /\ autoresumes' = 0) \/ crashed' = TRUE
        BY <2>1, <2>5 DEF RanIntoUnknown, MayTick
      <3> QED BY <1>1, <1>2, <3>1
              DEF Requested, Initialised, NoneLeft, AtPrompt, WaitsForRequest, MayTick
    <2> QED BY <1>4, <2>2, <2>3, <2>4, <2>5, TickCases
  <1> QED BY <1>3, <1>4 DEF Loop

-----------------------------------------------------------------------------
(***************************************************************************)
(* Stops.                                                                  *)
(***************************************************************************)

\* Whatever the user asked for stops execution.
LEMMA AskedForStops ==
  ASSUME NEW a \in Code, AskedFor(a)
  PROVE  StopsAt(a)
  <1>1. CASE ByteStop(a) \/ (a \in Known /\ (OpcodeStop(a) \/ FunctionStop(a)))
    BY <1>1 DEF StopsAt
  <1>2. CASE /\ a \in Known /\ OpcodeOf[a] \in FirstWritten
             /\ <<FunctionOf[a], OperandsOf[a][1]>> \in stops.watch
    <2> DEFINE op == OpcodeOf[a]
    <2>1. op \in FirstWritten => op \notin SecondWritten /\ op \notin ThirdWritten
                                  /\ op \notin BothWritten
      BY DEF FirstWritten, SecondWritten, ThirdWritten, BothWritten
    <2>2. TakenForWritten(a) = {OperandsOf[a][1]}
      BY <1>2, <2>1 DEF TakenForWritten
    <2> QED BY <1>2, <2>2 DEF StopsAt, WatchStop
  <1> QED BY <1>1, <1>2 DEF AskedFor

LEMMA CommandResumes ==
  ASSUME TypeOK, Requested, ResumesLeft, Command
  PROVE  ResumesLeft'
  <1>1. command = "prompt" /\ ~crashed /\ autoresumes = 0
    BY DEF Requested, AtPrompt, Command, Enter, EnterResuming,
           SetBreakpoint, SetWatch, Show, CpuInit, CpuRun, CpuUnpause, CpuUnfinish,
           CpuTick, CpuResume, CpuJump
  <1>2. resumes' = 0 /\ hits' = 0 /\ UNCHANGED autoresumes => ResumesLeft'
    BY <1>1 DEF ResumesLeft
  <1>3. ASSUME NEW n \in ResumeCounts, CpuResume(n)
        PROVE  ResumesLeft'
    <2>1. autoresumes' = n /\ hits' = 0 /\ resumes' = IF n > 0 THEN n ELSE 0
      BY <1>3 DEF CpuResume, EnterResuming
    <2> QED BY <2>1, DebuggerAssumption DEF ResumesLeft
  <1> QED BY <1>2, <1>3
      DEF Command, Enter, EnterResuming, SetBreakpoint, SetWatch, Show, CpuInit, CpuRun,
          CpuUnpause, CpuUnfinish, CpuTick, CpuJump, counters

LEMMA LoopResumes ==
  ASSUME TypeOK, ResumesLeft, Loop
  PROVE  ResumesLeft'
  <1>1. CASE Tick
    <2>1. command # "prompt" /\ ~paused
      BY <1>1, TickCases DEF MayTick
    <2>2. hits <= resumes /\ (autoresumes > 0 => hits + autoresumes <= resumes)
      BY <2>1 DEF ResumesLeft
    <2>3. command' = "prompt" => ResumesLeft'
      BY DEF ResumesLeft
    <2>4. CASE TickCpu /\ CountStop /\ GoesOn /\ UNCHANGED resumes
      <3>1. ~AskedFor(ip')
        BY <2>4, AskedForStops DEF GoesOn, TickCpu, StopsAt, AskedFor
      <3> QED BY <2>2, <2>4, <3>1 DEF GoesOn, CountStop, ResumesLeft, TypeOK
    <2>5. CASE TickCpu /\ CountStop /\ Stopped /\ UNCHANGED resumes
      <3>1. /\ hits' \in Nat /\ hits' <= hits + 1
            /\ autoresumes' = autoresumes - 1 /\ paused' = (autoresumes <= 0)
            /\ UNCHANGED resumes
        BY <2>5 DEF CountStop, Stopped, TypeOK
      <3>2. CASE autoresumes > 0
        BY <2>2, <3>1, <3>2 DEF ResumesLeft, TypeOK
      <3>3. CASE ~(autoresumes > 0)
        <4>1. autoresumes <= 0
          BY <3>3 DEF TypeOK
        <4>2. paused' = TRUE
          BY <3>1, <4>1
        <4> QED BY <4>2 DEF ResumesLeft
      <3> QED BY <3>2, <3>3
    <2> QED BY <1>1, <2>3, <2>4, <2>5, TickCases
        DEF UnknownInstruction, Ended, RanIntoUnknown
  <1> QED BY <1>1 DEF Loop, Prompt, ResumesLeft

-----------------------------------------------------------------------------
(***************************************************************************)
(* The program.                                                            *)
(***************************************************************************)
LEMMA StepNotices ==
  ASSUME TypeOK, EndNoticed, [Next]_vars
  PROVE  EndNoticed'
  <1>1. broken \subseteq broken'
    BY DEF Next, vars, Breaks, SetBreakpoint, SetWatch, Show, CpuInit, CpuRun, CpuUnpause,
           CpuUnfinish, CpuTick, CpuResume, CpuJump, Loop, Tick, Prompt
  <1>2. UNCHANGED <<outcome, finished, raised>> => EndNoticed'
    BY <1>1 DEF EndNoticed
  <1>3. CASE CpuUnfinish
    BY <1>3 DEF CpuUnfinish, Breaks, EndNoticed
  <1>4. CASE Tick
    <2>1. CASE TickCpu /\ Ended
      <3>1. outcome' \in {"running", "halted", "failed"}
        BY <2>1 DEF TickCpu
      <3> QED BY <2>1, <3>1 DEF Ended, EndNoticed
    <2>2. CASE UnknownInstruction
      BY <1>2, <2>2 DEF UnknownInstruction, cpuVars, flags
    <2>3. CASE GoesOn \/ Stopped \/ RanIntoUnknown
      BY <2>3 DEF GoesOn, Stopped, RanIntoUnknown, EndNoticed
    <2> QED BY <1>4, <2>1, <2>2, <2>3, TickCases
  <1> QED BY <1>2, <1>3, <1>4
      DEF Next, vars, SetBreakpoint, SetWatch, Show, CpuInit, CpuRun, CpuUnpause,
          CpuTick, CpuResume, CpuJump, Loop, Prompt, cpuVars, flags

\* A step of the debugger is a step of the machine without one, or none.
LEMMA StepTransparent ==
  ASSUME TypeOK, Initialised, EndNoticed, [Next]_vars, Undisturbed'
  PROVE  CPU!Next \/ UNCHANGED <<at, outcome>>
  <1>1. UNCHANGED <<ip, outcome, initialised>> => UNCHANGED <<at, outcome>>
    BY DEF at
  <1>2. CASE CpuInit
    BY <1>2 DEF CpuInit, Breaks, Undisturbed, at
  <1>3. ASSUME NEW a \in Code, CpuJump(a)
        PROVE  FALSE
    BY <1>3 DEF CpuJump, Breaks, Undisturbed
  <1>4. CASE Tick
    <2>1. /\ command # "prompt" /\ MayTick /\ UNCHANGED broken
          /\ UnknownInstruction \/ TickCpu
      BY <1>4, TickCases
    <2>2. initialised /\ outcome = "running"
      BY <2>1 DEF Initialised, EndNoticed, MayTick, Undisturbed
    <2>3. CASE UnknownInstruction
      BY <1>1, <2>3 DEF UnknownInstruction, cpuVars, flags
    <2>4. CASE TickCpu
      <3>1. CPU!Ticks(ip, ip', outcome') /\ UNCHANGED initialised
        BY <2>4 DEF TickCpu
      <3>2. at = ip /\ at' = ip'
        BY <2>2, <3>1 DEF at
      <3> QED BY <2>2, <3>1, <3>2 DEF CPU!Next
    <2> QED BY <2>1, <2>3, <2>4
  <1> QED BY <1>1, <1>2, <1>3, <1>4
      DEF Next, vars, SetBreakpoint, SetWatch, Show, CpuRun, CpuUnpause, CpuUnfinish,
          CpuTick, CpuResume, Loop, Prompt, cpuVars, flags

-----------------------------------------------------------------------------
(***************************************************************************)
(* The invariant and what follows from it.                                 *)
(***************************************************************************)

\* The flags and counters of the debugger stay consistent, whatever the
\* commands and in whatever order they come.
THEOREM Invariance == Spec => []Inv
  <1>1. Init => Inv
    <2> SUFFICES ASSUME Init PROVE Inv
      OBVIOUS
    <2>1. TypeOK
      <3>1. Entry \in Code
        BY DebuggerAssumption DEF Known
      <3>2. NoStops \in [byte : SUBSET Code, opcode : SUBSET Opcodes,
                         function : SUBSET Functions, watch : SUBSET (Functions \X Registers)]
        BY DEF NoStops
      <3>3. {initialised, paused, finished, raised, crashed} \subseteq BOOLEAN
        BY DEF Init
      <3>4. 0 \in Int /\ 0 \in Nat
        OBVIOUS
      <3>5. broken \subseteq Conventions /\ ip \in Code /\ command \in Commands \cup {"prompt"}
        BY <3>1 DEF Init
      <3> QED BY <3>2, <3>3, <3>4, <3>5 DEF Init, TypeOK
    <2> QED BY <2>1
        DEF Init, Inv, TicksExact, WaitsForRequest, Initialised, NoneLeft, TicksLeft,
            AtPrompt, ResumesLeft, EndNoticed, MayTick
  <1>2. Inv /\ [Next]_vars => Inv'
    <2> SUFFICES ASSUME Inv, [Next]_vars PROVE Inv'
      OBVIOUS
    <2>1. TypeOK /\ Ticking /\ Requested /\ ResumesLeft /\ EndNoticed
      BY DEF Inv, Ticking, Requested
    <2>2. CASE UNCHANGED vars
      BY <2>2
         DEF vars, cpuVars, flags, counters, grant, stopCount, Inv, TypeOK, TicksExact,
             WaitsForRequest, Initialised, NoneLeft, TicksLeft, AtPrompt, ResumesLeft,
             EndNoticed, MayTick
    <2>3. CASE Command
      <3>1. TypeOK' /\ Ticking' /\ Requested' /\ ResumesLeft' /\ EndNoticed'
        BY <2>1, <2>3, CommandType, CommandTicks, CommandRequests, CommandResumes, StepNotices
      <3> QED BY <3>1 DEF Inv, Ticking, Requested
    <2>4. CASE Loop
      <3>1. TypeOK' /\ Ticking' /\ Requested' /\ ResumesLeft' /\ EndNoticed'
        BY <2>1, <2>4, LoopType, LoopTicks, LoopRequests, LoopResumes, StepNotices
      <3> QED BY <3>1 DEF Inv, Ticking, Requested
    <2> QED BY <2>2, <2>3, <2>4 DEF Next, Command
  <1> QED BY <1>1, <1>2, PTL DEF Spec

\* A program that has ended is not paused, and the debugger knows why it ended.
THEOREM TypesCorrect == Spec => []TypeOK
  <1>1. Inv => TypeOK
    BY DEF Inv
  <1> QED BY <1>1, Invariance, PTL

\* cpu.tick n executes n instructions, whatever the number n and however often
\* execution is paused.
THEOREM TicksStayExact == Spec => []TicksExact
  <1>1. Inv => TicksExact
    BY DEF Inv
  <1> QED BY <1>1, Invariance, PTL

\* A command passes as many stops as it was told to, for any number of stops
\* and any operand of cpu.resume.
THEOREM StopsStayHonoured == Spec => []StopsHonoured
  <1>1. Inv => StopsHonoured
    BY DEF Inv, ResumesLeft, StopsHonoured, MayTick
  <1> QED BY <1>1, Invariance, PTL

\* Nothing is executed by a command that does not ask for it.
THEOREM ExecutionWaits == Spec => []WaitsForRequest
  <1>1. Inv => WaitsForRequest
    BY DEF Inv
  <1> QED BY <1>1, Invariance, PTL

\* The debugger implements the machine without a debugger: its first state is
\* one of the machine, and each of its steps is one of the machine or none,
\* for every program.
THEOREM DebuggerIsTransparent == Spec => Transparent
  <1>1. Init => CPU!Init
    BY DEF Init, CPU!Init, at
  <1>2. Inv /\ [Next]_vars => [Undisturbed' => CPU!Next]_<<at, outcome>>
    BY StepTransparent DEF Inv
  <1> QED BY <1>1, <1>2, Invariance, PTL DEF Spec, Transparent
=============================================================================
