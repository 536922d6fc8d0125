------------------------------ MODULE CpuProofs ------------------------------
(***************************************************************************)
(* Proofs that the stacks and the registers of the CPU stay sound for      *)
(* every program, whatever it throws and catches.                          *)
(*                                                                         *)
(* Inv is inductive.  Its parts need one another: that a pushed frame is   *)
(* new depends on frame_new never being on the stack, and that the         *)
(* registers in use belong to the top frame depends on unwinding never     *)
(* emptying the stack.                                                     *)
(***************************************************************************)
EXTENDS Cpu, SequenceTheorems, TLAPS

\* What a stack of frames satisfies while the CPU runs.
Stack(fs) ==
  /\ fs \in Seq(Frame)
  /\ fs # <<>>
  /\ fs[1].fn = Start
  /\ Len(fs) <= MAX_STACK_SIZE + 1
  /\ \A i, j \in DOMAIN fs : fs[i].addr = fs[j].addr => i = j

NotOn(a, fs) == \A i \in DOMAIN fs : fs[i].addr # a

RegistersOf(fs, rs) ==
  \/ rs = <<"global", Null>>
  \/ rs = LocalOf(Last(fs))
  \/ rs \in {"static", "closure"} \X {Last(fs).fn}

\* Sound is what Inv says of a CPU that runs: of its stacks and of its hooks.
StacksSound ==
  /\ Stack(frames)
  /\ RegistersOf(frames, uregset)
  /\ tryframes \in Seq(TryFrame)
  /\ ip \in Units
  /\ caught \in BOOLEAN
  /\ status \in Statuses

HooksSound ==
  /\ frameNew \in Addr \cup {Null}
  /\ tryOpen \in BOOLEAN
  /\ tryCatchers \in CatcherMaps
  /\ jumpBase \in Modules

Sound == StacksSound /\ HooksSound /\ NotOn(frameNew, frames)

Inv ==
  /\ TypeOK
  /\ NoFramePushedTwice
  /\ StackBounded
  /\ RegistersOfTopFrame

-----------------------------------------------------------------------------
(***************************************************************************)
(* Stacks of frames.                                                       *)
(***************************************************************************)

LEMMA TopFrame ==
  ASSUME NEW fs, Stack(fs)
  PROVE  /\ Len(fs) \in Nat \ {0}
         /\ DOMAIN fs = 1..Len(fs)
         /\ Last(fs) \in Frame
         /\ \A i \in DOMAIN fs : fs[i] \in Frame
<1>1. fs \in Seq(Frame) /\ fs # <<>>
  BY DEF Stack
<1>2. Len(fs) \in Nat \ {0} /\ DOMAIN fs = 1..Len(fs)
  BY <1>1, EmptySeq, LenProperties
<1>3. \A i \in DOMAIN fs : fs[i] \in Frame
  BY <1>1, <1>2, ElementOfSeq
<1>. QED
  BY <1>2, <1>3 DEF Last

\* What unwinding leaves of a stack.
LEMMA PrefixOfStack ==
  ASSUME NEW fs, Stack(fs), NEW n \in DOMAIN fs
  PROVE  /\ Stack(SubSeq(fs, 1, n))
         /\ Len(SubSeq(fs, 1, n)) = n
         /\ Last(SubSeq(fs, 1, n)) = fs[n]
         /\ \A i \in 1..n : SubSeq(fs, 1, n)[i] = fs[i]
         /\ \A a : NotOn(a, fs) => NotOn(a, SubSeq(fs, 1, n))
<1> DEFINE p == SubSeq(fs, 1, n)
<1>1. n \in Nat \ {0} /\ n <= Len(fs) /\ DOMAIN fs = 1..Len(fs) /\ Len(fs) \in Nat
  BY TopFrame
<1>2. \A i \in 1..n : fs[i] \in Frame
  BY <1>1, TopFrame
<1>3. /\ p \in Seq(Frame)
      /\ Len(p) = n
      /\ \A i \in 1..n : p[i] = fs[i]
  BY <1>1, <1>2, SubSeqProperties
<1>4. DOMAIN p = 1..n
  BY <1>3, LenProperties
<1> HIDE DEF p
<1>5. p # <<>> /\ p[1].fn = Start
  BY <1>1, <1>3, <1>4, EmptySeq DEF Stack
<1>6. n <= MAX_STACK_SIZE + 1
  BY <1>1, CpuAssumption DEF Stack
<1>7. \A i, j \in DOMAIN p : p[i].addr = p[j].addr => i = j
  BY <1>1, <1>3, <1>4 DEF Stack
<1>8. \A a : NotOn(a, fs) => NotOn(a, p)
  BY <1>1, <1>3, <1>4 DEF NotOn
<1>9. Last(p) = fs[n]
  BY <1>1, <1>3 DEF Last
<1>. QED
  BY <1>3, <1>5, <1>6, <1>7, <1>8, <1>9 DEF Stack, p

\* What dropFrame leaves of a stack of more than one frame.
LEMMA FrontOfStack ==
  ASSUME NEW fs, Stack(fs), Front(fs) # <<>>
  PROVE  /\ Stack(Front(fs))
         /\ \A a : NotOn(a, fs) => NotOn(a, Front(fs))
<1>1. Len(fs) \in Nat \ {0} /\ DOMAIN fs = 1..Len(fs)
  BY TopFrame
<1>2. Len(fs) # 1
  <2>1. Len(fs) - 1 \in Int
    BY <1>1
  <2>2. Len(fs) - 1 < 1 => SubSeq(fs, 1, Len(fs) - 1) = <<>>
    BY <2>1, SubSeqEmpty
  <2>. QED
    BY <1>1, <2>2 DEF Front
<1>3. Len(fs) - 1 \in DOMAIN fs
  BY <1>1, <1>2
<1>. QED
  BY <1>3, PrefixOfStack DEF Front

\* What pushFrame makes of a stack.
LEMMA PushOnStack ==
  ASSUME NEW fs, Stack(fs), Len(fs) <= MAX_STACK_SIZE,
         NEW fr \in Frame, NotOn(fr.addr, fs)
  PROVE  /\ Stack(Append(fs, fr))
         /\ Last(Append(fs, fr)) = fr
         /\ NotOn(Null, Append(fs, fr))
<1> DEFINE p == Append(fs, fr)
<1>1. Len(fs) \in Nat \ {0} /\ DOMAIN fs = 1..Len(fs) /\ fs \in Seq(Frame)
  BY TopFrame DEF Stack
<1>2. /\ p \in Seq(Frame)
      /\ Len(p) = Len(fs) + 1
      /\ \A i \in 1..Len(fs) : p[i] = fs[i]
      /\ p[Len(fs) + 1] = fr
  BY <1>1, AppendProperties
<1>3. DOMAIN p = 1..(Len(fs) + 1)
  BY <1>2, LenProperties
<1> HIDE DEF p
<1>4. p # <<>> /\ p[1].fn = Start
  BY <1>1, <1>2, EmptySeq DEF Stack
<1>5. Len(p) <= MAX_STACK_SIZE + 1
  BY <1>1, <1>2, CpuAssumption
<1>6. \A i, j \in DOMAIN p : p[i].addr = p[j].addr => i = j
  <2> SUFFICES ASSUME NEW i \in DOMAIN p, NEW j \in DOMAIN p, p[i].addr = p[j].addr
               PROVE  i = j
    OBVIOUS
  <2>1. CASE i <= Len(fs) /\ j <= Len(fs)
    BY <1>1, <1>2, <1>3, <2>1 DEF Stack
  <2>2. CASE i = Len(fs) + 1 /\ j <= Len(fs)
    BY <1>1, <1>2, <1>3, <2>2 DEF NotOn
  <2>3. CASE i <= Len(fs) /\ j = Len(fs) + 1
    BY <1>1, <1>2, <1>3, <2>3 DEF NotOn
  <2>4. CASE i = Len(fs) + 1 /\ j = Len(fs) + 1
    BY <2>4
  <2>. QED
    BY <1>1, <1>3, <2>1, <2>2, <2>3, <2>4
<1>7. \A i \in DOMAIN p : p[i] \in Frame
  BY <1>2, <1>3, ElementOfSeq
<1>8. NotOn(Null, p)
  BY <1>7, CpuAssumption DEF NotOn, Frame
<1>9. Last(p) = fr
  BY <1>2 DEF Last
<1>. QED
  BY <1>2, <1>4, <1>5, <1>6, <1>8, <1>9 DEF Stack, p

LEMMA RegistersOfType ==
  ASSUME NEW fs, Stack(fs), NEW rs, RegistersOf(fs, rs)
  PROVE  rs \in RegisterSets
<1>1. Last(fs) \in Frame
  BY TopFrame
<1>. QED
  BY <1>1 DEF RegistersOf, RegisterSets, LocalOf, Frame

LEMMA SoundOfInv ==
  ASSUME Inv, status = "running"
  PROVE  Sound
<1>1. Stack(frames)
  BY DEF Inv, TypeOK, StackBounded, NoFramePushedTwice, Stack
<1>2. RegistersOf(frames, uregset)
  BY DEF Inv, RegistersOfTopFrame, RegistersOf
<1>3. NotOn(frameNew, frames)
  BY DEF Inv, NoFramePushedTwice, NotOn
<1>. QED
  BY <1>1, <1>2, <1>3 DEF Inv, TypeOK, Sound, StacksSound, HooksSound

LEMMA InvOfSound ==
  ASSUME Sound
  PROVE  Inv
<1>1. Stack(frames) /\ RegistersOf(frames, uregset) /\ NotOn(frameNew, frames)
  BY DEF Sound, StacksSound
<1>2. uregset \in RegisterSets
  BY <1>1, RegistersOfType
<1>3. TypeOK
  BY <1>1, <1>2 DEF Sound, StacksSound, HooksSound, TypeOK, Stack
<1>4. NoFramePushedTwice
  BY <1>1 DEF NoFramePushedTwice, Stack, NotOn
<1>5. StackBounded
  BY <1>1 DEF StackBounded, Stack
<1>6. RegistersOfTopFrame
  BY <1>1 DEF RegistersOfTopFrame, RegistersOf
<1>. QED
  BY <1>3, <1>4, <1>5, <1>6 DEF Inv

LEMMA InvOfSoundNext == Sound' => Inv'
<1>1. Sound => Inv
  BY InvOfSound
<1>. QED
  BY <1>1, PTL

-----------------------------------------------------------------------------
(***************************************************************************)
(* What tick does after an instruction.                                    *)
(***************************************************************************)

\* The search for a catcher, over the stacks an erroneous instruction leaves.
LEMMA RaiseSound ==
  ASSUME StacksSound,
         NEW fs, Stack(fs), NEW rs, RegistersOf(fs, rs),
         NEW e, Raise(e, fs, rs)
  PROVE  /\ StacksSound'
         /\ \A a : NotOn(a, fs) => NotOn(a, frames')
<1>1. CASE frames' = fs /\ uregset' = rs /\ ip' = ip /\ tryframes' = tryframes
             /\ caught' = caught /\ status' \in {"invalid_address", "uncaught"}
  BY <1>1 DEF StacksSound, Statuses
<1>2. CASE CatchDetailed(e, fs, rs) /\ caught' = TRUE /\ status' = status
  BY <1>2 DEF CatchDetailed, StacksSound, Units, Bodies
<1>3. CASE CatchByType(e, fs, rs) /\ caught' = TRUE /\ status' = status
  <2>1. PICK i \in DOMAIN tryframes, b \in Blocks :
          /\ ip' = b
          /\ UnwindFrames(tryframes[i].assoc, fs, rs)
          /\ UnwindTryFrames(i)
    BY <1>3 DEF CatchByType
  <2>2. PICK n \in DOMAIN fs :
          /\ frames' = SubSeq(fs, 1, n)
          /\ uregset' = IF n < Len(fs) THEN LocalOf(fs[n]) ELSE rs
    BY <2>1 DEF UnwindFrames
  <2>3. /\ Stack(frames')
        /\ Last(frames') = fs[n]
        /\ \A a : NotOn(a, fs) => NotOn(a, frames')
    BY <2>2, PrefixOfStack
  <2>4. Len(fs) \in Nat /\ DOMAIN fs = 1..Len(fs)
    BY TopFrame
  <2>5. RegistersOf(frames', uregset')
    <3>1. CASE n < Len(fs)
      BY <2>2, <2>3, <3>1 DEF RegistersOf
    <3>2. CASE n = Len(fs)
      BY <2>2, <2>3, <2>4, <3>2 DEF RegistersOf, Last
    <3>. QED
      BY <2>4, <3>1, <3>2
  <2>6. tryframes' \in Seq(TryFrame)
    <3>1. /\ tryframes \in Seq(TryFrame)
          /\ DOMAIN tryframes = 1..Len(tryframes)
          /\ Len(tryframes) \in Nat
      BY LenProperties DEF StacksSound
    <3>2. \A k \in 1..i : tryframes[k] \in TryFrame
      BY <3>1, ElementOfSeq
    <3>. QED
      BY <2>1, <3>1, <3>2, SubSeqProperties DEF UnwindTryFrames
  <2>. QED
    BY <1>3, <2>1, <2>3, <2>5, <2>6 DEF StacksSound, Units, Bodies
<1>. QED
  BY <1>1, <1>2, <1>3 DEF Raise

LEMMA FaultSound ==
  ASSUME Sound, Fault
  PROVE  StacksSound' /\ NotOn(frameNew, frames')
BY RaiseSound DEF Fault, Sound, StacksSound

LEMMA GoToSound ==
  ASSUME NEW u \in Units, NEW fs, NEW ts, NEW same, GoTo(u, fs, ts, same)
  PROVE  /\ ip' \in Units /\ status' \in Statuses
         /\ frames' = fs /\ tryframes' = ts
BY DEF GoTo, Statuses

LEMMA GoOnSound ==
  ASSUME Sound, GoOn
  PROVE  /\ ip' \in Units /\ status' \in Statuses
         /\ UNCHANGED <<frames, tryframes>>
BY GoToSound DEF GoOn, Sound, StacksSound

LEMMA CrashSound ==
  ASSUME Sound, Crash \/ Die("null_hook")
  PROVE  Sound'
BY DEF Crash, Die, Sound, StacksSound, HooksSound, Statuses, pending

-----------------------------------------------------------------------------
(***************************************************************************)
(* Calls.                                                                  *)
(***************************************************************************)

LEMMA NewFrameSound ==
  ASSUME Sound, NewFrame
  PROVE  Sound'
<1>1. tryOpen' = tryOpen /\ tryCatchers' = tryCatchers /\ jumpBase' = jumpBase
  BY DEF NewFrame
<1>2. CASE frameNew # Null
  <2>1. Fault /\ frameNew' = frameNew
    BY <1>2 DEF NewFrame
  <2>. QED
    BY <1>1, <2>1, FaultSound DEF Sound, HooksSound
<1>3. CASE frameNew = Null
  <2>1. PICK a \in FreeAddr : frameNew' = a
    BY <1>3 DEF NewFrame
  <2>2. GoOn /\ uregset' = uregset /\ caught' = caught
    BY <1>3 DEF NewFrame
  <2>3. NotOn(a, frames) /\ a \in Addr
    BY DEF FreeAddr, NotOn
  <2>. QED
    BY <1>1, <2>1, <2>2, <2>3, GoOnSound DEF Sound, StacksSound, HooksSound
<1>. QED
  BY <1>2, <1>3

\* A frame that is prepared may be pushed unless the stack is full.
LEMMA CalleeSound ==
  ASSUME Sound, ~CallRefused, ip \in Bodies \cup {Start},
         NEW f \in Names, NEW place \in BOOLEAN
  PROVE  LET called == PreparedFrame(f, place)
         IN /\ Stack(Push(called))
            /\ Last(Push(called)) = called
            /\ NotOn(Null, Push(called))
            /\ called.fn = f /\ LocalOf(called) = <<"local", frameNew>>
<1> DEFINE called == PreparedFrame(f, place)
<1>1. frameNew \in Addr /\ Stack(frames) /\ Len(frames) <= MAX_STACK_SIZE
  <2>1. Len(frames) \in Nat /\ MAX_STACK_SIZE \in Nat
    BY TopFrame, CpuAssumption DEF Sound, StacksSound
  <2>. QED
    BY <2>1 DEF Sound, StacksSound, HooksSound, CallRefused, StackFull
<1>2. called \in Frame /\ called.addr = frameNew /\ called.fn = f
  BY <1>1 DEF PreparedFrame, ReturnTo, Frame, Units, Bodies
<1>3. NotOn(called.addr, frames)
  BY <1>2 DEF Sound
<1>. QED
  BY <1>1, <1>2, <1>3, PushOnStack DEF Push, LocalOf

LEMMA CallSound ==
  ASSUME Sound, NEW f \in Functions, NEW place \in BOOLEAN, NEW closure \in BOOLEAN,
         NEW same \in BOOLEAN, Call(f, place, closure, same)
  PROVE  Sound'
<1>1. /\ tryOpen' = tryOpen /\ tryCatchers' = tryCatchers
      /\ jumpBase' = ModuleOf[f] /\ ip \in Bodies \cup {Start}
  BY DEF Call, Executing
<1>2. jumpBase' \in Modules
  BY <1>1, CpuAssumption DEF Units
<1>3. CASE CallRefused
  <2>1. Fault /\ frameNew' = frameNew
    BY <1>3 DEF Call
  <2>. QED
    BY <1>1, <1>2, <2>1, FaultSound DEF Sound, HooksSound
<1>4. CASE ~CallRefused
  <2> DEFINE called == PreparedFrame(f, place)
  <2>1. /\ ClearFrameHook
        /\ GoTo(f, Push(called), tryframes, same)
        /\ uregset' = IF closure THEN <<"closure", f>> ELSE <<"local", frameNew>>
        /\ caught' = caught
    BY <1>4 DEF Call
  <2>2. /\ Stack(Push(called)) /\ NotOn(Null, Push(called))
        /\ Last(Push(called)) = called
        /\ called.fn = f /\ LocalOf(called) = <<"local", frameNew>>
    BY <1>1, <1>4, CalleeSound DEF Names
  <2> HIDE DEF called
  <2>3. /\ ip' \in Units /\ status' \in Statuses
        /\ frames' = Push(called) /\ tryframes' = tryframes
    BY <2>1, GoToSound DEF Units
  <2>4. RegistersOf(frames', uregset')
    BY <2>1, <2>2, <2>3 DEF RegistersOf
  <2>5. frameNew' = Null
    BY <2>1 DEF ClearFrameHook
  <2>. QED
    BY <1>1, <1>2, <2>1, <2>2, <2>3, <2>4, <2>5 DEF Sound, StacksSound, HooksSound
<1>. QED
  BY <1>3, <1>4

LEMMA CallForeignSound ==
  ASSUME Sound, NEW f \in Foreign, NEW place \in BOOLEAN, CallForeign(f, place)
  PROVE  Sound'
<1>1. /\ tryOpen' = tryOpen /\ tryCatchers' = tryCatchers /\ jumpBase' = jumpBase
      /\ ip \in Bodies
  BY DEF CallForeign, Executing
<1>2. CASE CallRefused
  <2>1. Fault /\ frameNew' = frameNew
    BY <1>2 DEF CallForeign
  <2>. QED
    BY <1>1, <2>1, FaultSound DEF Sound, HooksSound
<1>3. CASE ~CallRefused
  <2> DEFINE called == PreparedFrame(f, place)
  <2>1. frameNew' = Null
    BY <1>3 DEF CallForeign, ClearFrameHook
  <2>2. /\ Stack(Push(called)) /\ NotOn(Null, Push(called))
        /\ Last(Push(called)) = called
    BY <1>1, <1>3, CalleeSound DEF Names
  <2>3. StacksSound /\ Stack(frames) /\ NotOn(Null, frames)
    <3>1. Stack(frames)
      BY DEF Sound, StacksSound
    <3>2. \A i \in DOMAIN frames : frames[i].addr \in Addr
      BY <3>1, TopFrame DEF Frame
    <3>. QED
      BY <3>1, <3>2, CpuAssumption DEF Sound, NotOn
  <2>4. \/ \E e \in Faults : Raise(e, Push(called), LocalOf(called))
        \/ Raise(MachineException, frames, LocalOf(Last(frames)))
        \/ GoOn /\ uregset' = LocalOf(Last(frames)) /\ caught' = caught
    BY <1>3 DEF CallForeign
  <2> HIDE DEF called
  <2>5. StacksSound' /\ NotOn(Null, frames')
    <3>1. CASE \E e \in Faults : Raise(e, Push(called), LocalOf(called))
      <4>1. PICK e \in Faults : Raise(e, Push(called), LocalOf(called))
        BY <3>1
      <4>2. RegistersOf(Push(called), LocalOf(called))
        BY <2>2 DEF RegistersOf
      <4>. QED
        BY <2>2, <2>3, <4>1, <4>2, RaiseSound
    <3>2. CASE Raise(MachineException, frames, LocalOf(Last(frames)))
      <4>1. RegistersOf(frames, LocalOf(Last(frames)))
        BY DEF RegistersOf
      <4>. QED
        BY <2>3, <3>2, <4>1, RaiseSound
    <3>3. CASE GoOn /\ uregset' = LocalOf(Last(frames)) /\ caught' = caught
      BY <2>3, <3>3, GoOnSound DEF StacksSound, RegistersOf
    <3>. QED
      BY <2>4, <3>1, <3>2, <3>3
  <2>. QED
    BY <1>1, <2>1, <2>5 DEF Sound, HooksSound
<1>. QED
  BY <1>2, <1>3

\* The last `end` leaves no frame behind; the CPU stops.
LEMMA EndSound ==
  ASSUME Sound, End
  PROVE  Inv'
<1> DEFINE top == Last(frames)
           rest == Front(frames)
<1>1. frameNew' = frameNew /\ tryOpen' = tryOpen /\ tryCatchers' = tryCatchers
  BY DEF End, pending
<1>2. StacksSound /\ Stack(frames) /\ NotOn(frameNew, frames) /\ jumpBase \in Modules
  BY DEF Sound, StacksSound, HooksSound
<1>3. top \in Frame
  BY <1>2, TopFrame
<1>4. rest # <<>> => Stack(rest) /\ NotOn(frameNew, rest) /\ RegistersOf(rest, LocalOf(Last(rest)))
  BY <1>2, FrontOfStack DEF RegistersOf
<1>5. \/ Fault /\ jumpBase' = jumpBase
      \/ /\ rest # <<>> /\ Raise(MachineException, rest, LocalOf(Last(rest)))
         /\ jumpBase' = jumpBase
      \/ /\ rest = <<>>
         /\ status' = "finished" /\ frames' = rest /\ ip' = top.ret
         /\ uregset' = <<"global", Null>>
         /\ UNCHANGED <<tryframes, jumpBase, caught>>
      \/ /\ status' = "crashed"
         /\ UNCHANGED <<frames, tryframes, ip, jumpBase, uregset, caught>>
      \/ /\ rest # <<>> /\ Last(rest).fn \notin Foreign
         /\ GoTo(top.ret, rest, tryframes, FALSE)
         /\ uregset' = LocalOf(Last(rest))
         /\ jumpBase' = JumpBaseOf(Last(rest))
         /\ caught' = caught
  BY DEF End
<1> HIDE DEF top, rest
<1>6. CASE Fault /\ jumpBase' = jumpBase
  BY <1>1, <1>6, FaultSound, InvOfSoundNext DEF Sound, HooksSound
<1>7. CASE /\ rest # <<>> /\ Raise(MachineException, rest, LocalOf(Last(rest)))
           /\ jumpBase' = jumpBase
  <2>1. StacksSound' /\ NotOn(frameNew, frames')
    BY <1>2, <1>4, <1>7, RaiseSound
  <2>2. Sound'
    BY <1>1, <1>7, <2>1 DEF Sound, HooksSound
  <2>. QED
    BY <2>2, InvOfSoundNext
<1>8. CASE /\ rest = <<>>
           /\ status' = "finished" /\ frames' = rest /\ ip' = top.ret
           /\ uregset' = <<"global", Null>>
           /\ UNCHANGED <<tryframes, jumpBase, caught>>
  <2>1. frames' = <<>> /\ Len(frames') = 0 /\ frames' \in Seq(Frame) /\ DOMAIN frames' = {}
    BY <1>8, EmptySeq
  <2>2. TypeOK'
    BY <1>1, <1>3, <1>8, <2>1
    DEF TypeOK, Sound, StacksSound, HooksSound, RegisterSets, Statuses, Frame
  <2>3. NoFramePushedTwice' /\ RegistersOfTopFrame'
    BY <1>8, <2>1 DEF NoFramePushedTwice, RegistersOfTopFrame
  <2>4. StackBounded'
    BY <1>8, <2>1, CpuAssumption DEF StackBounded
  <2>. QED
    BY <2>2, <2>3, <2>4 DEF Inv
<1>9. CASE /\ status' = "crashed"
           /\ UNCHANGED <<frames, tryframes, ip, jumpBase, uregset, caught>>
  <2>1. Sound'
    BY <1>1, <1>9 DEF Sound, StacksSound, HooksSound, Statuses
  <2>. QED
    BY <2>1, InvOfSoundNext
<1>10. CASE /\ rest # <<>> /\ Last(rest).fn \notin Foreign
            /\ GoTo(top.ret, rest, tryframes, FALSE)
            /\ uregset' = LocalOf(Last(rest))
            /\ jumpBase' = JumpBaseOf(Last(rest))
            /\ caught' = caught
  <2>1. ip' \in Units /\ status' \in Statuses /\ frames' = rest /\ tryframes' = tryframes
    BY <1>3, <1>10, GoToSound DEF Frame
  <2>2. jumpBase' \in Modules
    <3>1. Last(rest) \in Frame
      BY <1>4, <1>10, TopFrame
    <3>2. Last(rest).fn \in Units
      BY <1>10, <3>1 DEF Frame, Names, Units
    <3>. QED
      BY <1>10, <3>2, CpuAssumption DEF JumpBaseOf
  <2>3. Sound'
    BY <1>1, <1>2, <1>4, <1>10, <2>1, <2>2 DEF Sound, StacksSound, HooksSound
  <2>. QED
    BY <2>3, InvOfSoundNext
<1>. QED
  BY <1>5, <1>6, <1>7, <1>8, <1>9, <1>10

-----------------------------------------------------------------------------
(***************************************************************************)
(* Blocks and exceptions.                                                  *)
(***************************************************************************)

LEMMA NoCatchersType == NoCatchers \in CatcherMaps
BY DEF NoCatchers, CatcherMaps

LEMMA AddCatcherType ==
  ASSUME NEW c \in CatcherMaps, NEW t \in CatchTypes, NEW b \in Blocks
  PROVE  AddCatcher(c, t, b) \in CatcherMaps
<1>1. PICK S \in SUBSET CatchTypes : c \in [S -> Blocks]
  BY DEF CatcherMaps
<1>2. AddCatcher(c, t, b) \in [S \cup {t} -> Blocks]
  BY <1>1 DEF AddCatcher
<1>. QED
  BY <1>2 DEF CatcherMaps

LEMMA TrySound ==
  ASSUME Sound, Try
  PROVE  Sound'
<1>1. frameNew' = frameNew /\ jumpBase' = jumpBase
  BY DEF Try
<1>2. CASE tryOpen
  BY <1>1, <1>2, FaultSound DEF Try, Sound, HooksSound
<1>3. CASE ~tryOpen
  BY <1>1, <1>3, GoOnSound, NoCatchersType DEF Try, Sound, StacksSound, HooksSound
<1>. QED
  BY <1>2, <1>3

LEMMA CatchSound ==
  ASSUME Sound, NEW t \in CatchTypes, NEW b \in Blocks, Catch(t, b)
  PROVE  Sound'
<1>1. jumpBase' \in Modules
  BY CpuAssumption DEF Catch, Units, Bodies
<1>2. tryCatchers' \in CatcherMaps
  BY AddCatcherType DEF Catch, Sound, HooksSound
<1>. QED
  BY <1>1, <1>2, GoOnSound DEF Catch, Sound, StacksSound, HooksSound

LEMMA EnterSound ==
  ASSUME Sound, NEW b \in Blocks, NEW same \in BOOLEAN, Enter(b, same)
  PROVE  Sound'
<1> DEFINE entered == [ret |-> ip, assoc |-> Last(frames).addr, block |-> b,
                       catchers |-> tryCatchers]
<1>1. /\ GoTo(b, frames, Append(tryframes, entered), same)
      /\ tryOpen' = FALSE /\ tryCatchers' = NoCatchers /\ jumpBase' = ModuleOf[b]
      /\ frameNew' = frameNew /\ uregset' = uregset /\ caught' = caught
      /\ ip \in Bodies
  BY DEF Enter, Executing
<1>2. entered \in TryFrame
  BY <1>1, TopFrame DEF TryFrame, Frame, Sound, StacksSound, HooksSound
<1>3. Append(tryframes, entered) \in Seq(TryFrame)
  BY <1>2, AppendProperties DEF Sound, StacksSound
<1> HIDE DEF entered
<1>4. /\ ip' \in Units /\ status' \in Statuses
      /\ frames' = frames /\ tryframes' = Append(tryframes, entered)
  BY <1>1, GoToSound DEF Units, Bodies
<1>5. jumpBase' \in Modules
  BY <1>1, CpuAssumption DEF Units, Bodies
<1>. QED
  BY <1>1, <1>3, <1>4, <1>5, NoCatchersType DEF Sound, StacksSound, HooksSound

LEMMA LeaveSound ==
  ASSUME Sound, Leave
  PROVE  Sound'
<1>1. CASE tryframes = <<>>
  BY <1>1, FaultSound DEF Leave, Sound, HooksSound, pending
<1>2. CASE tryframes # <<>> /\ Last(frames).fn \in Foreign
  BY <1>2, CrashSound DEF Leave
<1>3. CASE tryframes # <<>> /\ Last(frames).fn \notin Foreign
  <2>1. /\ GoTo(Last(tryframes).ret, frames, Front(tryframes), FALSE)
        /\ jumpBase' = JumpBaseOf(Last(frames))
        /\ UNCHANGED <<pending, uregset, caught>>
    BY <1>3 DEF Leave
  <2>2. /\ tryframes \in Seq(TryFrame)
        /\ Len(tryframes) \in Nat \ {0}
        /\ \A i \in 1..Len(tryframes) : tryframes[i] \in TryFrame
    BY <1>3, EmptySeq, ElementOfSeq DEF Sound, StacksSound
  <2>3. Last(tryframes).ret \in Units
    BY <2>2 DEF Last, TryFrame, Units, Bodies
  <2>4. Front(tryframes) \in Seq(TryFrame)
    BY <2>2, SubSeqProperties DEF Front
  <2>5. jumpBase' \in Modules
    <3>1. Last(frames) \in Frame
      BY TopFrame DEF Sound, StacksSound
    <3>2. Last(frames).fn \in Units
      BY <1>3, <3>1 DEF Frame, Names, Units
    <3>. QED
      BY <2>1, <3>2, CpuAssumption DEF JumpBaseOf
  <2>. QED
    BY <2>1, <2>3, <2>4, <2>5, GoToSound DEF Sound, StacksSound, HooksSound, pending
<1>. QED
  BY <1>1, <1>2, <1>3

LEMMA ThrowSound ==
  ASSUME Sound, NEW e \in Thrown, Throw(e)
  PROVE  Sound'
BY RaiseSound DEF Throw, Sound, StacksSound, HooksSound, pending

LEMMA PullSound ==
  ASSUME Sound, Pull
  PROVE  Sound'
<1>1. CASE ~caught
  BY <1>1, FaultSound DEF Pull, Sound, HooksSound, pending
<1>2. CASE caught
  BY <1>2, GoOnSound DEF Pull, Sound, StacksSound, HooksSound, pending
<1>. QED
  BY <1>1, <1>2

LEMMA RessSound ==
  ASSUME Sound, NEW kind \in {"global", "local", "static"}, Ress(kind)
  PROVE  Sound'
<1>1. \/ uregset' = <<"global", Null>>
      \/ uregset' = LocalOf(Last(frames))
      \/ uregset' = <<"static", Last(frames).fn>>
  BY DEF Ress
<1>2. RegistersOf(frames, uregset')
  BY <1>1 DEF RegistersOf
<1>. QED
  BY <1>2, GoOnSound DEF Ress, Sound, StacksSound, HooksSound, pending

LEMMA JumpSound ==
  ASSUME Sound, Jump
  PROVE  Sound'
<1>1. /\ frameNew' = frameNew /\ tryOpen' = tryOpen /\ tryCatchers' = tryCatchers
      /\ jumpBase' = jumpBase /\ uregset' = uregset /\ caught' = caught
  BY DEF Jump, pending
<1>2. \/ GoTo(ip, frames, tryframes, TRUE)
      \/ \E u \in Bodies : GoTo(u, frames, tryframes, FALSE)
      \/ status' = "crashed" /\ UNCHANGED <<ip, frames, tryframes>>
  BY DEF Jump
<1>3. ip \in Units /\ Bodies \subseteq Units
  BY DEF Sound, StacksSound, Units, Bodies
<1>4. ip' \in Units /\ status' \in Statuses /\ frames' = frames /\ tryframes' = tryframes
  BY <1>2, <1>3, GoToSound DEF Statuses
<1>. QED
  BY <1>1, <1>4 DEF Sound, StacksSound, HooksSound

LEMMA HaltSound ==
  ASSUME Sound, Halt
  PROVE  Sound'
BY DEF Halt, Sound, StacksSound, HooksSound, Statuses, pending

-----------------------------------------------------------------------------
(***************************************************************************)
(* The inductive invariant.                                                *)
(***************************************************************************)

LEMMA InitInv == Init => Inv
<1> SUFFICES ASSUME Init PROVE Inv
  OBVIOUS
<1>1. PICK a \in Addr :
        /\ frames = <<[addr |-> a, fn |-> Start, ret |-> Exit, place |-> FALSE]>>
        /\ uregset = <<"local", a>>
  BY DEF Init
<1> DEFINE bottom == [addr |-> a, fn |-> Start, ret |-> Exit, place |-> FALSE]
<1>2. bottom \in Frame /\ bottom.fn = Start /\ bottom.addr = a
  BY DEF Frame, Names, Units
<1> HIDE DEF bottom
<1>3. frames = <<bottom>>
  BY <1>1 DEF bottom
<1>4. frames \in Seq(Frame) /\ Len(frames) = 1 /\ frames[1] = bottom
  BY <1>2, <1>3
<1>5. DOMAIN frames = {1} /\ frames # <<>> /\ Last(frames) = bottom
  BY <1>3, <1>4 DEF Last
<1>6. Stack(frames)
  BY <1>2, <1>4, <1>5, CpuAssumption DEF Stack
<1>7. RegistersOf(frames, uregset)
  BY <1>1, <1>2, <1>5 DEF RegistersOf, LocalOf
<1>8. frameNew = Null /\ NotOn(Null, frames)
  BY <1>2, <1>4, <1>5, CpuAssumption DEF Init, NotOn
<1>9. tryframes \in Seq(TryFrame) /\ tryCatchers \in CatcherMaps
  BY NoCatchersType, EmptySeq DEF Init
<1>10. jumpBase \in Modules
  BY CpuAssumption DEF Init, Units
<1>11. Sound
  BY <1>6, <1>7, <1>8, <1>9, <1>10
  DEF Init, Sound, StacksSound, HooksSound, Units, Statuses
<1>. QED
  BY <1>11, InvOfSound

LEMMA TickInv ==
  ASSUME Inv, Tick
  PROVE  Inv'
<1>1. status = "running"
  BY DEF Tick, NewFrame, NoFrame, Call, CallForeign, End, Try, Catch, Enter,
         NoTryFrame, Leave, Throw, Pull, Ress, Jump, Halt, Executing
<1>2. Sound
  BY <1>1, SoundOfInv
<1>3. CASE NewFrame
  BY <1>2, <1>3, NewFrameSound, InvOfSoundNext
<1>4. CASE \E f \in Functions, place, closure, same \in BOOLEAN : Call(f, place, closure, same)
  BY <1>2, <1>4, CallSound, InvOfSoundNext
<1>5. CASE \E f \in Foreign, place \in BOOLEAN : CallForeign(f, place)
  BY <1>2, <1>5, CallForeignSound, InvOfSoundNext
<1>6. CASE End
  BY <1>2, <1>6, EndSound
<1>7. CASE Try
  BY <1>2, <1>7, TrySound, InvOfSoundNext
<1>8. CASE \E t \in CatchTypes, b \in Blocks : Catch(t, b)
  BY <1>2, <1>8, CatchSound, InvOfSoundNext
<1>9. CASE \E b \in Blocks, same \in BOOLEAN : Enter(b, same)
  BY <1>2, <1>9, EnterSound, InvOfSoundNext
<1>10. CASE NoFrame \/ NoTryFrame
  BY <1>2, <1>10, CrashSound, InvOfSoundNext DEF NoFrame, NoTryFrame
<1>11. CASE Leave
  BY <1>2, <1>11, LeaveSound, InvOfSoundNext
<1>12. CASE \E e \in Thrown : Throw(e)
  BY <1>2, <1>12, ThrowSound, InvOfSoundNext
<1>13. CASE Pull
  BY <1>2, <1>13, PullSound, InvOfSoundNext
<1>14. CASE \E kind \in {"global", "local", "static"} : Ress(kind)
  BY <1>2, <1>14, RessSound, InvOfSoundNext
<1>15. CASE Jump
  BY <1>2, <1>15, JumpSound, InvOfSoundNext
<1>16. CASE Halt
  BY <1>2, <1>16, HaltSound, InvOfSoundNext
<1>. QED
  BY <1>3, <1>4, <1>5, <1>6, <1>7, <1>8, <1>9, <1>10, <1>11, <1>12, <1>13,
     <1>14, <1>15, <1>16 DEF Tick

LEMMA StutterInv ==
  ASSUME Inv, UNCHANGED vars
  PROVE  Inv'
BY DEF Inv, TypeOK, NoFramePushedTwice, StackBounded, RegistersOfTopFrame, vars

\* Whatever a program executes, throws and catches, the stacks and registers of
\* the CPU stay sound.
THEOREM Invariance == Spec => []Inv
<1>1. Init => Inv
  BY InitInv
<1>2. Inv /\ [Next]_vars => Inv'
  BY TickInv, StutterInv DEF Next, Stopped
<1>. QED
  BY <1>1, <1>2, PTL DEF Spec

\* Every variable of the CPU keeps its type.
THEOREM TypeCorrect == Spec => []TypeOK
<1>1. Inv => TypeOK
  BY DEF Inv
<1>. QED
  BY <1>1, Invariance, PTL

\* pushFrame never finds the frame it pushes on the stack.
THEOREM NoStackCorruption == Spec => []NoFramePushedTwice
<1>1. Inv => NoFramePushedTwice
  BY DEF Inv
<1>. QED
  BY <1>1, Invariance, PTL

\* No instruction works on registers of a frame that was dropped.
THEOREM NoDanglingRegisters == Spec => []RegistersOfTopFrame
<1>1. Inv => RegistersOfTopFrame
  BY DEF Inv
<1>. QED
  BY <1>1, Invariance, PTL

\* The stack keeps its bottom frame, and its bound for every MAX_STACK_SIZE.
THEOREM BoundedStack == Spec => []StackBounded
<1>1. Inv => StackBounded
  BY DEF Inv
<1>. QED
  BY <1>1, Invariance, PTL

-----------------------------------------------------------------------------
(***************************************************************************)
(* Frames below the top are not touched.                                   *)
(***************************************************************************)

Agree(s, t) == \A i \in DOMAIN s \cap DOMAIN t : s[i] = t[i]

LEMMA ShorterIsPrefix ==
  ASSUME NEW S, NEW s \in Seq(S), NEW t \in Seq(S), Len(s) <= Len(t), Agree(s, t)
  PROVE  IsPrefix(s, t)
<1>1. /\ Len(s) \in Nat /\ Len(t) \in Nat
      /\ DOMAIN s = 1..Len(s) /\ DOMAIN t = 1..Len(t)
  BY LenProperties
<1>2. \A i \in 1..Len(s) : s[i] \in S /\ t[i] \in S /\ s[i] = t[i]
  BY <1>1, ElementOfSeq DEF Agree
<1> DEFINE p == SubSeq(s, 1, Len(s))
           q == SubSeq(t, 1, Len(s))
<1>3. /\ p \in Seq(S) /\ Len(p) = Len(s) /\ \A i \in 1..Len(s) : p[i] = s[i]
      /\ q \in Seq(S) /\ Len(q) = Len(s) /\ \A i \in 1..Len(s) : q[i] = t[i]
  BY <1>1, <1>2, SubSeqProperties
<1> HIDE DEF p, q
<1>4. p = q
  BY <1>2, <1>3, SeqEqual
<1>. QED
  BY <1>4 DEF IsPrefix, p, q

LEMMA AgreeingArePrefixes ==
  ASSUME NEW S, NEW s \in Seq(S), NEW t \in Seq(S), Agree(s, t)
  PROVE  IsPrefix(s, t) \/ IsPrefix(t, s)
<1>1. Agree(t, s)
  BY DEF Agree
<1>2. Len(s) <= Len(t) \/ Len(t) <= Len(s)
  BY LenProperties
<1>. QED
  BY <1>1, <1>2, ShorterIsPrefix

LEMMA RaiseAgrees ==
  ASSUME NEW fs, Stack(fs), Agree(frames, fs), NEW rs, NEW e, Raise(e, fs, rs)
  PROVE  Agree(frames, frames')
<1>1. frames' = fs \/ \E n \in DOMAIN fs : frames' = SubSeq(fs, 1, n)
  BY DEF Raise, CatchDetailed, CatchByType, UnwindFrames
<1>2. CASE frames' = fs
  BY <1>2
<1>3. CASE \E n \in DOMAIN fs : frames' = SubSeq(fs, 1, n)
  <2>1. PICK n \in DOMAIN fs : frames' = SubSeq(fs, 1, n)
    BY <1>3
  <2>2. n \in Nat \ {0} /\ n <= Len(fs) /\ DOMAIN fs = 1..Len(fs) /\ Len(fs) \in Nat
    BY TopFrame
  <2>3. /\ frames' \in Seq(Frame) /\ Len(frames') = n
        /\ \A i \in 1..n : frames'[i] = fs[i]
    BY <2>1, PrefixOfStack DEF Stack
  <2>4. DOMAIN frames' = 1..n
    BY <2>3, LenProperties
  <2>. QED
    BY <2>2, <2>3, <2>4 DEF Agree
<1>. QED
  BY <1>1, <1>2, <1>3

LEMMA FaultAgrees ==
  ASSUME Sound, Fault
  PROVE  Agree(frames, frames')
BY RaiseAgrees DEF Fault, Sound, StacksSound, Agree

LEMMA PushAgrees ==
  ASSUME Stack(frames), NEW fr \in Frame
  PROVE  Agree(frames, Push(fr))
BY AppendProperties, TopFrame DEF Stack, Push, Agree

LEMMA FrontAgrees ==
  ASSUME Stack(frames)
  PROVE  Agree(frames, Front(frames))
<1> DEFINE n == Len(frames) - 1
           p == SubSeq(frames, 1, n)
<1>1. n \in Nat /\ \A i \in 1..n : frames[i] \in Frame
  BY TopFrame
<1> HIDE DEF n
<1>2. /\ p \in Seq(Frame) /\ Len(p) = IF 1 <= n THEN n - 1 + 1 ELSE 0
      /\ \A i \in 1..(n - 1 + 1) : p[i] = frames[1 + i - 1]
  BY <1>1, SubSeqProperties
<1> HIDE DEF p
<1>3. DOMAIN p = 1..n /\ \A i \in 1..n : p[i] = frames[i]
  BY <1>1, <1>2, LenProperties
<1>4. Agree(frames, p)
  BY <1>3 DEF Agree
<1>. QED
  BY <1>4 DEF p, n, Front

LEMMA CalleeAgrees ==
  ASSUME Sound, ~CallRefused, ip \in Bodies \cup {Start},
         NEW f \in Names, NEW place \in BOOLEAN
  PROVE  Agree(frames, Push(PreparedFrame(f, place)))
<1>1. PreparedFrame(f, place) \in Frame
  BY DEF PreparedFrame, ReturnTo, Frame, Units, Bodies, Sound, HooksSound, CallRefused
<1>. QED
  BY <1>1, PushAgrees DEF Sound, StacksSound

LEMMA TickAgrees ==
  ASSUME Inv, Tick
  PROVE  Agree(frames, frames')
<1>1. status = "running"
  BY DEF Tick, NewFrame, NoFrame, Call, CallForeign, End, Try, Catch, Enter,
         NoTryFrame, Leave, Throw, Pull, Ress, Jump, Halt, Executing
<1>2. Sound /\ Stack(frames)
  BY <1>1, SoundOfInv DEF Sound, StacksSound
<1>3. CASE frames' = frames
  BY <1>3 DEF Agree
<1>4. CASE Fault
  BY <1>2, <1>4, FaultAgrees
<1>5. CASE \E f \in Functions, place, closure, same \in BOOLEAN : Call(f, place, closure, same)
  <2>1. PICK f \in Functions, place \in BOOLEAN, closure \in BOOLEAN, same \in BOOLEAN :
          Call(f, place, closure, same)
    BY <1>5
  <2>2. Fault \/ (~CallRefused /\ frames' = Push(PreparedFrame(f, place)))
    BY <2>1 DEF Call, GoTo
  <2>3. ip \in Bodies \cup {Start} /\ f \in Names
    BY <2>1 DEF Call, Executing, Names
  <2>. QED
    BY <1>2, <1>4, <2>2, <2>3, CalleeAgrees
<1>6. CASE \E f \in Foreign, place \in BOOLEAN : CallForeign(f, place)
  <2>1. PICK f \in Foreign, place \in BOOLEAN : CallForeign(f, place)
    BY <1>6
  <2> DEFINE called == PreparedFrame(f, place)
  <2>2. ip \in Bodies \cup {Start} /\ f \in Names
    BY <2>1 DEF CallForeign, Executing, Names
  <2>3. \/ Fault
        \/ ~CallRefused /\ \E e \in Faults : Raise(e, Push(called), LocalOf(called))
        \/ Raise(MachineException, frames, LocalOf(Last(frames)))
        \/ frames' = frames
    BY <2>1 DEF CallForeign, GoOn, GoTo
  <2>4. CASE ~CallRefused /\ \E e \in Faults : Raise(e, Push(called), LocalOf(called))
    <3>1. PICK e \in Faults : Raise(e, Push(called), LocalOf(called))
      BY <2>4
    <3>2. Stack(Push(called)) /\ Agree(frames, Push(called))
      BY <1>2, <2>2, <2>4, CalleeSound, CalleeAgrees
    <3>. QED
      BY <3>1, <3>2, RaiseAgrees
  <2>5. CASE Raise(MachineException, frames, LocalOf(Last(frames)))
    BY <1>2, <2>5, RaiseAgrees DEF Agree
  <2>. QED
    BY <1>3, <1>4, <2>3, <2>4, <2>5
<1>7. CASE End
  <2>1. \/ Fault
        \/ /\ Front(frames) # <<>>
           /\ Raise(MachineException, Front(frames), LocalOf(Last(Front(frames))))
        \/ frames' = Front(frames)
        \/ frames' = frames
    BY <1>7 DEF End, GoTo
  <2>2. Agree(frames, Front(frames))
    BY <1>2, FrontAgrees
  <2>3. CASE /\ Front(frames) # <<>>
             /\ Raise(MachineException, Front(frames), LocalOf(Last(Front(frames))))
    BY <1>2, <2>2, <2>3, FrontOfStack, RaiseAgrees
  <2>. QED
    BY <1>3, <1>4, <2>1, <2>2, <2>3
<1>8. CASE \E e \in Thrown : Throw(e)
  BY <1>2, <1>8, RaiseAgrees DEF Throw, Agree
<1>9. CASE NewFrame \/ Try \/ Leave \/ Pull
  <2>1. Fault \/ frames' = frames
    BY <1>9 DEF NewFrame, Try, Leave, Pull, GoOn, GoTo, Crash, Die
  <2>. QED
    BY <1>3, <1>4, <2>1
<1>10. CASE \/ \E t \in CatchTypes, b \in Blocks : Catch(t, b)
            \/ \E b \in Blocks, same \in BOOLEAN : Enter(b, same)
            \/ NoFrame \/ NoTryFrame
            \/ \E kind \in {"global", "local", "static"} : Ress(kind)
            \/ Jump
            \/ Halt
  <2>1. frames' = frames
    BY <1>10 DEF Catch, Enter, NoFrame, NoTryFrame, Die, Ress, Jump, Halt, GoOn, GoTo
  <2>. QED
    BY <1>3, <2>1
<1>. QED
  BY <1>5, <1>6, <1>7, <1>8, <1>9, <1>10 DEF Tick

\* No call, return or unwinding rewrites a frame below the top of the stack.
THEOREM BuriedFramesStay == Spec => BuriedFramesKept
<1>1. Inv /\ Inv' /\ [Next]_vars => [IsPrefix(frames, frames') \/ IsPrefix(frames', frames)]_vars
  <2> SUFFICES ASSUME Inv, Inv', Next
               PROVE  [IsPrefix(frames, frames') \/ IsPrefix(frames', frames)]_vars
    OBVIOUS
  <2>1. frames \in Seq(Frame) /\ frames' \in Seq(Frame)
    BY DEF Inv, TypeOK
  <2>2. CASE Tick
    BY <2>1, <2>2, TickAgrees, AgreeingArePrefixes
  <2>3. CASE Stopped
    BY <2>3 DEF Stopped
  <2>. QED
    BY <2>2, <2>3 DEF Next
<1>. QED
  BY <1>1, Invariance, PTL DEF Spec, BuriedFramesKept
=============================================================================
