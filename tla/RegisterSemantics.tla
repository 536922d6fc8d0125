------------------------- MODULE RegisterSemantics -------------------------
(***************************************************************************)
(* What registers mean to a program, without pointers: a register is empty *)
(* or holds a value or stands for a variable; writing to a register that   *)
(* stands for a variable writes the variable; an argument passed by value  *)
(* is what it was when it was passed; a variable is gone once nothing      *)
(* stands for it.                                                          *)
(***************************************************************************)
EXTENDS Integers, SequencesExt

CONSTANTS Variables, Values, Registers, Slots, Null, MaxFrames

VARIABLES
  store,     \* values of the variables in use
  frames,    \* [regs, args, ret]
  prepared,  \* arguments of the next call, or Null
  tmp, caught

vars == <<store, frames, prepared, tmp, caught>>

Value(v) == <<"value", v>>
Variable(x) == <<"reference", x>>
Stored == {Value(v) : v \in Values}
Contents == Stored \cup {Variable(x) : x \in Variables} \cup {Null}

IsVariable(c) == c # Null /\ c[1] = "reference"
NameOf(c) == c[2]
ValueOf(c) == IF IsVariable(c) THEN store[NameOf(c)] ELSE c

Regs == Last(frames).regs
Callers == Front(frames)
WithTop(regs) == [frames EXCEPT ![Len(frames)].regs = regs]

\* A variable is never stored in a variable.
Fits(regs, i, c) == IsVariable(regs[i]) => c \in Stored

\* Writing c to register i: the store and the registers it leaves.
Written(st, regs, i, c) == IF IsVariable(regs[i]) THEN [st EXCEPT ![NameOf(regs[i])] = c] ELSE st
WrittenRegs(regs, i, c) == IF IsVariable(regs[i]) THEN regs ELSE [regs EXCEPT ![i] = c]

Referred(fs, slots, held) ==
  held \cup (UNION {Range(fs[k].regs) \cup Range(fs[k].args) : k \in DOMAIN fs})
       \cup (IF slots = Null THEN {} ELSE Range(slots))

\* A step to st, fs, slots, t, c, after which unused variables are gone.
Becomes(st, fs, slots, t, c) ==
  /\ tmp' = t /\ caught' = c /\ prepared' = slots /\ frames' = fs
  /\ store' = [x \in Variables |->
                 IF Variable(x) \in Referred(fs, slots, {t, c}) THEN st[x] ELSE Null]

\* A value, new or changed in place, in register i.
Write(i, c) ==
  Becomes(Written(store, Regs, i, c), WithTop(WrittenRegs(Regs, i, c)), prepared, tmp, caught)

Copy(i, j) == Regs[i] # Null /\ Write(j, ValueOf(Regs[i]))

Move(i, j) ==
  Becomes(store, WithTop([Regs EXCEPT ![j] = Regs[i], ![i] = Null]), prepared, tmp, caught)

Swap(i, j) ==
  Becomes(store, WithTop([Regs EXCEPT ![i] = Regs[j], ![j] = Regs[i]]), prepared, tmp, caught)

Clear(i) ==
  /\ Regs[i] # Null
  /\ Becomes(store, WithTop([Regs EXCEPT ![i] = Null]), prepared, tmp, caught)

\* What is in register i becomes variable x, if it is not one yet.
Names(i, x) == IF IsVariable(Regs[i]) THEN x = NameOf(Regs[i]) ELSE store[x] = Null
Named(x, i) == IF IsVariable(Regs[i]) THEN store ELSE [store EXCEPT ![x] = Regs[i]]
NamedRegs(x, i) == [Regs EXCEPT ![i] = Variable(x)]

Ref(i, j) ==
  /\ Regs[i] # Null /\ i # j
  /\ Fits(Regs, j, Regs[i]) /\ ~IsVariable(Regs[j])
  /\ \E x \in Variables :
       /\ Names(i, x)
       /\ Becomes(Named(x, i), WithTop([NamedRegs(x, i) EXCEPT ![j] = Variable(x)]),
                  prepared, tmp, caught)

Tmpri(i) == Regs[i] # Null /\ Becomes(store, frames, prepared, Regs[i], caught)
Tmpro(i) == Becomes(store, WithTop([Regs EXCEPT ![i] = tmp]), prepared, Null, caught)

FrameNew ==
  /\ prepared = Null
  /\ Becomes(store, frames, [s \in Slots |-> Null], tmp, caught)

Param(s, i) ==
  /\ prepared # Null /\ prepared[s] = Null /\ Regs[i] # Null
  /\ Becomes(store, frames, [prepared EXCEPT ![s] = ValueOf(Regs[i])], tmp, caught)

Paref(s, i) ==
  /\ prepared # Null /\ prepared[s] = Null /\ Regs[i] # Null
  /\ \E x \in Variables :
       /\ Names(i, x)
       /\ Becomes(Named(x, i), WithTop(NamedRegs(x, i)),
                  [prepared EXCEPT ![s] = Variable(x)], tmp, caught)

Call(r) ==
  /\ prepared # Null /\ Len(frames) < MaxFrames
  /\ Becomes(store, Append(frames, [regs |-> [i \in Registers |-> Null],
                                    args |-> prepared, ret |-> r]),
             Null, tmp, caught)

Arg(s, i) ==
  LET c == Last(frames).args[s]
  IN /\ c # Null /\ Fits(Regs, i, c)
     /\ Write(i, c)

End ==
  LET ret == Last(frames).ret
      regs == Last(Callers).regs
  IN /\ Callers # <<>>
     /\ IF ret = 0
        THEN Becomes(store, Callers, prepared, tmp, caught)
        ELSE /\ Regs[0] # Null /\ Fits(regs, ret, Regs[0])
             /\ Becomes(Written(store, regs, ret, Regs[0]),
                        [Callers EXCEPT ![Len(Callers)].regs =
                           WrittenRegs(regs, ret, Regs[0])],
                        prepared, tmp, caught)

\* The object thrown leaves the frames it unwinds.
Throw(i, k) ==
  /\ Regs[i] # Null /\ k < Len(frames)
  /\ Becomes(store, SubSeq(frames, 1, k), prepared, tmp, Regs[i])

Pull(i) ==
  /\ caught # Null /\ Fits(Regs, i, caught)
  /\ Becomes(Written(store, Regs, i, caught), WithTop(WrittenRegs(Regs, i, caught)),
             prepared, tmp, Null)

Init ==
  /\ store = [x \in Variables |-> Null]
  /\ frames = << [regs |-> [i \in Registers |-> Null],
                  args |-> [s \in Slots |-> Null], ret |-> 0] >>
  /\ prepared = Null /\ tmp = Null /\ caught = Null

Next ==
  \/ \E i \in Registers, c \in Stored : Write(i, c)
  \/ \E i, j \in Registers : Copy(i, j) \/ Move(i, j) \/ Swap(i, j) \/ Ref(i, j)
  \/ \E i \in Registers : Clear(i) \/ Tmpri(i) \/ Tmpro(i) \/ Pull(i) \/ Call(i)
  \/ \E s \in Slots, i \in Registers : Param(s, i) \/ Paref(s, i) \/ Arg(s, i)
  \/ FrameNew \/ End
  \/ \E i \in Registers, k \in DOMAIN frames : Throw(i, k)

Spec == Init /\ [][Next]_vars
=============================================================================
