----------------------------- MODULE Ownership -----------------------------
(***************************************************************************)
(* Who owns which object: the register sets of the frames on the stack,    *)
(* the parameter slots of calls, the temporary register and the caught     *)
(* object, with the pointers as they are in the CPU.  Objects are          *)
(* addresses: an address is used again once its object is deleted, the     *)
(* lowest free one first.  A Reference is an object too; all copies of a   *)
(* Reference share a cell that holds the pointer and the counter.          *)
(*                                                                         *)
(* The instructions of one function at a time act on the registers of its  *)
(* frame; frames counts from the program's main function.  Rules names the *)
(* conventions the modelled program keeps to (see OwnershipRules).         *)
(***************************************************************************)
EXTENDS Integers, FiniteSetsExt, SequencesExt

CONSTANTS
  Objects, Cells,  \* addresses of objects, and of what References share
  Values,          \* values of simple objects
  Registers,       \* register numbers of a frame; 0 holds the return value
  Slots,           \* parameter slots of a call
  Null,
  Rules,
  MaxFrames,       \* bounds of the model only: frames on the stack, and
  MaxLive          \* objects there are after an instruction

\* flat_references: a reference is made to an object, never to a reference.
\* lent_untouched:  the object behind a parameter slot is neither changed nor
\*                  deleted, nor is the slot filled again, while the call lasts.
\* catch_outside:   what a function throws is caught by a caller of it.
\* move_to_empty:   the target of `move` is empty.
\* take_first:      the caught object is pulled, and the temporary register
\*                  read, before another object takes the place.
\* no_empty:        `empty` is only used on references.
OwnershipRules == {"flat_references", "lent_untouched", "catch_outside",
                   "move_to_empty", "take_first", "no_empty"}

ASSUME OwnershipAssumption ==
  /\ Objects \subseteq Nat /\ Cells \subseteq Nat
  /\ IsFiniteSet(Objects) /\ IsFiniteSet(Cells)
  /\ 0 \in Registers
  /\ Null \notin Objects \cup Cells
  /\ Rules \subseteq OwnershipRules
  /\ MaxFrames \in Nat \ {0} /\ MaxLive \in Nat

VARIABLES
  heap,      \* obj: what is at an address; cell: what References share
  frames,    \* call stack: [regs, keep: registers masked KEEP, args, ret]
  prepared,  \* parameter slots of frame_new, or Null
  tmp,       \* the temporary register
  caught     \* the caught object

vars == <<heap, frames, prepared, tmp, caught>>

Content == ({"value"} \X Values) \cup ({"reference"} \X Cells)
Cell == [target : Objects \cup {Null}, count : Nat \ {0}]
Heap == [obj : [Objects -> Content \cup {Null}], cell : [Cells -> Cell \cup {Null}]]
RegisterSet == [Registers -> Objects \cup {Null}]
SlotSet == [Slots -> Objects \cup {Null}]
Frame == [regs : RegisterSet, keep : SUBSET Registers, args : SlotSet, ret : Registers]

ASSUME NullAssumption == Null \notin Content \cup Cell \cup SlotSet

Follows(rule, convention) == rule \in Rules => convention

-----------------------------------------------------------------------------
(***************************************************************************)
(* Objects.                                                                *)
(***************************************************************************)

Live(h) == {o \in Objects : h.obj[o] # Null}
UsedCells(h) == {c \in Cells : h.cell[c] # Null}
IsReference(h, o) == o # Null /\ h.obj[o] # Null /\ h.obj[o][1] = "reference"
CellOf(h, o) == h.obj[o][2]

Room(objects, cells) ==
  /\ Cardinality(Objects \ Live(heap)) >= objects
  /\ Cardinality(Cells \ UsedCells(heap)) >= cells

\* Where `new` puts an object.
FreshObject(h) == Min(Objects \ Live(h))
FreshCell(h) == Min(Cells \ UsedCells(h))

NewObject(h, content) == [h EXCEPT !.obj[FreshObject(h)] = content]

\* new Reference(o): a cell of its own, counted once.
NewReference(h, o) ==
  [NewObject(h, <<"reference", FreshCell(h)>>) EXCEPT
     !.cell[FreshCell(h)] = [target |-> o, count |-> 1]]

\* Faulty: copies of a Reference are not counted.
ShareUncounted(h, o) == NewObject(h, h.obj[o])

\* o->copy(): a Reference is shared and counted, any other object duplicated.
Clone(h, o) ==
  IF IsReference(h, o)
  THEN [NewObject(h, h.obj[o]) EXCEPT !.cell[CellOf(h, o)].count = @ + 1]
  ELSE NewObject(h, h.obj[o])

\* CPU::fetch: what a register that holds o stands for.
Fetch(h, o) == IF IsReference(h, o) THEN h.cell[CellOf(h, o)].target ELSE o

\* How many References of cell c are among the objects S.
Dropped(h, S, c) == Cardinality({o \in S : h.obj[o] = <<"reference", c>>})

\* Faulty: the counter is tested before it is decremented.
EmptiedLate(h, S) == {c \in UsedCells(h) : h.cell[c].count < Dropped(h, S, c)}

\* Cells that lose their last Reference with the objects S.
Emptied(h, S) == {c \in UsedCells(h) : h.cell[c].count <= Dropped(h, S, c)}

\* The objects S are deleted.  A Reference counts down; the last one deletes
\* the cell and what it points to.
DeleteAll(h, S) ==
  LET gone == S \cup {h.cell[c].target : c \in Emptied(h, S)}
  IN [obj |-> [o \in Objects |-> IF o \in gone THEN Null ELSE h.obj[o]],
      cell |-> [c \in Cells |->
                  IF c \in Emptied(h, S) \/ h.cell[c] = Null THEN Null
                  ELSE [h.cell[c] EXCEPT !.count = @ - Dropped(h, S, c)]]]

Delete(h, o) == DeleteAll(h, {o} \ {Null})

\* Reference::rebind: the object pointed to is deleted, not the Reference.
Rebind(h, c, o) == [Delete(h, h.cell[c].target) EXCEPT !.cell[c].target = o]

-----------------------------------------------------------------------------
(***************************************************************************)
(* Register sets: a set that holds the objects regs (or parameter slots).  *)
(***************************************************************************)

\* Faulty: a Reference in the register is replaced like any other object.
SetOverReference(h, regs, i, o) == IF regs[i] = Null THEN h ELSE Delete(h, regs[i])

\* RegisterSet::set: the heap, and the registers, afterwards.
SetHeap(h, regs, i, o) ==
  IF regs[i] = Null THEN h
  ELSE IF IsReference(h, regs[i]) THEN Rebind(h, CellOf(h, regs[i]), o)
  ELSE Delete(h, regs[i])

SetRegs(h, regs, i, o) ==
  IF IsReference(h, regs[i]) THEN regs ELSE [regs EXCEPT ![i] = o]

\* CPU::place: registers that hold the same pointer as register i follow it
\* (hasrefs, updaterefs).
PlaceRegs(h, regs, i, o) ==
  IF regs[i] # Null /\ \E j \in Registers \ {i} : regs[j] = regs[i]
  THEN [j \in Registers |-> IF regs[j] = regs[i] THEN o ELSE regs[j]]
  ELSE SetRegs(h, regs, i, o)

\* Faulty: the destructor deletes what registers masked KEEP hold as well.
OwnedWithKept(frame) == Range(frame.regs) \ {Null}

\* What ~RegisterSet deletes of a frame's registers; its parameter slots are
\* only dropped.
Owned(frame) == {frame.regs[i] : i \in Registers \ frame.keep} \ {Null}

DropFrames(h, dropped) == DeleteAll(h, UNION {Owned(f) : f \in dropped})

Top == Last(frames)
Regs == Top.regs
Keep == Top.keep

WithTop(regs, keep) ==
  [frames EXCEPT ![Len(frames)].regs = regs, ![Len(frames)].keep = keep]

\* Register i of the running function is set to o, in the heap h.
Store(h, i, o) ==
  /\ heap' = SetHeap(h, Regs, i, o)
  /\ frames' = WithTop(SetRegs(h, Regs, i, o), Keep)

\* What place makes of it.
Place(h, i, o) ==
  /\ heap' = SetHeap(h, Regs, i, o)
  /\ frames' = WithTop(PlaceRegs(h, Regs, i, o), Keep)

EmptyRegisters == [i \in Registers |-> Null]
EmptySlots == [s \in Slots |-> Null]
Filled == {i \in Registers : Regs[i] # Null}

-----------------------------------------------------------------------------
(***************************************************************************)
(* Instructions on registers.                                              *)
(***************************************************************************)

\* Any instruction that places a new simple object (izero, strstore, iadd ...).
New(i, v) ==
  /\ Room(1, 0)
  /\ Place(NewObject(heap, <<"value", v>>), i, FreshObject(heap))
  /\ UNCHANGED <<prepared, tmp, caught>>

\* Any instruction that changes the fetched object in place (iinc, vpush ...).
Modify(i, v) ==
  /\ i \in Filled
  /\ Fetch(heap, Regs[i]) # Null
  /\ heap' = [heap EXCEPT !.obj[Fetch(heap, Regs[i])] = <<"value", v>>]
  /\ UNCHANGED <<frames, prepared, tmp, caught>>

\* The pointer moves with its mask; what register j held is not deleted.
Move(i, j) ==
  /\ Follows("move_to_empty", Regs[j] = Null)
  /\ frames' = WithTop([Regs EXCEPT ![j] = Regs[i], ![i] = Null],
                       IF i \in Keep THEN (Keep \ {i}) \cup {j} ELSE Keep \ {i, j})
  /\ UNCHANGED <<heap, prepared, tmp, caught>>

\* A copy of the object behind register i; a new object even for a reference.
Copy(i, j) ==
  /\ i \in Filled /\ Room(1, 0)
  /\ Place(Clone(heap, Fetch(heap, Regs[i])), j, FreshObject(heap))
  /\ UNCHANGED <<prepared, tmp, caught>>

\* Register i comes to hold a Reference; in the heap and register set left.
Wrapped(i) == IF IsReference(heap, Regs[i]) THEN heap ELSE NewReference(heap, Regs[i])
WrappedRegs(i) ==
  IF IsReference(heap, Regs[i]) THEN Regs ELSE [Regs EXCEPT ![i] = FreshObject(heap)]
WrappedKeep(i) == IF IsReference(heap, Regs[i]) THEN Keep ELSE Keep \ {i}

\* Register i, empty or not, is wrapped, and register j set to a copy of it.
Ref(i, j) ==
  /\ IF IsReference(heap, Regs[i]) THEN Room(1, 0) ELSE Room(2, 1)
  /\ LET h == Wrapped(i)
         regs == WrappedRegs(i)
         copied == Clone(h, regs[i])
     IN /\ heap' = SetHeap(copied, regs, j, FreshObject(h))
        /\ frames' = WithTop(SetRegs(copied, regs, j, FreshObject(h)), WrappedKeep(i))
  /\ UNCHANGED <<prepared, tmp, caught>>

Swap(i, j) ==
  /\ frames' = WithTop([Regs EXCEPT ![i] = Regs[j], ![j] = Regs[i]],
                       {k \in Registers : CASE k = i -> j \in Keep
                                            [] k = j -> i \in Keep
                                            [] OTHER -> k \in Keep})
  /\ UNCHANGED <<heap, prepared, tmp, caught>>

Free(i) ==
  /\ i \in Filled
  /\ heap' = Delete(heap, Regs[i])
  /\ frames' = WithTop([Regs EXCEPT ![i] = Null], Keep \ {i})
  /\ UNCHANGED <<prepared, tmp, caught>>

\* A Reference is deleted, any other object only forgotten.
Empty(i) ==
  /\ i \in Filled
  /\ Follows("no_empty", IsReference(heap, Regs[i]))
  /\ heap' = IF IsReference(heap, Regs[i]) THEN Delete(heap, Regs[i]) ELSE heap
  /\ frames' = WithTop([Regs EXCEPT ![i] = Null], Keep \ {i})
  /\ UNCHANGED <<prepared, tmp, caught>>

\* A copy of the register itself: a Reference is shared.
Tmpri(i) ==
  /\ i \in Filled /\ Room(1, 0)
  /\ Follows("take_first", tmp = Null)
  /\ tmp' = FreshObject(heap)
  /\ heap' = Clone(heap, Regs[i])
  /\ UNCHANGED <<frames, prepared, caught>>

\* What register i held is freed first.
Tmpro(i) ==
  /\ heap' = IF i \in Filled THEN Delete(heap, Regs[i]) ELSE heap
  /\ frames' = WithTop([Regs EXCEPT ![i] = tmp], Keep \ (Filled \cap {i}))
  /\ tmp' = Null
  /\ UNCHANGED <<prepared, caught>>

-----------------------------------------------------------------------------
(***************************************************************************)
(* Calls.                                                                  *)
(***************************************************************************)

FrameNew ==
  /\ prepared = Null
  /\ prepared' = EmptySlots
  /\ UNCHANGED <<heap, frames, tmp, caught>>

SetSlot(h, s, o) ==
  /\ Follows("lent_untouched", prepared[s] = Null)
  /\ heap' = SetHeap(h, prepared, s, o)
  /\ prepared' = SetRegs(h, prepared, s, o)

\* The slot holds the very object behind register i.
Param(s, i) ==
  /\ prepared # Null /\ i \in Filled
  /\ SetSlot(heap, s, Fetch(heap, Regs[i]))
  /\ UNCHANGED <<frames, tmp, caught>>

\* The slot holds the very Reference that register i holds, or now gets.
Paref(s, i) ==
  /\ prepared # Null
  /\ IsReference(heap, Regs[i]) \/ Room(1, 1)
  /\ SetSlot(Wrapped(i), s, WrappedRegs(i)[i])
  /\ frames' = IF IsReference(heap, Regs[i]) THEN frames
               ELSE WithTop(WrappedRegs(i), Keep \ {i})
  /\ UNCHANGED <<tmp, caught>>

\* The called function will place its return value in register r; 0: nowhere.
Call(r) ==
  /\ prepared # Null /\ Len(frames) < MaxFrames
  /\ frames' = Append(frames, [regs |-> EmptyRegisters, keep |-> {},
                               args |-> prepared, ret |-> r])
  /\ prepared' = Null
  /\ UNCHANGED <<heap, tmp, caught>>

\* Faulty: the slot's own object is put in the register.
ArgUncopied(s, i) ==
  /\ Top.args[s] # Null /\ Room(1, 0)
  /\ heap' = SetHeap(heap, Regs, i, Top.args[s])
  /\ frames' = WithTop(SetRegs(heap, Regs, i, Top.args[s]), Keep \ {i})
  /\ UNCHANGED <<prepared, tmp, caught>>

\* The copy is made here, in the called function.
Arg(s, i) ==
  /\ Top.args[s] # Null /\ Room(1, 0)
  /\ LET h == Clone(heap, Top.args[s])
     IN /\ heap' = SetHeap(h, Regs, i, FreshObject(heap))
        /\ frames' = WithTop(SetRegs(h, Regs, i, FreshObject(heap)), Keep \ {i})
  /\ UNCHANGED <<prepared, tmp, caught>>

Callers == Front(frames)

\* end: register 0 is copied before the frame is dropped, then placed.
End ==
  /\ Callers # <<>>
  /\ IF Top.ret = 0
     THEN heap' = DropFrames(heap, {Top}) /\ frames' = Callers
     ELSE /\ 0 \in Filled /\ Room(1, 0)
          /\ LET h == DropFrames(Clone(heap, Regs[0]), {Top})
                 regs == Last(Callers).regs
             IN /\ heap' = SetHeap(h, regs, Top.ret, FreshObject(heap))
                /\ frames' = [Callers EXCEPT ![Len(Callers)].regs =
                                PlaceRegs(h, regs, Top.ret, FreshObject(heap))]
  /\ UNCHANGED <<prepared, tmp, caught>>

-----------------------------------------------------------------------------
(***************************************************************************)
(* Exceptions.                                                             *)
(***************************************************************************)

\* throw, and the unwinding to the k-th frame: the register keeps the object
\* but does not own it any longer.
Throw(i, k) ==
  /\ i \in Filled
  /\ Follows("catch_outside", k < Len(frames))
  /\ Follows("take_first", caught = Null)
  /\ LET thrown == [Top EXCEPT !.keep = @ \cup {i}]
         stack == Append(Callers, thrown)
     IN /\ heap' = DropFrames(heap, {stack[j] : j \in k + 1 .. Len(stack)})
        /\ frames' = SubSeq(stack, 1, k)
  /\ caught' = Regs[i]
  /\ UNCHANGED <<prepared, tmp>>

Pull(i) ==
  /\ caught # Null
  /\ Store(heap, i, caught)
  /\ caught' = Null
  /\ UNCHANGED <<prepared, tmp>>

-----------------------------------------------------------------------------
Lent(slots) == IF slots = Null THEN {} ELSE Range(slots) \ {Null}

\* Objects that parameter slots of prepared or running calls point to.
LentObjects == Lent(prepared) \cup UNION {Lent(frames[k].args) : k \in DOMAIN frames}

LentUntouched ==
  \A o \in LentObjects \cap LentObjects' : heap'.obj[o] = heap.obj[o]

FlatReferences ==
  \A c \in UsedCells(heap) : /\ heap.cell[c].target # Null
                             /\ ~IsReference(heap, heap.cell[c].target)

Init ==
  /\ heap = [obj |-> [o \in Objects |-> Null], cell |-> [c \in Cells |-> Null]]
  /\ frames = << [regs |-> EmptyRegisters, keep |-> {}, args |-> EmptySlots, ret |-> 0] >>
  /\ prepared = Null /\ tmp = Null /\ caught = Null

Instruction ==
  \/ \E i \in Registers, v \in Values : New(i, v) \/ Modify(i, v)
  \/ \E i, j \in Registers : Move(i, j) \/ Copy(i, j) \/ Ref(i, j) \/ Swap(i, j)
  \/ \E i \in Registers : Free(i) \/ Empty(i) \/ Tmpri(i) \/ Tmpro(i) \/ Pull(i)
  \/ \E s \in Slots, i \in Registers : Param(s, i) \/ Paref(s, i) \/ Arg(s, i)
  \/ \E i \in Registers : Call(i)
  \/ FrameNew \/ End
  \/ \E i \in Registers, k \in DOMAIN frames : Throw(i, k)

Next ==
  /\ Instruction
  /\ Cardinality(Live(heap')) <= MaxLive
  /\ Follows("flat_references", FlatReferences')
  /\ Follows("lent_untouched", LentUntouched)

Spec == Init /\ [][Next]_vars

-----------------------------------------------------------------------------
(***************************************************************************)
(* Properties.                                                             *)
(***************************************************************************)

\* Where pointers that own what they point to are: registers of a frame that
\* are not masked KEEP, cells, the temporary register and the caught object.
FrameOwners(k, o) == {<<k, i>> : i \in {j \in Registers \ frames[k].keep : frames[k].regs[j] = o}}

Owners(o) ==
  (UNION {FrameOwners(k, o) : k \in DOMAIN frames})
    \cup {<<"cell", c>> : c \in {d \in UsedCells(heap) : heap.cell[d].target = o}}
    \cup (IF tmp = o THEN {<<"tmp", 0>>} ELSE {})
    \cup (IF caught = o THEN {<<"caught", 0>>} ELSE {})

\* The variables have their types (Reference, RegisterSet, Frame).
TypeOK ==
  /\ heap \in Heap
  /\ frames \in Seq(Frame) /\ frames # <<>> /\ Len(frames) <= MaxFrames
  /\ prepared \in SlotSet \cup {Null}
  /\ tmp \in Objects \cup {Null} /\ caught \in Objects \cup {Null}

\* Every object is deleted exactly once: a live object has one owner, whose end
\* deletes it, and nothing owns an object that is gone (~RegisterSet, rebind,
\* ~Reference, free).
OneOwner == \A o \in Objects : Cardinality(Owners(o)) = IF o \in Live(heap) THEN 1 ELSE 0

\* The same for programs that may leak: no object is deleted twice, and nothing
\* owns an object that is gone.
NoDoubleFree ==
  \A o \in Objects : Cardinality(Owners(o)) <= IF o \in Live(heap) THEN 1 ELSE 0

\* The counter of a cell is the number of live References that share it
\* (Reference::copy, ~Reference), so the object lives as long as they do.
CountsMatch ==
  /\ \A c \in UsedCells(heap) :
       heap.cell[c].count = Cardinality({o \in Objects : heap.obj[o] = <<"reference", c>>})
  /\ \A o \in Live(heap) : IsReference(heap, o) => heap.cell[CellOf(heap, o)] # Null

\* param puts a copy of the object in its slot
\* (doc/viua_virtual_machine.lyx:1915): nothing done before or during the call
\* changes or deletes what a slot already holds.
ParamsAreCopies == [][LentUntouched]_vars

\* Simple objects live until their register is overwritten, their frame popped
\* or they are freed (doc/viua_virtual_machine.lyx:3038): no register holds an
\* object deleted by way of another register.
PredictableLifetimes ==
  \A k \in DOMAIN frames : \A i \in Registers :
    frames[k].regs[i] # Null => frames[k].regs[i] \in Live(heap)
=============================================================================
