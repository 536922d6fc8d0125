------------------------ MODULE OwnershipRefinement ------------------------
(* The pointers of Ownership implement the values of RegisterSemantics. *)
EXTENDS Ownership

\* Null is no row of parameters either.
ASSUME RowAssumption == Null \notin [Slots -> Content \cup {Null}]

\* What the object at address o is to the program, in the heap h.
Meaning(h, o) == IF o = Null THEN Null ELSE h.obj[o]

MeaningOfRegs(h, regs) == [i \in Registers |-> Meaning(h, regs[i])]
MeaningOfSlots(h, slots) == [s \in Slots |-> Meaning(h, slots[s])]
MeaningOfPrepared(h, slots) == IF slots = Null THEN Null ELSE MeaningOfSlots(h, slots)
MeaningOfFrame(h, f) ==
  [regs |-> MeaningOfRegs(h, f.regs), args |-> MeaningOfSlots(h, f.args), ret |-> f.ret]
MeaningOfStack(h, fs) == [k \in DOMAIN fs |-> MeaningOfFrame(h, fs[k])]

\* The values of the variables, which are cells.
StoreOf(h) ==
  [c \in Cells |-> IF h.cell[c] = Null THEN Null ELSE Meaning(h, h.cell[c].target)]

Abstract ==
  INSTANCE RegisterSemantics WITH
    Variables <- Cells,
    store <- StoreOf(heap),
    frames <- MeaningOfStack(heap, frames),
    prepared <- MeaningOfPrepared(heap, prepared),
    tmp <- Meaning(heap, tmp),
    caught <- Meaning(heap, caught)

\* Careful programs see values and variables only: an argument is what it was
\* when passed, references to one object agree, and an object referred to
\* lasts exactly as long as something refers to it (registerset.cpp,
\* reference.cpp, instr/registers.cpp, instr/calls.cpp).
ImplementsRegisterSemantics == Abstract!Spec
=============================================================================
