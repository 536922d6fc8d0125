--------------------------- MODULE OwnershipProofs ---------------------------
(***************************************************************************)
(* Proofs that no object is deleted twice, that References are counted     *)
(* right, and, for programs that do not leak, that every object has one    *)
(* owner, for any number of objects, registers, frames and values.         *)
(*                                                                         *)
(* An instruction changes the heap in several steps: it allocates, deletes *)
(* what a register held, and stores.  Between them an object may be held   *)
(* by no register yet.  Sound says what a heap is like while the program   *)
(* holds a set of objects, wherever it holds them.                         *)
(***************************************************************************)
EXTENDS OwnershipRefinement, FiniteSetTheorems, SequenceTheorems, TLAPS

\* What is assumed of the program, and what of one that does not leak.
Careful == {"flat_references", "lent_untouched", "catch_outside"} \subseteq Rules

Leakless == Rules = OwnershipRules

\* Objects that may be lost.
Lost == IF Leakless THEN {} ELSE Objects

\* The References of cell c.
Referring(h, c) == {o \in Objects : h.obj[o] = <<"reference", c>>}

Targets(h) == {h.cell[c].target : c \in UsedCells(h)}

\* Each cell in use points to a simple object that nothing else holds, and is
\* counted right.
CellsSound(h, held) ==
  \A c \in UsedCells(h) :
    /\ h.cell[c].target \in Live(h) \ held
    /\ ~IsReference(h, h.cell[c].target)
    /\ h.cell[c].count = Cardinality(Referring(h, c))
    /\ \A d \in UsedCells(h) : h.cell[d].target = h.cell[c].target => d = c

\* The heap of a program that holds the objects held and may have lost the
\* objects lost.
Sound(h, held, lost) ==
  /\ h \in Heap
  /\ held \subseteq Live(h)
  /\ CellsSound(h, held)
  /\ \A o \in Live(h) : IsReference(h, o) => CellOf(h, o) \in UsedCells(h)
  /\ Live(h) \subseteq held \cup Targets(h) \cup lost

-----------------------------------------------------------------------------
(***************************************************************************)
(* Objects and their types.                                                *)
(***************************************************************************)
LEMMA HeapFields ==
  ASSUME NEW h \in Heap
  PROVE  /\ h.obj \in [Objects -> Content \cup {Null}]
         /\ h.cell \in [Cells -> Cell \cup {Null}]
         /\ \A o \in Live(h) : o \in Objects /\ o # Null /\ h.obj[o] \in Content
         /\ \A c \in UsedCells(h) : /\ c \in Cells /\ h.cell[c] \in Cell
                                    /\ h.cell[c].target \in Objects \cup {Null}
                                    /\ h.cell[c].count \in Nat \ {0}
BY OwnershipAssumption, NullAssumption DEF Heap, Live, UsedCells, Cell

\* A Reference is what has a cell.
LEMMA ReferenceForm ==
  ASSUME NEW h \in Heap, NEW o \in Objects
  PROVE  /\ IsReference(h, o) => /\ o \in Live(h) /\ CellOf(h, o) \in Cells
                                 /\ h.obj[o] = <<"reference", CellOf(h, o)>>
         /\ \A c \in Cells : h.obj[o] = <<"reference", c>> => IsReference(h, o) /\ CellOf(h, o) = c
         /\ \A v : h.obj[o] = <<"value", v>> => ~IsReference(h, o)
<1>1. h.obj[o] \in Content \cup {Null}
  BY DEF Heap
<1>2. Null # o /\ Null \notin Content
  BY OwnershipAssumption, NullAssumption
<1>3. IsReference(h, o) => /\ o \in Live(h) /\ CellOf(h, o) \in Cells
                           /\ h.obj[o] = <<"reference", CellOf(h, o)>>
  BY <1>1, <1>2 DEF IsReference, CellOf, Live, Content
<1>4. ASSUME NEW c \in Cells, h.obj[o] = <<"reference", c>>
      PROVE  IsReference(h, o) /\ CellOf(h, o) = c
  <2>1. h.obj[o] # Null
    BY <1>2, <1>4 DEF Content
  <2>. QED
    BY <1>2, <1>4, <2>1 DEF IsReference, CellOf
<1>5. \A v : h.obj[o] = <<"value", v>> => ~IsReference(h, o)
  BY DEF IsReference
<1>. QED
  BY <1>3, <1>4, <1>5

LEMMA FiniteReferring ==
  ASSUME NEW h, NEW c
  PROVE  /\ IsFiniteSet(Referring(h, c))
         /\ Cardinality(Referring(h, c)) \in Nat
<1>1. Referring(h, c) \in SUBSET Objects
  BY DEF Referring
<1>. QED
  BY <1>1, OwnershipAssumption, FS_Subset, FS_CardinalityType

\* Finite sets of addresses have a lowest one.
LEMMA LowestExists ==
  ASSUME NEW S \in SUBSET Nat, S # {}
  PROVE  Min(S) \in S
<1>1. \E x \in S : \A y \in S : <<y, x>> \notin OpToRel(<, Nat)
  BY WFMin, NatLessThanWellFounded
<1>2. OpToRel(<, Nat) = {p \in Nat \X Nat : p[1] < p[2]}
  BY Zenon DEF OpToRel
<1>3. \E x \in S : \A y \in S : x <= y
  <2>1. PICK x \in S : \A y \in S : <<y, x>> \notin OpToRel(<, Nat)
    BY <1>1
  <2>2. ASSUME NEW y \in S PROVE x <= y
    <3>1. x \in Nat /\ y \in Nat
      OBVIOUS
    <3>2. <<y, x>> \notin {p \in Nat \X Nat : p[1] < p[2]}
      BY <1>2, <2>1, Zenon
    <3>. QED
      BY <3>1, <3>2
  <2>. QED
    BY <2>2
<1>. QED
  BY <1>3 DEF Min

LEMMA FreshFree ==
  ASSUME NEW h
  PROVE  /\ Objects \ Live(h) # {} => FreshObject(h) \in Objects \ Live(h)
         /\ Cells \ UsedCells(h) # {} => FreshCell(h) \in Cells \ UsedCells(h)
<1>1. Objects \ Live(h) \in SUBSET Nat /\ Cells \ UsedCells(h) \in SUBSET Nat
  BY OwnershipAssumption
<1>. QED
  BY <1>1, LowestExists DEF FreshObject, FreshCell

LEMMA RoomFor ==
  ASSUME NEW m \in Nat, NEW n \in Nat, Room(m, n)
  PROVE  /\ m > 0 => Objects \ Live(heap) # {}
         /\ n > 0 => Cells \ UsedCells(heap) # {}
         /\ m > 1 => \A o : (Objects \ Live(heap)) \ {o} # {}
<1> DEFINE S == Objects \ Live(heap)
           T == Cells \ UsedCells(heap)
<1>1. IsFiniteSet(S) /\ IsFiniteSet(T)
  BY OwnershipAssumption, FS_Subset
<1>2. Cardinality(S) >= m /\ Cardinality(T) >= n
  BY DEF Room
<1> HIDE DEF S, T
<1>3. (m > 0 => S # {}) /\ (n > 0 => T # {})
  BY <1>1, <1>2, FS_EmptySet
<1>4. ASSUME m > 1, NEW o PROVE S \ {o} # {}
  <2>1. Cardinality(S) \in Nat
    BY <1>1, FS_CardinalityType
  <2>2. IsFiniteSet(S \ {o}) /\ Cardinality(S \ {o}) > 0
    BY <1>1, <1>2, <1>4, <2>1, FS_RemoveElement
  <2>. QED
    BY <2>2, FS_EmptySet
<1>. QED
  BY <1>3, <1>4 DEF S, T

-----------------------------------------------------------------------------
(***************************************************************************)
(* New objects.                                                            *)
(***************************************************************************)

\* The heap after `new`.
LEMMA NewObjectForm ==
  ASSUME NEW h \in Heap, NEW content \in Content, Objects \ Live(h) # {}
  PROVE  LET o == FreshObject(h)
             k == NewObject(h, content)
         IN /\ o \in Objects /\ o \notin Live(h) /\ o # Null /\ h.obj[o] = Null
            /\ k \in Heap /\ k.cell = h.cell /\ k.obj[o] = content
            /\ \A x \in Objects \ {o} : k.obj[x] = h.obj[x]
            /\ Live(k) = Live(h) \cup {o}
            /\ UsedCells(k) = UsedCells(h)
            /\ \A x \in Live(h) : IsReference(k, x) <=> IsReference(h, x)
            /\ \A x \in Live(h) : CellOf(k, x) = CellOf(h, x)
<1> DEFINE o == FreshObject(h)
           k == NewObject(h, content)
<1>1. o \in Objects \ Live(h)
  BY FreshFree
<1>2. o # Null /\ h.obj[o] = Null /\ content # Null
  BY <1>1, OwnershipAssumption, NullAssumption DEF Live
<1> HIDE DEF o
<1>3. k = [h EXCEPT !.obj[o] = content]
  BY DEF o, NewObject
<1>4. /\ k \in Heap /\ k.cell = h.cell /\ k.obj[o] = content
      /\ \A x \in Objects \ {o} : k.obj[x] = h.obj[x]
  BY <1>1, <1>3 DEF Heap
<1> HIDE DEF k
<1>5. Live(k) = Live(h) \cup {o} /\ UsedCells(k) = UsedCells(h)
  BY <1>1, <1>2, <1>4 DEF Live, UsedCells
<1>6. \A x \in Live(h) : /\ IsReference(k, x) <=> IsReference(h, x)
                         /\ CellOf(k, x) = CellOf(h, x)
  BY <1>1, <1>4 DEF Live, IsReference, CellOf
<1>. QED
  BY <1>1, <1>2, <1>4, <1>5, <1>6 DEF o, k

\* A new simple object is held, and nothing else changes hands.
LEMMA NewSimpleSound ==
  ASSUME NEW h, NEW held, NEW lost, Sound(h, held, lost),
         NEW content \in {"value"} \X Values, Objects \ Live(h) # {}
  PROVE  Sound(NewObject(h, content), held \cup {FreshObject(h)}, lost)
<1> DEFINE o == FreshObject(h)
           k == NewObject(h, content)
<1>1. h \in Heap /\ content \in Content
  BY DEF Sound, Content
<1>2. /\ o \in Objects /\ o \notin Live(h) /\ o # Null /\ h.obj[o] = Null
      /\ k \in Heap /\ k.cell = h.cell /\ k.obj[o] = content
      /\ \A x \in Objects \ {o} : k.obj[x] = h.obj[x]
      /\ Live(k) = Live(h) \cup {o}
      /\ UsedCells(k) = UsedCells(h)
      /\ \A x \in Live(h) : IsReference(k, x) <=> IsReference(h, x)
      /\ \A x \in Live(h) : CellOf(k, x) = CellOf(h, x)
  BY <1>1, NewObjectForm
<1> HIDE DEF o, k
<1>3. ~IsReference(k, o)
  BY <1>2 DEF IsReference
<1>4. ASSUME NEW c \in UsedCells(h) PROVE Referring(k, c) = Referring(h, c)
  <2>1. k.obj[o] # <<"reference", c>>
    BY <1>2
  <2>2. h.obj[o] # <<"reference", c>>
    BY <1>1, <1>2, NullAssumption DEF Content, UsedCells
  <2>. QED
    BY <1>2, <2>1, <2>2 DEF Referring
<1>5. CellsSound(k, held \cup {o})
  BY <1>2, <1>4 DEF CellsSound, Sound
<1>6. Targets(k) = Targets(h)
  BY <1>2 DEF Targets
<1>7. \A x \in Live(k) : IsReference(k, x) => CellOf(k, x) \in UsedCells(k)
  BY <1>2, <1>3 DEF Sound
<1>. QED
  BY <1>2, <1>5, <1>6, <1>7 DEF Sound, o, k

\* The heap after a copy: a Reference is counted once more.
LEMMA CloneForm ==
  ASSUME NEW h \in Heap, NEW x \in Live(h), Objects \ Live(h) # {},
         IsReference(h, x) => CellOf(h, x) \in UsedCells(h)
  PROVE  LET o == FreshObject(h)
             n == Clone(h, x)
         IN /\ o \in Objects /\ o \notin Live(h) /\ o # Null /\ h.obj[o] = Null
            /\ n \in Heap /\ UsedCells(n) = UsedCells(h) /\ Live(n) = Live(h) \cup {o}
            /\ n.obj[o] = h.obj[x]
            /\ \A y \in Objects \ {o} : n.obj[y] = h.obj[y]
            /\ \A c \in UsedCells(h) :
                 /\ n.cell[c].target = h.cell[c].target
                 /\ n.cell[c].count = IF h.obj[x] = <<"reference", c>>
                                      THEN h.cell[c].count + 1 ELSE h.cell[c].count
            /\ \A y \in Live(h) : /\ IsReference(n, y) <=> IsReference(h, y)
                                  /\ CellOf(n, y) = CellOf(h, y)
            /\ IsReference(n, o) <=> IsReference(h, x)
            /\ CellOf(n, o) = CellOf(h, x)
<1> DEFINE o == FreshObject(h)
           k == NewObject(h, h.obj[x])
           n == Clone(h, x)
<1>1. x \in Objects /\ x # Null /\ h.obj[x] \in Content
  BY HeapFields
<1>2. /\ o \in Objects /\ o \notin Live(h) /\ o # Null /\ h.obj[o] = Null
      /\ k \in Heap /\ k.cell = h.cell /\ k.obj[o] = h.obj[x]
      /\ \A y \in Objects \ {o} : k.obj[y] = h.obj[y]
      /\ Live(k) = Live(h) \cup {o}
      /\ UsedCells(k) = UsedCells(h)
      /\ \A y \in Live(h) : IsReference(k, y) <=> IsReference(h, y)
      /\ \A y \in Live(h) : CellOf(k, y) = CellOf(h, y)
  BY <1>1, NewObjectForm
<1>3. /\ n \in Heap /\ n.obj = k.obj /\ UsedCells(n) = UsedCells(h)
      /\ \A c \in UsedCells(h) :
           /\ n.cell[c].target = h.cell[c].target
           /\ n.cell[c].count = IF h.obj[x] = <<"reference", c>>
                                THEN h.cell[c].count + 1 ELSE h.cell[c].count
  <2>1. CASE ~IsReference(h, x)
    <3>1. n = k
      BY <2>1 DEF Clone
    <3>2. \A c \in UsedCells(h) : h.obj[x] # <<"reference", c>>
      BY <1>1, <2>1, ReferenceForm DEF UsedCells
    <3> HIDE DEF n, k
    <3>. QED
      BY <1>2, <3>1, <3>2
  <2>2. CASE IsReference(h, x)
    <3> DEFINE d == CellOf(h, x)
               cell == [target |-> h.cell[d].target, count |-> h.cell[d].count + 1]
    <3>1. d \in UsedCells(h) /\ \A c \in UsedCells(h) : h.obj[x] = <<"reference", c>> <=> c = d
      BY <1>1, <2>2, ReferenceForm DEF UsedCells
    <3>2. n = [k EXCEPT !.cell[d].count = @ + 1]
      BY <2>2 DEF Clone
    <3> HIDE DEF o, k, n, d
    <3>3. /\ d \in Cells /\ h.cell[d] \in Cell /\ h.cell[d].count \in Nat
          /\ h.cell[d].target \in Objects \cup {Null}
      BY <3>1, HeapFields
    <3>4. k.obj \in [Objects -> Content \cup {Null}] /\ k.cell \in [Cells -> Cell \cup {Null}]
      BY <1>2 DEF Heap
    <3>5. /\ n.obj = k.obj /\ n.cell = [h.cell EXCEPT ![d] = cell]
          /\ n = [obj |-> n.obj, cell |-> n.cell]
      BY <1>2, <3>2, <3>3, <3>4 DEF Heap, Cell
    <3>6. cell \in Cell /\ cell # Null
      BY <3>3, NullAssumption DEF Cell
    <3>7. cell.target = h.cell[d].target /\ cell.count = h.cell[d].count + 1
      OBVIOUS
    <3> HIDE DEF cell
    <3>8. /\ n.cell \in [Cells -> Cell \cup {Null}]
          /\ n.cell[d] = cell /\ \A c \in Cells : c # d => n.cell[c] = h.cell[c]
      BY <1>2, <3>3, <3>4, <3>5, <3>6
    <3>9. n \in Heap
      BY <3>4, <3>5, <3>8 DEF Heap
    <3>10. UsedCells(n) = UsedCells(h)
      BY <3>1, <3>6, <3>8 DEF UsedCells
    <3>11. \A c \in UsedCells(h) : c \in Cells
      BY DEF UsedCells
    <3>. QED
      BY <3>1, <3>5, <3>7, <3>8, <3>9, <3>10, <3>11
  <2>. QED
    BY <2>1, <2>2
<1> HIDE DEF o, k, n
<1>4. Live(n) = Live(h) \cup {o}
  BY <1>2, <1>3 DEF Live
<1>5. \A y \in Live(h) : /\ IsReference(n, y) <=> IsReference(h, y)
                         /\ CellOf(n, y) = CellOf(h, y)
  BY <1>2, <1>3 DEF IsReference, CellOf
<1>6. (IsReference(n, o) <=> IsReference(h, x)) /\ CellOf(n, o) = CellOf(h, x)
  BY <1>1, <1>2, <1>3 DEF IsReference, CellOf
<1>. QED
  BY <1>2, <1>3, <1>4, <1>5, <1>6 DEF o, n

\* A copy of an object, simple or not, is held, and nothing else changes hands.
LEMMA CloneSound ==
  ASSUME NEW h, NEW held, NEW lost, Sound(h, held, lost),
         NEW x \in Live(h), Objects \ Live(h) # {}
  PROVE  Sound(Clone(h, x), held \cup {FreshObject(h)}, lost)
<1> DEFINE o == FreshObject(h)
           n == Clone(h, x)
<1>1. h \in Heap /\ x \in Objects /\ (IsReference(h, x) => CellOf(h, x) \in UsedCells(h))
  BY DEF Sound, Live
<1>2. /\ o \in Objects /\ o \notin Live(h) /\ o # Null /\ h.obj[o] = Null
      /\ n \in Heap /\ UsedCells(n) = UsedCells(h) /\ Live(n) = Live(h) \cup {o}
      /\ n.obj[o] = h.obj[x]
      /\ \A y \in Objects \ {o} : n.obj[y] = h.obj[y]
      /\ \A c \in UsedCells(h) :
           /\ n.cell[c].target = h.cell[c].target
           /\ n.cell[c].count = IF h.obj[x] = <<"reference", c>>
                                THEN h.cell[c].count + 1 ELSE h.cell[c].count
      /\ \A y \in Live(h) : /\ IsReference(n, y) <=> IsReference(h, y)
                            /\ CellOf(n, y) = CellOf(h, y)
      /\ IsReference(n, o) <=> IsReference(h, x)
      /\ CellOf(n, o) = CellOf(h, x)
  BY <1>1, CloneForm
<1> HIDE DEF o, n
<1>3. ASSUME NEW c \in UsedCells(h) PROVE n.cell[c].count = Cardinality(Referring(n, c))
  <2>1. h.cell[c].count = Cardinality(Referring(h, c)) /\ c \in Cells
    BY DEF Sound, CellsSound, UsedCells
  <2>2. h.obj[o] # <<"reference", c>>
    BY <1>2, <2>1, NullAssumption DEF Content
  <2>3. o \notin Referring(h, c)
    BY <2>2 DEF Referring
  <2>4. CASE h.obj[x] = <<"reference", c>>
    <3>1. Referring(n, c) = Referring(h, c) \cup {o}
      BY <1>2, <2>4 DEF Referring
    <3>2. IsFiniteSet(Referring(h, c))
      BY FiniteReferring
    <3>3. Cardinality(Referring(n, c)) = Cardinality(Referring(h, c)) + 1
      BY <2>3, <3>1, <3>2, FS_AddElement
    <3>4. n.cell[c].count = h.cell[c].count + 1
      BY <1>2, <2>4
    <3>. QED
      BY <2>1, <3>3, <3>4
  <2>5. CASE h.obj[x] # <<"reference", c>>
    <3>1. Referring(n, c) = Referring(h, c)
      BY <1>2, <2>2, <2>5 DEF Referring
    <3>. QED
      BY <1>2, <2>1, <2>5, <3>1
  <2>. QED
    BY <2>4, <2>5
<1>4. CellsSound(n, held \cup {o})
  BY <1>2, <1>3 DEF Sound, CellsSound
<1>5. \A y \in Live(n) : IsReference(n, y) => CellOf(n, y) \in UsedCells(n)
  BY <1>1, <1>2 DEF Sound
<1>6. Targets(n) = Targets(h)
  BY <1>2 DEF Targets
<1>7. Sound(n, held \cup {o}, lost)
  BY <1>2, <1>4, <1>5, <1>6 DEF Sound
<1>. QED
  BY <1>7 DEF n, o

\* The heap after `new Reference(x)`.
LEMMA NewReferenceForm ==
  ASSUME NEW h \in Heap, NEW x \in Objects \cup {Null},
         Objects \ Live(h) # {}, Cells \ UsedCells(h) # {}
  PROVE  LET o == FreshObject(h)
             c == FreshCell(h)
             n == NewReference(h, x)
         IN /\ o \in Objects /\ o \notin Live(h) /\ o # Null /\ h.obj[o] = Null
            /\ c \in Cells /\ c \notin UsedCells(h)
            /\ n \in Heap
            /\ n.obj[o] = <<"reference", c>>
            /\ \A y \in Objects \ {o} : n.obj[y] = h.obj[y]
            /\ n.cell[c] = [target |-> x, count |-> 1]
            /\ \A d \in Cells \ {c} : n.cell[d] = h.cell[d]
            /\ Live(n) = Live(h) \cup {o}
            /\ UsedCells(n) = UsedCells(h) \cup {c}
            /\ \A y \in Live(h) : IsReference(n, y) <=> IsReference(h, y)
            /\ \A y \in Live(h) : CellOf(n, y) = CellOf(h, y)
            /\ IsReference(n, o) /\ CellOf(n, o) = c
<1> DEFINE o == FreshObject(h)
           c == FreshCell(h)
           content == <<"reference", c>>
           k == NewObject(h, content)
           n == NewReference(h, x)
           cell == [target |-> x, count |-> 1]
<1>1. c \in Cells /\ c \notin UsedCells(h) /\ content \in Content
  BY FreshFree DEF Content
<1> HIDE DEF c
<1>2. /\ o \in Objects /\ o \notin Live(h) /\ o # Null /\ h.obj[o] = Null
      /\ k \in Heap /\ k.cell = h.cell /\ k.obj[o] = content
      /\ \A y \in Objects \ {o} : k.obj[y] = h.obj[y]
      /\ Live(k) = Live(h) \cup {o}
      /\ UsedCells(k) = UsedCells(h)
      /\ \A y \in Live(h) : IsReference(k, y) <=> IsReference(h, y)
      /\ \A y \in Live(h) : CellOf(k, y) = CellOf(h, y)
  BY <1>1, NewObjectForm
<1>3. n = [k EXCEPT !.cell[c] = cell]
  BY DEF NewReference, c
<1>4. cell \in Cell /\ cell # Null
  BY NullAssumption DEF Cell
<1> HIDE DEF o, k, n, cell
<1>5. k.obj \in [Objects -> Content \cup {Null}] /\ k.cell \in [Cells -> Cell \cup {Null}]
  BY <1>2 DEF Heap
<1>6. n \in Heap /\ n.obj = k.obj /\ n.cell = [k.cell EXCEPT ![c] = cell]
  BY <1>1, <1>2, <1>3, <1>4 DEF Heap
<1>7. /\ Live(n) = Live(h) \cup {o} /\ UsedCells(n) = UsedCells(h) \cup {c}
      /\ n.cell[c] = cell
      /\ \A d \in Cells \ {c} : n.cell[d] = h.cell[d]
  BY <1>1, <1>2, <1>4, <1>5, <1>6 DEF Live, UsedCells
<1>8. \A y \in Live(h) : /\ IsReference(n, y) <=> IsReference(h, y)
                         /\ CellOf(n, y) = CellOf(h, y)
  BY <1>2, <1>6 DEF IsReference, CellOf
<1>9. IsReference(n, o) /\ CellOf(n, o) = c
  BY <1>1, <1>2, <1>6, ReferenceForm
<1>. QED
  BY <1>1, <1>2, <1>6, <1>7, <1>8, <1>9 DEF o, c, n, cell

\* The program holds the Reference instead of the object.
LEMMA NewReferenceSound ==
  ASSUME NEW h, NEW held, NEW lost, Sound(h, held, lost),
         NEW x \in held, ~IsReference(h, x),
         Objects \ Live(h) # {}, Cells \ UsedCells(h) # {}
  PROVE  Sound(NewReference(h, x), (held \ {x}) \cup {FreshObject(h)}, lost)
<1> DEFINE o == FreshObject(h)
           c == FreshCell(h)
           n == NewReference(h, x)
           now == (held \ {x}) \cup {o}
<1>1. h \in Heap /\ x \in Live(h) /\ x \in Objects
  BY DEF Sound, Live
<1>2. /\ o \in Objects /\ o \notin Live(h) /\ o # Null /\ h.obj[o] = Null
      /\ c \in Cells /\ c \notin UsedCells(h)
      /\ n \in Heap
      /\ n.obj[o] = <<"reference", c>>
      /\ \A y \in Objects \ {o} : n.obj[y] = h.obj[y]
      /\ n.cell[c] = [target |-> x, count |-> 1]
      /\ \A d \in Cells \ {c} : n.cell[d] = h.cell[d]
      /\ Live(n) = Live(h) \cup {o}
      /\ UsedCells(n) = UsedCells(h) \cup {c}
      /\ \A y \in Live(h) : IsReference(n, y) <=> IsReference(h, y)
      /\ \A y \in Live(h) : CellOf(n, y) = CellOf(h, y)
      /\ IsReference(n, o) /\ CellOf(n, o) = c
  BY <1>1, NewReferenceForm
<1> HIDE DEF o, c, n
<1>3. Referring(n, c) = {o}
  <2>1. ASSUME NEW y \in Objects, h.obj[y] = <<"reference", c>> PROVE FALSE
    <3>1. IsReference(h, y) /\ CellOf(h, y) = c /\ y \in Live(h)
      BY <1>1, <1>2, <2>1, ReferenceForm
    <3>. QED
      BY <1>2, <3>1 DEF Sound
  <2>. QED
    BY <1>2, <2>1 DEF Referring
<1>4. \A d \in UsedCells(h) : Referring(n, d) = Referring(h, d)
  <2> SUFFICES ASSUME NEW d \in UsedCells(h) PROVE Referring(n, d) = Referring(h, d)
    OBVIOUS
  <2>1. n.obj[o] # <<"reference", d>>
    BY <1>2
  <2>2. h.obj[o] # <<"reference", d>>
    BY <1>1, <1>2, NullAssumption DEF Content, UsedCells
  <2>. QED
    BY <1>2, <2>1, <2>2 DEF Referring
<1>5. \A d \in UsedCells(h) : d \in Cells /\ d # c /\ n.cell[d] = h.cell[d]
  BY <1>2 DEF UsedCells
<1>6. CellsSound(n, now)
  <2> SUFFICES ASSUME NEW d \in UsedCells(n)
               PROVE  /\ n.cell[d].target \in Live(n) \ now
                      /\ ~IsReference(n, n.cell[d].target)
                      /\ n.cell[d].count = Cardinality(Referring(n, d))
                      /\ \A e \in UsedCells(n) :
                           n.cell[e].target = n.cell[d].target => e = d
    BY DEF CellsSound
  <2>1. \A e \in UsedCells(h) : n.cell[e].target \in Live(h) \ held
    BY <1>5 DEF Sound, CellsSound
  <2>2. CASE d = c
    <3>1. Cardinality(Referring(n, c)) = 1
      BY <1>3, FS_Singleton
    <3>. QED
      BY <1>1, <1>2, <2>1, <2>2, <3>1
  <2>3. CASE d # c
    <3>1. d \in UsedCells(h)
      BY <1>2, <2>3
    <3>2. /\ h.cell[d].target \in Live(h) \ held
          /\ ~IsReference(h, h.cell[d].target)
          /\ h.cell[d].count = Cardinality(Referring(h, d))
          /\ \A e \in UsedCells(h) : h.cell[e].target = h.cell[d].target => e = d
      BY <3>1 DEF Sound, CellsSound
    <3>. QED
      BY <1>2, <1>4, <1>5, <3>1, <3>2
  <2>. QED
    BY <2>2, <2>3
<1>7. Targets(n) = Targets(h) \cup {x}
  BY <1>2, <1>5 DEF Targets
<1>8. \A y \in Live(n) : IsReference(n, y) => CellOf(n, y) \in UsedCells(n)
  BY <1>2 DEF Sound
<1>9. now \subseteq Live(n) /\ Live(n) \subseteq now \cup Targets(n) \cup lost
  BY <1>2, <1>7 DEF Sound
<1>. QED
  BY <1>2, <1>6, <1>8, <1>9 DEF Sound, n, o

-----------------------------------------------------------------------------
(***************************************************************************)
(* Deleted objects.                                                        *)
(***************************************************************************)

\* Deleting held objects leaves the others as they are: a cell goes with its
\* last Reference and takes its target along.
LEMMA DeleteAllSound ==
  ASSUME NEW h, NEW held, NEW lost, Sound(h, held, lost), NEW S \in SUBSET held
  PROVE  /\ Sound(DeleteAll(h, S), held \ S, lost)
         /\ \A o \in Objects \ S : o \notin Targets(h) => DeleteAll(h, S).obj[o] = h.obj[o]
<1> DEFINE n == DeleteAll(h, S)
           empty == {c \in UsedCells(h) : Referring(h, c) \subseteq S}
           gone == S \cup {h.cell[c].target : c \in empty}
<1>1. h \in Heap /\ S \subseteq Objects /\ S \subseteq Live(h)
  BY DEF Sound, Live
<1>2. ASSUME NEW c \in UsedCells(h)
      PROVE  /\ c \in Emptied(h, S) <=> c \in empty
             /\ h.cell[c].count - Dropped(h, S, c) = Cardinality(Referring(h, c) \ S)
             /\ c \notin empty => h.cell[c].count - Dropped(h, S, c) \in Nat \ {0}
  <2> DEFINE R == Referring(h, c)
             D == {o \in S : h.obj[o] = <<"reference", c>>}
  <2>1. IsFiniteSet(R) /\ Cardinality(R) \in Nat /\ h.cell[c].count = Cardinality(R)
    BY FiniteReferring DEF Sound, CellsSound
  <2>2. D = R \cap S /\ D \in SUBSET R
    BY <1>1 DEF Referring
  <2>3. Dropped(h, S, c) = Cardinality(D)
    BY DEF Dropped
  <2>4. c \in empty <=> R \subseteq S
    OBVIOUS
  <2> HIDE DEF R, D
  <2>5. /\ IsFiniteSet(D) /\ Cardinality(D) \in Nat /\ Cardinality(D) <= Cardinality(R)
        /\ Cardinality(R) = Cardinality(D) => R = D
    BY <2>1, <2>2, FS_Subset, FS_CardinalityType
  <2>6. Cardinality(R \ S) = Cardinality(R) - Cardinality(D)
    BY <2>1, <2>2, FS_Difference
  <2>7. c \in Emptied(h, S) <=> Cardinality(R) <= Cardinality(D)
    BY <2>1, <2>3 DEF Emptied
  <2>8. Cardinality(R) <= Cardinality(D) <=> R \subseteq S
    BY <2>1, <2>2, <2>5
  <2>. QED
    BY <2>1, <2>3, <2>4, <2>5, <2>6, <2>7, <2>8 DEF R
<1>3. Emptied(h, S) = empty
  BY <1>2 DEF Emptied
<1> HIDE DEF empty
<1>4. n = [obj |-> [o \in Objects |-> IF o \in gone THEN Null ELSE h.obj[o]],
           cell |-> [c \in Cells |->
                       IF c \in empty \/ h.cell[c] = Null THEN Null
                       ELSE [h.cell[c] EXCEPT !.count = @ - Dropped(h, S, c)]]]
  BY <1>3 DEF DeleteAll
<1> HIDE DEF n
<1>5. \A o \in Objects : n.obj[o] = IF o \in gone THEN Null ELSE h.obj[o]
  BY <1>4
<1>6. ASSUME NEW c \in UsedCells(h) \ empty
      PROVE  /\ n.cell[c].target = h.cell[c].target
             /\ n.cell[c].count = Cardinality(Referring(h, c) \ S)
             /\ n.cell[c] \in Cell
  <2>1. c \in Cells /\ h.cell[c] \in Cell /\ h.cell[c] # Null
    BY <1>1, HeapFields DEF UsedCells
  <2>2. n.cell[c] = [h.cell[c] EXCEPT !.count = @ - Dropped(h, S, c)]
    BY <1>4, <2>1
  <2>3. h.cell[c].count - Dropped(h, S, c) \in Nat \ {0}
    BY <1>2
  <2>. QED
    BY <1>2, <2>1, <2>2, <2>3 DEF Cell
<1>7. n.cell \in [Cells -> Cell \cup {Null}] /\ UsedCells(n) = UsedCells(h) \ empty
  <2>1. \A c \in Cells : c \notin UsedCells(h) \ empty => n.cell[c] = Null
    BY <1>4 DEF UsedCells
  <2>2. DOMAIN n.cell = Cells /\ n.cell = [c \in Cells |-> n.cell[c]]
    BY <1>4
  <2>3. \A c \in UsedCells(h) \ empty : n.cell[c] \in Cell /\ n.cell[c] # Null
    BY <1>6, NullAssumption
  <2>4. \A c \in Cells : n.cell[c] \in Cell \cup {Null}
    BY <2>1, <2>3
  <2>5. n.cell \in [Cells -> Cell \cup {Null}]
    BY <2>2, <2>4
  <2>6. UsedCells(n) = UsedCells(h) \ empty
    BY <2>1, <2>3 DEF UsedCells
  <2>. QED
    BY <2>5, <2>6
<1>8. n.obj \in [Objects -> Content \cup {Null}]
  BY <1>1, <1>4 DEF Heap
<1>9. n \in Heap
  <2>1. n = [obj |-> n.obj, cell |-> n.cell]
    BY <1>4
  <2>. QED
    BY <1>7, <1>8, <2>1 DEF Heap
<1>10. /\ Live(n) = Live(h) \ gone
       /\ \A o \in Live(n) : /\ n.obj[o] = h.obj[o]
                             /\ IsReference(n, o) <=> IsReference(h, o)
                             /\ CellOf(n, o) = CellOf(h, o)
  BY <1>5 DEF Live, IsReference, CellOf
<1>11. empty \subseteq UsedCells(h)
  BY DEF empty
<1>12. \A c \in empty : h.cell[c].target \in Live(h) \ held /\ ~IsReference(h, h.cell[c].target)
  BY <1>11 DEF Sound, CellsSound
<1>13. ASSUME NEW c \in UsedCells(n) PROVE Referring(n, c) = Referring(h, c) \ S
  <2>1. c \in Cells
    BY DEF UsedCells
  <2>2. ASSUME NEW o \in Objects, h.obj[o] = <<"reference", c>>, o \notin S
        PROVE  o \notin gone
    <3>1. IsReference(h, o)
      BY <1>1, <2>1, <2>2, ReferenceForm
    <3>. QED
      BY <1>12, <2>2, <3>1
  <2>3. Null # <<"reference", c>>
    BY <2>1, NullAssumption DEF Content
  <2>. QED
    BY <1>5, <2>2, <2>3 DEF Referring
<1>14. CellsSound(n, held \ S)
  <2> SUFFICES ASSUME NEW c \in UsedCells(n)
               PROVE  /\ n.cell[c].target \in Live(n) \ (held \ S)
                      /\ ~IsReference(n, n.cell[c].target)
                      /\ n.cell[c].count = Cardinality(Referring(n, c))
                      /\ \A d \in UsedCells(n) :
                           n.cell[d].target = n.cell[c].target => d = c
    BY DEF CellsSound
  <2>1. c \in UsedCells(h) \ empty
    BY <1>7
  <2>2. /\ h.cell[c].target \in Live(h) \ held
        /\ ~IsReference(h, h.cell[c].target)
        /\ \A d \in UsedCells(h) : h.cell[d].target = h.cell[c].target => d = c
    BY <2>1 DEF Sound, CellsSound
  <2>3. h.cell[c].target \notin gone
    BY <1>11, <2>1, <2>2
  <2>4. n.cell[c].target = h.cell[c].target
    BY <1>6, <2>1
  <2>5. \A d \in UsedCells(n) : d \in UsedCells(h) /\ n.cell[d].target = h.cell[d].target
    BY <1>6, <1>7
  <2>6. n.cell[c].count = Cardinality(Referring(n, c))
    BY <1>6, <1>13, <2>1
  <2>. QED
    BY <1>10, <2>2, <2>3, <2>4, <2>5, <2>6
<1>15. \A o \in Live(n) : IsReference(n, o) => CellOf(n, o) \in UsedCells(n)
  <2> SUFFICES ASSUME NEW o \in Live(n), IsReference(n, o)
               PROVE  CellOf(n, o) \in UsedCells(h) \ empty
    BY <1>7
  <2>1. o \in Objects /\ o \notin S /\ o \in Live(h) /\ IsReference(h, o) /\ CellOf(n, o) = CellOf(h, o)
    BY <1>10 DEF Live
  <2>2. o \in Referring(h, CellOf(h, o)) /\ CellOf(h, o) \in UsedCells(h)
    BY <1>1, <2>1, ReferenceForm DEF Referring, Sound
  <2>. QED
    BY <2>1, <2>2 DEF empty
<1>16. held \ S \subseteq Live(n)
  BY <1>10, <1>12 DEF Sound
<1>17. Live(n) \subseteq (held \ S) \cup Targets(n) \cup lost
  <2> SUFFICES ASSUME NEW o \in Live(n), o \notin held, o \notin lost PROVE o \in Targets(n)
    BY <1>10
  <2>1. PICK c \in UsedCells(h) : h.cell[c].target = o
    BY <1>10 DEF Sound, Targets
  <2>2. c \in UsedCells(n) /\ n.cell[c].target = o
    BY <1>6, <1>7, <1>10, <2>1
  <2>. QED
    BY <2>2 DEF Targets
<1>18. \A o \in Objects \ S : o \notin Targets(h) => n.obj[o] = h.obj[o]
  BY <1>5, <1>11 DEF Targets
<1>. QED
  BY <1>9, <1>14, <1>15, <1>16, <1>17, <1>18 DEF Sound, n

LEMMA DeleteSound ==
  ASSUME NEW h, NEW held, NEW lost, Sound(h, held, lost), NEW x \in held
  PROVE  Sound(Delete(h, x), held \ {x}, lost)
<1>1. x # Null
  BY OwnershipAssumption DEF Sound, Live
<1>2. {x} \ {Null} = {x} /\ {x} \in SUBSET held
  BY <1>1
<1>. QED
  BY <1>2, DeleteAllSound DEF Delete

\* Deleting an object that is no Reference changes nothing but the object.
LEMMA DeleteSimpleForm ==
  ASSUME NEW h \in Heap, NEW x \in Objects \cup {Null}, ~IsReference(h, x)
  PROVE  LET n == Delete(h, x)
         IN /\ n \in Heap /\ n.cell = h.cell /\ UsedCells(n) = UsedCells(h)
            /\ Live(n) = Live(h) \ {x}
            /\ \A y \in Objects : n.obj[y] = IF y = x THEN Null ELSE h.obj[y]
<1> DEFINE S == {x} \ {Null}
           n == Delete(h, x)
<1>1. Null \notin Objects
  BY OwnershipAssumption
<1>2. ASSUME NEW c \in UsedCells(h)
      PROVE  /\ Dropped(h, S, c) = 0 /\ c \notin Emptied(h, S)
             /\ h.cell[c] \in Cell
             /\ [h.cell[c] EXCEPT !.count = @ - Dropped(h, S, c)] = h.cell[c]
  <2>1. c \in Cells /\ h.cell[c] \in Cell /\ h.cell[c].count \in Nat \ {0}
    BY HeapFields
  <2>2. {o \in S : h.obj[o] = <<"reference", c>>} = {}
    BY <2>1, ReferenceForm
  <2>3. Dropped(h, S, c) = 0
    BY <2>2, FS_EmptySet DEF Dropped
  <2>4. c \notin Emptied(h, S)
    BY <2>1, <2>3 DEF Emptied
  <2>5. [h.cell[c] EXCEPT !.count = @ - 0] = h.cell[c]
    BY <2>1 DEF Cell
  <2>. QED
    BY <2>1, <2>3, <2>4, <2>5
<1>3. Emptied(h, S) = {}
  BY <1>2 DEF Emptied
<1>4. /\ n.obj = [o \in Objects |-> IF o \in S THEN Null ELSE h.obj[o]]
      /\ n.cell = [c \in Cells |-> IF h.cell[c] = Null THEN Null
                                   ELSE [h.cell[c] EXCEPT !.count = @ - Dropped(h, S, c)]]
      /\ n = [obj |-> n.obj, cell |-> n.cell]
  BY <1>3 DEF Delete, DeleteAll
<1> HIDE DEF n
<1>5. n.cell = h.cell
  <2>1. h.cell \in [Cells -> Cell \cup {Null}]
    BY DEF Heap
  <2>2. \A c \in Cells : n.cell[c] = h.cell[c]
    BY <1>2, <1>4 DEF UsedCells
  <2>3. n.cell = [c \in Cells |-> n.cell[c]]
    BY <1>4
  <2>4. h.cell = [c \in Cells |-> h.cell[c]]
    BY <2>1
  <2>. QED
    BY <2>2, <2>3, <2>4
<1>6. \A y \in Objects : n.obj[y] = IF y = x THEN Null ELSE h.obj[y]
  BY <1>1, <1>4
<1>7. n \in Heap
  BY <1>4, <1>5 DEF Heap
<1>8. Live(n) = Live(h) \ {x} /\ UsedCells(n) = UsedCells(h)
  BY <1>5, <1>6 DEF Live, UsedCells
<1>. QED
  BY <1>5, <1>6, <1>7, <1>8 DEF n

\* The heap after a write through a Reference of cell c.
LEMMA RebindForm ==
  ASSUME NEW h \in Heap, NEW c \in UsedCells(h), NEW o \in Objects,
         ~IsReference(h, h.cell[c].target)
  PROVE  LET n == Rebind(h, c, o)
         IN /\ n \in Heap /\ UsedCells(n) = UsedCells(h)
            /\ Live(n) = Live(h) \ {h.cell[c].target}
            /\ \A y \in Objects : n.obj[y] = IF y = h.cell[c].target THEN Null ELSE h.obj[y]
            /\ n.cell[c] = [target |-> o, count |-> h.cell[c].count]
            /\ \A d \in Cells \ {c} : n.cell[d] = h.cell[d]
<1> DEFINE t == h.cell[c].target
           k == Delete(h, t)
           n == Rebind(h, c, o)
           cell == [target |-> o, count |-> h.cell[c].count]
<1>1. /\ c \in Cells /\ h.cell[c] \in Cell /\ t \in Objects \cup {Null}
      /\ h.cell[c].count \in Nat \ {0}
  BY HeapFields
<1>2. /\ k \in Heap /\ k.cell = h.cell /\ UsedCells(k) = UsedCells(h)
      /\ Live(k) = Live(h) \ {t}
      /\ \A y \in Objects : k.obj[y] = IF y = t THEN Null ELSE h.obj[y]
  BY <1>1, DeleteSimpleForm
<1>3. n = [k EXCEPT !.cell[c].target = o]
  BY DEF Rebind
<1>4. cell \in Cell /\ cell # Null
  BY <1>1, NullAssumption DEF Cell
<1> HIDE DEF t, k, n
<1>5. k.obj \in [Objects -> Content \cup {Null}] /\ k.cell \in [Cells -> Cell \cup {Null}]
  BY <1>2 DEF Heap
<1>6. n \in Heap /\ n.obj = k.obj /\ n.cell = [h.cell EXCEPT ![c] = cell]
  <2>1. n.obj = k.obj /\ n.cell = [h.cell EXCEPT ![c] = cell] /\ n = [obj |-> n.obj, cell |-> n.cell]
    BY <1>1, <1>2, <1>3, <1>5 DEF Heap, Cell
  <2> HIDE DEF cell
  <2>2. n.cell \in [Cells -> Cell \cup {Null}]
    BY <1>1, <1>2, <1>4, <1>5, <2>1
  <2>. QED
    BY <1>5, <2>1, <2>2 DEF Heap
<1>7. /\ Live(n) = Live(k) /\ UsedCells(n) = UsedCells(h)
      /\ n.cell[c] = cell /\ \A d \in Cells \ {c} : n.cell[d] = h.cell[d]
  <2>1. n.cell[c] = cell /\ \A d \in Cells \ {c} : n.cell[d] = h.cell[d]
    BY <1>1, <1>2, <1>5, <1>6
  <2> HIDE DEF cell
  <2>. QED
    BY <1>4, <1>6, <2>1 DEF Live, UsedCells
<1>. QED
  BY <1>2, <1>6, <1>7 DEF t, n

\* The cell owns the object from then on.
LEMMA RebindSound ==
  ASSUME NEW h, NEW held, NEW lost, Sound(h, held, lost),
         NEW c \in UsedCells(h), NEW o \in held, ~IsReference(h, o)
  PROVE  Sound(Rebind(h, c, o), held \ {o}, lost)
<1> DEFINE t == h.cell[c].target
           n == Rebind(h, c, o)
<1>1. /\ h \in Heap /\ o \in Objects /\ o \in Live(h)
      /\ t \in Live(h) \ held /\ ~IsReference(h, t) /\ c \in Cells
  BY DEF Sound, CellsSound, Live, UsedCells
<1>2. /\ n \in Heap /\ UsedCells(n) = UsedCells(h)
      /\ Live(n) = Live(h) \ {t}
      /\ \A y \in Objects : n.obj[y] = IF y = t THEN Null ELSE h.obj[y]
      /\ n.cell[c] = [target |-> o, count |-> h.cell[c].count]
      /\ \A d \in Cells \ {c} : n.cell[d] = h.cell[d]
  BY <1>1, RebindForm
<1> HIDE DEF n
<1>3. ASSUME NEW d \in UsedCells(h) PROVE Referring(n, d) = Referring(h, d)
  <2>1. h.obj[t] # <<"reference", d>> /\ Null # <<"reference", d>>
    BY <1>1, ReferenceForm, NullAssumption DEF UsedCells, Live, Content
  <2> HIDE DEF t
  <2>. QED
    BY <1>2, <2>1 DEF Referring
<1>4. \A y \in Live(n) : /\ IsReference(n, y) <=> IsReference(h, y)
                         /\ CellOf(n, y) = CellOf(h, y) /\ y \in Live(h)
  BY <1>2 DEF Live, IsReference, CellOf
<1>5. \A d \in UsedCells(h) :
        /\ h.cell[d].target \in Live(h) \ held
        /\ ~IsReference(h, h.cell[d].target)
        /\ h.cell[d].count = Cardinality(Referring(h, d))
        /\ \A e \in UsedCells(h) : h.cell[e].target = h.cell[d].target => e = d
  BY DEF Sound, CellsSound
<1>6. \A d \in UsedCells(h) :
        n.cell[d] = IF d = c THEN [target |-> o, count |-> h.cell[c].count] ELSE h.cell[d]
  BY <1>2 DEF UsedCells
<1>7. CellsSound(n, held \ {o})
  <2> SUFFICES ASSUME NEW d \in UsedCells(h)
               PROVE  /\ n.cell[d].target \in Live(n) \ (held \ {o})
                      /\ ~IsReference(n, n.cell[d].target)
                      /\ n.cell[d].count = Cardinality(Referring(n, d))
                      /\ \A e \in UsedCells(h) :
                           n.cell[e].target = n.cell[d].target => e = d
    BY <1>2 DEF CellsSound
  <2>1. n.cell[d].count = Cardinality(Referring(n, d))
    BY <1>3, <1>5, <1>6
  <2>2. CASE d = c
    <3>1. n.cell[d].target = o /\ o \in Live(n)
      BY <1>1, <1>2, <1>6, <2>2
    <3>. QED
      BY <1>4, <1>5, <1>6, <2>1, <2>2, <3>1
  <2>3. CASE d # c
    <3>1. n.cell[d].target = h.cell[d].target /\ h.cell[d].target # t
      BY <1>5, <1>6, <2>3
    <3>. QED
      BY <1>2, <1>4, <1>5, <1>6, <2>1, <2>3, <3>1
  <2>. QED
    BY <2>2, <2>3
<1>8. Live(n) \subseteq (held \ {o}) \cup Targets(n) \cup lost
  <2> SUFFICES ASSUME NEW y \in Live(n), y \notin held \ {o}, y \notin lost PROVE y \in Targets(n)
    OBVIOUS
  <2>1. CASE y = o
    BY <1>2, <2>1 DEF Targets
  <2>2. CASE y # o
    <3>1. PICK d \in UsedCells(h) : h.cell[d].target = y
      BY <1>4, <2>2 DEF Sound, Targets
    <3>2. d # c
      BY <1>2, <3>1
    <3>. QED
      BY <1>2, <1>6, <3>1, <3>2 DEF Targets
  <2>. QED
    BY <2>1, <2>2
<1>9. held \ {o} \subseteq Live(n)
  BY <1>1, <1>2 DEF Sound
<1>10. \A y \in Live(n) : IsReference(n, y) => CellOf(n, y) \in UsedCells(n)
  BY <1>2, <1>4 DEF Sound
<1>. QED
  BY <1>2, <1>7, <1>8, <1>9, <1>10 DEF Sound, n

\* An object may be changed in place if it is simple.
LEMMA ModifySound ==
  ASSUME NEW h, NEW held, NEW lost, Sound(h, held, lost),
         NEW x \in Live(h), ~IsReference(h, x), NEW content \in {"value"} \X Values
  PROVE  Sound([h EXCEPT !.obj[x] = content], held, lost)
<1> DEFINE n == [h EXCEPT !.obj[x] = content]
<1>1. h \in Heap /\ x \in Objects /\ h.obj[x] # Null /\ content \in Content /\ content # Null
  BY NullAssumption DEF Sound, Live, Content
<1>2. /\ n \in Heap /\ n.cell = h.cell
      /\ \A y \in Objects : n.obj[y] = IF y = x THEN content ELSE h.obj[y]
  BY <1>1 DEF Heap
<1> HIDE DEF n
<1>3. /\ Live(n) = Live(h) /\ UsedCells(n) = UsedCells(h)
      /\ \A y \in Live(h) : /\ IsReference(n, y) <=> IsReference(h, y)
                            /\ y # x => CellOf(n, y) = CellOf(h, y)
  BY <1>1, <1>2 DEF Live, UsedCells, IsReference, CellOf
<1>4. ASSUME NEW d \in UsedCells(h) PROVE Referring(n, d) = Referring(h, d)
  <2>1. h.obj[x] # <<"reference", d>> /\ content # <<"reference", d>>
    BY <1>1, ReferenceForm DEF UsedCells
  <2>. QED
    BY <1>2, <2>1 DEF Referring
<1>5. CellsSound(n, held) /\ Targets(n) = Targets(h)
  BY <1>2, <1>3, <1>4 DEF Sound, CellsSound, Targets
<1>. QED
  BY <1>2, <1>3, <1>5 DEF Sound, n

\* Whoever forgets objects loses them.
LEMMA ForgetSound ==
  ASSUME NEW h, NEW held, NEW lost, Sound(h, held, lost), NEW now \in SUBSET held,
         now = held \/ lost = Objects
  PROVE  Sound(h, now, lost)
BY DEF Sound, CellsSound, Live

-----------------------------------------------------------------------------
(***************************************************************************)
(* Registers of one frame.                                                 *)
(***************************************************************************)
Contents(regs) == {regs[i] : i \in Registers} \ {Null}

\* No two registers hold the same object.
Distinct(regs) == \A i, j \in Registers : regs[i] = regs[j] /\ regs[i] # Null => i = j

\* Cells point to simple objects.
Flat(h) ==
  \A c \in UsedCells(h) : h.cell[c].target # Null /\ ~IsReference(h, h.cell[c].target)

LEMMA ContentsMember ==
  ASSUME NEW regs \in RegisterSet
  PROVE  /\ \A i \in Registers : regs[i] # Null => regs[i] \in Contents(regs)
         /\ \A o \in Contents(regs) : o \in Objects /\ o # Null /\ \E i \in Registers : regs[i] = o
         /\ \A i \in Registers : regs[i] \in Objects \cup {Null}
BY OwnershipAssumption DEF RegisterSet, Contents

\* Register i gets the object o in place of what it held.
LEMMA PutForm ==
  ASSUME NEW regs \in RegisterSet, NEW i \in Registers, NEW o \in Objects \cup {Null}
  PROVE  /\ [regs EXCEPT ![i] = o] \in RegisterSet
         /\ \A j \in Registers : [regs EXCEPT ![i] = o][j] = IF j = i THEN o ELSE regs[j]
BY DEF RegisterSet

LEMMA PutDistinct ==
  ASSUME NEW regs \in RegisterSet, Distinct(regs), NEW i \in Registers,
         NEW o \in Objects \cup {Null}, o \notin Contents(regs),
         NEW now, \A j \in Registers : now[j] = IF j = i THEN o ELSE regs[j]
  PROVE  /\ Distinct(now)
         /\ Contents(now) = ((Contents(regs) \ {regs[i]}) \cup {o}) \ {Null}
<1>1. \A j \in Registers : j # i => regs[j] = Null \/ regs[j] # o
  BY ContentsMember
<1>2. Distinct(now)
  BY <1>1 DEF Distinct
<1>3. Contents(now) = ((Contents(regs) \ {regs[i]}) \cup {o}) \ {Null}
  BY DEF Contents, Distinct
<1>. QED
  BY <1>2, <1>3

\* The register sets of the running function and of its caller are changed by
\* RegisterSet::set, which deletes what the register held, or what its
\* Reference refers to.  Others are the objects held elsewhere.
LEMMA SetSound ==
  ASSUME NEW h, NEW regs \in RegisterSet, NEW others, NEW lost, NEW i \in Registers,
         NEW o \in Objects, o \notin others, o \notin Contents(regs),
         Sound(h, others \cup Contents(regs) \cup {o}, lost),
         Distinct(regs), others \cap Contents(regs) = {},
         Flat(SetHeap(h, regs, i, o))
  PROVE  LET now == SetRegs(h, regs, i, o)
         IN /\ Sound(SetHeap(h, regs, i, o), others \cup Contents(now), lost)
            /\ now \in RegisterSet /\ Distinct(now) /\ others \cap Contents(now) = {}
<1> DEFINE n == SetHeap(h, regs, i, o)
           now == SetRegs(h, regs, i, o)
           held == others \cup Contents(regs) \cup {o}
           put == [regs EXCEPT ![i] = o]
<1>1. /\ h \in Heap /\ o # Null /\ regs[i] \in Objects \cup {Null} /\ Null \notin Objects
      /\ held \subseteq Live(h) /\ Null \notin held
  BY OwnershipAssumption DEF Sound, Live, RegisterSet
<1>2. /\ put \in RegisterSet /\ Distinct(put)
      /\ Contents(put) = ((Contents(regs) \ {regs[i]}) \cup {o}) \ {Null}
  <2>1. put \in RegisterSet /\ \A j \in Registers : put[j] = IF j = i THEN o ELSE regs[j]
    BY PutForm
  <2> HIDE DEF put
  <2>. QED
    BY <2>1, PutDistinct
<1>3. CASE regs[i] = Null
  <2>1. n = h /\ now = put
    BY <1>3 DEF SetHeap, SetRegs, IsReference
  <2>2. others \cup Contents(put) = held
    BY <1>1, <1>2, <1>3 DEF Contents
  <2>. QED
    BY <1>1, <1>2, <2>1, <2>2
<1>4. CASE regs[i] # Null /\ ~IsReference(h, regs[i])
  <2>1. n = Delete(h, regs[i]) /\ now = put
    BY <1>4 DEF SetHeap, SetRegs
  <2>2. regs[i] \in held /\ regs[i] \in Contents(regs) /\ regs[i] \notin others /\ regs[i] # o
    BY <1>4, ContentsMember
  <2>3. others \cup Contents(put) = held \ {regs[i]}
    BY <1>1, <1>2, <2>2 DEF Contents
  <2>4. Sound(n, held \ {regs[i]}, lost)
    BY <2>1, <2>2, DeleteSound
  <2>. QED
    BY <1>1, <1>2, <2>1, <2>3, <2>4
<1>5. CASE IsReference(h, regs[i])
  <2> DEFINE c == CellOf(h, regs[i])
             t == h.cell[c].target
  <2>1. regs[i] # Null /\ regs[i] \in Live(h)
    BY <1>1, <1>5, ContentsMember DEF IsReference
  <2>2. c \in UsedCells(h) /\ c \in Cells
    BY <1>5, <2>1 DEF Sound, UsedCells
  <2>3. n = Rebind(h, c, o) /\ now = regs
    BY <1>5, <2>1 DEF SetHeap, SetRegs
  <2>4. ~IsReference(h, t) /\ t \notin held
    BY <2>2 DEF Sound, CellsSound
  <2> HIDE DEF c, n, held
  <2>5. /\ c \in UsedCells(n) /\ n.cell[c] = [target |-> o, count |-> h.cell[c].count]
        /\ n.obj[o] = IF o = t THEN Null ELSE h.obj[o]
    BY <1>1, <2>2, <2>3, <2>4, RebindForm
  <2>6. o \in held
    BY DEF held
  <2>7. n.obj[o] = h.obj[o] /\ ~IsReference(n, o)
    BY <2>4, <2>5, <2>6 DEF Flat, n
  <2>8. ~IsReference(h, o)
    BY <2>7 DEF IsReference
  <2>9. Sound(n, held \ {o}, lost)
    BY <2>2, <2>3, <2>6, <2>8, RebindSound DEF held
  <2>10. held \ {o} = others \cup Contents(regs)
    BY DEF held
  <2>. QED
    BY <2>3, <2>9, <2>10 DEF n
<1>. QED
  BY <1>3, <1>4, <1>5

\* Since no two registers hold the same object, place is set.
LEMMA PlaceIsSet ==
  ASSUME NEW h, NEW regs, Distinct(regs), NEW i \in Registers, NEW o
  PROVE  PlaceRegs(h, regs, i, o) = SetRegs(h, regs, i, o)
BY DEF Distinct, PlaceRegs

-----------------------------------------------------------------------------
(***************************************************************************)
(* The registers of all frames, and the invariant.                         *)
(***************************************************************************)
Others(t, c) == {t, c} \ {Null}

Below(fs) == UNION {Contents(fs[k].regs) : k \in 1 .. Len(fs) - 1}

\* What the program holds, and what it holds outside of the frame on top.
Held(fs, t, c) == (UNION {Contents(fs[k].regs) : k \in DOMAIN fs}) \cup Others(t, c)
Elsewhere(fs, t, c) == Below(fs) \cup Others(t, c)

\* No object is held in two places.
Apart(fs, t, c) ==
  /\ \A k \in DOMAIN fs : Distinct(fs[k].regs)
  /\ \A k, l \in DOMAIN fs : k # l => Contents(fs[k].regs) \cap Contents(fs[l].regs) = {}
  /\ \A k \in DOMAIN fs : Contents(fs[k].regs) \cap Others(t, c) = {}
  /\ t = c => t = Null

Stack(fs, t, c) ==
  /\ fs \in Seq(Frame) /\ fs # <<>>
  /\ \A k \in DOMAIN fs : fs[k].keep = {}
  /\ t \in Objects \cup {Null} /\ c \in Objects \cup {Null}
  /\ Apart(fs, t, c)

Inv ==
  /\ TypeOK
  /\ Stack(frames, tmp, caught)
  /\ Sound(heap, Held(frames, tmp, caught), Lost)
  /\ LentObjects \subseteq Live(heap)

\* What each step is held to by the first two rules.
Permitted == FlatReferences' /\ LentUntouched

\* What the temporary register and the caught object may be beside the frames
\* below the one on top.
Aside(fs, t, c) ==
  /\ t \in Objects \cup {Null} /\ c \in Objects \cup {Null}
  /\ t = c => t = Null
  /\ Others(t, c) \cap Below(fs) = {}

\* The frame on top has other registers.
Retopped(fs, gs, regs) ==
  /\ gs \in Seq(Frame) /\ gs # <<>> /\ Len(gs) = Len(fs)
  /\ \A k \in 1 .. Len(fs) - 1 : gs[k] = fs[k]
  /\ gs[Len(fs)].regs = regs
  /\ \A k \in DOMAIN gs : /\ k \in DOMAIN fs /\ gs[k].keep = {}
                          /\ gs[k].args = fs[k].args /\ gs[k].ret = fs[k].ret

LEMMA TopFrame ==
  ASSUME NEW fs \in Seq(Frame), fs # <<>>
  PROVE  /\ Len(fs) \in DOMAIN fs /\ Len(fs) \in Nat \ {0} /\ DOMAIN fs = 1 .. Len(fs)
         /\ Last(fs) = fs[Len(fs)]
         /\ \A k \in DOMAIN fs : fs[k] \in Frame /\ fs[k].regs \in RegisterSet
<1>1. Len(fs) \in Nat /\ DOMAIN fs = 1 .. Len(fs) /\ Len(fs) # 0
  OBVIOUS
<1>2. \A k \in DOMAIN fs : fs[k] \in Frame
  OBVIOUS
<1>. QED
  BY <1>1, <1>2 DEF Last, Frame

LEMMA Positions ==
  ASSUME NEW n \in Nat \ {0}
  PROVE  /\ \A k : k \in 1 .. n <=> k = n \/ k \in 1 .. n - 1
         /\ \A k \in 1 .. n - 1 : k # n /\ k \in 1 .. n
OBVIOUS

\* The registers of the frame on top, and everything else.
LEMMA TopSplit ==
  ASSUME NEW fs, NEW t, NEW c, Stack(fs, t, c)
  PROVE  LET regs == Last(fs).regs
         IN /\ regs \in RegisterSet /\ Distinct(regs)
            /\ Last(fs) = fs[Len(fs)] /\ Last(fs) \in Frame /\ Last(fs).keep = {}
            /\ Held(fs, t, c) = Elsewhere(fs, t, c) \cup Contents(regs)
            /\ Elsewhere(fs, t, c) \cap Contents(regs) = {}
            /\ Aside(fs, t, c)
<1> DEFINE regs == Last(fs).regs
<1>1. fs \in Seq(Frame) /\ fs # <<>>
  BY DEF Stack
<1>2. /\ Len(fs) \in DOMAIN fs /\ Len(fs) \in Nat \ {0} /\ DOMAIN fs = 1 .. Len(fs)
      /\ Last(fs) = fs[Len(fs)]
      /\ \A k \in DOMAIN fs : fs[k] \in Frame /\ fs[k].regs \in RegisterSet
  BY <1>1, TopFrame
<1>3. regs \in RegisterSet /\ Distinct(regs) /\ Last(fs).keep = {} /\ Last(fs) \in Frame
  BY <1>2 DEF Stack, Apart
<1>4. \A k : k \in DOMAIN fs <=> k = Len(fs) \/ k \in 1 .. Len(fs) - 1
  BY <1>2, Positions
<1> HIDE DEF regs
<1>5. Contents(regs) = Contents(fs[Len(fs)].regs)
  BY <1>2 DEF regs
<1>6. Held(fs, t, c) = Elsewhere(fs, t, c) \cup Contents(regs)
  BY <1>2, <1>4, <1>5 DEF Held, Elsewhere, Below
<1>7. \A k \in 1 .. Len(fs) - 1 : k # Len(fs)
  BY <1>2, Positions
<1>8. Below(fs) \cap Contents(regs) = {} /\ Others(t, c) \cap Contents(regs) = {}
  <2>1. \A k \in 1 .. Len(fs) - 1 : Contents(fs[k].regs) \cap Contents(regs) = {}
    BY <1>2, <1>4, <1>5, <1>7 DEF Stack, Apart
  <2>2. Others(t, c) \cap Contents(regs) = {}
    BY <1>2, <1>5 DEF Stack, Apart
  <2>. QED
    BY <2>1, <2>2 DEF Below
<1>9. Aside(fs, t, c)
  BY <1>4 DEF Stack, Apart, Below, Aside
<1>. QED
  BY <1>2, <1>3, <1>6, <1>8, <1>9 DEF Elsewhere, regs

\* The assignment of End, and the one of all other instructions.
LEMMA RetopForm ==
  ASSUME NEW fs \in Seq(Frame), fs # <<>>, \A k \in DOMAIN fs : fs[k].keep = {},
         NEW regs \in RegisterSet
  PROVE  /\ Retopped(fs, [fs EXCEPT ![Len(fs)].regs = regs], regs)
         /\ Retopped(fs, [fs EXCEPT ![Len(fs)].regs = regs, ![Len(fs)].keep = {}], regs)
<1> DEFINE n == Len(fs)
           gs == [fs EXCEPT ![n].regs = regs]
           hs == [fs EXCEPT ![n].regs = regs, ![n].keep = {}]
           top == [fs[n] EXCEPT !.regs = regs]
           es == [fs EXCEPT ![n] = top]
<1>1. /\ n \in DOMAIN fs /\ n \in Nat \ {0} /\ DOMAIN fs = 1 .. n
      /\ \A k \in DOMAIN fs : fs[k] \in Frame /\ fs[k].keep = {}
  BY TopFrame
<1>2. /\ top \in Frame /\ top.regs = regs /\ top.keep = {}
      /\ top.args = fs[n].args /\ top.ret = fs[n].ret
  BY <1>1 DEF Frame
<1>3. [top EXCEPT !.keep = {}] = top
  BY <1>1 DEF Frame
<1>4. gs = es
  BY <1>1
<1>5. hs = es
  BY <1>1, <1>3
<1> HIDE DEF n, top
<1>6. es \in Seq(Frame) /\ Len(es) = n /\ DOMAIN es = 1 .. n
  BY <1>1, <1>2 DEF n
<1>7. es[n] = top /\ \A k \in 1 .. n : k # n => es[k] = fs[k]
  BY <1>1
<1> HIDE DEF es, gs, hs
<1>8. \A k \in 1 .. n - 1 : k \in 1 .. n /\ k # n
  BY <1>1, Positions
<1>9. \A k \in DOMAIN es : /\ k \in DOMAIN fs /\ es[k].keep = {}
                            /\ es[k].args = fs[k].args /\ es[k].ret = fs[k].ret
  BY <1>1, <1>2, <1>6, <1>7
<1>10. es # <<>>
  BY <1>1, <1>6
<1>11. Retopped(fs, es, regs)
  BY <1>2, <1>6, <1>7, <1>8, <1>9, <1>10 DEF n, Retopped
<1>. QED
  BY <1>4, <1>5, <1>11 DEF gs, hs, n

\* The frame on top gets registers with objects that are held nowhere else.
LEMMA TopChanged ==
  ASSUME NEW fs, NEW t0, NEW c0, Stack(fs, t0, c0),
         NEW regs \in RegisterSet, Distinct(regs), NEW t, NEW c, Aside(fs, t, c),
         Elsewhere(fs, t, c) \cap Contents(regs) = {},
         NEW gs, Retopped(fs, gs, regs)
  PROVE  /\ Stack(gs, t, c)
         /\ Held(gs, t, c) = Elsewhere(fs, t, c) \cup Contents(regs)
<1> DEFINE n == Len(fs)
<1>1. fs \in Seq(Frame) /\ fs # <<>> /\ gs \in Seq(Frame) /\ gs # <<>> /\ Len(gs) = n
  BY DEF Stack, Retopped
<1>2. n \in Nat \ {0} /\ DOMAIN fs = 1 .. n /\ DOMAIN gs = 1 .. n
  BY <1>1, TopFrame
<1>3. \A k : k \in 1 .. n <=> k = n \/ k \in 1 .. n - 1
  BY <1>2, Positions
<1>4. \A k \in 1 .. n - 1 : k # n /\ k \in DOMAIN fs
  BY <1>2, Positions
<1>5. /\ \A k \in 1 .. n - 1 : gs[k] = fs[k]
      /\ gs[n].regs = regs
      /\ \A k \in DOMAIN gs : gs[k].keep = {}
  BY DEF Retopped
<1> HIDE DEF n
<1>6. Held(gs, t, c) = Elsewhere(fs, t, c) \cup Contents(regs)
  BY <1>2, <1>3, <1>5 DEF Held, Elsewhere, Below, n
<1>7. \A k \in DOMAIN gs : Distinct(gs[k].regs)
  BY <1>2, <1>3, <1>4, <1>5 DEF Stack, Apart
<1>8. \A k \in 1 .. n - 1 : /\ Contents(fs[k].regs) \subseteq Below(fs)
                            /\ Contents(fs[k].regs) \cap Contents(regs) = {}
  BY DEF Below, Elsewhere, n
<1>9. \A k, l \in DOMAIN gs : k # l => Contents(gs[k].regs) \cap Contents(gs[l].regs) = {}
  <2> SUFFICES ASSUME NEW k \in 1 .. n, NEW l \in 1 .. n, k # l
               PROVE  Contents(gs[k].regs) \cap Contents(gs[l].regs) = {}
    BY <1>2
  <2>1. CASE k = n
    BY <1>3, <1>5, <1>8, <2>1
  <2>2. CASE l = n
    BY <1>3, <1>5, <1>8, <2>2
  <2>3. CASE k # n /\ l # n
    <3>1. k \in 1 .. n - 1 /\ l \in 1 .. n - 1
      BY <1>3, <2>3
    <3>. QED
      BY <1>4, <1>5, <3>1 DEF Stack, Apart
  <2>. QED
    BY <2>1, <2>2, <2>3
<1>10. \A k \in DOMAIN gs : Contents(gs[k].regs) \cap Others(t, c) = {}
  BY <1>2, <1>3, <1>5, <1>8 DEF Aside, Elsewhere
<1>11. Apart(gs, t, c)
  BY <1>7, <1>9, <1>10 DEF Apart, Aside
<1>. QED
  BY <1>1, <1>5, <1>6, <1>11 DEF Stack, Aside

LEMMA SameTop ==
  ASSUME NEW fs, NEW t, NEW c, Stack(fs, t, c)
  PROVE  Retopped(fs, fs, Last(fs).regs)
<1>1. fs \in Seq(Frame) /\ fs # <<>>
  BY DEF Stack
<1>. QED
  BY <1>1, TopFrame DEF Retopped, Stack

-----------------------------------------------------------------------------
(***************************************************************************)
(* Steps.                                                                  *)
(***************************************************************************)

\* Objects in parameter slots live as long as they are there.
LEMMA LentKept ==
  ASSUME Inv, Permitted, LentObjects' \subseteq LentObjects \cup Live(heap')
  PROVE  LentObjects' \subseteq Live(heap')
<1> SUFFICES ASSUME NEW o \in LentObjects', o \in LentObjects PROVE o \in Live(heap')
  OBVIOUS
<1>1. o \in Live(heap) /\ heap'.obj[o] = heap.obj[o]
  BY DEF Inv, Permitted, LentUntouched
<1>. QED
  BY <1>1 DEF Live

\* The heap and the stack of a state that keeps the invariant.
LEMMA Kept ==
  ASSUME Inv, Permitted, Stack(frames', tmp', caught'), Len(frames') <= MaxFrames,
         Sound(heap', Held(frames', tmp', caught'), Lost),
         prepared' \in SlotSet \cup {Null},
         LentObjects' \subseteq LentObjects \cup Live(heap')
  PROVE  Inv'
<1>1. LentObjects' \subseteq Live(heap')
  BY LentKept
<1>2. TypeOK'
  BY DEF TypeOK, Stack, Sound
<1>. QED
  BY <1>1, <1>2 DEF Inv

\* An instruction that changes the registers of the running function.
LEMMA TopStep ==
  ASSUME Inv, Permitted, NEW regs \in RegisterSet, Distinct(regs),
         Retopped(frames, frames', regs), Aside(frames, tmp', caught'),
         Elsewhere(frames, tmp', caught') \cap Contents(regs) = {},
         Sound(heap', Elsewhere(frames, tmp', caught') \cup Contents(regs), Lost),
         prepared' \in SlotSet \cup {Null}, Lent(prepared') \subseteq Lent(prepared) \cup Live(heap')
  PROVE  Inv'
<1>1. /\ Stack(frames', tmp', caught')
      /\ Held(frames', tmp', caught') = Elsewhere(frames, tmp', caught') \cup Contents(regs)
  BY TopChanged DEF Inv
<1>2. LentObjects' \subseteq LentObjects \cup Live(heap')
  BY DEF LentObjects, Retopped
<1>3. Len(frames') <= MaxFrames
  BY DEF Retopped, Inv, TypeOK
<1>. QED
  BY <1>1, <1>2, <1>3, Kept

\* One that leaves all registers as they are.
LEMMA FramesStay ==
  ASSUME Inv, Permitted, UNCHANGED <<frames, tmp, caught>>,
         Sound(heap', Held(frames, tmp, caught), Lost),
         prepared' \in SlotSet \cup {Null}, Lent(prepared') \subseteq Lent(prepared) \cup Live(heap')
  PROVE  Inv'
<1>1. LentObjects' \subseteq LentObjects \cup Live(heap')
  BY DEF LentObjects
<1>. QED
  BY <1>1, Kept DEF Inv, TypeOK

\* The registers of the running function.
LEMMA RegsForm ==
  ASSUME Inv
  PROVE  /\ Regs \in RegisterSet /\ Distinct(Regs) /\ Keep = {}
         /\ Top \in Frame /\ Top = frames[Len(frames)]
         /\ Held(frames, tmp, caught) = Elsewhere(frames, tmp, caught) \cup Contents(Regs)
         /\ Elsewhere(frames, tmp, caught) \cap Contents(Regs) = {}
         /\ Aside(frames, tmp, caught)
         /\ Sound(heap, Elsewhere(frames, tmp, caught) \cup Contents(Regs), Lost)
         /\ \A o : o \notin Live(heap) =>
              o \notin Elsewhere(frames, tmp, caught) /\ o \notin Contents(Regs)
         /\ \A i \in Registers : Regs[i] # Null =>
              /\ Regs[i] \in Live(heap) /\ Regs[i] \in Contents(Regs)
              /\ Regs[i] \in Held(frames, tmp, caught)
         /\ heap \in Heap
         /\ \A regs \in RegisterSet : Retopped(frames, WithTop(regs, {}), regs)
<1>1. Stack(frames, tmp, caught)
  BY DEF Inv
<1>2. /\ Regs \in RegisterSet /\ Distinct(Regs) /\ Keep = {}
      /\ Top \in Frame /\ Top = frames[Len(frames)]
      /\ Held(frames, tmp, caught) = Elsewhere(frames, tmp, caught) \cup Contents(Regs)
      /\ Elsewhere(frames, tmp, caught) \cap Contents(Regs) = {}
      /\ Aside(frames, tmp, caught)
  BY <1>1, TopSplit DEF Regs, Keep, Top
<1>3. Sound(heap, Elsewhere(frames, tmp, caught) \cup Contents(Regs), Lost)
  BY <1>2 DEF Inv
<1>4. \A i \in Registers : Regs[i] # Null => Regs[i] \in Contents(Regs)
  BY <1>2, ContentsMember
<1>5. \A regs \in RegisterSet : Retopped(frames, WithTop(regs, {}), regs)
  BY <1>1, RetopForm DEF Stack, WithTop
<1>. QED
  BY <1>2, <1>3, <1>4, <1>5 DEF Sound

\* An instruction that ends in RegisterSet::set, or in place.
LEMMA StoreStep ==
  ASSUME Inv, Permitted, NEW h, NEW regs \in RegisterSet, Distinct(regs),
         NEW i \in Registers, NEW o \in Objects, Aside(frames, tmp', caught'),
         Elsewhere(frames, tmp', caught') \cap Contents(regs) = {},
         o \notin Elsewhere(frames, tmp', caught'), o \notin Contents(regs),
         Sound(h, Elsewhere(frames, tmp', caught') \cup Contents(regs) \cup {o}, Lost),
         heap' = SetHeap(h, regs, i, o), frames' = WithTop(SetRegs(h, regs, i, o), {}),
         prepared' = prepared
  PROVE  Inv'
<1> DEFINE others == Elsewhere(frames, tmp', caught')
           now == SetRegs(h, regs, i, o)
<1>1. Flat(SetHeap(h, regs, i, o))
  BY DEF Permitted, FlatReferences, Flat
<1> HIDE DEF others
<1>2. /\ Sound(SetHeap(h, regs, i, o), others \cup Contents(now), Lost)
      /\ now \in RegisterSet /\ Distinct(now) /\ others \cap Contents(now) = {}
  BY <1>1, SetSound DEF others
<1>3. prepared \in SlotSet \cup {Null}
  BY DEF Inv, TypeOK
<1>4. Retopped(frames, frames', now)
  BY <1>2, RegsForm
<1>. QED
  BY <1>2, <1>3, <1>4, TopStep DEF others

\* An instruction that makes an object and places it.
LEMMA PlaceStep ==
  ASSUME Inv, Permitted, NEW h, NEW i \in Registers, FreshObject(heap) \in Objects \ Live(heap),
         Sound(h, Held(frames, tmp, caught) \cup {FreshObject(heap)}, Lost),
         heap' = SetHeap(h, Regs, i, FreshObject(heap)),
         frames' = WithTop(SetRegs(h, Regs, i, FreshObject(heap)), {}),
         UNCHANGED <<prepared, tmp, caught>>
  PROVE  Inv'
<1> DEFINE o == FreshObject(heap)
<1>1. o \in Objects /\ o \notin Live(heap)
  OBVIOUS
<1> HIDE DEF o
<1>2. /\ o \notin Elsewhere(frames, tmp, caught) /\ o \notin Contents(Regs)
  BY <1>1, RegsForm
<1>3. Sound(h, Elsewhere(frames, tmp, caught) \cup Contents(Regs) \cup {o}, Lost)
  BY RegsForm DEF o
<1>. QED
  BY <1>1, <1>2, <1>3, RegsForm, StoreStep DEF o

-----------------------------------------------------------------------------
(***************************************************************************)
(* Instructions on registers.                                              *)
(***************************************************************************)
LEMMA NewKeeps ==
  ASSUME Inv, Permitted, NEW i \in Registers, NEW v \in Values, New(i, v)
  PROVE  Inv'
<1> DEFINE h == NewObject(heap, <<"value", v>>)
           o == FreshObject(heap)
<1>1. Objects \ Live(heap) # {} /\ o \in Objects \ Live(heap)
  BY RoomFor, FreshFree DEF New
<1>2. Sound(h, Held(frames, tmp, caught) \cup {o}, Lost)
  BY <1>1, NewSimpleSound DEF Inv
<1>3. heap' = SetHeap(h, Regs, i, o) /\ frames' = WithTop(SetRegs(h, Regs, i, o), {})
  BY RegsForm, PlaceIsSet DEF New, Place
<1> HIDE DEF h
<1>. QED
  BY <1>1, <1>2, <1>3, PlaceStep DEF New

\* What a register stands for exists, and is no Reference.
LEMMA FetchLive ==
  ASSUME Inv, NEW i \in Registers, Regs[i] # Null
  PROVE  Fetch(heap, Regs[i]) \in Live(heap) /\ ~IsReference(heap, Fetch(heap, Regs[i]))
<1>1. Regs[i] \in Live(heap)
  BY RegsForm
<1>2. CASE IsReference(heap, Regs[i])
  <2>1. CellOf(heap, Regs[i]) \in UsedCells(heap)
    BY <1>1, <1>2 DEF Inv, Sound
  <2>2. Fetch(heap, Regs[i]) = heap.cell[CellOf(heap, Regs[i])].target
    BY <1>2 DEF Fetch
  <2>. QED
    BY <2>1, <2>2 DEF Inv, Sound, CellsSound
<1>3. CASE ~IsReference(heap, Regs[i])
  BY <1>1, <1>3 DEF Fetch
<1>. QED
  BY <1>2, <1>3

LEMMA ModifyKeeps ==
  ASSUME Inv, Permitted, NEW i \in Registers, NEW v \in Values, Modify(i, v)
  PROVE  Inv'
<1>1. Fetch(heap, Regs[i]) \in Live(heap) /\ ~IsReference(heap, Fetch(heap, Regs[i]))
  BY FetchLive DEF Modify, Filled
<1>2. Sound(heap', Held(frames, tmp, caught), Lost)
  BY <1>1, ModifySound DEF Modify, Inv
<1>. QED
  BY <1>2, FramesStay DEF Modify, Inv, TypeOK

LEMMA MoveKeeps ==
  ASSUME Inv, Permitted, NEW i \in Registers, NEW j \in Registers, Move(i, j)
  PROVE  Inv'
<1> DEFINE regs == [Regs EXCEPT ![j] = Regs[i], ![i] = Null]
<1>1. /\ regs \in RegisterSet
      /\ \A k \in Registers :
           regs[k] = IF k = i THEN Null ELSE IF k = j THEN Regs[i] ELSE Regs[k]
  BY RegsForm DEF RegisterSet
<1>2. frames' = WithTop(regs, {})
  BY RegsForm DEF Move
<1> HIDE DEF regs
<1>3. Distinct(regs)
  BY <1>1, RegsForm DEF Distinct
<1>4. Contents(regs) \subseteq Contents(Regs)
  BY <1>1 DEF Contents
<1>5. Contents(regs) = Contents(Regs) \/ Lost = Objects
  <2>1. CASE Leakless
    <3>1. Regs[j] = Null
      BY <2>1 DEF Leakless, Move, Follows, OwnershipRules
    <3>2. ASSUME NEW k \in Registers, Regs[k] # Null
          PROVE  \E l \in Registers : regs[l] = Regs[k]
      <4>1. CASE k = i
        BY <1>1, <3>1, <3>2, <4>1
      <4>2. CASE k # i
        BY <1>1, <3>1, <3>2, <4>2
      <4>. QED
        BY <4>1, <4>2
    <3>. QED
      BY <1>4, <3>2 DEF Contents
  <2>. QED
    BY <2>1 DEF Lost
<1>6. Sound(heap, Elsewhere(frames, tmp, caught) \cup Contents(regs), Lost)
  <2>1. Elsewhere(frames, tmp, caught) \cup Contents(regs)
          \in SUBSET (Elsewhere(frames, tmp, caught) \cup Contents(Regs))
    BY <1>4
  <2>. QED
    BY <1>5, <2>1, RegsForm, ForgetSound
<1>7. Retopped(frames, frames', regs)
  BY <1>1, <1>2, RegsForm
<1>8. Elsewhere(frames, tmp, caught) \cap Contents(regs) = {}
  BY <1>4, RegsForm
<1>9. UNCHANGED <<heap, prepared, tmp, caught>> /\ prepared \in SlotSet \cup {Null}
  BY DEF Move, Inv, TypeOK
<1>. QED
  BY <1>1, <1>3, <1>6, <1>7, <1>8, <1>9, RegsForm, TopStep

LEMMA CopyKeeps ==
  ASSUME Inv, Permitted, NEW i \in Registers, NEW j \in Registers, Copy(i, j)
  PROVE  Inv'
<1> DEFINE h == Clone(heap, Fetch(heap, Regs[i]))
           o == FreshObject(heap)
<1>1. Objects \ Live(heap) # {} /\ o \in Objects \ Live(heap)
  BY RoomFor, FreshFree DEF Copy
<1>2. Fetch(heap, Regs[i]) \in Live(heap)
  BY FetchLive DEF Copy, Filled
<1>3. Sound(h, Held(frames, tmp, caught) \cup {o}, Lost)
  BY <1>1, <1>2, CloneSound DEF Inv
<1>4. heap' = SetHeap(h, Regs, j, o) /\ frames' = WithTop(SetRegs(h, Regs, j, o), {})
  BY RegsForm, PlaceIsSet DEF Copy, Place
<1> HIDE DEF h
<1>. QED
  BY <1>1, <1>3, <1>4, PlaceStep DEF Copy

LEMMA SwapKeeps ==
  ASSUME Inv, Permitted, NEW i \in Registers, NEW j \in Registers, Swap(i, j)
  PROVE  Inv'
<1> DEFINE regs == [Regs EXCEPT ![i] = Regs[j], ![j] = Regs[i]]
<1>1. /\ regs \in RegisterSet
      /\ \A k \in Registers :
           regs[k] = IF k = j THEN Regs[i] ELSE IF k = i THEN Regs[j] ELSE Regs[k]
  BY RegsForm DEF RegisterSet
<1>2. frames' = WithTop(regs, {})
  BY RegsForm DEF Swap
<1> HIDE DEF regs
<1>3. Distinct(regs)
  BY <1>1, RegsForm DEF Distinct
<1>4. Contents(regs) = Contents(Regs)
  <2>1. \A k \in Registers : \E l \in Registers : regs[k] = Regs[l]
    BY <1>1
  <2>2. \A k \in Registers : \E l \in Registers : Regs[k] = regs[l]
    BY <1>1
  <2>. QED
    BY <2>1, <2>2 DEF Contents
<1>5. Retopped(frames, frames', regs)
  BY <1>1, <1>2, RegsForm
<1>6. UNCHANGED <<heap, prepared, tmp, caught>> /\ prepared \in SlotSet \cup {Null}
  BY DEF Swap, Inv, TypeOK
<1>. QED
  BY <1>1, <1>3, <1>4, <1>5, <1>6, RegsForm, TopStep

\* The object in register i is deleted, and the register gets another one.
LEMMA FreedStep ==
  ASSUME Inv, Permitted, NEW i \in Registers, Regs[i] # Null, NEW o \in Objects \cup {Null},
         Aside(frames, tmp', caught'), o \notin Contents(Regs),
         o = Null \/ o \notin Elsewhere(frames, tmp', caught'),
         Held(frames, tmp, caught)
           = Elsewhere(frames, tmp', caught') \cup Contents(Regs) \cup ({o} \ {Null}),
         Elsewhere(frames, tmp', caught') \cap Contents(Regs) = {},
         heap' = Delete(heap, Regs[i]), frames' = WithTop([Regs EXCEPT ![i] = o], {}),
         prepared' = prepared
  PROVE  Inv'
<1> DEFINE regs == [Regs EXCEPT ![i] = o]
           others == Elsewhere(frames, tmp', caught')
<1>1. regs \in RegisterSet /\ \A k \in Registers : regs[k] = IF k = i THEN o ELSE Regs[k]
  BY RegsForm, PutForm
<1>2. Retopped(frames, frames', regs)
  BY <1>1, RegsForm
<1> HIDE DEF regs, others
<1>3. /\ Distinct(regs)
      /\ Contents(regs) = ((Contents(Regs) \ {Regs[i]}) \cup {o}) \ {Null}
  BY <1>1, RegsForm, PutDistinct
<1>4. Regs[i] \in Contents(Regs)
  BY RegsForm
<1>5. Null \notin others /\ Null \notin Contents(Regs)
  <2>1. Null \notin Held(frames, tmp, caught)
    BY OwnershipAssumption DEF Inv, Sound, Live
  <2>. QED
    BY <2>1 DEF others
<1>6. others \cap Contents(regs) = {}
  BY <1>3, <1>5 DEF others
<1>7. others \cup Contents(regs) = Held(frames, tmp, caught) \ {Regs[i]}
  BY <1>3, <1>4, <1>5 DEF others
<1>8. Sound(heap', others \cup Contents(regs), Lost)
  BY <1>7, RegsForm, DeleteSound DEF Inv
<1>9. prepared \in SlotSet \cup {Null}
  BY DEF Inv, TypeOK
<1>. QED
  BY <1>1, <1>2, <1>3, <1>6, <1>8, <1>9, TopStep DEF others

LEMMA FreeKeeps ==
  ASSUME Inv, Permitted, NEW i \in Registers, Free(i)
  PROVE  Inv'
<1>1. Null \notin Contents(Regs)
  BY DEF Contents
<1>2. frames' = WithTop([Regs EXCEPT ![i] = Null], {})
  BY RegsForm DEF Free
<1>. QED
  BY <1>1, <1>2, RegsForm, FreedStep DEF Free, Filled

LEMMA EmptyKeeps ==
  ASSUME Inv, Permitted, NEW i \in Registers, Empty(i)
  PROVE  Inv'
<1> DEFINE regs == [Regs EXCEPT ![i] = Null]
<1>1. frames' = WithTop(regs, {}) /\ Null \notin Contents(Regs)
  BY RegsForm DEF Empty, Contents
<1>2. CASE IsReference(heap, Regs[i])
  BY <1>1, <1>2, RegsForm, FreedStep DEF Empty, Filled
<1>3. CASE ~IsReference(heap, Regs[i])
  <2>1. Lost = Objects
    BY <1>3 DEF Lost, Leakless, Empty, Follows, OwnershipRules
  <2>2. regs \in RegisterSet /\ \A k \in Registers : regs[k] = IF k = i THEN Null ELSE Regs[k]
    BY RegsForm, PutForm
  <2> HIDE DEF regs
  <2>3. /\ Distinct(regs)
        /\ Contents(regs) = ((Contents(Regs) \ {Regs[i]}) \cup {Null}) \ {Null}
    BY <1>1, <2>2, RegsForm, PutDistinct
  <2>4. Elsewhere(frames, tmp, caught) \cup Contents(regs)
          \in SUBSET (Elsewhere(frames, tmp, caught) \cup Contents(Regs))
    BY <2>3
  <2>5. Sound(heap, Elsewhere(frames, tmp, caught) \cup Contents(regs), Lost)
    BY <2>1, <2>4, RegsForm, ForgetSound
  <2>6. Elsewhere(frames, tmp, caught) \cap Contents(regs) = {}
    BY <2>3, RegsForm
  <2>7. Retopped(frames, frames', regs)
    BY <1>1, <2>2, RegsForm
  <2>8. UNCHANGED <<heap, prepared, tmp, caught>> /\ prepared \in SlotSet \cup {Null}
    BY <1>3 DEF Empty, Inv, TypeOK
  <2>. QED
    BY <2>2, <2>3, <2>5, <2>6, <2>7, <2>8, RegsForm, TopStep
<1>. QED
  BY <1>2, <1>3

\* The object in the temporary register is lost, if there was one.
LEMMA TmpriKeeps ==
  ASSUME Inv, Permitted, NEW i \in Registers, Tmpri(i)
  PROVE  Inv'
<1> DEFINE o == FreshObject(heap)
           others == Elsewhere(frames, o, caught)
           held == Held(frames, tmp, caught) \cup {o}
<1>1. o \in Objects /\ o \notin Live(heap) /\ Objects \ Live(heap) # {}
  BY RoomFor, FreshFree DEF Tmpri
<1>2. Sound(heap', held, Lost)
  BY <1>1, RegsForm, CloneSound DEF Tmpri, Filled, Inv
<1> HIDE DEF o
<1>3. o # Null /\ o \notin Elsewhere(frames, tmp, caught) /\ o \notin Contents(Regs)
  BY <1>1, OwnershipAssumption, RegsForm
<1>4. tmp' = o /\ UNCHANGED <<frames, prepared, caught>>
  BY DEF Tmpri, o
<1>5. Aside(frames, o, caught)
  BY <1>1, <1>3, RegsForm DEF Aside, Others, Elsewhere
<1>6. others \cup Contents(Regs) \in SUBSET held
  BY RegsForm DEF Elsewhere, Others
<1>7. others \cup Contents(Regs) = held \/ Lost = Objects
  <2>1. CASE Leakless
    <3>1. tmp = Null
      BY <2>1 DEF Leakless, Tmpri, Follows, OwnershipRules
    <3>. QED
      BY <1>3, <3>1, RegsForm DEF Elsewhere, Others
  <2>. QED
    BY <2>1 DEF Lost
<1>8. others \cap Contents(Regs) = {}
  BY <1>3, RegsForm DEF Elsewhere, Others
<1> HIDE DEF others, held
<1>9. Sound(heap', others \cup Contents(Regs), Lost)
  BY <1>2, <1>6, <1>7, ForgetSound
<1>10. Retopped(frames, frames', Regs)
  BY <1>4, SameTop DEF Inv, Regs, Top
<1>11. prepared \in SlotSet \cup {Null}
  BY DEF Inv, TypeOK
<1>. QED
  BY <1>4, <1>5, <1>8, <1>9, <1>10, <1>11, RegsForm, TopStep DEF others

LEMMA TmproKeeps ==
  ASSUME Inv, Permitted, NEW i \in Registers, Tmpro(i)
  PROVE  Inv'
<1> DEFINE regs == [Regs EXCEPT ![i] = tmp]
           others == Elsewhere(frames, Null, caught)
<1>1. /\ tmp \in Objects \cup {Null} /\ tmp' = Null /\ caught' = caught
      /\ prepared' = prepared /\ prepared \in SlotSet \cup {Null}
      /\ caught \in Objects \cup {Null}
  BY DEF Tmpro, Inv, TypeOK
<1>2. frames' = WithTop(regs, {})
  BY RegsForm DEF Tmpro
<1>3. /\ tmp = caught => tmp = Null
      /\ Others(tmp, caught) \cap Below(frames) = {}
      /\ Others(tmp, caught) \cap Contents(Regs) = {}
  BY RegsForm DEF Aside, Elsewhere
<1>4. Null \notin Held(frames, tmp, caught) /\ Null \notin Contents(Regs) /\ Null \notin Objects
  BY OwnershipAssumption DEF Inv, Sound, Live, Contents
<1>5. Others(Null, caught) = {caught} \ {Null} /\ Others(tmp, caught) = {tmp, caught} \ {Null}
  BY DEF Others
<1>6. Aside(frames, Null, caught)
  BY <1>1, <1>3, <1>5 DEF Aside
<1>7. /\ tmp \notin Contents(Regs)
      /\ tmp = Null \/ tmp \notin others
      /\ others \cap Contents(Regs) = {}
      /\ Held(frames, tmp, caught) = others \cup Contents(Regs) \cup ({tmp} \ {Null})
  BY <1>3, <1>4, <1>5, RegsForm DEF Elsewhere
<1>8. CASE Regs[i] # Null
  <2>1. heap' = Delete(heap, Regs[i])
    BY <1>8 DEF Tmpro, Filled
  <2>. QED
    BY <1>1, <1>2, <1>6, <1>7, <1>8, <2>1, FreedStep
<1>9. CASE Regs[i] = Null
  <2>1. heap' = heap
    BY <1>9 DEF Tmpro, Filled
  <2>2. regs \in RegisterSet /\ \A k \in Registers : regs[k] = IF k = i THEN tmp ELSE Regs[k]
    BY <1>1, RegsForm, PutForm
  <2> HIDE DEF regs, others
  <2>3. Distinct(regs) /\ Contents(regs) = ((Contents(Regs) \ {Null}) \cup {tmp}) \ {Null}
    BY <1>1, <1>7, <1>9, <2>2, RegsForm, PutDistinct
  <2>4. others \cup Contents(regs) = Held(frames, tmp, caught) /\ others \cap Contents(regs) = {}
    BY <1>4, <1>7, <2>3
  <2>5. Sound(heap', others \cup Contents(regs), Lost)
    BY <2>1, <2>4 DEF Inv
  <2>6. Retopped(frames, frames', regs)
    BY <1>2, <2>2, RegsForm
  <2>. QED
    BY <1>1, <1>6, <2>2, <2>3, <2>4, <2>5, <2>6, TopStep DEF others
<1>. QED
  BY <1>8, <1>9

\* The register gets the caught object itself.
LEMMA PullKeeps ==
  ASSUME Inv, Permitted, NEW i \in Registers, Pull(i)
  PROVE  Inv'
<1> DEFINE others == Elsewhere(frames, tmp, Null)
<1>1. /\ caught \in Objects /\ tmp \in Objects \cup {Null} /\ tmp' = tmp /\ caught' = Null
      /\ prepared' = prepared
  BY DEF Pull, Inv, TypeOK
<1>2. /\ heap' = SetHeap(heap, Regs, i, caught)
      /\ frames' = WithTop(SetRegs(heap, Regs, i, caught), {})
  BY RegsForm DEF Pull, Store
<1>3. caught # Null /\ Null \notin Held(frames, tmp, caught)
  BY <1>1, OwnershipAssumption DEF Inv, Sound, Live
<1>4. /\ tmp # caught
      /\ Others(tmp, caught) \cap Below(frames) = {}
      /\ Others(tmp, caught) \cap Contents(Regs) = {}
      /\ Others(tmp, Null) = {tmp} \ {Null} /\ Others(tmp, caught) = {tmp, caught} \ {Null}
  BY <1>3, RegsForm DEF Aside, Elsewhere, Others
<1>5. Aside(frames, tmp, Null)
  BY <1>1, <1>4 DEF Aside
<1>6. /\ caught \notin others /\ caught \notin Contents(Regs)
      /\ others \cap Contents(Regs) = {}
      /\ Held(frames, tmp, caught) = others \cup Contents(Regs) \cup {caught}
  BY <1>3, <1>4, RegsForm DEF Elsewhere
<1>7. Sound(heap, others \cup Contents(Regs) \cup {caught}, Lost)
  BY <1>6 DEF Inv
<1>. QED
  BY <1>1, <1>2, <1>5, <1>6, <1>7, RegsForm, StoreStep

-----------------------------------------------------------------------------
(***************************************************************************)
(* References and parameters.                                              *)
(***************************************************************************)

\* A cell that is left pointing nowhere, or to a Reference, is not flat.
LEMMA WrappedForm ==
  ASSUME Inv, NEW i \in Registers, ~IsReference(heap, Regs[i]),
         Objects \ Live(heap) # {}, Cells \ UsedCells(heap) # {}
  PROVE  LET o == FreshObject(heap)
             c == FreshCell(heap)
             h == Wrapped(i)
             regs == WrappedRegs(i)
         IN /\ h \in Heap /\ o \in Objects /\ o \notin Live(heap) /\ o # Null
            /\ h.obj[o] = <<"reference", c>> /\ IsReference(h, o) /\ CellOf(h, o) = c
            /\ c \in UsedCells(h) /\ h.cell[c].target = Regs[i]
            /\ \A d \in UsedCells(heap) : d \in UsedCells(h) /\ h.cell[d] = heap.cell[d]
            /\ \A y \in Live(heap) : /\ IsReference(h, y) <=> IsReference(heap, y)
                                     /\ CellOf(h, y) = CellOf(heap, y)
            /\ Live(h) = Live(heap) \cup {o}
            /\ regs \in RegisterSet /\ Distinct(regs)
            /\ \A k \in Registers : regs[k] = IF k = i THEN o ELSE Regs[k]
            /\ Contents(regs) = (Contents(Regs) \ {Regs[i]}) \cup {o}
            /\ Elsewhere(frames, tmp, caught) \cap Contents(regs) = {}
            /\ Regs[i] # Null =>
                 Sound(h, Elsewhere(frames, tmp, caught) \cup Contents(regs), Lost)
<1> DEFINE o == FreshObject(heap)
           c == FreshCell(heap)
           h == Wrapped(i)
           regs == WrappedRegs(i)
           others == Elsewhere(frames, tmp, caught)
<1>1. h = NewReference(heap, Regs[i]) /\ regs = [Regs EXCEPT ![i] = o]
  BY DEF Wrapped, WrappedRegs
<1>2. heap \in Heap /\ Regs[i] \in Objects \cup {Null}
  BY RegsForm, ContentsMember
<1>3. /\ o \in Objects /\ o \notin Live(heap) /\ o # Null
      /\ h \in Heap
      /\ h.obj[o] = <<"reference", c>>
      /\ h.cell[c] = [target |-> Regs[i], count |-> 1]
      /\ Live(h) = Live(heap) \cup {o}
      /\ UsedCells(h) = UsedCells(heap) \cup {c}
      /\ IsReference(h, o) /\ CellOf(h, o) = c
      /\ c \notin UsedCells(heap)
      /\ \A d \in Cells \ {c} : h.cell[d] = heap.cell[d]
      /\ \A y \in Live(heap) : IsReference(h, y) <=> IsReference(heap, y)
      /\ \A y \in Live(heap) : CellOf(h, y) = CellOf(heap, y)
  BY <1>1, <1>2, NewReferenceForm
<1> HIDE DEF o
<1>4. regs \in RegisterSet /\ \A k \in Registers : regs[k] = IF k = i THEN o ELSE Regs[k]
  <2> DEFINE put == [Regs EXCEPT ![i] = o]
  <2>1. put \in RegisterSet /\ \A k \in Registers : put[k] = IF k = i THEN o ELSE Regs[k]
    BY <1>3, RegsForm, PutForm
  <2>2. regs = put
    BY <1>1
  <2> HIDE DEF put, regs
  <2>. QED
    BY <2>1, <2>2
<1>5. o \notin others /\ o \notin Contents(Regs)
  BY <1>3, RegsForm
<1> HIDE DEF regs, h, others
<1>6. Distinct(regs) /\ Contents(regs) = ((Contents(Regs) \ {Regs[i]}) \cup {o}) \ {Null}
  BY <1>3, <1>4, <1>5, RegsForm, PutDistinct
<1>7. Contents(regs) = (Contents(Regs) \ {Regs[i]}) \cup {o}
  BY <1>3, <1>6 DEF Contents
<1>8. others \cap Contents(regs) = {}
  BY <1>5, <1>7, RegsForm DEF others
<1>9. ASSUME Regs[i] # Null PROVE Sound(h, others \cup Contents(regs), Lost)
  <2>1. Regs[i] \in Held(frames, tmp, caught) /\ Regs[i] \in Contents(Regs)
    BY <1>9, RegsForm
  <2>2. Sound(h, (Held(frames, tmp, caught) \ {Regs[i]}) \cup {o}, Lost)
    BY <1>1, <2>1, NewReferenceSound DEF Inv, o
  <2>3. Regs[i] \notin others /\ Held(frames, tmp, caught) = others \cup Contents(Regs)
    BY <2>1, RegsForm DEF others
  <2>4. (Held(frames, tmp, caught) \ {Regs[i]}) \cup {o} = others \cup Contents(regs)
    BY <1>7, <2>3
  <2>. QED
    BY <2>2, <2>4
<1>10. /\ c \in UsedCells(h) /\ h.cell[c].target = Regs[i]
       /\ \A d \in UsedCells(heap) : d \in UsedCells(h) /\ h.cell[d] = heap.cell[d]
  BY <1>3 DEF UsedCells
<1> HIDE DEF c
<1>. QED
  BY <1>3, <1>4, <1>6, <1>7, <1>8, <1>9, <1>10 DEF o, c, h, regs, others

\* A Reference cannot be stored over another one: the cell would point to it.
LEMMA ReferenceOverReference ==
  ASSUME NEW h \in Heap, NEW regs \in RegisterSet, NEW j \in Registers, NEW o \in Objects,
         IsReference(h, regs[j]), IsReference(h, o), CellOf(h, regs[j]) \in UsedCells(h),
         h.cell[CellOf(h, regs[j])].target # o,
         ~IsReference(h, h.cell[CellOf(h, regs[j])].target)
  PROVE  ~Flat(SetHeap(h, regs, j, o))
<1> DEFINE d == CellOf(h, regs[j])
           n == SetHeap(h, regs, j, o)
<1>1. n = Rebind(h, d, o)
  BY DEF SetHeap, IsReference
<1> HIDE DEF d, n
<1>2. /\ d \in UsedCells(n) /\ n.cell[d] = [target |-> o, count |-> h.cell[d].count]
      /\ n.obj[o] = h.obj[o]
  BY <1>1, RebindForm DEF d
<1>3. IsReference(n, o)
  BY <1>2 DEF IsReference
<1>. QED
  BY <1>2, <1>3 DEF Flat, n

\* ref on an empty register would make a Reference to nothing.
LEMMA NoReferenceToNull ==
  ASSUME Inv, NEW i \in Registers, NEW j \in Registers, Regs[i] = Null, Room(2, 1),
         Flat(SetHeap(Clone(Wrapped(i), WrappedRegs(i)[i]), WrappedRegs(i), j,
                      FreshObject(Wrapped(i))))
  PROVE  FALSE
<1> DEFINE h == Wrapped(i)
           regs == WrappedRegs(i)
           o == FreshObject(h)
           w == FreshObject(heap)
           c == FreshCell(heap)
           k == Clone(h, w)
           n == SetHeap(k, regs, j, o)
<1>1. /\ Objects \ Live(heap) # {} /\ Cells \ UsedCells(heap) # {}
      /\ \A x : (Objects \ Live(heap)) \ {x} # {}
      /\ ~IsReference(heap, Regs[i])
  BY RoomFor DEF IsReference
<1>2. /\ h \in Heap /\ w \in Objects /\ w \notin Live(heap) /\ w # Null
      /\ h.obj[w] = <<"reference", c>> /\ IsReference(h, w) /\ CellOf(h, w) = c
      /\ c \in UsedCells(h) /\ h.cell[c].target = Null
      /\ \A d \in UsedCells(heap) : d \in UsedCells(h) /\ h.cell[d] = heap.cell[d]
      /\ \A y \in Live(heap) : /\ IsReference(h, y) <=> IsReference(heap, y)
                               /\ CellOf(h, y) = CellOf(heap, y)
      /\ Live(h) = Live(heap) \cup {w}
      /\ regs \in RegisterSet
      /\ \A l \in Registers : regs[l] = IF l = i THEN w ELSE Regs[l]
  BY <1>1, WrappedForm
<1>3. Flat(n)
  BY <1>2
<1> HIDE DEF h, regs, w, c, n
<1>4. Objects \ Live(h) # {} /\ w \in Live(h)
  <2>1. Objects \ Live(h) = (Objects \ Live(heap)) \ {w}
    BY <1>2
  <2>. QED
    BY <1>1, <1>2, <2>1
<1>5. /\ o \in Objects /\ o \notin Live(h) /\ o # Null
      /\ k \in Heap /\ UsedCells(k) = UsedCells(h) /\ Live(k) = Live(h) \cup {o}
      /\ \A d \in UsedCells(h) : k.cell[d].target = h.cell[d].target
      /\ \A y \in Live(h) : /\ IsReference(k, y) <=> IsReference(h, y)
                            /\ CellOf(k, y) = CellOf(h, y)
      /\ IsReference(k, o)
  BY <1>2, <1>4, CloneForm
<1> HIDE DEF o, k
<1>6. c \in UsedCells(k) /\ k.cell[c].target = Null
  BY <1>2, <1>5
<1>7. CASE regs[j] = Null
  <2>1. n = k
    BY <1>7 DEF n, SetHeap
  <2>. QED
    BY <1>3, <1>6, <2>1 DEF Flat
<1>8. CASE regs[j] # Null /\ ~IsReference(k, regs[j])
  <2>1. n = Delete(k, regs[j]) /\ regs[j] \in Objects \cup {Null}
    BY <1>2, <1>8, ContentsMember DEF n, SetHeap
  <2>2. n.cell = k.cell /\ UsedCells(n) = UsedCells(k)
    BY <1>5, <1>8, <2>1, DeleteSimpleForm
  <2>. QED
    BY <1>3, <1>6, <2>2 DEF Flat
<1>9. CASE IsReference(k, regs[j])
  <2> DEFINE d == CellOf(k, regs[j])
  <2>1. d \in UsedCells(k) /\ k.cell[d].target # o /\ ~IsReference(k, k.cell[d].target)
    <3>1. CASE j = i
      <4>1. regs[j] = w /\ d = c
        BY <1>2, <1>4, <1>5, <3>1
      <4>. QED
        BY <1>5, <1>6, <4>1 DEF IsReference
    <3>2. CASE j # i
      <4>1. regs[j] = Regs[j] /\ Regs[j] # Null
        BY <1>2, <1>9, <3>2 DEF IsReference
      <4>2. Regs[j] \in Live(heap)
        BY <4>1, RegsForm
      <4>3. IsReference(heap, Regs[j]) /\ d = CellOf(heap, Regs[j])
        BY <1>2, <1>5, <1>9, <4>1, <4>2
      <4>4. d \in UsedCells(heap)
        BY <4>2, <4>3 DEF Inv, Sound
      <4>5. heap.cell[d].target \in Live(heap) /\ ~IsReference(heap, heap.cell[d].target)
        BY <4>4 DEF Inv, Sound, CellsSound
      <4>6. k.cell[d].target = heap.cell[d].target
        BY <1>2, <1>5, <4>4
      <4>. QED
        BY <1>2, <1>5, <4>4, <4>5, <4>6
    <3>. QED
      BY <3>1, <3>2
  <2>. QED
    BY <1>2, <1>3, <1>5, <1>9, <2>1, ReferenceOverReference DEF n
<1>. QED
  BY <1>7, <1>8, <1>9

\* The wrapped register is copied after it is wrapped.
LEMMA RefKeeps ==
  ASSUME Inv, Permitted, NEW i \in Registers, NEW j \in Registers, Ref(i, j)
  PROVE  Inv'
<1> DEFINE h == Wrapped(i)
           regs == WrappedRegs(i)
           o == FreshObject(h)
           copied == Clone(h, regs[i])
           others == Elsewhere(frames, tmp, caught)
<1>1. /\ heap' = SetHeap(copied, regs, j, o)
      /\ frames' = WithTop(SetRegs(copied, regs, j, o), {})
      /\ UNCHANGED <<prepared, tmp, caught>>
  BY RegsForm DEF Ref, WrappedKeep
<1>2. Flat(heap')
  BY DEF Permitted, FlatReferences, Flat
<1>3. /\ regs \in RegisterSet /\ Distinct(regs) /\ others \cap Contents(regs) = {}
      /\ Sound(h, others \cup Contents(regs), Lost)
      /\ regs[i] # Null /\ Objects \ Live(h) # {}
  <2>1. CASE IsReference(heap, Regs[i])
    BY <2>1, RegsForm, RoomFor DEF Wrapped, WrappedRegs, Ref, IsReference
  <2>2. CASE ~IsReference(heap, Regs[i])
    <3> DEFINE w == FreshObject(heap)
    <3>1. /\ Room(2, 1)
          /\ Objects \ Live(heap) # {} /\ Cells \ UsedCells(heap) # {}
          /\ \A x : (Objects \ Live(heap)) \ {x} # {}
      BY <2>2, RoomFor DEF Ref
    <3>2. Regs[i] # Null
      BY <1>1, <1>2, <3>1, NoReferenceToNull
    <3>3. /\ w # Null
          /\ Live(h) = Live(heap) \cup {w}
          /\ regs \in RegisterSet /\ Distinct(regs)
          /\ \A k \in Registers : regs[k] = IF k = i THEN w ELSE Regs[k]
          /\ others \cap Contents(regs) = {}
          /\ Sound(h, others \cup Contents(regs), Lost)
      BY <2>2, <3>1, <3>2, WrappedForm
    <3> HIDE DEF h, regs, w, others
    <3>4. Objects \ Live(h) = (Objects \ Live(heap)) \ {w}
      BY <3>3
    <3>. QED
      BY <3>1, <3>3, <3>4
  <2>. QED
    BY <2>1, <2>2
<1> HIDE DEF h, regs
<1>4. regs[i] \in Live(h) /\ h \in Heap
  BY <1>3, ContentsMember DEF Sound
<1>5. o \in Objects /\ o \notin Live(h)
  BY <1>3, FreshFree
<1>6. Sound(copied, others \cup Contents(regs) \cup {o}, Lost)
  BY <1>3, <1>4, CloneSound
<1>7. o \notin others /\ o \notin Contents(regs)
  BY <1>3, <1>5 DEF Sound
<1> HIDE DEF o, copied
<1>. QED
  BY <1>1, <1>3, <1>5, <1>6, <1>7, RegsForm, StoreStep

LEMMA FrameNewKeeps ==
  ASSUME Inv, Permitted, FrameNew
  PROVE  Inv'
<1>1. prepared' \in SlotSet /\ Lent(prepared') = {}
  BY DEF FrameNew, EmptySlots, SlotSet, Lent, Range
<1>2. UNCHANGED <<heap, frames, tmp, caught>>
  BY DEF FrameNew
<1>. QED
  BY <1>1, <1>2, FramesStay DEF Inv

\* A slot that is filled was empty.
LEMMA SlotForm ==
  ASSUME Inv, Careful, prepared # Null, NEW h, NEW s \in Slots, NEW o \in Objects,
         SetSlot(h, s, o)
  PROVE  /\ heap' = h
         /\ prepared' \in SlotSet
         /\ Lent(prepared') \subseteq Lent(prepared) \cup {o}
<1>1. prepared \in SlotSet
  BY DEF Inv, TypeOK
<1>2. prepared[s] = Null
  BY DEF Careful, SetSlot, Follows
<1>3. heap' = h /\ prepared' = [prepared EXCEPT ![s] = o]
  BY <1>2 DEF SetSlot, SetHeap, SetRegs, IsReference
<1>4. prepared' \in SlotSet /\ prepared' # Null
  BY <1>1, <1>3, NullAssumption DEF SlotSet
<1>5. \A t \in Slots : prepared'[t] = IF t = s THEN o ELSE prepared[t]
  BY <1>1, <1>3 DEF SlotSet
<1>6. DOMAIN prepared = Slots /\ DOMAIN prepared' = Slots
  BY <1>1, <1>4 DEF SlotSet
<1>. QED
  BY <1>3, <1>4, <1>5, <1>6 DEF Lent, Range

LEMMA ParamKeeps ==
  ASSUME Inv, Permitted, Careful, NEW s \in Slots, NEW i \in Registers, Param(s, i)
  PROVE  Inv'
<1> DEFINE o == Fetch(heap, Regs[i])
<1>1. o \in Live(heap) /\ o \in Objects
  BY FetchLive DEF Param, Filled, Live
<1> HIDE DEF o
<1>2. SetSlot(heap, s, o) /\ prepared # Null /\ UNCHANGED <<frames, tmp, caught>>
  BY DEF Param, o
<1>3. /\ heap' = heap /\ prepared' \in SlotSet
      /\ Lent(prepared') \subseteq Lent(prepared) \cup {o}
  BY <1>1, <1>2, SlotForm
<1>. QED
  BY <1>1, <1>2, <1>3, FramesStay DEF Inv

\* The slot refers to the Reference that stays in the register.
LEMMA ParefKeeps ==
  ASSUME Inv, Permitted, Careful, NEW s \in Slots, NEW i \in Registers, Paref(s, i)
  PROVE  Inv'
<1> DEFINE h == Wrapped(i)
           regs == WrappedRegs(i)
<1>1. prepared # Null /\ SetSlot(h, s, regs[i]) /\ UNCHANGED <<tmp, caught>>
  BY DEF Paref
<1>2. CASE IsReference(heap, Regs[i])
  <2>1. h = heap /\ regs = Regs /\ Regs[i] # Null
    BY <1>2 DEF Wrapped, WrappedRegs, IsReference
  <2>2. Regs[i] \in Live(heap) /\ Regs[i] \in Objects
    BY <2>1, RegsForm DEF Live
  <2>3. /\ heap' = heap /\ prepared' \in SlotSet
        /\ Lent(prepared') \subseteq Lent(prepared) \cup {Regs[i]}
    BY <1>1, <2>1, <2>2, SlotForm
  <2>4. frames' = frames
    BY <1>2 DEF Paref
  <2>. QED
    BY <1>1, <2>2, <2>3, <2>4, FramesStay DEF Inv
<1>3. CASE ~IsReference(heap, Regs[i])
  <2> DEFINE w == FreshObject(heap)
             c == FreshCell(heap)
  <2>1. Objects \ Live(heap) # {} /\ Cells \ UsedCells(heap) # {}
    BY <1>3, RoomFor DEF Paref
  <2>2. /\ w \in Objects
        /\ c \in UsedCells(h) /\ h.cell[c].target = Regs[i]
        /\ Live(h) = Live(heap) \cup {w}
        /\ regs \in RegisterSet /\ Distinct(regs)
        /\ \A k \in Registers : regs[k] = IF k = i THEN w ELSE Regs[k]
        /\ Elsewhere(frames, tmp, caught) \cap Contents(regs) = {}
        /\ Regs[i] # Null => Sound(h, Elsewhere(frames, tmp, caught) \cup Contents(regs), Lost)
    BY <1>3, <2>1, WrappedForm
  <2>3. frames' = WithTop(regs, {})
    BY <1>3, RegsForm DEF Paref
  <2> HIDE DEF h, regs, w, c
  <2>4. /\ heap' = h /\ prepared' \in SlotSet
        /\ Lent(prepared') \subseteq Lent(prepared) \cup {w}
    BY <1>1, <2>2, SlotForm
  <2>5. Regs[i] # Null
    BY <2>2, <2>4 DEF Permitted, FlatReferences
  <2>6. Retopped(frames, frames', regs)
    BY <2>2, <2>3, RegsForm
  <2>7. Lent(prepared') \subseteq Lent(prepared) \cup Live(heap')
    BY <2>2, <2>4
  <2>. QED
    BY <1>1, <2>2, <2>4, <2>5, <2>6, <2>7, RegsForm, TopStep
<1>. QED
  BY <1>2, <1>3

-----------------------------------------------------------------------------
(***************************************************************************)
(* Calls.                                                                  *)
(***************************************************************************)
LEMMA CallKeeps ==
  ASSUME Inv, Permitted, NEW r \in Registers, Call(r)
  PROVE  Inv'
<1> DEFINE f == [regs |-> EmptyRegisters, keep |-> {}, args |-> prepared, ret |-> r]
           n == Len(frames)
<1>1. /\ frames' = Append(frames, f) /\ n < MaxFrames /\ prepared # Null
      /\ prepared' = Null /\ UNCHANGED <<heap, tmp, caught>>
  BY DEF Call
<1>2. prepared \in SlotSet /\ frames \in Seq(Frame) /\ frames # <<>> /\ MaxFrames \in Nat
  BY <1>1, OwnershipAssumption DEF Inv, TypeOK
<1>3. f \in Frame
  BY <1>2 DEF Frame, EmptyRegisters, RegisterSet
<1>4. f.regs = EmptyRegisters /\ f.keep = {} /\ f.args = prepared
  OBVIOUS
<1>5. Distinct(EmptyRegisters) /\ Contents(EmptyRegisters) = {}
  BY DEF Distinct, Contents, EmptyRegisters
<1> HIDE DEF f
<1>6. /\ frames' \in Seq(Frame) /\ Len(frames') = n + 1 /\ n \in Nat
      /\ DOMAIN frames = 1 .. n /\ DOMAIN frames' = 1 .. n + 1
      /\ \A k \in 1 .. n : frames'[k] = frames[k]
      /\ frames'[n + 1] = f
  BY <1>1, <1>2, <1>3
<1> HIDE DEF n
<1>7. frames' # <<>> /\ Len(frames') <= MaxFrames
  BY <1>1, <1>2, <1>6 DEF n
<1>8. \A k \in DOMAIN frames' : k \in 1 .. n \/ k = n + 1
  BY <1>6
<1>9. \A k \in DOMAIN frames : k \in DOMAIN frames' /\ frames'[k] = frames[k]
  BY <1>6
<1>10. \A k \in DOMAIN frames' :
         \/ k \in DOMAIN frames /\ frames'[k] = frames[k]
         \/ k = n + 1 /\ frames'[k] = f /\ Contents(frames'[k].regs) = {}
  BY <1>4, <1>5, <1>6, <1>8
<1>11. Stack(frames', tmp', caught')
  <2>1. \A k \in DOMAIN frames' : frames'[k].keep = {} /\ Distinct(frames'[k].regs)
    BY <1>4, <1>5, <1>10 DEF Inv, Stack, Apart
  <2>2. \A k, l \in DOMAIN frames' :
          k # l => Contents(frames'[k].regs) \cap Contents(frames'[l].regs) = {}
    BY <1>10 DEF Inv, Stack, Apart
  <2>3. \A k \in DOMAIN frames' : Contents(frames'[k].regs) \cap Others(tmp, caught) = {}
    BY <1>10 DEF Inv, Stack, Apart
  <2>. QED
    BY <1>1, <1>6, <1>7, <2>1, <2>2, <2>3 DEF Inv, Stack, Apart
<1>12. Held(frames', tmp', caught') = Held(frames, tmp, caught)
  <2>1. UNION {Contents(frames'[k].regs) : k \in DOMAIN frames'}
          = UNION {Contents(frames[k].regs) : k \in DOMAIN frames}
    BY <1>9, <1>10
  <2>. QED
    BY <1>1, <2>1 DEF Held
<1>13. LentObjects' \subseteq LentObjects
  <2>1. \A k \in DOMAIN frames' : Lent(frames'[k].args) \subseteq LentObjects
    BY <1>4, <1>10 DEF LentObjects
  <2>2. Lent(prepared') = {}
    BY <1>1 DEF Lent
  <2>. QED
    BY <2>1, <2>2 DEF LentObjects
<1>. QED
  BY <1>1, <1>7, <1>11, <1>12, <1>13, Kept DEF Inv

LEMMA ArgKeeps ==
  ASSUME Inv, Permitted, NEW s \in Slots, NEW i \in Registers, Arg(s, i)
  PROVE  Inv'
<1> DEFINE h == Clone(heap, Top.args[s])
           o == FreshObject(heap)
<1>1. Objects \ Live(heap) # {} /\ o \in Objects \ Live(heap)
  BY RoomFor, FreshFree DEF Arg
<1>2. Top.args[s] \in Live(heap)
  <2>1. Len(frames) \in DOMAIN frames
    BY TopFrame DEF Inv, Stack
  <2>2. Top = frames[Len(frames)] /\ Top.args \in SlotSet
    BY RegsForm DEF Frame
  <2>3. Top.args # Null /\ Top.args[s] # Null
    BY <2>2, NullAssumption DEF Arg
  <2>4. Top.args[s] \in Range(Top.args)
    BY <2>2 DEF SlotSet, Range
  <2>5. Top.args[s] \in LentObjects
    BY <2>1, <2>2, <2>3, <2>4 DEF LentObjects, Lent
  <2>. QED
    BY <2>5 DEF Inv
<1>3. Sound(h, Held(frames, tmp, caught) \cup {o}, Lost)
  BY <1>1, <1>2, CloneSound DEF Inv
<1>4. heap' = SetHeap(h, Regs, i, o) /\ frames' = WithTop(SetRegs(h, Regs, i, o), {})
  BY RegsForm DEF Arg
<1> HIDE DEF h
<1>. QED
  BY <1>1, <1>3, <1>4, PlaceStep DEF Arg

\* The frames at the bottom of the stack.
LEMMA LowerFrames ==
  ASSUME NEW fs, NEW t0, NEW c0, Stack(fs, t0, c0), NEW gs \in Seq(Frame), gs # <<>>,
         \A k \in DOMAIN gs : k \in DOMAIN fs /\ gs[k] = fs[k],
         NEW t \in Objects \cup {Null}, NEW c \in Objects \cup {Null}, t = c => t = Null,
         \A k \in DOMAIN gs : Contents(fs[k].regs) \cap Others(t, c) = {}
  PROVE  Stack(gs, t, c)
<1>1. \A k \in DOMAIN gs : gs[k].keep = {} /\ Distinct(gs[k].regs)
  BY DEF Stack, Apart
<1>2. \A k, l \in DOMAIN gs : k # l => Contents(gs[k].regs) \cap Contents(gs[l].regs) = {}
  BY DEF Stack, Apart
<1>3. \A k \in DOMAIN gs : Contents(gs[k].regs) \cap Others(t, c) = {}
  OBVIOUS
<1>. QED
  BY <1>1, <1>2, <1>3 DEF Stack, Apart

LEMMA FrontForm ==
  ASSUME NEW fs \in Seq(Frame), fs # <<>>
  PROVE  /\ Front(fs) \in Seq(Frame) /\ Len(Front(fs)) = Len(fs) - 1
         /\ DOMAIN Front(fs) = 1 .. Len(fs) - 1
         /\ \A k \in 1 .. Len(fs) - 1 : Front(fs)[k] = fs[k]
<1> DEFINE gs == Front(fs)
           n == Len(fs)
<1>1. fs \in Seq(Frame) /\ fs # <<>>
  OBVIOUS
<1>2. n \in Nat \ {0} /\ DOMAIN fs = 1 .. n
  BY <1>1, TopFrame
<1>3. /\ gs \in Seq(Frame) /\ Len(gs) = n - 1 /\ DOMAIN gs = 1 .. n - 1
      /\ \A k \in 1 .. n - 1 : gs[k] = fs[k]
  BY <1>1, <1>2 DEF Front
<1>. QED
  BY <1>3

LEMMA CallersForm ==
  ASSUME NEW fs, NEW t, NEW c, Stack(fs, t, c), Front(fs) # <<>>
  PROVE  /\ Stack(Front(fs), t, c)
         /\ Held(Front(fs), t, c) = Elsewhere(fs, t, c)
         /\ Len(Front(fs)) < Len(fs)
         /\ \A k \in DOMAIN Front(fs) : k \in DOMAIN fs /\ Front(fs)[k] = fs[k]
<1> DEFINE gs == Front(fs)
           n == Len(fs)
<1>1. fs \in Seq(Frame) /\ fs # <<>>
  BY DEF Stack
<1>2. n \in Nat \ {0} /\ DOMAIN fs = 1 .. n
  BY <1>1, TopFrame
<1>3. /\ gs \in Seq(Frame) /\ Len(gs) = n - 1 /\ DOMAIN gs = 1 .. n - 1
      /\ \A k \in 1 .. n - 1 : gs[k] = fs[k]
  BY <1>1, FrontForm
<1> HIDE DEF gs, n
<1>4. \A k \in DOMAIN gs : k \in DOMAIN fs /\ gs[k] = fs[k]
  BY <1>2, <1>3, Positions
<1>5. Stack(gs, t, c)
  BY <1>3, <1>4, LowerFrames DEF Stack, Apart, gs
<1>6. Held(gs, t, c) = Elsewhere(fs, t, c)
  BY <1>3 DEF Held, Elsewhere, Below, n
<1>7. Len(gs) < n
  BY <1>2, <1>3
<1>. QED
  BY <1>4, <1>5, <1>6, <1>7 DEF gs, n

\* The frame of a function that ends, with what its registers hold.
LEMMA DropTop ==
  ASSUME Inv, NEW h
  PROVE  DropFrames(h, {Top}) = DeleteAll(h, Contents(Regs))
<1>1. Owned(Top) = Contents(Regs)
  BY RegsForm DEF Owned, Contents, Regs, Keep
<1>2. UNION {Owned(f) : f \in {Top}} = Owned(Top)
  OBVIOUS
<1>. QED
  BY <1>1, <1>2 DEF DropFrames

LEMMA EndKeeps ==
  ASSUME Inv, Permitted, End
  PROVE  Inv'
<1> DEFINE S == Contents(Regs)
           o == FreshObject(heap)
<1>1. Callers # <<>> /\ UNCHANGED <<prepared, tmp, caught>>
  BY DEF End
<1>2. /\ Stack(Callers, tmp, caught)
      /\ Held(Callers, tmp, caught) = Elsewhere(frames, tmp, caught)
      /\ Len(Callers) < Len(frames)
      /\ \A k \in DOMAIN Callers : k \in DOMAIN frames /\ Callers[k] = frames[k]
  BY <1>1, CallersForm DEF Inv, Callers
<1>3. Callers \in Seq(Frame) /\ frames \in Seq(Frame) /\ Len(frames) <= MaxFrames
  BY <1>2 DEF Stack, Inv, TypeOK
<1>4. Len(Callers) \in Nat /\ Len(frames) \in Nat /\ MaxFrames \in Nat
  BY <1>3, OwnershipAssumption
<1>5. Len(Callers) <= MaxFrames
  BY <1>2, <1>3, <1>4
<1>6. prepared \in SlotSet \cup {Null}
  BY DEF Inv, TypeOK
<1>7. S \in SUBSET Held(frames, tmp, caught)
      /\ Held(frames, tmp, caught) \ S = Elsewhere(frames, tmp, caught)
  BY RegsForm
<1> HIDE DEF S
<1>8. ASSUME \A k \in DOMAIN frames' : k \in DOMAIN Callers /\ frames'[k].args = Callers[k].args
      PROVE  LentObjects' \subseteq LentObjects
  BY <1>1, <1>2, <1>8 DEF LentObjects
<1>9. CASE Top.ret = 0
  <2>1. heap' = DeleteAll(heap, S) /\ frames' = Callers
    BY <1>9, DropTop DEF End, S
  <2>2. Sound(heap', Held(frames', tmp', caught'), Lost)
    BY <1>1, <1>2, <1>7, <2>1, DeleteAllSound DEF Inv
  <2>. QED
    BY <1>1, <1>2, <1>5, <1>6, <1>8, <2>1, <2>2, Kept
<1>10. CASE Top.ret # 0
  <2> DEFINE k == Clone(heap, Regs[0])
             h == DeleteAll(k, S)
             regs == Last(Callers).regs
             others == Elsewhere(Callers, tmp, caught)
             now == SetRegs(h, regs, Top.ret, o)
  <2>1. Regs[0] # Null /\ Room(1, 0)
    BY <1>10 DEF End, Filled
  <2>2. Objects \ Live(heap) # {} /\ o \in Objects /\ o \notin Live(heap)
    BY <2>1, RoomFor, FreshFree
  <2>3. Regs[0] \in Live(heap)
    BY <2>1, RegsForm, OwnershipAssumption
  <2>4. Sound(k, Held(frames, tmp, caught) \cup {o}, Lost)
    BY <2>2, <2>3, CloneSound DEF Inv
  <2>5. /\ regs \in RegisterSet /\ Distinct(regs)
        /\ Held(Callers, tmp, caught) = others \cup Contents(regs)
        /\ others \cap Contents(regs) = {}
        /\ Aside(Callers, tmp, caught)
    BY <1>2, TopSplit
  <2>6. h = DropFrames(k, {Top})
    BY DropTop DEF S
  <2>7. /\ heap' = SetHeap(h, regs, Top.ret, o)
        /\ frames' = [Callers EXCEPT ![Len(Callers)].regs = PlaceRegs(h, regs, Top.ret, o)]
    BY <1>10, <2>6 DEF End
  <2>8. Top.ret \in Registers
    BY RegsForm DEF Frame
  <2>9. frames' = [Callers EXCEPT ![Len(Callers)].regs = now]
    BY <2>5, <2>7, <2>8, PlaceIsSet
  <2> HIDE DEF o, k
  <2>10. o \notin Elsewhere(frames, tmp, caught) /\ o \notin S
    BY <2>2, RegsForm DEF S
  <2>11. (Held(frames, tmp, caught) \cup {o}) \ S = others \cup Contents(regs) \cup {o}
    BY <1>2, <1>7, <2>5, <2>10
  <2>12. S \in SUBSET (Held(frames, tmp, caught) \cup {o})
    BY <1>7
  <2>13. Sound(h, (Held(frames, tmp, caught) \cup {o}) \ S, Lost)
    BY <2>4, <2>12, DeleteAllSound
  <2> HIDE DEF h, regs, others
  <2>14. Sound(h, others \cup Contents(regs) \cup {o}, Lost)
    BY <2>11, <2>13
  <2>15. o \notin others /\ o \notin Contents(regs)
    BY <1>2, <2>5, <2>10
  <2>16. Flat(SetHeap(h, regs, Top.ret, o))
    BY <2>7 DEF Permitted, FlatReferences, Flat
  <2>17. /\ Sound(heap', others \cup Contents(now), Lost)
         /\ now \in RegisterSet /\ Distinct(now) /\ others \cap Contents(now) = {}
    BY <2>2, <2>5, <2>7, <2>8, <2>14, <2>15, <2>16, SetSound
  <2>18. Retopped(Callers, frames', now)
    BY <1>2, <2>9, <2>17, RetopForm DEF Stack
  <2> HIDE DEF now
  <2>19. /\ Stack(frames', tmp, caught)
         /\ Held(frames', tmp, caught) = others \cup Contents(now)
    BY <1>2, <2>5, <2>17, <2>18, TopChanged DEF others
  <2>20. LentObjects' \subseteq LentObjects
    BY <1>8, <2>18 DEF Retopped
  <2>21. Len(frames') <= MaxFrames
    BY <1>5, <2>18 DEF Retopped
  <2>. QED
    BY <1>1, <1>6, <2>17, <2>19, <2>20, <2>21, Kept
<1>. QED
  BY <1>9, <1>10

-----------------------------------------------------------------------------
(***************************************************************************)
(* Exceptions.                                                             *)
(***************************************************************************)

LEMMA Between ==
  ASSUME NEW n \in Nat \ {0}, NEW k \in 1 .. n - 1
  PROVE  /\ \A j \in 1 .. k : j \in 1 .. n - 1 /\ j \in 1 .. n /\ j # n
         /\ \A j \in k + 1 .. n - 1 : j \in 1 .. n - 1 /\ j \in 1 .. n /\ j # n
         /\ \A j : j \in k + 1 .. n <=> j = n \/ j \in k + 1 .. n - 1
         /\ \A j \in 1 .. n - 1 : j \in 1 .. k \/ j \in k + 1 .. n - 1
         /\ \A j \in 1 .. k, l \in k + 1 .. n - 1 : l # j
OBVIOUS

\* The frame on top is put back in another form.
LEMMA PutBack ==
  ASSUME NEW fs \in Seq(Frame), fs # <<>>, NEW f \in Frame
  PROVE  LET gs == Append(Front(fs), f)
         IN /\ gs \in Seq(Frame) /\ Len(gs) = Len(fs) /\ gs[Len(fs)] = f
            /\ \A j \in 1 .. Len(fs) - 1 : gs[j] = fs[j]
<1> DEFINE n == Len(fs)
           es == Front(fs)
<1>1. n \in Nat \ {0}
  BY TopFrame
<1>2. es \in Seq(Frame) /\ Len(es) = n - 1 /\ \A j \in 1 .. n - 1 : es[j] = fs[j]
  BY FrontForm
<1> HIDE DEF es, n
<1>3. Append(es, f) \in Seq(Frame) /\ Len(Append(es, f)) = n /\ Append(es, f)[n] = f
  BY <1>1, <1>2
<1>4. \A j \in 1 .. n - 1 : Append(es, f)[j] = es[j]
  BY <1>1, <1>2
<1>. QED
  BY <1>2, <1>3, <1>4 DEF n, es

\* The frames above the one that catches are dropped, but the thrown object is
\* not deleted with them.  The object caught before is lost, if there was one.
LEMMA ThrowForm ==
  ASSUME Inv, Careful, NEW i \in Registers, NEW k \in DOMAIN frames, Throw(i, k)
  PROVE  /\ Stack(frames', tmp', caught') /\ Len(frames') = k /\ k < Len(frames)
         /\ \A j \in DOMAIN frames' : j \in DOMAIN frames /\ frames'[j] = frames[j]
         /\ Regs[i] # Null /\ caught' = Regs[i] /\ tmp' = tmp /\ prepared' = prepared
         /\ \E S \in SUBSET Held(frames, tmp, caught) :
              /\ heap' = DeleteAll(heap, S)
              /\ Held(frames', tmp', caught') \subseteq Held(frames, tmp, caught) \ S
              /\ \/ Held(frames', tmp', caught') = Held(frames, tmp, caught) \ S
                 \/ Lost = Objects
<1> DEFINE n == Len(frames)
           thrown == [Top EXCEPT !.keep = @ \cup {i}]
           stack == Append(Callers, thrown)
           dropped == {stack[j] : j \in k + 1 .. Len(stack)}
           S == UNION {Owned(f) : f \in dropped}
           o == Regs[i]
           held == Held(frames, tmp, caught)
           now == Held(frames', tmp', caught')
<1>1. /\ o # Null /\ k < n /\ heap' = DeleteAll(heap, S)
      /\ frames' = SubSeq(stack, 1, k) /\ tmp' = tmp /\ caught' = o /\ prepared' = prepared
  BY DEF Careful, Throw, Follows, Filled, DropFrames
<1>2. /\ frames \in Seq(Frame) /\ frames # <<>> /\ n \in Nat \ {0} /\ DOMAIN frames = 1 .. n
      /\ Top = frames[n] /\ Top \in Frame /\ n <= MaxFrames /\ MaxFrames \in Nat
      /\ \A j \in 1 .. n : frames[j].keep = {}
  BY TopFrame, RegsForm, OwnershipAssumption DEF Inv, Stack, TypeOK
<1>3. /\ thrown \in Frame /\ thrown.regs = Regs /\ thrown.keep = {i}
  BY <1>2, RegsForm DEF Frame, Regs, Keep
<1> HIDE DEF thrown
<1>4. /\ stack \in Seq(Frame) /\ Len(stack) = n /\ stack[n] = thrown
      /\ \A j \in 1 .. n - 1 : stack[j] = frames[j]
  BY <1>2, <1>3, PutBack DEF Callers
<1> HIDE DEF stack, n
<1>5. k \in 1 .. n - 1 /\ k + 1 <= n
  BY <1>1, <1>2 DEF n
<1>6. /\ frames' \in Seq(Frame) /\ Len(frames') = k /\ DOMAIN frames' = 1 .. k
      /\ \A j \in 1 .. k : frames'[j] = stack[j]
  BY <1>1, <1>2, <1>4, <1>5
<1>7. \A j \in 1 .. k : j \in 1 .. n - 1 /\ j \in 1 .. n /\ j # n
  BY <1>2, <1>5, Between
<1>8. \A j \in 1 .. k : frames'[j] = frames[j]
  BY <1>4, <1>6, <1>7
<1>9. Owned(thrown) = Contents(Regs) \ {o}
  <2>1. \A j \in Registers \ {i} : Regs[j] = Null \/ Regs[j] # o
    BY RegsForm DEF Distinct
  <2>2. Owned(thrown) = {Regs[j] : j \in Registers \ {i}} \ {Null}
    BY <1>3 DEF Owned
  <2>. QED
    BY <2>1, <2>2 DEF Contents
<1>10. \A j \in 1 .. n - 1 : Owned(stack[j]) = Contents(frames[j].regs)
  <2> SUFFICES ASSUME NEW j \in 1 .. n - 1 PROVE Owned(stack[j]) = Contents(frames[j].regs)
    OBVIOUS
  <2>1. stack[j] = frames[j] /\ frames[j].keep = {}
    BY <1>2, <1>4, Positions
  <2>. QED
    BY <2>1 DEF Owned, Contents
<1>11. \A j : j \in k + 1 .. n <=> j = n \/ j \in k + 1 .. n - 1
  BY <1>2, <1>5, Between
<1>12. \A j \in k + 1 .. n - 1 : j \in 1 .. n - 1 /\ j \in 1 .. n /\ j # n
  BY <1>2, <1>5, Between
<1>13. S = (Contents(Regs) \ {o}) \cup (UNION {Contents(frames[j].regs) : j \in k + 1 .. n - 1})
  <2>1. dropped = {stack[j] : j \in k + 1 .. n}
    BY <1>4
  <2> HIDE DEF dropped
  <2>2. S = UNION {Owned(stack[j]) : j \in k + 1 .. n}
    BY <2>1
  <2>. QED
    BY <1>4, <1>9, <1>10, <1>11, <1>12, <2>2
<1> HIDE DEF S, dropped
<1>14. /\ \A j, l \in 1 .. n : j # l => Contents(frames[j].regs) \cap Contents(frames[l].regs) = {}
       /\ \A j \in 1 .. n : Contents(frames[j].regs) \cap Others(tmp, caught) = {}
       /\ tmp \in Objects \cup {Null}
  BY <1>2 DEF Inv, Stack, Apart
<1>15. /\ Contents(Regs) = Contents(frames[n].regs) /\ o \in Contents(Regs)
       /\ o \in Objects /\ n \in 1 .. n
  BY <1>1, <1>2, RegsForm DEF Regs, Inv, Sound, Live
<1>16. held = Contents(Regs) \cup (UNION {Contents(frames[j].regs) : j \in 1 .. n - 1})
                \cup Others(tmp, caught)
  <2>1. \A j : j \in 1 .. n <=> j = n \/ j \in 1 .. n - 1
    BY <1>2, Positions
  <2>. QED
    BY <1>2, <1>15, <2>1 DEF Held
<1>17. now = (UNION {Contents(frames[j].regs) : j \in 1 .. k}) \cup Others(tmp, o)
  BY <1>1, <1>6, <1>8 DEF Held
<1>18. /\ (o # tmp /\ tmp \notin Contents(Regs)) \/ tmp = Null
       /\ \A j \in 1 .. n : tmp \notin Contents(frames[j].regs) \/ tmp = Null
       /\ \A j \in 1 .. n : j # n => o \notin Contents(frames[j].regs)
  BY <1>14, <1>15 DEF Others
<1> HIDE DEF o, held, now
<1>19. S \in SUBSET held
  BY <1>12, <1>13, <1>16
<1>20. now \subseteq held \ S
  <2> SUFFICES ASSUME NEW x \in now PROVE x \in held /\ x \notin S
    OBVIOUS
  <2>1. CASE \E j \in 1 .. k : x \in Contents(frames[j].regs)
    <3>1. PICK j \in 1 .. k : x \in Contents(frames[j].regs)
      BY <2>1
    <3>2. \A l \in k + 1 .. n - 1 : l # j
      BY <1>2, <1>5, Between
    <3>3. x \notin Contents(Regs)
      BY <1>7, <1>14, <1>15, <3>1
    <3>4. \A l \in k + 1 .. n - 1 : x \notin Contents(frames[l].regs)
      BY <1>7, <1>12, <1>14, <3>1, <3>2
    <3>. QED
      BY <1>7, <1>13, <1>16, <3>1, <3>3, <3>4
  <2>2. CASE x = o
    <3>1. \A l \in k + 1 .. n - 1 : x \notin Contents(frames[l].regs)
      BY <1>12, <1>18, <2>2
    <3>. QED
      BY <1>13, <1>15, <1>16, <2>2, <3>1
  <2>3. CASE x = tmp /\ x # Null
    <3>1. x \in Others(tmp, caught)
      BY <2>3 DEF Others
    <3>. QED
      BY <1>12, <1>13, <1>16, <1>18, <2>3, <3>1
  <2>. QED
    BY <1>17, <2>1, <2>2, <2>3 DEF Others
<1>21. now = held \ S \/ Lost = Objects
  <2>1. CASE Leakless
    <3>1. caught = Null
      BY <2>1 DEF Leakless, Throw, Follows, OwnershipRules
    <3>2. ASSUME NEW x \in held, x \notin S PROVE x \in now
      <4>1. CASE x \in Contents(Regs)
        <5>1. x = o
          BY <1>13, <3>2, <4>1
        <5>. QED
          BY <1>1, <1>17, <5>1 DEF Others
      <4>2. CASE \E j \in 1 .. n - 1 : x \in Contents(frames[j].regs)
        <5>1. PICK j \in 1 .. n - 1 : x \in Contents(frames[j].regs)
          BY <4>2
        <5>2. j \notin k + 1 .. n - 1
          BY <1>13, <3>2, <5>1
        <5>3. j \in 1 .. k
          BY <1>2, <1>5, <5>2, Between
        <5>. QED
          BY <1>17, <5>1, <5>3
      <4>3. CASE x \in Others(tmp, caught)
        BY <1>17, <3>1, <4>3 DEF Others
      <4>. QED
        BY <1>16, <3>2, <4>1, <4>2, <4>3
    <3>. QED
      BY <1>20, <3>2
  <2>. QED
    BY <2>1 DEF Lost
<1>22. \A j \in DOMAIN frames' : j \in DOMAIN frames /\ frames'[j] = frames[j]
  BY <1>2, <1>6, <1>7, <1>8
<1>23. Stack(frames', tmp', caught')
  <2>1. frames' # <<>>
    BY <1>5, <1>6
  <2>2. tmp = o => tmp = Null
    BY <1>15, <1>18
  <2>3. \A j \in DOMAIN frames' : Contents(frames[j].regs) \cap Others(tmp, o) = {}
    BY <1>6, <1>7, <1>18 DEF Others
  <2>. QED
    BY <1>1, <1>6, <1>14, <1>15, <1>22, <2>1, <2>2, <2>3, LowerFrames DEF Inv
<1>. QED
  BY <1>1, <1>6, <1>19, <1>20, <1>21, <1>22, <1>23 DEF now, held, n, o

LEMMA ThrowKeeps ==
  ASSUME Inv, Permitted, Careful, NEW i \in Registers, NEW k \in DOMAIN frames, Throw(i, k)
  PROVE  Inv'
<1> DEFINE held == Held(frames, tmp, caught)
           now == Held(frames', tmp', caught')
<1>1. /\ Stack(frames', tmp', caught') /\ Len(frames') = k /\ k < Len(frames)
      /\ \A j \in DOMAIN frames' : j \in DOMAIN frames /\ frames'[j] = frames[j]
      /\ tmp' = tmp /\ prepared' = prepared
  BY ThrowForm
<1>2. PICK S \in SUBSET held :
        /\ heap' = DeleteAll(heap, S)
        /\ now \subseteq held \ S
        /\ now = held \ S \/ Lost = Objects
  BY ThrowForm
<1>3. Sound(heap', now, Lost)
  <2>1. Sound(heap', held \ S, Lost)
    BY <1>2, DeleteAllSound DEF Inv
  <2>. QED
    BY <1>2, <2>1, ForgetSound
<1>4. LentObjects' \subseteq LentObjects
  BY <1>1 DEF LentObjects
<1>5. Len(frames') <= MaxFrames
  <2>1. frames \in Seq(Frame) /\ Len(frames) <= MaxFrames /\ MaxFrames \in Nat
    BY OwnershipAssumption DEF Inv, TypeOK
  <2>2. Len(frames) \in Nat /\ k \in Nat
    BY <2>1
  <2>. QED
    BY <1>1, <2>1, <2>2
<1>6. prepared' \in SlotSet \cup {Null}
  BY <1>1 DEF Inv, TypeOK
<1>. QED
  BY <1>1, <1>3, <1>4, <1>5, <1>6, Kept

-----------------------------------------------------------------------------
(***************************************************************************)
(* The invariant.                                                          *)
(***************************************************************************)
LEMMA InitInv ==
  ASSUME Init
  PROVE  Inv
<1> DEFINE f == [regs |-> EmptyRegisters, keep |-> {}, args |-> EmptySlots, ret |-> 0]
<1>1. /\ heap = [obj |-> [o \in Objects |-> Null], cell |-> [c \in Cells |-> Null]]
      /\ frames = <<f>> /\ prepared = Null /\ tmp = Null /\ caught = Null
  BY DEF Init
<1>2. f \in Frame
  BY OwnershipAssumption DEF Frame, EmptyRegisters, EmptySlots, RegisterSet, SlotSet
<1>3. f.regs = EmptyRegisters /\ f.keep = {} /\ f.args = EmptySlots
  OBVIOUS
<1>4. /\ Distinct(EmptyRegisters) /\ Contents(EmptyRegisters) = {} /\ Lent(EmptySlots) = {}
  BY DEF Distinct, Contents, EmptyRegisters, EmptySlots, Lent, Range
<1> HIDE DEF f
<1>5. /\ frames \in Seq(Frame) /\ frames # <<>> /\ Len(frames) = 1
      /\ DOMAIN frames = {1} /\ frames[1] = f
  BY <1>1, <1>2
<1>6. Others(tmp, caught) = {}
  BY <1>1 DEF Others
<1>7. Stack(frames, tmp, caught)
  BY <1>1, <1>3, <1>4, <1>5, <1>6 DEF Stack, Apart
<1>8. Held(frames, tmp, caught) = {} /\ LentObjects = {}
  BY <1>1, <1>3, <1>4, <1>5, <1>6 DEF Held, LentObjects, Lent
<1>9. heap \in Heap /\ Live(heap) = {} /\ UsedCells(heap) = {}
  BY <1>1 DEF Heap, Live, UsedCells
<1>10. Sound(heap, {}, Lost)
  BY <1>9 DEF Sound, CellsSound
<1>11. TypeOK
  BY <1>1, <1>5, <1>9, OwnershipAssumption DEF TypeOK
<1>. QED
  BY <1>7, <1>8, <1>10, <1>11 DEF Inv

LEMMA InstructionKeeps ==
  ASSUME Inv, Permitted, Careful, Instruction
  PROVE  Inv'
<1>1. CASE \E i \in Registers, v \in Values : New(i, v) \/ Modify(i, v)
  BY <1>1, NewKeeps, ModifyKeeps
<1>2. CASE \E i, j \in Registers : Move(i, j) \/ Copy(i, j) \/ Ref(i, j) \/ Swap(i, j)
  BY <1>2, MoveKeeps, CopyKeeps, RefKeeps, SwapKeeps
<1>3. CASE \E i \in Registers : Free(i) \/ Empty(i) \/ Tmpri(i) \/ Tmpro(i) \/ Pull(i)
  BY <1>3, FreeKeeps, EmptyKeeps, TmpriKeeps, TmproKeeps, PullKeeps
<1>4. CASE \E s \in Slots, i \in Registers : Param(s, i) \/ Paref(s, i) \/ Arg(s, i)
  BY <1>4, ParamKeeps, ParefKeeps, ArgKeeps
<1>5. CASE \E i \in Registers : Call(i)
  BY <1>5, CallKeeps
<1>6. CASE FrameNew
  BY <1>6, FrameNewKeeps
<1>7. CASE End
  BY <1>7, EndKeeps
<1>8. CASE \E i \in Registers, k \in DOMAIN frames : Throw(i, k)
  BY <1>8, ThrowKeeps
<1>. QED
  BY <1>1, <1>2, <1>3, <1>4, <1>5, <1>6, <1>7, <1>8 DEF Instruction

LEMMA NextInv ==
  ASSUME Inv, Careful, [Next]_vars
  PROVE  Inv'
<1>1. CASE Next
  <2>1. Permitted /\ Instruction
    BY <1>1 DEF Next, Careful, Follows, Permitted
  <2>. QED
    BY <2>1, InstructionKeeps
<1>2. CASE UNCHANGED vars
  BY <1>2 DEF vars, Inv, TypeOK, LentObjects
<1>. QED
  BY <1>1, <1>2

LEMMA Invariance ==
  ASSUME Careful
  PROVE  Spec => []Inv
<1>1. Init => Inv
  BY InitInv
<1>2. Inv /\ [Next]_vars => Inv'
  BY NextInv
<1>. QED
  BY <1>1, <1>2, PTL DEF Spec

-----------------------------------------------------------------------------
(***************************************************************************)
(* What follows from it.                                                   *)
(***************************************************************************)

\* Two owners of an object are one, and only live objects have one.
LEMMA OwnersForm ==
  ASSUME Inv, NEW o \in Objects
  PROVE  /\ \A p, q \in Owners(o) : p = q
         /\ Owners(o) # {} => o \in Live(heap)
         /\ o \in Live(heap) /\ Lost = {} => Owners(o) # {}
<1> DEFINE held == Held(frames, tmp, caught)
           InFrame(k, i) == k \in DOMAIN frames /\ i \in Registers /\ frames[k].regs[i] = o
           InCell(c) == c \in UsedCells(heap) /\ heap.cell[c].target = o
<1>1. o # Null
  BY OwnershipAssumption
<1>2. \A p : p \in Owners(o) <=> \/ \E k, i : InFrame(k, i) /\ p = <<k, i>>
                                 \/ \E c : InCell(c) /\ p = <<"cell", c>>
                                 \/ tmp = o /\ p = <<"tmp", 0>>
                                 \/ caught = o /\ p = <<"caught", 0>>
  <2>1. ASSUME NEW k \in DOMAIN frames, NEW p
        PROVE  p \in FrameOwners(k, o) <=> \E i : InFrame(k, i) /\ p = <<k, i>>
    BY DEF FrameOwners, Inv, Stack
  <2> HIDE DEF InCell
  <2>2. \A p : p \in UNION {FrameOwners(k, o) : k \in DOMAIN frames}
                 <=> \E k, i : InFrame(k, i) /\ p = <<k, i>>
    BY <2>1
  <2> HIDE DEF InFrame
  <2>3. \A p : p \in {<<"cell", c>> : c \in {d \in UsedCells(heap) : heap.cell[d].target = o}}
                 <=> \E c : InCell(c) /\ p = <<"cell", c>>
    BY DEF InCell
  <2>. QED
    BY <2>2, <2>3 DEF Owners
<1>3. \A k, i : InFrame(k, i) => o \in Contents(frames[k].regs)
  BY <1>1 DEF Contents
<1>4. \A k, l, i, j : InFrame(k, i) /\ InFrame(l, j) => k = l /\ i = j
  <2>1. \A k, l, i, j : InFrame(k, i) /\ InFrame(l, j) => k = l
    BY <1>3 DEF Inv, Stack, Apart
  <2>2. \A k, i, j : InFrame(k, i) /\ InFrame(k, j) => i = j
    BY <1>1 DEF Inv, Stack, Apart, Distinct
  <2>. QED
    BY <2>1, <2>2
<1>5. (\E k, i : InFrame(k, i)) => tmp # o /\ caught # o
  BY <1>1, <1>3 DEF Inv, Stack, Apart, Others
<1>6. ~(tmp = o /\ caught = o)
  BY <1>1 DEF Inv, Stack, Apart
<1>7. (\E k, i : InFrame(k, i)) \/ tmp = o \/ caught = o <=> o \in held
  <2>1. ASSUME NEW k \in DOMAIN frames, o \in Contents(frames[k].regs)
        PROVE  \E i : InFrame(k, i)
    BY <2>1 DEF Contents
  <2>2. (\E k, i : InFrame(k, i)) <=> \E k \in DOMAIN frames : o \in Contents(frames[k].regs)
    BY <1>3, <2>1
  <2> HIDE DEF InFrame
  <2>. QED
    BY <1>1, <2>2 DEF Held, Others
<1>8. (\E c : InCell(c)) <=> o \in Targets(heap)
  BY DEF Targets
<1>9. \A c, d : InCell(c) /\ InCell(d) => c = d
  BY DEF Inv, Sound, CellsSound
<1>10. \A c : InCell(c) => o \in Live(heap) /\ o \notin held
  BY DEF Inv, Sound, CellsSound
<1>11. held \subseteq Live(heap) /\ Live(heap) \subseteq held \cup Targets(heap) \cup Lost
  BY DEF Inv, Sound
<1> HIDE DEF InFrame, InCell, held
<1>12. ASSUME NEW p \in Owners(o), NEW q \in Owners(o) PROVE p = q
  BY <1>2, <1>4, <1>5, <1>6, <1>7, <1>9, <1>10
<1>13. Owners(o) # {} => o \in Live(heap)
  BY <1>2, <1>7, <1>10, <1>11
<1>14. o \in Live(heap) /\ Lost = {} => Owners(o) # {}
  <2> SUFFICES ASSUME o \in Live(heap), Lost = {} PROVE \E p : p \in Owners(o)
    OBVIOUS
  <2>1. (\E k, i : InFrame(k, i)) \/ tmp = o \/ caught = o \/ \E c : InCell(c)
    BY <1>7, <1>8, <1>11
  <2>. QED
    BY <1>2, <2>1
<1>. QED
  BY <1>12, <1>13, <1>14

LEMMA AtMostOne ==
  ASSUME NEW S, \A p, q \in S : p = q
  PROVE  Cardinality(S) = IF S = {} THEN 0 ELSE 1
<1>1. CASE S = {}
  BY <1>1, FS_EmptySet
<1>2. CASE S # {}
  <2>1. PICK p \in S : TRUE
    BY <1>2
  <2>2. S = {p}
    BY <2>1
  <2>. QED
    BY <1>2, <2>2, FS_Singleton
<1>. QED
  BY <1>1, <1>2

\* The variables have their types in programs that refer to objects only, leave
\* what they lent alone, and catch outside of the function that throws
\* (Reference, RegisterSet, Frame).
THEOREM OwnershipTypes ==
  ASSUME Careful
  PROVE  Spec => []TypeOK
<1>1. Inv => TypeOK
  BY DEF Inv
<1>. QED
  BY <1>1, Invariance, PTL

\* In these programs no object is deleted twice, and nothing owns one that is
\* gone, whatever they leak (~RegisterSet, rebind, ~Reference, free).
THEOREM DeletedOnce ==
  ASSUME Careful
  PROVE  Spec => []NoDoubleFree
<1>1. ASSUME Inv PROVE NoDoubleFree
  <2> SUFFICES ASSUME NEW o \in Objects
               PROVE  Cardinality(Owners(o)) <= IF o \in Live(heap) THEN 1 ELSE 0
    BY DEF NoDoubleFree
  <2>1. /\ Cardinality(Owners(o)) = IF Owners(o) = {} THEN 0 ELSE 1
        /\ Owners(o) # {} => o \in Live(heap)
    BY <1>1, OwnersForm, AtMostOne
  <2>. QED
    BY <2>1
<1>. QED
  BY <1>1, Invariance, PTL

\* In these programs the counter of a cell is the number of live References
\* that share it (Reference::copy, ~Reference).
THEOREM CountedRight ==
  ASSUME Careful
  PROVE  Spec => []CountsMatch
<1>1. Inv => CountsMatch
  BY DEF Inv, Sound, CellsSound, CountsMatch, Referring, UsedCells
<1>. QED
  BY <1>1, Invariance, PTL

\* Every object of a program that keeps to all conventions has one owner, whose
\* end deletes it: nothing leaks (~RegisterSet, Reference, move, pull).
THEOREM OwnedOnce ==
  ASSUME Leakless
  PROVE  Spec => []OneOwner
<1>1. Careful /\ Lost = {}
  BY DEF Careful, Leakless, OwnershipRules, Lost
<1>2. ASSUME Inv PROVE OneOwner
  <2> SUFFICES ASSUME NEW o \in Objects
               PROVE  Cardinality(Owners(o)) = IF o \in Live(heap) THEN 1 ELSE 0
    BY DEF OneOwner
  <2>1. /\ Cardinality(Owners(o)) = IF Owners(o) = {} THEN 0 ELSE 1
        /\ Owners(o) # {} <=> o \in Live(heap)
    BY <1>1, <1>2, OwnersForm, AtMostOne
  <2>. QED
    BY <2>1
<1>. QED
  BY <1>1, <1>2, Invariance, PTL

-----------------------------------------------------------------------------
(***************************************************************************)
(* Proof that the CPU's pointers implement registers that hold values, for *)
(* programs that keep to every convention: each instruction, seen through  *)
(* the meanings of the pointers, is a step of RegisterSemantics.           *)
(*                                                                         *)
(* The argument is the same: what is held somewhere is untouched by what   *)
(* happens to the rest, and a cell is in use exactly when a Reference to   *)
(* it is held.                                                             *)
(***************************************************************************)

\* The objects S are in k what they are in h.
Untouched(h, k, S) == \A o \in S : k.obj[o] = h.obj[o]

\* The objects S, and the variables there still are, are in k what they are in h.
Carried(h, k, S) ==
  /\ Untouched(h, k, S)
  /\ \A c \in UsedCells(k) : /\ c \in UsedCells(h)
                             /\ k.cell[c].target = h.cell[c].target
                             /\ k.obj[k.cell[c].target] = h.obj[h.cell[c].target]

-----------------------------------------------------------------------------
(***************************************************************************)
(* Meanings of registers, slots and frames.                                *)
(***************************************************************************)
LEMMA RegsMean ==
  ASSUME NEW h, NEW k, NEW regs \in RegisterSet, Untouched(h, k, Contents(regs))
  PROVE  MeaningOfRegs(k, regs) = MeaningOfRegs(h, regs)
<1>1. \A i \in Registers : Meaning(k, regs[i]) = Meaning(h, regs[i])
  BY ContentsMember DEF Meaning, Untouched
<1>. QED
  BY <1>1 DEF MeaningOfRegs

LEMMA SlotsMean ==
  ASSUME NEW h, NEW k, NEW slots \in SlotSet, Untouched(h, k, Lent(slots))
  PROVE  MeaningOfSlots(k, slots) = MeaningOfSlots(h, slots)
<1>1. \A s \in Slots : slots[s] # Null => slots[s] \in Lent(slots)
  BY NullAssumption DEF Lent, SlotSet, Range
<1>2. \A s \in Slots : Meaning(k, slots[s]) = Meaning(h, slots[s])
  BY <1>1 DEF Meaning, Untouched
<1>. QED
  BY <1>2 DEF MeaningOfSlots

\* The stack of frames, in values.
LEMMA StackForm ==
  ASSUME NEW h, NEW fs \in Seq(Frame)
  PROVE  LET ms == MeaningOfStack(h, fs)
         IN /\ DOMAIN ms = DOMAIN fs /\ Len(ms) = Len(fs)
            /\ ms \in Seq({MeaningOfFrame(h, fs[k]) : k \in DOMAIN fs})
            /\ ms = <<>> <=> fs = <<>>
            /\ \A k \in DOMAIN fs : ms[k] = MeaningOfFrame(h, fs[k])
            /\ fs # <<>> => Last(ms) = MeaningOfFrame(h, Last(fs))
<1> DEFINE ms == MeaningOfStack(h, fs)
           S == {MeaningOfFrame(h, fs[k]) : k \in DOMAIN fs}
<1>1. DOMAIN fs = 1 .. Len(fs) /\ Len(fs) \in Nat
  OBVIOUS
<1>2. DOMAIN ms = DOMAIN fs /\ \A k \in DOMAIN fs : ms[k] = MeaningOfFrame(h, fs[k])
  BY DEF MeaningOfStack
<1>3. \A k \in DOMAIN fs : MeaningOfFrame(h, fs[k]) \in S
  OBVIOUS
<1> HIDE DEF S
<1>4. ms \in [1 .. Len(fs) -> S]
  BY <1>1, <1>3 DEF MeaningOfStack
<1>5. ms \in Seq(S) /\ Len(ms) = Len(fs)
  <2>1. ms \in Seq(S)
    BY <1>1, <1>4, SeqDef
  <2>. QED
    BY <1>1, <1>2, <2>1, LenProperties
<1> HIDE DEF ms
<1>6. ms = <<>> <=> fs = <<>>
  BY <1>5, <1>1
<1>7. fs # <<>> => Last(ms) = MeaningOfFrame(h, Last(fs))
  BY <1>1, <1>2, <1>5, TopFrame DEF Last
<1>. QED
  BY <1>2, <1>5, <1>6, <1>7 DEF ms, S

\* The frame on top gets other registers, the others and all slots mean what
\* they meant.
LEMMA TopMeans ==
  ASSUME NEW fs \in Seq(Frame), fs # <<>>, NEW gs, NEW regs, Retopped(fs, gs, regs),
         NEW h, NEW k,
         \A j \in 1 .. Len(fs) - 1 : MeaningOfRegs(k, fs[j].regs) = MeaningOfRegs(h, fs[j].regs),
         \A j \in DOMAIN fs : MeaningOfSlots(k, fs[j].args) = MeaningOfSlots(h, fs[j].args)
  PROVE  LET ms == MeaningOfStack(h, fs)
         IN MeaningOfStack(k, gs) = [ms EXCEPT ![Len(ms)].regs = MeaningOfRegs(k, regs)]
<1> DEFINE n == Len(fs)
           ms == MeaningOfStack(h, fs)
           ns == MeaningOfStack(k, gs)
           rs == MeaningOfRegs(k, regs)
<1>1. n \in Nat \ {0} /\ DOMAIN fs = 1 .. n
  BY TopFrame
<1>2. /\ gs \in Seq(Frame) /\ gs # <<>> /\ DOMAIN gs = 1 .. n
      /\ \A j \in 1 .. n - 1 : gs[j] = fs[j]
      /\ gs[n].regs = regs
      /\ \A j \in 1 .. n : gs[j].args = fs[j].args /\ gs[j].ret = fs[j].ret
  BY <1>1 DEF Retopped
<1>3. /\ Len(ms) = n /\ DOMAIN ms = 1 .. n
      /\ \A j \in 1 .. n : ms[j] = MeaningOfFrame(h, fs[j])
  BY <1>1, StackForm
<1>4. DOMAIN ns = 1 .. n /\ \A j \in 1 .. n : ns[j] = MeaningOfFrame(k, gs[j])
  BY <1>2, StackForm
<1>5. ASSUME NEW j \in 1 .. n - 1 PROVE ns[j] = ms[j]
  <2>1. j \in 1 .. n
    BY <1>1, Positions
  <2>2. ns[j] = MeaningOfFrame(k, fs[j]) /\ ms[j] = MeaningOfFrame(h, fs[j])
    BY <1>2, <1>3, <1>4, <2>1
  <2>3. /\ MeaningOfRegs(k, fs[j].regs) = MeaningOfRegs(h, fs[j].regs)
        /\ MeaningOfSlots(k, fs[j].args) = MeaningOfSlots(h, fs[j].args)
    BY <1>1, <2>1
  <2>. QED
    BY <2>2, <2>3 DEF MeaningOfFrame
<1>6. ns[n] = [ms[n] EXCEPT !.regs = rs]
  <2>1. n \in 1 .. n
    BY <1>1
  <2> HIDE DEF ms, ns, rs, n
  <2>2. ns[n] = MeaningOfFrame(k, gs[n]) /\ ms[n] = MeaningOfFrame(h, fs[n])
    BY <1>3, <1>4, <2>1
  <2>3. MeaningOfSlots(k, gs[n].args) = MeaningOfSlots(h, fs[n].args) /\ gs[n].ret = fs[n].ret
    BY <1>1, <1>2, <2>1
  <2>. QED
    BY <1>2, <2>2, <2>3 DEF MeaningOfFrame, rs
<1>7. ms = [j \in 1 .. n |-> ms[j]] /\ ns = [j \in 1 .. n |-> ns[j]]
  <2>1. ms = [j \in DOMAIN fs |-> MeaningOfFrame(h, fs[j])]
    BY DEF MeaningOfStack
  <2>2. ns = [j \in DOMAIN gs |-> MeaningOfFrame(k, gs[j])]
    BY DEF MeaningOfStack
  <2> HIDE DEF ms, ns, n
  <2>. QED
    BY <1>1, <1>2, <1>3, <1>4, <2>1, <2>2
<1> HIDE DEF ms, ns, rs, n
<1>8. ns = [ms EXCEPT ![n] = [ms[n] EXCEPT !.regs = rs]]
  BY <1>1, <1>5, <1>6, <1>7, Positions
<1>9. ns = [ms EXCEPT ![n].regs = rs]
  BY <1>8
<1>. QED
  BY <1>3, <1>9 DEF ms, ns, rs

\* What is left of the stack when frames are dropped.
LEMMA BottomMeans ==
  ASSUME NEW fs \in Seq(Frame), NEW gs \in Seq(Frame), Len(gs) <= Len(fs),
         \A j \in DOMAIN gs : gs[j] = fs[j],
         NEW h, NEW k,
         \A j \in DOMAIN gs : /\ MeaningOfRegs(k, fs[j].regs) = MeaningOfRegs(h, fs[j].regs)
                              /\ MeaningOfSlots(k, fs[j].args) = MeaningOfSlots(h, fs[j].args)
  PROVE  MeaningOfStack(k, gs) = SubSeq(MeaningOfStack(h, fs), 1, Len(gs))
<1> DEFINE ms == MeaningOfStack(h, fs)
           ns == MeaningOfStack(k, gs)
           n == Len(gs)
           S == {MeaningOfFrame(h, fs[j]) : j \in DOMAIN fs}
<1>1. /\ n \in Nat /\ Len(fs) \in Nat /\ DOMAIN gs = 1 .. n /\ DOMAIN fs = 1 .. Len(fs)
      /\ n <= Len(fs) /\ 1 .. n \subseteq 1 .. Len(fs)
  OBVIOUS
<1>2. ms \in Seq(S) /\ Len(ms) = Len(fs) /\ \A j \in DOMAIN fs : ms[j] = MeaningOfFrame(h, fs[j])
  BY StackForm
<1>3. ns = [j \in 1 .. n |-> MeaningOfFrame(k, gs[j])]
  BY <1>1 DEF MeaningOfStack
<1> HIDE DEF ms, ns, S
<1>4. SubSeq(ms, 1, n) = [j \in 1 .. n |-> ms[j]]
  <2>1. SubSeq(ms, 1, n) = [j \in 1 .. (n - 1 + 1) |-> ms[j + 1 - 1]]
    BY <1>1, <1>2
  <2>. QED
    BY <1>1, <2>1
<1>5. \A j \in 1 .. n : MeaningOfFrame(k, gs[j]) = ms[j]
  BY <1>1, <1>2 DEF MeaningOfFrame
<1>. QED
  BY <1>3, <1>4, <1>5 DEF ns, ms

-----------------------------------------------------------------------------
(***************************************************************************)
(* The variables in use are the cells in use.                              *)
(***************************************************************************)

\* What stands for a variable is a Reference to its cell, and the cell exists.
LEMMA MeaningForm ==
  ASSUME NEW h, NEW held, NEW lost, Sound(h, held, lost),
         NEW o \in Live(h) \cup {Null}
  PROVE  /\ Meaning(h, o) = Null <=> o = Null
         /\ Abstract!IsVariable(Meaning(h, o)) <=> IsReference(h, o)
         /\ IsReference(h, o) => /\ Meaning(h, o) = Abstract!Variable(CellOf(h, o))
                                 /\ Abstract!NameOf(Meaning(h, o)) = CellOf(h, o)
                                 /\ CellOf(h, o) \in UsedCells(h)
         /\ \A d \in Cells : Meaning(h, o) = Abstract!Variable(d) =>
              IsReference(h, o) /\ CellOf(h, o) = d /\ d \in UsedCells(h)
         /\ Meaning(h, o) \in Abstract!Stored <=> o # Null /\ ~IsReference(h, o)
<1>1. CASE o = Null
  <2>1. Meaning(h, o) = Null /\ ~IsReference(h, o)
    BY <1>1 DEF Meaning, IsReference
  <2>2. \A d \in Cells : Null # <<"reference", d>>
    BY NullAssumption DEF Content
  <2>3. \A v \in Values : Null # <<"value", v>>
    BY NullAssumption DEF Content
  <2>. QED
    BY <1>1, <2>1, <2>2, <2>3
       DEF Abstract!IsVariable, Abstract!Variable, Abstract!Stored, Abstract!Value
<1>2. CASE o # Null
  <2>1. o \in Live(h) /\ o \in Objects /\ h \in Heap
    BY <1>2 DEF Live, Sound
  <2>2. Meaning(h, o) = h.obj[o] /\ h.obj[o] # Null /\ h.obj[o] \in Content
    BY <1>2, <2>1 DEF Meaning, Live, Heap
  <2>3. /\ IsReference(h, o) <=> h.obj[o][1] = "reference"
        /\ CellOf(h, o) = h.obj[o][2]
    BY <1>2, <2>2 DEF IsReference, CellOf
  <2>4. IsReference(h, o) => CellOf(h, o) \in UsedCells(h)
    BY <2>1 DEF Sound
  <2>5. \A d \in Cells : h.obj[o] = <<"reference", d>> => IsReference(h, o) /\ CellOf(h, o) = d
    BY <2>1, ReferenceForm
  <2>6. IsReference(h, o) => h.obj[o] = <<"reference", CellOf(h, o)>>
    BY <2>1, ReferenceForm
  <2>7. h.obj[o] \in {<<"value", v>> : v \in Values} <=> ~IsReference(h, o)
    <3>1. CASE \E v \in Values : h.obj[o] = <<"value", v>>
      BY <2>3, <3>1
    <3>2. CASE \E d \in Cells : h.obj[o] = <<"reference", d>>
      BY <2>3, <3>2
    <3>. QED
      BY <2>2, <3>1, <3>2 DEF Content
  <2>. QED
    BY <1>2, <2>2, <2>3, <2>4, <2>5, <2>6, <2>7
       DEF Abstract!IsVariable, Abstract!Variable, Abstract!NameOf, Abstract!Stored,
           Abstract!Value
<1>. QED
  BY <1>1, <1>2

\* A cell is in use exactly when a register, a slot, the temporary register or
\* the caught object stands for its variable.
LEMMA ReferredForm ==
  ASSUME NEW h, NEW fs, NEW slots \in SlotSet \cup {Null}, NEW t, NEW c,
         Stack(fs, t, c), Sound(h, Held(fs, t, c), {}),
         Lent(slots) \subseteq Live(h), \A k \in DOMAIN fs : Lent(fs[k].args) \subseteq Live(h),
         NEW d \in Cells
  PROVE  Abstract!Variable(d)
           \in Abstract!Referred(MeaningOfStack(h, fs), MeaningOfPrepared(h, slots),
                                 {Meaning(h, t), Meaning(h, c)})
         <=> d \in UsedCells(h)
<1> DEFINE x == Abstract!Variable(d)
           ms == MeaningOfStack(h, fs)
           ps == MeaningOfPrepared(h, slots)
           referred == Abstract!Referred(ms, ps, {Meaning(h, t), Meaning(h, c)})
<1>1. /\ fs \in Seq(Frame) /\ DOMAIN ms = DOMAIN fs
      /\ \A k \in DOMAIN fs : /\ ms[k] = MeaningOfFrame(h, fs[k])
                              /\ fs[k].regs \in RegisterSet /\ fs[k].args \in SlotSet
  <2>1. fs \in Seq(Frame) /\ fs # <<>>
    BY DEF Stack
  <2>2. DOMAIN ms = DOMAIN fs /\ \A k \in DOMAIN fs : ms[k] = MeaningOfFrame(h, fs[k])
    BY <2>1, StackForm
  <2>3. \A k \in DOMAIN fs : fs[k] \in Frame
    BY <2>1, TopFrame
  <2> HIDE DEF ms
  <2>. QED
    BY <2>1, <2>2, <2>3 DEF Frame
<1>2. \A o \in Live(h) \cup {Null} : Meaning(h, o) = x => d \in UsedCells(h)
  BY MeaningForm
<1>3. Held(fs, t, c) \subseteq Live(h) /\ t \in Live(h) \cup {Null} /\ c \in Live(h) \cup {Null}
  BY DEF Sound, Stack, Held, Others
<1>4. \A k \in DOMAIN fs :
        /\ ms[k].regs = [r \in Registers |-> Meaning(h, fs[k].regs[r])]
        /\ \A i \in Registers : fs[k].regs[i] \in Live(h) \cup {Null}
  BY <1>1, <1>3, ContentsMember DEF MeaningOfFrame, MeaningOfRegs, Held
<1>5. \A k \in DOMAIN fs :
        /\ ms[k].args = [r \in Slots |-> Meaning(h, fs[k].args[r])]
        /\ \A s \in Slots : fs[k].args[s] \in Live(h) \cup {Null}
  <2>1. \A z \in SlotSet, s \in Slots : z[s] # Null => z[s] \in Lent(z)
    BY NullAssumption DEF Lent, SlotSet, Range
  <2>. QED
    BY <1>1, <2>1 DEF MeaningOfFrame, MeaningOfSlots
<1>6. slots # Null => /\ ps # Null /\ ps = [r \in Slots |-> Meaning(h, slots[r])]
                      /\ \A s \in Slots : slots[s] \in Live(h) \cup {Null}
  <2>1. SUFFICES ASSUME slots \in SlotSet, slots # Null
                 PROVE  /\ ps # Null /\ ps = [r \in Slots |-> Meaning(h, slots[r])]
                        /\ \A s \in Slots : slots[s] \in Live(h) \cup {Null}
    OBVIOUS
  <2>2. \A s \in Slots : slots[s] # Null => slots[s] \in Lent(slots)
    BY <2>1, NullAssumption DEF Lent, SlotSet, Range
  <2>3. ps = [r \in Slots |-> Meaning(h, slots[r])]
    BY <2>1 DEF MeaningOfPrepared, MeaningOfSlots
  <2>4. \A s \in Slots : Meaning(h, slots[s]) \in Content \cup {Null}
    BY <2>1 DEF SlotSet, Meaning, Sound, Heap
  <2>5. ps \in [Slots -> Content \cup {Null}]
    BY <2>3, <2>4
  <2>. QED
    BY <2>2, <2>3, <2>5, RowAssumption
<1> HIDE DEF ms, ps
<1>7. x \in referred <=> \/ x \in {Meaning(h, t), Meaning(h, c)}
                         \/ \E k \in DOMAIN ms : \/ x \in Range(ms[k].regs)
                                                 \/ x \in Range(ms[k].args)
                         \/ ps # Null /\ x \in Range(ps)
  BY DEF Abstract!Referred, Abstract!Range, Range
<1> HIDE DEF x
<1>8. ASSUME x \in referred PROVE d \in UsedCells(h)
  <2>1. CASE x \in {Meaning(h, t), Meaning(h, c)}
    BY <1>2, <1>3, <2>1
  <2>2. CASE \E k \in DOMAIN fs : x \in Range(ms[k].regs)
    <3>1. PICK k \in DOMAIN fs : x \in Range(ms[k].regs)
      BY <2>2
    <3>2. ms[k].regs = [r \in Registers |-> Meaning(h, fs[k].regs[r])]
      BY <1>4
    <3>3. PICK i \in Registers : x = Meaning(h, fs[k].regs[i])
      BY <3>1, <3>2 DEF Range
    <3>. QED
      BY <1>2, <1>4, <3>3
  <2>3. CASE \E k \in DOMAIN fs : x \in Range(ms[k].args)
    <3>1. PICK k \in DOMAIN fs : x \in Range(ms[k].args)
      BY <2>3
    <3>2. ms[k].args = [r \in Slots |-> Meaning(h, fs[k].args[r])]
      BY <1>5
    <3>3. PICK s \in Slots : x = Meaning(h, fs[k].args[s])
      BY <3>1, <3>2 DEF Range
    <3>. QED
      BY <1>2, <1>5, <3>3
  <2>4. CASE ps # Null /\ x \in Range(ps)
    <3>1. slots # Null
      BY <2>4 DEF MeaningOfPrepared, ps
    <3>. QED
      BY <1>2, <1>6, <2>4, <3>1 DEF Range
  <2>. QED
    BY <1>1, <1>7, <1>8, <2>1, <2>2, <2>3, <2>4
<1>9. ASSUME d \in UsedCells(h) PROVE x \in referred
  <2>1. h.cell[d].count = Cardinality(Referring(h, d)) /\ h.cell[d].count \in Nat \ {0}
    BY <1>9, HeapFields DEF Sound, CellsSound
  <2>2. Referring(h, d) # {}
    BY <2>1, FiniteReferring, FS_EmptySet
  <2>3. PICK o \in Objects : h.obj[o] = <<"reference", d>>
    BY <2>2 DEF Referring
  <2>4. IsReference(h, o) /\ o \in Live(h) /\ o # Null
    BY <2>3, ReferenceForm, OwnershipAssumption DEF Sound
  <2>5. o \in Held(fs, t, c)
    BY <2>4 DEF Sound, CellsSound, Targets
  <2>6. Meaning(h, o) = x
    BY <2>3, <2>4 DEF Meaning, Abstract!Variable, x
  <2>7. CASE o \in Others(t, c)
    BY <1>7, <2>6, <2>7 DEF Others
  <2>8. CASE \E k \in DOMAIN fs : o \in Contents(fs[k].regs)
    <3>1. PICK k \in DOMAIN fs, i \in Registers : fs[k].regs[i] = o
      BY <1>1, <2>8, ContentsMember
    <3>2. ms[k].regs[i] = x /\ i \in DOMAIN ms[k].regs
      BY <1>4, <2>6, <3>1
    <3>3. x \in Range(ms[k].regs)
      BY <3>2 DEF Range
    <3>. QED
      BY <1>1, <1>7, <3>3
  <2>. QED
    BY <2>5, <2>7, <2>8 DEF Held
<1>. QED
  BY <1>8, <1>9 DEF ms, ps, x

\* A step that leaves these meanings, and these values in the cells in use, is
\* a step to them of RegisterSemantics.
LEMMA BecomesForm ==
  ASSUME Inv', Leakless, NEW st, NEW fs, NEW slots, NEW t, NEW c,
         MeaningOfStack(heap', frames') = fs, MeaningOfPrepared(heap', prepared') = slots,
         Meaning(heap', tmp') = t, Meaning(heap', caught') = c,
         \A d \in UsedCells(heap') : heap'.obj[heap'.cell[d].target] = st[d]
  PROVE  Abstract!Becomes(st, fs, slots, t, c)
<1>1. /\ Stack(frames', tmp', caught')
      /\ Sound(heap', Held(frames', tmp', caught'), {})
      /\ prepared' \in SlotSet \cup {Null}
  BY DEF Inv, TypeOK, Lost
<1>2. /\ Lent(prepared') \subseteq Live(heap')
      /\ \A k \in DOMAIN frames' : Lent(frames'[k].args) \subseteq Live(heap')
  <2>1. LentObjects' \subseteq Live(heap')
    BY DEF Inv
  <2>. QED
    BY <2>1 DEF LentObjects
<1>3. ASSUME NEW d \in Cells
      PROVE  (IF heap'.cell[d] = Null THEN Null ELSE Meaning(heap', heap'.cell[d].target))
               = IF Abstract!Variable(d) \in Abstract!Referred(fs, slots, {t, c})
                 THEN st[d] ELSE Null
  <2>1. Abstract!Variable(d) \in Abstract!Referred(fs, slots, {t, c}) <=> d \in UsedCells(heap')
    BY <1>1, <1>2, ReferredForm
  <2>2. CASE d \in UsedCells(heap')
    <3>1. heap'.cell[d] # Null /\ heap'.cell[d].target \in Live(heap')
      BY <1>1, <2>2 DEF UsedCells, Sound, CellsSound
    <3>2. heap'.cell[d].target # Null
      BY <1>1, <3>1, HeapFields DEF Sound
    <3>. QED
      BY <2>1, <2>2, <3>1, <3>2 DEF Meaning
  <2>3. CASE d \notin UsedCells(heap')
    BY <2>1, <2>3 DEF UsedCells
  <2>. QED
    BY <2>2, <2>3
<1>4. StoreOf(heap)' = [d \in Cells |->
                          IF Abstract!Variable(d) \in Abstract!Referred(fs, slots, {t, c})
                          THEN st[d] ELSE Null]
  BY <1>3 DEF StoreOf
<1>. QED
  BY <1>4 DEF Abstract!Becomes

-----------------------------------------------------------------------------
(***************************************************************************)
(* Registers are set.                                                      *)
(***************************************************************************)

\* From the heap h and the registers regs to k and now, content is written to
\* register i, and the objects others are left alone.
Writes(h, regs, k, now, others, i, content) ==
  LET ms == MeaningOfRegs(h, regs)
  IN /\ Abstract!Fits(ms, i, content)
     /\ Untouched(h, k, others)
     /\ MeaningOfRegs(k, now) = Abstract!WrittenRegs(ms, i, content)
     /\ \A d \in UsedCells(k) :
          /\ d \in UsedCells(h)
          /\ k.obj[k.cell[d].target] = Abstract!Written(StoreOf(h), ms, i, content)[d]

\* RegisterSet::set writes the variable the register stands for, or the
\* register; a Reference never gets into a variable.
LEMMA SetMeans ==
  ASSUME NEW h, NEW regs \in RegisterSet, NEW others, NEW lost, NEW i \in Registers,
         NEW o \in Objects, o \notin others, o \notin Contents(regs),
         Sound(h, others \cup Contents(regs) \cup {o}, lost),
         Distinct(regs), others \cap Contents(regs) = {},
         Flat(SetHeap(h, regs, i, o))
  PROVE  Writes(h, regs, SetHeap(h, regs, i, o), SetRegs(h, regs, i, o), others, i,
                Meaning(h, o))
<1> DEFINE k == SetHeap(h, regs, i, o)
           now == SetRegs(h, regs, i, o)
           ms == MeaningOfRegs(h, regs)
           content == Meaning(h, o)
           held == others \cup Contents(regs) \cup {o}
<1>1. /\ h \in Heap /\ held \subseteq Live(h) /\ o # Null /\ content = h.obj[o]
      /\ \A x \in held : x \in Objects /\ x # Null
      /\ \A c \in UsedCells(h) : /\ c \in Cells /\ h.cell[c].target \in Objects
                                 /\ h.cell[c].target # Null
                                 /\ h.cell[c].target \notin held
                                 /\ ~IsReference(h, h.cell[c].target)
                                 /\ StoreOf(h)[c] = h.obj[h.cell[c].target]
                                 /\ \A d \in UsedCells(h) :
                                      h.cell[d].target = h.cell[c].target => d = c
  <2>1. h \in Heap /\ held \subseteq Live(h)
    BY DEF Sound
  <2>2. o # Null /\ \A x \in held : x \in Objects /\ x # Null
    BY <2>1, HeapFields
  <2>3. ASSUME NEW c \in UsedCells(h)
        PROVE  /\ c \in Cells /\ h.cell[c].target \in Objects /\ h.cell[c].target # Null
               /\ h.cell[c].target \notin held
               /\ ~IsReference(h, h.cell[c].target)
               /\ \A d \in UsedCells(h) : h.cell[d].target = h.cell[c].target => d = c
    <3>1. h.cell[c].target \in Live(h)
      BY DEF Sound, CellsSound
    <3>. QED
      BY <2>1, <3>1, HeapFields DEF Sound, CellsSound
  <2>4. ASSUME NEW c \in UsedCells(h) PROVE StoreOf(h)[c] = h.obj[h.cell[c].target]
    BY <2>3 DEF StoreOf, Meaning, UsedCells
  <2>. QED
    BY <2>1, <2>2, <2>3, <2>4 DEF Meaning
<1>2. /\ \A j \in Registers : regs[j] # Null => regs[j] \in held /\ regs[j] \in Contents(regs)
      /\ \A j \in Registers : ms[j] = Meaning(h, regs[j])
      /\ regs[i] \in Live(h) \cup {Null}
  BY <1>1, ContentsMember DEF MeaningOfRegs
<1>3. /\ Abstract!IsVariable(ms[i]) <=> IsReference(h, regs[i])
      /\ IsReference(h, regs[i]) => /\ Abstract!NameOf(ms[i]) = CellOf(h, regs[i])
                                    /\ CellOf(h, regs[i]) \in UsedCells(h)
      /\ content \in Abstract!Stored <=> ~IsReference(h, o)
  BY <1>1, <1>2, MeaningForm
<1> HIDE DEF k, now, ms, content
<1>4. CASE ~IsReference(h, regs[i])
  <2>1. /\ now = [regs EXCEPT ![i] = o]
        /\ \A j \in Registers : now[j] = IF j = i THEN o ELSE regs[j]
    <3>1. now = [regs EXCEPT ![i] = o]
      BY <1>4 DEF now, SetRegs
    <3>2. o \in Objects \cup {Null}
      OBVIOUS
    <3>. QED
      BY <3>1, <3>2, PutForm
  <2>2. /\ k.cell = h.cell /\ UsedCells(k) = UsedCells(h)
        /\ \A y \in Objects : y # regs[i] => k.obj[y] = h.obj[y]
    <3>1. CASE regs[i] = Null
      BY <3>1 DEF k, SetHeap
    <3>2. CASE regs[i] # Null
      <4>1. k = Delete(h, regs[i])
        BY <1>4, <3>2 DEF k, SetHeap
      <4>2. regs[i] \in Objects \cup {Null}
        BY ContentsMember
      <4>. QED
        BY <1>1, <1>4, <4>1, <4>2, DeleteSimpleForm
    <3>. QED
      BY <3>1, <3>2
  <2>3. Abstract!Fits(ms, i, content)
    BY <1>3, <1>4 DEF Abstract!Fits
  <2>4. Untouched(h, k, others)
    BY <1>1, <1>2, <2>2 DEF Untouched
  <2>5. \A j \in Registers : Meaning(k, now[j]) = IF j = i THEN content ELSE ms[j]
    <3>1. Meaning(k, o) = content
      BY <1>1, <1>2, <2>2 DEF Meaning
    <3>2. ASSUME NEW j \in Registers, j # i PROVE Meaning(k, regs[j]) = Meaning(h, regs[j])
      BY <1>1, <1>2, <2>2, <3>2 DEF Meaning, Distinct
    <3>. QED
      BY <1>2, <2>1, <3>1, <3>2
  <2>6. MeaningOfRegs(k, now) = Abstract!WrittenRegs(ms, i, content)
    <3>1. Abstract!WrittenRegs(ms, i, content) = [ms EXCEPT ![i] = content]
      BY <1>3, <1>4 DEF Abstract!WrittenRegs
    <3>2. ms = [j \in Registers |-> ms[j]]
      BY DEF ms, MeaningOfRegs
    <3>. QED
      BY <2>5, <3>1, <3>2 DEF MeaningOfRegs
  <2>7. Abstract!Written(StoreOf(h), ms, i, content) = StoreOf(h)
    BY <1>3, <1>4 DEF Abstract!Written
  <2>8. \A d \in UsedCells(k) : k.obj[k.cell[d].target] = StoreOf(h)[d]
    BY <1>1, <1>2, <2>2
  <2>. QED
    BY <2>2, <2>3, <2>4, <2>6, <2>7, <2>8 DEF Writes, k, now, ms, content
<1>5. CASE IsReference(h, regs[i])
  <2> DEFINE c == CellOf(h, regs[i])
             old == h.cell[c].target
  <2>1. /\ c \in UsedCells(h) /\ c \in Cells /\ old \notin held /\ ~IsReference(h, old)
        /\ old # o /\ regs[i] # Null
    BY <1>1, <1>3, <1>5 DEF IsReference
  <2>2. now = regs /\ k = Rebind(h, c, o)
    BY <1>5, <2>1 DEF now, k, SetRegs, SetHeap
  <2>3. ~IsReference(h, o)
    BY <1>1, <1>5, <2>1, ReferenceOverReference
  <2> HIDE DEF c
  <2>4. /\ UsedCells(k) = UsedCells(h)
        /\ \A y \in Objects : y # old => k.obj[y] = h.obj[y]
        /\ k.cell[c].target = o
        /\ \A d \in Cells \ {c} : k.cell[d] = h.cell[d]
    <3> DEFINE n == Rebind(h, c, o)
    <3>1. /\ UsedCells(n) = UsedCells(h)
          /\ \A y \in Objects : n.obj[y] = IF y = h.cell[c].target THEN Null ELSE h.obj[y]
          /\ n.cell[c] = [target |-> o, count |-> h.cell[c].count]
          /\ \A d \in Cells \ {c} : n.cell[d] = h.cell[d]
      BY <1>1, <2>1, RebindForm
    <3>2. k = n
      BY <2>2
    <3> HIDE DEF n
    <3>. QED
      BY <3>1, <3>2
  <2>5. Abstract!Fits(ms, i, content)
    BY <1>3, <2>3 DEF Abstract!Fits
  <2>6. Untouched(h, k, others)
    BY <1>1, <2>1, <2>4 DEF Untouched
  <2>7. \A j \in Registers : Meaning(k, now[j]) = ms[j]
    BY <1>1, <1>2, <2>1, <2>2, <2>4 DEF Meaning
  <2>8. MeaningOfRegs(k, now) = Abstract!WrittenRegs(ms, i, content)
    <3>1. Abstract!WrittenRegs(ms, i, content) = ms
      BY <1>3, <1>5 DEF Abstract!WrittenRegs
    <3>2. ms = [j \in Registers |-> ms[j]]
      BY DEF ms, MeaningOfRegs
    <3>. QED
      BY <2>7, <3>1, <3>2 DEF MeaningOfRegs
  <2>9. Abstract!Written(StoreOf(h), ms, i, content) = [StoreOf(h) EXCEPT ![c] = content]
    BY <1>3, <1>5 DEF Abstract!Written, c
  <2>10. \A d \in Cells : [StoreOf(h) EXCEPT ![c] = content][d]
                            = IF d = c THEN content ELSE StoreOf(h)[d]
    <3>1. DOMAIN StoreOf(h) = Cells
      BY DEF StoreOf
    <3>. QED
      BY <3>1
  <2>11. ASSUME NEW d \in UsedCells(k)
         PROVE  k.obj[k.cell[d].target] = IF d = c THEN content ELSE StoreOf(h)[d]
    BY <1>1, <2>1, <2>4
  <2>12. \A d \in UsedCells(k) : d \in Cells
    BY DEF UsedCells
  <2>. QED
    BY <2>4, <2>5, <2>6, <2>8, <2>9, <2>10, <2>11, <2>12 DEF Writes, k, now, ms, content
<1>. QED
  BY <1>4, <1>5

-----------------------------------------------------------------------------
(***************************************************************************)
(* Instructions on the registers of the running function.                  *)
(***************************************************************************)

\* What parameter slots point to is what it was.
LEMMA LentMeans ==
  ASSUME Inv, Permitted
  PROVE  /\ prepared' = prepared =>
              MeaningOfPrepared(heap', prepared) = MeaningOfPrepared(heap, prepared)
         /\ \A j \in DOMAIN frames \cap DOMAIN frames' : frames'[j].args = frames[j].args =>
              MeaningOfSlots(heap', frames[j].args) = MeaningOfSlots(heap, frames[j].args)
<1>1. Untouched(heap, heap', LentObjects \cap LentObjects')
  BY DEF Permitted, LentUntouched, Untouched
<1>2. \A j \in DOMAIN frames : frames[j].args \in SlotSet
  BY TopFrame DEF Inv, TypeOK, Frame
<1>3. ASSUME prepared' = prepared
      PROVE  MeaningOfPrepared(heap', prepared) = MeaningOfPrepared(heap, prepared)
  <2>1. CASE prepared = Null
    BY <2>1 DEF MeaningOfPrepared
  <2>2. CASE prepared # Null
    <3>1. prepared \in SlotSet
      BY <2>2 DEF Inv, TypeOK
    <3>2. Lent(prepared) \subseteq LentObjects \cap LentObjects'
      BY <1>3 DEF LentObjects
    <3>3. Untouched(heap, heap', Lent(prepared))
      BY <1>1, <3>2 DEF Untouched
    <3>. QED
      BY <3>1, <3>3, SlotsMean DEF MeaningOfPrepared
  <2>. QED
    BY <2>1, <2>2
<1>4. ASSUME NEW j \in DOMAIN frames \cap DOMAIN frames', frames'[j].args = frames[j].args
      PROVE  MeaningOfSlots(heap', frames[j].args) = MeaningOfSlots(heap, frames[j].args)
  <2>1. Lent(frames[j].args) \subseteq LentObjects \cap LentObjects'
    BY <1>4 DEF LentObjects
  <2>2. Untouched(heap, heap', Lent(frames[j].args))
    BY <1>1, <2>1 DEF Untouched
  <2>. QED
    BY <1>2, <2>2, SlotsMean
<1>. QED
  BY <1>3, <1>4

\* The registers of the running function, in values.
LEMMA RegsMeaning ==
  ASSUME Inv
  PROVE  /\ Abstract!Regs = MeaningOfRegs(heap, Regs)
         /\ \A i \in Registers : Abstract!Regs[i] = Meaning(heap, Regs[i])
         /\ \A i \in Registers : Regs[i] \in Live(heap) \cup {Null}
         /\ \A i \in Registers : Abstract!Regs[i] # Null <=> i \in Filled
<1>1. frames \in Seq(Frame) /\ frames # <<>>
  BY DEF Inv, TypeOK
<1>2. Abstract!Regs = MeaningOfRegs(heap, Regs)
  <2> DEFINE ms == MeaningOfStack(heap, frames)
  <2>1. Last(ms) = MeaningOfFrame(heap, Last(frames))
    BY <1>1, StackForm
  <2> HIDE DEF ms
  <2>2. Abstract!Regs = Last(ms).regs
    BY DEF Abstract!Regs, Abstract!Last, Last, ms
  <2>. QED
    BY <2>1, <2>2 DEF MeaningOfFrame, Regs, Top
<1>3. \A i \in Registers : Abstract!Regs[i] = Meaning(heap, Regs[i])
  BY <1>2 DEF MeaningOfRegs
<1>4. \A i \in Registers : Regs[i] \in Live(heap) \cup {Null}
  BY RegsForm
<1>5. \A i \in Registers : Meaning(heap, Regs[i]) = Null <=> Regs[i] = Null
  BY <1>4, MeaningForm DEF Inv
<1>. QED
  BY <1>2, <1>3, <1>4, <1>5 DEF Filled

\* The frame on top gets the registers regs.
LEMMA TopStepMeans ==
  ASSUME Inv, Permitted, NEW regs, Retopped(frames, frames', regs),
         Untouched(heap, heap', Below(frames))
  PROVE  MeaningOfStack(heap', frames') = Abstract!WithTop(MeaningOfRegs(heap', regs))
<1>1. frames \in Seq(Frame) /\ frames # <<>>
  BY DEF Inv, TypeOK
<1>2. /\ Len(frames) \in Nat \ {0} /\ DOMAIN frames = 1 .. Len(frames)
      /\ \A j \in DOMAIN frames : frames[j].regs \in RegisterSet
  BY <1>1, TopFrame
<1>3. \A j \in 1 .. Len(frames) - 1 :
        MeaningOfRegs(heap', frames[j].regs) = MeaningOfRegs(heap, frames[j].regs)
  <2>1. ASSUME NEW j \in 1 .. Len(frames) - 1
        PROVE  MeaningOfRegs(heap', frames[j].regs) = MeaningOfRegs(heap, frames[j].regs)
    <3>1. frames[j].regs \in RegisterSet
      BY <1>2, Positions
    <3>2. Untouched(heap, heap', Contents(frames[j].regs))
      BY DEF Untouched, Below
    <3>. QED
      BY <3>1, <3>2, RegsMean
  <2>. QED
    BY <2>1
<1>4. \A j \in DOMAIN frames :
        MeaningOfSlots(heap', frames[j].args) = MeaningOfSlots(heap, frames[j].args)
  <2>1. \A j \in DOMAIN frames : j \in DOMAIN frames' /\ frames'[j].args = frames[j].args
    BY <1>2 DEF Retopped
  <2>. QED
    BY <2>1, LentMeans
<1> DEFINE ms == MeaningOfStack(heap, frames)
<1>5. MeaningOfStack(heap', frames') = [ms EXCEPT ![Len(ms)].regs = MeaningOfRegs(heap', regs)]
  BY <1>1, <1>3, <1>4, TopMeans
<1>. QED
  BY <1>5 DEF Abstract!WithTop

\* What is written on the way from h is written to what there was in g.
LEMMA WrittenStore ==
  ASSUME NEW g, NEW lost, NEW held, Sound(g, held, lost),
         NEW h, NEW S, Carried(g, h, S),
         NEW regs, NEW k, NEW now, NEW others, NEW i, NEW content,
         Writes(h, regs, k, now, others, i, content), NEW d \in UsedCells(k)
  PROVE  k.obj[k.cell[d].target]
           = Abstract!Written(StoreOf(g), MeaningOfRegs(h, regs), i, content)[d]
<1> DEFINE ms == MeaningOfRegs(h, regs)
<1>1. /\ d \in UsedCells(h)
      /\ k.obj[k.cell[d].target] = Abstract!Written(StoreOf(h), ms, i, content)[d]
  BY DEF Writes
<1>2. /\ d \in UsedCells(g) /\ h.cell[d].target = g.cell[d].target
      /\ h.obj[h.cell[d].target] = g.obj[g.cell[d].target]
  BY <1>1 DEF Carried
<1>3. StoreOf(h)[d] = StoreOf(g)[d] /\ d \in Cells
  BY <1>1, <1>2 DEF StoreOf, UsedCells, Meaning
<1>4. DOMAIN StoreOf(h) = Cells /\ DOMAIN StoreOf(g) = Cells
  BY DEF StoreOf
<1> HIDE DEF ms
<1>5. Abstract!Written(StoreOf(h), ms, i, content)[d]
        = Abstract!Written(StoreOf(g), ms, i, content)[d]
  BY <1>3, <1>4 DEF Abstract!Written
<1>. QED
  BY <1>1, <1>5 DEF ms

\* What is left when nothing is written.
LEMMA CarriedStore ==
  ASSUME NEW h, NEW lost, NEW held, Sound(h, held, lost),
         NEW k, NEW S, Carried(h, k, S), NEW d \in UsedCells(k)
  PROVE  k.obj[k.cell[d].target] = StoreOf(h)[d]
<1>1. /\ d \in UsedCells(h) /\ d \in Cells /\ h.cell[d] # Null
      /\ k.obj[k.cell[d].target] = h.obj[h.cell[d].target]
  BY DEF Carried, UsedCells
<1>2. h.cell[d].target # Null
  BY <1>1, HeapFields DEF Sound, CellsSound
<1>. QED
  BY <1>1, <1>2 DEF StoreOf, Meaning

\* New objects change no value.
LEMMA NewCarried ==
  ASSUME NEW h, NEW lost, NEW held, Sound(h, held, lost),
         NEW k, Untouched(h, k, Live(h)), UsedCells(k) = UsedCells(h),
         \A c \in UsedCells(h) : k.cell[c].target = h.cell[c].target
  PROVE  Carried(h, k, Live(h))
BY DEF Carried, Untouched, Sound, CellsSound

\* What is deleted takes its own variables with it, and nothing else.
LEMMA DeleteCarried ==
  ASSUME NEW h, NEW held, NEW lost, Sound(h, held, lost), NEW S \in SUBSET held
  PROVE  Carried(h, DeleteAll(h, S), held \ S)
<1> DEFINE k == DeleteAll(h, S)
           gone == S \cup {h.cell[c].target : c \in Emptied(h, S)}
<1>1. /\ Sound(k, held \ S, lost)
      /\ \A o \in Objects \ S : o \notin Targets(h) => k.obj[o] = h.obj[o]
  BY DeleteAllSound
<1>2. k = [obj |-> [o \in Objects |-> IF o \in gone THEN Null ELSE h.obj[o]],
           cell |-> [c \in Cells |->
                       IF c \in Emptied(h, S) \/ h.cell[c] = Null THEN Null
                       ELSE [h.cell[c] EXCEPT !.count = @ - Dropped(h, S, c)]]]
  BY DEF DeleteAll
<1>3. Untouched(h, k, held \ S)
  <2>1. \A o \in held : o \in Objects /\ o \notin Targets(h)
    BY DEF Sound, CellsSound, Targets, Live
  <2> HIDE DEF k
  <2>. QED
    BY <1>1, <2>1 DEF Untouched
<1>4. ASSUME NEW c \in UsedCells(k)
      PROVE  /\ c \in UsedCells(h) /\ k.cell[c].target = h.cell[c].target
             /\ k.obj[k.cell[c].target] = h.obj[h.cell[c].target]
  <2>1. c \in Cells /\ k.cell[c] # Null
    BY DEF UsedCells
  <2> HIDE DEF gone
  <2>2. c \in UsedCells(h) /\ k.cell[c] = [h.cell[c] EXCEPT !.count = @ - Dropped(h, S, c)]
    BY <1>2, <2>1 DEF UsedCells
  <2>3. h.cell[c] \in Cell
    BY <2>2, HeapFields DEF Sound
  <2>4. k.cell[c].target = h.cell[c].target
    BY <2>2, <2>3 DEF Cell
  <2>5. k.cell[c].target \in Live(k)
    BY <1>1 DEF Sound, CellsSound
  <2>6. \A o \in Objects : k.obj[o] = IF o \in gone THEN Null ELSE h.obj[o]
    <3>1. k.obj = [o \in Objects |-> IF o \in gone THEN Null ELSE h.obj[o]]
      BY <1>2
    <3> HIDE DEF k
    <3>. QED
      BY <3>1
  <2> HIDE DEF k
  <2>7. \A o \in Live(k) : k.obj[o] = h.obj[o]
    BY <2>6 DEF Live
  <2>. QED
    BY <2>2, <2>4, <2>5, <2>7
<1>. QED
  BY <1>3, <1>4 DEF Carried, k

\* Register i of the running function is written.
LEMMA WriteMeans ==
  ASSUME Inv, Inv', Permitted, Leakless, NEW h, NEW now, NEW i \in Registers, NEW content,
         Carried(heap, h, Elsewhere(frames, tmp', caught') \cup Contents(Regs)),
         Writes(h, Regs, heap', now, Elsewhere(frames, tmp', caught'), i, content),
         Retopped(frames, frames', now), prepared' = prepared
  PROVE  /\ Abstract!Fits(Abstract!Regs, i, content)
         /\ Abstract!Becomes(Abstract!Written(StoreOf(heap), Abstract!Regs, i, content),
                             Abstract!WithTop(Abstract!WrittenRegs(Abstract!Regs, i, content)),
                             MeaningOfPrepared(heap, prepared),
                             Meaning(heap, tmp'), Meaning(heap, caught'))
<1> DEFINE others == Elsewhere(frames, tmp', caught')
<1>1. /\ Abstract!Fits(MeaningOfRegs(h, Regs), i, content)
      /\ Untouched(h, heap', others)
      /\ MeaningOfRegs(heap', now) = Abstract!WrittenRegs(MeaningOfRegs(h, Regs), i, content)
  BY DEF Writes
<1>2. MeaningOfRegs(h, Regs) = Abstract!Regs
  <2>1. Untouched(heap, h, Contents(Regs))
    BY DEF Carried, Untouched
  <2>. QED
    BY <2>1, RegsForm, RegsMean, RegsMeaning
<1>3. Untouched(heap, heap', others)
  BY <1>1 DEF Carried, Untouched
<1>4. MeaningOfStack(heap', frames') = Abstract!WithTop(MeaningOfRegs(heap', now))
  <2>1. Untouched(heap, heap', Below(frames))
    BY <1>3 DEF Untouched, Elsewhere
  <2>. QED
    BY <2>1, TopStepMeans
<1>5. MeaningOfPrepared(heap', prepared') = MeaningOfPrepared(heap, prepared)
  BY LentMeans
<1>6. Meaning(heap', tmp') = Meaning(heap, tmp') /\ Meaning(heap', caught') = Meaning(heap, caught')
  BY <1>3 DEF Untouched, Elsewhere, Others, Meaning
<1>7. \A d \in UsedCells(heap') :
        heap'.obj[heap'.cell[d].target]
          = Abstract!Written(StoreOf(heap), MeaningOfRegs(h, Regs), i, content)[d]
  BY WrittenStore DEF Inv
<1>8. MeaningOfStack(heap', frames')
        = Abstract!WithTop(Abstract!WrittenRegs(Abstract!Regs, i, content))
  BY <1>1, <1>2, <1>4
<1>9. Abstract!Becomes(Abstract!Written(StoreOf(heap), Abstract!Regs, i, content),
                       Abstract!WithTop(Abstract!WrittenRegs(Abstract!Regs, i, content)),
                       MeaningOfPrepared(heap, prepared),
                       Meaning(heap, tmp'), Meaning(heap, caught'))
  BY <1>2, <1>5, <1>6, <1>7, <1>8, BecomesForm
<1>. QED
  BY <1>1, <1>2, <1>9

\* In a heap with new objects, register i is set to one of them, or to one that
\* was in the temporary register or caught.
LEMMA StoreMeans ==
  ASSUME Inv, Inv', Permitted, Leakless, NEW h, Carried(heap, h, Live(heap)),
         NEW i \in Registers, NEW o \in Objects,
         o \notin Elsewhere(frames, tmp', caught'), o \notin Contents(Regs),
         Others(tmp', caught') \subseteq Others(tmp, caught),
         Sound(h, Elsewhere(frames, tmp', caught') \cup Contents(Regs) \cup {o}, {}),
         heap' = SetHeap(h, Regs, i, o), frames' = WithTop(SetRegs(h, Regs, i, o), {}),
         prepared' = prepared
  PROVE  /\ Abstract!Fits(Abstract!Regs, i, Meaning(h, o))
         /\ Abstract!Becomes(Abstract!Written(StoreOf(heap), Abstract!Regs, i, Meaning(h, o)),
                             Abstract!WithTop(Abstract!WrittenRegs(Abstract!Regs, i, Meaning(h, o))),
                             MeaningOfPrepared(heap, prepared),
                             Meaning(heap, tmp'), Meaning(heap, caught'))
<1> DEFINE others == Elsewhere(frames, tmp', caught')
           now == SetRegs(h, Regs, i, o)
<1>1. /\ Regs \in RegisterSet /\ Distinct(Regs)
      /\ Elsewhere(frames, tmp, caught) \cap Contents(Regs) = {}
      /\ others \subseteq Elsewhere(frames, tmp, caught)
      /\ Elsewhere(frames, tmp, caught) \subseteq Live(heap)
      /\ Contents(Regs) \subseteq Live(heap)
      /\ others \cap Contents(Regs) = {}
  <2>1. Held(frames, tmp, caught) \subseteq Live(heap)
    BY DEF Inv, Sound
  <2>. QED
    BY <2>1, RegsForm DEF Elsewhere
<1>2. Flat(SetHeap(h, Regs, i, o))
  BY DEF Permitted, FlatReferences, Flat
<1>3. Writes(h, Regs, heap', now, others, i, Meaning(h, o))
  <2> HIDE DEF others
  <2>1. Writes(h, Regs, SetHeap(h, Regs, i, o), now, others, i, Meaning(h, o))
    BY <1>1, <1>2, SetMeans DEF others
  <2>. QED
    BY <2>1
<1>4. Carried(heap, h, others \cup Contents(Regs))
  BY <1>1 DEF Carried, Untouched
<1>5. Retopped(frames, frames', now)
  <2>1. now \in RegisterSet
    BY <1>1, PutForm DEF SetRegs
  <2>. QED
    BY <2>1, RegsForm
<1> HIDE DEF now
<1>. QED
  BY <1>3, <1>4, <1>5, WriteMeans

\* A new object, in the heap h, is placed in register i.
LEMMA PlaceMeans ==
  ASSUME Inv, Inv', Permitted, Leakless, NEW h, Carried(heap, h, Live(heap)),
         NEW i \in Registers, FreshObject(heap) \in Objects \ Live(heap),
         Sound(h, Held(frames, tmp, caught) \cup {FreshObject(heap)}, Lost),
         heap' = SetHeap(h, Regs, i, FreshObject(heap)),
         frames' = WithTop(SetRegs(h, Regs, i, FreshObject(heap)), {}),
         UNCHANGED <<prepared, tmp, caught>>
  PROVE  /\ Abstract!Fits(Abstract!Regs, i, Meaning(h, FreshObject(heap)))
         /\ Abstract!Write(i, Meaning(h, FreshObject(heap)))
<1> DEFINE o == FreshObject(heap)
<1>1. /\ o \in Objects /\ tmp' = tmp /\ caught' = caught /\ prepared' = prepared
      /\ o \notin Elsewhere(frames, tmp', caught') /\ o \notin Contents(Regs)
  BY RegsForm
<1>2. Sound(h, Elsewhere(frames, tmp', caught') \cup Contents(Regs) \cup {o}, {})
  BY RegsForm DEF Lost
<1>3. heap' = SetHeap(h, Regs, i, o) /\ frames' = WithTop(SetRegs(h, Regs, i, o), {})
  OBVIOUS
<1> HIDE DEF o
<1>4. /\ Abstract!Fits(Abstract!Regs, i, Meaning(h, o))
      /\ Abstract!Becomes(Abstract!Written(StoreOf(heap), Abstract!Regs, i, Meaning(h, o)),
                          Abstract!WithTop(Abstract!WrittenRegs(Abstract!Regs, i, Meaning(h, o))),
                          MeaningOfPrepared(heap, prepared),
                          Meaning(heap, tmp'), Meaning(heap, caught'))
  BY <1>1, <1>2, <1>3, StoreMeans
<1>5. Abstract!Write(i, Meaning(h, o))
  BY <1>1, <1>4 DEF Abstract!Write
<1>. QED
  BY <1>4, <1>5 DEF o

\* A new simple object is the value written.
LEMMA NewMeans ==
  ASSUME Inv, Inv', Permitted, Leakless, NEW i \in Registers, NEW v \in Values, New(i, v)
  PROVE  Abstract!Write(i, Abstract!Value(v))
<1> DEFINE content == <<"value", v>>
           h == NewObject(heap, content)
           o == FreshObject(heap)
<1>1. Objects \ Live(heap) # {} /\ o \in Objects \ Live(heap)
  BY RoomFor, FreshFree DEF New
<1>2. Sound(h, Held(frames, tmp, caught) \cup {o}, Lost)
  BY <1>1, NewSimpleSound DEF Inv
<1>3. heap' = SetHeap(h, Regs, i, o) /\ frames' = WithTop(SetRegs(h, Regs, i, o), {})
  BY RegsForm, PlaceIsSet DEF New, Place
<1>4. content \in Content
  BY DEF Content
<1> HIDE DEF content
<1>5. /\ h.cell = heap.cell /\ UsedCells(h) = UsedCells(heap)
      /\ h.obj[o] = content /\ o # Null
      /\ \A x \in Objects \ {o} : h.obj[x] = heap.obj[x]
  BY <1>1, <1>4, RegsForm, NewObjectForm
<1> HIDE DEF h, o
<1>6. Carried(heap, h, Live(heap))
  <2>1. Untouched(heap, h, Live(heap))
    BY <1>1, <1>5 DEF Untouched, Live
  <2>. QED
    BY <1>5, <2>1, NewCarried DEF Inv
<1>7. Meaning(h, o) = Abstract!Value(v)
  BY <1>5 DEF Meaning, Abstract!Value, content
<1>8. Abstract!Write(i, Meaning(h, o))
  BY <1>1, <1>2, <1>3, <1>6, PlaceMeans DEF New, o
<1>. QED
  BY <1>7, <1>8

\* A copy is an object of its own.
LEMMA CloneCarried ==
  ASSUME NEW h, NEW held, NEW lost, Sound(h, held, lost),
         NEW x \in Live(h), Objects \ Live(h) # {}
  PROVE  /\ Carried(h, Clone(h, x), Live(h))
         /\ Meaning(Clone(h, x), FreshObject(h)) = Meaning(h, x)
<1> DEFINE k == Clone(h, x)
           o == FreshObject(h)
<1>1. /\ o # Null /\ o \notin Live(h) /\ UsedCells(k) = UsedCells(h) /\ k.obj[o] = h.obj[x]
      /\ \A y \in Objects \ {o} : k.obj[y] = h.obj[y]
      /\ \A c \in UsedCells(h) : k.cell[c].target = h.cell[c].target
  BY CloneForm DEF Sound
<1>2. x # Null
  BY HeapFields DEF Sound
<1> HIDE DEF k, o
<1>3. Untouched(h, k, Live(h))
  BY <1>1 DEF Untouched, Live
<1>4. Carried(h, k, Live(h))
  BY <1>1, <1>3, NewCarried
<1>5. Meaning(k, o) = Meaning(h, x)
  BY <1>1, <1>2 DEF Meaning
<1>. QED
  BY <1>4, <1>5 DEF k, o

\* The value of a register is that of the object it stands for.
LEMMA FetchMeans ==
  ASSUME Inv, NEW i \in Registers, Regs[i] # Null
  PROVE  /\ Meaning(heap, Fetch(heap, Regs[i])) = Abstract!ValueOf(Abstract!Regs[i])
         /\ Abstract!Regs[i] # Null
<1>1. Abstract!Regs[i] = Meaning(heap, Regs[i]) /\ Regs[i] \in Live(heap) \cup {Null}
  BY RegsMeaning
<1>2. /\ Abstract!IsVariable(Abstract!Regs[i]) <=> IsReference(heap, Regs[i])
      /\ IsReference(heap, Regs[i]) =>
           /\ Abstract!NameOf(Abstract!Regs[i]) = CellOf(heap, Regs[i])
           /\ CellOf(heap, Regs[i]) \in UsedCells(heap)
      /\ Abstract!Regs[i] # Null
  BY <1>1, MeaningForm DEF Inv
<1>3. CASE IsReference(heap, Regs[i])
  <2> DEFINE c == CellOf(heap, Regs[i])
  <2>1. c \in UsedCells(heap) /\ Fetch(heap, Regs[i]) = heap.cell[c].target
    BY <1>2, <1>3 DEF Fetch
  <2>2. StoreOf(heap)[c] = Meaning(heap, heap.cell[c].target)
    BY <2>1 DEF StoreOf, UsedCells
  <2>. QED
    BY <1>2, <1>3, <2>1, <2>2 DEF Abstract!ValueOf
<1>4. CASE ~IsReference(heap, Regs[i])
  BY <1>1, <1>2, <1>4 DEF Fetch, Abstract!ValueOf
<1>. QED
  BY <1>2, <1>3, <1>4

LEMMA CopyMeans ==
  ASSUME Inv, Inv', Permitted, Leakless, NEW i \in Registers, NEW j \in Registers, Copy(i, j)
  PROVE  Abstract!Copy(i, j)
<1> DEFINE x == Fetch(heap, Regs[i])
           h == Clone(heap, x)
           o == FreshObject(heap)
<1>1. Objects \ Live(heap) # {} /\ o \in Objects \ Live(heap)
  BY RoomFor, FreshFree DEF Copy
<1>2. x \in Live(heap) /\ Regs[i] # Null
  BY FetchLive DEF Copy, Filled
<1>3. Sound(h, Held(frames, tmp, caught) \cup {o}, Lost)
  BY <1>1, <1>2, CloneSound DEF Inv
<1>4. heap' = SetHeap(h, Regs, j, o) /\ frames' = WithTop(SetRegs(h, Regs, j, o), {})
  BY RegsForm, PlaceIsSet DEF Copy, Place
<1>5. Carried(heap, h, Live(heap)) /\ Meaning(h, o) = Meaning(heap, x)
  BY <1>1, <1>2, CloneCarried DEF Inv
<1>6. Meaning(heap, x) = Abstract!ValueOf(Abstract!Regs[i]) /\ Abstract!Regs[i] # Null
  BY <1>2, FetchMeans
<1> HIDE DEF h, x
<1>7. Abstract!Write(j, Meaning(h, o))
  BY <1>1, <1>3, <1>4, <1>5, PlaceMeans DEF Copy
<1> HIDE DEF o
<1>. QED
  BY <1>5, <1>6, <1>7 DEF Abstract!Copy

\* What a slot of the running call holds.
LEMMA SlotMeaning ==
  ASSUME Inv, NEW s \in Slots
  PROVE  /\ Abstract!Last(MeaningOfStack(heap, frames)).args[s] = Meaning(heap, Top.args[s])
         /\ Top.args[s] \in Live(heap) \cup {Null}
<1>1. frames \in Seq(Frame) /\ frames # <<>> /\ Len(frames) \in DOMAIN frames
  BY TopFrame DEF Inv, TypeOK
<1>2. Abstract!Last(MeaningOfStack(heap, frames)).args[s] = Meaning(heap, Top.args[s])
  <2> DEFINE ms == MeaningOfStack(heap, frames)
  <2>1. Last(ms) = MeaningOfFrame(heap, Last(frames))
    BY <1>1, StackForm
  <2> HIDE DEF ms
  <2>2. Abstract!Last(ms).args[s] = MeaningOfSlots(heap, Last(frames).args)[s]
    BY <2>1 DEF Abstract!Last, Last, MeaningOfFrame
  <2>. QED
    BY <2>2 DEF MeaningOfSlots, Top, ms
<1>3. Top = frames[Len(frames)] /\ Top.args \in SlotSet
  BY RegsForm DEF Frame
<1>4. Top.args[s] # Null => Top.args[s] \in Lent(Top.args)
  BY <1>3, NullAssumption DEF Lent, SlotSet, Range
<1>5. Lent(Top.args) \subseteq Live(heap)
  BY <1>1, <1>3 DEF LentObjects, Inv
<1>. QED
  BY <1>2, <1>4, <1>5

LEMMA ArgMeans ==
  ASSUME Inv, Inv', Permitted, Leakless, NEW s \in Slots, NEW i \in Registers, Arg(s, i)
  PROVE  Abstract!Arg(s, i)
<1> DEFINE x == Top.args[s]
           h == Clone(heap, x)
           o == FreshObject(heap)
<1>1. Objects \ Live(heap) # {} /\ o \in Objects \ Live(heap)
  BY RoomFor, FreshFree DEF Arg
<1>2. /\ x \in Live(heap) /\ x # Null
      /\ Abstract!Last(MeaningOfStack(heap, frames)).args[s] = Meaning(heap, x)
  BY SlotMeaning DEF Arg
<1>3. Sound(h, Held(frames, tmp, caught) \cup {o}, Lost)
  BY <1>1, <1>2, CloneSound DEF Inv
<1>4. heap' = SetHeap(h, Regs, i, o) /\ frames' = WithTop(SetRegs(h, Regs, i, o), {})
  BY RegsForm DEF Arg
<1>5. Carried(heap, h, Live(heap)) /\ Meaning(h, o) = Meaning(heap, x)
  BY <1>1, <1>2, CloneCarried DEF Inv
<1>6. Meaning(heap, x) # Null
  BY <1>2, MeaningForm DEF Inv
<1> HIDE DEF h, x
<1>7. Abstract!Fits(Abstract!Regs, i, Meaning(h, o)) /\ Abstract!Write(i, Meaning(h, o))
  BY <1>1, <1>3, <1>4, <1>5, PlaceMeans DEF Arg
<1> HIDE DEF o
<1>. QED
  BY <1>2, <1>5, <1>6, <1>7 DEF Abstract!Arg

\* The caught object moves into the register.
LEMMA PullMeans ==
  ASSUME Inv, Inv', Permitted, Leakless, NEW i \in Registers, Pull(i)
  PROVE  Abstract!Pull(i)
<1> DEFINE others == Elsewhere(frames, tmp, Null)
<1>1. /\ caught \in Objects /\ tmp \in Objects \cup {Null} /\ tmp' = tmp /\ caught' = Null
      /\ prepared' = prepared
  BY DEF Pull, Inv, TypeOK
<1>2. /\ heap' = SetHeap(heap, Regs, i, caught)
      /\ frames' = WithTop(SetRegs(heap, Regs, i, caught), {})
  BY RegsForm DEF Pull, Store
<1>3. caught # Null /\ Null \notin Held(frames, tmp, caught)
  BY <1>1, OwnershipAssumption DEF Inv, Sound, Live
<1>4. /\ tmp # caught
      /\ Others(tmp, caught) \cap Below(frames) = {}
      /\ Others(tmp, caught) \cap Contents(Regs) = {}
      /\ Others(tmp, Null) = {tmp} \ {Null} /\ Others(tmp, caught) = {tmp, caught} \ {Null}
  BY <1>3, RegsForm DEF Aside, Elsewhere, Others
<1>5. /\ caught \notin others /\ caught \notin Contents(Regs)
      /\ Held(frames, tmp, caught) = others \cup Contents(Regs) \cup {caught}
  BY <1>3, <1>4, RegsForm DEF Elsewhere
<1>6. Sound(heap, others \cup Contents(Regs) \cup {caught}, {})
  BY <1>5 DEF Inv, Lost
<1>7. Carried(heap, heap, Live(heap))
  BY DEF Carried, Untouched
<1>8. caught \in Live(heap)
  BY <1>5 DEF Inv, Sound
<1>9. Meaning(heap, caught) # Null /\ Meaning(heap, Null) = Null
  BY <1>3, <1>8, MeaningForm DEF Inv, Meaning
<1>10. /\ Abstract!Fits(Abstract!Regs, i, Meaning(heap, caught))
       /\ Abstract!Becomes(
            Abstract!Written(StoreOf(heap), Abstract!Regs, i, Meaning(heap, caught)),
            Abstract!WithTop(Abstract!WrittenRegs(Abstract!Regs, i, Meaning(heap, caught))),
            MeaningOfPrepared(heap, prepared), Meaning(heap, tmp'), Meaning(heap, caught'))
  BY <1>1, <1>2, <1>4, <1>5, <1>6, <1>7, StoreMeans
<1>11. Meaning(heap, tmp') = Meaning(heap, tmp) /\ Meaning(heap, caught') = Null
  BY <1>1, <1>9
<1>. QED
  BY <1>9, <1>10, <1>11 DEF Abstract!Pull

\* The object is changed in place: whatever stands for it has the new value.
LEMMA ModifyMeans ==
  ASSUME Inv, Inv', Permitted, Leakless, NEW i \in Registers, NEW v \in Values, Modify(i, v)
  PROVE  Abstract!Write(i, Abstract!Value(v))
<1> DEFINE x == Fetch(heap, Regs[i])
           content == Abstract!Value(v)
           others == Elsewhere(frames, tmp, caught)
           ms == MeaningOfRegs(heap, Regs)
<1>1. x \in Live(heap) /\ ~IsReference(heap, x) /\ Regs[i] # Null
  BY FetchLive DEF Modify, Filled
<1>2. /\ heap' = [heap EXCEPT !.obj[x] = content] /\ heap \in Heap
      /\ UNCHANGED <<frames, prepared, tmp, caught>>
  BY RegsForm DEF Modify, Abstract!Value
<1>3. /\ x \in Objects /\ x # Null
      /\ Regs \in RegisterSet /\ Distinct(Regs) /\ others \cap Contents(Regs) = {}
      /\ Held(frames, tmp, caught) = others \cup Contents(Regs)
      /\ Sound(heap, others \cup Contents(Regs), Lost)
  BY <1>1, RegsForm, HeapFields
<1> HIDE DEF x, content, others
<1>4. /\ heap'.cell = heap.cell /\ UsedCells(heap') = UsedCells(heap)
      /\ \A o \in Objects : heap'.obj[o] = IF o = x THEN content ELSE heap.obj[o]
  <2>1. heap.obj \in [Objects -> Content \cup {Null}]
    BY <1>2, HeapFields
  <2>. QED
    BY <1>2, <1>3, <2>1 DEF Heap, UsedCells
<1>5. Abstract!Fits(ms, i, content)
  BY DEF content, Abstract!Fits, Abstract!Stored
<1>6. /\ \A o \in others \cup Contents(Regs) : o \in Objects /\ o # Null
      /\ \A c \in UsedCells(heap) : /\ c \in Cells /\ heap.cell[c].target \in Objects
                                    /\ heap.cell[c].target \notin others \cup Contents(Regs)
                                    /\ StoreOf(heap)[c] = heap.obj[heap.cell[c].target]
                                    /\ \A d \in UsedCells(heap) :
                                         heap.cell[d].target = heap.cell[c].target => d = c
  <2>1. \A o \in Live(heap) : o \in Objects /\ o # Null
    BY <1>2, HeapFields
  <2>2. ASSUME NEW c \in UsedCells(heap) PROVE StoreOf(heap)[c] = heap.obj[heap.cell[c].target]
    <3>1. heap.cell[c].target # Null /\ c \in Cells /\ heap.cell[c] # Null
      BY <1>3, <2>1 DEF Sound, CellsSound, UsedCells
    <3>. QED
      BY <3>1 DEF StoreOf, Meaning
  <2>. QED
    BY <1>3, <2>1, <2>2 DEF Sound, CellsSound, UsedCells
<1>7. /\ Abstract!IsVariable(ms[i]) <=> IsReference(heap, Regs[i])
      /\ IsReference(heap, Regs[i]) =>
           /\ Abstract!NameOf(ms[i]) = CellOf(heap, Regs[i])
           /\ CellOf(heap, Regs[i]) \in UsedCells(heap)
      /\ ms = [j \in Registers |-> Meaning(heap, Regs[j])]
  <2>1. ms[i] = Meaning(heap, Regs[i]) /\ Regs[i] \in Live(heap) \cup {Null}
    BY RegsMeaning DEF MeaningOfRegs
  <2>. QED
    BY <2>1, MeaningForm DEF Inv, MeaningOfRegs
<1>8. Writes(heap, Regs, heap', Regs, others, i, content)
  <2> HIDE DEF ms
  <2>1. CASE ~IsReference(heap, Regs[i])
    <3>1. x = Regs[i] /\ x \in Contents(Regs)
      BY <1>1, <1>3, <2>1, ContentsMember DEF x, Fetch
    <3>2. Untouched(heap, heap', others)
      BY <1>3, <1>4, <1>6, <3>1 DEF Untouched
    <3>3. \A j \in Registers : Meaning(heap', Regs[j]) = IF j = i THEN content ELSE ms[j]
      <4>1. Meaning(heap', Regs[i]) = content
        BY <1>3, <1>4, <3>1 DEF Meaning
      <4>2. ASSUME NEW j \in Registers, j # i PROVE Meaning(heap', Regs[j]) = ms[j]
        <5>1. Regs[j] = Null \/ Regs[j] # x
          BY <1>3, <3>1, <4>2 DEF Distinct
        <5>2. Regs[j] # Null => Regs[j] \in Objects
          BY <1>3, <1>6, ContentsMember
        <5>. QED
          BY <1>4, <1>7, <5>1, <5>2 DEF Meaning
      <4>. QED
        BY <4>1, <4>2
    <3>4. MeaningOfRegs(heap', Regs) = Abstract!WrittenRegs(ms, i, content)
      <4>1. Abstract!WrittenRegs(ms, i, content) = [ms EXCEPT ![i] = content]
        BY <1>7, <2>1 DEF Abstract!WrittenRegs
      <4>. QED
        BY <1>7, <3>3, <4>1 DEF MeaningOfRegs
    <3>5. Abstract!Written(StoreOf(heap), ms, i, content) = StoreOf(heap)
      BY <1>7, <2>1 DEF Abstract!Written
    <3>6. \A d \in UsedCells(heap') : heap'.obj[heap'.cell[d].target] = StoreOf(heap)[d]
      BY <1>4, <1>6, <3>1
    <3>. QED
      BY <1>4, <1>5, <3>2, <3>4, <3>5, <3>6 DEF Writes, ms
  <2>2. CASE IsReference(heap, Regs[i])
    <3> DEFINE c == CellOf(heap, Regs[i])
    <3>1. /\ c \in UsedCells(heap) /\ x = heap.cell[c].target
          /\ x \notin others /\ x \notin Contents(Regs)
      BY <1>6, <1>7, <2>2 DEF x, Fetch
    <3> HIDE DEF c
    <3>2. Untouched(heap, heap', others)
      BY <1>4, <1>6, <3>1 DEF Untouched
    <3>3. \A j \in Registers : Meaning(heap', Regs[j]) = ms[j]
      <4>1. ASSUME NEW j \in Registers PROVE Meaning(heap', Regs[j]) = ms[j]
        <5>1. Regs[j] # Null => Regs[j] \in Objects /\ Regs[j] # x
          BY <1>3, <1>6, <3>1, ContentsMember
        <5>. QED
          BY <1>4, <1>7, <5>1 DEF Meaning
      <4>. QED
        BY <4>1
    <3>4. MeaningOfRegs(heap', Regs) = Abstract!WrittenRegs(ms, i, content)
      <4>1. Abstract!WrittenRegs(ms, i, content) = ms
        BY <1>7, <2>2 DEF Abstract!WrittenRegs
      <4>. QED
        BY <1>7, <3>3, <4>1 DEF MeaningOfRegs
    <3>5. Abstract!Written(StoreOf(heap), ms, i, content) = [StoreOf(heap) EXCEPT ![c] = content]
      BY <1>7, <2>2 DEF Abstract!Written, c
    <3>6. \A d \in Cells : [StoreOf(heap) EXCEPT ![c] = content][d]
                              = IF d = c THEN content ELSE StoreOf(heap)[d]
      <4>1. DOMAIN StoreOf(heap) = Cells
        BY DEF StoreOf
      <4>. QED
        BY <4>1
    <3>7. ASSUME NEW d \in UsedCells(heap')
          PROVE  /\ heap'.obj[heap'.cell[d].target] = IF d = c THEN content ELSE StoreOf(heap)[d]
                 /\ d \in Cells
      BY <1>4, <1>6, <3>1
    <3>. QED
      BY <1>4, <1>5, <3>2, <3>4, <3>5, <3>6, <3>7 DEF Writes, ms
  <2>. QED
    BY <2>1, <2>2
<1>9. Carried(heap, heap, others \cup Contents(Regs))
  BY DEF Carried, Untouched
<1>10. Retopped(frames, frames', Regs)
  BY <1>2, SameTop DEF Inv, Regs, Top
<1>11. /\ others = Elsewhere(frames, tmp', caught')
       /\ Meaning(heap, tmp') = Meaning(heap, tmp) /\ Meaning(heap, caught') = Meaning(heap, caught)
       /\ prepared' = prepared
  BY <1>2 DEF others
<1> HIDE DEF ms
<1>12. Abstract!Becomes(Abstract!Written(StoreOf(heap), Abstract!Regs, i, content),
                        Abstract!WithTop(Abstract!WrittenRegs(Abstract!Regs, i, content)),
                        MeaningOfPrepared(heap, prepared),
                        Meaning(heap, tmp'), Meaning(heap, caught'))
  BY <1>8, <1>9, <1>10, <1>11, WriteMeans
<1>. QED
  BY <1>11, <1>12 DEF Abstract!Write, content

-----------------------------------------------------------------------------
(***************************************************************************)
(* Instructions that move or delete objects and write no value.            *)
(***************************************************************************)

\* The frame on top gets the registers regs; no variable is written.
LEMMA RestMeans ==
  ASSUME Inv, Inv', Permitted, Leakless, NEW S, Carried(heap, heap', S),
         Below(frames) \subseteq S, NEW regs, Retopped(frames, frames', regs),
         prepared' = prepared
  PROVE  Abstract!Becomes(StoreOf(heap), Abstract!WithTop(MeaningOfRegs(heap', regs)),
                          MeaningOfPrepared(heap, prepared),
                          Meaning(heap', tmp'), Meaning(heap', caught'))
<1>1. MeaningOfStack(heap', frames') = Abstract!WithTop(MeaningOfRegs(heap', regs))
  <2>1. Untouched(heap, heap', Below(frames))
    BY DEF Carried, Untouched
  <2>. QED
    BY <2>1, TopStepMeans
<1>2. MeaningOfPrepared(heap', prepared') = MeaningOfPrepared(heap, prepared)
  BY LentMeans
<1>3. \A d \in UsedCells(heap') : heap'.obj[heap'.cell[d].target] = StoreOf(heap)[d]
  BY CarriedStore DEF Inv
<1>. QED
  BY <1>1, <1>2, <1>3, BecomesForm

\* Registers change hands within the frame.
LEMMA ShuffleMeans ==
  ASSUME Inv, Inv', Permitted, Leakless, UNCHANGED <<heap, prepared, tmp, caught>>,
         NEW regs \in RegisterSet, Retopped(frames, frames', regs)
  PROVE  Abstract!Becomes(StoreOf(heap), Abstract!WithTop(MeaningOfRegs(heap, regs)),
                          MeaningOfPrepared(heap, prepared),
                          Meaning(heap, tmp), Meaning(heap, caught))
<1>1. Carried(heap, heap', Below(frames))
  BY DEF Carried, Untouched
<1>2. Abstract!Becomes(StoreOf(heap), Abstract!WithTop(MeaningOfRegs(heap', regs)),
                       MeaningOfPrepared(heap, prepared),
                       Meaning(heap', tmp'), Meaning(heap', caught'))
  BY <1>1, RestMeans
<1>3. heap' = heap /\ tmp' = tmp /\ caught' = caught
  OBVIOUS
<1>. QED
  BY <1>2, <1>3

LEMMA MoveMeans ==
  ASSUME Inv, Inv', Permitted, Leakless, NEW i \in Registers, NEW j \in Registers, Move(i, j)
  PROVE  Abstract!Move(i, j)
<1> DEFINE regs == [Regs EXCEPT ![j] = Regs[i], ![i] = Null]
<1>1. /\ regs \in RegisterSet
      /\ \A k \in Registers :
           regs[k] = IF k = i THEN Null ELSE IF k = j THEN Regs[i] ELSE Regs[k]
  BY RegsForm DEF RegisterSet
<1>2. frames' = WithTop(regs, {}) /\ UNCHANGED <<heap, prepared, tmp, caught>>
  BY RegsForm DEF Move
<1> HIDE DEF regs
<1>3. Retopped(frames, frames', regs)
  BY <1>1, <1>2, RegsForm
<1>4. MeaningOfRegs(heap, regs)
        = [Abstract!Regs EXCEPT ![j] = Abstract!Regs[i], ![i] = Null]
  <2>1. Abstract!Regs = [k \in Registers |-> Meaning(heap, Regs[k])]
    BY RegsMeaning DEF MeaningOfRegs
  <2>2. Meaning(heap, Null) = Null
    BY DEF Meaning
  <2>. QED
    BY <1>1, <2>1, <2>2 DEF MeaningOfRegs
<1>. QED
  BY <1>1, <1>2, <1>3, <1>4, ShuffleMeans DEF Abstract!Move

LEMMA SwapMeans ==
  ASSUME Inv, Inv', Permitted, Leakless, NEW i \in Registers, NEW j \in Registers, Swap(i, j)
  PROVE  Abstract!Swap(i, j)
<1> DEFINE regs == [Regs EXCEPT ![i] = Regs[j], ![j] = Regs[i]]
<1>1. /\ regs \in RegisterSet
      /\ \A k \in Registers :
           regs[k] = IF k = j THEN Regs[i] ELSE IF k = i THEN Regs[j] ELSE Regs[k]
  BY RegsForm DEF RegisterSet
<1>2. frames' = WithTop(regs, {}) /\ UNCHANGED <<heap, prepared, tmp, caught>>
  BY RegsForm DEF Swap
<1> HIDE DEF regs
<1>3. Retopped(frames, frames', regs)
  BY <1>1, <1>2, RegsForm
<1>4. MeaningOfRegs(heap, regs)
        = [Abstract!Regs EXCEPT ![i] = Abstract!Regs[j], ![j] = Abstract!Regs[i]]
  <2>1. Abstract!Regs = [k \in Registers |-> Meaning(heap, Regs[k])]
    BY RegsMeaning DEF MeaningOfRegs
  <2>. QED
    BY <1>1, <2>1 DEF MeaningOfRegs
<1>. QED
  BY <1>1, <1>2, <1>3, <1>4, ShuffleMeans DEF Abstract!Swap

\* What register i held is deleted, and the register gets what tmp held, or
\* nothing.
LEMMA FreedMeans ==
  ASSUME Inv, Inv', Permitted, Leakless, NEW i \in Registers,
         heap' = Delete(heap, Regs[i]),
         NEW o \in Objects \cup {Null}, o \in Others(tmp, caught) \cup {Null},
         Others(tmp', caught') \subseteq Others(tmp, caught),
         frames' = WithTop([Regs EXCEPT ![i] = o], {}), prepared' = prepared
  PROVE  Abstract!Becomes(StoreOf(heap),
                          Abstract!WithTop([Abstract!Regs EXCEPT ![i] = Meaning(heap, o)]),
                          MeaningOfPrepared(heap, prepared),
                          Meaning(heap, tmp'), Meaning(heap, caught'))
<1> DEFINE regs == [Regs EXCEPT ![i] = o]
           S == Held(frames, tmp, caught) \ ({Regs[i]} \ {Null})
<1>1. regs \in RegisterSet /\ \A k \in Registers : regs[k] = IF k = i THEN o ELSE Regs[k]
  BY RegsForm, PutForm
<1>2. Retopped(frames, frames', regs)
  BY <1>1, RegsForm
<1>3. Carried(heap, heap', S)
  <2>1. {Regs[i]} \ {Null} \in SUBSET Held(frames, tmp, caught)
    BY RegsForm
  <2>. QED
    BY <2>1, DeleteCarried DEF Inv, Delete
<1>4. Others(tmp, caught) \cup Below(frames) \subseteq S
  BY RegsForm DEF Elsewhere
<1>5. \A k \in Registers : k # i /\ Regs[k] # Null => Regs[k] \in S
  BY RegsForm DEF Distinct
<1> HIDE DEF regs, S
<1>6. \A x \in S : heap'.obj[x] = heap.obj[x]
  BY <1>3 DEF Carried, Untouched
<1>7. \A k \in Registers :
        Meaning(heap', regs[k]) = IF k = i THEN Meaning(heap, o) ELSE Meaning(heap, Regs[k])
  BY <1>1, <1>4, <1>5, <1>6 DEF Meaning
<1>8. MeaningOfRegs(heap', regs) = [Abstract!Regs EXCEPT ![i] = Meaning(heap, o)]
  <2>1. Abstract!Regs = [k \in Registers |-> Meaning(heap, Regs[k])]
    BY RegsMeaning DEF MeaningOfRegs
  <2>. QED
    BY <1>7, <2>1 DEF MeaningOfRegs
<1>9. Meaning(heap', tmp') = Meaning(heap, tmp') /\ Meaning(heap', caught') = Meaning(heap, caught')
  BY <1>4, <1>6 DEF Meaning, Others
<1>10. Abstract!Becomes(StoreOf(heap), Abstract!WithTop(MeaningOfRegs(heap', regs)),
                        MeaningOfPrepared(heap, prepared),
                        Meaning(heap', tmp'), Meaning(heap', caught'))
  <2>1. Below(frames) \subseteq S
    BY <1>4
  <2>. QED
    BY <1>2, <1>3, <2>1, RestMeans
<1>. QED
  BY <1>8, <1>9, <1>10

LEMMA FreeMeans ==
  ASSUME Inv, Inv', Permitted, Leakless, NEW i \in Registers, Free(i)
  PROVE  Abstract!Clear(i)
<1>1. /\ frames' = WithTop([Regs EXCEPT ![i] = Null], {}) /\ Meaning(heap, Null) = Null
      /\ heap' = Delete(heap, Regs[i]) /\ UNCHANGED <<prepared, tmp, caught>>
  BY RegsForm DEF Free, Meaning
<1>2. Abstract!Becomes(StoreOf(heap),
                       Abstract!WithTop([Abstract!Regs EXCEPT ![i] = Meaning(heap, Null)]),
                       MeaningOfPrepared(heap, prepared),
                       Meaning(heap, tmp'), Meaning(heap, caught'))
  BY <1>1, FreedMeans
<1>3. Meaning(heap, tmp') = Meaning(heap, tmp) /\ Meaning(heap, caught') = Meaning(heap, caught)
  BY <1>1
<1>. QED
  BY <1>1, <1>2, <1>3, RegsMeaning DEF Free, Abstract!Clear

\* Careful programs empty references only.
LEMMA EmptyMeans ==
  ASSUME Inv, Inv', Permitted, Leakless, NEW i \in Registers, Empty(i)
  PROVE  Abstract!Clear(i)
<1>1. IsReference(heap, Regs[i])
  BY DEF Empty, Follows, Leakless, OwnershipRules
<1>2. Free(i)
  BY <1>1 DEF Empty, Free
<1>. QED
  BY <1>2, FreeMeans

\* Nothing is deleted with no objects.
LEMMA DeleteNothing ==
  ASSUME NEW h, NEW held, NEW lost, Sound(h, held, lost)
  PROVE  DeleteAll(h, {}) = h
<1>1. h \in Heap
  BY DEF Sound
<1>2. \A c \in Cells : Dropped(h, {}, c) = 0
  BY FS_EmptySet DEF Dropped
<1>3. Emptied(h, {}) = {}
  BY <1>1, <1>2, HeapFields DEF Emptied, UsedCells
<1>4. \A c \in Cells : h.cell[c] # Null => [h.cell[c] EXCEPT !.count = @ - Dropped(h, {}, c)] = h.cell[c]
  BY <1>1, <1>2, HeapFields DEF UsedCells, Cell
<1>5. /\ h = [obj |-> h.obj, cell |-> h.cell]
      /\ h.obj = [o \in Objects |-> h.obj[o]] /\ h.cell = [c \in Cells |-> h.cell[c]]
  BY <1>1 DEF Heap
<1>. QED
  BY <1>3, <1>4, <1>5 DEF DeleteAll

LEMMA TmproMeans ==
  ASSUME Inv, Inv', Permitted, Leakless, NEW i \in Registers, Tmpro(i)
  PROVE  Abstract!Tmpro(i)
<1>1. /\ frames' = WithTop([Regs EXCEPT ![i] = tmp], {}) /\ Meaning(heap, Null) = Null
      /\ tmp' = Null /\ UNCHANGED <<prepared, caught>>
  BY RegsForm DEF Tmpro, Meaning
<1>2. /\ tmp \in Objects \cup {Null} /\ tmp \in Others(tmp, caught) \cup {Null}
      /\ Others(tmp', caught') \subseteq Others(tmp, caught)
  BY <1>1 DEF Inv, TypeOK, Others
<1>3. heap' = Delete(heap, Regs[i])
  <2>1. CASE i \in Filled
    BY <2>1 DEF Tmpro
  <2>2. CASE i \notin Filled
    <3>1. Regs[i] = Null /\ heap' = heap /\ {Regs[i]} \ {Null} = {}
      BY <2>2 DEF Tmpro, Filled
    <3>2. Delete(heap, Regs[i]) = heap
      BY <3>1, DeleteNothing DEF Delete, Inv
    <3>. QED
      BY <3>1, <3>2
  <2>. QED
    BY <2>1, <2>2
<1>4. Abstract!Becomes(StoreOf(heap),
                       Abstract!WithTop([Abstract!Regs EXCEPT ![i] = Meaning(heap, tmp)]),
                       MeaningOfPrepared(heap, prepared),
                       Meaning(heap, tmp'), Meaning(heap, caught'))
  BY <1>1, <1>2, <1>3, FreedMeans
<1>5. Meaning(heap, tmp') = Null /\ Meaning(heap, caught') = Meaning(heap, caught)
  BY <1>1
<1>. QED
  BY <1>4, <1>5 DEF Abstract!Tmpro

\* The stack means what it meant if what its registers hold is what it was.
LEMMA StackSame ==
  ASSUME Inv, Permitted, frames' = frames, NEW S, Untouched(heap, heap', S),
         Held(frames, Null, Null) \subseteq S
  PROVE  MeaningOfStack(heap', frames) = MeaningOfStack(heap, frames)
<1>1. \A j \in DOMAIN frames : frames[j].regs \in RegisterSet
  BY TopFrame DEF Inv, TypeOK
<1>2. ASSUME NEW j \in DOMAIN frames
      PROVE  MeaningOfFrame(heap', frames[j]) = MeaningOfFrame(heap, frames[j])
  <2>1. Untouched(heap, heap', Contents(frames[j].regs))
    BY DEF Held, Untouched
  <2>2. MeaningOfRegs(heap', frames[j].regs) = MeaningOfRegs(heap, frames[j].regs)
    BY <1>1, <2>1, RegsMean
  <2>3. MeaningOfSlots(heap', frames[j].args) = MeaningOfSlots(heap, frames[j].args)
    BY LentMeans
  <2>. QED
    BY <2>2, <2>3 DEF MeaningOfFrame
<1>. QED
  BY <1>2 DEF MeaningOfStack

LEMMA TmpriMeans ==
  ASSUME Inv, Inv', Permitted, Leakless, NEW i \in Registers, Tmpri(i)
  PROVE  Abstract!Tmpri(i)
<1>1. Objects \ Live(heap) # {} /\ Regs[i] \in Live(heap) /\ Regs[i] # Null
  BY RoomFor, RegsForm DEF Tmpri, Filled
<1>2. /\ heap' = Clone(heap, Regs[i]) /\ tmp' = FreshObject(heap) /\ frames' = frames
      /\ caught' = caught /\ prepared' = prepared
  BY DEF Tmpri
<1>3. Carried(heap, heap', Live(heap)) /\ Meaning(heap', tmp') = Meaning(heap, Regs[i])
  BY <1>1, <1>2, CloneCarried DEF Inv
<1>4. Untouched(heap, heap', Live(heap))
  BY <1>3 DEF Carried
<1>5. Held(frames, Null, Null) \subseteq Live(heap) /\ caught \in Live(heap) \cup {Null}
  BY DEF Inv, Sound, Held, Others
<1>6. MeaningOfStack(heap', frames') = MeaningOfStack(heap, frames)
  BY <1>2, <1>4, <1>5, StackSame
<1>7. MeaningOfPrepared(heap', prepared') = MeaningOfPrepared(heap, prepared)
  BY <1>2, LentMeans
<1>8. Meaning(heap', caught') = Meaning(heap, caught)
  BY <1>2, <1>4, <1>5 DEF Meaning, Untouched
<1>9. \A d \in UsedCells(heap') : heap'.obj[heap'.cell[d].target] = StoreOf(heap)[d]
  BY <1>3, CarriedStore DEF Inv
<1>10. Abstract!Regs[i] = Meaning(heap, Regs[i]) /\ Abstract!Regs[i] # Null
  BY <1>1, RegsMeaning DEF Filled
<1>11. Abstract!Becomes(StoreOf(heap), MeaningOfStack(heap, frames),
                        MeaningOfPrepared(heap, prepared), Abstract!Regs[i],
                        Meaning(heap, caught))
  BY <1>3, <1>6, <1>7, <1>8, <1>9, <1>10, BecomesForm
<1>. QED
  BY <1>10, <1>11 DEF Abstract!Tmpri

\* A step that leaves the heap, the stack and the objects held aside alone.
LEMMA SlotsOnly ==
  ASSUME Inv, Inv', Permitted, Leakless, UNCHANGED <<heap, frames, tmp, caught>>,
         NEW slots, MeaningOfPrepared(heap, prepared') = slots
  PROVE  Abstract!Becomes(StoreOf(heap), MeaningOfStack(heap, frames), slots,
                          Meaning(heap, tmp), Meaning(heap, caught))
<1>1. Carried(heap, heap', Live(heap))
  BY DEF Carried, Untouched
<1>2. \A d \in UsedCells(heap') : heap'.obj[heap'.cell[d].target] = StoreOf(heap)[d]
  BY <1>1, CarriedStore DEF Inv
<1>3. heap' = heap /\ frames' = frames /\ tmp' = tmp /\ caught' = caught
  OBVIOUS
<1>. QED
  BY <1>2, <1>3, BecomesForm

LEMMA FrameNewMeans ==
  ASSUME Inv, Inv', Permitted, Leakless, FrameNew
  PROVE  Abstract!FrameNew
<1>1. prepared = Null /\ prepared' = EmptySlots /\ UNCHANGED <<heap, frames, tmp, caught>>
  BY DEF FrameNew
<1>2. EmptySlots \in SlotSet /\ EmptySlots # Null
  BY NullAssumption DEF EmptySlots, SlotSet
<1>3. MeaningOfPrepared(heap, EmptySlots) = [s \in Slots |-> Null]
  BY <1>2 DEF MeaningOfPrepared, MeaningOfSlots, EmptySlots, Meaning
<1>4. MeaningOfPrepared(heap, prepared) = Null
  BY <1>1 DEF MeaningOfPrepared
<1>5. Abstract!Becomes(StoreOf(heap), MeaningOfStack(heap, frames), [s \in Slots |-> Null],
                       Meaning(heap, tmp), Meaning(heap, caught))
  BY <1>1, <1>3, SlotsOnly
<1>. QED
  BY <1>4, <1>5 DEF Abstract!FrameNew

\* The slots of a call that is prepared.
LEMMA PreparedMeans ==
  ASSUME NEW h \in Heap, NEW slots \in SlotSet
  PROVE  /\ MeaningOfPrepared(h, slots) = MeaningOfSlots(h, slots)
         /\ MeaningOfPrepared(h, slots) # Null
         /\ MeaningOfPrepared(h, slots) \in [Slots -> Content \cup {Null}]
<1>1. slots # Null
  BY NullAssumption
<1>2. \A s \in Slots : Meaning(h, slots[s]) \in Content \cup {Null}
  BY DEF SlotSet, Meaning, Heap
<1>3. MeaningOfPrepared(h, slots) = MeaningOfSlots(h, slots)
  BY <1>1 DEF MeaningOfPrepared
<1>4. MeaningOfSlots(h, slots) \in [Slots -> Content \cup {Null}]
  BY <1>2 DEF MeaningOfSlots
<1>. QED
  BY <1>3, <1>4, RowAssumption

\* Slot s, empty before, gets the object o; the other slots mean what they meant.
LEMMA FilledSlotMeans ==
  ASSUME Inv, Permitted, Leakless, prepared # Null, NEW h, NEW s \in Slots,
         NEW o \in Objects, SetSlot(h, s, o)
  PROVE  LET ps == MeaningOfPrepared(heap, prepared)
         IN /\ heap' = h
            /\ ps # Null /\ ps[s] = Null
            /\ MeaningOfPrepared(heap', prepared') = [ps EXCEPT ![s] = Meaning(heap', o)]
<1>1. prepared \in SlotSet /\ heap \in Heap
  BY DEF Inv, TypeOK
<1>2. prepared[s] = Null
  BY DEF Leakless, OwnershipRules, SetSlot, Follows
<1>3. heap' = h /\ prepared' = [prepared EXCEPT ![s] = o]
  BY <1>2 DEF SetSlot, SetHeap, SetRegs, IsReference
<1>4. prepared' \in SlotSet /\ \A r \in Slots : prepared'[r] = IF r = s THEN o ELSE prepared[r]
  BY <1>1, <1>3 DEF SlotSet
<1>5. prepared' # Null /\ DOMAIN prepared = Slots /\ DOMAIN prepared' = Slots
  BY <1>1, <1>4, NullAssumption DEF SlotSet
<1>6. ASSUME NEW r \in Slots, r # s
      PROVE  Meaning(heap', prepared[r]) = Meaning(heap, prepared[r])
  <2>1. CASE prepared[r] = Null
    BY <2>1 DEF Meaning
  <2>2. CASE prepared[r] # Null
    <3>1. prepared[r] \in Lent(prepared) /\ prepared[r] \in Lent(prepared')
      BY <1>4, <1>5, <1>6, <2>2 DEF Lent, Range
    <3>2. prepared[r] \in LentObjects \cap LentObjects'
      BY <3>1 DEF LentObjects
    <3>. QED
      BY <2>2, <3>2 DEF Meaning, Permitted, LentUntouched
  <2>. QED
    BY <2>1, <2>2
<1>7. /\ MeaningOfPrepared(heap', prepared') = [r \in Slots |-> Meaning(heap', prepared'[r])]
      /\ MeaningOfPrepared(heap, prepared) = [r \in Slots |-> Meaning(heap, prepared[r])]
  BY <1>5 DEF MeaningOfPrepared, MeaningOfSlots
<1>8. MeaningOfPrepared(heap, prepared) # Null
  BY <1>1, PreparedMeans
<1>9. MeaningOfPrepared(heap, prepared)[s] = Null
  BY <1>2, <1>7 DEF Meaning
<1>. QED
  BY <1>3, <1>4, <1>6, <1>7, <1>8, <1>9

LEMMA ParamMeans ==
  ASSUME Inv, Inv', Permitted, Leakless, NEW s \in Slots, NEW i \in Registers, Param(s, i)
  PROVE  Abstract!Param(s, i)
<1> DEFINE o == Fetch(heap, Regs[i])
           ps == MeaningOfPrepared(heap, prepared)
<1>1. Regs[i] # Null /\ o \in Objects
  BY FetchLive DEF Param, Filled, Live
<1>2. Meaning(heap, o) = Abstract!ValueOf(Abstract!Regs[i]) /\ Abstract!Regs[i] # Null
  BY <1>1, FetchMeans
<1> HIDE DEF o
<1>3. SetSlot(heap, s, o) /\ prepared # Null /\ UNCHANGED <<frames, tmp, caught>>
  BY DEF Param, o
<1>4. /\ heap' = heap /\ ps # Null /\ ps[s] = Null
      /\ MeaningOfPrepared(heap', prepared') = [ps EXCEPT ![s] = Meaning(heap', o)]
  BY <1>1, <1>3, FilledSlotMeans
<1>5. MeaningOfPrepared(heap, prepared') = [ps EXCEPT ![s] = Meaning(heap, o)]
  BY <1>4
<1>6. Abstract!Becomes(StoreOf(heap), MeaningOfStack(heap, frames),
                       [ps EXCEPT ![s] = Meaning(heap, o)],
                       Meaning(heap, tmp), Meaning(heap, caught))
  BY <1>3, <1>4, <1>5, SlotsOnly
<1>. QED
  BY <1>2, <1>4, <1>6 DEF Abstract!Param

-----------------------------------------------------------------------------
(***************************************************************************)
(* Instructions that make what a register holds a variable.                *)
(***************************************************************************)

\* The register comes to stand for variable x, which gets its value.
NamesIn(h, regs, i, x) ==
  /\ x \in Cells
  /\ Abstract!Names(i, x)
  /\ Meaning(h, regs[i]) = Abstract!Variable(x)
  /\ MeaningOfRegs(h, regs) = Abstract!NamedRegs(x, i)
  /\ \A d \in UsedCells(h) : h.obj[h.cell[d].target] = Abstract!Named(x, i)[d]

LEMMA WrappedMeans ==
  ASSUME Inv, Leakless, NEW i \in Registers, Regs[i] # Null,
         ~IsReference(heap, Regs[i]) => /\ Objects \ Live(heap) # {}
                                        /\ Cells \ UsedCells(heap) # {}
  PROVE  LET h == Wrapped(i)
             regs == WrappedRegs(i)
         IN /\ NamesIn(h, regs, i, CellOf(h, regs[i]))
            /\ Untouched(heap, h, Live(heap))
            /\ regs \in RegisterSet /\ Distinct(regs) /\ regs[i] \in Live(h) \cap Contents(regs)
            /\ IsReference(h, regs[i])
            /\ Elsewhere(frames, tmp, caught) \cap Contents(regs) = {}
            /\ Sound(h, Elsewhere(frames, tmp, caught) \cup Contents(regs), {})
            /\ ~IsReference(heap, Regs[i]) => Live(h) = Live(heap) \cup {FreshObject(heap)}
<1>1. /\ Abstract!Regs[i] = Meaning(heap, Regs[i]) /\ Regs[i] \in Live(heap)
      /\ Abstract!Regs = MeaningOfRegs(heap, Regs)
  BY RegsMeaning
<1>2. /\ Abstract!IsVariable(Abstract!Regs[i]) <=> IsReference(heap, Regs[i])
      /\ IsReference(heap, Regs[i]) =>
           /\ Meaning(heap, Regs[i]) = Abstract!Variable(CellOf(heap, Regs[i]))
           /\ Abstract!NameOf(Abstract!Regs[i]) = CellOf(heap, Regs[i])
           /\ CellOf(heap, Regs[i]) \in UsedCells(heap)
  BY <1>1, MeaningForm DEF Inv
<1>3. CASE IsReference(heap, Regs[i])
  <2> DEFINE x == CellOf(heap, Regs[i])
  <2>1. Wrapped(i) = heap /\ WrappedRegs(i) = Regs
    BY <1>3 DEF Wrapped, WrappedRegs
  <2>2. x \in Cells /\ Abstract!Names(i, x)
    BY <1>2, <1>3 DEF UsedCells, Abstract!Names
  <2>3. Abstract!NamedRegs(x, i) = MeaningOfRegs(heap, Regs)
    BY <1>1, <1>2, <1>3 DEF Abstract!NamedRegs, MeaningOfRegs
  <2>4. Abstract!Named(x, i) = StoreOf(heap)
    BY <1>2, <1>3 DEF Abstract!Named
  <2>5. \A d \in UsedCells(heap) : heap.obj[heap.cell[d].target] = StoreOf(heap)[d]
    <3>1. Carried(heap, heap, Live(heap))
      BY DEF Carried, Untouched
    <3>. QED
      BY <3>1, CarriedStore DEF Inv
  <2>6. NamesIn(heap, Regs, i, x)
    BY <1>2, <1>3, <2>2, <2>3, <2>4, <2>5 DEF NamesIn
  <2>. QED
    BY <1>1, <1>3, <2>1, <2>6, RegsForm DEF Untouched, Lost
<1>4. CASE ~IsReference(heap, Regs[i])
  <2> DEFINE x == FreshCell(heap)
             o == FreshObject(heap)
             h == Wrapped(i)
             regs == WrappedRegs(i)
  <2>1. /\ Objects \ Live(heap) # {} /\ Cells \ UsedCells(heap) # {} /\ heap \in Heap
        /\ h = NewReference(heap, Regs[i]) /\ Regs[i] \in Objects
    BY <1>1, <1>4, RegsForm DEF Wrapped, Live
  <2>2. /\ x \in Cells /\ x \notin UsedCells(heap) /\ o \in Objects /\ o \notin Live(heap)
        /\ \A y \in Objects \ {o} : h.obj[y] = heap.obj[y]
        /\ h.cell[x] = [target |-> Regs[i], count |-> 1]
        /\ \A d \in Cells \ {x} : h.cell[d] = heap.cell[d]
        /\ UsedCells(h) = UsedCells(heap) \cup {x}
        /\ h.obj[o] = <<"reference", x>>
    BY <2>1, NewReferenceForm
  <2>3. /\ o # Null /\ IsReference(h, o) /\ CellOf(h, o) = x
        /\ Live(h) = Live(heap) \cup {o}
        /\ regs \in RegisterSet /\ Distinct(regs)
        /\ \A k \in Registers : regs[k] = IF k = i THEN o ELSE Regs[k]
        /\ Elsewhere(frames, tmp, caught) \cap Contents(regs) = {}
        /\ Sound(h, Elsewhere(frames, tmp, caught) \cup Contents(regs), Lost)
    BY <1>4, <2>1, WrappedForm
  <2> HIDE DEF x, o, h, regs
  <2>4. StoreOf(heap)[x] = Null
    BY <2>2 DEF StoreOf, UsedCells
  <2>5. Untouched(heap, h, Live(heap))
    BY <2>2 DEF Untouched, Live
  <2>6. Meaning(h, o) = Abstract!Variable(x)
    BY <2>2, <2>3 DEF Meaning, Abstract!Variable
  <2>7. MeaningOfRegs(h, regs) = Abstract!NamedRegs(x, i)
    <3>1. \A k \in Registers : k # i => Meaning(h, regs[k]) = Meaning(heap, Regs[k])
      <4>1. \A k \in Registers : Regs[k] \in Live(heap) \cup {Null}
        BY RegsMeaning
      <4>. QED
        BY <2>3, <2>5, <4>1 DEF Meaning, Untouched
    <3>. QED
      BY <1>1, <2>3, <2>6, <3>1 DEF Abstract!NamedRegs, MeaningOfRegs
  <2>8. \A d \in UsedCells(h) : h.obj[h.cell[d].target] = Abstract!Named(x, i)[d]
    <3>1. Abstract!Named(x, i) = [StoreOf(heap) EXCEPT ![x] = Abstract!Regs[i]]
      BY <1>2, <1>4 DEF Abstract!Named
    <3>2. DOMAIN StoreOf(heap) = Cells
      BY DEF StoreOf
    <3>3. h.obj[h.cell[x].target] = Abstract!Regs[i]
      <4>1. h.obj[h.cell[x].target] = heap.obj[Regs[i]]
        BY <1>1, <2>2, <2>5 DEF Untouched
      <4>. QED
        BY <1>1, <4>1 DEF Meaning
    <3>4. ASSUME NEW d \in UsedCells(heap)
          PROVE  d # x /\ d \in Cells /\ h.obj[h.cell[d].target] = StoreOf(heap)[d]
      <4>1. d # x /\ d \in Cells /\ h.cell[d] = heap.cell[d]
        BY <2>2 DEF UsedCells
      <4>2. heap.cell[d].target \in Live(heap)
        BY DEF Inv, Sound, CellsSound
      <4>3. heap.obj[heap.cell[d].target] = StoreOf(heap)[d]
        <5>1. Carried(heap, heap, Live(heap))
          BY DEF Carried, Untouched
        <5>. QED
          BY <5>1, CarriedStore DEF Inv
      <4>. QED
        BY <2>5, <4>1, <4>2, <4>3 DEF Untouched
    <3>. QED
      BY <2>2, <3>1, <3>2, <3>3, <3>4
  <2>9. regs[i] = o
    BY <2>3
  <2>10. NamesIn(h, regs, i, x)
    <3>1. Abstract!Names(i, x)
      BY <1>2, <1>4, <2>4 DEF Abstract!Names
    <3>. QED
      BY <2>2, <2>6, <2>7, <2>8, <2>9, <3>1 DEF NamesIn
  <2>11. regs[i] \in Live(h) \cap Contents(regs)
    BY <2>3, <2>9, ContentsMember
  <2>12. CellOf(h, regs[i]) = x /\ IsReference(h, regs[i]) /\ Lost = {}
    BY <2>3, <2>9 DEF Lost
  <2>. QED
    BY <1>4, <2>3, <2>5, <2>10, <2>11, <2>12 DEF h, regs, o
<1>. QED
  BY <1>3, <1>4

LEMMA ParefMeans ==
  ASSUME Inv, Inv', Permitted, Leakless, NEW s \in Slots, NEW i \in Registers, Paref(s, i)
  PROVE  Abstract!Paref(s, i)
<1> DEFINE h == Wrapped(i)
           regs == WrappedRegs(i)
           x == CellOf(h, regs[i])
           ps == MeaningOfPrepared(heap, prepared)
<1>1. prepared # Null /\ SetSlot(h, s, regs[i]) /\ tmp' = tmp /\ caught' = caught
  BY DEF Paref
<1>2. ~IsReference(heap, Regs[i]) => Objects \ Live(heap) # {} /\ Cells \ UsedCells(heap) # {}
  BY RoomFor DEF Paref
<1>3. Regs[i] # Null
  <2>1. SUFFICES ASSUME Regs[i] = Null PROVE FALSE
    OBVIOUS
  <2>2. ~IsReference(heap, Regs[i])
    BY <2>1 DEF IsReference
  <2> DEFINE w == FreshObject(heap)
             c == FreshCell(heap)
  <2>3. /\ w \in Objects /\ c \in UsedCells(h) /\ h.cell[c].target = Regs[i]
        /\ \A k \in Registers : regs[k] = IF k = i THEN w ELSE Regs[k]
    BY <1>2, <2>2, WrappedForm
  <2> HIDE DEF h, regs, w, c
  <2>4. heap' = h
    BY <1>1, <2>3, FilledSlotMeans
  <2>. QED
    BY <2>1, <2>3, <2>4 DEF Permitted, FlatReferences
<1>4. /\ NamesIn(h, regs, i, x) /\ Untouched(heap, h, Live(heap))
      /\ regs \in RegisterSet /\ regs[i] \in Live(h) /\ regs[i] \in Objects
  <2>1. NamesIn(h, regs, i, x) /\ Untouched(heap, h, Live(heap))
    BY <1>2, <1>3, WrappedMeans
  <2>2. regs \in RegisterSet /\ regs[i] \in Live(h)
    BY <1>2, <1>3, WrappedMeans
  <2>. QED
    BY <2>1, <2>2 DEF Live
<1>5. Retopped(frames, frames', regs)
  <2>1. CASE IsReference(heap, Regs[i])
    <3>1. frames' = frames /\ regs = Regs
      BY <2>1 DEF Paref, WrappedRegs
    <3>. QED
      BY <3>1, SameTop DEF Inv, Regs, Top
  <2>2. CASE ~IsReference(heap, Regs[i])
    BY <1>4, <2>2, RegsForm DEF Paref
  <2>. QED
    BY <2>1, <2>2
<1> HIDE DEF h, regs, x
<1>6. /\ heap' = h /\ ps # Null /\ ps[s] = Null
      /\ MeaningOfPrepared(heap', prepared') = [ps EXCEPT ![s] = Meaning(heap', regs[i])]
  BY <1>1, <1>4, FilledSlotMeans
<1>7. /\ x \in Cells /\ Abstract!Names(i, x)
      /\ Meaning(heap', regs[i]) = Abstract!Variable(x)
      /\ MeaningOfRegs(heap', regs) = Abstract!NamedRegs(x, i)
      /\ \A d \in UsedCells(heap') : heap'.obj[heap'.cell[d].target] = Abstract!Named(x, i)[d]
  BY <1>4, <1>6 DEF NamesIn
<1>8. Below(frames) \subseteq Live(heap) /\ {tmp, caught} \subseteq Live(heap) \cup {Null}
  <2>1. Held(frames, tmp, caught) \subseteq Live(heap)
    BY DEF Inv, Sound
  <2>. QED
    BY <2>1, RegsForm DEF Elsewhere, Others
<1>9. Untouched(heap, heap', Live(heap))
  BY <1>4, <1>6
<1>10. MeaningOfStack(heap', frames') = Abstract!WithTop(Abstract!NamedRegs(x, i))
  <2>1. Untouched(heap, heap', Below(frames))
    BY <1>8, <1>9 DEF Untouched
  <2>. QED
    BY <1>5, <1>7, <2>1, TopStepMeans
<1>11. Meaning(heap', tmp') = Meaning(heap, tmp) /\ Meaning(heap', caught') = Meaning(heap, caught)
  BY <1>1, <1>8, <1>9 DEF Meaning, Untouched
<1>12. Abstract!Becomes(Abstract!Named(x, i), Abstract!WithTop(Abstract!NamedRegs(x, i)),
                        [ps EXCEPT ![s] = Abstract!Variable(x)],
                        Meaning(heap, tmp), Meaning(heap, caught))
  BY <1>6, <1>7, <1>10, <1>11, BecomesForm
<1>13. Abstract!Regs[i] # Null
  BY <1>3, RegsMeaning DEF Filled
<1>. QED
  BY <1>6, <1>7, <1>12, <1>13 DEF Abstract!Paref

\* The Reference in register i is copied to register j.
LEMMA RefMeans ==
  ASSUME Inv, Inv', Permitted, Leakless, NEW i \in Registers, NEW j \in Registers, Ref(i, j)
  PROVE  Abstract!Ref(i, j)
<1> DEFINE h == Wrapped(i)
           regs == WrappedRegs(i)
           x == CellOf(h, regs[i])
           o == FreshObject(h)
           copied == Clone(h, regs[i])
           now == SetRegs(copied, regs, j, o)
           others == Elsewhere(frames, tmp, caught)
           content == Abstract!Variable(x)
           ms == MeaningOfRegs(copied, regs)
<1>1. /\ heap' = SetHeap(copied, regs, j, o) /\ frames' = WithTop(now, {})
      /\ prepared' = prepared /\ tmp' = tmp /\ caught' = caught
  BY RegsForm DEF Ref, WrappedKeep
<1>2. Flat(heap')
  BY DEF Permitted, FlatReferences, Flat
<1>3. ~IsReference(heap, Regs[i]) =>
        /\ Room(2, 1) /\ Objects \ Live(heap) # {} /\ Cells \ UsedCells(heap) # {}
        /\ \A y : (Objects \ Live(heap)) \ {y} # {}
  BY RoomFor DEF Ref
<1>4. Regs[i] # Null
  BY <1>1, <1>2, <1>3, NoReferenceToNull DEF IsReference
<1>5. NamesIn(h, regs, i, x) /\ Untouched(heap, h, Live(heap))
  BY <1>3, <1>4, WrappedMeans
<1>6. /\ regs \in RegisterSet /\ Distinct(regs) /\ others \cap Contents(regs) = {}
      /\ regs[i] \in Live(h)
      /\ Sound(h, others \cup Contents(regs), {})
  BY <1>3, <1>4, WrappedMeans
<1>7. Objects \ Live(h) # {}
  <2>1. CASE IsReference(heap, Regs[i])
    BY <2>1, RoomFor DEF Ref, Wrapped
  <2>2. CASE ~IsReference(heap, Regs[i])
    <3>1. Live(h) = Live(heap) \cup {FreshObject(heap)}
      BY <1>3, <1>4, <2>2, WrappedMeans
    <3>2. Objects \ Live(h) = (Objects \ Live(heap)) \ {FreshObject(heap)}
      BY <3>1
    <3>. QED
      BY <1>3, <2>2, <3>2
  <2>. QED
    BY <2>1, <2>2
<1> HIDE DEF h, regs, x
<1>8. Carried(h, copied, Live(h)) /\ Meaning(copied, o) = Meaning(h, regs[i])
  BY <1>6, <1>7, CloneCarried
<1>9. o \in Objects /\ o \notin Live(h)
  BY <1>7, FreshFree
<1>10. Sound(copied, others \cup Contents(regs) \cup {o}, {})
  BY <1>6, <1>7, CloneSound
<1>11. others \cup Contents(regs) \subseteq Live(h)
  BY <1>6 DEF Sound
<1> HIDE DEF o, copied
<1>12. Writes(copied, regs, heap', now, others, j, Meaning(copied, o))
  <2>1. o \notin others /\ o \notin Contents(regs)
    BY <1>9, <1>11
  <2>2. Flat(SetHeap(copied, regs, j, o))
    BY <1>1, <1>2
  <2> HIDE DEF others, now
  <2>3. Writes(copied, regs, SetHeap(copied, regs, j, o), SetRegs(copied, regs, j, o),
               others, j, Meaning(copied, o))
    BY <1>6, <1>9, <1>10, <2>1, <2>2, SetMeans
  <2>. QED
    BY <1>1, <2>3 DEF now
<1>13. /\ x \in Cells /\ Abstract!Names(i, x)
       /\ Meaning(h, regs[i]) = content
       /\ MeaningOfRegs(h, regs) = Abstract!NamedRegs(x, i)
       /\ \A d \in UsedCells(h) : h.obj[h.cell[d].target] = Abstract!Named(x, i)[d]
  BY <1>5 DEF NamesIn
<1>14. ms = Abstract!NamedRegs(x, i)
  <2>1. Untouched(h, copied, Contents(regs))
    BY <1>8, <1>11 DEF Carried, Untouched
  <2>. QED
    BY <1>6, <1>13, <2>1, RegsMean
<1>15. content \notin Abstract!Stored /\ Abstract!IsVariable(content)
  <2>1. content # Null
    BY <1>13, NullAssumption DEF Abstract!Variable, Content
  <2>2. content[1] = "reference" /\ \A v : Abstract!Value(v)[1] = "value"
    BY DEF Abstract!Variable, Abstract!Value
  <2>. QED
    BY <2>1, <2>2 DEF Abstract!IsVariable, Abstract!Stored
<1>16. ~Abstract!IsVariable(ms[j])
  BY <1>8, <1>12, <1>13, <1>15 DEF Writes, Abstract!Fits
<1>17. \A k \in Registers : ms[k] = IF k = i THEN content ELSE Abstract!Regs[k]
  BY <1>14, RegsMeaning DEF Abstract!NamedRegs, MeaningOfRegs
<1>18. i # j /\ ~Abstract!IsVariable(Abstract!Regs[j])
  BY <1>15, <1>16, <1>17
<1> HIDE DEF ms
<1>19. MeaningOfRegs(heap', now) = [Abstract!NamedRegs(x, i) EXCEPT ![j] = content]
  BY <1>8, <1>12, <1>13, <1>14, <1>16 DEF Writes, Abstract!WrittenRegs, ms
<1>20. ASSUME NEW d \in UsedCells(heap')
       PROVE  heap'.obj[heap'.cell[d].target] = Abstract!Named(x, i)[d]
  <2>1. heap'.obj[heap'.cell[d].target]
          = Abstract!Written(StoreOf(copied), ms, j, Meaning(copied, o))[d]
    BY <1>12 DEF Writes, ms
  <2>2. heap'.obj[heap'.cell[d].target] = StoreOf(copied)[d] /\ d \in UsedCells(copied)
    BY <1>12, <1>16, <2>1 DEF Writes, Abstract!Written
  <2>3. /\ d \in UsedCells(h)
        /\ copied.obj[copied.cell[d].target] = h.obj[h.cell[d].target]
    BY <1>8, <2>2 DEF Carried
  <2>4. copied.obj[copied.cell[d].target] = StoreOf(copied)[d]
    <3>1. Carried(copied, copied, Live(copied))
      BY DEF Carried, Untouched
    <3>. QED
      BY <1>10, <2>2, <3>1, CarriedStore
  <2>. QED
    BY <1>13, <2>2, <2>3, <2>4
<1>21. Untouched(heap, heap', others)
  <2>1. others \subseteq Live(heap)
    <3>1. Held(frames, tmp, caught) \subseteq Live(heap)
      BY DEF Inv, Sound
    <3>. QED
      BY <3>1, RegsForm
  <2>2. Untouched(copied, heap', others)
    BY <1>12 DEF Writes
  <2>. QED
    BY <1>5, <1>8, <1>11, <2>1, <2>2 DEF Untouched, Carried
<1>22. MeaningOfStack(heap', frames')
         = Abstract!WithTop([Abstract!NamedRegs(x, i) EXCEPT ![j] = content])
  <2>1. Retopped(frames, frames', now)
    <3>1. now \in RegisterSet
      BY <1>6, <1>9, PutForm DEF SetRegs
    <3>. QED
      BY <1>1, <3>1, RegsForm
  <2>2. Untouched(heap, heap', Below(frames))
    BY <1>21 DEF Untouched, Elsewhere
  <2> HIDE DEF now
  <2>. QED
    BY <1>19, <2>1, <2>2, TopStepMeans
<1>23. /\ MeaningOfPrepared(heap', prepared') = MeaningOfPrepared(heap, prepared)
       /\ Meaning(heap', tmp') = Meaning(heap, tmp)
       /\ Meaning(heap', caught') = Meaning(heap, caught)
  BY <1>1, <1>21, LentMeans DEF Meaning, Untouched, Elsewhere, Others
<1>24. Abstract!Becomes(Abstract!Named(x, i),
                        Abstract!WithTop([Abstract!NamedRegs(x, i) EXCEPT ![j] = content]),
                        MeaningOfPrepared(heap, prepared),
                        Meaning(heap, tmp), Meaning(heap, caught))
  BY <1>20, <1>22, <1>23, BecomesForm
<1>25. /\ Abstract!Regs[i] # Null
       /\ Abstract!Fits(Abstract!Regs, j, Abstract!Regs[i])
  BY <1>4, <1>18, RegsMeaning DEF Filled, Abstract!Fits
<1>. QED
  BY <1>13, <1>18, <1>24, <1>25 DEF Abstract!Ref

-----------------------------------------------------------------------------
(***************************************************************************)
(* Calls, returns and exceptions.                                          *)
(***************************************************************************)
LEMMA AppendMeans ==
  ASSUME NEW fs \in Seq(Frame), NEW f \in Frame, NEW h
  PROVE  MeaningOfStack(h, Append(fs, f)) = Append(MeaningOfStack(h, fs), MeaningOfFrame(h, f))
<1> DEFINE ms == MeaningOfStack(h, fs)
           gs == Append(fs, f)
           n == Len(fs)
           S == {MeaningOfFrame(h, fs[k]) : k \in DOMAIN fs}
           g == MeaningOfFrame(h, f)
<1>1. /\ n \in Nat /\ DOMAIN gs = 1 .. n + 1 /\ gs[n + 1] = f /\ DOMAIN fs = 1 .. n
      /\ \A k \in 1 .. n : gs[k] = fs[k]
  OBVIOUS
<1>2. /\ ms \in Seq(S) /\ Len(ms) = n /\ \A k \in 1 .. n : ms[k] = MeaningOfFrame(h, fs[k])
  BY <1>1, StackForm
<1>3. MeaningOfStack(h, gs) = [k \in 1 .. n + 1 |-> MeaningOfFrame(h, gs[k])]
  BY <1>1 DEF MeaningOfStack
<1> HIDE DEF ms, gs, n, S, g
<1>4. Append(ms, g) = [k \in 1 .. n + 1 |-> IF k = n + 1 THEN g ELSE ms[k]]
  <2> DEFINE T == S \cup {g}
             as == Append(ms, g)
  <2>1. ms \in Seq(T) /\ g \in T
    BY <1>2
  <2> HIDE DEF T
  <2>2. /\ as \in Seq(T) /\ Len(as) = n + 1 /\ as[n + 1] = g
        /\ \A k \in 1 .. n : as[k] = ms[k]
    BY <1>2, <2>1
  <2> HIDE DEF as
  <2>3. as = [k \in 1 .. n + 1 |-> as[k]]
    <3>1. as \in [1 .. n + 1 -> T]
      BY <2>2, LenProperties
    <3>. QED
      BY <3>1
  <2>4. \A k \in 1 .. n + 1 : k = n + 1 \/ k \in 1 .. n
    BY <1>1
  <2>. QED
    BY <2>2, <2>3, <2>4 DEF as
<1>5. \A k \in 1 .. n + 1 : MeaningOfFrame(h, gs[k]) = IF k = n + 1 THEN g ELSE ms[k]
  <2>1. \A k \in 1 .. n + 1 : k = n + 1 \/ k \in 1 .. n
    BY <1>1
  <2>. QED
    BY <1>1, <1>2, <2>1 DEF g
<1>. QED
  BY <1>3, <1>4, <1>5 DEF ms, gs, g

LEMMA CallMeans ==
  ASSUME Inv, Inv', Permitted, Leakless, NEW r \in Registers, Call(r)
  PROVE  Abstract!Call(r)
<1> DEFINE f == [regs |-> EmptyRegisters, keep |-> {}, args |-> prepared, ret |-> r]
           ps == MeaningOfPrepared(heap, prepared)
           g == [regs |-> [i \in Registers |-> Null], args |-> ps, ret |-> r]
<1>1. /\ frames' = Append(frames, f) /\ Len(frames) < MaxFrames /\ prepared # Null
      /\ prepared' = Null /\ heap' = heap /\ tmp' = tmp /\ caught' = caught
  BY DEF Call
<1>2. /\ prepared \in SlotSet /\ frames \in Seq(Frame) /\ frames # <<>> /\ heap \in Heap
  BY <1>1 DEF Inv, TypeOK
<1>3. f \in Frame
  BY <1>2 DEF Frame, EmptyRegisters, RegisterSet
<1>4. ps = MeaningOfSlots(heap, prepared) /\ ps # Null
  BY <1>2, PreparedMeans
<1>5. MeaningOfFrame(heap, f) = g
  <2>1. MeaningOfRegs(heap, EmptyRegisters) = [i \in Registers |-> Null]
    BY DEF MeaningOfRegs, EmptyRegisters, Meaning
  <2>. QED
    BY <1>4, <2>1 DEF MeaningOfFrame
<1>6. MeaningOfStack(heap', frames') = Append(MeaningOfStack(heap, frames), g)
  BY <1>1, <1>2, <1>3, <1>5, AppendMeans
<1>7. Len(MeaningOfStack(heap, frames)) = Len(frames)
  BY <1>2, StackForm
<1>8. MeaningOfPrepared(heap', prepared') = Null
  BY <1>1 DEF MeaningOfPrepared
<1>9. \A d \in UsedCells(heap') : heap'.obj[heap'.cell[d].target] = StoreOf(heap)[d]
  <2>1. Carried(heap, heap', Live(heap))
    BY <1>1 DEF Carried, Untouched
  <2>. QED
    BY <2>1, CarriedStore DEF Inv
<1>10. Meaning(heap', tmp') = Meaning(heap, tmp) /\ Meaning(heap', caught') = Meaning(heap, caught)
  BY <1>1
<1> HIDE DEF g, ps
<1>11. Abstract!Becomes(StoreOf(heap), Append(MeaningOfStack(heap, frames), g), Null,
                        Meaning(heap, tmp), Meaning(heap, caught))
  BY <1>6, <1>8, <1>9, <1>10, BecomesForm
<1>. QED
  BY <1>1, <1>4, <1>7, <1>11 DEF Abstract!Call, g, ps

\* The frames below the one on top.
LEMMA CallersMean ==
  ASSUME Inv
  PROVE  /\ Abstract!Callers = MeaningOfStack(heap, Callers)
         /\ Abstract!Callers = <<>> <=> Callers = <<>>
         /\ Len(Abstract!Callers) = Len(Callers)
         /\ Callers # <<>> =>
              Abstract!Last(Abstract!Callers).regs = MeaningOfRegs(heap, Last(Callers).regs)
         /\ Abstract!Last(MeaningOfStack(heap, frames)).ret = Top.ret
<1> DEFINE ms == MeaningOfStack(heap, frames)
           gs == Callers
<1>1. frames \in Seq(Frame) /\ frames # <<>> /\ Len(frames) \in Nat \ {0}
      /\ DOMAIN frames = 1 .. Len(frames)
  BY TopFrame DEF Inv, TypeOK
<1>2. /\ gs \in Seq(Frame) /\ Len(gs) = Len(frames) - 1 /\ DOMAIN gs = 1 .. Len(frames) - 1
      /\ \A k \in DOMAIN gs : gs[k] = frames[k]
  BY <1>1, FrontForm DEF Callers
<1> HIDE DEF gs
<1>3. MeaningOfStack(heap, gs) = SubSeq(ms, 1, Len(gs))
  <2>1. Len(gs) <= Len(frames)
    BY <1>1, <1>2
  <2>. QED
    BY <1>1, <1>2, <2>1, BottomMeans
<1>4. Len(ms) = Len(frames) /\ Last(ms) = MeaningOfFrame(heap, Last(frames))
  BY <1>1, StackForm
<1> HIDE DEF ms
<1>5. Abstract!Callers = MeaningOfStack(heap, gs)
  BY <1>2, <1>3, <1>4 DEF Abstract!Callers, Abstract!Front, ms
<1>6. /\ MeaningOfStack(heap, gs) = <<>> <=> gs = <<>>
      /\ Len(MeaningOfStack(heap, gs)) = Len(gs)
      /\ gs # <<>> => Last(MeaningOfStack(heap, gs)) = MeaningOfFrame(heap, Last(gs))
  BY <1>2, StackForm
<1>7. gs # <<>> =>
        Abstract!Last(Abstract!Callers).regs = MeaningOfRegs(heap, Last(gs).regs)
  BY <1>5, <1>6 DEF Abstract!Last, Last, MeaningOfFrame
<1>8. Abstract!Last(ms).ret = Top.ret
  BY <1>4 DEF Abstract!Last, Last, MeaningOfFrame, Top
<1>. QED
  BY <1>5, <1>6, <1>7, <1>8 DEF gs, ms

\* The frame is dropped with what its registers hold.
LEMMA EndNowhereMeans ==
  ASSUME Inv, Inv', Permitted, Leakless, End, Top.ret = 0
  PROVE  Abstract!End
<1> DEFINE S == Elsewhere(frames, tmp, caught)
<1>1. /\ Callers # <<>> /\ prepared' = prepared /\ tmp' = tmp /\ caught' = caught
      /\ heap' = DeleteAll(heap, Contents(Regs)) /\ frames' = Callers
  BY DropTop DEF End
<1>2. Carried(heap, heap', S)
  <2>1. /\ Contents(Regs) \in SUBSET Held(frames, tmp, caught)
        /\ Held(frames, tmp, caught) \ Contents(Regs) = S
    BY RegsForm
  <2>. QED
    BY <1>1, <2>1, DeleteCarried DEF Inv
<1>3. /\ Held(Callers, tmp, caught) = S
      /\ Callers \in Seq(Frame)
      /\ \A k \in DOMAIN Callers : k \in DOMAIN frames /\ Callers[k] = frames[k]
  BY <1>1, CallersForm DEF Inv, Callers, Stack
<1> HIDE DEF S
<1>4. MeaningOfStack(heap', Callers) = MeaningOfStack(heap, Callers)
  <2>1. ASSUME NEW k \in DOMAIN Callers
        PROVE  MeaningOfFrame(heap', Callers[k]) = MeaningOfFrame(heap, Callers[k])
    <3>1. Callers[k].regs \in RegisterSet
      BY <1>1, <1>3, TopFrame
    <3>2. Untouched(heap, heap', Contents(Callers[k].regs))
      BY <1>2, <1>3 DEF Carried, Untouched, Held
    <3>3. MeaningOfRegs(heap', Callers[k].regs) = MeaningOfRegs(heap, Callers[k].regs)
      BY <3>1, <3>2, RegsMean
    <3>4. MeaningOfSlots(heap', Callers[k].args) = MeaningOfSlots(heap, Callers[k].args)
      BY <1>1, <1>3, LentMeans
    <3>. QED
      BY <3>3, <3>4 DEF MeaningOfFrame
  <2>. QED
    BY <2>1 DEF MeaningOfStack
<1>5. MeaningOfPrepared(heap', prepared') = MeaningOfPrepared(heap, prepared)
  BY <1>1, LentMeans
<1>6. Meaning(heap', tmp') = Meaning(heap, tmp) /\ Meaning(heap', caught') = Meaning(heap, caught)
  BY <1>1, <1>2, <1>3 DEF Carried, Untouched, Held, Others, Meaning
<1>7. \A d \in UsedCells(heap') : heap'.obj[heap'.cell[d].target] = StoreOf(heap)[d]
  BY <1>2, CarriedStore DEF Inv
<1>8. MeaningOfStack(heap', frames') = Abstract!Callers /\ Abstract!Callers # <<>>
  BY <1>1, <1>4, CallersMean
<1>9. Abstract!Becomes(StoreOf(heap), Abstract!Callers, MeaningOfPrepared(heap, prepared),
                       Meaning(heap, tmp), Meaning(heap, caught))
  BY <1>5, <1>6, <1>7, <1>8, BecomesForm
<1>. QED
  BY <1>8, <1>9, CallersMean DEF Abstract!End

\* What the function that ends leaves in register 0 is written in its caller.
LEMMA EndReturnMeans ==
  ASSUME Inv, Inv', Permitted, Leakless, End, Top.ret # 0
  PROVE  Abstract!End
<1> DEFINE S == Elsewhere(frames, tmp, caught)
           o == FreshObject(heap)
           k == Clone(heap, Regs[0])
           h == DeleteAll(k, Contents(Regs))
           regs == Last(Callers).regs
           others == Elsewhere(Callers, tmp, caught)
           ret == Top.ret
           now == SetRegs(h, regs, ret, o)
           content == Abstract!Regs[0]
           ms == MeaningOfRegs(heap, regs)
<1>1. Callers # <<>> /\ prepared' = prepared /\ tmp' = tmp /\ caught' = caught
  BY DEF End
<1>2. /\ Stack(Callers, tmp, caught) /\ Held(Callers, tmp, caught) = S
      /\ \A j \in DOMAIN Callers : j \in DOMAIN frames /\ Callers[j] = frames[j]
  BY <1>1, CallersForm DEF Inv, Callers
<1>3. /\ regs \in RegisterSet /\ Distinct(regs)
      /\ S = others \cup Contents(regs) /\ others \cap Contents(regs) = {}
  BY <1>2, TopSplit
<1>4. /\ Contents(Regs) \in SUBSET Held(frames, tmp, caught)
      /\ Held(frames, tmp, caught) = S \cup Contents(Regs) /\ S \cap Contents(Regs) = {}
      /\ S \subseteq Live(heap)
      /\ \A x : x \notin Live(heap) => x \notin S /\ x \notin Contents(Regs)
  BY RegsForm DEF Inv, Sound
<1> HIDE DEF S
<1>5. Regs[0] # Null /\ Objects \ Live(heap) # {} /\ o \in Objects /\ o \notin Live(heap)
  <2>1. Regs[0] # Null /\ Room(1, 0)
    BY DEF End, Filled
  <2>. QED
    BY <2>1, RoomFor, FreshFree
<1>6. Regs[0] \in Live(heap) /\ content = Meaning(heap, Regs[0]) /\ content # Null
  BY <1>5, RegsMeaning, RegsForm, OwnershipAssumption DEF Filled
<1>7. Sound(k, Held(frames, tmp, caught) \cup {o}, {})
  BY <1>5, <1>6, CloneSound DEF Inv, Lost
<1>8. Carried(heap, k, Live(heap)) /\ Meaning(k, o) = Meaning(heap, Regs[0])
  BY <1>5, <1>6, CloneCarried DEF Inv
<1>9. ret \in Registers
  BY RegsForm DEF Frame
<1>10. h = DropFrames(k, {Top})
  BY DropTop
<1>11. /\ heap' = SetHeap(h, regs, ret, o)
       /\ frames' = [Callers EXCEPT ![Len(Callers)].regs = PlaceRegs(h, regs, ret, o)]
  BY <1>10 DEF End
<1>12. frames' = [Callers EXCEPT ![Len(Callers)].regs = now]
  BY <1>3, <1>9, <1>11, PlaceIsSet
<1> HIDE DEF o, k, content
<1>13. /\ Contents(Regs) \in SUBSET (Held(frames, tmp, caught) \cup {o})
       /\ (Held(frames, tmp, caught) \cup {o}) \ Contents(Regs) = S \cup {o}
       /\ o \notin S
  BY <1>4, <1>5
<1>14. Sound(h, S \cup {o}, {}) /\ Carried(k, h, S \cup {o})
  BY <1>7, <1>13, DeleteAllSound, DeleteCarried
<1> HIDE DEF h, regs, others, ret
<1>15. Carried(heap, h, S)
  BY <1>4, <1>8, <1>14 DEF Carried, Untouched
<1>16. Meaning(h, o) = content
  <2>1. h.obj[o] = k.obj[o]
    BY <1>14 DEF Carried, Untouched
  <2>. QED
    BY <1>6, <1>8, <2>1 DEF Meaning
<1>17. Writes(h, regs, heap', now, others, ret, content)
  <2>1. Flat(SetHeap(h, regs, ret, o))
    BY <1>11 DEF Permitted, FlatReferences, Flat
  <2>2. Sound(h, others \cup Contents(regs) \cup {o}, {})
    BY <1>3, <1>14
  <2>3. o \notin others /\ o \notin Contents(regs)
    BY <1>3, <1>13
  <2>4. Writes(h, regs, SetHeap(h, regs, ret, o), now, others, ret, Meaning(h, o))
    BY <1>3, <1>5, <1>9, <2>1, <2>2, <2>3, SetMeans
  <2> HIDE DEF now
  <2>. QED
    BY <1>11, <1>16, <2>4
<1>18. Retopped(Callers, frames', now)
  <2>1. now \in RegisterSet
    BY <1>3, <1>5, <1>9, PutForm DEF SetRegs
  <2> HIDE DEF now
  <2>. QED
    BY <1>2, <1>12, <2>1, RetopForm DEF Stack
<1> HIDE DEF now
<1>19. MeaningOfRegs(h, regs) = ms
  <2>1. Untouched(heap, h, Contents(regs))
    BY <1>3, <1>15 DEF Carried, Untouched
  <2>. QED
    BY <1>3, <2>1, RegsMean
<1> HIDE DEF ms
<1>20. /\ Abstract!Fits(ms, ret, content)
       /\ MeaningOfRegs(heap', now) = Abstract!WrittenRegs(ms, ret, content)
       /\ Untouched(h, heap', others)
  BY <1>17, <1>19 DEF Writes
<1>21. Untouched(heap, heap', others)
  BY <1>3, <1>15, <1>20 DEF Carried, Untouched
<1>22. \A d \in UsedCells(heap') :
         heap'.obj[heap'.cell[d].target] = Abstract!Written(StoreOf(heap), ms, ret, content)[d]
  BY <1>15, <1>17, <1>19, WrittenStore DEF Inv
<1> DEFINE cs == MeaningOfStack(heap, Callers)
<1>23. MeaningOfStack(heap', frames')
         = [cs EXCEPT ![Len(cs)].regs = Abstract!WrittenRegs(ms, ret, content)]
  <2>1. Callers \in Seq(Frame) /\ Len(Callers) \in Nat \ {0} /\ DOMAIN Callers = 1 .. Len(Callers)
    BY <1>1, <1>2, TopFrame DEF Stack
  <2>2. ASSUME NEW j \in 1 .. Len(Callers) - 1
        PROVE  MeaningOfRegs(heap', Callers[j].regs) = MeaningOfRegs(heap, Callers[j].regs)
    <3>1. Callers[j].regs \in RegisterSet
      BY <1>1, <2>1, Positions, TopFrame
    <3>2. Untouched(heap, heap', Contents(Callers[j].regs))
      BY <1>21 DEF Untouched, others, Elsewhere, Below
    <3>. QED
      BY <3>1, <3>2, RegsMean
  <2>3. ASSUME NEW j \in DOMAIN Callers
        PROVE  MeaningOfSlots(heap', Callers[j].args) = MeaningOfSlots(heap, Callers[j].args)
    <3>1. j \in DOMAIN frames /\ Callers[j] = frames[j]
      BY <1>2
    <3>2. j \in DOMAIN frames' /\ frames'[j].args = Callers[j].args
      BY <1>18, <2>1 DEF Retopped
    <3>. QED
      BY <3>1, <3>2, LentMeans
  <2>. QED
    BY <1>1, <1>18, <1>20, <2>1, <2>2, <2>3, TopMeans
<1>24. /\ MeaningOfPrepared(heap', prepared') = MeaningOfPrepared(heap, prepared)
       /\ Meaning(heap', tmp') = Meaning(heap, tmp) /\ Meaning(heap', caught') = Meaning(heap, caught)
  BY <1>1, <1>21, LentMeans DEF Meaning, Untouched, others, Elsewhere, Others
<1>25. /\ Abstract!Callers = cs /\ Abstract!Callers # <<>>
       /\ Abstract!Last(Abstract!Callers).regs = ms
       /\ Abstract!Last(MeaningOfStack(heap, frames)).ret = ret
  BY <1>1, CallersMean DEF ms, regs, ret
<1> HIDE DEF cs
<1>26. Abstract!Becomes(Abstract!Written(StoreOf(heap), ms, ret, content),
                        [cs EXCEPT ![Len(cs)].regs = Abstract!WrittenRegs(ms, ret, content)],
                        MeaningOfPrepared(heap, prepared),
                        Meaning(heap, tmp), Meaning(heap, caught))
  BY <1>22, <1>23, <1>24, BecomesForm
<1>. QED
  BY <1>6, <1>20, <1>25, <1>26 DEF Abstract!End, content, ret

\* The object thrown is caught where the stack is unwound to.
LEMMA ThrowMeans ==
  ASSUME Inv, Inv', Permitted, Leakless, NEW i \in Registers, NEW k \in DOMAIN frames,
         Throw(i, k)
  PROVE  Abstract!Throw(i, k)
<1>1. Careful
  BY DEF Leakless, Careful, OwnershipRules
<1>2. /\ Stack(frames', tmp', caught') /\ Len(frames') = k /\ k < Len(frames)
      /\ \A j \in DOMAIN frames' : j \in DOMAIN frames /\ frames'[j] = frames[j]
      /\ Regs[i] # Null /\ caught' = Regs[i] /\ tmp' = tmp /\ prepared' = prepared
  BY <1>1, ThrowForm
<1>3. PICK S \in SUBSET Held(frames, tmp, caught) :
        /\ heap' = DeleteAll(heap, S)
        /\ Held(frames', tmp', caught') \subseteq Held(frames, tmp, caught) \ S
  BY <1>1, ThrowForm
<1>4. Carried(heap, heap', Held(frames', tmp', caught'))
  <2>1. Carried(heap, heap', Held(frames, tmp, caught) \ S)
    BY <1>3, DeleteCarried DEF Inv
  <2>. QED
    BY <1>3, <2>1 DEF Carried, Untouched
<1>5. frames' \in Seq(Frame) /\ frames' # <<>> /\ frames \in Seq(Frame)
  BY <1>2 DEF Stack, Inv, TypeOK
<1>6. MeaningOfStack(heap', frames') = SubSeq(MeaningOfStack(heap, frames), 1, k)
  <2>1. ASSUME NEW j \in DOMAIN frames'
        PROVE  /\ MeaningOfRegs(heap', frames[j].regs) = MeaningOfRegs(heap, frames[j].regs)
               /\ MeaningOfSlots(heap', frames[j].args) = MeaningOfSlots(heap, frames[j].args)
    <3>1. frames[j].regs \in RegisterSet
      BY <1>2, <1>5, TopFrame
    <3>2. Untouched(heap, heap', Contents(frames[j].regs))
      BY <1>2, <1>4 DEF Carried, Untouched, Held
    <3>. QED
      BY <1>2, <3>1, <3>2, RegsMean, LentMeans
  <2>2. Len(frames') <= Len(frames)
    BY <1>2, <1>5
  <2>. QED
    BY <1>2, <1>5, <2>1, <2>2, BottomMeans
<1>7. MeaningOfPrepared(heap', prepared') = MeaningOfPrepared(heap, prepared)
  BY <1>2, LentMeans
<1>8. /\ Meaning(heap', tmp') = Meaning(heap, tmp)
      /\ Meaning(heap', caught') = Meaning(heap, Regs[i])
  BY <1>2, <1>4 DEF Carried, Untouched, Held, Others, Meaning
<1>9. \A d \in UsedCells(heap') : heap'.obj[heap'.cell[d].target] = StoreOf(heap)[d]
  BY <1>4, CarriedStore DEF Inv
<1>10. Abstract!Regs[i] = Meaning(heap, Regs[i]) /\ Abstract!Regs[i] # Null
  BY <1>2, RegsMeaning DEF Filled
<1>11. Abstract!Becomes(StoreOf(heap), SubSeq(MeaningOfStack(heap, frames), 1, k),
                        MeaningOfPrepared(heap, prepared), Meaning(heap, tmp), Abstract!Regs[i])
  BY <1>6, <1>7, <1>8, <1>9, <1>10, BecomesForm
<1>12. Len(MeaningOfStack(heap, frames)) = Len(frames)
  BY <1>5, StackForm
<1>. QED
  BY <1>2, <1>10, <1>11, <1>12 DEF Abstract!Throw

-----------------------------------------------------------------------------
(***************************************************************************)
(* The refinement.                                                         *)
(***************************************************************************)
LEMMA InitMeans ==
  ASSUME Init
  PROVE  Abstract!Init
<1> DEFINE f == [regs |-> EmptyRegisters, keep |-> {}, args |-> EmptySlots, ret |-> 0]
<1>1. /\ \A c \in Cells : heap.cell[c] = Null
      /\ frames = <<f>> /\ prepared = Null /\ tmp = Null /\ caught = Null
  BY DEF Init
<1>2. StoreOf(heap) = [c \in Cells |-> Null]
  BY <1>1 DEF StoreOf
<1>3. MeaningOfFrame(heap, f)
        = [regs |-> [i \in Registers |-> Null], args |-> [s \in Slots |-> Null], ret |-> 0]
  BY DEF MeaningOfFrame, MeaningOfRegs, MeaningOfSlots, Meaning, EmptyRegisters, EmptySlots
<1> HIDE DEF f
<1>4. MeaningOfStack(heap, frames) = << MeaningOfFrame(heap, f) >>
  BY <1>1 DEF MeaningOfStack
<1>5. MeaningOfPrepared(heap, prepared) = Null /\ Meaning(heap, Null) = Null
  BY <1>1 DEF MeaningOfPrepared, Meaning
<1>. QED
  BY <1>1, <1>2, <1>3, <1>4, <1>5 DEF Abstract!Init

\* Every instruction is a step of RegisterSemantics, often of the same name.
LEMMA InstructionMeans ==
  ASSUME Inv, Inv', Permitted, Leakless, Instruction
  PROVE  Abstract!Next
<1>1. ASSUME NEW i \in Registers, NEW v \in Values, New(i, v) \/ Modify(i, v)
      PROVE  Abstract!Next
  <2>1. Abstract!Write(i, Abstract!Value(v))
    BY <1>1, NewMeans, ModifyMeans
  <2>. QED
    BY <2>1 DEF Abstract!Next, Abstract!Stored
<1>2. ASSUME NEW i \in Registers, NEW j \in Registers,
             Move(i, j) \/ Copy(i, j) \/ Ref(i, j) \/ Swap(i, j)
      PROVE  Abstract!Next
  BY <1>2, MoveMeans, CopyMeans, RefMeans, SwapMeans DEF Abstract!Next
<1>3. ASSUME NEW i \in Registers,
             Free(i) \/ Empty(i) \/ Tmpri(i) \/ Tmpro(i) \/ Pull(i) \/ Call(i)
      PROVE  Abstract!Next
  BY <1>3, FreeMeans, EmptyMeans, TmpriMeans, TmproMeans, PullMeans, CallMeans
     DEF Abstract!Next
<1>4. ASSUME NEW s \in Slots, NEW i \in Registers, Param(s, i) \/ Paref(s, i) \/ Arg(s, i)
      PROVE  Abstract!Next
  BY <1>4, ParamMeans, ParefMeans, ArgMeans DEF Abstract!Next
<1>5. ASSUME FrameNew \/ End
      PROVE  Abstract!Next
  BY <1>5, FrameNewMeans, EndNowhereMeans, EndReturnMeans DEF Abstract!Next
<1>6. ASSUME NEW i \in Registers, NEW k \in DOMAIN frames, Throw(i, k)
      PROVE  Abstract!Next
  <2>1. Abstract!Throw(i, k)
    BY <1>6, ThrowMeans
  <2>2. DOMAIN MeaningOfStack(heap, frames) = DOMAIN frames
    BY DEF MeaningOfStack
  <2>. QED
    BY <2>1, <2>2 DEF Abstract!Next
<1>. QED
  BY <1>1, <1>2, <1>3, <1>4, <1>5, <1>6 DEF Instruction

LEMMA NextMeans ==
  ASSUME Inv, Inv', Leakless, [Next]_vars
  PROVE  [Abstract!Next]_(Abstract!vars)
<1>1. CASE Next
  <2>1. Instruction /\ Permitted
    BY <1>1 DEF Next, Follows, Permitted, Leakless, OwnershipRules
  <2>. QED
    BY <2>1, InstructionMeans
<1>2. CASE UNCHANGED vars
  <2>1. heap' = heap /\ frames' = frames /\ prepared' = prepared /\ tmp' = tmp /\ caught' = caught
    BY <1>2 DEF vars
  <2>. QED
    BY <2>1 DEF Abstract!vars
<1>. QED
  BY <1>1, <1>2

\* To a program that keeps to every convention the CPU's registers hold values
\* and variables only: what it does with pointers and counted References is
\* RegisterSemantics (registerset.cpp, reference.cpp, instr/registers.cpp,
\* instr/calls.cpp).
THEOREM OwnershipRefines ==
  ASSUME Leakless
  PROVE  Spec => ImplementsRegisterSemantics
<1>1. Careful
  BY DEF Leakless, Careful, OwnershipRules
<1>2. Spec => []Inv
  BY <1>1, Invariance
<1>3. Init => Abstract!Init
  BY InitMeans
<1>4. Inv /\ Inv' /\ [Next]_vars => [Abstract!Next]_(Abstract!vars)
  BY NextMeans
<1>. QED
  BY <1>2, <1>3, <1>4, PTL DEF Spec, ImplementsRegisterSemantics, Abstract!Spec
=============================================================================
