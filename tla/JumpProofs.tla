----------------------------- MODULE JumpProofs ------------------------------
(***************************************************************************)
(* Proof that the address which a jump or branch of the executable holds   *)
(* is that of the instruction its source line means, for every project.    *)
(*                                                                         *)
(* A target goes through four hands: it is counted in instructions of its  *)
(* body, where marks count lines; the walk of calculateJumps over the      *)
(* bytes finds the place of the instruction in the body, since bodies have *)
(* no gaps; the place moves with the body into the buffer, and with a      *)
(* library into the executable.  Fields are patched at recorded positions, *)
(* so no position of one field may be found in another instruction.        *)
(***************************************************************************)
EXTENDS ImageProofs

-----------------------------------------------------------------------------
(***************************************************************************)
(* The walk of calculateJumps over code without gaps.                      *)
(***************************************************************************)
\* How many instructions of the code come before an offset.
Prior(code, o) == Cardinality({p \in DOMAIN code : p < o})

\* Where the walk is after n instructions.
IsWalk(f, code, bound, n) ==
  f = [i \in 0..n |-> IF i = 0 THEN 0 ELSE WalkOver(code, bound, f[i - 1])]

LEMMA WalkExists ==
  ASSUME NEW code, NEW bound, NEW n \in Nat
  PROVE  \E f : IsWalk(f, code, bound, n)
<1> DEFINE Q == {m \in Nat : \E f : IsWalk(f, code, bound, m)}
<1>1. 0 \in Q
  <2> DEFINE f == [i \in 0..0 |-> 0]
  <2>1. IsWalk(f, code, bound, 0)
    BY DEF IsWalk
  <2>. QED
    BY <2>1
<1>2. ASSUME NEW m \in Nat, m \in Q
      PROVE  m + 1 \in Q
  <2>1. PICK f : IsWalk(f, code, bound, m)
    BY <1>2
  <2> DEFINE g == [i \in 0..(m + 1) |-> IF i = m + 1 THEN WalkOver(code, bound, f[m]) ELSE f[i]]
  <2>2. ASSUME NEW i \in 0..(m + 1)
        PROVE  g[i] = IF i = 0 THEN 0 ELSE WalkOver(code, bound, g[i - 1])
    <3>1. CASE i = m + 1
      <4>1. i # 0 /\ i - 1 = m /\ g[i - 1] = f[m]
        BY <3>1
      <4>. QED
        BY <3>1, <4>1
    <3>2. CASE i \in 0..m
      <4>1. f[i] = IF i = 0 THEN 0 ELSE WalkOver(code, bound, f[i - 1])
        BY <2>1, <3>2 DEF IsWalk
      <4>2. g[i] = f[i] /\ (i # 0 => g[i - 1] = f[i - 1])
        BY <3>2
      <4>. QED
        BY <4>1, <4>2
    <3>. QED
      BY <3>1, <3>2
  <2>3. IsWalk(g, code, bound, m + 1)
    BY <2>2 DEF IsWalk
  <2>. QED
    BY <2>3
<1> HIDE DEF Q
<1>3. n \in Q
  BY <1>1, <1>2, CountingUp
<1>. QED
  BY <1>3 DEF Q

LEMMA WalkIsWalk ==
  ASSUME NEW code, NEW bound, NEW n \in Nat
  PROVE  \E f : IsWalk(f, code, bound, n) /\ BytecodeOffset(code, bound, n) = f[n]
<1> DEFINE w == CHOOSE f : IsWalk(f, code, bound, n)
<1>1. IsWalk(w, code, bound, n)
  BY WalkExists
<1>2. BytecodeOffset(code, bound, n) = w[n]
  BY DEF BytecodeOffset, IsWalk
<1>. QED
  BY <1>1, <1>2

\* The walk starts at 0, and goes on.
LEMMA WalkSteps ==
  ASSUME NEW code, NEW bound, NEW n \in Nat
  PROVE  /\ BytecodeOffset(code, bound, 0) = 0
         /\ BytecodeOffset(code, bound, n + 1) = WalkOver(code, bound, BytecodeOffset(code, bound, n))
<1>1. PICK f : IsWalk(f, code, bound, n + 1) /\ BytecodeOffset(code, bound, n + 1) = f[n + 1]
  BY WalkIsWalk
<1>2. PICK g : IsWalk(g, code, bound, n) /\ BytecodeOffset(code, bound, n) = g[n]
  BY WalkIsWalk
<1>3. PICK h : IsWalk(h, code, bound, 0) /\ BytecodeOffset(code, bound, 0) = h[0]
  BY WalkIsWalk
<1>4. \A i \in 0..n : f[i] = g[i]
  <2> DEFINE Q == {i \in Nat : i <= n => f[i] = g[i]}
  <2>1. 0 \in Q
    BY <1>1, <1>2 DEF IsWalk
  <2>2. ASSUME NEW i \in Nat, i \in Q
        PROVE  i + 1 \in Q
    <3> SUFFICES ASSUME i + 1 <= n
                 PROVE  f[i + 1] = g[i + 1]
      OBVIOUS
    <3>1. i + 1 \in 0..n /\ i + 1 \in 0..(n + 1) /\ i + 1 # 0 /\ (i + 1) - 1 = i /\ i <= n
      OBVIOUS
    <3>2. f[i] = g[i]
      BY <2>2, <3>1
    <3>3. f[i + 1] = WalkOver(code, bound, f[(i + 1) - 1])
      BY <1>1, <3>1 DEF IsWalk
    <3>4. g[i + 1] = WalkOver(code, bound, g[(i + 1) - 1])
      BY <1>2, <3>1 DEF IsWalk
    <3>. QED
      BY <3>1, <3>2, <3>3, <3>4
  <2> HIDE DEF Q
  <2>3. Nat \subseteq Q
    BY <2>1, <2>2, CountingUp
  <2>. QED
    BY <2>3 DEF Q
<1>5. f[n + 1] = WalkOver(code, bound, f[n])
  <2>1. n + 1 \in 0..(n + 1) /\ n + 1 # 0 /\ (n + 1) - 1 = n
    OBVIOUS
  <2>2. f[n + 1] = WalkOver(code, bound, f[(n + 1) - 1])
    BY <1>1, <2>1 DEF IsWalk
  <2>. QED
    BY <2>1, <2>2
<1>6. h[0] = 0
  BY <1>3 DEF IsWalk
<1>. QED
  BY <1>1, <1>2, <1>3, <1>4, <1>5, <1>6

\* Instructions one after the other, from the start to the end.
Contiguous(code, size) ==
  /\ IsCode(code) /\ Fits(code, size) /\ size \in Nat
  /\ 0 \in DOMAIN code \cup {size}
  /\ \A o \in DOMAIN code : o + EmittedSize(code[o]) \in DOMAIN code \cup {size}
Walkable(code) == \A o \in DOMAIN code : WalkedSize(code[o]) = EmittedSize(code[o])

LEMMA PriorCounts ==
  ASSUME NEW code, NEW size, Contiguous(code, size)
  PROVE  /\ IsFiniteSet(DOMAIN code) /\ Cardinality(DOMAIN code) \in Nat
         /\ \A o \in DOMAIN code : Prior(code, o) \in Nat /\ Prior(code, o) < Cardinality(DOMAIN code)
         /\ \A o, p \in DOMAIN code : o < p => Prior(code, o) < Prior(code, p)
         /\ \A o \in DOMAIN code : LET e == o + EmittedSize(code[o])
                                   IN IF e \in DOMAIN code THEN Prior(code, e) = Prior(code, o) + 1
                                      ELSE Cardinality(DOMAIN code) = Prior(code, o) + 1
<1> DEFINE D == DOMAIN code
           L(o) == {p \in D : p < o}
<1>1. size \in Nat /\ D \subseteq 0..size
  <2>1. size \in Nat
    BY DEF Contiguous
  <2>2. ASSUME NEW o \in D
        PROVE  o \in 0..size
    <3>1. o \in Nat /\ EmittedSize(code[o]) \in Nat
      BY CodeSized DEF Contiguous
    <3>2. o + EmittedSize(code[o]) <= size
      BY DEF Contiguous, Fits
    <3>. QED
      BY <2>1, <3>1, <3>2
  <2>. QED
    BY <2>1, <2>2
<1>2. IsFiniteSet(D)
  <2>1. IsFiniteSet(0..size)
    BY <1>1, FS_Interval
  <2>. QED
    BY <1>1, <2>1, FS_Subset
<1>3. Cardinality(D) \in Nat
  BY <1>2, FS_CardinalityType
<1>4. ASSUME NEW o
      PROVE  IsFiniteSet(L(o)) /\ Cardinality(L(o)) \in Nat
  <2>1. L(o) \subseteq D
    OBVIOUS
  <2>. QED
    BY <1>2, <2>1, FS_Subset, FS_CardinalityType
<1>5. ASSUME NEW o \in D
      PROVE  Cardinality(L(o)) < Cardinality(D)
  <2>1. L(o) \subseteq D /\ L(o) # D
    <3>1. o \notin L(o)
      BY <1>1
    <3>. QED
      BY <3>1
  <2>2. Cardinality(L(o)) <= Cardinality(D) /\ Cardinality(L(o)) # Cardinality(D)
    BY <1>2, <2>1, FS_Subset
  <2> HIDE DEF L, D
  <2>. QED
    BY <1>3, <1>4, <2>2
<1>6. ASSUME NEW o \in D, NEW p \in D, o < p
      PROVE  Cardinality(L(o)) < Cardinality(L(p))
  <2>1. L(o) \subseteq L(p) /\ L(o) # L(p)
    <3>1. o \in L(p) /\ o \notin L(o)
      BY <1>1, <1>6
    <3>2. \A q \in L(o) : q \in L(p)
      BY <1>1, <1>6
    <3>. QED
      BY <3>1, <3>2
  <2>2. Cardinality(L(o)) <= Cardinality(L(p)) /\ Cardinality(L(o)) # Cardinality(L(p))
    BY <1>4, <2>1, FS_Subset
  <2>3. Cardinality(L(o)) \in Nat /\ Cardinality(L(p)) \in Nat
    BY <1>4
  <2> HIDE DEF L, D
  <2>. QED
    BY <2>2, <2>3
<1>7. ASSUME NEW o \in D, NEW e, e = o + EmittedSize(code[o])
      PROVE  IF e \in D THEN Cardinality(L(e)) = Cardinality(L(o)) + 1 ELSE Cardinality(D) = Cardinality(L(o)) + 1
  <2>1. o \in Nat /\ EmittedSize(code[o]) \in Nat /\ EmittedSize(code[o]) >= 1
    BY CodeSized DEF Contiguous
  <2>2. \A p \in D : p > o => p >= e
    BY <1>7 DEF Contiguous, Fits
  <2>3. Cardinality(L(o) \cup {o}) = Cardinality(L(o)) + 1
    <3>1. o \notin L(o)
      BY <1>1
    <3>. QED
      BY <1>4, <3>1, FS_AddElement
  <2>4. L(e) = L(o) \cup {o}
    <3>1. ASSUME NEW p \in D
          PROVE  p < e <=> (p < o \/ p = o)
      <4>1. p \in Nat /\ e \in Nat /\ e > o
        BY <1>1, <1>7, <2>1
      <4>. QED
        BY <2>1, <2>2, <4>1
    <3>. QED
      BY <3>1
  <2>5. CASE e \notin D
    <3>1. e = size
      BY <1>7, <2>5 DEF Contiguous
    <3>2. ASSUME NEW p \in D
          PROVE  p < e
      <4>1. p \in Nat /\ EmittedSize(code[p]) \in Nat /\ EmittedSize(code[p]) >= 1
        BY CodeSized DEF Contiguous
      <4>2. p + EmittedSize(code[p]) <= size
        BY DEF Contiguous, Fits
      <4>. QED
        BY <1>1, <3>1, <4>1, <4>2
    <3>3. L(e) = D
      BY <3>2
    <3>. QED
      BY <2>3, <2>4, <2>5, <3>3
  <2>6. CASE e \in D
    BY <2>3, <2>4, <2>6
  <2>. QED
    BY <2>3, <2>4, <2>5, <2>6
<1> HIDE DEF L
<1>8. \A o \in D : Prior(code, o) = Cardinality(L(o))
  BY DEF Prior, L
<1>9. \A o \in D : Prior(code, o) \in Nat /\ Prior(code, o) < Cardinality(D)
  BY <1>4, <1>5, <1>8
<1>10. \A o, p \in D : o < p => Prior(code, o) < Prior(code, p)
  BY <1>6, <1>8
<1>11. ASSUME NEW o \in D, NEW e, e = o + EmittedSize(code[o])
       PROVE  IF e \in D THEN Prior(code, e) = Prior(code, o) + 1
              ELSE Cardinality(D) = Prior(code, o) + 1
  BY <1>7, <1>8, <1>11
<1>. QED
  BY <1>2, <1>3, <1>9, <1>10, <1>11

\* The walk is at the instruction that has as many before it.
LEMMA WalkFinds ==
  ASSUME NEW code, NEW size, Contiguous(code, size), Walkable(code), DOMAIN code # {},
         NEW bound \in Nat, size <= bound, NEW n \in Nat,
         \/ size = bound /\ BytecodeOffset(code, bound, n) # OutOfBounds
         \/ n < Cardinality(DOMAIN code)
  PROVE  BytecodeOffset(code, bound, n) \in DOMAIN code /\ Prior(code, BytecodeOffset(code, bound, n)) = n
<1> DEFINE D == DOMAIN code
           B(m) == BytecodeOffset(code, bound, m)
           Is(m) == B(m) \in D /\ Prior(code, B(m)) = m
           May(m) == (size = bound /\ B(m) # OutOfBounds) \/ m < Cardinality(D)
           Q == {m \in Nat : May(m) => Is(m)}
<1>1. size \in Nat /\ Cardinality(D) \in Nat /\ IsFiniteSet(D)
  BY PriorCounts DEF Contiguous
<1>2. 0 \in Q
  <2>1. B(0) = 0
    BY WalkSteps
  <2>2. 0 \in D
    <3> SUFFICES ASSUME 0 = size
                 PROVE  FALSE
      BY DEF Contiguous
    <3>1. PICK o \in D : TRUE
      OBVIOUS
    <3>2. o \in Nat /\ EmittedSize(code[o]) \in Nat /\ EmittedSize(code[o]) >= 1
      BY CodeSized DEF Contiguous
    <3>3. o + EmittedSize(code[o]) <= size
      BY DEF Contiguous, Fits
    <3>. QED
      BY <3>2, <3>3
  <2>3. Prior(code, 0) = 0
    <3>1. D \subseteq Nat
      BY DEF Contiguous, IsCode
    <3>2. {p \in D : p < 0} = {}
      BY <3>1
    <3>. QED
      BY <3>2, FS_EmptySet DEF Prior
  <2> HIDE DEF B
  <2>. QED
    BY <2>1, <2>2, <2>3
<1>3. ASSUME NEW m \in Nat, m \in Q
      PROVE  m + 1 \in Q
  <2> SUFFICES ASSUME May(m + 1)
               PROVE  Is(m + 1)
    OBVIOUS
  <2>1. B(m + 1) = WalkOver(code, bound, B(m))
    BY WalkSteps
  <2> HIDE DEF B, D
  <2>2. B(m + 1) # OutOfBounds => B(m) # OutOfBounds
    BY <2>1 DEF WalkOver
  <2>3. May(m)
    BY <1>1, <2>2
  <2>4. B(m) \in D /\ Prior(code, B(m)) = m
    BY <1>3, <2>3
  <2>5. PICK o \in D : o = B(m)
    BY <2>4
  <2>6. o \in Nat /\ EmittedSize(code[o]) \in Nat /\ EmittedSize(code[o]) >= 1 /\ WalkedSize(code[o]) = EmittedSize(code[o])
    BY <2>5, CodeSized DEF Contiguous, Walkable, D
  <2>7. PICK e \in Nat : e = o + EmittedSize(code[o])
    BY <2>6
  <2>8. o # OutOfBounds
    BY <2>6 DEF OutOfBounds
  <2>9. B(m + 1) = IF e >= bound THEN OutOfBounds ELSE e
    BY <2>1, <2>5, <2>6, <2>7, <2>8 DEF WalkOver
  <2>10. e \in D
    <3> SUFFICES ASSUME e \notin D
                 PROVE  FALSE
      OBVIOUS
    <3>1. e = size
      BY <2>5, <2>7 DEF Contiguous, D
    <3>2. Cardinality(D) = m + 1
      BY <2>4, <2>5, <2>7, PriorCounts DEF D
    <3>. QED
      BY <1>1, <2>9, <3>1, <3>2
  <2>11. Prior(code, e) = m + 1
    BY <2>4, <2>5, <2>7, <2>10, PriorCounts DEF D
  <2>12. e < bound
    <3>1. EmittedSize(code[e]) \in Nat /\ EmittedSize(code[e]) >= 1
      BY <2>10, CodeSized DEF Contiguous, D
    <3>2. e + EmittedSize(code[e]) <= size
      BY <2>10 DEF Contiguous, Fits, D
    <3>. QED
      BY <1>1, <2>7, <3>1, <3>2
  <2>. QED
    BY <2>9, <2>10, <2>11, <2>12
<1> HIDE DEF Q
<1>4. n \in Q
  BY <1>2, <1>3, CountingUp
<1>5. May(n)
  OBVIOUS
<1>. QED
  BY <1>4, <1>5 DEF Q

-----------------------------------------------------------------------------
(***************************************************************************)
(* Bodies and the buffer have no gaps.                                     *)
(***************************************************************************)
\* The walk goes over an instruction by its mnemonic and its names.
LEMMA AlikeWalked ==
  ASSUME NEW c, NEW d, Alike(c, d)
  PROVE  WalkedSize(c) = WalkedSize(d)
<1>1. c.op = d.op /\ d.op \in Implemented
  BY DEF Alike, IsInstr
<1>2. \A i \in Fields(d.op) : d.op \notin {"jump", "branch"} => c.args[i] = d.args[i]
  BY <1>1, LayoutShapes DEF Alike
<1>3. CASE d.op \in Naming
  <2>1. Layout[d.op] = <<"operand", "name">>
    BY <1>3, Formats DEF Gives, Named
  <2>2. c.args[2] = d.args[2]
    <3>1. 2 \in Fields(d.op)
      BY <2>1 DEF Fields
    <3>2. d.op \notin {"jump", "branch"}
      BY <1>3 DEF Naming
    <3>. QED
      BY <1>2, <3>1, <3>2
  <2>3. WalkedNames(c) = <<c.args[2]>> /\ WalkedNames(d) = <<d.args[2]>>
    BY <1>1, <1>3 DEF WalkedNames, Naming
  <2>. QED
    BY <1>1, <2>2, <2>3 DEF WalkedSize
<1>4. CASE d.op \in Entering
  <2>1. Layout[d.op] = <<"name">>
    BY <1>4, Formats DEF Gives
  <2>2. c.args[1] = d.args[1]
    <3>1. 1 \in Fields(d.op)
      BY <2>1 DEF Fields
    <3>2. d.op \notin {"jump", "branch"}
      BY <1>4 DEF Entering
    <3>. QED
      BY <1>2, <3>1, <3>2
  <2>3. WalkedNames(c) = <<c.args[1]>> /\ WalkedNames(d) = <<d.args[1]>>
    BY <1>1, <1>4 DEF WalkedNames, Entering
  <2>. QED
    BY <1>1, <2>2, <2>3 DEF WalkedSize
<1>5. CASE d.op \in Catchers
  <2>1. Layout[d.op] = <<"name", "name">>
    BY <1>5, Formats DEF Gives
  <2>2. c.args[1] = d.args[1] /\ c.args[2] = d.args[2]
    <3>1. 1 \in Fields(d.op) /\ 2 \in Fields(d.op)
      BY <2>1 DEF Fields
    <3>2. d.op \notin {"jump", "branch"}
      BY <1>5 DEF Catchers
    <3>. QED
      BY <1>2, <3>1, <3>2
  <2>3. WalkedNames(c) = <<c.args[1], c.args[2]>> /\ WalkedNames(d) = <<d.args[1], d.args[2]>>
    BY <1>1, <1>5 DEF WalkedNames, Catchers
  <2>. QED
    BY <1>1, <2>2, <2>3 DEF WalkedSize
<1>6. CASE d.op \in Attaching
  <2>1. Layout[d.op] = <<"operand", "name", "name">>
    BY <1>6, Formats DEF Gives
  <2>2. c.args[2] = d.args[2] /\ c.args[3] = d.args[3]
    <3>1. 2 \in Fields(d.op) /\ 3 \in Fields(d.op)
      BY <2>1 DEF Fields
    <3>2. d.op \notin {"jump", "branch"}
      BY <1>6 DEF Attaching
    <3>. QED
      BY <1>2, <3>1, <3>2
  <2>3. WalkedNames(c) = <<c.args[2], c.args[3]>> /\ WalkedNames(d) = <<d.args[2], d.args[3]>>
    BY <1>1, <1>6 DEF WalkedNames, Attaching
  <2>. QED
    BY <1>1, <2>2, <2>3 DEF WalkedSize
<1>7. CASE d.op \notin Naming \cup Entering \cup Catchers \cup Attaching
  <2>1. d.op \notin {"import", "enter", "link", "call", "closure", "function", "class", "derive", "new", "msg",
                     "strstore", "attach", "catch"}
    BY <1>7 DEF Naming, Entering, Catchers, Attaching
  <2>2. d.op # "prototype"
    BY <1>1 DEF Implemented, ArithmeticInstructions, RegisterInstructions, CallableInstructions, CallInstructions,
                BlockInstructions, ObjectInstructions
  <2>3. WalkedNames(c) = <<>> /\ WalkedNames(d) = <<>>
    BY <1>1, <2>1, <2>2 DEF WalkedNames
  <2>. QED
    BY <1>1, <2>3 DEF WalkedSize
<1>. QED
  BY <1>3, <1>4, <1>5, <1>6, <1>7

LEMMA RetargetedWalk ==
  ASSUME NEW new, NEW old, NEW size, Contiguous(old, size), Walkable(old), Retargeted(new, old)
  PROVE  Contiguous(new, size) /\ Walkable(new)
<1>1. /\ IsCode(new) /\ Fits(new, size) /\ DOMAIN new = DOMAIN old
      /\ \A o \in DOMAIN old : EmittedSize(new[o]) = EmittedSize(old[o])
  BY RetargetedCode DEF Contiguous, Retargeted
<1>2. \A o \in DOMAIN new : WalkedSize(new[o]) = WalkedSize(old[o])
  BY AlikeWalked DEF Retargeted
<1>3. Contiguous(new, size)
  BY <1>1 DEF Contiguous
<1>4. Walkable(new)
  BY <1>1, <1>2 DEF Walkable
<1>. QED
  BY <1>3, <1>4

\* The instructions of a body.
Body1(s, n) == n \in Nat /\ DOMAIN s = 1..n /\ \A k \in 1..n : IsInstr(s[k]) /\ WalkedSize(s[k]) = EmittedSize(s[k])

LEMMA PlacedContiguous ==
  ASSUME NEW s, NEW n, Body1(s, n), NEW code, Placement(code, s, n)
  PROVE  Contiguous(code, Total(Sizes(s))) /\ Walkable(code) /\ (n > 0 => 0 \in DOMAIN code)
<1> DEFINE at == Places(Sizes(s))
<1>1. /\ n \in Nat /\ DOMAIN s = 1..n /\ \A k \in 1..n : IsInstr(s[k])
  BY DEF Body1
<1>2. /\ Len(Sizes(s)) = n /\ at[0] = 0 /\ \A k \in 0..n : at[k] \in Nat
      /\ \A k \in 1..n : at[k] = at[k - 1] + EmittedSize(s[k])
  BY <1>1, BodySizes
<1>3. Total(Sizes(s)) = at[n]
  BY <1>2 DEF Total
<1> HIDE DEF at
<1>4. \A k \in 1..n : at[k - 1] \in DOMAIN code /\ code[at[k - 1]] = s[k]
  BY DEF Placement, at
<1>5. \A o \in DOMAIN code : \E k \in 1..n : o = at[k - 1]
  BY DEF Placement, at
<1>6. \A k \in 0..n : at[k] \in DOMAIN code \cup {at[n]}
  <2>1. ASSUME NEW k \in 0..n
        PROVE  at[k] \in DOMAIN code \cup {at[n]}
    <3>1. CASE k = n
      BY <3>1
    <3>2. CASE k # n
      <4>1. k + 1 \in 1..n /\ (k + 1) - 1 = k
        BY <1>1, <3>2
      <4>. QED
        BY <1>4, <4>1
    <3>. QED
      BY <3>1, <3>2
  <2>. QED
    BY <2>1
<1>7. 0 \in DOMAIN code \cup {at[n]}
  <2>1. 0 \in 0..n
    BY <1>1
  <2>. QED
    BY <1>2, <1>6, <2>1
<1>8. ASSUME NEW o \in DOMAIN code
      PROVE  o + EmittedSize(code[o]) \in DOMAIN code \cup {at[n]} /\ WalkedSize(code[o]) = EmittedSize(code[o])
  <2>1. PICK k \in 1..n : o = at[k - 1]
    BY <1>5
  <2>2. code[o] = s[k] /\ k \in 0..n
    BY <1>1, <1>4, <2>1
  <2>3. o + EmittedSize(code[o]) = at[k]
    BY <1>2, <2>1, <2>2
  <2>. QED
    BY <1>6, <2>2, <2>3 DEF Body1
<1>9. IsCode(code) /\ Fits(code, at[n]) /\ at[n] \in Nat
  <2>1. n \in 0..n
    BY <1>1
  <2>. QED
    BY <1>2, <1>3, <2>1 DEF Placement
<1>10. Contiguous(code, at[n]) /\ Walkable(code)
  BY <1>7, <1>8, <1>9 DEF Contiguous, Walkable
<1>11. n > 0 => 0 \in DOMAIN code
  <2>1. n > 0 => 1 \in 1..n /\ 1 - 1 = 0
    BY <1>1
  <2>. QED
    BY <1>2, <1>4, <2>1
<1>. QED
  BY <1>3, <1>10, <1>11

\* The bodies of a file.
LEMMA PieceContiguous ==
  ASSUME NEW unit, NEW b, Ready(b, unit)
  PROVE  Contiguous(PieceOf(unit, b), BodySize(b)) /\ Walkable(PieceOf(unit, b))
<1> DEFINE s == Coded(b.lines, unit, b.name) n == Cardinality(Kept(b.lines))
<1>1. n \in Nat /\ DOMAIN s = 1..n /\ Placement(PieceOf(unit, b), s, n) /\ BodySize(b) = Total(Sizes(s))
      /\ \A k \in 1..n : IsInstr(s[k])
  BY ReadyPlaced
<1>2. \A k \in 1..n : WalkedSize(s[k]) = EmittedSize(s[k])
  BY DEF Ready, IsCoded
<1> HIDE DEF s, n
<1>3. Body1(s, n)
  BY <1>1, <1>2 DEF Body1
<1>. QED
  BY <1>1, <1>3, PlacedContiguous

\* Pieces without gaps, one after the other.
Row(starts, pieces, n, code) ==
  /\ n \in Nat /\ starts[0] = 0 /\ \A k \in 0..n : starts[k] \in Nat
  /\ \A k \in 1..n : /\ Contiguous(pieces[k].code, pieces[k].size) /\ Walkable(pieces[k].code)
                     /\ starts[k] = starts[k - 1] + pieces[k].size
  /\ \A k \in 1..n : \A p \in DOMAIN pieces[k].code :
       /\ starts[k - 1] + p \in DOMAIN code
       /\ code[starts[k - 1] + p] = pieces[k].code[p]
  /\ \A o \in DOMAIN code : \E k \in 1..n : \E p \in DOMAIN pieces[k].code : o = starts[k - 1] + p
  /\ IsCode(code) /\ Fits(code, starts[n])

\* Where a piece starts there is an instruction, unless only empty ones follow.
LEMMA RowStarts ==
  ASSUME NEW starts, NEW pieces, NEW n, NEW code, Row(starts, pieces, n, code)
  PROVE  \A k \in 0..n : starts[k] \in DOMAIN code \cup {starts[n]}
<1> DEFINE Q == {m \in Nat : \A k \in 0..n : k = n - m => starts[k] \in DOMAIN code \cup {starts[n]}}
<1>0. n \in Nat
  BY DEF Row
<1>1. 0 \in Q
  <2>1. \A k \in 0..n : k = n - 0 => k = n
    BY <1>0
  <2>. QED
    BY <2>1
<1>2. ASSUME NEW m \in Nat, m \in Q
      PROVE  m + 1 \in Q
  <2>1. ASSUME NEW k \in 0..n, k = n - (m + 1)
        PROVE  starts[k] \in DOMAIN code \cup {starts[n]}
    <3>1. PICK j : j = k + 1
      OBVIOUS
    <3>2. j \in 1..n /\ j \in 0..n /\ j = n - m /\ j - 1 = k
      BY <1>0, <2>1, <3>1
    <3>3. starts[j] \in DOMAIN code \cup {starts[n]}
      BY <1>2, <3>2
    <3>4. Contiguous(pieces[j].code, pieces[j].size) /\ starts[j] = starts[k] + pieces[j].size
      BY <3>2 DEF Row
    <3>5. starts[k] \in Nat
      BY DEF Row
    <3>6. CASE 0 \in DOMAIN pieces[j].code
      <4>1. starts[j - 1] + 0 \in DOMAIN code
        BY <3>2, <3>6 DEF Row
      <4>. QED
        BY <3>2, <3>5, <4>1
    <3>7. CASE 0 \notin DOMAIN pieces[j].code
      <4>1. pieces[j].size = 0
        BY <3>4, <3>7 DEF Contiguous
      <4>. QED
        BY <3>3, <3>4, <3>5, <4>1
    <3>. QED
      BY <3>6, <3>7
  <2>2. m + 1 \in Nat
    OBVIOUS
  <2>. QED
    BY <2>1, <2>2
<1> HIDE DEF Q
<1>3. \A m \in Nat : m \in Q
  BY <1>1, <1>2, CountingUp
<1>4. ASSUME NEW k \in 0..n
      PROVE  starts[k] \in DOMAIN code \cup {starts[n]}
  <2>1. PICK m : m = n - k
    OBVIOUS
  <2>2. m \in Nat /\ k = n - m
    BY <1>0, <2>1
  <2>3. m \in Q
    BY <1>3, <2>2
  <2>. QED
    BY <2>2, <2>3 DEF Q
<1>. QED
  BY <1>4

LEMMA RowContiguous ==
  ASSUME NEW starts, NEW pieces, NEW n, NEW code, Row(starts, pieces, n, code)
  PROVE  Contiguous(code, starts[n]) /\ Walkable(code)
<1>1. n \in Nat /\ n \in 0..n /\ 0 \in 0..n /\ starts[n] \in Nat
  BY DEF Row
<1>2. \A k \in 0..n : starts[k] \in DOMAIN code \cup {starts[n]}
  BY RowStarts
<1>3. 0 \in DOMAIN code \cup {starts[n]}
  BY <1>1, <1>2 DEF Row
<1>4. ASSUME NEW o \in DOMAIN code
      PROVE  /\ o + EmittedSize(code[o]) \in DOMAIN code \cup {starts[n]}
             /\ WalkedSize(code[o]) = EmittedSize(code[o])
  <2>1. PICK k \in 1..n : \E p \in DOMAIN pieces[k].code : o = starts[k - 1] + p
    BY DEF Row
  <2>2. PICK p \in DOMAIN pieces[k].code : o = starts[k - 1] + p
    BY <2>1
  <2>3. k \in 0..n /\ k - 1 \in 0..n
    BY <1>1
  <2>4. PICK c : c = code[o]
    OBVIOUS
  <2>5. c = pieces[k].code[p]
    BY <2>2, <2>4 DEF Row
  <2>6. Contiguous(pieces[k].code, pieces[k].size) /\ Walkable(pieces[k].code)
        /\ starts[k] = starts[k - 1] + pieces[k].size /\ starts[k - 1] \in Nat
    BY <2>3 DEF Row
  <2>7. WalkedSize(c) = EmittedSize(c)
    BY <2>5, <2>6 DEF Walkable
  <2>8. p + EmittedSize(c) \in DOMAIN pieces[k].code \cup {pieces[k].size}
    BY <2>5, <2>6 DEF Contiguous
  <2>9. p \in Nat /\ EmittedSize(c) \in Nat
    BY <2>5, <2>6, CodeSized DEF Contiguous
  <2>10. o + EmittedSize(c) = starts[k - 1] + (p + EmittedSize(c))
    BY <2>2, <2>6, <2>9
  <2>11. CASE p + EmittedSize(c) \in DOMAIN pieces[k].code
    <3>1. starts[k - 1] + (p + EmittedSize(c)) \in DOMAIN code
      BY <2>11 DEF Row
    <3>. QED
      BY <2>4, <2>7, <2>10, <3>1
  <2>12. CASE p + EmittedSize(c) = pieces[k].size
    <3>1. starts[k] = o + EmittedSize(c)
      BY <2>6, <2>10, <2>12
    <3>. QED
      BY <1>2, <2>3, <2>4, <2>7, <3>1
  <2>. QED
    BY <2>8, <2>11, <2>12
<1>5. IsCode(code) /\ Fits(code, starts[n])
  BY DEF Row
<1>. QED
  BY <1>1, <1>3, <1>4, <1>5 DEF Contiguous, Walkable

\* The bodies of a file as they have been generated.
LEMMA SectionContiguous ==
  ASSUME NEW unit, NEW lines, NEW flags, IsSection(unit, lines, flags), NEW k \in 1..Count(lines, flags)
  PROVE  LET g == SectionOf(unit, lines, flags)[k] b == AllBodies(lines, flags)[k]
         IN /\ Ready(b, unit) /\ IsPiece(g, unit, b, Starts(lines, flags)[k - 1])
            /\ g.size = BodySize(b) /\ Contiguous(g.code, g.size) /\ Walkable(g.code)
            /\ Contiguous(PieceOf(unit, b), g.size) /\ Walkable(PieceOf(unit, b))
<1> DEFINE g == SectionOf(unit, lines, flags)[k]
           b == AllBodies(lines, flags)[k]
<1>1. Ready(b, unit) /\ IsPiece(g, unit, b, Starts(lines, flags)[k - 1])
  BY DEF IsSection
<1> HIDE DEF g, b
<1>2. Contiguous(PieceOf(unit, b), BodySize(b)) /\ Walkable(PieceOf(unit, b))
  BY <1>1, PieceContiguous
<1>3. g.size = BodySize(b) /\ Retargeted(g.code, PieceOf(unit, b))
  BY <1>1 DEF IsPiece
<1>4. Contiguous(g.code, BodySize(b)) /\ Walkable(g.code)
  BY <1>2, <1>3, RetargetedWalk
<1>. QED
  BY <1>1, <1>2, <1>3, <1>4 DEF g, b

LEMMA BufferContiguous ==
  ASSUME NEW unit, NEW lines, NEW flags, IsSection(unit, lines, flags), IsBuffer(unit, lines, flags)
  PROVE  /\ Contiguous(BufferOf(unit, lines, flags), Used(lines, flags))
         /\ Walkable(BufferOf(unit, lines, flags))
<1> DEFINE n == Count(lines, flags)
           starts == Starts(lines, flags)
           section == SectionOf(unit, lines, flags)
           buffer == BufferOf(unit, lines, flags)
<1>1. \A k \in 1..n : /\ Contiguous(section[k].code, section[k].size) /\ Walkable(section[k].code)
                      /\ section[k].size = BodySize(AllBodies(lines, flags)[k])
  BY SectionContiguous
<1>2. /\ n \in Nat /\ starts[0] = 0 /\ \A k \in 0..n : starts[k] \in Nat
      /\ \A k \in 1..n : starts[k] = starts[k - 1] + BodySize(AllBodies(lines, flags)[k])
      /\ starts[n] = Used(lines, flags)
  BY DEF IsSection
<1>3. /\ IsCode(buffer) /\ Fits(buffer, starts[n])
      /\ \A k \in 1..n : \A p \in DOMAIN section[k].code :
           /\ starts[k - 1] + p \in DOMAIN buffer
           /\ buffer[starts[k - 1] + p] = section[k].code[p]
      /\ \A o \in DOMAIN buffer : \E k \in 1..n : \E p \in DOMAIN section[k].code : o = starts[k - 1] + p
  BY <1>2 DEF IsBuffer
<1> HIDE DEF n, starts, section, buffer
<1>4. Row(starts, section, n, buffer)
  BY <1>1, <1>2, <1>3 DEF Row
<1>5. Contiguous(buffer, starts[n]) /\ Walkable(buffer)
  BY <1>4, RowContiguous
<1>. QED
  BY <1>2, <1>5 DEF buffer

-----------------------------------------------------------------------------
(***************************************************************************)
(* The targets that are recorded as jumps to calculate.                    *)
(***************************************************************************)
\* Fields that are recorded, as absolute ones or as the others.
Recorded(c, absolute) ==
  {i \in Fields(c.op) : \/ c.op = "jump" /\ FieldOffset(c, i) \in JumpPosition(c, absolute)
                        \/ c.op = "branch" /\ FieldOffset(c, i) \in BranchPositions(c, absolute)}
\* The positions are those of the recorded fields of the code.
RecordedAt(positions, code, absolute) ==
  \A p : p \in positions <=> \E o \in DOMAIN code : \E i \in Recorded(code[o], absolute) :
                               p = o + FieldOffset(code[o], i)

LEMMA PositionsAreFields ==
  ASSUME NEW c, c.op \in Implemented, NEW absolute
  PROVE  /\ c.op = "jump" => \A p \in JumpPosition(c, absolute) : \E i \in Fields(c.op) : FieldOffset(c, i) = p
         /\ c.op = "branch" => \A p \in BranchPositions(c, absolute) : \E i \in Fields(c.op) : FieldOffset(c, i) = p
<1>1. Sized(c)
  BY InstructionSized
<1>2. \A p \in JumpPosition(c, absolute) : p = 1
  BY DEF JumpPosition
<1>3. \A p \in BranchPositions(c, absolute) : p \in {6, 10}
  BY DEF BranchPositions
<1>. QED
  BY <1>1, <1>2, <1>3 DEF Sized

LEMMA JumpsRecorded ==
  ASSUME NEW code, IsCode(code), NEW absolute
  PROVE  RecordedAt(Jumps(code, absolute), code, absolute)
<1> DEFINE S(o) == CASE code[o].op = "jump" -> JumpPosition(code[o], absolute)
                     [] code[o].op = "branch" -> BranchPositions(code[o], absolute)
                     [] OTHER -> {}
<1>1. Jumps(code, absolute) = UNION {{o + p : p \in S(o)} : o \in DOMAIN code}
  BY DEF Jumps
<1>2. ASSUME NEW o \in DOMAIN code, NEW q
      PROVE  q \in S(o) <=> \E i \in Recorded(code[o], absolute) : q = FieldOffset(code[o], i)
  <2>1. code[o].op \in Implemented
    BY DEF IsCode, IsInstr
  <2>2. CASE code[o].op = "jump"
    <3>1. S(o) = JumpPosition(code[o], absolute) /\ code[o].op # "branch"
      BY <2>2
    <3>2. \A p \in JumpPosition(code[o], absolute) : \E i \in Fields(code[o].op) : FieldOffset(code[o], i) = p
      BY <2>1, <2>2, PositionsAreFields
    <3> HIDE DEF S
    <3>. QED
      BY <2>2, <3>1, <3>2 DEF Recorded
  <2>3. CASE code[o].op = "branch"
    <3>1. S(o) = BranchPositions(code[o], absolute) /\ code[o].op # "jump"
      BY <2>3
    <3>2. \A p \in BranchPositions(code[o], absolute) : \E i \in Fields(code[o].op) : FieldOffset(code[o], i) = p
      BY <2>1, <2>3, PositionsAreFields
    <3> HIDE DEF S
    <3>. QED
      BY <2>3, <3>1, <3>2 DEF Recorded
  <2>4. CASE code[o].op \notin {"jump", "branch"}
    <3>1. S(o) = {}
      BY <2>4
    <3>2. Recorded(code[o], absolute) = {}
      BY <2>4 DEF Recorded
    <3>. QED
      BY <3>1, <3>2
  <2>. QED
    BY <2>2, <2>3, <2>4
<1> HIDE DEF S
<1>3. ASSUME NEW p
      PROVE  p \in Jumps(code, absolute)
               <=> \E o \in DOMAIN code : \E i \in Recorded(code[o], absolute) : p = o + FieldOffset(code[o], i)
  <2>1. p \in Jumps(code, absolute) <=> \E o \in DOMAIN code : \E q \in S(o) : p = o + q
    BY <1>1
  <2>2. ASSUME NEW o \in DOMAIN code
        PROVE  (\E q \in S(o) : p = o + q)
                 <=> \E i \in Recorded(code[o], absolute) : p = o + FieldOffset(code[o], i)
    BY <1>2
  <2>. QED
    BY <2>1, <2>2
<1>. QED
  BY <1>3 DEF RecordedAt

\* Only these fields have their bytes at the positions.
LEMMA FieldsRecorded ==
  ASSUME NEW code, NEW size, IsCode(code), Fits(code, size), NEW positions, NEW absolute,
         RecordedAt(positions, code, absolute), NEW o \in DOMAIN code
  PROVE  FieldsAt(code[o], o, positions) = Recorded(code[o], absolute)
<1>1. DOMAIN code[o].args = Fields(code[o].op)
  BY DEF IsCode, IsInstr
<1>2. ASSUME NEW i \in Fields(code[o].op)
      PROVE  o + FieldOffset(code[o], i) \in positions <=> i \in Recorded(code[o], absolute)
  <2>1. ASSUME o + FieldOffset(code[o], i) \in positions
        PROVE  i \in Recorded(code[o], absolute)
    <3>1. PICK p \in DOMAIN code : \E j \in Recorded(code[p], absolute) :
            o + FieldOffset(code[o], i) = p + FieldOffset(code[p], j)
      BY <2>1 DEF RecordedAt
    <3>2. PICK j \in Recorded(code[p], absolute) : o + FieldOffset(code[o], i) = p + FieldOffset(code[p], j)
      BY <3>1
    <3>3. j \in Fields(code[p].op)
      BY DEF Recorded
    <3>4. o = p /\ i = j
      BY <3>2, <3>3, FieldsApart
    <3>. QED
      BY <3>2, <3>4
  <2>. QED
    BY <2>1 DEF RecordedAt
<1>3. Recorded(code[o], absolute) \subseteq Fields(code[o].op)
  BY DEF Recorded
<1>. QED
  BY <1>1, <1>2, <1>3 DEF FieldsAt

LEMMA AlikeRecorded ==
  ASSUME NEW c, NEW d, Alike(c, d), NEW absolute
  PROVE  /\ Recorded(c, absolute) = Recorded(d, absolute)
         /\ \A i \in Recorded(d, absolute) : FieldOffset(c, i) = FieldOffset(d, i)
<1>1. c.op = d.op /\ c.types = d.types /\ \A i \in Fields(d.op) : FieldOffset(c, i) = FieldOffset(d, i)
  BY AlikeSizes DEF Alike
<1>2. JumpPosition(c, absolute) = JumpPosition(d, absolute)
  BY <1>1, Zenon DEF JumpPosition
<1>3. BranchPositions(c, absolute) = BranchPositions(d, absolute)
  BY <1>1, Zenon DEF BranchPositions
<1>. QED
  BY <1>1, <1>2, <1>3 DEF Recorded

LEMMA RecordedStays ==
  ASSUME NEW new, NEW old, Retargeted(new, old), NEW positions, NEW absolute, RecordedAt(positions, old, absolute)
  PROVE  RecordedAt(positions, new, absolute)
<1>1. DOMAIN new = DOMAIN old
  BY DEF Retargeted
<1>2. ASSUME NEW o \in DOMAIN old
      PROVE  /\ Recorded(new[o], absolute) = Recorded(old[o], absolute)
             /\ \A i \in Recorded(old[o], absolute) : FieldOffset(new[o], i) = FieldOffset(old[o], i)
  <2>1. Alike(new[o], old[o])
    BY DEF Retargeted
  <2>. QED
    BY <2>1, AlikeRecorded
<1>. QED
  BY <1>1, <1>2 DEF RecordedAt

\* Both targets of a branch are of one kind, as far as absolute ones go.
Matching(c) == c.op = "branch" => (c.types[2] = "absolute" <=> c.types[3] = "absolute")
Targets(op) == {i \in Fields(op) : Layout[op][i] = "target"}

LEMMA TargetFields ==
  /\ Fields("jump") = {1} /\ Fields("branch") = {1, 2, 3}
  /\ Targets("jump") = {1} /\ Targets("branch") = {2, 3}
<1>1. Layout["jump"] = <<"target">> /\ Layout["branch"] = <<"operand", "target", "target">>
  BY Formats DEF Gives, Jumping, Branching
<1>2. Fields("jump") = {1} /\ Fields("branch") = {1, 2, 3}
  BY <1>1 DEF Fields
<1>. QED
  BY <1>1, <1>2 DEF Targets

\* The type of a target tells as what it is recorded.
RecordedByType(c, i) ==
  /\ i \in Fields(c.op)
  /\ i \in Recorded(c, TRUE) <=> c.types[i] = "absolute"
  /\ i \in Recorded(c, FALSE) <=> c.types[i] \notin {"absolute", "byte"}

LEMMA RecordedFields ==
  ASSUME NEW c, c.op \in {"jump", "branch"}, Matching(c), NEW i \in Targets(c.op)
  PROVE  RecordedByType(c, i)
<1>1. c.op \in Implemented
  BY DEF Implemented
<1>2. Sized(c)
  BY <1>1, InstructionSized
<1>3. CASE c.op = "jump"
  <2>1. i = 1 /\ i \in Fields(c.op) /\ FieldOffset(c, i) = 1
    BY <1>2, <1>3, TargetFields DEF Sized
  <2>2. 1 \in JumpPosition(c, TRUE) <=> c.types[1] = "absolute"
    BY DEF JumpPosition
  <2>3. 1 \in JumpPosition(c, FALSE) <=> c.types[1] \notin {"absolute", "byte"}
    BY DEF JumpPosition
  <2>. QED
    BY <1>3, <2>1, <2>2, <2>3 DEF Recorded, RecordedByType
<1>4. CASE c.op = "branch"
  <2>0. i \in {2, 3} /\ i \in Fields(c.op)
    BY <1>4, TargetFields
  <2>1. (i = 2 => FieldOffset(c, i) = 6) /\ (i = 3 => FieldOffset(c, i) = 10)
    BY <1>2, <1>4 DEF Sized
  <2>2. c.types[2] = "absolute" <=> c.types[3] = "absolute"
    BY <1>4 DEF Matching
  <2>3. /\ 6 \in BranchPositions(c, TRUE) <=> c.types[2] = "absolute"
        /\ 10 \in BranchPositions(c, TRUE) <=> c.types[3] = "absolute"
    BY <2>2 DEF BranchPositions
  <2>4. /\ 6 \in BranchPositions(c, FALSE) <=> c.types[2] \notin {"absolute", "byte"}
        /\ 10 \in BranchPositions(c, FALSE) <=> c.types[3] \notin {"absolute", "byte"}
    BY <2>2 DEF BranchPositions
  <2>5. CASE i = 2
    BY <1>4, <2>0, <2>1, <2>3, <2>4, <2>5 DEF Recorded, RecordedByType
  <2>6. CASE i = 3
    BY <1>4, <2>0, <2>1, <2>3, <2>4, <2>6 DEF Recorded, RecordedByType
  <2>. QED
    BY <2>0, <2>5, <2>6
<1>. QED
  BY <1>3, <1>4

\* Instruction m of a body has m - 1 before it.
LEMMA PriorPlaced ==
  ASSUME NEW s, NEW n, Body1(s, n), NEW code, Placement(code, s, n)
  PROVE  \A m \in 1..n : Prior(code, Places(Sizes(s))[m - 1]) = m - 1
<1> DEFINE at == Places(Sizes(s))
           Q == {m \in Nat : m < n => Prior(code, at[m]) = m}
<1>1. n \in Nat /\ DOMAIN s = 1..n /\ \A k \in 1..n : IsInstr(s[k])
  BY DEF Body1
<1>2. /\ at[0] = 0 /\ \A k \in 0..n : at[k] \in Nat
      /\ \A k \in 1..n : at[k] = at[k - 1] + EmittedSize(s[k])
  BY <1>1, BodySizes
<1>3. Contiguous(code, Total(Sizes(s)))
  BY PlacedContiguous
<1> HIDE DEF at
<1>4. \A k \in 1..n : at[k - 1] \in DOMAIN code /\ code[at[k - 1]] = s[k]
  BY DEF Placement, at
<1>5. 0 \in Q
  <2>1. \A p \in DOMAIN code : ~(p < 0)
    BY <1>3 DEF Contiguous, IsCode
  <2>2. {p \in DOMAIN code : p < 0} = {}
    BY <2>1
  <2>3. Prior(code, 0) = 0
    BY <2>2, FS_EmptySet DEF Prior
  <2>. QED
    BY <1>2, <2>3
<1>6. ASSUME NEW m \in Nat, m \in Q
      PROVE  m + 1 \in Q
  <2>1. ASSUME m + 1 < n
        PROVE  Prior(code, at[m + 1]) = m + 1
    <3>1. m + 1 \in 1..n /\ m + 2 \in 1..n /\ (m + 1) - 1 = m /\ (m + 2) - 1 = m + 1 /\ m < n
      BY <1>1, <2>1
    <3>2. PICK o, e : o = at[m] /\ e = at[m + 1]
      OBVIOUS
    <3>3. o \in DOMAIN code /\ code[o] = s[m + 1]
      BY <1>4, <3>1, <3>2
    <3>4. e \in DOMAIN code
      BY <1>4, <3>1, <3>2
    <3>5. e = o + EmittedSize(code[o])
      BY <1>2, <3>1, <3>2, <3>3
    <3>6. Prior(code, e) = Prior(code, o) + 1
      BY <1>3, <3>3, <3>4, <3>5, PriorCounts
    <3>7. Prior(code, o) = m
      BY <1>6, <3>1, <3>2
    <3>. QED
      BY <3>2, <3>6, <3>7
  <2>. QED
    BY <2>1
<1> HIDE DEF Q
<1>7. \A m \in Nat : m \in Q
  BY <1>5, <1>6, CountingUp
<1>8. ASSUME NEW m \in 1..n
      PROVE  Prior(code, at[m - 1]) = m - 1
  <2>1. m - 1 \in Nat /\ m - 1 < n
    BY <1>1
  <2>2. m - 1 \in Q
    BY <1>7, <2>1
  <2>. QED
    BY <2>1, <2>2 DEF Q
<1>. QED
  BY <1>8 DEF at

-----------------------------------------------------------------------------
(***************************************************************************)
(* What is recorded for the buffer is what is recorded for its bodies.     *)
(***************************************************************************)
OfBodies(positions, unit, lines, flags, absolute) ==
  \A p : p \in positions <=> \E k \in 1..Count(lines, flags) :
           \E q \in Jumps(PieceOf(unit, AllBodies(lines, flags)[k]), absolute) : p = q + Starts(lines, flags)[k - 1]

\* An instruction of a body in the buffer.
LEMMA BufferPieces ==
  ASSUME NEW unit, NEW lines, NEW flags, IsSection(unit, lines, flags), IsBuffer(unit, lines, flags),
         NEW k \in 1..Count(lines, flags)
  PROVE  LET start == Starts(lines, flags)[k - 1]
             piece == PieceOf(unit, AllBodies(lines, flags)[k])
             g == SectionOf(unit, lines, flags)[k]
             buffer == BufferOf(unit, lines, flags)
         IN /\ start \in Nat /\ IsCode(piece) /\ Fits(piece, BodySize(AllBodies(lines, flags)[k]))
            /\ DOMAIN g.code = DOMAIN piece
            /\ \A p \in DOMAIN piece : /\ start + p \in DOMAIN buffer /\ buffer[start + p] = g.code[p]
                                       /\ Alike(g.code[p], piece[p])
<1> DEFINE b == AllBodies(lines, flags)[k]
           g == SectionOf(unit, lines, flags)[k]
           start == Starts(lines, flags)[k - 1]
<1>1. IsPiece(g, unit, b, start)
  BY SectionContiguous
<1>2. start \in Nat
  <2>1. k - 1 \in 0..Count(lines, flags)
    BY DEF IsSection
  <2>. QED
    BY <2>1 DEF IsSection
<1>3. \A p \in DOMAIN g.code : /\ start + p \in DOMAIN BufferOf(unit, lines, flags)
                               /\ BufferOf(unit, lines, flags)[start + p] = g.code[p]
  BY DEF IsBuffer
<1> HIDE DEF b, g, start
<1>4. IsCode(PieceOf(unit, b)) /\ Fits(PieceOf(unit, b), BodySize(b)) /\ Retargeted(g.code, PieceOf(unit, b))
  BY <1>1 DEF IsPiece
<1>5. DOMAIN g.code = DOMAIN PieceOf(unit, b)
      /\ \A p \in DOMAIN PieceOf(unit, b) : Alike(g.code[p], PieceOf(unit, b)[p])
  BY <1>4 DEF Retargeted
<1>. QED
  BY <1>2, <1>3, <1>4, <1>5 DEF b, g, start

LEMMA SectionRecorded ==
  ASSUME NEW unit, NEW lines, NEW flags, IsSection(unit, lines, flags), IsBuffer(unit, lines, flags),
         NEW absolute, NEW positions, OfBodies(positions, unit, lines, flags, absolute)
  PROVE  RecordedAt(positions, BufferOf(unit, lines, flags), absolute)
<1> DEFINE n == Count(lines, flags)
           starts == Starts(lines, flags)
           piece(k) == PieceOf(unit, AllBodies(lines, flags)[k])
           buffer == BufferOf(unit, lines, flags)
           section == SectionOf(unit, lines, flags)
<1>1. \A k \in 1..n : /\ starts[k - 1] \in Nat /\ IsCode(piece(k)) /\ DOMAIN section[k].code = DOMAIN piece(k)
                      /\ \A p \in DOMAIN piece(k) : /\ starts[k - 1] + p \in DOMAIN buffer
                                                    /\ Alike(buffer[starts[k - 1] + p], piece(k)[p])
  BY BufferPieces
<1>2. \A o \in DOMAIN buffer : \E k \in 1..n : \E p \in DOMAIN section[k].code : o = starts[k - 1] + p
  BY DEF IsBuffer
<1>3. \A p : p \in positions <=> \E k \in 1..n : \E q \in Jumps(piece(k), absolute) : p = q + starts[k - 1]
  BY DEF OfBodies
<1> HIDE DEF n, starts, piece, buffer, section
<1>4. \A k \in 1..n : RecordedAt(Jumps(piece(k), absolute), piece(k), absolute)
  BY <1>1, JumpsRecorded
\* A field of a body is at the start of the body.
<1>5. ASSUME NEW k \in 1..n, NEW o \in DOMAIN piece(k), NEW i \in Recorded(piece(k)[o], absolute)
      PROVE  LET q == starts[k - 1] + o
             IN /\ q \in DOMAIN buffer /\ i \in Recorded(buffer[q], absolute)
                /\ (o + FieldOffset(piece(k)[o], i)) + starts[k - 1] = q + FieldOffset(buffer[q], i)
  <2>1. PICK q : q = starts[k - 1] + o
    OBVIOUS
  <2>2. q \in DOMAIN buffer /\ Alike(buffer[q], piece(k)[o])
    BY <1>1, <2>1
  <2>3. Recorded(buffer[q], absolute) = Recorded(piece(k)[o], absolute)
        /\ FieldOffset(buffer[q], i) = FieldOffset(piece(k)[o], i)
    BY <2>2, AlikeRecorded
  <2>4. o \in Nat /\ Sized(piece(k)[o]) /\ i \in Fields(piece(k)[o].op)
    BY <1>1, CodeSized DEF Recorded
  <2>5. FieldOffset(piece(k)[o], i) \in Nat /\ starts[k - 1] \in Nat
    BY <1>1, <2>4 DEF Sized
  <2>. QED
    BY <2>1, <2>2, <2>3, <2>4, <2>5
<1>6. ASSUME NEW p, p \in positions
      PROVE  \E q \in DOMAIN buffer : \E i \in Recorded(buffer[q], absolute) : p = q + FieldOffset(buffer[q], i)
  <2>1. PICK k \in 1..n : \E r \in Jumps(piece(k), absolute) : p = r + starts[k - 1]
    BY <1>3, <1>6
  <2>2. PICK r \in Jumps(piece(k), absolute) : p = r + starts[k - 1]
    BY <2>1
  <2>3. PICK o \in DOMAIN piece(k) : \E i \in Recorded(piece(k)[o], absolute) : r = o + FieldOffset(piece(k)[o], i)
    BY <1>4, <2>2 DEF RecordedAt
  <2>4. PICK i \in Recorded(piece(k)[o], absolute) : r = o + FieldOffset(piece(k)[o], i)
    BY <2>3
  <2>. QED
    BY <1>5, <2>2, <2>4
<1>7. ASSUME NEW q \in DOMAIN buffer, NEW i \in Recorded(buffer[q], absolute)
      PROVE  q + FieldOffset(buffer[q], i) \in positions
  <2>1. PICK k \in 1..n : \E p \in DOMAIN section[k].code : q = starts[k - 1] + p
    BY <1>2
  <2>2. PICK o \in DOMAIN section[k].code : q = starts[k - 1] + o
    BY <2>1
  <2>3. o \in DOMAIN piece(k) /\ Alike(buffer[q], piece(k)[o])
    BY <1>1, <2>2
  <2>4. i \in Recorded(piece(k)[o], absolute)
    BY <2>3, AlikeRecorded
  <2>5. (o + FieldOffset(piece(k)[o], i)) + starts[k - 1] = q + FieldOffset(buffer[q], i)
    BY <1>5, <2>2, <2>3, <2>4
  <2>6. o + FieldOffset(piece(k)[o], i) \in Jumps(piece(k), absolute)
    BY <1>4, <2>3, <2>4 DEF RecordedAt
  <2>. QED
    BY <1>3, <2>5, <2>6
<1>8. RecordedAt(positions, buffer, absolute)
  BY <1>6, <1>7 DEF RecordedAt
<1>. QED
  BY <1>8 DEF buffer

LEMMA SectionPositions ==
  ASSUME NEW unit, NEW lines, NEW flags, IsSection(unit, lines, flags), IsBuffer(unit, lines, flags)
  PROVE  /\ RecordedAt(AbsolutePositions(SectionOf(unit, lines, flags)), BufferOf(unit, lines, flags), TRUE)
         /\ RecordedAt(RecordedJumps(SectionOf(unit, lines, flags)), BufferOf(unit, lines, flags), FALSE)
<1> DEFINE n == Count(lines, flags)
           section == SectionOf(unit, lines, flags)
<1>1. DOMAIN section = 1..n
  BY DEF IsSection, ArePieces
<1>2. \A k \in 1..n : IsPiece(section[k], unit, AllBodies(lines, flags)[k], Starts(lines, flags)[k - 1])
  BY DEF IsSection
<1> HIDE DEF n, section
<1>3. \A k \in 1..n :
        /\ section[k].positions = {p + Starts(lines, flags)[k - 1] :
                                     p \in Jumps(PieceOf(unit, AllBodies(lines, flags)[k]), TRUE)}
        /\ section[k].jumps = {p + Starts(lines, flags)[k - 1] :
                                 p \in Jumps(PieceOf(unit, AllBodies(lines, flags)[k]), FALSE)}
  BY <1>2 DEF IsPiece
<1>4. OfBodies(AbsolutePositions(section), unit, lines, flags, TRUE)
  <2>1. ASSUME NEW p
        PROVE  p \in AbsolutePositions(section) <=> \E k \in 1..n : p \in section[k].positions
    BY <1>1, Zenon DEF AbsolutePositions
  <2>2. ASSUME NEW k \in 1..n, NEW p
        PROVE  p \in section[k].positions
                 <=> \E q \in Jumps(PieceOf(unit, AllBodies(lines, flags)[k]), TRUE) : p = q + Starts(lines, flags)[k - 1]
    BY <1>3
  <2>3. ASSUME NEW p
        PROVE  p \in AbsolutePositions(section)
                 <=> \E k \in 1..n : \E q \in Jumps(PieceOf(unit, AllBodies(lines, flags)[k]), TRUE) :
                       p = q + Starts(lines, flags)[k - 1]
    <3> DEFINE X(k) == \E q \in Jumps(PieceOf(unit, AllBodies(lines, flags)[k]), TRUE) : p = q + Starts(lines, flags)[k - 1]
    <3>1. \A k \in 1..n : p \in section[k].positions <=> X(k)
      BY <2>2
    <3> HIDE DEF X
    <3>2. p \in AbsolutePositions(section) <=> \E k \in 1..n : X(k)
      BY <2>1, <3>1
    <3>. QED
      BY <3>2 DEF X
  <2>. QED
    BY <2>3, Zenon DEF OfBodies, n
<1>5. OfBodies(RecordedJumps(section), unit, lines, flags, FALSE)
  <2>1. ASSUME NEW p
        PROVE  p \in RecordedJumps(section) <=> \E k \in 1..n : p \in section[k].jumps
    BY <1>1, Zenon DEF RecordedJumps
  <2>2. ASSUME NEW k \in 1..n, NEW p
        PROVE  p \in section[k].jumps
                 <=> \E q \in Jumps(PieceOf(unit, AllBodies(lines, flags)[k]), FALSE) : p = q + Starts(lines, flags)[k - 1]
    BY <1>3
  <2>3. ASSUME NEW p
        PROVE  p \in RecordedJumps(section)
                 <=> \E k \in 1..n : \E q \in Jumps(PieceOf(unit, AllBodies(lines, flags)[k]), FALSE) :
                       p = q + Starts(lines, flags)[k - 1]
    <3> DEFINE X(k) == \E q \in Jumps(PieceOf(unit, AllBodies(lines, flags)[k]), FALSE) : p = q + Starts(lines, flags)[k - 1]
    <3>1. \A k \in 1..n : p \in section[k].jumps <=> X(k)
      BY <2>2
    <3> HIDE DEF X
    <3>2. p \in RecordedJumps(section) <=> \E k \in 1..n : X(k)
      BY <2>1, <3>1
    <3>. QED
      BY <3>2 DEF X
  <2>. QED
    BY <2>3, Zenon DEF OfBodies, n
<1>. QED
  BY <1>4, <1>5, SectionRecorded DEF section

-----------------------------------------------------------------------------
(***************************************************************************)
(* The targets of a body, calculated.                                      *)
(***************************************************************************)
Jumps1(c, i) == c.op \in {"jump", "branch"} /\ Matching(c) /\ i \in Targets(c.op)

LEMMA PieceTargets ==
  ASSUME NEW unit, NEW b, Ready(b, unit), NEW g, NEW start, IsPiece(g, unit, b, start), ~g.died,
         NEW j \in DOMAIN Coded(b.lines, unit, b.name), NEW i, Jumps1(Coded(b.lines, unit, b.name)[j], i)
  PROVE  LET s == Coded(b.lines, unit, b.name) at == Places(Sizes(s)) c == s[j] new == g.code[at[j - 1]]
         IN /\ at[j - 1] \in DOMAIN PieceOf(unit, b) /\ PieceOf(unit, b)[at[j - 1]] = c
            /\ c.types[i] = "relative" /\ c.args[i] \in Nat =>
                 c.args[i] + 1 \in DOMAIN s /\ new.args[i] = start + at[c.args[i]]
            /\ c.types[i] = "absolute" => new.args[i] = c.args[i]
<1> DEFINE s == Coded(b.lines, unit, b.name)
           at == Places(Sizes(s))
           n == Cardinality(Kept(b.lines))
           code == PieceOf(unit, b)
           size == BodySize(b)
<1>1. /\ n \in Nat /\ DOMAIN s = 1..n /\ \A k \in 1..n : IsInstr(s[k])
      /\ Placement(code, s, n) /\ size = Total(Sizes(s)) /\ size \in Nat /\ IsCode(code) /\ Fits(code, size)
  BY ReadyPlaced
<1>2. Body1(s, n)
  <2>1. \A k \in 1..n : WalkedSize(s[k]) = EmittedSize(s[k])
    BY DEF Ready, IsCoded
  <2> HIDE DEF s, n
  <2>. QED
    BY <1>1, <2>1 DEF Body1
<1>3. j \in 1..n /\ Jumps1(s[j], i)
  BY <1>1
<1>4. g.code = CalculateJumps(code, size, Jumps(code, FALSE), start)
  BY DEF IsPiece
<1>5. CanCalculateJumps(code, size, Jumps(code, FALSE))
  <2>1. g.died = ~CanCalculateJumps(code, size, Jumps(code, FALSE))
    BY DEF IsPiece
  <2>. QED
    BY <2>1, Zenon
<1> HIDE DEF s, n, code, size
<1>6. /\ Contiguous(code, size) /\ Walkable(code)
      /\ \A m \in 1..n : Prior(code, at[m - 1]) = m - 1
  BY <1>1, <1>2, PlacedContiguous, PriorPlaced
<1>7. /\ \A m \in 1..n : at[m - 1] \in DOMAIN code /\ code[at[m - 1]] = s[m]
      /\ \A o \in DOMAIN code : \E m \in 1..n : o = at[m - 1]
  BY <1>1 DEF Placement
<1> HIDE DEF at
<1>8. PICK p, c : p = at[j - 1] /\ c = s[j]
  OBVIOUS
<1>9. p \in DOMAIN code /\ code[p] = c
  BY <1>3, <1>7, <1>8
<1>10. c.op \in {"jump", "branch"} /\ Matching(c) /\ i \in Targets(c.op)
  BY <1>3, <1>8 DEF Jumps1
<1>11. /\ i \in Fields(c.op)
       /\ i \in Recorded(c, FALSE) <=> c.types[i] \notin {"absolute", "byte"}
  <2>1. RecordedByType(c, i)
    BY <1>10, RecordedFields
  <2>. QED
    BY <2>1, Zenon DEF RecordedByType
<1>12. FieldsAt(code[p], p, Jumps(code, FALSE)) = Recorded(c, FALSE)
  BY <1>1, <1>9, JumpsRecorded, FieldsRecorded
<1>13. PICK J : J = Jumps(code, FALSE)
  OBVIOUS
<1>16. g.code[p].args[i] = IF i \in FieldsAt(code[p], p, J)
                           THEN start + BytecodeOffset(code, size, c.args[i]) ELSE c.args[i]
  <2>1. \A o \in DOMAIN code : \A k \in Fields(code[o].op) :
          CalculateJumps(code, size, J, start)[o].args[k]
            = IF k \in FieldsAt(code[o], o, J)
              THEN start + BytecodeOffset(code, size, code[o].args[k]) ELSE code[o].args[k]
    BY <1>1, CalculatedCode
  <2>2. g.code = CalculateJumps(code, size, J, start)
    BY <1>4, <1>13
  <2>. QED
    BY <1>9, <1>11, <2>1, <2>2
<1>17. FieldsAt(code[p], p, J) = Recorded(c, FALSE)
  BY <1>12, <1>13, Zenon
<1>18. CanCalculateJumps(code, size, J)
  BY <1>5, <1>13, Zenon
<1>19. i \in FieldsAt(code[p], p, J) <=> c.types[i] \notin {"absolute", "byte"}
  BY <1>11, <1>17, Zenon
<1>14. ASSUME c.types[i] = "relative", NEW a \in Nat, a = c.args[i]
       PROVE  a + 1 \in 1..n /\ g.code[p].args[i] = start + at[a]
  <2>1. i \in FieldsAt(code[p], p, J)
    BY <1>14, <1>19
  <2>2. PICK q : q = BytecodeOffset(code, size, a)
    OBVIOUS
  <2>3. q # OutOfBounds
    BY <1>9, <1>14, <1>18, <2>1, <2>2 DEF CanCalculateJumps
  <2>4. DOMAIN code # {} /\ size <= size
    BY <1>1, <1>9
  <2>5. q \in DOMAIN code /\ Prior(code, q) = a
    BY <1>1, <1>6, <2>2, <2>3, <2>4, WalkFinds
  <2>6. PICK m \in 1..n : q = at[m - 1]
    BY <1>7, <2>5
  <2>7. m - 1 = a
    BY <1>6, <2>5, <2>6
  <2>8. a + 1 = m
    BY <1>1, <2>7
  <2>. QED
    BY <1>14, <1>16, <2>1, <2>2, <2>6, <2>7, <2>8
<1>15. c.types[i] = "absolute" => g.code[p].args[i] = c.args[i]
  BY <1>16, <1>19
<1>. QED
  BY <1>1, <1>8, <1>9, <1>14, <1>15 DEF at, s, code

LEMMA OwnTargets ==
  ASSUME NEW unit, NEW lines, NEW libs, NEW flags, IsSection(unit, lines, flags), IsBuffer(unit, lines, flags),
         Succeeded(unit, lines, libs, flags), NEW k \in 1..Count(lines, flags),
         NEW j \in DOMAIN BodyCode(unit, lines, flags, k), NEW i, Jumps1(BodyCode(unit, lines, flags, k)[j], i)
  PROVE  LET c == BodyCode(unit, lines, flags, k)[j]
             new == OwnCode(unit, lines, libs, flags)[PlaceOf(unit, lines, flags, k, j)]
         IN /\ c.types[i] = "relative" /\ c.args[i] \in Nat =>
                 /\ c.args[i] + 1 \in DOMAIN BodyCode(unit, lines, flags, k)
                 /\ new.args[i] = PlaceOf(unit, lines, flags, k, c.args[i] + 1)
            /\ c.types[i] = "absolute" =>
                 new.args[i] = 0 + BytecodeOffset(BufferOf(unit, lines, flags), BytesOf(lines, libs, flags), c.args[i])
<1> DEFINE b == AllBodies(lines, flags)[k]
           s == BodyCode(unit, lines, flags, k)
           at == Places(Sizes(s))
           start == Starts(lines, flags)[k - 1]
           g == SectionOf(unit, lines, flags)[k]
           buffer == BufferOf(unit, lines, flags)
           bytes == BytesOf(lines, libs, flags)
           own == OwnCode(unit, lines, libs, flags)
<1>1. Ready(b, unit) /\ IsPiece(g, unit, b, start) /\ s = Coded(b.lines, unit, b.name)
  BY SectionContiguous DEF BodyCode
<1>2. ~g.died
  <2>1. k \in DOMAIN SectionOf(unit, lines, flags)
    BY DEF IsSection, ArePieces
  <2>. QED
    BY <2>1 DEF Succeeded
<1>3. /\ start \in Nat
      /\ \A p \in DOMAIN PieceOf(unit, b) : /\ start + p \in DOMAIN buffer /\ buffer[start + p] = g.code[p]
                                            /\ Alike(g.code[p], PieceOf(unit, b)[p])
  BY BufferPieces
<1>4. IsCode(buffer) /\ Fits(buffer, Used(lines, flags))
  BY DEF IsBuffer
<1>5. PICK A : A = AbsolutePositions(SectionOf(unit, lines, flags))
  OBVIOUS
<1>6. RecordedAt(A, buffer, TRUE)
  <2>1. RecordedAt(AbsolutePositions(SectionOf(unit, lines, flags)), buffer, TRUE)
    BY SectionPositions
  <2>. QED
    BY <1>5, <2>1, Zenon
<1>7. own = CalculateJumps(buffer, bytes, A, 0)
  BY <1>5 DEF OwnCode
<1>8. \A m : PlaceOf(unit, lines, flags, k, m) = start + at[m - 1]
  BY DEF PlaceOf
<1> HIDE DEF s, start, g, buffer, bytes, own, b, at
<1>9. PICK c, p : c = s[j] /\ p = at[j - 1]
  OBVIOUS
<1>10. Jumps1(c, i) /\ j \in DOMAIN s
  BY <1>9 DEF s
<1>11. /\ p \in DOMAIN PieceOf(unit, b) /\ PieceOf(unit, b)[p] = c
       /\ c.types[i] = "relative" /\ c.args[i] \in Nat =>
            c.args[i] + 1 \in DOMAIN s /\ g.code[p].args[i] = start + at[c.args[i]]
       /\ c.types[i] = "absolute" => g.code[p].args[i] = c.args[i]
  <2>1. LET t == Coded(b.lines, unit, b.name) places == Places(Sizes(t)) d == t[j] new == g.code[places[j - 1]]
         IN /\ places[j - 1] \in DOMAIN PieceOf(unit, b) /\ PieceOf(unit, b)[places[j - 1]] = d
            /\ d.types[i] = "relative" /\ d.args[i] \in Nat =>
                 d.args[i] + 1 \in DOMAIN t /\ new.args[i] = start + places[d.args[i]]
            /\ d.types[i] = "absolute" => new.args[i] = d.args[i]
    BY <1>1, <1>2, <1>9, <1>10, PieceTargets
  <2>. QED
    BY <1>1, <1>9, <2>1 DEF at
<1>12. PICK o : o = start + p
  OBVIOUS
<1>13. o \in DOMAIN buffer /\ buffer[o] = g.code[p] /\ Alike(buffer[o], c)
  BY <1>3, <1>11, <1>12
<1>14. RecordedByType(c, i)
  BY <1>10, RecordedFields DEF Jumps1
<1>15. FieldsAt(buffer[o], o, A) = Recorded(buffer[o], TRUE)
  BY <1>4, <1>6, <1>13, FieldsRecorded
<1>16. Recorded(buffer[o], TRUE) = Recorded(c, TRUE) /\ buffer[o].op = c.op
  <2>1. PICK d : d = buffer[o]
    OBVIOUS
  <2>2. Alike(d, c)
    BY <1>13, <2>1
  <2>3. Recorded(d, TRUE) = Recorded(c, TRUE)
    BY <2>2, AlikeRecorded, ZenonT(60)
  <2>. QED
    BY <2>1, <2>2, <2>3 DEF Alike
<1>17. i \in Fields(c.op) /\ (i \in FieldsAt(buffer[o], o, A) <=> c.types[i] = "absolute")
  BY <1>14, <1>15, <1>16, Zenon DEF RecordedByType
<1>18. own[o].args[i] = IF i \in FieldsAt(buffer[o], o, A)
                        THEN 0 + BytecodeOffset(buffer, bytes, buffer[o].args[i]) ELSE buffer[o].args[i]
  <2>1. \A q \in DOMAIN buffer : \A m \in Fields(buffer[q].op) :
          CalculateJumps(buffer, bytes, A, 0)[q].args[m]
            = IF m \in FieldsAt(buffer[q], q, A)
              THEN 0 + BytecodeOffset(buffer, bytes, buffer[q].args[m]) ELSE buffer[q].args[m]
    BY <1>4, CalculatedCode
  <2>. QED
    BY <1>7, <1>13, <1>16, <1>17, <2>1
<1>19. ASSUME c.types[i] = "relative", NEW a \in Nat, a = c.args[i]
       PROVE  a + 1 \in DOMAIN s /\ own[o].args[i] = start + at[(a + 1) - 1]
  <2>1. a + 1 \in DOMAIN s /\ g.code[p].args[i] = start + at[a]
    BY <1>11, <1>19
  <2>2. own[o].args[i] = g.code[p].args[i]
    BY <1>13, <1>17, <1>18, <1>19
  <2>3. (a + 1) - 1 = a
    OBVIOUS
  <2>. QED
    BY <2>1, <2>2, <2>3
<1>20. c.types[i] = "absolute" => own[o].args[i] = 0 + BytecodeOffset(buffer, bytes, c.args[i])
  BY <1>11, <1>13, <1>17, <1>18
<1>21. PlaceOf(unit, lines, flags, k, j) = o
  BY <1>8, <1>9, <1>12
<1>22. ASSUME c.types[i] = "relative", c.args[i] \in Nat
       PROVE  c.args[i] + 1 \in DOMAIN s /\ own[o].args[i] = PlaceOf(unit, lines, flags, k, c.args[i] + 1)
  BY <1>8, <1>19, <1>22
<1>. QED
  BY <1>9, <1>20, <1>21, <1>22 DEF s, buffer, bytes, own

-----------------------------------------------------------------------------
(***************************************************************************)
(* Where the instructions of a file are in the executable.                 *)
(***************************************************************************)
Base(u) == IF u = 0 THEN 0 ELSE LocalSize(File(0), UnitFlags(0))
UnitOwn(u) == OwnCode(u, File(u), UnitLibs(u), UnitFlags(u))
UnitPlace(u, k, j) == PlaceOf(u, File(u), UnitFlags(u), k, j)

LEMMA OwnPlaces ==
  ASSUME Assembled, DistinctNames, NEW u \in Members
  PROVE  /\ UnitMade(u) /\ IsCode(UnitOwn(u))
         /\ \A o \in DOMAIN UnitOwn(u) : /\ o \in DOMAIN UnitResult(u).image.code
                                         /\ UnitResult(u).image.code[o] = UnitOwn(u)[o]
         /\ \A k \in 1..UnitCount(u) : \A j \in DOMAIN UnitCode(u, k) :
              /\ UnitPlace(u, k, j) \in DOMAIN UnitOwn(u)
              /\ Alike(UnitOwn(u)[UnitPlace(u, k, j)], UnitCode(u, k)[j])
         /\ \A o \in DOMAIN UnitOwn(u) : \E k \in 1..UnitCount(u) : \E j \in DOMAIN UnitCode(u, k) :
              o = UnitPlace(u, k, j)
<1> DEFINE result == UnitResult(u).image m == Len(UnitLinks(u)) lines == File(u) libs == UnitLibs(u) flags == UnitFlags(u)
<1>1. UnitMade(u)
  BY MembersMade
<1>2. IsImage(result, u, lines, libs, m, flags) /\ HasBodies(UnitOwn(u), u, lines, flags)
  BY <1>1 DEF UnitMade, UnitOwn
<1>3. IsCode(UnitOwn(u)) /\ \A o \in DOMAIN UnitOwn(u) : o \in DOMAIN result.code /\ result.code[o] = UnitOwn(u)[o]
  <2> HIDE DEF result, m
  <2>. QED
    BY <1>2 DEF IsImage, IsOwn, UnitOwn
<1>4. HasBodies(UnitOwn(u), u, lines, flags)
  BY <1>2
<1>. QED
  BY <1>1, <1>3, <1>4 DEF HasBodies, UnitCount, UnitCode, UnitPlace

\* The library that is linked: its code is its own, moved behind the program.
LEMMA LibraryOwn ==
  ASSUME Assembled, DistinctNames, OneLibrary, NEW u \in Reached
  PROVE  /\ u # 0 /\ u \in Members /\ 0 \in Members
         /\ DOMAIN built[u].code = DOMAIN UnitOwn(u)
         /\ \A p \in DOMAIN UnitOwn(u) : built[u].code[p] = UnitOwn(u)[p]
         /\ built[u].jumps = RecordedJumps(SectionOf(u, File(u), UnitFlags(u)))
<1> DEFINE result == UnitResult(u).image lines == File(u) libs == UnitLibs(u) flags == UnitFlags(u)
           linked == LibraryCode(lines, libs, flags)
<1>1. u # 0 /\ u \in Members /\ 0 \in Members /\ UnitLinks(u) = <<>>
  BY OneLinked DEF Members
<1>2. UnitMade(u) /\ built[u] = LibraryOf(result)
  BY <1>1, MembersMade, MembersBuilt
<1>3. built[u].code = result.code /\ built[u].jumps = result.jumps
  <2>1. PICK w : w = result
    OBVIOUS
  <2>2. LibraryOf(w).code = w.code /\ LibraryOf(w).jumps = w.jumps
    BY DEF LibraryOf, ExecutableOf, LoadBytecode, LoadJumpTable
  <2>. QED
    BY <1>2, <2>1, <2>2
<1>4. PICK n : n = 0
  OBVIOUS
<1>5. IsImage(result, u, lines, libs, n, flags)
  <2>1. IsImage(result, u, lines, libs, Len(UnitLinks(u)), flags)
    BY <1>2 DEF UnitMade
  <2>2. Len(UnitLinks(u)) = n
    BY <1>1, <1>4
  <2>. QED
    BY <2>1, <2>2
<1>6. DOMAIN linked = {}
  <2> HIDE DEF linked, result
  <2>1. AreLinked(linked, libs, n, Used(lines, flags), LocalSize(lines, flags))
    BY <1>5 DEF IsImage, linked
  <2>. QED
    BY <1>4, <2>1 DEF AreLinked
<1>7. DOMAIN result.code = DOMAIN UnitOwn(u) /\ \A p \in DOMAIN UnitOwn(u) : result.code[p] = UnitOwn(u)[p]
  <2> HIDE DEF result
  <2>. QED
    BY <1>5, <1>6 DEF IsImage, UnitOwn
<1>8. result.jumps = RecordedJumps(SectionOf(u, lines, flags))
  <2>1. flags.as_lib
    BY <1>1 DEF UnitFlags, Flags
  <2>2. result = Image(libs, flags, GatherBlocks(lines), FunctionsOf(lines, flags), LinkedTo(lines, libs, flags),
                  LocalSize(lines, flags), BytesOf(lines, libs, flags), SectionOf(u, lines, flags),
                  BufferOf(u, lines, flags))
    <3>1. Succeeded(u, lines, libs, flags)
      BY <1>2 DEF UnitMade
    <3>2. result = Generate(u, lines, libs, flags).image
      BY DEF UnitResult
    <3> HIDE DEF result, flags, libs, lines
    <3>. QED
      BY <3>1, <3>2 DEF Succeeded
  <2>3. \A fl, a, b, c, d, e, f, g : fl.as_lib => Image(libs, fl, a, b, c, d, e, f, g).jumps = RecordedJumps(f)
    BY DEF Image, RecordedJumps
  <2> HIDE DEF result, flags, libs, lines
  <2>. QED
    BY <2>1, <2>2, <2>3
<1>. QED
  BY <1>1, <1>3, <1>7, <1>8

\* The code of the executable is that of the program and that of the library.
LEMMA OwnInImage ==
  ASSUME Assembled, DistinctNames, NEW o \in DOMAIN UnitOwn(0)
  PROVE  o + Base(0) = o /\ o \in DOMAIN image.code /\ image.code[o] = UnitOwn(0)[o]
<1>1. 0 \in Members
  BY DEF Members
<1>2. /\ IsCode(UnitOwn(0)) /\ o \in DOMAIN UnitResult(0).image.code
      /\ UnitResult(0).image.code[o] = UnitOwn(0)[o]
  BY <1>1, OwnPlaces
<1>3. image = UnitResult(0).image
  BY <1>1, MembersBuilt
<1>4. o \in Nat
  BY <1>2 DEF IsCode
<1>. QED
  BY <1>2, <1>3, <1>4 DEF Base

LEMMA LibraryInImage ==
  ASSUME Assembled, DistinctNames, OneLibrary, NEW u \in Reached
  PROVE  /\ Base(u) \in Nat /\ Base(u) = Used(File(0), UnitFlags(0))
         /\ \A p \in DOMAIN UnitOwn(u) : /\ p \in Nat /\ p + Base(u) \in DOMAIN image.code
                                         /\ image.code[p + Base(u)] = Relocated(built[u], Base(u))[p]
         /\ \A o \in DOMAIN image.code : o \in DOMAIN UnitOwn(0) \/ \E p \in DOMAIN UnitOwn(u) : o = p + Base(u)
<1> DEFINE lines == File(0) flags == UnitFlags(0) libs == UnitLibs(0) written == UnitResult(0).image
           off == LocalSize(lines, flags) used == Used(lines, flags) linked == LibraryCode(lines, libs, flags)
           at == Places(LibrarySizes(libs))
<1>1. /\ DOMAIN libs = 1..1 /\ libs[1] = built[u] /\ u # 0 /\ u \in Members /\ 0 \in Members /\ Len(UnitLinks(0)) = 1
  BY OneLinked DEF Members
<1>2. UnitMade(0) /\ image = written /\ IsCode(UnitOwn(u))
  BY <1>1, MembersMade, MembersBuilt, OwnPlaces
<1>3. DOMAIN libs[1].code = DOMAIN UnitOwn(u)
  BY <1>1, LibraryOwn
<1>4. used = off /\ off \in Nat /\ Base(u) = off
  BY <1>1, <1>2, UnitFits DEF Base
<1>5. IsImage(written, 0, lines, libs, 1, flags)
  <2>1. IsImage(written, 0, lines, libs, Len(UnitLinks(0)), flags)
    BY <1>2 DEF UnitMade
  <2>. QED
    BY <1>1, <2>1
<1>6. AreLinked(linked, libs, 1, used, off)
  BY <1>5 DEF IsImage
<1>7. at[0] = 0
  BY <1>6 DEF AreLinked
<1> HIDE DEF linked, libs, used, off, at, written, lines, flags
<1>8. ASSUME NEW p \in DOMAIN UnitOwn(u)
      PROVE  /\ p \in Nat /\ used + at[1 - 1] + p = p + off
             /\ p + off \in DOMAIN linked /\ linked[p + off] = Relocated(built[u], off)[p]
  <2>1. p \in Nat
    BY <1>2, <1>8 DEF IsCode
  <2>2. /\ used + at[1 - 1] + p \in DOMAIN linked
        /\ linked[used + at[1 - 1] + p] = Relocated(libs[1], off)[p]
    <3>1. 1 \in 1..1 /\ p \in DOMAIN libs[1].code
      BY <1>3, <1>8
    <3>. QED
      BY <1>6, <3>1 DEF AreLinked, at
  <2>3. used + at[1 - 1] + p = p + off
    <3>1. 1 - 1 = 0
      OBVIOUS
    <3>. QED
      BY <1>4, <1>7, <2>1, <3>1
  <2>. QED
    BY <1>1, <2>1, <2>2, <2>3
<1>9. ASSUME NEW p \in DOMAIN UnitOwn(u)
      PROVE  p + off \in DOMAIN image.code /\ image.code[p + off] = Relocated(built[u], off)[p]
  <2>1. p + off \in DOMAIN linked /\ linked[p + off] = Relocated(built[u], off)[p]
    BY <1>8, <1>9
  <2>2. p + off \in DOMAIN written.code /\ written.code[p + off] = linked[p + off]
    BY <1>5, <2>1 DEF IsImage, linked
  <2>. QED
    BY <1>2, <2>1, <2>2
<1>10. ASSUME NEW o \in DOMAIN image.code
       PROVE  o \in DOMAIN UnitOwn(0) \/ \E p \in DOMAIN UnitOwn(u) : o = p + off
  <2>1. o \in DOMAIN UnitOwn(0) \/ o \in DOMAIN linked
    BY <1>2, <1>5, <1>10 DEF IsImage, linked, UnitOwn, lines, libs, flags
  <2>2. ASSUME o \in DOMAIN linked
        PROVE  \E p \in DOMAIN UnitOwn(u) : o = p + off
    <3>1. PICK l \in 1..1 : \E p \in DOMAIN libs[l].code : o = used + at[l - 1] + p
      BY <1>6, <2>2 DEF AreLinked, at
    <3>2. l = 1
      BY <3>1
    <3>3. PICK p \in DOMAIN libs[1].code : o = used + at[1 - 1] + p
      BY <3>1, <3>2
    <3>4. p \in DOMAIN UnitOwn(u)
      BY <1>3, <3>3
    <3>5. used + at[1 - 1] + p = p + off
      BY <1>8, <3>4
    <3>. QED
      BY <3>3, <3>4, <3>5
  <2>. QED
    BY <2>1, <2>2
<1>11. off = Base(u) /\ used = Base(u) /\ off \in Nat /\ used = Used(File(0), UnitFlags(0))
  BY <1>4 DEF used, lines, flags
<1>. QED
  BY <1>8, <1>9, <1>10, <1>11

LEMMA ImageParts ==
  ASSUME Assembled, DistinctNames, OneLibrary, NEW o \in DOMAIN image.code
  PROVE  \E u \in Members : \E p \in DOMAIN UnitOwn(u) : o = p + Base(u)
<1> DEFINE lines == File(0) flags == UnitFlags(0) libs == UnitLibs(0) written == UnitResult(0).image
           m == Len(UnitLinks(0)) linked == LibraryCode(lines, libs, flags)
<1>1. 0 \in Members /\ Reached \subseteq Members
  BY DEF Members
<1>2. /\ UnitMade(0) /\ image = written
      /\ m \in Nat /\ DOMAIN UnitLinks(0) = 1..m /\ m <= 1
  <2>1. m <= 1
    BY DEF UnitLinks, OneLibrary
  <2>. QED
    BY <1>1, <2>1, MembersMade, MembersBuilt
<1>3. CASE o \in DOMAIN UnitOwn(0)
  BY <1>1, <1>3, OwnInImage
<1>4. CASE o \notin DOMAIN UnitOwn(0)
  <2>1. IsImage(written, 0, lines, libs, m, flags)
    BY <1>2 DEF UnitMade
  <2>2. PICK n : n = m
    OBVIOUS
  <2>3. n \in Nat /\ n <= 1 /\ IsImage(written, 0, lines, libs, n, flags)
    BY <1>2, <2>1, <2>2
  <2>4. o \in DOMAIN linked
    <3> HIDE DEF linked, written
    <3>. QED
      BY <1>2, <1>4, <2>3 DEF IsImage, linked, UnitOwn
  <2>5. n = 1
    <3> HIDE DEF linked, written
    <3>1. AreLinked(linked, libs, n, Used(lines, flags), LocalSize(lines, flags))
      BY <2>3 DEF IsImage, linked
    <3>2. n # 0
      BY <2>4, <3>1 DEF AreLinked
    <3>. QED
      BY <2>3, <3>2
  <2>6. UnitLinks(0)[1] \in ToSet(UnitLinks(0))
    <3>1. 1 \in DOMAIN UnitLinks(0)
      BY <1>2, <2>2, <2>5
    <3>. QED
      BY <3>1 DEF ToSet
  <2>7. PICK u \in Reached : TRUE
    <3>1. BuildInv
      BY DEF Assembled
    <3>. QED
      BY <1>1, <2>6, <3>1, ReachedUnits
  <2>8. \E p \in DOMAIN UnitOwn(u) : o = p + Base(u)
    BY <1>4, LibraryInImage
  <2>. QED
    BY <1>1, <2>7, <2>8
<1>. QED
  BY <1>3, <1>4

\* An instruction of a file is in the executable.
LEMMA InImage ==
  ASSUME Assembled, DistinctNames, OneLibrary, NEW u \in Members, NEW k \in 1..UnitCount(u),
         NEW j \in DOMAIN UnitCode(u, k)
  PROVE  LET o == UnitPlace(u, k, j) + Base(u)
         IN o \in DOMAIN image.code /\ Alike(image.code[o], UnitCode(u, k)[j])
<1>1. PICK p : p = UnitPlace(u, k, j)
  OBVIOUS
<1>2. p \in DOMAIN UnitOwn(u) /\ Alike(UnitOwn(u)[p], UnitCode(u, k)[j]) /\ UnitMade(u)
  BY <1>1, OwnPlaces
<1>3. CASE u = 0
  <2>1. p + Base(0) = p /\ p \in DOMAIN image.code /\ image.code[p] = UnitOwn(0)[p]
    BY <1>2, <1>3, OwnInImage
  <2>. QED
    BY <1>1, <1>2, <1>3, <2>1
<1>4. CASE u # 0
  <2>1. u \in Reached
    BY <1>4 DEF Members
  <2>2. p + Base(u) \in DOMAIN image.code /\ Alike(image.code[p + Base(u)], UnitOwn(u)[p])
    <3>1. p \in DOMAIN UnitResult(u).image.code /\ UnitResult(u).image.code[p] = UnitOwn(u)[p]
      BY <1>2, OwnPlaces
    <3>2. LET code == UnitResult(0).image.code o == p + LocalSize(File(0), UnitFlags(0))
          IN o \in DOMAIN code /\ Alike(code[o], UnitResult(u).image.code[p])
      BY <2>1, <3>1, LinkedStartsAt
    <3>3. image = UnitResult(0).image /\ Base(u) = LocalSize(File(0), UnitFlags(0))
      BY <1>4, MembersBuilt DEF Members, Base
    <3>. QED
      BY <3>1, <3>2, <3>3
  <2>. QED
    BY <1>1, <1>2, <2>2, AlikeThrough
<1>. QED
  BY <1>3, <1>4

\* The fields of a library that are moved.
LEMMA MovedFields ==
  ASSUME Assembled, DistinctNames, OneLibrary, NEW u \in Reached, NEW p \in DOMAIN UnitOwn(u),
         NEW c, Alike(UnitOwn(u)[p], c), NEW i, RecordedByType(c, i), c.types[i] = "relative"
  PROVE  image.code[p + Base(u)].args[i] = UnitOwn(u)[p].args[i] + Base(u)
<1> DEFINE lines == File(u) flags == UnitFlags(u) libs == UnitLibs(u) own == UnitOwn(u) lib == built[u]
           buffer == BufferOf(u, lines, flags)
<1>1. /\ u # 0 /\ u \in Members /\ DOMAIN lib.code = DOMAIN own
      /\ \A q \in DOMAIN own : lib.code[q] = own[q]
      /\ lib.jumps = RecordedJumps(SectionOf(u, lines, flags))
  BY LibraryOwn
<1>2. UnitMade(u)
  BY <1>1, MembersMade
<1>3. IsCode(lib.code)
  BY <1>1, ReachedGood DEF GoodUnit, Good
<1>4. IsSection(u, lines, flags) /\ IsBuffer(u, lines, flags) /\ IsOwn(u, lines, libs, flags)
  <2>1. IsImage(UnitResult(u).image, u, lines, libs, Len(UnitLinks(u)), flags)
    BY <1>2 DEF UnitMade
  <2>2. IsOwn(u, lines, libs, flags)
    <3>1. \A w, m : IsImage(w, u, lines, libs, m, flags) => IsOwn(u, lines, libs, flags)
      BY DEF IsImage
    <3>. QED
      BY <2>1, <3>1
  <2>. QED
    BY <1>2, <2>2 DEF UnitMade
<1>5. Retargeted(own, buffer) /\ IsCode(own) /\ Fits(own, Used(lines, flags))
  BY <1>4 DEF IsOwn, UnitOwn
<1>6. PICK J : J = lib.jumps
  OBVIOUS
<1>7. RecordedAt(J, buffer, FALSE)
  <2>1. RecordedAt(RecordedJumps(SectionOf(u, lines, flags)), buffer, FALSE)
    BY <1>4, SectionPositions
  <2>. QED
    BY <1>1, <1>6, <2>1, Zenon
<1>8. FieldsAt(own[p], p, J) = Recorded(own[p], FALSE)
  <2> HIDE DEF own, buffer
  <2>1. RecordedAt(J, own, FALSE)
    BY <1>5, <1>7, RecordedStays, Zenon
  <2>2. p \in DOMAIN own
    BY DEF own
  <2>. QED
    BY <1>5, <2>1, <2>2, FieldsRecorded, Zenon
<1>9. Recorded(own[p], FALSE) = Recorded(c, FALSE) /\ own[p].op = c.op
  BY AlikeRecorded DEF Alike
<1>10. i \in Fields(own[p].op) /\ i \in FieldsAt(own[p], p, J)
  <2>1. i \in Recorded(c, FALSE)
    BY DEF RecordedByType
  <2>2. i \in Fields(c.op)
    BY DEF RecordedByType
  <2>. QED
    BY <1>8, <1>9, <2>1, <2>2, Zenon
<1> HIDE DEF own, buffer, lib
<1>11. PICK off : off = Base(u)
  OBVIOUS
<1>12. p \in DOMAIN own
  BY DEF own
<1>13. Relocated(lib, off)[p].args[i] = own[p].args[i] + off
  <2>1. Relocated(lib, off)[p].args[i]
          = IF i \in FieldsAt(lib.code[p], p, lib.jumps) THEN lib.code[p].args[i] + off ELSE lib.code[p].args[i]
    <3>1. p \in DOMAIN lib.code /\ i \in Fields(lib.code[p].op)
      BY <1>1, <1>10, <1>12
    <3>. QED
      BY <1>3, <3>1, RelocatedCode
  <2>2. lib.code[p] = own[p]
    BY <1>1, <1>12
  <2>. QED
    BY <1>6, <1>10, <2>1, <2>2
<1>14. image.code[p + off] = Relocated(lib, off)[p]
  BY <1>11, <1>12, LibraryInImage DEF own, lib
<1>. QED
  BY <1>11, <1>13, <1>14 DEF own

\* Where the targets of an instruction lead.
LEMMA ImageTargets ==
  ASSUME Assembled, DistinctNames, OneLibrary, NEW u \in Members, NEW k \in 1..UnitCount(u),
         NEW j \in DOMAIN UnitCode(u, k), NEW i, Jumps1(UnitCode(u, k)[j], i)
  PROVE  LET c == UnitCode(u, k)[j]
             new == image.code[UnitPlace(u, k, j) + Base(u)]
         IN /\ c.types[i] = "relative" /\ c.args[i] \in Nat =>
                 /\ c.args[i] + 1 \in DOMAIN UnitCode(u, k)
                 /\ new.args[i] = UnitPlace(u, k, c.args[i] + 1) + Base(u)
            /\ c.types[i] = "absolute" /\ u = 0 =>
                 new.args[i] = 0 + BytecodeOffset(BufferOf(0, File(0), UnitFlags(0)),
                                                  BytesOf(File(0), UnitLibs(0), UnitFlags(0)), c.args[i])
<1> DEFINE lines == File(u) flags == UnitFlags(u) libs == UnitLibs(u) own == UnitOwn(u)
           buffer == BufferOf(u, lines, flags) bytes == BytesOf(lines, libs, flags)
<1>1. PICK p : p = UnitPlace(u, k, j)
  OBVIOUS
<1>2. PICK c : c = UnitCode(u, k)[j]
  OBVIOUS
<1>3. p \in DOMAIN own /\ Alike(own[p], c) /\ UnitMade(u)
  BY <1>1, <1>2, OwnPlaces
<1>4. /\ c.types[i] = "relative" /\ c.args[i] \in Nat =>
           c.args[i] + 1 \in DOMAIN UnitCode(u, k) /\ own[p].args[i] = UnitPlace(u, k, c.args[i] + 1)
      /\ c.types[i] = "absolute" => own[p].args[i] = 0 + BytecodeOffset(buffer, bytes, c.args[i])
  <2>1. IsSection(u, lines, flags) /\ IsBuffer(u, lines, flags) /\ Succeeded(u, lines, libs, flags)
    BY <1>3 DEF UnitMade
  <2>2. k \in 1..Count(lines, flags) /\ j \in DOMAIN BodyCode(u, lines, flags, k)
        /\ Jumps1(BodyCode(u, lines, flags, k)[j], i)
    BY DEF UnitCount, UnitCode
  <2>3. LET d == BodyCode(u, lines, flags, k)[j]
            new == OwnCode(u, lines, libs, flags)[PlaceOf(u, lines, flags, k, j)]
        IN /\ d.types[i] = "relative" /\ d.args[i] \in Nat =>
                /\ d.args[i] + 1 \in DOMAIN BodyCode(u, lines, flags, k)
                /\ new.args[i] = PlaceOf(u, lines, flags, k, d.args[i] + 1)
           /\ d.types[i] = "absolute" =>
                new.args[i] = 0 + BytecodeOffset(buffer, bytes, d.args[i])
    BY <2>1, <2>2, OwnTargets
  <2>. QED
    BY <1>1, <1>2, <2>3 DEF UnitCode, UnitPlace, UnitOwn
<1>5. CASE u = 0
  <2>1. image.code[p + Base(u)] = own[p]
    BY <1>3, <1>5, OwnInImage
  <2>2. ASSUME c.types[i] = "relative", c.args[i] \in Nat
        PROVE  UnitPlace(u, k, c.args[i] + 1) + Base(u) = UnitPlace(u, k, c.args[i] + 1)
    <3>1. c.args[i] + 1 \in DOMAIN UnitCode(u, k)
      BY <1>4, <2>2
    <3>2. UnitPlace(u, k, c.args[i] + 1) \in DOMAIN own
      BY <3>1, OwnPlaces
    <3>. QED
      BY <1>5, <3>2, OwnInImage
  <2>. QED
    BY <1>1, <1>2, <1>4, <1>5, <2>1, <2>2
<1>6. CASE u # 0
  <2>1. u \in Reached
    BY <1>6 DEF Members
  <2>2. ASSUME c.types[i] = "relative", c.args[i] \in Nat
        PROVE  image.code[p + Base(u)].args[i] = UnitPlace(u, k, c.args[i] + 1) + Base(u)
    <3>1. RecordedByType(c, i)
      BY <1>2, RecordedFields DEF Jumps1
    <3>2. image.code[p + Base(u)].args[i] = own[p].args[i] + Base(u)
      BY <1>3, <2>1, <2>2, <3>1, MovedFields
    <3>. QED
      BY <1>4, <2>2, <3>2
  <2>. QED
    BY <1>1, <1>2, <1>4, <1>6, <2>2
<1>. QED
  BY <1>5, <1>6

-----------------------------------------------------------------------------
(***************************************************************************)
(* Absolute jumps: the n-th instruction of the program.                    *)
(***************************************************************************)
LEMMA PriorGrows ==
  ASSUME NEW code, DOMAIN code \subseteq Nat, NEW o \in DOMAIN code, NEW p \in DOMAIN code, o < p
  PROVE  Prior(code, o) \in Nat /\ Prior(code, p) \in Nat /\ Prior(code, o) < Prior(code, p)
<1> DEFINE A == {q \in DOMAIN code : q < o} B == {q \in DOMAIN code : q < p}
<1>1. IsFiniteSet(B)
  <2>1. B \subseteq 0..p
    OBVIOUS
  <2>2. IsFiniteSet(0..p)
    BY FS_Interval
  <2>. QED
    BY <2>1, <2>2, FS_Subset
<1>2. A \subseteq B /\ o \in B /\ o \notin A
  OBVIOUS
<1>3. IsFiniteSet(A)
  BY <1>1, <1>2, FS_Subset
<1>4. A \cup {o} \subseteq B
  BY <1>2
<1> HIDE DEF A, B
<1>5. Cardinality(A) \in Nat /\ Cardinality(B) \in Nat
  BY <1>1, <1>3, FS_CardinalityType
<1>6. IsFiniteSet(A \cup {o}) /\ Cardinality(A \cup {o}) = Cardinality(A) + 1
  BY <1>2, <1>3, FS_AddElement
<1>7. Cardinality(A \cup {o}) \in Nat
  BY <1>6, FS_CardinalityType
<1>8. Cardinality(A \cup {o}) <= Cardinality(B)
  BY <1>1, <1>4, FS_Subset
<1>9. Cardinality(A) < Cardinality(B)
  BY <1>5, <1>6, <1>7, <1>8
<1>. QED
  BY <1>5, <1>9 DEF Prior, A, B

\* The instructions of the program itself are the first ones.
LEMMA OwnFirst ==
  ASSUME Assembled, DistinctNames, OneLibrary
  PROVE  LET own == UnitOwn(0) used == Used(File(0), UnitFlags(0))
         IN /\ DOMAIN own \subseteq DOMAIN image.code /\ DOMAIN image.code \subseteq Nat /\ used \in Nat
            /\ \A o \in DOMAIN own : o < used
            /\ \A o \in DOMAIN image.code : o \in DOMAIN own \/ o >= used
            /\ {o \in DOMAIN image.code : image.code[o].source[1] = 0} = DOMAIN own
<1> DEFINE lines == File(0) flags == UnitFlags(0) libs == UnitLibs(0) written == UnitResult(0).image
           own == UnitOwn(0) used == Used(lines, flags) m == Len(UnitLinks(0)) linked == LibraryCode(lines, libs, flags)
<1>1. 0 \in Members
  BY DEF Members
<1>2. UnitMade(0) /\ image = written
  BY <1>1, MembersMade, MembersBuilt
<1>3. IsImage(written, 0, lines, libs, m, flags) /\ used \in Nat /\ IsCode(written.code)
  <2>1. IsImage(written, 0, lines, libs, m, flags)
    BY <1>2 DEF UnitMade
  <2>2. used \in Nat /\ IsCode(written.code)
    BY <1>1, <1>2, UnitFits
  <2>. QED
    BY <2>1, <2>2
<1>4. /\ DOMAIN own \subseteq DOMAIN written.code /\ \A o \in DOMAIN own : o < used
      /\ \A o \in DOMAIN written.code : o \in DOMAIN own \/ o >= used
  <2> HIDE DEF written, m, linked
  <2>. QED
    BY <1>3 DEF IsImage, UnitOwn
<1>5. DOMAIN written.code \subseteq Nat
  BY <1>3 DEF IsCode
<1>6. ASSUME NEW o \in DOMAIN own
      PROVE  image.code[o].source[1] = 0
  <2>1. PICK k \in 1..UnitCount(0) : \E j \in DOMAIN UnitCode(0, k) : o = UnitPlace(0, k, j)
    BY <1>1, OwnPlaces
  <2>2. PICK j \in DOMAIN UnitCode(0, k) : o = UnitPlace(0, k, j)
    BY <2>1
  <2>3. Alike(own[o], UnitCode(0, k)[j])
    BY <1>1, <2>2, OwnPlaces
  <2>4. image.code[o] = own[o]
    BY OwnInImage
  <2>5. UnitCode(0, k)[j].source = <<0, UnitBody(0, k).name, j>>
    BY <1>1, <1>2, UnitCoded
  <2>6. image.code[o].source = <<0, UnitBody(0, k).name, j>>
    BY <2>3, <2>4, <2>5 DEF Alike
  <2>. QED
    BY <2>6
<1>7. ASSUME NEW o \in DOMAIN image.code, image.code[o].source[1] = 0
      PROVE  o \in DOMAIN own
  <2>1. PICK u \in Members : \E p \in DOMAIN UnitOwn(u) : o = p + Base(u)
    BY <1>7, ImageParts
  <2>2. PICK p \in DOMAIN UnitOwn(u) : o = p + Base(u)
    BY <2>1
  <2>3. PICK k \in 1..UnitCount(u) : \E j \in DOMAIN UnitCode(u, k) : p = UnitPlace(u, k, j)
    BY <2>2, OwnPlaces
  <2>4. PICK j \in DOMAIN UnitCode(u, k) : p = UnitPlace(u, k, j)
    BY <2>3
  <2>5. Alike(image.code[o], UnitCode(u, k)[j])
    BY <2>2, <2>4, InImage
  <2>6. UnitCode(u, k)[j].source = <<u, UnitBody(u, k).name, j>>
    BY OwnPlaces, UnitCoded
  <2>7. image.code[o].source = <<u, UnitBody(u, k).name, j>>
    BY <2>5, <2>6 DEF Alike
  <2>8. u = 0
    BY <1>7, <2>7
  <2>. QED
    BY <2>2, <2>8, OwnInImage
<1> HIDE DEF own, used
<1>8. {o \in DOMAIN image.code : image.code[o].source[1] = 0} = DOMAIN own
  BY <1>2, <1>4, <1>6, <1>7
<1>. QED
  BY <1>2, <1>3, <1>4, <1>5, <1>8 DEF own, used

\* The walk over the program finds them.
LEMMA AbsoluteFinds ==
  ASSUME Assembled, DistinctNames, OneLibrary, NEW n \in Nat,
         n < Cardinality({o \in DOMAIN image.code : image.code[o].source[1] = 0})
  PROVE  0 + BytecodeOffset(BufferOf(0, File(0), UnitFlags(0)), BytesOf(File(0), UnitLibs(0), UnitFlags(0)), n)
           = CHOOSE o \in DOMAIN image.code : Cardinality({p \in DOMAIN image.code : p < o}) = n
<1> DEFINE lines == File(0) flags == UnitFlags(0) libs == UnitLibs(0) written == UnitResult(0).image
           own == UnitOwn(0) used == Used(lines, flags) m == Len(UnitLinks(0)) linked == LibraryCode(lines, libs, flags)
           buffer == BufferOf(0, lines, flags) bytes == BytesOf(lines, libs, flags)
           a == BytecodeOffset(buffer, bytes, n) code == image.code
<1>1. 0 \in Members
  BY DEF Members
<1>2. UnitMade(0) /\ used \in Nat /\ used = LocalSize(lines, flags)
  BY <1>1, MembersMade, UnitFits
<1>3. Contiguous(buffer, used) /\ Walkable(buffer)
  BY <1>2, BufferContiguous DEF UnitMade
<1>4. /\ DOMAIN own \subseteq DOMAIN code /\ DOMAIN code \subseteq Nat
      /\ \A o \in DOMAIN own : o < used
      /\ \A o \in DOMAIN code : o \in DOMAIN own \/ o >= used
      /\ {o \in DOMAIN code : code[o].source[1] = 0} = DOMAIN own
  BY OwnFirst
<1>5. IsImage(written, 0, lines, libs, m, flags)
  BY <1>2 DEF UnitMade
<1>6. DOMAIN own = DOMAIN buffer
  <2>1. IsOwn(0, lines, libs, flags)
    <3>1. \A w, q : IsImage(w, 0, lines, libs, q, flags) => IsOwn(0, lines, libs, flags)
      BY DEF IsImage
    <3>. QED
      BY <1>5, <3>1
  <2> HIDE DEF buffer
  <2>. QED
    BY <2>1 DEF IsOwn, UnitOwn, Retargeted, buffer
<1>7. bytes \in Nat /\ used <= bytes
  <2>1. AreLinked(linked, libs, m, used, LocalSize(lines, flags))
    <3> HIDE DEF written
    <3>. QED
      BY <1>5 DEF IsImage
  <2>2. Total(LibrarySizes(libs)) \in Nat
    BY <2>1 DEF AreLinked
  <2>3. bytes = used + Total(LibrarySizes(libs))
    BY <1>2 DEF BytesOf, LibrarySizes
  <2> HIDE DEF bytes, used
  <2>. QED
    BY <1>2, <2>2, <2>3
<1> HIDE DEF buffer, bytes, used, own, code
<1>8. n < Cardinality(DOMAIN buffer) /\ DOMAIN buffer # {}
  <2>1. n < Cardinality(DOMAIN buffer)
    BY <1>4, <1>6 DEF code
  <2>2. PICK D : D = DOMAIN buffer
    OBVIOUS
  <2>3. ASSUME D = {}
        PROVE  FALSE
    <3>1. Cardinality(D) = 0
      BY <2>3, FS_EmptySet
    <3>2. n < 0
      BY <2>1, <2>2, <3>1
    <3>. QED
      BY <3>2
  <2>. QED
    BY <2>1, <2>2, <2>3
<1>9. a \in DOMAIN buffer /\ Prior(buffer, a) = n
  BY <1>3, <1>7, <1>8, WalkFinds
<1> HIDE DEF a
<1>10. ASSUME NEW o \in DOMAIN own
       PROVE  Prior(code, o) = Prior(buffer, o)
  <2>1. {p \in DOMAIN code : p < o} = {p \in DOMAIN buffer : p < o}
    <3>1. o < used /\ o \in Nat
      BY <1>4, <1>10
    <3>2. ASSUME NEW p \in DOMAIN code, p < o
          PROVE  p \in DOMAIN own
      BY <1>2, <1>4, <3>1, <3>2
    <3>. QED
      BY <1>4, <1>6, <3>2
  <2>. QED
    BY <2>1 DEF Prior
<1>11. a \in DOMAIN code /\ Prior(code, a) = n
  BY <1>4, <1>6, <1>9, <1>10
<1>12. ASSUME NEW o \in DOMAIN code, Prior(code, o) = n
       PROVE  o = a
  <2>1. o \in Nat /\ a \in Nat
    BY <1>4, <1>11, <1>12
  <2>2. ~(o < a)
    BY <1>4, <1>11, <1>12, PriorGrows
  <2>3. ~(a < o)
    BY <1>4, <1>11, <1>12, PriorGrows
  <2>. QED
    BY <2>1, <2>2, <2>3
<1>13. a = CHOOSE o \in DOMAIN code : Prior(code, o) = n
  BY <1>11, <1>12
<1>14. 0 + a = a
  BY <1>4, <1>11
<1>15. a = CHOOSE o \in DOMAIN code : Cardinality({p \in DOMAIN code : p < o}) = n
  BY <1>13 DEF Prior
<1>. QED
  BY <1>14, <1>15 DEF a, code, buffer, bytes

-----------------------------------------------------------------------------
(***************************************************************************)
(* The addresses of a jump or branch are its last operands.                *)
(***************************************************************************)
\* The operands are a sequence.
Operands1(c) == c.args = [i \in Fields(c.op) |-> c.args[i]]

LEMMA CalculatedOperands ==
  ASSUME NEW code, IsCode(code), NEW size, NEW positions, NEW offset, NEW o \in DOMAIN code
  PROVE  Operands1(CalculateJumps(code, size, positions, offset)[o])
<1> DEFINE new == CalculateJumps(code, size, positions, offset)
           c == code[o]
           args == [i \in DOMAIN c.args |->
                        IF i \in FieldsAt(c, o, positions)
                        THEN offset + BytecodeOffset(code, size, c.args[i]) ELSE c.args[i]]
<1>1. new[o] = [c EXCEPT !.args = args]
  BY DEF CalculateJumps, Stored
<1>2. IsInstr(c)
  BY DEF IsCode
<1>3. args = [i \in DOMAIN c.args |-> args[i]]
  OBVIOUS
<1> HIDE DEF args, c, new
<1>4. new[o] = [op |-> c.op, args |-> args, types |-> c.types, source |-> c.source]
  BY <1>1, <1>2 DEF IsInstr
<1>5. new[o].args = args /\ new[o].op = c.op /\ DOMAIN c.args = Fields(c.op)
  BY <1>2, <1>4 DEF IsInstr
<1>6. Operands1(new[o])
  BY <1>3, <1>5 DEF Operands1
<1>. QED
  BY <1>6 DEF new

LEMMA RelocatedOperands ==
  ASSUME NEW lib, IsCode(lib.code), NEW offset, NEW o \in DOMAIN lib.code
  PROVE  Operands1(Relocated(lib, offset)[o])
<1> DEFINE new == Relocated(lib, offset)
           c == lib.code[o]
           args == [i \in DOMAIN c.args |->
                        IF i \in FieldsAt(c, o, lib.jumps) THEN c.args[i] + offset ELSE c.args[i]]
<1>1. new[o] = [c EXCEPT !.args = args]
  BY DEF Relocated, Stored
<1>2. IsInstr(c)
  BY DEF IsCode
<1>3. args = [i \in DOMAIN c.args |-> args[i]]
  OBVIOUS
<1> HIDE DEF args, c, new
<1>4. new[o] = [op |-> c.op, args |-> args, types |-> c.types, source |-> c.source]
  BY <1>1, <1>2 DEF IsInstr
<1>5. new[o].args = args /\ new[o].op = c.op /\ DOMAIN c.args = Fields(c.op)
  BY <1>2, <1>4 DEF IsInstr
<1>6. Operands1(new[o])
  BY <1>3, <1>5 DEF Operands1
<1>. QED
  BY <1>6 DEF new

LEMMA ImageOperands ==
  ASSUME Assembled, DistinctNames, OneLibrary, NEW o \in DOMAIN image.code
  PROVE  Operands1(image.code[o])
<1>1. PICK u \in Members : \E p \in DOMAIN UnitOwn(u) : o = p + Base(u)
  BY ImageParts
<1>2. PICK p \in DOMAIN UnitOwn(u) : o = p + Base(u)
  BY <1>1
<1>3. CASE u = 0
  <2> DEFINE lines == File(0) flags == UnitFlags(0) libs == UnitLibs(0)
             buffer == BufferOf(0, lines, flags) own == UnitOwn(0)
  <2>1. image.code[o] = own[p] /\ UnitMade(0)
    BY <1>2, <1>3, OwnInImage, OwnPlaces
  <2>2. IsCode(buffer)
    BY <2>1 DEF UnitMade, IsBuffer
  <2>3. PICK b, s : b = BytesOf(lines, libs, flags) /\ s = AbsolutePositions(SectionOf(0, lines, flags))
    OBVIOUS
  <2>4. own = CalculateJumps(buffer, b, s, 0)
    BY <2>3 DEF UnitOwn, OwnCode
  <2>5. p \in DOMAIN buffer
    <3>1. Rewritten(CalculateJumps(buffer, b, s, 0), buffer)
      BY <2>2, CalculatedCode
    <3>2. p \in DOMAIN own
      BY <1>2, <1>3
    <3> HIDE DEF buffer, own
    <3>. QED
      BY <2>4, <3>1, <3>2 DEF Rewritten
  <2> HIDE DEF buffer, own
  <2>. QED
    BY <2>1, <2>2, <2>4, <2>5, CalculatedOperands
<1>4. CASE u # 0
  <2>1. u \in Reached
    BY <1>4 DEF Members
  <2>2. image.code[o] = Relocated(built[u], Base(u))[p]
    BY <1>2, <2>1, LibraryInImage
  <2>3. IsCode(built[u].code) /\ p \in DOMAIN built[u].code
    BY <1>2, <2>1, LibraryOwn, ReachedGood DEF GoodUnit, Good
  <2>. QED
    BY <2>2, <2>3, RelocatedOperands
<1>. QED
  BY <1>3, <1>4

\* The last n operands.
LastOf(args, n) == SubSeq(args, Len(args) - n + 1, Len(args))

LEMMA AddressesOf ==
  ASSUME NEW c, Operands1(c)
  PROVE  /\ c.op = "jump" => LastOf(c.args, 1)[1] = c.args[1]
         /\ c.op = "branch" => LastOf(c.args, 2)[1] = c.args[2] /\ LastOf(c.args, 2)[2] = c.args[3]
<1> DEFINE a == c.args
<1>1. CASE c.op = "jump"
  <2>1. a = [i \in 1..1 |-> a[i]]
    <3>1. Fields("jump") = 1..1
      BY TargetFields
    <3>. QED
      BY <1>1, <3>1 DEF Operands1
  <2> HIDE DEF a
  <2>2. Len(a) = 1
    BY <2>1
  <2>3. SubSeq(a, 1, 1) = [k \in 1..1 |-> a[k + 1 - 1]]
    OBVIOUS
  <2>4. LastOf(a, 1) = SubSeq(a, 1, 1)
    BY <2>2 DEF LastOf
  <2>5. LastOf(a, 1)[1] = a[1]
    BY <2>3, <2>4
  <2>. QED
    BY <1>1, <2>5 DEF a
<1>2. CASE c.op = "branch"
  <2>1. a = [i \in 1..3 |-> a[i]]
    <3>1. Fields("branch") = 1..3
      BY TargetFields
    <3>. QED
      BY <1>2, <3>1 DEF Operands1
  <2> HIDE DEF a
  <2>2. Len(a) = 3
    BY <2>1
  <2>3. SubSeq(a, 2, 3) = [k \in 1..2 |-> a[k + 2 - 1]]
    OBVIOUS
  <2>4. LastOf(a, 2) = SubSeq(a, 2, 3)
    BY <2>2 DEF LastOf
  <2>5. LastOf(a, 2)[1] = a[2] /\ LastOf(a, 2)[2] = a[3]
    BY <2>3, <2>4
  <2>. QED
    BY <1>2, <2>5 DEF a
<1>. QED
  BY <1>1, <1>2

-----------------------------------------------------------------------------
(***************************************************************************)
(* The targets a line is written with.                                     *)
(***************************************************************************)
\* The target that field i of an instruction is compiled from.
FieldTarget(line, i) == IF line.op = "jump" THEN Listing!TargetsOf(line)[1] ELSE Listing!TargetsOf(line)[i - 1]
\* How a target is resolved, and that it can be.
ResolvesTo(c, i, target, marks, k) ==
  /\ CanResolveJump(target, marks, k)
  /\ c.types[i] = ResolveJump(target, marks, k).type
  /\ c.args[i] = ResolveJump(target, marks, k).addr

LEMMA NextInstruction ==
  ASSUME NEW marks, NEW k \in Nat
  PROVE  /\ ResolveJump(<<"index", k + 1>>, marks, k) = ResolveJump(<<"+", 1>>, marks, k)
         /\ CanResolveJump(<<"+", 1>>, marks, k)
  BY DEF ResolveJump, CanResolveJump

LEMMA CompiledTargets ==
  ASSUME NEW line, line.op \in {"jump", "branch"}, NEW k \in Nat, NEW marks, NEW names,
         CanCompileLine(line, k, marks, names), NEW i \in Targets(line.op)
  PROVE  ResolvesTo(CompileLine(line, k, marks, names), i, FieldTarget(line, i), marks, k)
<1> DEFINE c == CompileLine(line, k, marks, names) operands == Operands(line, k) layout == Layout[line.op]
<1>1. i \in Fields(line.op) /\ layout[i] = "target" /\ DOMAIN layout = Fields(line.op)
  BY DEF Targets, Fields
<1>2. CanResolveJump(operands[i], marks, k)
  BY <1>1 DEF CanCompileLine
<1>3. c.types[i] = ResolveJump(operands[i], marks, k).type /\ c.args[i] = ResolveJump(operands[i], marks, k).addr
  <2> HIDE DEF operands
  <2>1. c.args = [m \in DOMAIN layout |-> CASE layout[m] \in {"operand", "byte"} -> ResolveRegister(operands[m], names)
                                            [] layout[m] = "target" -> ResolveJump(operands[m], marks, k).addr
                                            [] OTHER -> operands[m]]
    BY DEF CompileLine, operands
  <2>2. c.types = [m \in DOMAIN layout |-> IF layout[m] = "target" THEN ResolveJump(operands[m], marks, k).type ELSE "none"]
    BY DEF CompileLine, operands
  <2> HIDE DEF c, layout
  <2>3. i \in DOMAIN layout /\ layout[i] \notin {"operand", "byte"}
    BY <1>1
  <2>. QED
    BY <1>1, <2>1, <2>2, <2>3
<1> HIDE DEF c
<1> SUFFICES ResolvesTo(c, i, FieldTarget(line, i), marks, k)
  BY DEF c
<1>4. CASE line.op = "jump"
  <2>1. operands = line.args /\ i = 1
    BY <1>4, TargetFields DEF Operands, ThreeIntop, CallInstructions
  <2>2. FieldTarget(line, i) = line.args[1]
    BY <1>4 DEF FieldTarget, Listing!TargetsOf
  <2>. QED
    BY <1>2, <1>3, <2>1, <2>2 DEF ResolvesTo
<1>5. CASE line.op = "branch"
  <2>1. operands = BranchOperands(line.args, k) /\ i \in {2, 3}
    BY <1>5, TargetFields DEF Operands, ThreeIntop, CallInstructions
  <2>2. FieldTarget(line, i) = Listing!TargetsOf(line)[i - 1]
    BY <1>5 DEF FieldTarget
  <2>3. CASE Len(line.args) = 2
    <3>1. Listing!TargetsOf(line) = <<line.args[2], <<"+", 1>> >>
      BY <1>5, <2>3 DEF Listing!TargetsOf
    <3>2. operands = Append(line.args, <<"index", k + 1>>)
      BY <2>1, <2>3 DEF BranchOperands
    <3>3. operands[2] = line.args[2] /\ operands[3] = <<"index", k + 1>>
      BY <2>3, <3>2
    <3>4. CASE i = 2
      <4>1. FieldTarget(line, i) = line.args[2]
        BY <2>2, <3>1, <3>4
      <4>. QED
        BY <1>2, <1>3, <3>3, <3>4, <4>1 DEF ResolvesTo
    <3>5. CASE i = 3
      <4>1. FieldTarget(line, i) = <<"+", 1>>
        BY <2>2, <3>1, <3>5
      <4>. QED
        BY <1>3, <3>3, <3>5, <4>1, NextInstruction DEF ResolvesTo
    <3>. QED
      BY <2>1, <3>4, <3>5
  <2>4. CASE Len(line.args) # 2
    <3>1. Listing!TargetsOf(line) = <<line.args[2], line.args[3]>>
      BY <1>5, <2>4 DEF Listing!TargetsOf
    <3>2. operands = line.args
      BY <2>1, <2>4 DEF BranchOperands
    <3>3. FieldTarget(line, i) = line.args[i]
      BY <2>1, <2>2, <3>1
    <3>. QED
      BY <1>2, <1>3, <3>2, <3>3 DEF ResolvesTo
  <2>. QED
    BY <2>3, <2>4
<1>. QED
  BY <1>4, <1>5

\* Targets of a source file are of the kinds the manual has.
LEMMA TargetsWritten ==
  ASSUME NEW lines, IsFile(lines), NEW x \in DOMAIN lines, lines[x].op \in {"jump", "branch"},
         NEW k, NEW marks, NEW names, CanCompileLine(lines[x], k, marks, names), NEW i \in Targets(lines[x].op)
  PROVE  FieldTarget(lines[x], i) \in WrittenTargets
<1> DEFINE line == lines[x] a == line.args
<1>1. /\ IsSequence(a)
      /\ line.op = "jump" => a[1] \in WrittenTargets
      /\ line.op = "branch" => \A m \in DOMAIN a : m > 1 => a[m] \in WrittenTargets
  BY DEF IsFile
<1>2. CASE line.op = "jump"
  <2>1. FieldTarget(line, i) = a[1]
    BY <1>2 DEF FieldTarget, Listing!TargetsOf
  <2>. QED
    BY <1>1, <1>2, <2>1
<1>3. CASE line.op = "branch"
  <2>1. i \in {2, 3} /\ FieldTarget(line, i) = Listing!TargetsOf(line)[i - 1]
    BY <1>3, TargetFields DEF FieldTarget
  <2>2. Len(a) \in Nat /\ DOMAIN a = 1..Len(a)
    BY <1>1, SequenceDomain
  <2>3. CASE Len(a) = 2
    <3>1. Listing!TargetsOf(line) = <<a[2], <<"+", 1>> >>
      BY <1>3, <2>3 DEF Listing!TargetsOf
    <3>2. a[2] \in WrittenTargets /\ <<"+", 1>> \in WrittenTargets
      <4>1. a[2] \in WrittenTargets
        BY <1>1, <1>3, <2>2, <2>3
      <4>2. <<"+", 1>> \in WrittenTargets
        BY DEF WrittenTargets
      <4>. QED
        BY <4>1, <4>2
    <3>3. FieldTarget(line, i) = a[2] \/ FieldTarget(line, i) = <<"+", 1>>
      <4>1. i = 2 => FieldTarget(line, i) = a[2]
        BY <2>1, <3>1
      <4>2. i = 3 => FieldTarget(line, i) = <<"+", 1>>
        BY <2>1, <3>1
      <4>. QED
        BY <2>1, <4>1, <4>2
    <3>. QED
      BY <3>2, <3>3
  <2>4. CASE Len(a) # 2
    <3>1. Listing!TargetsOf(line) = <<a[2], a[3]>>
      BY <1>3, <2>4 DEF Listing!TargetsOf
    <3>2. FieldTarget(line, i) = a[i]
      BY <2>1, <3>1
    <3>3. Len(a) >= 3
      <4>1. Operands(line, k) = a
        BY <1>3, <2>4 DEF Operands, ThreeIntop, CallInstructions, BranchOperands
      <4>2. Len(Operands(line, k)) >= Len(Layout[line.op])
        BY DEF CanCompileLine
      <4>3. Len(Layout["branch"]) = 3
        <5>1. Layout["branch"] = <<"operand", "target", "target">>
          BY Formats DEF Gives, Jumping, Branching
        <5>. QED
          BY <5>1
      <4>. QED
        BY <1>3, <4>1, <4>2, <4>3
    <3>4. i \in DOMAIN a /\ i > 1
      BY <2>1, <2>2, <3>3
    <3>. QED
      BY <1>1, <1>3, <3>2, <3>4
  <2>. QED
    BY <2>3, <2>4
<1>. QED
  BY <1>2, <1>3

\* What a target is resolved to.
LEMMA TargetKinds ==
  ASSUME NEW t \in WrittenTargets, NEW k \in Nat, NEW marks, CanResolveJump(t, marks, k),
         t[1] = "mark" => marks[t[2]] \in Nat
  PROVE  LET r == ResolveJump(t, marks, k)
         IN /\ (r.type = "absolute") <=> (t[1] = ".")
            /\ t[1] = "." => r.addr = t[2] /\ t[2] \in Nat
            /\ t[1] \notin {".", "0x"} => r.type = "relative" /\ r.addr \in Nat
<1> DEFINE r == ResolveJump(t, marks, k)
<1>1. CASE t[1] = "mark"
  <2>1. r = [type |-> "relative", addr |-> marks[t[2]]]
    BY <1>1 DEF ResolveJump
  <2>. QED
    BY <1>1, <2>1
<1>2. CASE t[1] \in {"index", ".", "0x", "+", "-"} /\ t[2] \in Nat
  <2>1. CASE t[1] = "index"
    <3>1. r = [type |-> "relative", addr |-> t[2]]
      BY <2>1 DEF ResolveJump
    <3>. QED
      BY <1>2, <2>1, <3>1
  <2>2. CASE t[1] = "."
    <3>1. r = [type |-> "absolute", addr |-> t[2]]
      BY <2>2 DEF ResolveJump
    <3>. QED
      BY <1>2, <2>2, <3>1
  <2>3. CASE t[1] = "0x"
    <3>1. r = [type |-> "byte", addr |-> t[2]]
      BY <2>3 DEF ResolveJump
    <3>. QED
      BY <1>2, <2>3, <3>1
  <2>4. CASE t[1] = "+"
    <3>1. r = [type |-> "relative", addr |-> k + t[2]]
      BY <2>4 DEF ResolveJump
    <3>. QED
      BY <1>2, <2>4, <3>1
  <2>5. CASE t[1] = "-"
    <3>1. r = [type |-> "relative", addr |-> k - t[2]]
      BY <2>5 DEF ResolveJump
    <3>2. k - t[2] >= 0
      BY <2>5 DEF CanResolveJump
    <3>. QED
      BY <1>2, <2>5, <3>1, <3>2
  <2>. QED
    BY <1>2, <2>1, <2>2, <2>3, <2>4, <2>5
<1>3. t[1] = "mark" \/ (t[1] \in {"index", ".", "0x", "+", "-"} /\ t[2] \in Nat)
  BY DEF WrittenTargets
<1>. QED
  BY <1>1, <1>2, <1>3

\* The instruction it is resolved to is the one that is meant.
LEMMA TargetMeant ==
  ASSUME NEW t \in WrittenTargets, t[1] \notin {".", "0x"}, NEW k \in Nat, NEW marks, NEW body,
         t[1] = "mark" => marks[t[2]] + 1 = Listing!MarkedBy(body, t[2])
  PROVE  ResolveJump(t, marks, k).addr + 1 = Listing!TargetIn(body, k + 1, t)
<1> DEFINE r == ResolveJump(t, marks, k)
<1>1. CASE t[1] = "mark"
  <2>1. r = [type |-> "relative", addr |-> marks[t[2]]]
    BY <1>1 DEF ResolveJump
  <2>2. Listing!TargetIn(body, k + 1, t) = Listing!MarkedBy(body, t[2])
    BY <1>1 DEF Listing!TargetIn
  <2>. QED
    BY <1>1, <2>1, <2>2
<1>2. CASE t[1] \in {"index", "+", "-"} /\ t[2] \in Nat
  <2>1. CASE t[1] = "index"
    <3>1. r = [type |-> "relative", addr |-> t[2]] /\ Listing!TargetIn(body, k + 1, t) = t[2] + 1
      BY <2>1 DEF ResolveJump, Listing!TargetIn
    <3>. QED
      BY <1>2, <2>1, <3>1
  <2>4. CASE t[1] = "+"
    <3>1. r = [type |-> "relative", addr |-> k + t[2]] /\ Listing!TargetIn(body, k + 1, t) = (k + 1) + t[2]
      BY <2>4 DEF ResolveJump, Listing!TargetIn
    <3>2. (k + t[2]) + 1 = (k + 1) + t[2]
      BY <1>2
    <3>. QED
      BY <3>1, <3>2
  <2>5. CASE t[1] = "-"
    <3>1. r = [type |-> "relative", addr |-> k - t[2]] /\ Listing!TargetIn(body, k + 1, t) = (k + 1) - t[2]
      BY <2>5 DEF ResolveJump, Listing!TargetIn
    <3>2. (k - t[2]) + 1 = (k + 1) - t[2]
      BY <1>2
    <3>. QED
      BY <3>1, <3>2
  <2>. QED
    BY <1>2, <2>1, <2>4, <2>5
<1>3. t[1] = "mark" \/ (t[1] \in {"index", "+", "-"} /\ t[2] \in Nat)
  BY DEF WrittenTargets
<1>. QED
  BY <1>1, <1>2, <1>3

-----------------------------------------------------------------------------
(***************************************************************************)
(* Marks: the assembler counts lines that count, the manual means          *)
(* instructions.                                                           *)
(***************************************************************************)
Marking(lines, m) ==
  {i \in DOMAIN lines : lines[i].op = ".mark:" /\ lines[i].args[1] = m /\ ~Within(lines, i, ".function:")}
Counting(lines) ==
  {i \in DOMAIN lines : lines[i].op \notin {".name:", ".link:", ".mark:"} /\ ~Within(lines, i, ".function:")}
\* A body that the marks of are plain.
Plain(body) ==
  /\ \A i \in DOMAIN body : body[i].op \in {".name:", ".mark:"} \/ ~IsDirective(body[i])
  /\ \A i, j \in DOMAIN body : body[i].op = ".mark:" /\ body[j].op = ".mark:" /\ body[i].args[1] = body[j].args[1]
                                  => i = j

LEMMA MarkCounted ==
  ASSUME NEW n \in Nat, NEW lines, DOMAIN lines = 1..n, NEW m \in DOMAIN Marks(lines)
  PROVE  /\ Marking(lines, m) # {} /\ Max(Marking(lines, m)) \in Marking(lines, m)
         /\ Marks(lines)[m] = Upto(Counting(lines), Max(Marking(lines, m)))
<1> DEFINE S == Marking(lines, m) x == Max(S)
<1>1. S # {} /\ Marks(lines)[m] = Cardinality({i \in 1..x : /\ lines[i].op \notin {".name:", ".link:", ".mark:"}
                                                            /\ ~Within(lines, i, ".function:")})
  BY DEF Marks, Marking
<1>2. S \in SUBSET (1..n)
  BY DEF Marking
<1> HIDE DEF S
<1>3. x \in S
  BY <1>1, <1>2, MaxIsIn
<1>4. x \in 1..n
  BY <1>2, <1>3
<1> HIDE DEF x
<1>5. {i \in 1..x : /\ lines[i].op \notin {".name:", ".link:", ".mark:"}
                    /\ ~Within(lines, i, ".function:")} = {i \in Counting(lines) : i <= x}
  BY <1>4 DEF Counting
<1>. QED
  BY <1>1, <1>3, <1>5 DEF Upto, x, S

\* What is not a directive is an instruction.
LEMMA PlainCounts ==
  ASSUME NEW line, line.op \in {".name:", ".mark:"} \/ ~IsDirective(line)
  PROVE  line.op \notin {".name:", ".link:", ".mark:"} <=> Listing!IsInstruction(line)
<1>1. \A op \in {".name:", ".link:", ".mark:"} : IsDirective([op |-> op])
  BY DirectivesHaveADot
<1>2. \A op \in {".name:", ".link:", ".mark:"} : SubSeq(op, 1, 1) = "."
  BY <1>1 DEF IsDirective
<1>3. line.op \in {".name:", ".link:", ".mark:"} => SubSeq(line.op, 1, 1) = "."
  BY <1>2
<1>. QED
  BY <1>3 DEF IsDirective, Listing!IsInstruction

LEMMA MarksMeant ==
  ASSUME NEW n \in Nat, NEW lines, DOMAIN lines = 1..n, NEW K \in SUBSET (1..n), NEW p, IsPick(p, lines, K),
         \A i \in 1..n : i \in K <=> ~Within(lines, i, ".function:"),
         Plain(p), NEW m \in DOMAIN Marks(lines)
  PROVE  Marks(lines)[m] \in Nat /\ Marks(lines)[m] + 1 = Listing!MarkedBy(p, m)
<1> DEFINE x == Max(Marking(lines, m)) c == Cardinality(K) q == Upto(K, x) S == Counting(lines)
           I == {r \in 1..c : Listing!IsInstruction(p[r])}
<1>1. x \in Marking(lines, m) /\ Marks(lines)[m] = Upto(S, x)
  BY MarkCounted
<1>2. x \in K /\ x \in Nat /\ lines[x].op = ".mark:" /\ lines[x].args[1] = m
  BY <1>1 DEF Marking
<1> HIDE DEF x
<1>3. c \in Nat /\ DOMAIN p = 1..c /\ \A i \in K : Upto(K, i) \in 1..c /\ p[Upto(K, i)] = lines[i]
  BY DEF IsPick
<1>4. q \in 1..c /\ p[q] = lines[x]
  BY <1>2, <1>3
<1>5. \A r \in 1..c : p[r].op \notin {".name:", ".link:", ".mark:"} <=> r \in I
  BY <1>3, PlainCounts DEF Plain
<1>6. S \in SUBSET K /\ I \in SUBSET (1..c)
  BY DEF Counting
<1>7. \A i \in K : Upto(K, i) \in I <=> i \in S
  <2>1. ASSUME NEW i \in K
        PROVE  Upto(K, i) \in I <=> i \in S
    <3>1. i \in S <=> lines[i].op \notin {".name:", ".link:", ".mark:"}
      BY <2>1 DEF Counting
    <3>2. Upto(K, i) \in 1..c /\ p[Upto(K, i)] = lines[i]
      BY <1>3
    <3>3. Upto(K, i) \in I <=> p[Upto(K, i)].op \notin {".name:", ".link:", ".mark:"}
      BY <1>5, <3>2
    <3>. QED
      BY <3>1, <3>2, <3>3
  <2>. QED
    BY <2>1
<1> HIDE DEF I, S, c
<1>8. Nested(n, lines, K, S, p, I)
  BY <1>6, <1>7 DEF Nested, c
<1>9. Upto(I, q) = Upto(S, x)
  BY <1>2, <1>8, NestedRanks
<1>10. Counted(c, I)
  BY <1>3, <1>6, UptoCounts
<1>11. q \in Nat /\ Upto(I, q) \in Nat /\ q \notin I /\ q >= 1
  <2>1. q \notin I
    BY <1>2, <1>4, <1>5
  <2>2. q \in 1..c /\ c \in Nat
    BY <1>3, <1>4
  <2>3. Upto(I, q) \in Nat
    BY <1>10, <2>2 DEF Counted
  <2>. QED
    BY <2>1, <2>2, <2>3
<1>12. Listing!Before(p, q) = Upto(I, q)
  <2> HIDE DEF q
  <2>1. {j \in 1..(q - 1) : Listing!IsInstruction(p[j])} = {j \in I : j <= q}
    <3>1. ASSUME NEW j \in 1..(q - 1), Listing!IsInstruction(p[j])
          PROVE  j \in I /\ j <= q
      BY <1>3, <1>4, <1>11, <3>1 DEF I
    <3>2. ASSUME NEW j \in I, j <= q
          PROVE  j \in 1..(q - 1) /\ Listing!IsInstruction(p[j])
      <4>1. j \in 1..c /\ Listing!IsInstruction(p[j])
        BY <3>2 DEF I
      <4>. QED
        BY <1>3, <1>11, <3>2, <4>1
    <3>. QED
      BY <3>1, <3>2
  <2>. QED
    BY <2>1 DEF Listing!Before, Upto, Listing!Cardinality, Cardinality
<1>13. q = CHOOSE i \in DOMAIN p : p[i].op = ".mark:" /\ p[i].args[1] = m
  <2>1. q \in DOMAIN p /\ p[q].op = ".mark:" /\ p[q].args[1] = m
    BY <1>2, <1>3, <1>4
  <2>2. \A i \in DOMAIN p : p[i].op = ".mark:" /\ p[i].args[1] = m => i = q
    <3> HIDE DEF q
    <3>. QED
      BY <2>1 DEF Plain
  <2> HIDE DEF q
  <2>. QED
    BY <2>1, <2>2
<1>14. Listing!MarkedBy(p, m) = Upto(I, q) + 1
  <2> HIDE DEF q
  <2>. QED
    BY <1>12, <1>13 DEF Listing!MarkedBy
<1>. QED
  BY <1>1, <1>9, <1>11, <1>14

\* All lines, selected.
LEMMA WholePick ==
  ASSUME NEW n \in Nat, NEW lines, lines = [i \in 1..n |-> lines[i]]
  PROVE  IsPick(lines, lines, 1..n)
<1>1. \A i \in 0..n : Cardinality(1..i) = i
  <2>1. ASSUME NEW i \in 0..n
        PROVE  Cardinality(1..i) = i
    <3>1. 1 \in Int /\ i \in Int /\ (1 > i => i = 0)
      OBVIOUS
    <3>. QED
      BY <3>1, FS_Interval
  <2>. QED
    BY <2>1
<1>2. \A i \in 1..n : Upto(1..n, i) = i
  <2>1. ASSUME NEW i \in 1..n
        PROVE  Upto(1..n, i) = i
    <3>1. {j \in 1..n : j <= i} = 1..i /\ i \in 0..n
      OBVIOUS
    <3>. QED
      BY <1>1, <3>1 DEF Upto
  <2>. QED
    BY <2>1
<1>3. PICK c : c = Cardinality(1..n)
  OBVIOUS
<1>4. c = n
  <2>1. n \in 0..n
    OBVIOUS
  <2>. QED
    BY <1>1, <1>3, <2>1
<1>5. Len(lines) = n /\ DOMAIN lines = 1..n
  OBVIOUS
<1>6. \A i \in 1..n : Upto(1..n, i) \in 1..n /\ lines[Upto(1..n, i)] = lines[i]
  BY <1>2
<1>7. \A i \in 1..n : \E j \in 1..n : Upto(1..n, j) = i /\ lines[i] = lines[j]
  BY <1>2
<1>. QED
  BY <1>3, <1>4, <1>5, <1>6, <1>7 DEF IsPick

\* What the manual takes for the entry function: the lines that are not in a body.
LEMMA EntryPick ==
  ASSUME NEW lines, IsFile(lines), Listing!Defined(lines, ".block:") = {}, NEW main
  PROVE  LET E == EntryBody(lines, main) n == Len(lines) + 6
             K == {x \in 1..n : ~Within(E, x, ".function:")}
         IN n \in Nat /\ DOMAIN E = 1..n /\ IsPick(EntryBody(Listing!TopLevel(lines), main), E, K)
<1> DEFINE m == Len(lines) E == EntryBody(lines, main) K == {x \in 1..(m + 6) : ~Within(E, x, ".function:")}
           O == Outside(lines) top == Listing!TopLevel(lines) T == EntryBody(top, main) c == Cardinality(O)
           F == EntryBody(<<>>, main)
<1>1. IsSequence(lines) /\ m \in Nat /\ DOMAIN lines = 1..m /\ DOMAIN E = 1..(m + 6)
  <2>1. IsSequence(lines)
    BY DEF IsFile
  <2>. QED
    BY <2>1, SequenceDomain, EntryLines
<1>2. O \in SUBSET (1..m)
  BY <1>1 DEF Outside
<1>3. IsPick(top, lines, O)
  BY <1>1, <1>2, TopLevelLines, Picked
<1>4. IsSequence(top) /\ Len(top) = c /\ c \in Nat
  BY <1>3 DEF IsPick, IsSequence
<1>5. \A i \in 1..m : i \in O <=> ~Within(lines, i, ".function:")
  <2>1. \A o \in DOMAIN lines : lines[o].op # ".block:"
    BY DEF Listing!Defined
  <2>2. Opens(lines) = {o \in DOMAIN lines : lines[o].op = ".function:"}
    BY <2>1 DEF Opens
  <2>. QED
    BY <1>1, <2>2 DEF Outside, Within
<1>6. \A x \in 1..(m + 6) : x \in K <=> x = 1 \/ x > m + 1 \/ x - 1 \in O
  <2>1. ASSUME NEW x \in 1..(m + 6)
        PROVE  x \in K <=> x = 1 \/ x > m + 1 \/ x - 1 \in O
    <3>1. Within(E, x, ".function:") <=> x - 1 \in 1..m /\ Within(lines, x - 1, ".function:")
      BY ShiftedWithin
    <3>2. x - 1 \in 1..m <=> ~(x = 1 \/ x > m + 1)
      BY <1>1
    <3>3. x - 1 \in O => x - 1 \in 1..m
      BY <1>2
    <3>. QED
      BY <1>5, <2>1, <3>1, <3>2, <3>3
  <2>. QED
    BY <2>1
<1>7. K \in SUBSET (1..(m + 6))
  OBVIOUS
<1> HIDE DEF K, O, top, c
<1>8. Cardinality(K) = c + 6 /\ Pick(E, K) = EntryPicks(Pick(lines, O), c, main)
  BY <1>1, <1>2, <1>6, <1>7, EntryPicked DEF c
<1>9. IsPick(Pick(E, K), E, K)
  <2>1. m + 6 \in Nat
    BY <1>1
  <2>. QED
    BY <1>7, <2>1, Picked
<1>10. top = Pick(lines, O)
  BY TopLevelLines DEF top, O
<1>11. T = EntryPicks(top, c, main)
  <2>1. /\ DOMAIN T = 1..(c + 6) /\ T[1] = F[1] /\ \A j \in 2..6 : T[c + j] = F[j]
        /\ \A i \in 1..c : T[1 + i] = top[i]
    <3>1. PICK q : q = top
      OBVIOUS
    <3>2. IsSequence(q) /\ Len(q) = c
      BY <1>4, <3>1
    <3>3. LET T1 == EntryBody(q, main) F1 == EntryBody(<<>>, main) m1 == Len(q)
          IN /\ DOMAIN T1 = 1..(m1 + 6) /\ T1[1] = F1[1] /\ \A j \in 2..6 : T1[m1 + j] = F1[j]
             /\ \A i \in 1..m1 : T1[1 + i] = q[i]
      BY <3>2, EntryEnds, SMTT(40), ZenonT(60)
    <3>4. T = EntryBody(q, main)
      BY <3>1
    <3> HIDE DEF T, F
    <3>. QED
      BY <3>1, <3>2, <3>3, <3>4 DEF F
  <2>2. T = [k \in 1..(c + 6) |-> T[k]]
    <3>1. IsSequence(T) /\ Len(T) = c + 6
      BY <1>4, EntryLines
    <3> HIDE DEF T
    <3>. QED
      BY <3>1 DEF IsSequence
  <2> HIDE DEF T, F
  <2>3. ASSUME NEW k \in 1..(c + 6)
        PROVE  T[k] = IF k = 1 THEN F[1] ELSE IF k <= c + 1 THEN top[k - 1] ELSE F[k - c]
    <3>1. CASE k = 1
      BY <2>1, <3>1
    <3>2. CASE k # 1 /\ k <= c + 1
      <4>1. k - 1 \in 1..c /\ 1 + (k - 1) = k
        BY <1>4, <3>2
      <4>. QED
        BY <2>1, <3>2, <4>1
    <3>3. CASE k # 1 /\ ~(k <= c + 1)
      <4>1. k - c \in 2..6 /\ c + (k - c) = k
        BY <1>4, <3>3
      <4>. QED
        BY <2>1, <3>3, <4>1
    <3>. QED
      BY <3>1, <3>2, <3>3
  <2>. QED
    BY <2>2, <2>3 DEF EntryPicks, F
<1>12. IsPick(T, E, K) /\ m + 6 \in Nat
  BY <1>1, <1>8, <1>9, <1>10, <1>11
<1>. QED
  BY <1>1, <1>12 DEF K, top

\* The marks of a body that is generated.
LEMMA UnitMarks ==
  ASSUME Assembled, DistinctNames, NEW u \in Members, UnitMade(u), NEW k \in 1..UnitCount(u),
         PlainMarks(u, UnitBody(u, k).name), NEW m \in DOMAIN Marks(UnitBody(u, k).lines)
  PROVE  LET marks == Marks(UnitBody(u, k).lines)
         IN marks[m] \in Nat /\ marks[m] + 1 = Listing!MarkedBy(Body(u, UnitBody(u, k).name), m)
<1> DEFINE b == UnitBody(u, k) body == Body(u, b.name)
<1>1. UnitBodyAt(u, k) /\ IsFile(File(u))
  BY UnitBodies, MembersBuilt
<1>2. Plain(body)
  BY DEF PlainMarks, Plain
<1>3. CASE \E i \in Opens(File(u)) : Rank(File(u), i) = k /\ BodyAt(b, File(u), i)
  <2>1. PICK i \in Opens(File(u)) : BodyAt(b, File(u), i)
    BY <1>3
  <2>2. b.name = File(u)[i].args[1] /\ b.lines = BodyLines(File(u), i)
    BY <2>1 DEF BodyAt
  <2>3. body = b.lines /\ IsPlain(b.lines)
    BY <2>2, BodyOfName
  <2>4. IsSequence(b.lines)
    BY <1>1, <2>2, SliceLines
  <2>5. PICK n : n = Len(b.lines)
    OBVIOUS
  <2>6. n \in Nat /\ DOMAIN b.lines = 1..n /\ b.lines = [i_1 \in 1..n |-> b.lines[i_1]]
    BY <2>4, <2>5, SequenceDomain DEF IsSequence
  <2>7. IsPick(body, b.lines, 1..n)
    BY <2>3, <2>6, WholePick
  <2>8. \A x \in 1..n : x \in 1..n <=> ~Within(b.lines, x, ".function:")
    BY <2>3, <2>6 DEF Within, IsPlain
  <2> HIDE DEF b, body
  <2>9. Marks(b.lines)[m] \in Nat /\ Marks(b.lines)[m] + 1 = Listing!MarkedBy(body, m)
    <3>1. m \in DOMAIN Marks(b.lines)
      BY DEF b
    <3>2. PICK L : L = b.lines
      OBVIOUS
    <3>3. PICK K : K = 1..n
      OBVIOUS
    <3>4. DOMAIN L = 1..n /\ IsPick(body, L, K) /\ K \in SUBSET (1..n) /\ m \in DOMAIN Marks(L)
          /\ \A x \in 1..n : x \in K <=> ~Within(L, x, ".function:")
      <4>1. \A x \in 1..n : x \in K <=> ~Within(L, x, ".function:")
        BY <2>8, <3>2, <3>3
      <4>. QED
        BY <2>6, <2>7, <3>1, <3>2, <3>3, <4>1
    <3>5. Marks(L)[m] \in Nat /\ Marks(L)[m] + 1 = Listing!MarkedBy(body, m)
      BY <1>2, <2>6, <3>4, MarksMeant
    <3>. QED
      BY <3>2, <3>5
  <2>. QED
    BY <2>9 DEF b, body
<1>4. CASE u = 0 /\ EntryAt(b, File(u), UnitFlags(u))
  <2> DEFINE lines == File(0) main == MainFunction(lines, UnitFlags(0)) E == EntryBody(lines, main)
             K == {x \in 1..(Len(lines) + 6) : ~Within(E, x, ".function:")}
  <2>1. b.name = EntryFunctionName /\ b.lines = E
    BY <1>4 DEF EntryAt
  <2>2. body = EntryBody(Listing!TopLevel(lines), main)
    <3>1. UnitFlags(0) = Flags(FALSE)
      BY DEF UnitFlags
    <3>. QED
      BY <1>4, <2>1, <3>1 DEF Body
  <2>3. Listing!Defined(lines, ".block:") = {}
    BY <1>4, <2>1 DEF PlainMarks
  <2>4. IsFile(lines)
    BY <1>1, <1>4
  <2>5. PICK n : n = Len(lines) + 6
    OBVIOUS
  <2>6. n \in Nat /\ DOMAIN E = 1..n /\ IsPick(body, E, K)
    <3> HIDE DEF lines, main
    <3>. QED
      BY <2>2, <2>3, <2>4, <2>5, EntryPick
  <2>7. K \in SUBSET (1..n) /\ \A x \in 1..n : x \in K <=> ~Within(E, x, ".function:")
    BY <2>5
  <2> HIDE DEF b, body, E, K
  <2>8. Marks(E)[m] \in Nat /\ Marks(E)[m] + 1 = Listing!MarkedBy(body, m)
    <3>1. m \in DOMAIN Marks(E)
      BY <2>1 DEF b
    <3>2. PICK L : L = E
      OBVIOUS
    <3>3. PICK I : I = K
      OBVIOUS
    <3>4. /\ DOMAIN L = 1..n /\ IsPick(body, L, I) /\ I \in SUBSET (1..n) /\ m \in DOMAIN Marks(L)
          /\ \A x \in 1..n : x \in I <=> ~Within(L, x, ".function:")
      BY <2>6, <2>7, <3>1, <3>2, <3>3
    <3>5. Marks(L)[m] \in Nat /\ Marks(L)[m] + 1 = Listing!MarkedBy(body, m)
      BY <1>2, <2>6, <3>4, MarksMeant, SMTT(40), ZenonT(60)
    <3>. QED
      BY <3>2, <3>5
  <2>. QED
    BY <2>1, <2>8 DEF b, body
<1>. QED
  BY <1>1, <1>3, <1>4 DEF UnitBodyAt

-----------------------------------------------------------------------------
(***************************************************************************)
(* Every target leads to the instruction that is meant.                    *)
(***************************************************************************)
LineAt(u, k, j) == Filter(UnitBody(u, k).lines)[j]
MarksAt(u, k) == Marks(UnitBody(u, k).lines)
IsJump(line) == line.op \in {"jump", "branch"}

LEMMA FoundInSource ==
  ASSUME Assembled, DistinctNames, OneLibrary, NEW o \in DOMAIN image.code
  PROVE  \E u \in Members : \E k \in 1..UnitCount(u) : \E j \in DOMAIN UnitCode(u, k) :
           o = UnitPlace(u, k, j) + Base(u)
<1>1. PICK u \in Members : \E p \in DOMAIN UnitOwn(u) : o = p + Base(u)
  BY ImageParts
<1>2. PICK p \in DOMAIN UnitOwn(u) : o = p + Base(u)
  BY <1>1
<1>3. \E k \in 1..UnitCount(u) : \E j \in DOMAIN UnitCode(u, k) : p = UnitPlace(u, k, j)
  BY OwnPlaces
<1>. QED
  BY <1>2, <1>3

\* A jump is compiled from a line of the file, its targets from those of the line.
LEMMA JumpCompiled ==
  ASSUME Assembled, DistinctNames, NEW u \in Members, NEW k \in 1..UnitCount(u), NEW j \in DOMAIN UnitCode(u, k),
         IsJump(UnitCode(u, k)[j])
  PROVE  LET c == UnitCode(u, k)[j] line == LineAt(u, k, j)
         IN /\ j \in Nat /\ j - 1 \in Nat /\ (j - 1) + 1 = j /\ c.op = line.op
            /\ \E x \in DOMAIN File(u) : line = File(u)[x]
            /\ \A i \in Targets(c.op) : /\ ResolvesTo(c, i, FieldTarget(line, i), MarksAt(u, k), j - 1)
                                        /\ FieldTarget(line, i) \in WrittenTargets
<1> DEFINE c == UnitCode(u, k)[j] b == UnitBody(u, k) line == LineAt(u, k, j) marks == MarksAt(u, k)
<1>1. UnitMade(u) /\ IsFile(File(u))
  BY OwnPlaces, MembersBuilt
<1>2. IsCoded(UnitCode(u, k), b.lines, u, b.name)
  BY <1>1, UnitCoded
<1>3. j \in Nat /\ j - 1 \in Nat /\ (j - 1) + 1 = j /\ c.op = line.op
  BY <1>2 DEF IsCoded, LineAt
<1>4. /\ CanCompileLine(line, j - 1, marks, Names(b.lines))
      /\ c.args = CompileLine(line, j - 1, marks, Names(b.lines)).args
      /\ c.types = CompileLine(line, j - 1, marks, Names(b.lines)).types
  BY <1>2 DEF IsCoded, LineAt, MarksAt
<1>5. \E x \in DOMAIN File(u) : line = File(u)[x]
  <2>1. ~Supplied(line, MainFunction(File(u), UnitFlags(u)))
    <3>1. line.op \in {"jump", "branch"}
      BY <1>3 DEF IsJump
    <3> HIDE DEF line
    <3>2. \A reg, main : line # Line("call", <<reg, main>>)
      BY <3>1 DEF Line
    <3>. QED
      BY <3>1, <3>2 DEF Supplied
  <2>. QED
    BY <1>1, <2>1, LineOfUnit DEF LineAt
<1>6. PICK x \in DOMAIN File(u) : line = File(u)[x]
  BY <1>5
<1>7. PICK names : names = Names(b.lines)
  OBVIOUS
<1> HIDE DEF c, line, marks, b
<1>8. ASSUME NEW i \in Targets(c.op)
      PROVE  ResolvesTo(c, i, FieldTarget(line, i), marks, j - 1) /\ FieldTarget(line, i) \in WrittenTargets
  <2>1. line.op \in {"jump", "branch"} /\ i \in Targets(line.op)
    BY <1>3 DEF c, IsJump
  <2>2. FieldTarget(line, i) \in WrittenTargets
    BY <1>1, <1>4, <1>6, <1>7, <2>1, TargetsWritten
  <2>3. ResolvesTo(CompileLine(line, j - 1, marks, names), i, FieldTarget(line, i), marks, j - 1)
    BY <1>3, <1>4, <1>7, <2>1, CompiledTargets
  <2>. QED
    BY <1>4, <1>7, <2>2, <2>3 DEF ResolvesTo
<1>. QED
  BY <1>3, <1>5, <1>8 DEF c, line, marks

\* Targets that are alike are compiled to targets that match.
LEMMA LikeMatching ==
  ASSUME NEW c, NEW line, c.op = line.op, LikeTargets(line), NEW k \in Nat, NEW marks,
         \A i \in Targets(c.op) : ResolvesTo(c, i, FieldTarget(line, i), marks, k) /\ FieldTarget(line, i) \in WrittenTargets,
         \A m \in DOMAIN marks : marks[m] \in Nat
  PROVE  Matching(c)
<1> SUFFICES ASSUME c.op = "branch"
             PROVE  c.types[2] = "absolute" <=> c.types[3] = "absolute"
  BY DEF Matching
<1>1. Targets(c.op) = {2, 3}
  BY TargetFields
<1>2. ASSUME NEW i \in {2, 3}
      PROVE  c.types[i] = "absolute" <=> FieldTarget(line, i)[1] = "."
  <2>1. PICK t : t = FieldTarget(line, i)
    OBVIOUS
  <2>2. ResolvesTo(c, i, t, marks, k) /\ t \in WrittenTargets
    BY <1>1, <2>1
  <2>3. CanResolveJump(t, marks, k) /\ (t[1] = "mark" => marks[t[2]] \in Nat)
    BY <2>2 DEF ResolvesTo, CanResolveJump
  <2>4. ResolveJump(t, marks, k).type = "absolute" <=> t[1] = "."
    BY <2>2, <2>3, TargetKinds
  <2>. QED
    BY <2>1, <2>2, <2>4 DEF ResolvesTo
<1>3. FieldTarget(line, 2) = Listing!TargetsOf(line)[1] /\ FieldTarget(line, 3) = Listing!TargetsOf(line)[2]
  BY DEF FieldTarget
<1>. QED
  BY <1>2, <1>3 DEF LikeTargets

LEMMA TargetOfLine ==
  ASSUME NEW line, IsJump(line), NEW i \in Targets(line.op)
  PROVE  FieldTarget(line, i) \in ToSet(Listing!TargetsOf(line))
<1>1. CASE line.op = "jump"
  <2>1. i = 1 /\ FieldTarget(line, i) = line.args[1] /\ Listing!TargetsOf(line) = <<line.args[1]>>
    BY <1>1, TargetFields DEF FieldTarget, Listing!TargetsOf
  <2>2. \A t : t \in ToSet(<<t>>)
    BY DEF ToSet
  <2>. QED
    BY <2>1, <2>2
<1>2. CASE line.op = "branch"
  <2>1. i \in {2, 3} /\ FieldTarget(line, i) = Listing!TargetsOf(line)[i - 1]
    BY <1>2, TargetFields DEF FieldTarget
  <2>2. \E a, b : Listing!TargetsOf(line) = <<a, b>>
    BY <1>2 DEF Listing!TargetsOf
  <2>3. PICK s : s = Listing!TargetsOf(line)
    OBVIOUS
  <2>4. DOMAIN s = {1, 2}
    BY <2>2, <2>3
  <2>5. i - 1 \in DOMAIN s
    BY <2>1, <2>4
  <2>. QED
    BY <2>1, <2>3, <2>5 DEF ToSet
<1>. QED
  BY <1>1, <1>2 DEF IsJump

LEMMA SourceAt ==
  ASSUME Assembled, DistinctNames, OneLibrary, NEW u \in Members, NEW k \in 1..UnitCount(u),
         NEW a \in DOMAIN UnitCode(u, k)
  PROVE  At(UnitPlace(u, k, a) + Base(u)) = <<u, UnitBody(u, k).name, a>>
<1>1. UnitCode(u, k)[a].source = <<u, UnitBody(u, k).name, a>>
  BY OwnPlaces, UnitCoded
<1>2. PICK o : o = UnitPlace(u, k, a) + Base(u)
  OBVIOUS
<1>3. o \in DOMAIN image.code /\ Alike(image.code[o], UnitCode(u, k)[a])
  BY <1>2, InImage
<1>. QED
  BY <1>1, <1>2, <1>3 DEF At, Alike

LEMMA TargetLands ==
  ASSUME Assembled, DistinctNames, OneLibrary, NoAbsoluteInLibraries,
         NEW u \in Members, NEW k \in 1..UnitCount(u), NEW j \in DOMAIN UnitCode(u, k),
         IsJump(UnitCode(u, k)[j]), PlainMarks(u, UnitBody(u, k).name), LikeTargets(LineAt(u, k, j)),
         NEW i \in Targets(UnitCode(u, k)[j].op)
  PROVE  Lands(<<u, UnitBody(u, k).name, j>>, Body(u, UnitBody(u, k).name), FieldTarget(LineAt(u, k, j), i),
               image.code[UnitPlace(u, k, j) + Base(u)].args[i])
<1> DEFINE c == UnitCode(u, k)[j] b == UnitBody(u, k) line == LineAt(u, k, j) marks == MarksAt(u, k)
           body == Body(u, b.name) o == UnitPlace(u, k, j) + Base(u)
<1>1. /\ j \in Nat /\ j - 1 \in Nat /\ (j - 1) + 1 = j /\ c.op = line.op
      /\ \E x \in DOMAIN File(u) : line = File(u)[x]
      /\ \A f \in Targets(c.op) : /\ ResolvesTo(c, f, FieldTarget(line, f), marks, j - 1)
                                  /\ FieldTarget(line, f) \in WrittenTargets
  BY JumpCompiled
<1>2. UnitMade(u)
  BY OwnPlaces
<1>3. \A m \in DOMAIN marks : marks[m] \in Nat /\ marks[m] + 1 = Listing!MarkedBy(body, m)
  BY <1>2, UnitMarks DEF MarksAt
<1>4. Jumps1(c, i)
  <2>1. Matching(c)
    <3> HIDE DEF c, line, marks, body
    <3>1. LikeTargets(line) /\ \A m \in DOMAIN marks : marks[m] \in Nat
      BY <1>3 DEF line
    <3>. QED
      BY <1>1, <3>1, LikeMatching
  <2>. QED
    BY <2>1 DEF Jumps1, IsJump
<1>5. PICK t : t = FieldTarget(line, i)
  OBVIOUS
<1>6. ResolvesTo(c, i, t, marks, j - 1) /\ t \in WrittenTargets
  BY <1>1, <1>5
<1>7. PICK r : r = ResolveJump(t, marks, j - 1)
  OBVIOUS
<1>8. CanResolveJump(t, marks, j - 1) /\ c.types[i] = r.type /\ c.args[i] = r.addr
  BY <1>6, <1>7 DEF ResolvesTo
<1>9. t[1] = "mark" => t[2] \in DOMAIN marks /\ marks[t[2]] \in Nat /\ marks[t[2]] + 1 = Listing!MarkedBy(body, t[2])
  BY <1>3, <1>8 DEF CanResolveJump
<1>10. /\ r.type = "absolute" <=> t[1] = "."
       /\ t[1] = "." => r.addr = t[2] /\ t[2] \in Nat
       /\ t[1] \notin {".", "0x"} => r.type = "relative" /\ r.addr \in Nat
  <2> HIDE DEF marks
  <2>1. LET q == ResolveJump(t, marks, j - 1)
        IN /\ q.type = "absolute" <=> t[1] = "."
           /\ t[1] = "." => q.addr = t[2] /\ t[2] \in Nat
           /\ t[1] \notin {".", "0x"} => q.type = "relative" /\ q.addr \in Nat
    BY <1>1, <1>6, <1>8, <1>9, TargetKinds
  <2>. QED
    BY <1>7, <2>1
<1>11. PICK address : address = image.code[o].args[i]
  OBVIOUS
<1>12. CASE t[1] = "0x"
  <2>1. Lands(<<u, b.name, j>>, body, t, address)
    BY <1>12 DEF Lands
  <2>. QED
    BY <1>5, <1>11, <2>1
<1>13. CASE t[1] = "."
  <2>1. u = 0
    <3>1. u \notin Reached
      <4>1. PICK x \in DOMAIN File(u) : line = File(u)[x]
        BY <1>1
      <4>2. line.op \in {"jump", "branch"} /\ IsJump(line) /\ i \in Targets(line.op)
        BY <1>1 DEF IsJump
      <4>3. t \in ToSet(Listing!TargetsOf(line))
        BY <1>5, <4>2, TargetOfLine
      <4> HIDE DEF line
      <4>. QED
        BY <1>13, <4>1, <4>2, <4>3 DEF NoAbsoluteInLibraries
    <3>. QED
      BY <3>1 DEF Members
  <2>2. c.types[i] = "absolute" /\ c.args[i] = t[2] /\ t[2] \in Nat
    BY <1>8, <1>10, <1>13
  <2>3. address = 0 + BytecodeOffset(BufferOf(0, File(0), UnitFlags(0)), BytesOf(File(0), UnitLibs(0), UnitFlags(0)), t[2])
    BY <1>4, <1>11, <2>1, <2>2, ImageTargets
  <2>4. t[2] < Cardinality({p \in DOMAIN image.code : image.code[p].source[1] = 0}) => At(address) = Absolute(t[2])
    BY <2>2, <2>3, AbsoluteFinds DEF Absolute
  <2>5. Lands(<<u, b.name, j>>, body, t, address)
    BY <1>13, <2>4 DEF Lands
  <2>. QED
    BY <1>5, <1>11, <2>5
<1>14. CASE t[1] \notin {".", "0x"}
  <2>1. c.types[i] = "relative" /\ c.args[i] \in Nat /\ c.args[i] = r.addr
    BY <1>8, <1>10, <1>14
  <2>2. /\ c.args[i] + 1 \in DOMAIN UnitCode(u, k)
        /\ address = UnitPlace(u, k, c.args[i] + 1) + Base(u)
    BY <1>4, <1>11, <2>1, ImageTargets
  <2>3. At(address) = <<u, b.name, c.args[i] + 1>>
    BY <2>2, SourceAt
  <2>4. r.addr + 1 = Listing!TargetIn(body, j, t)
    <3>1. PICK n \in Nat : n = j - 1 /\ n + 1 = j
      BY <1>1
    <3> HIDE DEF marks, body
    <3>2. ResolveJump(t, marks, n).addr + 1 = Listing!TargetIn(body, n + 1, t)
      BY <1>6, <1>9, <1>14, TargetMeant
    <3>. QED
      BY <1>7, <3>1, <3>2
  <2> HIDE DEF b, body
  <2>5. Lands(<<u, b.name, j>>, body, t, address)
    <3>1. <<u, b.name, j>>[1] = u /\ <<u, b.name, j>>[2] = b.name /\ <<u, b.name, j>>[3] = j
      OBVIOUS
    <3>2. At(address) = <<u, b.name, Listing!TargetIn(body, j, t)>>
      BY <2>1, <2>3, <2>4
    <3>. QED
      BY <1>14, <3>1, <3>2 DEF Lands
  <2>. QED
    BY <1>5, <1>11, <2>5 DEF b, body
<1>. QED
  BY <1>12, <1>13, <1>14

\* The targets of an instruction of the executable, as JumpsLand has them.
LEMMA JumpLands ==
  ASSUME Assembled, DistinctNames, OneLibrary, NoAbsoluteInLibraries, NEW o \in DOMAIN image.code, IsJump(image.code[o])
  PROVE  LET place == image.code[o].source
             body == Body(place[1], place[2])
             line == InstructionsIn(body)[place[3]]
             targets == Listing!TargetsOf(line)
         IN PlainMarks(place[1], place[2]) /\ LikeTargets(line) =>
              \A i \in DOMAIN targets : Lands(place, body, targets[i], LastOf(image.code[o].args, Len(targets))[i])
<1>1. PICK u \in Members : \E k \in 1..UnitCount(u) : \E j \in DOMAIN UnitCode(u, k) :
                             o = UnitPlace(u, k, j) + Base(u)
  BY FoundInSource
<1>2. PICK k \in 1..UnitCount(u) : \E j \in DOMAIN UnitCode(u, k) : o = UnitPlace(u, k, j) + Base(u)
  BY <1>1
<1>3. PICK j \in DOMAIN UnitCode(u, k) : o = UnitPlace(u, k, j) + Base(u)
  BY <1>2
<1> DEFINE c == UnitCode(u, k)[j] b == UnitBody(u, k) body == Body(u, b.name) line == LineAt(u, k, j)
           targets == Listing!TargetsOf(line) args == image.code[o].args
<1>4. Alike(image.code[o], c)
  BY <1>3, InImage
<1>5. UnitMade(u)
  BY OwnPlaces
<1>6. c.source = <<u, b.name, j>> /\ Filter(b.lines) = InstructionsIn(body)
  BY <1>5, UnitCoded
<1>7. image.code[o].source = <<u, b.name, j>> /\ image.code[o].op = c.op /\ IsJump(c)
  BY <1>4, <1>6 DEF Alike, IsJump
<1>8. c.op = line.op /\ IsJump(line)
  BY <1>7, JumpCompiled DEF IsJump
<1>9. ASSUME PlainMarks(u, b.name), LikeTargets(line), NEW i \in Targets(c.op)
      PROVE  Lands(<<u, b.name, j>>, body, FieldTarget(line, i), args[i])
  BY <1>3, <1>7, <1>9, TargetLands
<1>10. Operands1(image.code[o])
  BY ImageOperands
<1>11. line = InstructionsIn(body)[j]
  BY <1>6 DEF LineAt
<1>12. ASSUME PlainMarks(u, b.name), LikeTargets(line), NEW i \in DOMAIN targets
       PROVE  Lands(<<u, b.name, j>>, body, targets[i], LastOf(args, Len(targets))[i])
  <2>1. CASE line.op = "jump"
    <3>1. targets = <<FieldTarget(line, 1)>> /\ 1 \in Targets(c.op)
      BY <1>8, <2>1, TargetFields DEF Listing!TargetsOf, FieldTarget
    <3>2. LastOf(args, 1)[1] = args[1]
      BY <1>7, <1>8, <1>10, <2>1, AddressesOf
    <3>3. Lands(<<u, b.name, j>>, body, FieldTarget(line, 1), args[1])
      BY <1>9, <1>12, <3>1
    <3> HIDE DEF b, body, line, args, targets
    <3>4. i = 1 /\ Len(targets) = 1 /\ targets[1] = FieldTarget(line, 1)
      BY <3>1
    <3>. QED
      BY <3>2, <3>3, <3>4
  <2>2. CASE line.op = "branch"
    <3>1. targets = <<FieldTarget(line, 2), FieldTarget(line, 3)>> /\ 2 \in Targets(c.op) /\ 3 \in Targets(c.op)
      <4>1. \E x, y : targets = <<x, y>>
        BY <2>2 DEF Listing!TargetsOf
      <4>2. FieldTarget(line, 2) = targets[1] /\ FieldTarget(line, 3) = targets[2]
        BY <2>2 DEF FieldTarget
      <4> HIDE DEF targets
      <4>. QED
        BY <1>8, <2>2, <4>1, <4>2, TargetFields
    <3>2. LastOf(args, 2)[1] = args[2] /\ LastOf(args, 2)[2] = args[3]
      BY <1>7, <1>8, <1>10, <2>2, AddressesOf
    <3>3. /\ Lands(<<u, b.name, j>>, body, FieldTarget(line, 2), args[2])
          /\ Lands(<<u, b.name, j>>, body, FieldTarget(line, 3), args[3])
      BY <1>9, <1>12, <3>1
    <3> HIDE DEF b, body, line, args, targets
    <3>4. i \in {1, 2} /\ Len(targets) = 2 /\ targets[1] = FieldTarget(line, 2) /\ targets[2] = FieldTarget(line, 3)
      BY <3>1
    <3>. QED
      BY <3>2, <3>3, <3>4
  <2>. QED
    BY <1>8, <2>1, <2>2 DEF IsJump
<1>13. PICK place : place = image.code[o].source
  OBVIOUS
<1>14. place = <<u, b.name, j>> /\ place[1] = u /\ place[2] = b.name /\ place[3] = j
  BY <1>7, <1>13
<1> HIDE DEF b, body, line, args, targets
<1>15. LET bodyp == Body(place[1], place[2]) linep == InstructionsIn(bodyp)[place[3]] targetsp == Listing!TargetsOf(linep)
       IN PlainMarks(place[1], place[2]) /\ LikeTargets(linep) =>
            \A i \in DOMAIN targetsp : Lands(place, bodyp, targetsp[i], LastOf(args, Len(targetsp))[i])
  BY <1>11, <1>12, <1>14 DEF body, targets
<1>. QED
  BY <1>13, <1>15 DEF args

-----------------------------------------------------------------------------
\* The address that a jump or branch of the executable holds is that of the
\* instruction its source line means: for every project whose lines give their
\* names, whose names are distinct, with at most one library and no absolute
\* jumps in it, and bodies with plain marks.
THEOREM JumpsAreRight == Spec => []JumpsLand
<1>1. BuildInv => JumpsLand
  <2> SUFFICES ASSUME BuildInv, Built, NamesGiven, DistinctNames, OneLibrary, NoAbsoluteInLibraries,
                      NEW o \in {p \in DOMAIN image.code : image.code[p].op \in {"jump", "branch"}}
               PROVE  LET place == image.code[o].source
                          body == Body(place[1], place[2])
                          line == InstructionsIn(body)[place[3]]
                          targets == Listing!TargetsOf(line)
                          addresses == SubSeq(image.code[o].args, Len(image.code[o].args) - Len(targets) + 1,
                                              Len(image.code[o].args))
                      IN PlainMarks(place[1], place[2]) /\ LikeTargets(line) =>
                           \A i \in DOMAIN targets : Lands(place, body, targets[i], addresses[i])
    BY DEF JumpsLand
  <2>1. Assembled /\ o \in DOMAIN image.code /\ IsJump(image.code[o])
    BY LoadedTables DEF IsJump
  <2>. QED
    BY <2>1, JumpLands DEF LastOf
<1>. QED
  BY <1>1, BuildHolds, PTL
=============================================================================
