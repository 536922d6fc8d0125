--------------------------- MODULE AssemblyProofs ---------------------------
(***************************************************************************)
(* Proof that all parts of the repository that know how many bytes an      *)
(* instruction takes agree on every instruction of every project, that the *)
(* line the disassembler prints for an instruction is assembled to it, and *)
(* what generate makes of a file, whatever its length: the bodies, of the  *)
(* sizes that are counted for their lines, in one buffer with absolute     *)
(* jumps calculated, the libraries behind it, and the tables.              *)
(*                                                                         *)
(* First come facts about selections and running sums, which the assembler *)
(* makes of everything it reads and writes, then the tables of             *)
(* instructions, looked up once by kind, then fields, bodies, sections,    *)
(* and the image of a file.                                                *)
(***************************************************************************)
EXTENDS Assembly, FiniteSetTheorems, SequenceTheorems, TLAPS

-----------------------------------------------------------------------------
(***************************************************************************)
(* Induction, for sets.                                                    *)
(***************************************************************************)
LEMMA SmallestExists ==
  ASSUME NEW S \in SUBSET Nat, S # {}
  PROVE  \E x \in S : \A y \in S : x <= y
  <1>1. \E x \in S : \A y \in S : <<y, x>> \notin OpToRel(<, Nat)
    BY WFMin, NatLessThanWellFounded
  <1>2. OpToRel(<, Nat) = {p \in Nat \X Nat : p[1] < p[2]}
    BY Zenon DEF OpToRel
  <1>3. PICK x \in S : \A y \in S : <<y, x>> \notin OpToRel(<, Nat)
    BY <1>1
  <1>4. ASSUME NEW y \in S
        PROVE  x <= y
    <2>1. x \in Nat /\ y \in Nat
      OBVIOUS
    <2>2. ~(y < x)
      BY <1>2, <1>3, <2>1
    <2> QED BY <2>1, <2>2
  <1> QED BY <1>4

\* A set that has 0 and with each number the next one has all of them.
LEMMA CountingUp ==
  ASSUME NEW Q, 0 \in Q, \A n \in Nat : n \in Q => n + 1 \in Q
  PROVE  Nat \subseteq Q
  <1> SUFFICES ASSUME Nat \ Q # {}
               PROVE  FALSE
    OBVIOUS
  <1>1. PICK x \in Nat \ Q : \A y \in Nat \ Q : x <= y
    <2>1. Nat \ Q \in SUBSET Nat
      OBVIOUS
    <2> QED BY <2>1, SmallestExists
  <1>2. x # 0 /\ x - 1 \in Nat /\ ~(x <= x - 1)
    OBVIOUS
  <1>3. x - 1 \in Q
    BY <1>1, <1>2
  <1>4. (x - 1) + 1 = x
    OBVIOUS
  <1> QED BY <1>2, <1>3, <1>4

-----------------------------------------------------------------------------
(***************************************************************************)
(* How many elements of a set of indexes there are up to one of them.      *)
(***************************************************************************)
Upto(S, i) == Cardinality({j \in S : j <= i})

Counted(n, S) ==
  /\ IsFiniteSet(S) /\ Cardinality(S) \in 0..n /\ Upto(S, n) = Cardinality(S)
  /\ Upto(S, 0) = 0
  /\ \A i \in Nat : Upto(S, i) \in Nat
  /\ \A i \in Nat : Upto(S, i + 1) = IF i + 1 \in S THEN Upto(S, i) + 1 ELSE Upto(S, i)

LEMMA UptoCounts ==
  ASSUME NEW n \in Nat, NEW S \in SUBSET (1..n)
  PROVE  Counted(n, S)
<1>1. IsFiniteSet(1..n) /\ Cardinality(1..n) = n
  <2>1. 1 \in Int /\ n \in Int /\ (1 > n => n = 0)
    OBVIOUS
  <2>. QED
    BY <2>1, FS_Interval
<1>2. IsFiniteSet(S) /\ Cardinality(S) \in Nat /\ Cardinality(S) <= n
  BY <1>1, FS_Subset, FS_CardinalityType
<1>3. \A i \in Nat : IsFiniteSet({j \in S : j <= i}) /\ Upto(S, i) \in Nat
  <2> SUFFICES ASSUME NEW i \in Nat
               PROVE  IsFiniteSet({j \in S : j <= i}) /\ Upto(S, i) \in Nat
    OBVIOUS
  <2>1. {j \in S : j <= i} \in SUBSET S
    OBVIOUS
  <2>. QED
    BY <1>2, <2>1, FS_Subset, FS_CardinalityType DEF Upto
<1>c. \A j : j \in S => j \in Int /\ 1 <= j /\ j <= n
  OBVIOUS
<1>4. {j \in S : j <= n} = S /\ {j \in S : j <= 0} = {}
  <2>1. \A j : j \in {i \in S : i <= n} <=> j \in S
    BY <1>c
  <2>2. \A j : j \notin {i \in S : i <= 0}
    BY <1>c
  <2>. QED
    BY <2>1, <2>2
<1>5. ASSUME NEW i \in Nat
      PROVE  Upto(S, i + 1) = IF i + 1 \in S THEN Upto(S, i) + 1 ELSE Upto(S, i)
  <2>1. CASE i + 1 \in S
    <3>1. {j \in S : j <= i + 1} = {j \in S : j <= i} \cup {i + 1}
      <4>1. \A j : j \in S => (j <= i + 1 <=> j <= i \/ j = i + 1)
        BY <1>c
      <4>. QED
        BY <2>1, <4>1
    <3>2. i + 1 \notin {j \in S : j <= i}
      OBVIOUS
    <3>. QED
      BY <1>3, <2>1, <3>1, <3>2, FS_AddElement DEF Upto
  <2>2. CASE i + 1 \notin S
    <3>1. {j \in S : j <= i + 1} = {j \in S : j <= i}
      <4>1. \A j : j \in S => (j <= i + 1 <=> j <= i)
        BY <1>c, <2>2
      <4>. QED
        BY <2>2, <4>1
    <3>. QED
      BY <2>2, <3>1 DEF Upto
  <2>. QED
    BY <2>1, <2>2
<1>6. Upto(S, n) = Cardinality(S) /\ Upto(S, 0) = 0
  BY <1>4, FS_EmptySet, Zenon DEF Upto
<1>7. Cardinality(S) \in 0..n
  BY <1>2
<1>8. \A i \in Nat : Upto(S, i + 1) = IF i + 1 \in S THEN Upto(S, i) + 1 ELSE Upto(S, i)
  BY <1>5, Zenon
<1>9. \A i \in Nat : Upto(S, i) \in Nat
  BY <1>3, Zenon
<1>. QED
  BY <1>2, <1>6, <1>7, <1>8, <1>9, Zenon DEF Counted

\* Indexes have different ranks, and each rank belongs to one.
LEMMA UptoGrows ==
  ASSUME NEW n \in Nat, NEW S \in SUBSET (1..n), NEW i \in Nat, NEW j \in Nat, i < j
  PROVE  Upto(S, i) <= Upto(S, j) /\ (j \in S => Upto(S, i) < Upto(S, j))
<1> Counted(n, S)
  BY UptoCounts
<1>0. /\ \A k \in Nat : Upto(S, k) \in Nat
      /\ \A k \in Nat : Upto(S, k + 1) = IF k + 1 \in S THEN Upto(S, k) + 1 ELSE Upto(S, k)
  BY DEF Counted
<1> DEFINE Q == {k \in Nat : \A m \in Nat : m <= k => Upto(S, m) <= Upto(S, k)}
<1>1. Nat \subseteq Q
  <2>1. 0 \in Q
    BY <1>0
  <2>2. ASSUME NEW k \in Nat, k \in Q
        PROVE  k + 1 \in Q
    <3> SUFFICES ASSUME NEW m \in Nat, m <= k + 1
                 PROVE  Upto(S, m) <= Upto(S, k + 1)
      OBVIOUS
    <3>1. Upto(S, k) <= Upto(S, k + 1) /\ Upto(S, k) \in Nat /\ Upto(S, k + 1) \in Nat
      BY <1>0
    <3>2. CASE m = k + 1
      BY <3>1, <3>2
    <3>3. CASE m <= k
      <4>1. Upto(S, m) <= Upto(S, k) /\ Upto(S, m) \in Nat
        BY <1>0, <2>2, <3>3
      <4>. QED
        BY <3>1, <4>1
    <3>. QED
      BY <3>2, <3>3
  <2> HIDE DEF Q
  <2>. QED
    BY <2>1, <2>2, CountingUp
<1>2. j - 1 \in Nat /\ i <= j - 1 /\ (j - 1) + 1 = j
  OBVIOUS
<1>3. Upto(S, i) <= Upto(S, j - 1) /\ Upto(S, i) <= Upto(S, j)
  BY <1>1, <1>2
<1>4. j \in S => Upto(S, j) = Upto(S, j - 1) + 1
  BY <1>0, <1>2
<1>5. Upto(S, i) \in Nat /\ Upto(S, j - 1) \in Nat /\ Upto(S, j) \in Nat
  BY <1>0, <1>2
<1>. QED
  BY <1>3, <1>4, <1>5

LEMMA RanksTaken ==
  ASSUME NEW n \in Nat, NEW S \in SUBSET (1..n), NEW k \in 1..Cardinality(S)
  PROVE  \E i \in S : Upto(S, i) = k
<1> Counted(n, S)
  BY UptoCounts
<1> DEFINE Q == {m \in Nat : \A r \in 1..Upto(S, m) : \E i \in S : Upto(S, i) = r}
<1>1. Nat \subseteq Q
  <2>1. 0 \in Q
    BY DEF Counted
  <2>2. ASSUME NEW m \in Nat, m \in Q
        PROVE  m + 1 \in Q
    <3> SUFFICES ASSUME NEW r \in 1..Upto(S, m + 1)
                 PROVE  \E i \in S : Upto(S, i) = r
      OBVIOUS
    <3>1. Upto(S, m) \in Nat /\ Upto(S, m + 1) \in Nat
      BY DEF Counted
    <3>2. CASE r <= Upto(S, m)
      BY <2>2, <3>1, <3>2
    <3>3. CASE r > Upto(S, m)
      <4>1. Upto(S, m + 1) = IF m + 1 \in S THEN Upto(S, m) + 1 ELSE Upto(S, m)
        BY DEF Counted
      <4>2. m + 1 \in S /\ r = Upto(S, m + 1)
        BY <3>1, <3>3, <4>1
      <4>. QED
        BY <4>2
    <3>. QED
      BY <3>1, <3>2, <3>3
  <2> HIDE DEF Q
  <2>. QED
    BY <2>1, <2>2, CountingUp
<1>2. Upto(S, n) = Cardinality(S)
  BY DEF Counted
<1>. QED
  BY <1>1, <1>2

\* An element of a selection is the one of its index.
IsPick(picked, lines, S) ==
  /\ Cardinality(S) \in Nat
  /\ picked = [k \in 1..Cardinality(S) |-> picked[k]]
  /\ DOMAIN picked = 1..Cardinality(S) /\ Len(picked) = Cardinality(S)
  /\ \A i \in S : Upto(S, i) \in 1..Cardinality(S) /\ picked[Upto(S, i)] = lines[i]
  /\ \A k \in 1..Cardinality(S) : \E i \in S : Upto(S, i) = k /\ picked[k] = lines[i]

LEMMA Picked ==
  ASSUME NEW n \in Nat, NEW S \in SUBSET (1..n), NEW lines
  PROVE  IsPick(Pick(lines, S), lines, S)
<1> Counted(n, S)
  BY UptoCounts
<1>1. /\ Cardinality(S) \in 0..n /\ Upto(S, n) = Cardinality(S)
      /\ \A i \in Nat : Upto(S, i) \in Nat
      /\ \A i \in Nat : Upto(S, i + 1) = IF i + 1 \in S THEN Upto(S, i) + 1 ELSE Upto(S, i)
  BY DEF Counted
<1>2. \A i \in S : Upto(S, i) \in 1..Cardinality(S)
  <2> SUFFICES ASSUME NEW i \in S
               PROVE  Upto(S, i) \in 1..Cardinality(S)
    OBVIOUS
  <2>1. i \in 1..n /\ i \in Nat /\ i - 1 \in Nat /\ (i - 1) + 1 = i
    OBVIOUS
  <2>2. Upto(S, i) = Upto(S, i - 1) + 1 /\ Upto(S, i - 1) \in Nat
    BY <1>1, <2>1
  <2>3. Upto(S, n) = Cardinality(S) /\ (i < n => Upto(S, i) <= Upto(S, n))
    <3>1. ASSUME i < n
          PROVE  Upto(S, i) <= Upto(S, n)
      BY <2>1, <3>1, UptoGrows
    <3>. QED
      BY <1>1, <3>1
  <2>. QED
    BY <1>1, <2>1, <2>2, <2>3
<1>3. ASSUME NEW i \in S, NEW j \in S, Upto(S, i) = Upto(S, j)
      PROVE  i = j
  <2>1. i \in Nat /\ j \in Nat
    OBVIOUS
  <2>2. /\ Upto(S, i) \in Nat /\ Upto(S, j) \in Nat
        /\ i < j => Upto(S, i) < Upto(S, j)
        /\ j < i => Upto(S, j) < Upto(S, i)
    BY <1>1, <2>1, UptoGrows
  <2>. QED
    BY <1>3, <2>1, <2>2
<1>4. ASSUME NEW k \in 1..Cardinality(S), NEW i \in S, Upto(S, i) = k
      PROVE  Pick(lines, S)[k] = lines[i]
  <2> DEFINE c == CHOOSE j \in S : Upto(S, j) = k
  <2>1. Pick(lines, S)[k] = lines[c]
    BY Zenon DEF Pick, Upto
  <2>2. c \in S /\ Upto(S, c) = k
    BY <1>4
  <2>3. c = i
    BY <1>3, <1>4, <2>2
  <2>. QED
    BY <2>1, <2>3
<1>5. /\ DOMAIN Pick(lines, S) = 1..Cardinality(S) /\ Len(Pick(lines, S)) = Cardinality(S)
      /\ Pick(lines, S) = [k \in 1..Cardinality(S) |-> Pick(lines, S)[k]]
  <2> DEFINE N == Cardinality(S)
             e(k) == lines[CHOOSE i \in S : Cardinality({j \in S : j <= i}) = k]
  <2>1. Pick(lines, S) = [k \in 1..N |-> e(k)]
    BY Zenon DEF Pick
  <2>2. N \in Nat
    BY <1>1
  <2> HIDE DEF N, e
  <2>3. /\ DOMAIN Pick(lines, S) = 1..N /\ Len(Pick(lines, S)) = N
        /\ Pick(lines, S) = [k \in 1..N |-> Pick(lines, S)[k]]
    BY <2>1, <2>2
  <2>. QED
    BY <2>3 DEF N
<1>6. ASSUME NEW k \in 1..Cardinality(S)
      PROVE  \E i \in S : Upto(S, i) = k /\ Pick(lines, S)[k] = lines[i]
  BY <1>4, RanksTaken
<1>7. \A i \in S : Pick(lines, S)[Upto(S, i)] = lines[i]
  BY <1>2, <1>4
<1>8. Cardinality(S) \in Nat
  BY <1>1
<1>. QED
  BY <1>2, <1>5, <1>6, <1>7, <1>8, Zenon DEF IsPick

-----------------------------------------------------------------------------
(***************************************************************************)
(* Running sums.                                                           *)
(***************************************************************************)
LEMMA PlacesAdd ==
  ASSUME NEW sizes \in Seq(Nat)
  PROVE  /\ Len(sizes) \in Nat
         /\ DOMAIN Places(sizes) = 0..Len(sizes)
         /\ \A k \in 0..Len(sizes) : Places(sizes)[k] \in Nat
         /\ Places(sizes)[0] = 0
         /\ \A k \in 1..Len(sizes) : Places(sizes)[k] = Places(sizes)[k - 1] + sizes[k]
<1> DEFINE N == Len(sizes)
           Sums(f, n) == f = [k \in 0..n |-> IF k = 0 THEN 0 ELSE f[k - 1] + sizes[k]]
           Q == {n \in Nat : \E f : Sums(f, n)}
<1>1. N \in Nat /\ \A k \in 1..N : sizes[k] \in Nat
  OBVIOUS
<1>2. Nat \subseteq Q
  <2>1. 0 \in Q
    <3> DEFINE f == [k \in 0..0 |-> 0]
    <3>1. Sums(f, 0)
      OBVIOUS
    <3>. QED
      BY <3>1
  <2>2. ASSUME NEW n \in Nat, n \in Q
        PROVE  n + 1 \in Q
    <3>1. PICK f : Sums(f, n)
      BY <2>2
    <3> DEFINE g == [k \in 0..(n + 1) |-> IF k = n + 1 THEN f[n] + sizes[n + 1] ELSE f[k]]
    <3>2. ASSUME NEW k \in 0..(n + 1)
          PROVE  g[k] = IF k = 0 THEN 0 ELSE g[k - 1] + sizes[k]
      <4>1. CASE k = n + 1
        BY <4>1
      <4>2. CASE k \in 0..n
        <5>1. f[k] = IF k = 0 THEN 0 ELSE f[k - 1] + sizes[k]
          BY <3>1, <4>2
        <5>2. g[k] = f[k] /\ (k # 0 => g[k - 1] = f[k - 1])
          BY <4>2
        <5>. QED
          BY <5>1, <5>2
      <4>. QED
        BY <4>1, <4>2
    <3>3. Sums(g, n + 1)
      BY <3>2
    <3> HIDE DEF Sums, g
    <3>. QED
      BY <3>3
  <2> HIDE DEF Q
  <2>. QED
    BY <2>1, <2>2, CountingUp
<1> DEFINE P == Places(sizes)
<1>3. Sums(P, N)
  <2>1. P = CHOOSE f : Sums(f, N)
    BY DEF Places
  <2>2. \E f : Sums(f, N)
    BY <1>1, <1>2
  <2> HIDE DEF Sums, P
  <2>. QED
    BY <2>1, <2>2
<1>4. DOMAIN P = 0..N /\ \A k \in 0..N : P[k] = IF k = 0 THEN 0 ELSE P[k - 1] + sizes[k]
  <2> HIDE DEF P
  <2>1. \A k \in 0..N : P[k] = IF k = 0 THEN 0 ELSE P[k - 1] + sizes[k]
    BY <1>3
  <2>2. DOMAIN P = 0..N
    BY <1>3, Zenon
  <2>. QED
    BY <2>1, <2>2
<1> HIDE DEF P, Sums
<1>5. P[0] = 0 /\ \A k \in 1..N : P[k] = P[k - 1] + sizes[k]
  BY <1>1, <1>4
<1> DEFINE R == {n \in Nat : n <= N => P[n] \in Nat}
<1>6. Nat \subseteq R
  <2>1. 0 \in R
    BY <1>5
  <2>2. ASSUME NEW n \in Nat, n \in R
        PROVE  n + 1 \in R
    <3> SUFFICES ASSUME n + 1 <= N
                 PROVE  P[n + 1] \in Nat
      OBVIOUS
    <3>1. n + 1 \in 1..N /\ (n + 1) - 1 = n /\ n <= N
      BY <1>1
    <3>2. P[n] \in Nat /\ sizes[n + 1] \in Nat
      BY <1>1, <2>2, <3>1
    <3>. QED
      BY <1>5, <3>1, <3>2
  <2> HIDE DEF R
  <2>. QED
    BY <2>1, <2>2, CountingUp
<1>7. \A k \in 0..N : P[k] \in Nat
  BY <1>1, <1>6
<1>. QED
  BY <1>1, <1>4, <1>5, <1>7 DEF P

\* Sequences with the same beginning have the same places there.
LEMMA SameBeginning ==
  ASSUME NEW s \in Seq(Nat), NEW t \in Seq(Nat), NEW m \in Nat, m <= Len(s), m <= Len(t),
         \A k \in 1..m : s[k] = t[k]
  PROVE  \A k \in 0..m : Places(s)[k] = Places(t)[k]
<1> DEFINE P == Places(s) T == Places(t)
<1>1. /\ Len(s) \in Nat /\ P[0] = 0
      /\ \A k \in 1..Len(s) : P[k] = P[k - 1] + s[k]
  BY PlacesAdd
<1>2. /\ Len(t) \in Nat /\ T[0] = 0
      /\ \A k \in 1..Len(t) : T[k] = T[k - 1] + t[k]
  BY PlacesAdd
<1> HIDE DEF P, T
<1> DEFINE Q == {k \in Nat : k <= m => P[k] = T[k]}
<1>3. Nat \subseteq Q
  <2>1. 0 \in Q
    BY <1>1, <1>2
  <2>2. ASSUME NEW k \in Nat, k \in Q
        PROVE  k + 1 \in Q
    <3> SUFFICES ASSUME k + 1 <= m
                 PROVE  P[k + 1] = T[k + 1]
      OBVIOUS
    <3>1. k + 1 \in 1..m /\ k + 1 \in 1..Len(s) /\ k + 1 \in 1..Len(t) /\ (k + 1) - 1 = k /\ k <= m
      BY <1>1, <1>2
    <3>2. P[k] = T[k] /\ s[k + 1] = t[k + 1]
      BY <2>2, <3>1
    <3>3. P[k + 1] = P[k] + s[k + 1] /\ T[k + 1] = T[k] + t[k + 1]
      BY <1>1, <1>2, <3>1
    <3>. QED
      BY <3>2, <3>3
  <2> HIDE DEF Q
  <2>. QED
    BY <2>1, <2>2, CountingUp
<1>4. \A k \in 0..m : P[k] = T[k]
  BY <1>3
<1>. QED
  BY <1>4 DEF P, T

LEMMA PlacesGrow ==
  ASSUME NEW sizes \in Seq(Nat), NEW j \in 0..Len(sizes), NEW k \in j..Len(sizes)
  PROVE  Places(sizes)[j] <= Places(sizes)[k]
<1> DEFINE P == Places(sizes)
<1>1. /\ Len(sizes) \in Nat
      /\ \A i \in 1..Len(sizes) : P[i] = P[i - 1] + sizes[i] /\ sizes[i] \in Nat
      /\ \A i \in 0..Len(sizes) : P[i] \in Nat
  BY PlacesAdd
<1> HIDE DEF P
<1> DEFINE Q == {d \in Nat : j + d <= Len(sizes) => P[j] <= P[j + d]}
<1>2. Nat \subseteq Q
  <2>1. 0 \in Q
    BY <1>1
  <2>2. ASSUME NEW d \in Nat, d \in Q
        PROVE  d + 1 \in Q
    <3> SUFFICES ASSUME j + (d + 1) <= Len(sizes)
                 PROVE  P[j] <= P[j + (d + 1)]
      OBVIOUS
    <3>1. /\ j + (d + 1) \in 1..Len(sizes) /\ (j + (d + 1)) - 1 = j + d
          /\ j + d \in 0..Len(sizes) /\ j + d <= Len(sizes)
      BY <1>1
    <3>2. P[j] <= P[j + d]
      BY <2>2, <3>1
    <3>3. P[j + (d + 1)] = P[j + d] + sizes[j + (d + 1)] /\ sizes[j + (d + 1)] \in Nat
      BY <1>1, <3>1
    <3>4. P[j] \in Nat /\ P[j + d] \in Nat
      BY <1>1, <3>1
    <3>. QED
      BY <3>2, <3>3, <3>4
  <2> HIDE DEF Q
  <2>. QED
    BY <2>1, <2>2, CountingUp
<1>3. k - j \in Nat /\ j + (k - j) = k /\ k <= Len(sizes)
  BY <1>1
<1>4. P[j] <= P[k]
  BY <1>2, <1>3
<1>. QED
  BY <1>4 DEF P

\* The places of two sequences put together.
LEMMA PlacesTogether ==
  ASSUME NEW s \in Seq(Nat), NEW t \in Seq(Nat)
  PROVE  /\ s \o t \in Seq(Nat) /\ Len(s \o t) = Len(s) + Len(t)
         /\ \A k \in 0..Len(s) : Places(s \o t)[k] = Places(s)[k]
         /\ \A k \in 0..Len(t) : Places(s \o t)[Len(s) + k] = Total(s) + Places(t)[k]
<1> DEFINE u == s \o t
           P == Places(u) T == Places(t)
<1>1. /\ u \in Seq(Nat) /\ Len(u) = Len(s) + Len(t) /\ Len(s) \in Nat /\ Len(t) \in Nat
      /\ \A k \in 1..Len(s) : u[k] = s[k]
      /\ \A k \in 1..Len(t) : u[Len(s) + k] = t[k]
  OBVIOUS
<1>8. \A k \in 1..Len(t) : t[k] \in Nat
  OBVIOUS
<1> HIDE DEF u
<1>2. \A k \in 0..Len(s) : P[k] = Places(s)[k]
  <2>1. Len(s) \in Nat /\ Len(s) <= Len(s) /\ Len(s) <= Len(u)
    BY <1>1
  <2>2. \A k \in 1..Len(s) : u[k] = s[k]
    BY <1>1
  <2>. QED
    BY <1>1, <2>1, <2>2, SameBeginning
<1>3. /\ \A k \in 1..Len(u) : P[k] = P[k - 1] + u[k]
      /\ \A k \in 0..Len(u) : P[k] \in Nat
  BY <1>1, PlacesAdd
<1>4. /\ T[0] = 0 /\ \A k \in 1..Len(t) : T[k] = T[k - 1] + t[k]
      /\ \A k \in 0..Len(t) : T[k] \in Nat
  BY PlacesAdd
<1>5. Total(s) = P[Len(s)]
  BY <1>1, <1>2 DEF Total
<1> HIDE DEF P, T
<1> DEFINE Q == {k \in Nat : k <= Len(t) => P[Len(s) + k] = Total(s) + T[k]}
<1>6. Nat \subseteq Q
  <2>1. 0 \in Q
    <3>1. Len(s) + 0 = Len(s) /\ Total(s) \in Nat
      BY <1>1, <1>3, <1>5
    <3>. QED
      BY <1>4, <1>5, <3>1
  <2>2. ASSUME NEW k \in Nat, k \in Q
        PROVE  k + 1 \in Q
    <3> SUFFICES ASSUME k + 1 <= Len(t)
                 PROVE  P[Len(s) + (k + 1)] = Total(s) + T[k + 1]
      OBVIOUS
    <3>1. /\ k + 1 \in 1..Len(t) /\ (k + 1) - 1 = k /\ k <= Len(t) /\ k \in 0..Len(t)
          /\ Len(s) + (k + 1) \in 1..Len(u) /\ (Len(s) + (k + 1)) - 1 = Len(s) + k
      BY <1>1
    <3>2. P[Len(s) + k] = Total(s) + T[k]
      BY <2>2, <3>1
    <3>3. P[Len(s) + (k + 1)] = P[Len(s) + k] + u[Len(s) + (k + 1)] /\ T[k + 1] = T[k] + t[k + 1]
      BY <1>3, <1>4, <3>1
    <3>4. u[Len(s) + (k + 1)] = t[k + 1] /\ t[k + 1] \in Nat
      <4> DEFINE j == k + 1
      <4>1. j \in 1..Len(t)
        BY <3>1
      <4> HIDE DEF j
      <4>2. u[Len(s) + j] = t[j] /\ t[j] \in Nat
        BY <1>1, <1>8, <4>1, Zenon
      <4>. QED
        BY <4>2 DEF j
    <3>5. T[k] \in Nat
      BY <1>4, <3>1
    <3>6. Total(s) \in Nat
      <4>1. Len(s) \in 0..Len(u)
        BY <1>1
      <4>. QED
        BY <1>3, <1>5, <4>1
    <3>. QED
      BY <3>2, <3>3, <3>4, <3>5, <3>6
  <2> HIDE DEF Q
  <2>. QED
    BY <2>1, <2>2, CountingUp
<1>7. \A k \in 0..Len(t) : P[Len(s) + k] = Total(s) + T[k]
  BY <1>1, <1>6
<1>. QED
  BY <1>1, <1>2, <1>7 DEF u, P, T

LEMMA TotalTogether ==
  ASSUME NEW s \in Seq(Nat), NEW t \in Seq(Nat)
  PROVE  Total(s) \in Nat /\ Total(t) \in Nat /\ Total(s \o t) = Total(s) + Total(t)
<1>1. Len(s) \in Nat /\ Len(t) \in Nat /\ Total(s) \in Nat /\ Total(t) \in Nat
  BY PlacesAdd DEF Total
<1>2. Len(s \o t) = Len(s) + Len(t) /\ Places(s \o t)[Len(s) + Len(t)] = Total(s) + Places(t)[Len(t)]
  BY <1>1, PlacesTogether
<1>. QED
  BY <1>1, <1>2 DEF Total

-----------------------------------------------------------------------------
(***************************************************************************)
(* The sum of what stands at the indexes of a set.                         *)
(***************************************************************************)
Masked(sizes, S) == [i \in 1..Len(sizes) |-> IF i \in S THEN sizes[i] ELSE 0]
Mass(sizes, S) == Total(Masked(sizes, S))

LEMMA MaskedSizes ==
  ASSUME NEW sizes \in Seq(Nat), NEW S
  PROVE  /\ Masked(sizes, S) \in Seq(Nat) /\ Len(Masked(sizes, S)) = Len(sizes) /\ Len(sizes) \in Nat
         /\ \A i \in 1..Len(sizes) : Masked(sizes, S)[i] = IF i \in S THEN sizes[i] ELSE 0
         /\ Mass(sizes, S) \in Nat
<1>1. Len(sizes) \in Nat /\ \A i \in 1..Len(sizes) : sizes[i] \in Nat
  OBVIOUS
<1>2. /\ Masked(sizes, S) \in Seq(Nat) /\ Len(Masked(sizes, S)) = Len(sizes)
      /\ \A i \in 1..Len(sizes) : Masked(sizes, S)[i] = IF i \in S THEN sizes[i] ELSE 0
  BY <1>1 DEF Masked
<1>3. Mass(sizes, S) \in Nat
  <2>1. \A k \in 0..Len(Masked(sizes, S)) : Places(Masked(sizes, S))[k] \in Nat
    BY <1>2, PlacesAdd
  <2>. QED
    BY <1>1, <1>2, <2>1 DEF Mass, Total
<1>. QED
  BY <1>1, <1>2, <1>3

LEMMA MassAdds ==
  ASSUME NEW sizes \in Seq(Nat), NEW S, NEW T, S \cap T = {}
  PROVE  Mass(sizes, S \cup T) = Mass(sizes, S) + Mass(sizes, T)
<1> DEFINE N == Len(sizes)
           s == Masked(sizes, S) t == Masked(sizes, T) u == Masked(sizes, S \cup T)
           P == Places(s) R == Places(t) U == Places(u)
<1>1. /\ N \in Nat /\ s \in Seq(Nat) /\ t \in Seq(Nat) /\ u \in Seq(Nat)
      /\ Len(s) = N /\ Len(t) = N /\ Len(u) = N
  BY MaskedSizes
<1>2. ASSUME NEW i \in 1..N
      PROVE  u[i] = s[i] + t[i] /\ s[i] \in Nat /\ t[i] \in Nat
  <2>1. /\ u[i] = IF i \in S \cup T THEN sizes[i] ELSE 0
        /\ s[i] = IF i \in S THEN sizes[i] ELSE 0
        /\ t[i] = IF i \in T THEN sizes[i] ELSE 0
    BY DEF Masked
  <2>2. sizes[i] \in Nat
    OBVIOUS
  <2>. QED
    BY <2>1, <2>2
<1> HIDE DEF s, t, u
<1>3. /\ P[0] = 0 /\ \A k \in 1..N : P[k] = P[k - 1] + s[k]
      /\ \A k \in 0..N : P[k] \in Nat
  BY <1>1, PlacesAdd
<1>4. /\ R[0] = 0 /\ \A k \in 1..N : R[k] = R[k - 1] + t[k]
      /\ \A k \in 0..N : R[k] \in Nat
  BY <1>1, PlacesAdd
<1>5. U[0] = 0 /\ \A k \in 1..N : U[k] = U[k - 1] + u[k]
  BY <1>1, PlacesAdd
<1> HIDE DEF P, R, U
<1> DEFINE Q == {k \in Nat : k <= N => U[k] = P[k] + R[k]}
<1>6. Nat \subseteq Q
  <2>1. 0 \in Q
    BY <1>3, <1>4, <1>5
  <2>2. ASSUME NEW k \in Nat, k \in Q
        PROVE  k + 1 \in Q
    <3> SUFFICES ASSUME k + 1 <= N
                 PROVE  U[k + 1] = P[k + 1] + R[k + 1]
      OBVIOUS
    <3>1. k + 1 \in 1..N /\ (k + 1) - 1 = k /\ k <= N /\ k \in 0..N
      BY <1>1
    <3>2. U[k] = P[k] + R[k] /\ P[k] \in Nat /\ R[k] \in Nat
      BY <1>3, <1>4, <2>2, <3>1
    <3>3. U[k + 1] = U[k] + u[k + 1] /\ P[k + 1] = P[k] + s[k + 1] /\ R[k + 1] = R[k] + t[k + 1]
      BY <1>3, <1>4, <1>5, <3>1
    <3>4. u[k + 1] = s[k + 1] + t[k + 1] /\ s[k + 1] \in Nat /\ t[k + 1] \in Nat
      BY <1>2, <3>1
    <3>. QED
      BY <3>2, <3>3, <3>4
  <2> HIDE DEF Q
  <2>. QED
    BY <2>1, <2>2, CountingUp
<1>7. U[N] = P[N] + R[N]
  BY <1>1, <1>6
<1>. QED
  BY <1>1, <1>7 DEF Mass, Total, U, P, R, s, t, u, N

\* Sets that differ in indexes of nothing only have the same mass.
LEMMA MassSame ==
  ASSUME NEW sizes \in Seq(Nat), NEW S, NEW T,
         \A i \in 1..Len(sizes) : sizes[i] = 0 \/ (i \in S <=> i \in T)
  PROVE  Mass(sizes, S) = Mass(sizes, T)
<1>1. \A i \in 1..Len(sizes) :
        (IF i \in S THEN sizes[i] ELSE 0) = (IF i \in T THEN sizes[i] ELSE 0)
  OBVIOUS
<1>2. Masked(sizes, S) = Masked(sizes, T)
  BY <1>1 DEF Masked
<1>. QED
  BY <1>2 DEF Mass

LEMMA MassGrows ==
  ASSUME NEW sizes \in Seq(Nat), NEW S, NEW T, S \subseteq T
  PROVE  Mass(sizes, S) <= Mass(sizes, T)
<1>1. S \cup (T \ S) = T /\ S \cap (T \ S) = {}
  OBVIOUS
<1>2. Mass(sizes, T) = Mass(sizes, S) + Mass(sizes, T \ S)
  BY <1>1, MassAdds
<1>3. Mass(sizes, S) \in Nat /\ Mass(sizes, T \ S) \in Nat
  BY MaskedSizes
<1>. QED
  BY <1>2, <1>3

LEMMA MassOfAll ==
  ASSUME NEW sizes \in Seq(Nat)
  PROVE  Mass(sizes, 1..Len(sizes)) = Total(sizes) /\ Mass(sizes, {}) = 0
<1>1. Masked(sizes, 1..Len(sizes)) = sizes
  BY DEF Masked
<1>2. Mass(sizes, {}) = Mass(sizes, {}) + Mass(sizes, {})
  <2>1. {} \cup {} = {} /\ {} \cap {} = {}
    OBVIOUS
  <2>. QED
    BY <2>1, MassAdds
<1>3. Mass(sizes, {}) \in Nat
  BY MaskedSizes
<1>. QED
  BY <1>1, <1>2, <1>3 DEF Mass

\* What is picked is placed with the gaps closed.
LEMMA PickedPlaces ==
  ASSUME NEW sizes \in Seq(Nat), NEW S \in SUBSET (1..Len(sizes))
  PROVE  /\ Pick(sizes, S) \in Seq(Nat)
         /\ \A i \in 0..Len(sizes) : Places(Pick(sizes, S))[Upto(S, i)] = Places(Masked(sizes, S))[i]
<1> DEFINE N == Len(sizes) s == Pick(sizes, S) m == Masked(sizes, S)
           P == Places(s) M == Places(m)
<1>1. N \in Nat /\ \A i \in 1..N : sizes[i] \in Nat
  OBVIOUS
<1>2. Counted(N, S) /\ IsPick(s, sizes, S)
  BY <1>1, UptoCounts, Picked
<1> HIDE DEF s
<1>3. s \in Seq(Nat) /\ Len(s) = Cardinality(S)
  <2>1. \A k \in 1..Cardinality(S) : s[k] \in Nat
    BY <1>1, <1>2 DEF IsPick
  <2>2. Cardinality(S) \in Nat /\ s \in [1..Cardinality(S) -> Nat]
    BY <1>2, <2>1 DEF IsPick
  <2>3. Len(s) = Cardinality(S)
    BY <1>2 DEF IsPick
  <2>. QED
    BY <2>2, <2>3, SeqDef
<1>4. /\ m \in Seq(Nat) /\ Len(m) = N
      /\ \A i \in 1..N : m[i] = IF i \in S THEN sizes[i] ELSE 0
  BY MaskedSizes
<1> HIDE DEF m
<1>5. P[0] = 0 /\ \A k \in 1..Len(s) : P[k] = P[k - 1] + s[k]
  BY <1>3, PlacesAdd
<1>6. /\ M[0] = 0 /\ \A i \in 1..N : M[i] = M[i - 1] + m[i]
      /\ \A i \in 0..N : M[i] \in Nat
  BY <1>4, PlacesAdd
<1>7. /\ Upto(S, 0) = 0
      /\ \A i \in Nat : Upto(S, i) \in Nat
  BY <1>2 DEF Counted
<1>8. ASSUME NEW i \in Nat
      PROVE  Upto(S, i + 1) = IF i + 1 \in S THEN Upto(S, i) + 1 ELSE Upto(S, i)
  BY <1>2 DEF Counted
<1> HIDE DEF P, M
<1> DEFINE Q == {i \in Nat : i <= N => P[Upto(S, i)] = M[i]}
<1>9. Nat \subseteq Q
  <2>1. 0 \in Q
    BY <1>5, <1>6, <1>7
  <2>2. ASSUME NEW i \in Nat, i \in Q
        PROVE  i + 1 \in Q
    <3> SUFFICES ASSUME i + 1 <= N
                 PROVE  P[Upto(S, i + 1)] = M[i + 1]
      OBVIOUS
    <3>1. i + 1 \in 1..N /\ (i + 1) - 1 = i /\ i <= N /\ i \in 0..N
      BY <1>1
    <3>2. P[Upto(S, i)] = M[i] /\ M[i] \in Nat
      BY <1>6, <2>2, <3>1
    <3>3. M[i + 1] = M[i] + m[i + 1]
      BY <1>6, <3>1
    <3>4. CASE i + 1 \in S
      <4>1. Upto(S, i + 1) = Upto(S, i) + 1 /\ Upto(S, i) \in Nat
        BY <1>7, <1>8, <3>4
      <4>2. Upto(S, i + 1) \in 1..Len(s) /\ s[Upto(S, i + 1)] = sizes[i + 1]
        BY <1>2, <1>3, <3>4 DEF IsPick
      <4>3. P[Upto(S, i + 1)] = P[Upto(S, i)] + sizes[i + 1]
        <5>1. Upto(S, i + 1) - 1 = Upto(S, i)
          BY <4>1
        <5>. QED
          BY <1>5, <4>2, <5>1
      <4>4. m[i + 1] = sizes[i + 1]
        BY <1>4, <3>1, <3>4
      <4>. QED
        BY <3>2, <3>3, <4>3, <4>4
    <3>5. CASE i + 1 \notin S
      <4>1. Upto(S, i + 1) = Upto(S, i)
        BY <1>8, <3>5
      <4>2. m[i + 1] = 0
        BY <1>4, <3>1, <3>5
      <4>. QED
        BY <3>2, <3>3, <4>1, <4>2
    <3>. QED
      BY <3>4, <3>5
  <2> HIDE DEF Q
  <2>. QED
    BY <2>1, <2>2, CountingUp
<1>10. \A i \in 0..N : P[Upto(S, i)] = M[i]
  BY <1>1, <1>9
<1>. QED
  BY <1>3, <1>10 DEF s, m, P, M

LEMMA PickedTotal ==
  ASSUME NEW sizes \in Seq(Nat), NEW S \in SUBSET (1..Len(sizes))
  PROVE  Total(Pick(sizes, S)) = Mass(sizes, S)
<1>1. Len(sizes) \in Nat /\ Len(Masked(sizes, S)) = Len(sizes)
  BY MaskedSizes
<1>2. Places(Pick(sizes, S))[Upto(S, Len(sizes))] = Places(Masked(sizes, S))[Len(sizes)]
  <2>1. Len(sizes) \in 0..Len(sizes)
    BY <1>1
  <2>. QED
    BY <2>1, PickedPlaces, Zenon
<1>3. Len(Pick(sizes, S)) = Cardinality(S)
  BY <1>1, Picked DEF IsPick
<1>4. Upto(S, Len(sizes)) = Cardinality(S)
  BY <1>1, UptoCounts DEF Counted
<1>. QED
  BY <1>1, <1>2, <1>3, <1>4 DEF Mass, Total

\* A part of a sequence is what stands at its indexes.
LEMMA SliceIsPick ==
  ASSUME NEW T, NEW lines \in Seq(T), NEW a \in 1..(Len(lines) + 1), NEW b \in (a - 1)..Len(lines)
  PROVE  SubSeq(lines, a, b) = Pick(lines, a..b)
<1> DEFINE N == Len(lines) S == a..b
           s == SubSeq(lines, a, b) p == Pick(lines, S)
<1>1. N \in Nat /\ a \in Nat /\ b \in Nat /\ a >= 1 /\ b <= N /\ a - 1 <= b
  OBVIOUS
<1>2. S \in SUBSET (1..N)
  BY <1>1
<1>3. ASSUME NEW i \in S
      PROVE  Upto(S, i) = i - a + 1
  <2>1. {j \in S : j <= i} = a..i
    <3>1. \A j : j \in {k \in S : k <= i} <=> j \in a..i
      BY <1>1
    <3>. QED
      BY <3>1
  <2>2. a \in Int /\ i \in Int /\ ~(a > i)
    BY <1>1
  <2>3. Cardinality(a..i) = i - a + 1
    BY <2>2, FS_Interval
  <2>. QED
    BY <2>1, <2>3 DEF Upto
<1>4. Cardinality(S) = b - a + 1
  <2>1. a \in Int /\ b \in Int /\ (a > b => b - a + 1 = 0)
    BY <1>1
  <2>2. Cardinality(a..b) = IF a > b THEN 0 ELSE b - a + 1
    BY <2>1, FS_Interval
  <2>. QED
    BY <2>1, <2>2
<1>5. IsPick(p, lines, S)
  BY <1>1, <1>2, Picked
<1>6. s = [k \in 1..(b - a + 1) |-> lines[a + k - 1]]
  BY <1>1
<1> HIDE DEF S, p, s
<1>7. ASSUME NEW k \in 1..(b - a + 1)
      PROVE  p[k] = lines[a + k - 1]
  <2>1. PICK i \in S : Upto(S, i) = k /\ p[k] = lines[i]
    BY <1>4, <1>5 DEF IsPick
  <2>2. k = i - a + 1 /\ i \in Int
    BY <1>1, <1>3, <2>1 DEF S
  <2>3. i = a + k - 1
    BY <1>1, <2>2
  <2>. QED
    BY <2>1, <2>3
<1>8. p = [k \in 1..(b - a + 1) |-> p[k]]
  BY <1>4, <1>5 DEF IsPick
<1>9. p = [k \in 1..(b - a + 1) |-> lines[a + k - 1]]
  BY <1>7, <1>8
<1>. QED
  BY <1>6, <1>9 DEF s, p, S

LEMMA SlicedTotal ==
  ASSUME NEW sizes \in Seq(Nat), NEW a \in 1..(Len(sizes) + 1), NEW b \in (a - 1)..Len(sizes)
  PROVE  Total(SubSeq(sizes, a, b)) = Mass(sizes, a..b)
<1>1. a..b \in SUBSET (1..Len(sizes))
  OBVIOUS
<1>2. SubSeq(sizes, a, b) = Pick(sizes, a..b)
  BY SliceIsPick
<1>. QED
  BY <1>1, <1>2, PickedTotal

\* Disjoint sets of indexes weigh together what they weigh one by one.
LEMMA PartsAdd ==
  ASSUME NEW sizes \in Seq(Nat), NEW n \in Nat, NEW parts,
         \A j, k \in 1..n : j # k => parts[j] \cap parts[k] = {}
  PROVE  Total([k \in 1..n |-> Mass(sizes, parts[k])]) = Mass(sizes, UNION {parts[k] : k \in 1..n})
<1> DEFINE s == [k \in 1..n |-> Mass(sizes, parts[k])]
           P == Places(s)
           Union(k) == UNION {parts[j] : j \in 1..k}
           Q == {k \in Nat : k <= n => P[k] = Mass(sizes, Union(k))}
<1>1. \A S : Mass(sizes, S) \in Nat
  BY MaskedSizes
<1>2. s \in Seq(Nat) /\ Len(s) = n /\ \A k \in 1..n : s[k] = Mass(sizes, parts[k])
  BY <1>1
<1> HIDE DEF s
<1>3. P[0] = 0 /\ \A k \in 1..n : P[k] = P[k - 1] + s[k]
  BY <1>2, PlacesAdd
<1> HIDE DEF P
<1>4. Nat \subseteq Q
  <2>1. 0 \in Q
    <3>1. Union(0) = {}
      OBVIOUS
    <3>. QED
      BY <1>3, <3>1, MassOfAll
  <2>2. ASSUME NEW k \in Nat, k \in Q
        PROVE  k + 1 \in Q
    <3> SUFFICES ASSUME k + 1 <= n
                 PROVE  P[k + 1] = Mass(sizes, Union(k + 1))
      OBVIOUS
    <3>1. k + 1 \in 1..n /\ (k + 1) - 1 = k /\ k <= n
      OBVIOUS
    <3>2. P[k] = Mass(sizes, Union(k))
      BY <2>2, <3>1
    <3>3. P[k + 1] = P[k] + Mass(sizes, parts[k + 1])
      BY <1>2, <1>3, <3>1
    <3>4. Union(k + 1) = Union(k) \cup parts[k + 1]
      <4>1. 1..(k + 1) = 1..k \cup {k + 1}
        OBVIOUS
      <4>. QED
        BY <4>1
    <3>5. Union(k) \cap parts[k + 1] = {}
      <4>1. \A j \in 1..k : j \in 1..n /\ j # k + 1
        BY <3>1
      <4>2. \A j \in 1..k : parts[j] \cap parts[k + 1] = {}
        BY <3>1, <4>1
      <4>. QED
        BY <4>2
    <3> HIDE DEF Union
    <3>. QED
      BY <3>2, <3>3, <3>4, <3>5, MassAdds
  <2> HIDE DEF Q
  <2>. QED
    BY <2>1, <2>2, CountingUp
<1>5. P[n] = Mass(sizes, Union(n))
  BY <1>4
<1>. QED
  BY <1>2, <1>5 DEF Total, P, s

-----------------------------------------------------------------------------
(***************************************************************************)
(* The tables: which fields each instruction has, and its fixed part.      *)
(***************************************************************************)
LEMMA MergedTables ==
  ASSUME NEW tables
  PROVE  /\ \A op : op \in DOMAIN Merged(tables) <=> \E t \in tables : op \in DOMAIN t
         /\ \A t \in tables : \A op \in DOMAIN t :
              (\A u \in tables : op \in DOMAIN u => u = t) => Merged(tables)[op] = t[op]
BY DEF Merged

\* The instructions ops have these fields in a table.
Gives(table, ops, fields) == \A op \in ops : op \in DOMAIN table /\ table[op] = fields
\* The table has no instruction but these.
Only(table, ops) == \A op \in DOMAIN table : op \in ops

\* Of three tables without common instructions, merged, each gives what it gives.
LEMMA MergedThree ==
  ASSUME NEW a, NEW b, NEW c, NEW ofA, NEW ofB, NEW ofC,
         \A op \in DOMAIN a : a[op] = ofA,
         \A op \in DOMAIN b : b[op] = ofB,
         \A op \in DOMAIN c : c[op] = ofC,
         DOMAIN a \cap DOMAIN b = {}, DOMAIN a \cap DOMAIN c = {},
         DOMAIN b \cap DOMAIN c = {}
  PROVE  /\ Gives(Merged({a, b, c}), DOMAIN a, ofA)
         /\ Gives(Merged({a, b, c}), DOMAIN b, ofB)
         /\ Gives(Merged({a, b, c}), DOMAIN c, ofC)
<1>1. Gives(Merged({a, b, c}), DOMAIN a, ofA)
  BY MergedTables DEF Gives
<1>2. Gives(Merged({a, b, c}), DOMAIN b, ofB)
  BY MergedTables DEF Gives
<1>3. Gives(Merged({a, b, c}), DOMAIN c, ofC)
  BY MergedTables DEF Gives
<1>. QED
  BY <1>1, <1>2, <1>3

LEMMA NopTable ==
  /\ Gives(NopLayout, {"nop"}, <<>>)
  /\ Only(NopLayout, {"nop"})
BY DEF NopLayout, Gives, Only

LEMMA IntegerTable ==
  /\ Gives(IntegerLayout, {"izero", "iinc", "idec"}, One)
  /\ Gives(IntegerLayout, {"istore"}, Two)
  /\ Gives(IntegerLayout, {"iadd", "isub", "imul", "idiv", "ilt", "ilte", "igt", "igte",
                           "ieq"}, Three)
  /\ Only(IntegerLayout, {"izero", "iinc", "idec", "istore", "iadd", "isub", "imul",
                          "idiv", "ilt", "ilte", "igt", "igte", "ieq"})
<1> DEFINE a == [op \in {"izero", "iinc", "idec"} |-> One]
           b == [op \in {"istore"} |-> Two]
           c == [op \in {"iadd", "isub", "imul", "idiv", "ilt", "ilte", "igt", "igte",
                         "ieq"} |-> Three]
<1>1. /\ DOMAIN a = {"izero", "iinc", "idec"}
      /\ \A op \in DOMAIN a : a[op] = One
  OBVIOUS
<1>2. /\ DOMAIN b = {"istore"}
      /\ \A op \in DOMAIN b : b[op] = Two
  OBVIOUS
<1>3. /\ DOMAIN c = {"iadd", "isub", "imul", "idiv", "ilt", "ilte", "igt", "igte", "ieq"}
      /\ \A op \in DOMAIN c : c[op] = Three
  OBVIOUS
<1>4. IntegerLayout = Merged({a, b, c})
  BY DEF IntegerLayout
<1> HIDE DEF a, b, c
<1>5. /\ DOMAIN a \cap DOMAIN b = {}
      /\ DOMAIN a \cap DOMAIN c = {}
      /\ DOMAIN b \cap DOMAIN c = {}
  BY <1>1, <1>2, <1>3
<1>6. /\ Gives(IntegerLayout, DOMAIN a, One)
      /\ Gives(IntegerLayout, DOMAIN b, Two)
      /\ Gives(IntegerLayout, DOMAIN c, Three)
  BY <1>1, <1>2, <1>3, <1>4, <1>5, MergedThree
<1>7. Only(IntegerLayout, {"izero", "iinc", "idec", "istore", "iadd", "isub", "imul",
                           "idiv", "ilt", "ilte", "igt", "igte", "ieq"})
  BY <1>1, <1>2, <1>3, <1>4, MergedTables DEF Only
<1>. QED
  BY <1>1, <1>2, <1>3, <1>6, <1>7

LEMMA FloatTable ==
  /\ Gives(FloatLayout, {"fstore"}, <<"operand", "float">>)
  /\ Gives(FloatLayout, {"fadd", "fsub", "fmul", "fdiv", "flt", "flte", "fgt", "fgte",
                         "feq"}, Three)
  /\ Only(FloatLayout, {"fstore", "fadd", "fsub", "fmul", "fdiv", "flt", "flte", "fgt",
                        "fgte", "feq"})
<1> DEFINE a == [op \in {"fstore"} |-> <<"operand", "float">>]
           b == [op \in {"fadd", "fsub", "fmul", "fdiv", "flt", "flte", "fgt", "fgte",
                         "feq"} |-> Three]
<1>1. /\ DOMAIN a = {"fstore"}
      /\ \A op \in DOMAIN a : a[op] = <<"operand", "float">>
  OBVIOUS
<1>2. /\ DOMAIN b = {"fadd", "fsub", "fmul", "fdiv", "flt", "flte", "fgt", "fgte", "feq"}
      /\ \A op \in DOMAIN b : b[op] = Three
  OBVIOUS
<1>3. FloatLayout = Merged({a, b})
  BY DEF FloatLayout
<1> HIDE DEF a, b
<1>. QED
  BY <1>1, <1>2, <1>3, MergedTables DEF Gives, Only

LEMMA ByteTable ==
  /\ Gives(ByteLayout, {"bstore"}, <<"operand", "byte">>)
  /\ Only(ByteLayout, {"bstore"})
BY DEF ByteLayout, Gives, Only

LEMMA CastTable ==
  /\ Gives(CastLayout, {"itof", "ftoi", "stoi", "stof"}, Two)
  /\ Only(CastLayout, {"itof", "ftoi", "stoi", "stof"})
BY DEF CastLayout, Gives, Only

LEMMA StringTable ==
  /\ Gives(StringLayout, {"strstore"}, Named)
  /\ Only(StringLayout, {"strstore"})
BY DEF StringLayout, Gives, Only

LEMMA VectorTable ==
  /\ Gives(VectorLayout, {"vec"}, One)
  /\ Gives(VectorLayout, {"vpush", "vlen"}, Two)
  /\ Gives(VectorLayout, {"vinsert", "vpop", "vat"}, Three)
  /\ Only(VectorLayout, {"vec", "vpush", "vlen", "vinsert", "vpop", "vat"})
<1> DEFINE a == [op \in {"vec"} |-> One]
           b == [op \in {"vpush", "vlen"} |-> Two]
           c == [op \in {"vinsert", "vpop", "vat"} |-> Three]
<1>1. /\ DOMAIN a = {"vec"}
      /\ \A op \in DOMAIN a : a[op] = One
  OBVIOUS
<1>2. /\ DOMAIN b = {"vpush", "vlen"}
      /\ \A op \in DOMAIN b : b[op] = Two
  OBVIOUS
<1>3. /\ DOMAIN c = {"vinsert", "vpop", "vat"}
      /\ \A op \in DOMAIN c : c[op] = Three
  OBVIOUS
<1>4. VectorLayout = Merged({a, b, c})
  BY DEF VectorLayout
<1> HIDE DEF a, b, c
<1>5. /\ DOMAIN a \cap DOMAIN b = {}
      /\ DOMAIN a \cap DOMAIN c = {}
      /\ DOMAIN b \cap DOMAIN c = {}
  BY <1>1, <1>2, <1>3
<1>6. /\ Gives(VectorLayout, DOMAIN a, One)
      /\ Gives(VectorLayout, DOMAIN b, Two)
      /\ Gives(VectorLayout, DOMAIN c, Three)
  BY <1>1, <1>2, <1>3, <1>4, <1>5, MergedThree
<1>7. Only(VectorLayout, {"vec", "vpush", "vlen", "vinsert", "vpop", "vat"})
  BY <1>1, <1>2, <1>3, <1>4, MergedTables DEF Only
<1>. QED
  BY <1>1, <1>2, <1>3, <1>6, <1>7

LEMMA LogicTable ==
  /\ Gives(LogicLayout, {"not"}, One)
  /\ Gives(LogicLayout, {"and", "or"}, Three)
  /\ Only(LogicLayout, {"not", "and", "or"})
<1> DEFINE a == [op \in {"not"} |-> One]
           b == [op \in {"and", "or"} |-> Three]
<1>1. /\ DOMAIN a = {"not"}
      /\ \A op \in DOMAIN a : a[op] = One
  OBVIOUS
<1>2. /\ DOMAIN b = {"and", "or"}
      /\ \A op \in DOMAIN b : b[op] = Three
  OBVIOUS
<1>3. LogicLayout = Merged({a, b})
  BY DEF LogicLayout
<1> HIDE DEF a, b
<1>. QED
  BY <1>1, <1>2, <1>3, MergedTables DEF Gives, Only

LEMMA RegisterTable ==
  /\ Gives(RegisterLayout, {"free", "empty", "tmpri", "tmpro"}, One)
  /\ Gives(RegisterLayout, {"ress"}, <<"set">>)
  /\ Gives(RegisterLayout, {"move", "copy", "ref", "swap", "isnull"}, Two)
  /\ Only(RegisterLayout, {"free", "empty", "tmpri", "tmpro", "ress", "move", "copy",
                           "ref", "swap", "isnull"})
<1> DEFINE a == [op \in {"free", "empty", "tmpri", "tmpro"} |-> One]
           b == [op \in {"ress"} |-> <<"set">>]
           c == [op \in {"move", "copy", "ref", "swap", "isnull"} |-> Two]
<1>1. /\ DOMAIN a = {"free", "empty", "tmpri", "tmpro"}
      /\ \A op \in DOMAIN a : a[op] = One
  OBVIOUS
<1>2. /\ DOMAIN b = {"ress"}
      /\ \A op \in DOMAIN b : b[op] = <<"set">>
  OBVIOUS
<1>3. /\ DOMAIN c = {"move", "copy", "ref", "swap", "isnull"}
      /\ \A op \in DOMAIN c : c[op] = Two
  OBVIOUS
<1>4. RegisterLayout = Merged({a, b, c})
  BY DEF RegisterLayout
<1> HIDE DEF a, b, c
<1>5. /\ DOMAIN a \cap DOMAIN b = {}
      /\ DOMAIN a \cap DOMAIN c = {}
      /\ DOMAIN b \cap DOMAIN c = {}
  BY <1>1, <1>2, <1>3
<1>6. /\ Gives(RegisterLayout, DOMAIN a, One)
      /\ Gives(RegisterLayout, DOMAIN b, <<"set">>)
      /\ Gives(RegisterLayout, DOMAIN c, Two)
  BY <1>1, <1>2, <1>3, <1>4, <1>5, MergedThree
<1>7. Only(RegisterLayout, {"free", "empty", "tmpri", "tmpro", "ress", "move", "copy",
                            "ref", "swap", "isnull"})
  BY <1>1, <1>2, <1>3, <1>4, MergedTables DEF Only
<1>. QED
  BY <1>1, <1>2, <1>3, <1>6, <1>7

LEMMA OutputTable ==
  /\ Gives(OutputLayout, {"print", "echo"}, One)
  /\ Only(OutputLayout, {"print", "echo"})
BY DEF OutputLayout, Gives, Only

LEMMA ClosureTable ==
  /\ Gives(ClosureLayout, {"clbind"}, One)
  /\ Gives(ClosureLayout, {"closure", "function"}, Named)
  /\ Gives(ClosureLayout, {"fcall"}, Two)
  /\ Only(ClosureLayout, {"clbind", "closure", "function", "fcall"})
<1> DEFINE a == [op \in {"clbind"} |-> One]
           b == [op \in {"closure", "function"} |-> Named]
           c == [op \in {"fcall"} |-> Two]
<1>1. /\ DOMAIN a = {"clbind"}
      /\ \A op \in DOMAIN a : a[op] = One
  OBVIOUS
<1>2. /\ DOMAIN b = {"closure", "function"}
      /\ \A op \in DOMAIN b : b[op] = Named
  OBVIOUS
<1>3. /\ DOMAIN c = {"fcall"}
      /\ \A op \in DOMAIN c : c[op] = Two
  OBVIOUS
<1>4. ClosureLayout = Merged({a, b, c})
  BY DEF ClosureLayout
<1> HIDE DEF a, b, c
<1>5. /\ DOMAIN a \cap DOMAIN b = {}
      /\ DOMAIN a \cap DOMAIN c = {}
      /\ DOMAIN b \cap DOMAIN c = {}
  BY <1>1, <1>2, <1>3
<1>6. /\ Gives(ClosureLayout, DOMAIN a, One)
      /\ Gives(ClosureLayout, DOMAIN b, Named)
      /\ Gives(ClosureLayout, DOMAIN c, Two)
  BY <1>1, <1>2, <1>3, <1>4, <1>5, MergedThree
<1>7. Only(ClosureLayout, {"clbind", "closure", "function", "fcall"})
  BY <1>1, <1>2, <1>3, <1>4, MergedTables DEF Only
<1>. QED
  BY <1>1, <1>2, <1>3, <1>6, <1>7

LEMMA CallTable ==
  /\ Gives(CallLayout, {"frame", "param", "paref", "arg"}, Two)
  /\ Gives(CallLayout, {"argc"}, One)
  /\ Gives(CallLayout, {"call"}, Named)
  /\ Only(CallLayout, {"frame", "param", "paref", "arg", "argc", "call"})
<1> DEFINE a == [op \in {"frame", "param", "paref", "arg"} |-> Two]
           b == [op \in {"argc"} |-> One]
           c == [op \in {"call"} |-> Named]
<1>1. /\ DOMAIN a = {"frame", "param", "paref", "arg"}
      /\ \A op \in DOMAIN a : a[op] = Two
  OBVIOUS
<1>2. /\ DOMAIN b = {"argc"}
      /\ \A op \in DOMAIN b : b[op] = One
  OBVIOUS
<1>3. /\ DOMAIN c = {"call"}
      /\ \A op \in DOMAIN c : c[op] = Named
  OBVIOUS
<1>4. CallLayout = Merged({a, b, c})
  BY DEF CallLayout
<1> HIDE DEF a, b, c
<1>5. /\ DOMAIN a \cap DOMAIN b = {}
      /\ DOMAIN a \cap DOMAIN c = {}
      /\ DOMAIN b \cap DOMAIN c = {}
  BY <1>1, <1>2, <1>3
<1>6. /\ Gives(CallLayout, DOMAIN a, Two)
      /\ Gives(CallLayout, DOMAIN b, One)
      /\ Gives(CallLayout, DOMAIN c, Named)
  BY <1>1, <1>2, <1>3, <1>4, <1>5, MergedThree
<1>7. Only(CallLayout, {"frame", "param", "paref", "arg", "argc", "call"})
  BY <1>1, <1>2, <1>3, <1>4, MergedTables DEF Only
<1>. QED
  BY <1>1, <1>2, <1>3, <1>6, <1>7

LEMMA JumpTable ==
  /\ Gives(JumpLayout, {"jump"}, <<"target">>)
  /\ Gives(JumpLayout, {"branch"}, <<"operand", "target", "target">>)
  /\ Only(JumpLayout, {"jump", "branch"})
<1> DEFINE a == [op \in {"jump"} |-> <<"target">>]
           b == [op \in {"branch"} |-> <<"operand", "target", "target">>]
<1>1. /\ DOMAIN a = {"jump"}
      /\ \A op \in DOMAIN a : a[op] = <<"target">>
  OBVIOUS
<1>2. /\ DOMAIN b = {"branch"}
      /\ \A op \in DOMAIN b : b[op] = <<"operand", "target", "target">>
  OBVIOUS
<1>3. JumpLayout = Merged({a, b})
  BY DEF JumpLayout
<1> HIDE DEF a, b
<1>. QED
  BY <1>1, <1>2, <1>3, MergedTables DEF Gives, Only

LEMMA BlockTable ==
  /\ Gives(BlockLayout, {"try", "leave"}, <<>>)
  /\ Gives(BlockLayout, {"catch"}, <<"name", "name">>)
  /\ Gives(BlockLayout, {"pull", "throw"}, One)
  /\ Gives(BlockLayout, {"enter"}, <<"name">>)
  /\ Only(BlockLayout, {"try", "leave", "catch", "pull", "throw", "enter"})
<1> DEFINE a == [op \in {"try", "leave"} |-> <<>>]
           b == [op \in {"catch"} |-> <<"name", "name">>]
           c == [op \in {"pull", "throw"} |-> One]
           d == [op \in {"enter"} |-> <<"name">>]
<1>1. /\ DOMAIN a = {"try", "leave"}
      /\ \A op \in DOMAIN a : a[op] = <<>>
  OBVIOUS
<1>2. /\ DOMAIN b = {"catch"}
      /\ \A op \in DOMAIN b : b[op] = <<"name", "name">>
  OBVIOUS
<1>3. /\ DOMAIN c = {"pull", "throw"}
      /\ \A op \in DOMAIN c : c[op] = One
  OBVIOUS
<1>4. /\ DOMAIN d = {"enter"}
      /\ \A op \in DOMAIN d : d[op] = <<"name">>
  OBVIOUS
<1>5. BlockLayout = Merged({a, b, c, d})
  BY DEF BlockLayout
<1> HIDE DEF a, b, c, d
<1>6. Gives(BlockLayout, {"try", "leave"}, <<>>)
  BY <1>1, <1>2, <1>3, <1>4, <1>5, MergedTables DEF Gives
<1>7. Gives(BlockLayout, {"catch"}, <<"name", "name">>)
  BY <1>1, <1>2, <1>3, <1>4, <1>5, MergedTables DEF Gives
<1>8. Gives(BlockLayout, {"pull", "throw"}, One)
  BY <1>1, <1>2, <1>3, <1>4, <1>5, MergedTables DEF Gives
<1>9. Gives(BlockLayout, {"enter"}, <<"name">>)
  BY <1>1, <1>2, <1>3, <1>4, <1>5, MergedTables DEF Gives
<1>10. Only(BlockLayout, {"try", "leave", "catch", "pull", "throw", "enter"})
  BY <1>1, <1>2, <1>3, <1>4, <1>5, MergedTables DEF Only
<1>. QED
  BY <1>6, <1>7, <1>8, <1>9, <1>10

LEMMA LinkTable ==
  /\ Gives(LinkLayout, {"import", "link"}, <<"name">>)
  /\ Only(LinkLayout, {"import", "link"})
BY DEF LinkLayout, Gives, Only

LEMMA ObjectTable ==
  /\ Gives(ObjectLayout, {"class", "derive", "new", "msg"}, Named)
  /\ Gives(ObjectLayout, {"register"}, One)
  /\ Gives(ObjectLayout, {"attach"}, <<"operand", "name", "name">>)
  /\ Only(ObjectLayout, {"class", "derive", "new", "msg", "register", "attach"})
<1> DEFINE a == [op \in {"class", "derive", "new", "msg"} |-> Named]
           b == [op \in {"register"} |-> One]
           c == [op \in {"attach"} |-> <<"operand", "name", "name">>]
<1>1. /\ DOMAIN a = {"class", "derive", "new", "msg"}
      /\ \A op \in DOMAIN a : a[op] = Named
  OBVIOUS
<1>2. /\ DOMAIN b = {"register"}
      /\ \A op \in DOMAIN b : b[op] = One
  OBVIOUS
<1>3. /\ DOMAIN c = {"attach"}
      /\ \A op \in DOMAIN c : c[op] = <<"operand", "name", "name">>
  OBVIOUS
<1>4. ObjectLayout = Merged({a, b, c})
  BY DEF ObjectLayout
<1> HIDE DEF a, b, c
<1>5. /\ DOMAIN a \cap DOMAIN b = {}
      /\ DOMAIN a \cap DOMAIN c = {}
      /\ DOMAIN b \cap DOMAIN c = {}
  BY <1>1, <1>2, <1>3
<1>6. /\ Gives(ObjectLayout, DOMAIN a, Named)
      /\ Gives(ObjectLayout, DOMAIN b, One)
      /\ Gives(ObjectLayout, DOMAIN c, <<"operand", "name", "name">>)
  BY <1>1, <1>2, <1>3, <1>4, <1>5, MergedThree
<1>7. Only(ObjectLayout, {"class", "derive", "new", "msg", "register", "attach"})
  BY <1>1, <1>2, <1>3, <1>4, MergedTables DEF Only
<1>. QED
  BY <1>1, <1>2, <1>3, <1>6, <1>7

LEMMA StopTable ==
  /\ Gives(StopLayout, {"end", "halt"}, <<>>)
  /\ Only(StopLayout, {"end", "halt"})
BY DEF StopLayout, Gives, Only

LEMMA SizeTable ==
  /\ Gives(OpSize, {"nop", "catch", "try", "enter", "leave", "import", "link", "end",
                    "halt"}, 1)
  /\ Gives(OpSize, {"ress", "jump"}, 5)
  /\ Gives(OpSize, {"izero", "iinc", "idec", "binc", "bdec", "strstore", "vec", "bool",
                    "not", "free", "empty", "tmpri", "tmpro", "print", "echo", "clbind",
                    "closure", "function", "call", "argc", "throw", "pull", "class",
                    "prototype", "derive", "attach", "register", "new", "msg"}, 6)
  /\ Gives(OpSize, {"bstore"}, 8)
  /\ Gives(OpSize, {"fstore"}, 10)
  /\ Gives(OpSize, {"istore", "itof", "ftoi", "stoi", "stof", "vpush", "vlen", "move",
                    "copy", "ref", "swap", "isnull", "fcall", "frame", "param", "paref",
                    "arg"}, 11)
  /\ Gives(OpSize, {"branch"}, 14)
  /\ Gives(OpSize, {"iadd", "isub", "imul", "idiv", "ilt", "ilte", "igt", "igte", "ieq",
                    "fadd", "fsub", "fmul", "fdiv", "flt", "flte", "fgt", "fgte", "feq",
                    "badd", "bsub", "blt", "blte", "bgt", "bgte", "beq", "streq",
                    "vinsert", "vpop", "vat", "and", "or"}, 16)
  /\ Only(OpSize, {"nop", "catch", "try", "enter", "leave", "import", "link", "end",
                   "halt", "ress", "jump", "izero", "iinc", "idec", "binc", "bdec",
                   "strstore", "vec", "bool", "not", "free", "empty", "tmpri", "tmpro",
                   "print", "echo", "clbind", "closure", "function", "call", "argc",
                   "throw", "pull", "class", "prototype", "derive", "attach", "register",
                   "new", "msg", "bstore", "fstore", "istore", "itof", "ftoi", "stoi",
                   "stof", "vpush", "vlen", "move", "copy", "ref", "swap", "isnull",
                   "fcall", "frame", "param", "paref", "arg", "branch", "iadd", "isub",
                   "imul", "idiv", "ilt", "ilte", "igt", "igte", "ieq", "fadd", "fsub",
                   "fmul", "fdiv", "flt", "flte", "fgt", "fgte", "feq", "badd", "bsub",
                   "blt", "blte", "bgt", "bgte", "beq", "streq", "vinsert", "vpop", "vat",
                   "and", "or"})
<1> DEFINE a == [op \in {"nop", "catch", "try", "enter", "leave", "import", "link",
                         "end", "halt"} |-> 1]
           b == [op \in {"ress", "jump"} |-> 5]
           c == [op \in {"izero", "iinc", "idec", "binc", "bdec", "strstore", "vec",
                         "bool", "not", "free", "empty", "tmpri", "tmpro", "print",
                         "echo", "clbind", "closure", "function", "call", "argc", "throw",
                         "pull", "class", "prototype", "derive", "attach", "register",
                         "new", "msg"} |-> 6]
           d == [op \in {"bstore"} |-> 8]
           e == [op \in {"fstore"} |-> 10]
           f == [op \in {"istore", "itof", "ftoi", "stoi", "stof", "vpush", "vlen",
                         "move", "copy", "ref", "swap", "isnull", "fcall", "frame",
                         "param", "paref", "arg"} |-> 11]
           g == [op \in {"branch"} |-> 14]
           h == [op \in {"iadd", "isub", "imul", "idiv", "ilt", "ilte", "igt", "igte",
                         "ieq", "fadd", "fsub", "fmul", "fdiv", "flt", "flte", "fgt",
                         "fgte", "feq", "badd", "bsub", "blt", "blte", "bgt", "bgte",
                         "beq", "streq", "vinsert", "vpop", "vat", "and", "or"} |-> 16]
           Tables == {a, b, c, d, e, f, g, h}
           Apart(t) == \A op \in DOMAIN t : \A u \in Tables : op \in DOMAIN u => u = t
<1>1. /\ DOMAIN a = {"nop", "catch", "try", "enter", "leave", "import", "link", "end",
                     "halt"}
      /\ \A op \in DOMAIN a : a[op] = 1
  OBVIOUS
<1>2. /\ DOMAIN b = {"ress", "jump"}
      /\ \A op \in DOMAIN b : b[op] = 5
  OBVIOUS
<1>3. /\ DOMAIN c = {"izero", "iinc", "idec", "binc", "bdec", "strstore", "vec", "bool",
                     "not", "free", "empty", "tmpri", "tmpro", "print", "echo", "clbind",
                     "closure", "function", "call", "argc", "throw", "pull", "class",
                     "prototype", "derive", "attach", "register", "new", "msg"}
      /\ \A op \in DOMAIN c : c[op] = 6
  OBVIOUS
<1>4. /\ DOMAIN d = {"bstore"}
      /\ \A op \in DOMAIN d : d[op] = 8
  OBVIOUS
<1>5. /\ DOMAIN e = {"fstore"}
      /\ \A op \in DOMAIN e : e[op] = 10
  OBVIOUS
<1>6. /\ DOMAIN f = {"istore", "itof", "ftoi", "stoi", "stof", "vpush", "vlen", "move",
                     "copy", "ref", "swap", "isnull", "fcall", "frame", "param", "paref",
                     "arg"}
      /\ \A op \in DOMAIN f : f[op] = 11
  OBVIOUS
<1>7. /\ DOMAIN g = {"branch"}
      /\ \A op \in DOMAIN g : g[op] = 14
  OBVIOUS
<1>8. /\ DOMAIN h = {"iadd", "isub", "imul", "idiv", "ilt", "ilte", "igt", "igte", "ieq",
                     "fadd", "fsub", "fmul", "fdiv", "flt", "flte", "fgt", "fgte", "feq",
                     "badd", "bsub", "blt", "blte", "bgt", "bgte", "beq", "streq",
                     "vinsert", "vpop", "vat", "and", "or"}
      /\ \A op \in DOMAIN h : h[op] = 16
  OBVIOUS
<1>9. OpSize = Merged(Tables)
  BY DEF OpSize
<1> HIDE DEF a, b, c, d, e, f, g, h
<1>10. Apart(a) /\ Apart(b) /\ Apart(c) /\ Apart(d) /\ Apart(e) /\ Apart(f) /\ Apart(g) /\ Apart(h)
  <2>1. Apart(a)
    BY <1>1, <1>2, <1>3, <1>4, <1>5, <1>6, <1>7, <1>8
  <2>2. Apart(b)
    BY <1>1, <1>2, <1>3, <1>4, <1>5, <1>6, <1>7, <1>8
  <2>3. Apart(c)
    BY <1>1, <1>2, <1>3, <1>4, <1>5, <1>6, <1>7, <1>8
  <2>4. Apart(d)
    BY <1>1, <1>2, <1>3, <1>4, <1>5, <1>6, <1>7, <1>8
  <2>5. Apart(e)
    BY <1>1, <1>2, <1>3, <1>4, <1>5, <1>6, <1>7, <1>8
  <2>6. Apart(f)
    BY <1>1, <1>2, <1>3, <1>4, <1>5, <1>6, <1>7, <1>8
  <2>7. Apart(g)
    BY <1>1, <1>2, <1>3, <1>4, <1>5, <1>6, <1>7, <1>8
  <2>8. Apart(h)
    BY <1>1, <1>2, <1>3, <1>4, <1>5, <1>6, <1>7, <1>8
  <2>. QED
    BY <2>1, <2>2, <2>3, <2>4, <2>5, <2>6, <2>7, <2>8
<1>11. \A t \in {a, b, c, d, e, f, g, h} : t \in Tables
  OBVIOUS
<1>12. \A op : op \in DOMAIN OpSize <=> \E t \in Tables : op \in DOMAIN t
  BY <1>9, MergedTables
<1> HIDE DEF Tables
<1>13. \A t \in Tables : Apart(t) => \A op \in DOMAIN t : op \in DOMAIN OpSize /\ OpSize[op] = t[op]
  BY <1>9, MergedTables
<1>14. Gives(OpSize, {"nop", "catch", "try", "enter", "leave", "import", "link", "end",
                      "halt"}, 1)
  BY <1>1, <1>10, <1>11, <1>13 DEF Gives
<1>15. Gives(OpSize, {"ress", "jump"}, 5)
  BY <1>2, <1>10, <1>11, <1>13 DEF Gives
<1>16. Gives(OpSize, {"izero", "iinc", "idec", "binc", "bdec", "strstore", "vec", "bool",
                      "not", "free", "empty", "tmpri", "tmpro", "print", "echo", "clbind",
                      "closure", "function", "call", "argc", "throw", "pull", "class",
                      "prototype", "derive", "attach", "register", "new", "msg"}, 6)
  BY <1>3, <1>10, <1>11, <1>13 DEF Gives
<1>17. Gives(OpSize, {"bstore"}, 8)
  BY <1>4, <1>10, <1>11, <1>13 DEF Gives
<1>18. Gives(OpSize, {"fstore"}, 10)
  BY <1>5, <1>10, <1>11, <1>13 DEF Gives
<1>19. Gives(OpSize, {"istore", "itof", "ftoi", "stoi", "stof", "vpush", "vlen", "move",
                      "copy", "ref", "swap", "isnull", "fcall", "frame", "param", "paref",
                      "arg"}, 11)
  BY <1>6, <1>10, <1>11, <1>13 DEF Gives
<1>20. Gives(OpSize, {"branch"}, 14)
  BY <1>7, <1>10, <1>11, <1>13 DEF Gives
<1>21. Gives(OpSize, {"iadd", "isub", "imul", "idiv", "ilt", "ilte", "igt", "igte",
                      "ieq", "fadd", "fsub", "fmul", "fdiv", "flt", "flte", "fgt", "fgte",
                      "feq", "badd", "bsub", "blt", "blte", "bgt", "bgte", "beq", "streq",
                      "vinsert", "vpop", "vat", "and", "or"}, 16)
  BY <1>8, <1>10, <1>11, <1>13 DEF Gives
<1>22. Only(OpSize, {"nop", "catch", "try", "enter", "leave", "import", "link", "end",
                     "halt", "ress", "jump", "izero", "iinc", "idec", "binc", "bdec",
                     "strstore", "vec", "bool", "not", "free", "empty", "tmpri", "tmpro",
                     "print", "echo", "clbind", "closure", "function", "call", "argc",
                     "throw", "pull", "class", "prototype", "derive", "attach",
                     "register", "new", "msg", "bstore", "fstore", "istore", "itof",
                     "ftoi", "stoi", "stof", "vpush", "vlen", "move", "copy", "ref",
                     "swap", "isnull", "fcall", "frame", "param", "paref", "arg",
                     "branch", "iadd", "isub", "imul", "idiv", "ilt", "ilte", "igt",
                     "igte", "ieq", "fadd", "fsub", "fmul", "fdiv", "flt", "flte", "fgt",
                     "fgte", "feq", "badd", "bsub", "blt", "blte", "bgt", "bgte", "beq",
                     "streq", "vinsert", "vpop", "vat", "and", "or"})
  BY <1>1, <1>2, <1>3, <1>4, <1>5, <1>6, <1>7, <1>8, <1>12 DEF Only, Tables
<1>. QED
  BY <1>14, <1>15, <1>16, <1>17, <1>18, <1>19, <1>20, <1>21, <1>22

LEMMA Mnemonics ==
  /\ DOMAIN NopLayout = {"nop"}
  /\ DOMAIN IntegerLayout = {"izero", "iinc", "idec", "istore", "iadd", "isub", "imul",
                             "idiv", "ilt", "ilte", "igt", "igte", "ieq"}
  /\ DOMAIN FloatLayout = {"fstore", "fadd", "fsub", "fmul", "fdiv", "flt", "flte",
                           "fgt", "fgte", "feq"}
  /\ DOMAIN ByteLayout = {"bstore"}
  /\ DOMAIN CastLayout = {"itof", "ftoi", "stoi", "stof"}
  /\ DOMAIN StringLayout = {"strstore"}
  /\ DOMAIN VectorLayout = {"vec", "vpush", "vlen", "vinsert", "vpop", "vat"}
  /\ DOMAIN LogicLayout = {"not", "and", "or"}
  /\ DOMAIN RegisterLayout = {"free", "empty", "tmpri", "tmpro", "ress", "move", "copy",
                              "ref", "swap", "isnull"}
  /\ DOMAIN OutputLayout = {"print", "echo"}
  /\ DOMAIN ClosureLayout = {"clbind", "closure", "function", "fcall"}
  /\ DOMAIN CallLayout = {"frame", "param", "paref", "arg", "argc", "call"}
  /\ DOMAIN JumpLayout = {"jump", "branch"}
  /\ DOMAIN BlockLayout = {"try", "leave", "catch", "pull", "throw", "enter"}
  /\ DOMAIN LinkLayout = {"import", "link"}
  /\ DOMAIN ObjectLayout = {"class", "derive", "new", "msg", "register", "attach"}
  /\ DOMAIN StopLayout = {"end", "halt"}
<1>1. DOMAIN NopLayout = {"nop"}
  BY NopTable DEF Gives, Only
<1>2. DOMAIN IntegerLayout = {"izero", "iinc", "idec", "istore", "iadd", "isub", "imul",
                              "idiv", "ilt", "ilte", "igt", "igte", "ieq"}
  BY IntegerTable DEF Gives, Only
<1>3. DOMAIN FloatLayout = {"fstore", "fadd", "fsub", "fmul", "fdiv", "flt", "flte",
                            "fgt", "fgte", "feq"}
  BY FloatTable DEF Gives, Only
<1>4. DOMAIN ByteLayout = {"bstore"}
  BY ByteTable DEF Gives, Only
<1>5. DOMAIN CastLayout = {"itof", "ftoi", "stoi", "stof"}
  BY CastTable DEF Gives, Only
<1>6. DOMAIN StringLayout = {"strstore"}
  BY StringTable DEF Gives, Only
<1>7. DOMAIN VectorLayout = {"vec", "vpush", "vlen", "vinsert", "vpop", "vat"}
  BY VectorTable DEF Gives, Only
<1>8. DOMAIN LogicLayout = {"not", "and", "or"}
  BY LogicTable DEF Gives, Only
<1>9. DOMAIN RegisterLayout = {"free", "empty", "tmpri", "tmpro", "ress", "move", "copy",
                               "ref", "swap", "isnull"}
  BY RegisterTable DEF Gives, Only
<1>10. DOMAIN OutputLayout = {"print", "echo"}
  BY OutputTable DEF Gives, Only
<1>11. DOMAIN ClosureLayout = {"clbind", "closure", "function", "fcall"}
  BY ClosureTable DEF Gives, Only
<1>12. DOMAIN CallLayout = {"frame", "param", "paref", "arg", "argc", "call"}
  BY CallTable DEF Gives, Only
<1>13. DOMAIN JumpLayout = {"jump", "branch"}
  BY JumpTable DEF Gives, Only
<1>14. DOMAIN BlockLayout = {"try", "leave", "catch", "pull", "throw", "enter"}
  BY BlockTable DEF Gives, Only
<1>15. DOMAIN LinkLayout = {"import", "link"}
  BY LinkTable DEF Gives, Only
<1>16. DOMAIN ObjectLayout = {"class", "derive", "new", "msg", "register", "attach"}
  BY ObjectTable DEF Gives, Only
<1>17. DOMAIN StopLayout = {"end", "halt"}
  BY StopTable DEF Gives, Only
<1>. QED
  BY <1>1, <1>2, <1>3, <1>4, <1>5, <1>6, <1>7, <1>8, <1>9,
     <1>10, <1>11, <1>12, <1>13, <1>14, <1>15, <1>16, <1>17

\* The tables do not overlap: what one of them says is what Layout says.
Holds(table) == \A op \in DOMAIN table : op \in DOMAIN Layout /\ Layout[op] = table[op]

LEMMA LayoutTables ==
  /\ Holds(NopLayout)
  /\ Holds(IntegerLayout)
  /\ Holds(FloatLayout)
  /\ Holds(ByteLayout)
  /\ Holds(CastLayout)
  /\ Holds(StringLayout)
  /\ Holds(VectorLayout)
  /\ Holds(LogicLayout)
  /\ Holds(RegisterLayout)
  /\ Holds(OutputLayout)
  /\ Holds(ClosureLayout)
  /\ Holds(CallLayout)
  /\ Holds(JumpLayout)
  /\ Holds(BlockLayout)
  /\ Holds(LinkLayout)
  /\ Holds(ObjectLayout)
  /\ Holds(StopLayout)
<1> DEFINE Tables == {NopLayout, IntegerLayout, FloatLayout, ByteLayout, CastLayout,
                      StringLayout, VectorLayout, LogicLayout, RegisterLayout,
                      OutputLayout, ClosureLayout, CallLayout, JumpLayout, BlockLayout,
                      LinkLayout, ObjectLayout, StopLayout}
           Apart(t) == \A op \in DOMAIN t : \A u \in Tables : op \in DOMAIN u => u = t
<1>1. Layout = Merged(Tables)
  BY DEF Layout
<1>2. Apart(NopLayout)
  BY Mnemonics
<1>3. Apart(IntegerLayout)
  BY Mnemonics
<1>4. Apart(FloatLayout)
  BY Mnemonics
<1>5. Apart(ByteLayout)
  BY Mnemonics
<1>6. Apart(CastLayout)
  BY Mnemonics
<1>7. Apart(StringLayout)
  BY Mnemonics
<1>8. Apart(VectorLayout)
  BY Mnemonics
<1>9. Apart(LogicLayout)
  BY Mnemonics
<1>10. Apart(RegisterLayout)
  BY Mnemonics
<1>11. Apart(OutputLayout)
  BY Mnemonics
<1>12. Apart(ClosureLayout)
  BY Mnemonics
<1>13. Apart(CallLayout)
  BY Mnemonics
<1>14. Apart(JumpLayout)
  BY Mnemonics
<1>15. Apart(BlockLayout)
  BY Mnemonics
<1>16. Apart(LinkLayout)
  BY Mnemonics
<1>17. Apart(ObjectLayout)
  BY Mnemonics
<1>18. Apart(StopLayout)
  BY Mnemonics
<1>19. /\ NopLayout \in Tables
       /\ IntegerLayout \in Tables
       /\ FloatLayout \in Tables
       /\ ByteLayout \in Tables
       /\ CastLayout \in Tables
       /\ StringLayout \in Tables
       /\ VectorLayout \in Tables
       /\ LogicLayout \in Tables
       /\ RegisterLayout \in Tables
       /\ OutputLayout \in Tables
       /\ ClosureLayout \in Tables
       /\ CallLayout \in Tables
       /\ JumpLayout \in Tables
       /\ BlockLayout \in Tables
       /\ LinkLayout \in Tables
       /\ ObjectLayout \in Tables
       /\ StopLayout \in Tables
  OBVIOUS
<1> HIDE DEF Tables
<1>20. \A t \in Tables : Apart(t) => Holds(t)
  BY <1>1, MergedTables DEF Holds
<1>. QED
  BY <1>2, <1>3, <1>4, <1>5, <1>6, <1>7, <1>8, <1>9, <1>10,
     <1>11, <1>12, <1>13, <1>14, <1>15, <1>16, <1>17, <1>18, <1>19, <1>20

\* The instructions by their fields.
Bare == {"nop", "try", "leave", "end", "halt"}
Unary == {"izero", "iinc", "idec", "vec", "not", "free", "empty", "tmpri", "tmpro",
          "print", "echo", "clbind", "argc", "pull", "throw", "register"}
Binary == {"istore", "itof", "ftoi", "stoi", "stof", "vpush", "vlen", "move", "copy",
           "ref", "swap", "isnull", "fcall", "frame", "param", "paref", "arg"}
Ternary == {"iadd", "isub", "imul", "idiv", "ilt", "ilte", "igt", "igte", "ieq", "fadd",
            "fsub", "fmul", "fdiv", "flt", "flte", "fgt", "fgte", "feq", "vinsert",
            "vpop", "vat", "and", "or"}
FloatStore == {"fstore"}
ByteStore == {"bstore"}
Naming == {"strstore", "closure", "function", "call", "class", "derive", "new", "msg"}
Selecting == {"ress"}
Jumping == {"jump"}
Branching == {"branch"}
Catchers == {"catch"}
Entering == {"enter", "import", "link"}
Attaching == {"attach"}

LEMMA Formats ==
  /\ Gives(Layout, Bare, <<>>) /\ Gives(OpSize, Bare, 1)
  /\ Gives(Layout, Unary, One) /\ Gives(OpSize, Unary, 6)
  /\ Gives(Layout, Binary, Two) /\ Gives(OpSize, Binary, 11)
  /\ Gives(Layout, Ternary, Three) /\ Gives(OpSize, Ternary, 16)
  /\ Gives(Layout, FloatStore, <<"operand", "float">>) /\ Gives(OpSize, FloatStore, 10)
  /\ Gives(Layout, ByteStore, <<"operand", "byte">>) /\ Gives(OpSize, ByteStore, 8)
  /\ Gives(Layout, Naming, Named) /\ Gives(OpSize, Naming, 6)
  /\ Gives(Layout, Selecting, <<"set">>) /\ Gives(OpSize, Selecting, 5)
  /\ Gives(Layout, Jumping, <<"target">>) /\ Gives(OpSize, Jumping, 5)
  /\ Gives(Layout, Branching, <<"operand", "target", "target">>) /\ Gives(OpSize, Branching, 14)
  /\ Gives(Layout, Catchers, <<"name", "name">>) /\ Gives(OpSize, Catchers, 1)
  /\ Gives(Layout, Entering, <<"name">>) /\ Gives(OpSize, Entering, 1)
  /\ Gives(Layout, Attaching, <<"operand", "name", "name">>) /\ Gives(OpSize, Attaching, 6)
<1>1. Gives(Layout, Bare, <<>>) /\ Gives(OpSize, Bare, 1)
  BY LayoutTables, SizeTable,
     NopTable, BlockTable, StopTable
     DEF Gives, Holds, Bare
<1>2. Gives(Layout, Unary, One) /\ Gives(OpSize, Unary, 6)
  BY LayoutTables, SizeTable,
     IntegerTable, VectorTable, LogicTable, RegisterTable, OutputTable, ClosureTable,
     CallTable, BlockTable, ObjectTable
     DEF Gives, Holds, Unary
<1>3. Gives(Layout, Binary, Two) /\ Gives(OpSize, Binary, 11)
  BY LayoutTables, SizeTable,
     IntegerTable, CastTable, VectorTable, RegisterTable, ClosureTable, CallTable
     DEF Gives, Holds, Binary
<1>4. Gives(Layout, Ternary, Three) /\ Gives(OpSize, Ternary, 16)
  BY LayoutTables, SizeTable,
     IntegerTable, FloatTable, VectorTable, LogicTable
     DEF Gives, Holds, Ternary
<1>5. Gives(Layout, FloatStore, <<"operand", "float">>) /\ Gives(OpSize, FloatStore, 10)
  BY LayoutTables, SizeTable,
     FloatTable
     DEF Gives, Holds, FloatStore
<1>6. Gives(Layout, ByteStore, <<"operand", "byte">>) /\ Gives(OpSize, ByteStore, 8)
  BY LayoutTables, SizeTable,
     ByteTable
     DEF Gives, Holds, ByteStore
<1>7. Gives(Layout, Naming, Named) /\ Gives(OpSize, Naming, 6)
  BY LayoutTables, SizeTable,
     StringTable, ClosureTable, CallTable, ObjectTable
     DEF Gives, Holds, Naming
<1>8. Gives(Layout, Selecting, <<"set">>) /\ Gives(OpSize, Selecting, 5)
  BY LayoutTables, SizeTable,
     RegisterTable
     DEF Gives, Holds, Selecting
<1>9. Gives(Layout, Jumping, <<"target">>) /\ Gives(OpSize, Jumping, 5)
  BY LayoutTables, SizeTable,
     JumpTable
     DEF Gives, Holds, Jumping
<1>10. Gives(Layout, Branching, <<"operand", "target", "target">>) /\ Gives(OpSize, Branching, 14)
  BY LayoutTables, SizeTable,
     JumpTable
     DEF Gives, Holds, Branching
<1>11. Gives(Layout, Catchers, <<"name", "name">>) /\ Gives(OpSize, Catchers, 1)
  BY LayoutTables, SizeTable,
     BlockTable
     DEF Gives, Holds, Catchers
<1>12. Gives(Layout, Entering, <<"name">>) /\ Gives(OpSize, Entering, 1)
  BY LayoutTables, SizeTable,
     BlockTable, LinkTable
     DEF Gives, Holds, Entering
<1>13. Gives(Layout, Attaching, <<"operand", "name", "name">>) /\ Gives(OpSize, Attaching, 6)
  BY LayoutTables, SizeTable,
     ObjectTable
     DEF Gives, Holds, Attaching
<1>. QED
  BY <1>1, <1>2, <1>3, <1>4, <1>5, <1>6, <1>7, <1>8, <1>9, <1>10, <1>11, <1>12, <1>13

-----------------------------------------------------------------------------
(***************************************************************************)
(* The size of an instruction, part by part.                               *)
(***************************************************************************)
LEMMA TextSizes == \A text : TextSize(text) \in Nat
BY DEF TextSize

LEMMA EmittedSizes ==
  ASSUME NEW c
  PROVE  /\ Layout[c.op] = <<>> => EmittedSize(c) = 1
         /\ Layout[c.op] = One => EmittedSize(c) = 6
         /\ Layout[c.op] = Two => EmittedSize(c) = 11
         /\ Layout[c.op] = Three => EmittedSize(c) = 16
         /\ Layout[c.op] = <<"operand", "float">> => EmittedSize(c) = 10
         /\ Layout[c.op] = <<"operand", "byte">> => EmittedSize(c) = 8
         /\ Layout[c.op] = Named => EmittedSize(c) = 6 + TextSize(c.args[2])
         /\ Layout[c.op] = <<"set">> => EmittedSize(c) = 5
         /\ Layout[c.op] = <<"target">> => EmittedSize(c) = 5
         /\ Layout[c.op] = <<"operand", "target", "target">> => EmittedSize(c) = 14
         /\ Layout[c.op] = <<"name", "name">> =>
              EmittedSize(c) = 1 + TextSize(c.args[1]) + TextSize(c.args[2])
         /\ Layout[c.op] = <<"name">> => EmittedSize(c) = 1 + TextSize(c.args[1])
         /\ Layout[c.op] = <<"operand", "name", "name">> =>
              EmittedSize(c) = 6 + TextSize(c.args[2]) + TextSize(c.args[3])
<1> DEFINE Size(layout) == OffsetIn(layout, c.args, Len(layout) + 1)
<1>1. EmittedSize(c) = Size(Layout[c.op])
  BY DEF EmittedSize
<1>2. \A value : /\ FieldSize("operand", value) = 5 /\ FieldSize("byte", value) = 2
                 /\ FieldSize("set", value) = 4 /\ FieldSize("target", value) = 4
                 /\ FieldSize("float", value) = 4 /\ FieldSize("name", value) = TextSize(value)
  BY DEF FieldSize
<1>3. /\ Size(<<>>) = 1 /\ Size(One) = 6 /\ Size(Two) = 11 /\ Size(Three) = 16
      /\ Size(<<"operand", "float">>) = 10 /\ Size(<<"operand", "byte">>) = 8
  BY <1>2 DEF OffsetIn, One, Two, Three
<1>4. /\ Size(<<"set">>) = 5 /\ Size(<<"target">>) = 5
      /\ Size(<<"operand", "target", "target">>) = 14
  BY <1>2 DEF OffsetIn
<1>5. /\ Size(Named) = 6 + TextSize(c.args[2])
      /\ Size(<<"name">>) = 1 + TextSize(c.args[1])
  BY <1>2, TextSizes DEF OffsetIn, Named
<1>6. Size(<<"name", "name">>) = 1 + TextSize(c.args[1]) + TextSize(c.args[2])
  BY <1>2, TextSizes DEF OffsetIn
<1>7. Size(<<"operand", "name", "name">>) = 6 + TextSize(c.args[2]) + TextSize(c.args[3])
  BY <1>2, TextSizes DEF OffsetIn
<1> HIDE DEF Size
<1>. QED
  BY <1>1, <1>3, <1>4, <1>5, <1>6, <1>7

LEMMA NameSizes ==
  /\ SizeOfNames(<<>>) = 0
  /\ \A m : SizeOfNames(<<m>>) = TextSize(m)
BY TextSizes DEF SizeOfNames

LEMMA CountedSizes ==
  ASSUME NEW line, line.op \in DOMAIN OpSize
  PROVE  CountedSize(line) = OpSize[line.op] + SizeOfNames(CountedNames(line))
BY MnemonicsHaveNoDot DEF CountedSize, IsDirective

\* The kinds of instructions are all there are.
LEMMA Kinds ==
  Implemented = Bare \cup Unary \cup Binary \cup Ternary \cup FloatStore \cup ByteStore
                \cup Naming \cup Selecting \cup Jumping \cup Branching \cup Catchers
                \cup Entering \cup Attaching
BY DEF Implemented, ArithmeticInstructions, RegisterInstructions, CallableInstructions,
       CallInstructions, BlockInstructions, ObjectInstructions, Bare, Unary, Binary, Ternary,
       FloatStore, ByteStore, Naming, Selecting, Jumping, Branching, Catchers, Entering, Attaching

\* What compile makes of a line keeps the mnemonic and the names.
LEMMA CompiledLine ==
  ASSUME NEW line, NEW k, NEW marks, NEW names
  PROVE  LET c == CompileLine(line, k, marks, names)
         IN /\ c.op = line.op
            /\ DOMAIN c.args = DOMAIN Layout[line.op]
            /\ \A i \in DOMAIN Layout[line.op] :
                 Layout[line.op][i] = "name" => c.args[i] = Operands(line, k)[i]
BY DEF CompileLine

-----------------------------------------------------------------------------
(***************************************************************************)
(* The parts that deal with bytes agree.                                   *)
(***************************************************************************)
Agree(line, c) ==
  \A size \in {CountedSize(line), WalkedSize(c), DisassembledSize(c)} : size = EmittedSize(c)

LEMMA FixedSizesAgree ==
  ASSUME NEW line, NEW c, c.op = line.op,
         line.op \in Bare \cup Unary \cup Binary \cup Ternary \cup FloatStore \cup ByteStore
                       \cup Selecting \cup Jumping \cup Branching
  PROVE  Agree(line, c)
<1>1. line.op \in DOMAIN OpSize /\ OpSize[line.op] \in Nat /\ EmittedSize(c) = OpSize[c.op]
  BY Formats, EmittedSizes DEF Gives
<1>2. CountedNames(line) = <<>> /\ WalkedNames(c) = <<>> /\ c.op \notin VariableLength
  BY DEF CountedNames, WalkedNames, VariableLength, Bare, Unary, Binary, Ternary, FloatStore,
         ByteStore, Selecting, Jumping, Branching
<1>3. CountedSize(line) = OpSize[c.op]
  BY <1>1, <1>2, CountedSizes, NameSizes
<1>4. WalkedSize(c) = OpSize[c.op]
  BY <1>1, <1>2, NameSizes DEF WalkedSize
<1>5. DisassembledSize(c) = OpSize[c.op]
  BY <1>2 DEF DisassembledSize, VariableLength
<1>. QED
  BY <1>1, <1>3, <1>4, <1>5 DEF Agree

\* A name that is given, and one that is not.
LEMMA TextsGiven ==
  ASSUME NEW a, IsSequence(a), NEW i \in Nat, i >= 1
  PROVE  /\ i <= Len(a) => TextAt(a, i) = a[i]
         /\ i > Len(a) => TextAt(a, i) = ""
<1>1. Len(a) \in Nat /\ DOMAIN a = 1..Len(a)
  BY DEF IsSequence
<1>2. (i <= Len(a) => i \in DOMAIN a) /\ (i > Len(a) => i \notin DOMAIN a)
  BY <1>1
<1>. QED
  BY <1>2 DEF TextAt

LEMMA TextsOfPair ==
  ASSUME NEW a, IsSequence(a)
  PROVE  /\ Len(a) >= 1 => TextAt(a, 1) = a[1]
         /\ Len(a) >= 2 => TextAt(a, 1) = a[1] /\ TextAt(a, 2) = a[2]
         /\ Len(a) = 1 => TextAt(a, 1) = a[1] /\ TextAt(a, 2) = ""
         /\ Len(a) >= 3 => TextAt(a, 2) = a[2] /\ TextAt(a, 3) = a[3] /\ Len(a) # 1 /\ Len(a) # 2
         /\ a = <<>> => TextAt(a, 1) = ""
<1>1. Len(a) \in Nat
  BY DEF IsSequence
<1>2. \A i \in Nat \ {0} : (i <= Len(a) => TextAt(a, i) = a[i]) /\ (i > Len(a) => TextAt(a, i) = "")
  <2> SUFFICES ASSUME NEW i \in Nat \ {0}
               PROVE  (i <= Len(a) => TextAt(a, i) = a[i]) /\ (i > Len(a) => TextAt(a, i) = "")
    OBVIOUS
  <2>1. i \in Nat /\ i >= 1
    OBVIOUS
  <2>. QED
    BY <2>1, TextsGiven
<1>3. a = <<>> => Len(a) = 0
  OBVIOUS
<1>4. PICK one : one = 1
  OBVIOUS
<1>5. PICK two : two = 2
  OBVIOUS
<1>6. PICK three : three = 3
  OBVIOUS
<1>7. one \in Nat \ {0} /\ two \in Nat \ {0} /\ three \in Nat \ {0}
  BY <1>4, <1>5, <1>6
<1>8. /\ (one <= Len(a) => TextAt(a, one) = a[one]) /\ (one > Len(a) => TextAt(a, one) = "")
      /\ (two <= Len(a) => TextAt(a, two) = a[two]) /\ (two > Len(a) => TextAt(a, two) = "")
      /\ (three <= Len(a) => TextAt(a, three) = a[three])
  BY <1>2, <1>7
<1>9. /\ 1 <= Len(a) => TextAt(a, 1) = a[1]
      /\ 1 > Len(a) => TextAt(a, 1) = ""
  BY <1>4, <1>8
<1>10. /\ 2 <= Len(a) => TextAt(a, 2) = a[2]
       /\ 2 > Len(a) => TextAt(a, 2) = ""
       /\ 3 <= Len(a) => TextAt(a, 3) = a[3]
  BY <1>5, <1>6, <1>8
<1>11. /\ Len(a) >= 1 => 1 <= Len(a)
       /\ Len(a) >= 2 => 1 <= Len(a) /\ 2 <= Len(a)
       /\ Len(a) = 1 => 1 <= Len(a) /\ 2 > Len(a)
       /\ Len(a) >= 3 => 2 <= Len(a) /\ 3 <= Len(a) /\ Len(a) # 1 /\ Len(a) # 2
       /\ Len(a) = 0 => 1 > Len(a)
  <2>1. PICK n \in Nat : n = Len(a)
    BY <1>1
  <2>2. /\ n >= 1 => 1 <= n
        /\ n >= 2 => 1 <= n /\ 2 <= n
        /\ n = 1 => 1 <= n /\ 2 > n
        /\ n >= 3 => 2 <= n /\ 3 <= n /\ n # 1 /\ n # 2
        /\ n = 0 => 1 > n
    BY SMT
  <2>. QED
    BY <2>1, <2>2, Zenon
<1>. QED
  BY <1>3, <1>9, <1>10, <1>11

LEMMA PartsOfNames ==
  /\ \A x, y : <<x, y>>[1] = x /\ <<x, y>>[2] = y
  /\ \A x : <<x>>[1] = x
OBVIOUS

\* The operands that are names, from what a line gives.
LEMMA OperandsOfNames ==
  ASSUME NEW line, NEW k, IsSequence(line.args), GivesNames(line),
         line.op \in Implemented, Len(Operands(line, k)) >= Len(Layout[line.op])
  PROVE  LET a == line.args ops == Operands(line, k)
         IN /\ line.op = "call" => ops[2] = CalledName(line)
            /\ line.op \in Naming \ {"call"} => ops[2] = TextAt(a, 2)
            /\ line.op \in Catchers => ops[1] = TextAt(a, 1) /\ ops[2] = TextAt(a, 2)
            /\ line.op \in Entering => ops[1] = TextAt(a, 1)
            /\ line.op \in Attaching => ops[2] = TextAt(a, 2) /\ ops[3] = TextAt(a, 3)
<1>0. PICK a, ops, op : a = line.args /\ ops = Operands(line, k) /\ op = line.op
  OBVIOUS
<1>1. IsSequence(a)
  BY <1>0
<1>2. /\ Len(a) >= 1 => TextAt(a, 1) = a[1]
      /\ Len(a) >= 2 => TextAt(a, 1) = a[1] /\ TextAt(a, 2) = a[2]
      /\ Len(a) = 1 => TextAt(a, 1) = a[1] /\ TextAt(a, 2) = ""
      /\ Len(a) >= 3 => TextAt(a, 2) = a[2] /\ TextAt(a, 3) = a[3] /\ Len(a) # 1 /\ Len(a) # 2
      /\ a = <<>> => TextAt(a, 1) = ""
  BY <1>1, TextsOfPair
<1>3. Len(Named) = 2 /\ Len(<<"name", "name">>) = 2 /\ Len(<<"name">>) = 1
  BY DEF Named
<1>8. Len(ops) >= Len(Layout[op])
  BY <1>0
<1>9. op \in Naming \cup Catchers => (ops = a => Len(a) >= 2)
  <2>1. op \in Naming \cup Catchers => Len(Layout[op]) = 2
    BY <1>3, Formats DEF Gives, Catchers
  <2>. QED
    BY <1>8, <2>1
<1>10. op = "call" => ops[2] = CalledName(line)
  <2> SUFFICES ASSUME op = "call"
               PROVE  ops[2] = CalledName(line)
    OBVIOUS
  <2>1. ops = CallOperands("call", a)
    BY <1>0 DEF Operands, ThreeIntop, CallInstructions
  <2>2. CASE Len(a) = 1
    <3>1. ops = << <<"", 0>>, a[1]>>
      BY <2>1, <2>2 DEF CallOperands
    <3>2. ops[2] = a[1]
      BY <3>1, PartsOfNames, Zenon
    <3>. QED
      BY <1>0, <2>2, <3>2 DEF CalledName
  <2>3. CASE Len(a) # 1
    <3>1. ops = a
      BY <2>1, <2>3 DEF CallOperands
    <3>2. Len(a) >= 2
      BY <1>9, <3>1 DEF Naming
    <3>3. CalledName(line) = TextAt(a, 2)
      BY <1>0, <2>3 DEF CalledName
    <3>. QED
      BY <1>2, <3>1, <3>2, <3>3
  <2>. QED
    BY <2>2, <2>3
<1>11. op \in Naming \ {"call"} => ops[2] = TextAt(a, 2)
  <2> SUFFICES ASSUME op \in Naming \ {"call"}
               PROVE  ops[2] = TextAt(a, 2)
    OBVIOUS
  <2>1. CASE op \in {"class", "derive", "new", "msg"} /\ Len(a) = 1
    <3>1. ops = NameOperands(op, a)
      BY <1>0, <2>1 DEF Operands, ThreeIntop, CallInstructions
    <3>2. ops = <<a[1], "">>
      BY <2>1, <3>1 DEF NameOperands
    <3>3. ops[2] = ""
      BY <3>2, PartsOfNames, Zenon
    <3>. QED
      BY <1>2, <2>1, <3>3
  <2>2. CASE ~(op \in {"class", "derive", "new", "msg"} /\ Len(a) = 1)
    <3>1. ops = a
      BY <1>0, <2>2 DEF Operands, ThreeIntop, CallInstructions, NameOperands, Naming
    <3>2. Len(a) >= 2
      BY <1>9, <3>1
    <3>. QED
      BY <1>2, <3>1, <3>2
  <2>. QED
    BY <2>1, <2>2
<1>12. op \in Catchers => ops[1] = TextAt(a, 1) /\ ops[2] = TextAt(a, 2)
  <2> SUFFICES ASSUME op \in Catchers
               PROVE  ops[1] = TextAt(a, 1) /\ ops[2] = TextAt(a, 2)
    OBVIOUS
  <2>1. ops = NameOperands("catch", a)
    BY <1>0 DEF Operands, ThreeIntop, CallInstructions, Catchers
  <2>2. CASE Len(a) = 1
    <3>1. ops = <<a[1], "">>
      BY <2>1, <2>2 DEF NameOperands
    <3>2. ops[1] = a[1]
      BY <3>1, PartsOfNames, Zenon
    <3>3. ops[2] = ""
      BY <3>1, PartsOfNames, Zenon
    <3>. QED
      BY <1>2, <2>2, <3>2, <3>3
  <2>3. CASE Len(a) # 1
    <3>1. ops = a
      BY <2>1, <2>3 DEF NameOperands
    <3>2. Len(a) >= 2
      BY <1>9, <3>1
    <3>. QED
      BY <1>2, <3>1, <3>2
  <2>. QED
    BY <2>2, <2>3
<1>13. op \in Entering => ops[1] = TextAt(a, 1)
  <2> SUFFICES ASSUME op \in Entering
               PROVE  ops[1] = TextAt(a, 1)
    OBVIOUS
  <2>1. CASE op = "link" /\ a = <<>>
    <3>1. ops = NameOperands("link", a)
      BY <1>0, <2>1 DEF Operands, ThreeIntop, CallInstructions
    <3>2. ops = <<"">>
      BY <2>1, <3>1 DEF NameOperands
    <3>3. ops[1] = ""
      BY <3>2, PartsOfNames, Zenon
    <3>. QED
      BY <1>2, <2>1, <3>3
  <2>2. CASE ~(op = "link" /\ a = <<>>)
    <3>1. ops = a
      BY <1>0, <2>2 DEF Operands, ThreeIntop, CallInstructions, NameOperands, Entering
    <3>2. Layout[op] = <<"name">>
      BY Formats DEF Gives
    <3>3. Len(a) >= 1
      BY <1>3, <1>8, <3>1, <3>2
    <3>. QED
      BY <1>2, <3>1, <3>3
  <2>. QED
    BY <2>1, <2>2
<1>14. op \in Attaching => ops[2] = TextAt(a, 2) /\ ops[3] = TextAt(a, 3)
  <2> SUFFICES ASSUME op \in Attaching
               PROVE  ops[2] = TextAt(a, 2) /\ ops[3] = TextAt(a, 3)
    OBVIOUS
  <2>1. Len(a) >= 3
    BY <1>0 DEF GivesNames, Attaching
  <2>2. /\ TextAt(a, 2) = a[2] /\ TextAt(a, 3) = a[3]
        /\ Len(a) # 1 /\ Len(a) # 2
    BY <1>2, <2>1
  <2>3. ops = NameOperands("attach", a)
    BY <1>0 DEF Operands, ThreeIntop, CallInstructions, Attaching
  <2>4. ops = a
    BY <2>2, <2>3 DEF NameOperands
  <2>. QED
    BY <2>2, <2>4
<1>. QED
  BY <1>0, <1>10, <1>11, <1>12, <1>13, <1>14

LEMMA NamingSizesAgree ==
  ASSUME NEW line, NEW k, NEW marks, NEW names,
         line.op \in Naming \cup Catchers \cup Entering \cup Attaching,
         IsSequence(line.args), GivesNames(line), CanCompileLine(line, k, marks, names)
  PROVE  Agree(line, CompileLine(line, k, marks, names))
<1> DEFINE c == CompileLine(line, k, marks, names)
<1>1. /\ c.op = line.op /\ DOMAIN c.args = DOMAIN Layout[line.op]
      /\ \A i \in DOMAIN Layout[line.op] :
           Layout[line.op][i] = "name" => c.args[i] = Operands(line, k)[i]
  BY CompiledLine
<1>6. Len(Operands(line, k)) >= Len(Layout[line.op]) /\ line.op \in Implemented
  BY DEF CanCompileLine
<1> HIDE DEF c
<1> SUFFICES Agree(line, c)
  BY DEF c
<1>2. CASE line.op \in Naming
  <2>1. line.op \in DOMAIN OpSize /\ OpSize[line.op] = 6 /\ Layout[line.op] = Named
    BY <1>2, Formats DEF Gives
  <2>2. c.args[2] = Operands(line, k)[2]
    BY <1>1, <2>1 DEF Named
  <2>3. CountedNames(line) = <<c.args[2]>>
    <3>1. CASE line.op = "call"
      <4>1. c.args[2] = CalledName(line)
        BY <1>6, <2>2, <3>1, OperandsOfNames
      <4>. QED
        BY <3>1, <4>1 DEF CountedNames, CalledName
    <3>2. CASE line.op = "msg"
      <4>1. c.args[2] = TextAt(line.args, 2)
        BY <1>2, <1>6, <2>2, <3>2, OperandsOfNames
      <4>2. Len(line.args) # 1
        BY <3>2 DEF GivesNames, IsSequence
      <4>. QED
        BY <3>2, <4>1, <4>2 DEF CountedNames
    <3>3. CASE line.op \notin {"call", "msg"}
      <4>1. c.args[2] = TextAt(line.args, 2)
        BY <1>2, <1>6, <2>2, <3>3, OperandsOfNames
      <4>. QED
        BY <1>2, <3>3, <4>1 DEF CountedNames, Naming
    <3>. QED
      BY <3>1, <3>2, <3>3
  <2>4. WalkedNames(c) = <<c.args[2]>>
    BY <1>1, <1>2 DEF WalkedNames, Naming
  <2>5. DisassembledSize(c) = 6 + TextSize(c.args[2])
    BY <1>1, <1>2, TextSizes DEF DisassembledSize, VariableLength, FieldSize, Naming
  <2>6. CountedSize(line) = EmittedSize(c)
    BY <1>1, <2>1, <2>3, TextSizes, CountedSizes, EmittedSizes, NameSizes
  <2>7. WalkedSize(c) = EmittedSize(c)
    BY <1>1, <2>1, <2>4, TextSizes, EmittedSizes, NameSizes DEF WalkedSize
  <2>8. DisassembledSize(c) = EmittedSize(c)
    BY <1>1, <2>1, <2>5, EmittedSizes
  <2>. QED
    BY <2>6, <2>7, <2>8 DEF Agree
<1>3. CASE line.op \in Catchers
  <2>1. line.op \in DOMAIN OpSize /\ OpSize[line.op] = 1 /\ Layout[line.op] = <<"name", "name">>
    BY <1>3, Formats DEF Gives
  <2>2. c.args[1] = TextAt(line.args, 1) /\ c.args[2] = TextAt(line.args, 2) /\ DOMAIN c.args = 1..2
    <3>1. Operands(line, k)[1] = TextAt(line.args, 1) /\ Operands(line, k)[2] = TextAt(line.args, 2)
      BY <1>3, <1>6, OperandsOfNames
    <3>. QED
      BY <1>1, <2>1, <3>1
  <2>3. CountedNames(line) = <<c.args[1], c.args[2]>> /\ WalkedNames(c) = <<c.args[1], c.args[2]>>
    BY <1>1, <1>3, <2>2 DEF CountedNames, WalkedNames, Catchers
  <2>4. DisassembledSize(c) = 1 + TextSize(c.args[1]) + TextSize(c.args[2])
    BY <1>1, <1>3, <2>2, TextSizes DEF DisassembledSize, SizeOfNames, VariableLength, Catchers
  <2>5. /\ SizeOfNames(CountedNames(line)) = TextSize(c.args[1]) + TextSize(c.args[2])
        /\ SizeOfNames(WalkedNames(c)) = TextSize(c.args[1]) + TextSize(c.args[2])
    BY <2>3, TextSizes DEF SizeOfNames
  <2>6. CountedSize(line) = EmittedSize(c)
    BY <1>1, <2>1, <2>5, TextSizes, CountedSizes, EmittedSizes
  <2>7. WalkedSize(c) = EmittedSize(c)
    BY <1>1, <2>1, <2>5, TextSizes, EmittedSizes DEF WalkedSize
  <2>8. DisassembledSize(c) = EmittedSize(c)
    BY <1>1, <2>1, <2>4, EmittedSizes
  <2>. QED
    BY <2>6, <2>7, <2>8 DEF Agree
<1>4. CASE line.op \in Entering
  <2>1. line.op \in DOMAIN OpSize /\ OpSize[line.op] = 1 /\ Layout[line.op] = <<"name">>
    BY <1>4, Formats DEF Gives
  <2>2. c.args[1] = TextAt(line.args, 1)
    <3>1. Operands(line, k)[1] = TextAt(line.args, 1)
      BY <1>4, <1>6, OperandsOfNames
    <3>. QED
      BY <1>1, <2>1, <3>1
  <2>3. CountedNames(line) = <<c.args[1]>> /\ WalkedNames(c) = <<c.args[1]>>
    BY <1>1, <1>4, <2>2 DEF CountedNames, WalkedNames, Entering
  <2>4. DisassembledSize(c) = 1 + TextSize(c.args[1])
    BY <1>1, <1>4 DEF DisassembledSize, VariableLength, Entering
  <2>5. CountedSize(line) = EmittedSize(c)
    BY <1>1, <2>1, <2>3, TextSizes, CountedSizes, EmittedSizes, NameSizes
  <2>6. WalkedSize(c) = EmittedSize(c)
    BY <1>1, <2>1, <2>3, TextSizes, EmittedSizes, NameSizes DEF WalkedSize
  <2>7. DisassembledSize(c) = EmittedSize(c)
    BY <1>1, <2>1, <2>4, EmittedSizes
  <2>. QED
    BY <2>5, <2>6, <2>7 DEF Agree
<1>5. CASE line.op \in Attaching
  <2>1. /\ line.op \in DOMAIN OpSize /\ OpSize[line.op] = 6
        /\ Layout[line.op] = <<"operand", "name", "name">>
    BY <1>5, Formats DEF Gives
  <2>2. c.args[2] = TextAt(line.args, 2) /\ c.args[3] = TextAt(line.args, 3)
    <3>1. Operands(line, k)[2] = TextAt(line.args, 2) /\ Operands(line, k)[3] = TextAt(line.args, 3)
      BY <1>5, <1>6, OperandsOfNames
    <3>. QED
      BY <1>1, <2>1, <3>1
  <2>3. CountedNames(line) = <<c.args[2], c.args[3]>> /\ WalkedNames(c) = <<c.args[2], c.args[3]>>
    BY <1>1, <1>5, <2>2 DEF CountedNames, WalkedNames, Attaching
  <2>4. DisassembledSize(c) = 6 + TextSize(c.args[2]) + TextSize(c.args[3])
    BY <1>1, <1>5, TextSizes DEF DisassembledSize, FieldSize, VariableLength, Attaching
  <2>5. /\ SizeOfNames(CountedNames(line)) = TextSize(c.args[2]) + TextSize(c.args[3])
        /\ SizeOfNames(WalkedNames(c)) = TextSize(c.args[2]) + TextSize(c.args[3])
    BY <2>3, TextSizes DEF SizeOfNames
  <2>6. CountedSize(line) = EmittedSize(c)
    BY <1>1, <2>1, <2>5, TextSizes, CountedSizes, EmittedSizes
  <2>7. WalkedSize(c) = EmittedSize(c)
    BY <1>1, <2>1, <2>5, TextSizes, EmittedSizes DEF WalkedSize
  <2>8. DisassembledSize(c) = EmittedSize(c)
    BY <1>1, <2>1, <2>4, EmittedSizes
  <2>. QED
    BY <2>6, <2>7, <2>8 DEF Agree
<1>. QED
  BY <1>2, <1>3, <1>4, <1>5

\* What is counted for a line that compile accepts and that gives its names, what
\* is walked over and what the disassembler consumes of the instruction it
\* becomes, is what is emitted for it.  A msg without a method and an attach
\* without one are counted as other names than those emitted.
THEOREM LineSizesAgree ==
  ASSUME NEW line, NEW k, NEW marks, NEW names, CanCompileLine(line, k, marks, names),
         IsSequence(line.args), GivesNames(line)
  PROVE  Agree(line, CompileLine(line, k, marks, names))
<1>1. line.op \in Implemented
  BY DEF CanCompileLine
<1>3. CASE line.op \in Naming \cup Catchers \cup Entering \cup Attaching
  BY <1>3, NamingSizesAgree
<1>4. CASE line.op \notin Naming \cup Catchers \cup Entering \cup Attaching
  <2>1. CompileLine(line, k, marks, names).op = line.op
    BY CompiledLine
  <2>. QED
    BY <1>1, <1>4, <2>1, Kinds, FixedSizesAgree
<1>. QED
  BY <1>3, <1>4

-----------------------------------------------------------------------------
(***************************************************************************)
(* The disassembler and the assembler.                                     *)
(***************************************************************************)
LEMMA Pairs == \A x, y : <<x, y>>[1] = x /\ <<x, y>>[2] = y
OBVIOUS

\* A field of this kind, given like this, becomes value.
Resolved(kind, given, value, marks, k, names) ==
  CASE kind \in {"operand", "byte"} -> value = ResolveRegister(given, names)
    [] kind = "target" -> value = ResolveJump(given, marks, k).addr
    [] OTHER -> value = given
CanResolve(kind, given, marks, k, names) ==
  /\ kind \in {"operand", "byte"} => CanResolveRegister(given, names)
  /\ kind = "target" => CanResolveJump(given, marks, k)

\* Each field of an instruction is what the operand of the line resolves to.
Compiled(c, line, k, marks, names) ==
  /\ c.op = line.op
  /\ c.args = [i \in DOMAIN Layout[line.op] |-> c.args[i]]
  /\ \A i \in DOMAIN Layout[line.op] :
       Resolved(Layout[line.op][i], Operands(line, k)[i], c.args[i], marks, k, names)

LEMMA CompiledFields ==
  ASSUME NEW line, NEW k, NEW marks, NEW names
  PROVE  Compiled(CompileLine(line, k, marks, names), line, k, marks, names)
BY DEF CompileLine, Compiled, Resolved

\* A register that has been resolved is a number: it stands for itself.
LEMMA ResolvedRegister ==
  ASSUME NEW reg, NEW names, NEW others
  PROVE  LET r == ResolveRegister(reg, names)
         IN CanResolveRegister(r, others) /\ ResolveRegister(r, others) = r
<1> DEFINE r == ResolveRegister(reg, names)
<1>1. r[1] \notin {"name", "@name"}
  <2>1. CASE reg[1] = "name"
    <3>1. r = <<"", names[reg[2]]>>
      BY <2>1 DEF ResolveRegister
    <3>2. r[1] = ""
      BY <3>1, Pairs, Zenon
    <3>. QED
      BY <3>2, Zenon
  <2>2. CASE reg[1] = "@name"
    <3>1. r = <<"@", names[reg[2]]>>
      BY <2>2 DEF ResolveRegister
    <3>2. r[1] = "@"
      BY <3>1, Pairs, Zenon
    <3>. QED
      BY <3>2, Zenon
  <2>3. CASE reg[1] \notin {"name", "@name"}
    BY <2>3 DEF ResolveRegister
  <2>. QED
    BY <2>1, <2>2, <2>3
<1> HIDE DEF r
<1>2. CanResolveRegister(r, others) /\ ResolveRegister(r, others) = r
  BY <1>1 DEF CanResolveRegister, ResolveRegister
<1>. QED
  BY <1>2 DEF r

\* A line that gives all operands is not supplied with more.
LEMMA AllOperands ==
  ASSUME NEW line, NEW k, line.op \in Implemented, Len(line.args) = Len(Layout[line.op])
  PROVE  Operands(line, k) = line.args
<1>1. CASE line.op \in Ternary \cup Branching
  <2>1. Len(line.args) = 3
    <3>1. Layout[line.op] \in {Three, <<"operand", "target", "target">>}
      BY <1>1, Formats DEF Gives
    <3>2. Len(Three) = 3 /\ Len(<<"operand", "target", "target">>) = 3
      BY DEF Three
    <3>. QED
      BY <3>1, <3>2
  <2>. QED
    BY <1>1, <2>1 DEF Operands, ThreeOperands, VectorOperands, BranchOperands, ThreeIntop,
                      CallInstructions, Ternary, Branching
<1>2. CASE line.op \in Binary
  <2>1. Len(line.args) = 2
    <3>1. Layout[line.op] = Two
      BY <1>2, Formats DEF Gives
    <3>2. Len(Two) = 2
      BY DEF Two
    <3>. QED
      BY <3>1, <3>2
  <2>2. line.args # <<>>
    BY <2>1
  <2>. QED
    BY <1>2, <2>1, <2>2 DEF Operands, CastOperands, CallOperands, ThreeIntop, CallInstructions, Binary
<1>9. \A a : a = <<>> => Len(a) # 1
  OBVIOUS
<1>10. ASSUME NEW op, NEW a, op = "catch" => Len(a) = 2, op = "attach" => Len(a) = 3,
              op = "link" => Len(a) = 1, op \in {"class", "derive", "new", "msg"} => Len(a) = 2
       PROVE  NameOperands(op, a) = a
  <2>1. op = "link" => a # <<>>
    <3> SUFFICES ASSUME op = "link"
                 PROVE  a # <<>>
      OBVIOUS
    <3>1. Len(a) = 1
      BY <1>10
    <3>. QED
      BY <1>9, <3>1, Zenon
  <2>2. /\ ~(op = "attach" /\ Len(a) = 1) /\ ~(op = "attach" /\ Len(a) = 2)
        /\ ~(op \in {"class", "derive", "new", "msg", "catch"} /\ Len(a) = 1)
    <3>1. 3 # 1 /\ 3 # 2 /\ 2 # 1
      OBVIOUS
    <3>2. op \in {"class", "derive", "new", "msg", "catch"} => Len(a) = 2
      BY <1>10
    <3>. QED
      BY <1>10, <3>1, <3>2, Zenon
  <2>3. ~(op = "link" /\ a = <<>>)
    BY <2>1
  <2>. QED
    BY <2>2, <2>3, Zenon DEF NameOperands
<1>3. CASE line.op \in Naming
  <2>1. Len(line.args) = 2
    <3>1. Layout[line.op] = Named
      BY <1>3, Formats DEF Gives
    <3>2. Len(Named) = 2
      BY DEF Named
    <3>. QED
      BY <3>1, <3>2
  <2>2. CallOperands("call", line.args) = line.args
    BY <2>1 DEF CallOperands
  <2>3. CASE line.op = "call"
    BY <2>2, <2>3 DEF Operands, ThreeIntop, CallInstructions
  <2>4. CASE line.op \in {"class", "derive", "new", "msg"}
    <3>1. Operands(line, k) = NameOperands(line.op, line.args)
      BY <2>4 DEF Operands, ThreeIntop, CallInstructions
    <3>2. NameOperands(line.op, line.args) = line.args
      BY <1>10, <2>1, <2>4
    <3>. QED
      BY <3>1, <3>2
  <2>5. CASE line.op \in {"strstore", "closure", "function"}
    BY <2>5 DEF Operands, ThreeIntop, CallInstructions
  <2>. QED
    BY <1>3, <2>3, <2>4, <2>5 DEF Naming
<1>4. CASE line.op \in Unary
  BY <1>4 DEF Operands, CallOperands, ThreeIntop, CallInstructions, Unary
<1>6. CASE line.op \in Catchers
  <2>1. Len(<<"name", "name">>) = 2
    OBVIOUS
  <2>2. Layout[line.op] = <<"name", "name">>
    BY <1>6, Formats DEF Gives
  <2>3. Len(line.args) = 2
    BY <2>1, <2>2
  <2>4. Operands(line, k) = NameOperands("catch", line.args)
    BY <1>6 DEF Operands, ThreeIntop, CallInstructions, Catchers
  <2>. QED
    BY <1>10, <2>3, <2>4
<1>7. CASE line.op \in Entering
  <2>1. Len(<<"name">>) = 1
    OBVIOUS
  <2>2. Layout[line.op] = <<"name">>
    BY <1>7, Formats DEF Gives
  <2>3. Len(line.args) = 1
    BY <2>1, <2>2
  <2>4. CASE line.op = "link"
    <3>1. Operands(line, k) = NameOperands("link", line.args)
      BY <2>4 DEF Operands, ThreeIntop, CallInstructions
    <3>. QED
      BY <1>10, <2>3, <3>1
  <2>5. CASE line.op # "link"
    BY <1>7, <2>5 DEF Operands, ThreeIntop, CallInstructions, Entering
  <2>. QED
    BY <2>4, <2>5
<1>8. CASE line.op \in Attaching
  <2>1. Len(<<"operand", "name", "name">>) = 3
    OBVIOUS
  <2>2. Layout[line.op] = <<"operand", "name", "name">>
    BY <1>8, Formats DEF Gives
  <2>3. Len(line.args) = 3
    BY <2>1, <2>2
  <2>4. Operands(line, k) = NameOperands("attach", line.args)
    BY <1>8 DEF Operands, ThreeIntop, CallInstructions, Attaching
  <2>. QED
    BY <1>10, <2>3, <2>4
<1>5. CASE line.op \notin Ternary \cup Branching \cup Binary \cup Naming \cup Unary \cup Catchers \cup Entering
                            \cup Attaching
  BY <1>5, Kinds DEF Operands, ThreeIntop, CallInstructions, Bare, FloatStore, ByteStore, Selecting,
                     Jumping
<1>. QED
  BY <1>1, <1>2, <1>3, <1>4, <1>5, <1>6, <1>7, <1>8

\* What the disassembler prints for a field is assembled to that field; the
\* flag of a byte literal is lost.
LEMMA PrintedFields ==
  ASSUME NEW value, NEW marks, NEW k
  PROVE  /\ CanResolveJump(Printed("target", value), marks, k)
         /\ ResolveJump(Printed("target", value), marks, k).addr = value
         /\ Printed("byte", value) = <<"", value[2]>>
         /\ \A kind : kind \notin {"target", "byte"} => Printed(kind, value) = value
<1>1. Printed("target", value) = <<"0x", value>>
  BY DEF Printed
<1>2. <<"0x", value>>[1] = "0x" /\ <<"0x", value>>[2] = value
  BY Pairs, Zenon
<1>3. CanResolveJump(<<"0x", value>>, marks, k)
  BY <1>2 DEF CanResolveJump
<1>4. ResolveJump(<<"0x", value>>, marks, k) = [type |-> "byte", addr |-> value]
  BY <1>2 DEF ResolveJump
<1>5. /\ Printed("byte", value) = <<"", value[2]>>
      /\ \A kind : kind \notin {"target", "byte"} => Printed(kind, value) = value
  BY DEF Printed
<1>6. ResolveJump(Printed("target", value), marks, k).addr = value
  BY <1>1, <1>4
<1>. QED
  BY <1>1, <1>3, <1>5, <1>6, Zenon

\* A byte literal without a flag is taken as it is, not from a register.
Unflagged(value) == value = <<"", value[2]>>

LEMMA FieldAgain ==
  ASSUME NEW kind, NEW given, NEW value, NEW marks, NEW k, NEW names,
         Resolved(kind, given, value, marks, k, names),
         kind = "byte" => Unflagged(value),
         NEW others, NEW n, NEW registers
  PROVE  /\ CanResolve(kind, Printed(kind, value), others, n, registers)
         /\ \A back : Resolved(kind, Printed(kind, value), back, others, n, registers) => back = value
<1>1. CASE kind = "target"
  <2>1. /\ CanResolveJump(Printed(kind, value), others, n)
        /\ ResolveJump(Printed(kind, value), others, n).addr = value
    BY <1>1, PrintedFields, Zenon
  <2>2. CanResolve(kind, Printed(kind, value), others, n, registers)
    BY <1>1, <2>1 DEF CanResolve
  <2>3. \A back : Resolved(kind, Printed(kind, value), back, others, n, registers) => back = value
    BY <1>1, <2>1 DEF Resolved
  <2>. QED
    BY <2>2, <2>3
<1>2. ASSUME kind \in {"operand", "byte"}
      PROVE  Printed(kind, value) = value
  <2>1. CASE kind = "byte"
    <3>1. Printed("byte", value) = <<"", value[2]>>
      BY PrintedFields, Zenon
    <3>. QED
      BY <2>1, <3>1, Zenon DEF Unflagged
  <2>2. CASE kind = "operand"
    <3>1. kind \notin {"target", "byte"}
      BY <2>2
    <3>. QED
      BY <3>1, PrintedFields, Zenon
  <2>. QED
    BY <1>2, <2>1, <2>2
<1>3. CASE kind \in {"operand", "byte"}
  <2>1. value = ResolveRegister(given, names)
    BY <1>3 DEF Resolved
  <2>2. CanResolveRegister(value, registers) /\ ResolveRegister(value, registers) = value
    BY <2>1, ResolvedRegister
  <2>. QED
    BY <1>2, <1>3, <2>2 DEF CanResolve, Resolved
<1>4. CASE kind \notin {"operand", "byte", "target"}
  <2>1. Printed(kind, value) = value
    BY <1>4, PrintedFields, Zenon
  <2>. QED
    BY <1>4, <2>1 DEF CanResolve, Resolved
<1>. QED
  BY <1>1, <1>3, <1>4

\* Instructions have up to three fields, and a byte only bstore.
LEMMA LayoutsOfInstructions ==
  ASSUME NEW op \in Implemented
  PROVE  /\ \E m \in 0..3 : DOMAIN Layout[op] = 1..m /\ Len(Layout[op]) = m
         /\ \A i \in DOMAIN Layout[op] : Layout[op][i] = "byte" => i = 2 /\ op = "bstore"
<1> DEFINE Short(layout) == \E m \in 0..3 : DOMAIN layout = 1..m /\ Len(layout) = m
           Plain(layout) == \A i \in DOMAIN layout : layout[i] # "byte"
           Others == {<<>>, One, Two, Three, <<"operand", "float">>, Named, <<"set">>, <<"target">>,
                      <<"operand", "target", "target">>, <<"name", "name">>, <<"name">>,
                      <<"operand", "name", "name">>}
<1>1. CASE op = "bstore"
  <2>1. Layout[op] = <<"operand", "byte">>
    BY <1>1, Formats DEF Gives, ByteStore
  <2>. QED
    BY <1>1, <2>1
<1>2. CASE op # "bstore"
  <2>1. Layout[op] \in Others
    BY <1>2, Kinds, Formats DEF Gives, ByteStore
  <2>2. Plain(<<>>) /\ Plain(One) /\ Plain(Two) /\ Plain(Three) /\ Plain(Named)
    BY DEF One, Two, Three, Named
  <2>3. Short(<<>>) /\ Short(One) /\ Short(Two) /\ Short(Three) /\ Short(Named)
    BY DEF One, Two, Three, Named
  <2>4. /\ Plain(<<"operand", "float">>) /\ Plain(<<"set">>) /\ Plain(<<"target">>)
        /\ Plain(<<"operand", "target", "target">>) /\ Plain(<<"name", "name">>)
        /\ Plain(<<"name">>) /\ Plain(<<"operand", "name", "name">>)
    OBVIOUS
  <2>5. /\ Short(<<"operand", "float">>) /\ Short(<<"set">>) /\ Short(<<"target">>)
        /\ Short(<<"operand", "target", "target">>) /\ Short(<<"name", "name">>)
        /\ Short(<<"name">>) /\ Short(<<"operand", "name", "name">>)
    OBVIOUS
  <2>6. Short(Layout[op]) /\ Plain(Layout[op])
    <3> HIDE DEF Short, Plain
    <3>. QED
      BY <2>1, <2>2, <2>3, <2>4, <2>5
  <2>. QED
    BY <2>6
<1>. QED
  BY <1>1, <1>2

\* The line the disassembler prints for an instruction whose line gave its
\* names, in whatever body and wherever in it, is assembled to this instruction:
\* but for the byte literal that is taken from a register, whose @ the
\* disassembler does not print.  (Of `attach 1` an empty name would be printed,
\* which is not there when the line is read again.)
THEOREM PrintedLineIsTheInstruction ==
  ASSUME NEW line, NEW k, NEW marks, NEW names, CanCompileLine(line, k, marks, names), GivesNames(line),
         line.op = "bstore" => Unflagged(CompileLine(line, k, marks, names).args[2]),
         NEW n, NEW others, NEW registers
  PROVE  LET c == CompileLine(line, k, marks, names)
             printed == DisassembledLine(c)
             back == CompileLine(printed, n, others, registers)
         IN /\ CanCompileLine(printed, n, others, registers)
            /\ back.op = c.op /\ back.args = c.args
<1> DEFINE c == CompileLine(line, k, marks, names)
           printed == DisassembledLine(c)
           back == CompileLine(printed, n, others, registers)
           layout == Layout[line.op]
<1> HIDE DEF c, printed, back, layout
<1>1. Compiled(c, line, k, marks, names)
  BY CompiledFields DEF c
<1>2. line.op \in Implemented
  BY DEF CanCompileLine
<1>3. layout = Layout[line.op]
  BY DEF layout
<1>4. \A i \in DOMAIN layout : layout[i] = "byte" => i = 2 /\ line.op = "bstore"
  BY <1>2, <1>3, LayoutsOfInstructions
<1>5. \E m \in 0..3 : DOMAIN layout = 1..m /\ Len(layout) = m
  BY <1>2, <1>3, LayoutsOfInstructions
<1>6. line.op = "bstore" => Unflagged(c.args[2])
  BY DEF c
<1>7. printed = [op |-> line.op, args |-> [i \in DOMAIN layout |-> Printed(layout[i], c.args[i])]]
  <2>1. DOMAIN c.args = DOMAIN layout /\ c.op = line.op
    BY <1>1, <1>3 DEF Compiled
  <2>. QED
    BY <1>3, <2>1 DEF DisassembledLine, printed
<1>8. /\ printed.op = line.op /\ DOMAIN printed.args = DOMAIN layout
      /\ \A i \in DOMAIN layout : printed.args[i] = Printed(layout[i], c.args[i])
  BY <1>7
<1>9. Len(printed.args) = Len(layout)
  <2>1. PICK m \in 0..3 : DOMAIN layout = 1..m /\ Len(layout) = m
    BY <1>5
  <2>2. printed.args = [i \in 1..m |-> Printed(layout[i], c.args[i])]
    BY <1>7, <2>1
  <2>3. Len(printed.args) = m
    BY <2>1, <2>2
  <2>. QED
    BY <2>1, <2>3
<1>10. Operands(printed, n) = printed.args
  BY <1>2, <1>3, <1>8, <1>9, AllOperands
<1>11. ASSUME NEW i \in DOMAIN layout
       PROVE  /\ CanResolve(layout[i], printed.args[i], others, n, registers)
              /\ \A value : Resolved(layout[i], printed.args[i], value, others, n, registers)
                             => value = c.args[i]
  <2>1. Resolved(layout[i], Operands(line, k)[i], c.args[i], marks, k, names)
    BY <1>1, <1>3 DEF Compiled
  <2>2. layout[i] = "byte" => Unflagged(c.args[i])
    BY <1>4, <1>6
  <2>3. printed.args[i] = Printed(layout[i], c.args[i])
    BY <1>8
  <2>. QED
    BY <2>1, <2>2, <2>3, FieldAgain
<1>12. CanCompileLine(printed, n, others, registers)
  <2>1. Len(layout) \in 0..3
    BY <1>5
  <2>2. Len(printed.args) >= Len(layout)
    BY <1>9, <2>1
  <2>. QED
    BY <1>2, <1>3, <1>8, <1>10, <1>11, <2>2 DEF CanCompileLine, CanResolve
<1>13. Compiled(back, printed, n, others, registers)
  BY CompiledFields DEF back
<1>14. \A i \in DOMAIN layout : back.args[i] = c.args[i]
  BY <1>3, <1>8, <1>10, <1>11, <1>13 DEF Compiled
<1>15. back.op = c.op /\ back.args = c.args
  BY <1>1, <1>3, <1>8, <1>13, <1>14 DEF Compiled
<1>. QED
  BY <1>12, <1>15 DEF c, printed, back

-----------------------------------------------------------------------------
(***************************************************************************)
(* How a build gets where it is: every image is what generate makes of its *)
(* file.                                                                   *)
(***************************************************************************)
LibraryResult(n) ==
  Generate(n, project.libs[n].lines, Links(project.libs[n].links), Flags(TRUE))
ProgramResult == Generate(0, project.lines, Links(project.links), Flags(FALSE))
BuildInv ==
  /\ project \in Projects
  /\ stage \in {"sources", "refused", "died", "overrun", "assembled", "loaded", "reassembled",
                "not reassembled"}
  /\ Len(built) \in 0..Len(project.libs) /\ built = [n \in 1..Len(built) |-> built[n]]
  /\ \A n \in 1..Len(built) :
       LibraryResult(n).outcome = "assembled" /\ built[n] = LibraryOf(LibraryResult(n).image)
  /\ stage = "assembled" \/ Built =>
       /\ Len(built) = Len(project.libs)
       /\ ProgramResult.outcome = "assembled" /\ image = ProgramResult.image
  /\ ~(stage = "assembled" \/ Built) => image = NoImage
  /\ Built => loaded = ExecutableOf(image)

LEMMA Outcomes ==
  ASSUME NEW unit, NEW lines, NEW libs, NEW flags
  PROVE  Generate(unit, lines, libs, flags).outcome \in {"refused", "died", "overrun", "assembled"}
<1>1. Refused.outcome = "refused" /\ Died.outcome = "died" /\ Overrun.outcome = "overrun"
  BY DEF Refused, Died, Overrun
<1>2. ASSUME NEW o, NEW i
      PROVE  [outcome |-> o, image |-> i].outcome = o
  OBVIOUS
<1>3. ASSUME NEW blocks, NEW functions, NEW linked, NEW offset
      PROVE  GenerateBodies(unit, libs, flags, blocks, functions, linked, offset).outcome
               \in {"died", "overrun", "assembled"}
  BY <1>1, <1>2 DEF GenerateBodies
<1>. QED
  BY <1>1, <1>3 DEF Generate

\* A library is generated with libraries that have been built before it.
LEMMA LinksKeep ==
  ASSUME NEW n \in Nat, NEW links \in Seq(1..(n - 1)), NEW s, NEW t, \A i \in 1..(n - 1) : s[i] = t[i]
  PROVE  [i \in DOMAIN links |-> s[links[i]]] = [i \in DOMAIN links |-> t[links[i]]]
OBVIOUS

LEMMA SequenceDomain ==
  ASSUME NEW s, IsSequence(s)
  PROVE  Len(s) \in Nat /\ DOMAIN s = 1..Len(s)
BY DEF IsSequence

LEMMA ProjectParts ==
  ASSUME NEW p \in Projects
  PROVE  /\ IsFile(p.lines) /\ p.links \in Seq(DOMAIN p.libs)
         /\ Len(p.libs) \in Nat /\ DOMAIN p.libs = 1..Len(p.libs)
         /\ \A n \in 1..Len(p.libs) : IsFile(p.libs[n].lines) /\ p.libs[n].links \in Seq(1..(n - 1))
<1>1. IsProject(p)
  BY ProjectsAssumption
<1>2. /\ IsFile(p.lines) /\ p.links \in Seq(DOMAIN p.libs) /\ IsSequence(p.libs)
      /\ \A n \in DOMAIN p.libs : IsFile(p.libs[n].lines) /\ p.libs[n].links \in Seq(1..(n - 1))
  BY <1>1, Zenon DEF IsProject
<1>3. Len(p.libs) \in Nat /\ DOMAIN p.libs = 1..Len(p.libs)
  BY <1>2, SequenceDomain
<1>. QED
  BY <1>2, <1>3, Zenon

LEMMA LibrariesKeep ==
  ASSUME BuildInv, NEW n \in 1..Len(project.libs), n <= Len(built) + 1, UNCHANGED project,
         \A i \in 1..Len(built) : built'[i] = built[i]
  PROVE  LibraryResult(n)' = LibraryResult(n)
<1>1. project.libs[n].links \in Seq(1..(n - 1)) /\ n \in Nat /\ Len(built) \in Nat
  <2>1. project \in Projects /\ Len(built) \in 0..Len(project.libs)
    BY DEF BuildInv
  <2>2. /\ Len(project.libs) \in Nat
        /\ \A m \in 1..Len(project.libs) : project.libs[m].links \in Seq(1..(m - 1))
    BY <2>1, ProjectParts, Zenon
  <2>3. n \in 1..Len(project.libs) /\ n \in Nat /\ Len(built) \in Nat
    BY <2>1, <2>2
  <2>. QED
    BY <2>2, <2>3, Zenon
<1>2. ASSUME NEW i \in 1..(n - 1)
      PROVE  built'[i] = built[i]
  <2>1. i \in 1..Len(built)
    BY <1>1
  <2>. QED
    BY <2>1
<1>3. Links(project.libs[n].links)' = Links(project.libs[n].links)
  <2>1. [i \in DOMAIN project.libs[n].links |-> built'[project.libs[n].links[i]]]
        = [i \in DOMAIN project.libs[n].links |-> built[project.libs[n].links[i]]]
    BY <1>1, <1>2, LinksKeep
  <2>. QED
    BY <2>1 DEF Links
<1>4. Flags(TRUE)' = Flags(TRUE)
  BY DEF Flags
<1>. QED
  BY <1>3, <1>4 DEF LibraryResult

LEMMA BuildHolds == Spec => []BuildInv
<1>1. Init => BuildInv
  <2> SUFFICES ASSUME Init
               PROVE  BuildInv
    OBVIOUS
  <2>1. Len(built) = 0 /\ built = [n \in 1..Len(built) |-> built[n]] /\ 1..0 = {}
    BY DEF Init
  <2>2. project \in Projects /\ Len(project.libs) \in Nat
    BY ProjectParts DEF Init
  <2>3. stage = "sources" /\ image = NoImage /\ ~Built
    BY DEF Init, Built
  <2>. QED
    BY <2>1, <2>2, <2>3 DEF BuildInv
<1>2. BuildInv /\ [Next]_vars => BuildInv'
  <2> SUFFICES ASSUME BuildInv, [Next]_vars
               PROVE  BuildInv'
    OBVIOUS
  <2>0. /\ project \in Projects /\ Len(built) \in Nat /\ Len(project.libs) \in Nat
        /\ Len(built) <= Len(project.libs)
    <3>1. project \in Projects /\ Len(built) \in 0..Len(project.libs)
      BY DEF BuildInv
    <3>2. Len(project.libs) \in Nat
      BY <3>1, ProjectParts
    <3>. QED
      BY <3>1, <3>2
  <2>1. CASE AssembleLibrary
    <3>0. PICK n : n = Len(built) + 1
      OBVIOUS
    <3>1. /\ stage = "sources" /\ n \in 1..Len(project.libs) /\ UNCHANGED <<project, image, loaded, again>>
      BY <2>0, <2>1, <3>0 DEF AssembleLibrary
    <3>2. LibraryResult(n).outcome \in {"refused", "died", "overrun", "assembled"}
      BY Outcomes DEF LibraryResult
    <3>3. ~Built /\ ~(stage = "assembled") /\ image = NoImage
      BY <3>1 DEF Built, BuildInv
    <3>4. CASE LibraryResult(n).outcome = "assembled"
      <4>1. built' = Append(built, LibraryOf(LibraryResult(n).image)) /\ UNCHANGED stage
        BY <2>1, <3>0, <3>4 DEF AssembleLibrary, LibraryResult
      <4>2. /\ Len(built') = n /\ built' = [m \in 1..n |-> built'[m]]
            /\ built'[n] = LibraryOf(LibraryResult(n).image)
            /\ \A i \in 1..Len(built) : built'[i] = built[i]
        <5>1. built = [m \in 1..Len(built) |-> built[m]]
          BY DEF BuildInv
        <5>2. built \in Seq({built[m] : m \in 1..Len(built)})
          BY <2>0, <5>1
        <5>. QED
          BY <2>0, <3>0, <4>1, <5>2
      <4>3. ASSUME NEW m \in 1..n
            PROVE  LibraryResult(m)' = LibraryResult(m)
        <5>1. m \in 1..Len(project.libs) /\ m <= Len(built) + 1
          BY <2>0, <3>0, <3>1
        <5>. QED
          BY <3>1, <4>2, <5>1, LibrariesKeep
      <4>5. ASSUME NEW m \in 1..n
            PROVE  LibraryResult(m)'.outcome = "assembled" /\ built'[m] = LibraryOf(LibraryResult(m)'.image)
        <5>1. CASE m = n
          BY <3>4, <4>2, <4>3, <5>1
        <5>2. CASE m \in 1..Len(built)
          BY <4>2, <4>3, <5>2 DEF BuildInv
        <5>. QED
          BY <2>0, <3>0, <5>1, <5>2
      <4>6. ~Built' /\ ~(stage' = "assembled") /\ image' = NoImage
        BY <3>1, <3>3, <4>1 DEF Built
      <4>. QED
        BY <2>0, <3>1, <4>1, <4>2, <4>5, <4>6 DEF BuildInv
    <3>5. CASE LibraryResult(n).outcome # "assembled"
      <4>1. stage' = LibraryResult(n).outcome /\ UNCHANGED built
        BY <2>1, <3>0, <3>5 DEF AssembleLibrary, LibraryResult
      <4>2. ASSUME NEW m \in 1..Len(built)
            PROVE  LibraryResult(m)' = LibraryResult(m)
        <5>1. m \in 1..Len(project.libs) /\ m <= Len(built) + 1
          BY <2>0
        <5>. QED
          BY <3>1, <4>1, <5>1, LibrariesKeep
      <4>3. stage' \in {"refused", "died", "overrun"} /\ ~Built' /\ ~(stage' = "assembled") /\ image' = NoImage
        BY <3>1, <3>2, <3>3, <3>5, <4>1 DEF Built
      <4>. QED
        BY <3>1, <4>1, <4>2, <4>3 DEF BuildInv
    <3>. QED
      BY <3>4, <3>5
  <2>2. ASSUME UNCHANGED <<project, built>>
        PROVE  /\ \A m : LibraryResult(m)' = LibraryResult(m)
               /\ ProgramResult' = ProgramResult
    BY <2>2 DEF LibraryResult, ProgramResult, Links, Flags
  <2>3. CASE AssembleProgram
    <3>1. /\ stage = "sources" /\ Len(built) = Len(project.libs) /\ UNCHANGED <<project, built, loaded, again>>
          /\ stage' = ProgramResult.outcome
          /\ image' = IF ProgramResult.outcome = "assembled" THEN ProgramResult.image ELSE image
      BY <2>3 DEF AssembleProgram, ProgramResult
    <3>2. ProgramResult.outcome \in {"refused", "died", "overrun", "assembled"}
      BY Outcomes DEF ProgramResult
    <3>3. image = NoImage /\ ~Built'
      BY <3>1, <3>2 DEF BuildInv, Built
    <3>. QED
      BY <2>2, <3>1, <3>2, <3>3 DEF BuildInv
  <2>4. CASE Load
    <3>1. /\ stage = "assembled" /\ UNCHANGED <<project, built, image, again>>
          /\ stage' = "loaded" /\ loaded' = ExecutableOf(image)
      BY <2>4 DEF Load
    <3>. QED
      BY <2>2, <3>1 DEF BuildInv, Built
  <2>5. CASE Reassemble
    <3>1. /\ stage = "loaded" /\ UNCHANGED <<project, built, image, loaded>>
          /\ stage' \in {"reassembled", "not reassembled"}
      BY <2>5 DEF Reassemble
    <3>. QED
      BY <2>2, <3>1 DEF BuildInv, Built
  <2>6. CASE UNCHANGED vars
    <3>1. UNCHANGED <<project, stage, built, image, loaded, again>>
      BY <2>6 DEF vars
    <3>. QED
      BY <2>2, <3>1 DEF BuildInv, Built
  <2>. QED
    BY <2>1, <2>3, <2>4, <2>5, <2>6 DEF Next
<1>. QED
  BY <1>1, <1>2, PTL DEF Spec

-----------------------------------------------------------------------------
(***************************************************************************)
(* Fields of an instruction.                                               *)
(***************************************************************************)
Fields(op) == DOMAIN Layout[op]

LEMMA LayoutShapes ==
  ASSUME NEW op \in Implemented
  PROVE  /\ \E m \in 0..3 : Fields(op) = 1..m /\ Len(Layout[op]) = m
         /\ \A i \in Fields(op) :
              /\ Layout[op][i] \in {"operand", "target", "set", "float", "byte", "name"}
              /\ Layout[op][i] = "target" => op \in {"jump", "branch"}
<1> DEFINE Kinded(layout) ==
             \A i \in DOMAIN layout : layout[i] \in {"operand", "target", "set", "float", "byte", "name"}
           Plain(layout) == \A i \in DOMAIN layout : layout[i] # "target"
           Others == {<<>>, One, Two, Three, <<"operand", "float">>, <<"operand", "byte">>, Named,
                      <<"set">>, <<"name", "name">>, <<"name">>, <<"operand", "name", "name">>}
<1>1. \E m \in 0..3 : Fields(op) = 1..m /\ Len(Layout[op]) = m
  BY LayoutsOfInstructions DEF Fields
<1>2. CASE op \in {"jump", "branch"}
  <2>1. Layout[op] \in {<<"target">>, <<"operand", "target", "target">>}
    BY <1>2, Formats DEF Gives, Jumping, Branching
  <2>2. Kinded(<<"target">>) /\ Kinded(<<"operand", "target", "target">>)
    OBVIOUS
  <2>3. Kinded(Layout[op])
    <3> HIDE DEF Kinded
    <3>. QED
      BY <2>1, <2>2
  <2>. QED
    BY <1>1, <1>2, <2>3 DEF Fields
<1>3. CASE op \notin {"jump", "branch"}
  <2>1. Layout[op] \in Others
    BY <1>3, Kinds, Formats DEF Gives, Jumping, Branching
  <2>2. Plain(<<>>) /\ Plain(One) /\ Plain(Two) /\ Plain(Three) /\ Plain(Named)
    BY DEF One, Two, Three, Named
  <2>3. Kinded(<<>>) /\ Kinded(One) /\ Kinded(Two) /\ Kinded(Three) /\ Kinded(Named)
    BY DEF One, Two, Three, Named
  <2>4. /\ Plain(<<"operand", "float">>) /\ Plain(<<"operand", "byte">>) /\ Plain(<<"set">>)
        /\ Plain(<<"name", "name">>) /\ Plain(<<"name">>) /\ Plain(<<"operand", "name", "name">>)
    OBVIOUS
  <2>5. /\ Kinded(<<"operand", "float">>) /\ Kinded(<<"operand", "byte">>) /\ Kinded(<<"set">>)
        /\ Kinded(<<"name", "name">>) /\ Kinded(<<"name">>) /\ Kinded(<<"operand", "name", "name">>)
    OBVIOUS
  <2>6. Kinded(Layout[op]) /\ Plain(Layout[op])
    <3> HIDE DEF Kinded, Plain
    <3>. QED
      BY <2>1, <2>2, <2>3, <2>4, <2>5
  <2>. QED
    BY <1>1, <1>3, <2>6 DEF Fields
<1>. QED
  BY <1>2, <1>3

LEMMA FieldSizes ==
  ASSUME NEW kind \in {"operand", "target", "set", "float", "byte", "name"}, NEW value
  PROVE  FieldSize(kind, value) \in Nat /\ FieldSize(kind, value) >= 1
<1>1. TextSize(value) \in Nat /\ TextSize(value) >= 1
  BY DEF TextSize
<1>. QED
  BY <1>1 DEF FieldSize

\* An instruction takes bytes, and its fields start at different ones of them.
Sized(c) ==
  /\ EmittedSize(c) \in Nat /\ EmittedSize(c) >= 1
  /\ \A i \in Fields(c.op) : FieldOffset(c, i) \in Nat /\ FieldOffset(c, i) >= 1 /\ FieldOffset(c, i) < EmittedSize(c)
  /\ \A i, j \in Fields(c.op) : FieldOffset(c, i) = FieldOffset(c, j) => i = j
  /\ c.op = "jump" => Fields(c.op) = {1} /\ FieldOffset(c, 1) = 1
  /\ c.op = "branch" => Fields(c.op) = {1, 2, 3} /\ FieldOffset(c, 2) = 6 /\ FieldOffset(c, 3) = 10

LEMMA InstructionSized ==
  ASSUME NEW c, c.op \in Implemented
  PROVE  Sized(c)
<1> DEFINE layout == Layout[c.op]
           F(j) == FieldSize(layout[j], c.args[j])
<1>1. PICK m \in 0..3 : Fields(c.op) = 1..m /\ Len(layout) = m
  BY LayoutShapes
<1>2. \A j \in 1..m : F(j) \in Nat /\ F(j) >= 1
  BY <1>1, LayoutShapes, FieldSizes
<1>3. \A i \in 1..4 : FieldOffset(c, i) = 1 + (IF 1 < i THEN F(1) ELSE 0) + (IF 2 < i THEN F(2) ELSE 0)
                                            + (IF 3 < i THEN F(3) ELSE 0)
  BY DEF FieldOffset, OffsetIn
<1>4. EmittedSize(c) = FieldOffset(c, m + 1)
  BY <1>1 DEF EmittedSize, FieldOffset
<1>5. /\ c.op = "jump" => layout = <<"target">>
      /\ c.op = "branch" => layout = <<"operand", "target", "target">>
  BY Formats DEF Gives, Jumping, Branching
<1>6. \A value : FieldSize("operand", value) = 5 /\ FieldSize("target", value) = 4
  BY DEF FieldSize
<1>7. c.op = "jump" => m = 1
  <2>1. Len(<<"target">>) = 1
    OBVIOUS
  <2>. QED
    BY <1>1, <1>5, <2>1
<1>8. c.op = "branch" => m = 3 /\ F(1) = 5 /\ F(2) = 4
  BY <1>1, <1>5, <1>6
<1> HIDE DEF F, layout
<1>9. CASE m = 0
  BY <1>1, <1>3, <1>4, <1>7, <1>8, <1>9 DEF Sized
<1>10. CASE m = 1
  BY <1>1, <1>2, <1>3, <1>4, <1>7, <1>8, <1>10 DEF Sized
<1>11. CASE m = 2
  BY <1>1, <1>2, <1>3, <1>4, <1>7, <1>8, <1>11 DEF Sized
<1>12. CASE m = 3
  <2>1. /\ F(1) \in Nat /\ F(1) >= 1 /\ F(2) \in Nat /\ F(2) >= 1 /\ F(3) \in Nat /\ F(3) >= 1
        /\ FieldOffset(c, 1) = 1 /\ FieldOffset(c, 2) = 1 + F(1)
        /\ FieldOffset(c, 3) = 1 + F(1) + F(2) /\ EmittedSize(c) = 1 + F(1) + F(2) + F(3)
        /\ Fields(c.op) = {1, 2, 3}
    BY <1>1, <1>2, <1>3, <1>4, <1>12
  <2>. QED
    BY <1>7, <1>8, <1>12, <2>1 DEF Sized
<1>. QED
  BY <1>9, <1>10, <1>11, <1>12

\* Targets take four bytes whatever they are.
LEMMA SameSized ==
  ASSUME NEW c, NEW d, c.op = d.op, c.op \in Implemented,
         \A i \in Fields(c.op) : Layout[c.op][i] # "target" => c.args[i] = d.args[i]
  PROVE  EmittedSize(c) = EmittedSize(d) /\ \A i \in Fields(c.op) : FieldOffset(c, i) = FieldOffset(d, i)
<1> DEFINE layout == Layout[c.op]
           F(j) == FieldSize(layout[j], c.args[j])
           G(j) == FieldSize(layout[j], d.args[j])
<1>1. PICK m \in 0..3 : Fields(c.op) = 1..m /\ Len(layout) = m
  BY LayoutShapes
<1>2. \A value : FieldSize("target", value) = 4
  BY DEF FieldSize
<1>3. \A j \in 1..m : F(j) = G(j)
  BY <1>1, <1>2
<1>4. \A i \in 1..4 :
        /\ FieldOffset(c, i) = 1 + (IF 1 < i THEN F(1) ELSE 0) + (IF 2 < i THEN F(2) ELSE 0)
                                 + (IF 3 < i THEN F(3) ELSE 0)
        /\ FieldOffset(d, i) = 1 + (IF 1 < i THEN G(1) ELSE 0) + (IF 2 < i THEN G(2) ELSE 0)
                                 + (IF 3 < i THEN G(3) ELSE 0)
  BY DEF FieldOffset, OffsetIn
<1>5. EmittedSize(c) = FieldOffset(c, m + 1) /\ EmittedSize(d) = FieldOffset(d, m + 1)
  BY <1>1 DEF EmittedSize, FieldOffset
<1> HIDE DEF F, G, layout
<1>6. ASSUME NEW i \in 1..(m + 1)
      PROVE  FieldOffset(c, i) = FieldOffset(d, i)
  <2>1. i \in 1..4 /\ (1 < i => 1 \in 1..m) /\ (2 < i => 2 \in 1..m) /\ (3 < i => 3 \in 1..m)
    OBVIOUS
  <2>2. CASE i = 1
    BY <1>4, <2>1, <2>2
  <2>3. CASE i > 1
    BY <1>3, <1>4, <2>1, <2>3
  <2>. QED
    BY <2>1, <2>2, <2>3
<1>7. \A i \in 1..m : i \in 1..(m + 1)
  OBVIOUS
<1>. QED
  BY <1>1, <1>5, <1>6, <1>7

-----------------------------------------------------------------------------
(***************************************************************************)
(* Code: instructions at offsets, and the targets stored into them.        *)
(***************************************************************************)
IsInstr(c) ==
  /\ c = [op |-> c.op, args |-> c.args, types |-> c.types, source |-> c.source]
  /\ c.op \in Implemented /\ DOMAIN c.args = Fields(c.op)
IsCode(code) == DOMAIN code \subseteq Nat /\ \A o \in DOMAIN code : IsInstr(code[o])

\* The code lies in that many bytes, and no two instructions overlap.
Fits(code, size) ==
  /\ \A o \in DOMAIN code : o + EmittedSize(code[o]) <= size
  /\ \A o, p \in DOMAIN code : p > o => p >= o + EmittedSize(code[o])

\* The same instructions with other operands.
Rewritten(new, old) ==
  /\ DOMAIN new = DOMAIN old
  /\ \A o \in DOMAIN old : /\ IsInstr(new[o])
                           /\ new[o].op = old[o].op /\ new[o].types = old[o].types
                           /\ new[o].source = old[o].source

LEMMA CalculatedCode ==
  ASSUME NEW code, IsCode(code), NEW size, NEW positions, NEW offset
  PROVE  /\ Rewritten(CalculateJumps(code, size, positions, offset), code)
         /\ \A o \in DOMAIN code : \A i \in Fields(code[o].op) :
              CalculateJumps(code, size, positions, offset)[o].args[i]
                = IF i \in FieldsAt(code[o], o, positions)
                  THEN offset + BytecodeOffset(code, size, code[o].args[i]) ELSE code[o].args[i]
<1> DEFINE new == CalculateJumps(code, size, positions, offset)
<1>1. new = [o \in DOMAIN code |->
              [code[o] EXCEPT !.args =
                [i \in DOMAIN code[o].args |->
                   IF i \in FieldsAt(code[o], o, positions)
                   THEN offset + BytecodeOffset(code, size, code[o].args[i]) ELSE code[o].args[i]]]]
  BY DEF CalculateJumps, Stored
<1> HIDE DEF new
<1>2. ASSUME NEW o \in DOMAIN code
      PROVE  /\ IsInstr(new[o])
             /\ new[o].op = code[o].op /\ new[o].types = code[o].types /\ new[o].source = code[o].source
             /\ \A i \in Fields(code[o].op) :
                  new[o].args[i] = IF i \in FieldsAt(code[o], o, positions)
                                   THEN offset + BytecodeOffset(code, size, code[o].args[i])
                                   ELSE code[o].args[i]
  <2> DEFINE args == [i \in DOMAIN code[o].args |->
                        IF i \in FieldsAt(code[o], o, positions)
                        THEN offset + BytecodeOffset(code, size, code[o].args[i]) ELSE code[o].args[i]]
             c == code[o]
  <2>1. new[o] = [c EXCEPT !.args = args]
    BY <1>1
  <2>2. IsInstr(c)
    BY DEF IsCode
  <2>3. DOMAIN args = DOMAIN c.args
    OBVIOUS
  <2>4. \A i \in DOMAIN c.args : args[i] = IF i \in FieldsAt(c, o, positions)
                                 THEN offset + BytecodeOffset(code, size, c.args[i])
                                 ELSE c.args[i]
    OBVIOUS
  <2> HIDE DEF args, c
  <2>5. new[o] = [op |-> c.op, args |-> args, types |-> c.types, source |-> c.source]
    BY <2>1, <2>2 DEF IsInstr
  <2>6. IsInstr(new[o]) /\ new[o].args = args
    BY <2>2, <2>3, <2>5 DEF IsInstr
  <2>7. \A i \in Fields(c.op) : new[o].args[i] = IF i \in FieldsAt(c, o, positions)
                                 THEN offset + BytecodeOffset(code, size, c.args[i])
                                 ELSE c.args[i]
    BY <2>2, <2>4, <2>6 DEF IsInstr
  <2>. QED
    BY <2>5, <2>6, <2>7 DEF c
<1>3. DOMAIN new = DOMAIN code
  BY <1>1
<1>. QED
  BY <1>2, <1>3 DEF new, Rewritten

LEMMA RelocatedCode ==
  ASSUME NEW lib, IsCode(lib.code), NEW offset
  PROVE  /\ Rewritten(Relocated(lib, offset), lib.code)
         /\ \A o \in DOMAIN lib.code : \A i \in Fields(lib.code[o].op) :
              Relocated(lib, offset)[o].args[i]
                = IF i \in FieldsAt(lib.code[o], o, lib.jumps)
                  THEN lib.code[o].args[i] + offset ELSE lib.code[o].args[i]
<1> DEFINE new == Relocated(lib, offset)
           code == lib.code
           positions == lib.jumps
<1>1. new = [o \in DOMAIN code |->
              [code[o] EXCEPT !.args =
                [i \in DOMAIN code[o].args |->
                   IF i \in FieldsAt(code[o], o, positions)
                   THEN code[o].args[i] + offset ELSE code[o].args[i]]]]
  BY DEF Relocated, Stored
<1> HIDE DEF new, positions
<1>2. ASSUME NEW o \in DOMAIN code
      PROVE  /\ IsInstr(new[o])
             /\ new[o].op = code[o].op /\ new[o].types = code[o].types /\ new[o].source = code[o].source
             /\ \A i \in Fields(code[o].op) :
                  new[o].args[i] = IF i \in FieldsAt(code[o], o, positions)
                                   THEN code[o].args[i] + offset
                                   ELSE code[o].args[i]
  <2> DEFINE args == [i \in DOMAIN code[o].args |->
                        IF i \in FieldsAt(code[o], o, positions)
                        THEN code[o].args[i] + offset ELSE code[o].args[i]]
             c == code[o]
  <2>1. new[o] = [c EXCEPT !.args = args]
    BY <1>1
  <2>2. IsInstr(c)
    BY DEF IsCode
  <2>3. DOMAIN args = DOMAIN c.args
    OBVIOUS
  <2>4. \A i \in DOMAIN c.args : args[i] = IF i \in FieldsAt(c, o, positions)
                                 THEN c.args[i] + offset ELSE c.args[i]
    OBVIOUS
  <2> HIDE DEF args, c
  <2>5. new[o] = [op |-> c.op, args |-> args, types |-> c.types, source |-> c.source]
    BY <2>1, <2>2 DEF IsInstr
  <2>6. IsInstr(new[o]) /\ new[o].args = args
    BY <2>2, <2>3, <2>5 DEF IsInstr
  <2>7. \A i \in Fields(c.op) : new[o].args[i] = IF i \in FieldsAt(c, o, positions)
                                 THEN c.args[i] + offset ELSE c.args[i]
    BY <2>2, <2>4, <2>6 DEF IsInstr
  <2>. QED
    BY <2>5, <2>6, <2>7 DEF c
<1>3. DOMAIN new = DOMAIN code
  BY <1>1
<1>. QED
  BY <1>2, <1>3 DEF new, positions, Rewritten

\* The positions are those of targets.
AtTargets(positions, code) ==
  \A p \in positions : \E o \in DOMAIN code : \E i \in Fields(code[o].op) :
    Layout[code[o].op][i] = "target" /\ p = o + FieldOffset(code[o], i)

LEMMA CodeSized ==
  ASSUME NEW code, IsCode(code), NEW o \in DOMAIN code
  PROVE  o \in Nat /\ Sized(code[o]) /\ EmittedSize(code[o]) \in Nat /\ EmittedSize(code[o]) >= 1
<1>1. o \in Nat /\ code[o].op \in Implemented
  BY DEF IsCode, IsInstr
<1>2. Sized(code[o])
  BY <1>1, InstructionSized
<1>. QED
  BY <1>1, <1>2 DEF Sized

\* Instructions that do not overlap have their fields apart.
LEMMA FieldsApart ==
  ASSUME NEW code, NEW size, IsCode(code), Fits(code, size),
         NEW o \in DOMAIN code, NEW i \in Fields(code[o].op),
         NEW p \in DOMAIN code, NEW j \in Fields(code[p].op),
         o + FieldOffset(code[o], i) = p + FieldOffset(code[p], j)
  PROVE  o = p /\ i = j
<1>1. /\ o \in Nat /\ FieldOffset(code[o], i) \in Nat /\ FieldOffset(code[o], i) >= 1
      /\ FieldOffset(code[o], i) < EmittedSize(code[o]) /\ EmittedSize(code[o]) \in Nat
  BY CodeSized DEF Sized
<1>2. /\ p \in Nat /\ FieldOffset(code[p], j) \in Nat /\ FieldOffset(code[p], j) >= 1
      /\ FieldOffset(code[p], j) < EmittedSize(code[p]) /\ EmittedSize(code[p]) \in Nat
  BY CodeSized DEF Sized
<1>3. ~(p > o)
  <2>1. p > o => p >= o + EmittedSize(code[o])
    BY DEF Fits
  <2>. QED
    BY <1>1, <1>2, <2>1
<1>4. ~(o > p)
  <2>1. o > p => o >= p + EmittedSize(code[p])
    BY DEF Fits
  <2>. QED
    BY <1>1, <1>2, <2>1
<1>5. o = p
  BY <1>1, <1>2, <1>3, <1>4
<1>6. FieldOffset(code[o], i) = FieldOffset(code[o], j)
  BY <1>1, <1>2, <1>5
<1>7. Sized(code[o])
  BY CodeSized
<1>. QED
  BY <1>5, <1>6, <1>7 DEF Sized

\* What is stored goes into targets, so that all else stays.
LEMMA StoredIntoTargets ==
  ASSUME NEW code, NEW size, IsCode(code), Fits(code, size), NEW positions, AtTargets(positions, code),
         NEW o \in DOMAIN code
  PROVE  \A i \in FieldsAt(code[o], o, positions) : i \in Fields(code[o].op) /\ Layout[code[o].op][i] = "target"
<1> SUFFICES ASSUME NEW i \in FieldsAt(code[o], o, positions)
             PROVE  i \in Fields(code[o].op) /\ Layout[code[o].op][i] = "target"
  OBVIOUS
<1>1. i \in DOMAIN code[o].args /\ o + FieldOffset(code[o], i) \in positions
  BY DEF FieldsAt
<1>2. i \in Fields(code[o].op)
  BY <1>1 DEF IsCode, IsInstr
<1>3. PICK p \in DOMAIN code : \E j \in Fields(code[p].op) :
        Layout[code[p].op][j] = "target" /\ o + FieldOffset(code[o], i) = p + FieldOffset(code[p], j)
  BY <1>1 DEF AtTargets
<1>4. PICK j \in Fields(code[p].op) :
        Layout[code[p].op][j] = "target" /\ o + FieldOffset(code[o], i) = p + FieldOffset(code[p], j)
  BY <1>3
<1>5. o = p /\ i = j
  BY <1>2, <1>4, FieldsApart
<1>. QED
  BY <1>2, <1>4, <1>5

LEMMA RewrittenSizes ==
  ASSUME NEW new, NEW old, IsCode(old), Rewritten(new, old),
         \A o \in DOMAIN old : \A i \in Fields(old[o].op) :
           Layout[old[o].op][i] # "target" => new[o].args[i] = old[o].args[i]
  PROVE  /\ IsCode(new)
         /\ \A o \in DOMAIN old : /\ EmittedSize(new[o]) = EmittedSize(old[o])
                                 /\ \A i \in Fields(old[o].op) : FieldOffset(new[o], i) = FieldOffset(old[o], i)
         /\ \A size : Fits(old, size) => Fits(new, size)
<1>1. IsCode(new)
  BY DEF Rewritten, IsCode
<1>2. ASSUME NEW o \in DOMAIN old
      PROVE  /\ EmittedSize(new[o]) = EmittedSize(old[o])
             /\ \A i \in Fields(old[o].op) : FieldOffset(new[o], i) = FieldOffset(old[o], i)
  <2>1. new[o].op = old[o].op /\ old[o].op \in Implemented
    BY DEF Rewritten, IsCode, IsInstr
  <2>. QED
    BY <2>1, SameSized
<1>3. \A size : Fits(old, size) => Fits(new, size)
  BY <1>2 DEF Fits, Rewritten
<1>. QED
  BY <1>1, <1>2, <1>3

\* The jumps of a kind, by the instruction and the field.
LEMMA JumpsAreTargets ==
  ASSUME NEW code, IsCode(code), NEW absolute
  PROVE  AtTargets(Jumps(code, absolute), code)
<1> SUFFICES ASSUME NEW q \in Jumps(code, absolute)
             PROVE  \E o \in DOMAIN code : \E i \in Fields(code[o].op) :
                      Layout[code[o].op][i] = "target" /\ q = o + FieldOffset(code[o], i)
  BY DEF AtTargets
<1>1. PICK o \in DOMAIN code :
        \E p \in (CASE code[o].op = "jump" -> JumpPosition(code[o], absolute)
                    [] code[o].op = "branch" -> BranchPositions(code[o], absolute)
                    [] OTHER -> {}) : q = o + p
  BY DEF Jumps
<1>2. Sized(code[o])
  BY CodeSized
<1>3. CASE code[o].op = "jump"
  <2>1. q = o + 1
    BY <1>1, <1>3 DEF JumpPosition
  <2>2. Layout[code[o].op][1] = "target" /\ 1 \in Fields(code[o].op) /\ FieldOffset(code[o], 1) = 1
    BY <1>2, <1>3, Formats DEF Sized, Gives, Jumping
  <2>. QED
    BY <2>1, <2>2
<1>4. CASE code[o].op = "branch"
  <2>1. q = o + 6 \/ q = o + 10
    BY <1>1, <1>4 DEF BranchPositions
  <2>2. Layout[code[o].op] = <<"operand", "target", "target">>
    BY <1>4, Formats DEF Gives, Branching
  <2>3. Layout[code[o].op][2] = "target" /\ Layout[code[o].op][3] = "target"
    BY <2>2
  <2>4. {2, 3} \subseteq Fields(code[o].op) /\ FieldOffset(code[o], 2) = 6 /\ FieldOffset(code[o], 3) = 10
    BY <1>2, <1>4 DEF Sized
  <2>. QED
    BY <2>1, <2>3, <2>4
<1>5. CASE code[o].op \notin {"jump", "branch"}
  BY <1>1, <1>5
<1>. QED
  BY <1>3, <1>4, <1>5

-----------------------------------------------------------------------------
(***************************************************************************)
(* Instructions one after the other, and pieces of code one after the      *)
(* other.                                                                  *)
(***************************************************************************)
IsBody(s) == \E n \in Nat : DOMAIN s = 1..n /\ \A k \in 1..n : IsInstr(s[k])
Sizes(s) == [k \in DOMAIN s |-> EmittedSize(s[k])]

LEMMA BodySizes ==
  ASSUME NEW n \in Nat, NEW s, DOMAIN s = 1..n, \A k \in 1..n : IsInstr(s[k])
  PROVE  /\ Sizes(s) \in Seq(Nat) /\ Len(Sizes(s)) = n
         /\ \A k \in 1..n : Sizes(s)[k] = EmittedSize(s[k]) /\ EmittedSize(s[k]) \in Nat /\ EmittedSize(s[k]) >= 1
         /\ Places(Sizes(s))[0] = 0
         /\ \A k \in 0..n : Places(Sizes(s))[k] \in Nat
         /\ \A k \in 1..n : Places(Sizes(s))[k] = Places(Sizes(s))[k - 1] + EmittedSize(s[k])
<1>1. \A k \in 1..n : EmittedSize(s[k]) \in Nat /\ EmittedSize(s[k]) >= 1
  BY InstructionSized DEF IsInstr, Sized
<1>2. Sizes(s) = [k \in 1..n |-> EmittedSize(s[k])]
  BY DEF Sizes
<1>3. Sizes(s) \in Seq(Nat) /\ Len(Sizes(s)) = n /\ \A k \in 1..n : Sizes(s)[k] = EmittedSize(s[k])
  BY <1>1, <1>2
<1>. QED
  BY <1>1, <1>3, PlacesAdd

Placement(code, s, n) ==
  /\ IsCode(code) /\ Fits(code, Total(Sizes(s)))
  /\ \A k \in 1..n : Places(Sizes(s))[k - 1] \in DOMAIN code /\ code[Places(Sizes(s))[k - 1]] = s[k]
  /\ \A o \in DOMAIN code : \E k \in 1..n : o = Places(Sizes(s))[k - 1]

LEMMA PlacedCode ==
  ASSUME NEW n \in Nat, NEW s, DOMAIN s = 1..n, \A k \in 1..n : IsInstr(s[k])
  PROVE  Placement(Placed(s), s, n)
<1> DEFINE P == Places(Sizes(s))
           code == Placed(s)
<1>1. /\ Sizes(s) \in Seq(Nat) /\ Len(Sizes(s)) = n
      /\ \A k \in 1..n : EmittedSize(s[k]) \in Nat /\ EmittedSize(s[k]) >= 1
      /\ \A k \in 0..n : P[k] \in Nat
      /\ \A k \in 1..n : P[k] = P[k - 1] + EmittedSize(s[k])
  BY BodySizes
<1>2. code = [o \in {P[k - 1] : k \in 1..n} |-> s[CHOOSE k \in 1..n : P[k - 1] = o]]
  BY DEF Placed, Sizes
<1>3. \A j \in 0..n : \A k \in j..n : P[j] <= P[k]
  BY <1>1, PlacesGrow
<1>4. Total(Sizes(s)) = P[n]
  BY <1>1 DEF Total
<1> HIDE DEF P, code
<1>5. ASSUME NEW j \in 1..n, NEW k \in 1..n, j < k
      PROVE  P[k - 1] >= P[j - 1] + EmittedSize(s[j]) /\ P[k - 1] # P[j - 1]
  <2>1. j \in 0..n /\ k - 1 \in j..n /\ j - 1 \in 0..n /\ k - 1 \in 0..n
    BY <1>5
  <2>2. P[j] <= P[k - 1]
    BY <1>3, <2>1
  <2>3. P[j] = P[j - 1] + EmittedSize(s[j]) /\ EmittedSize(s[j]) \in Nat /\ EmittedSize(s[j]) >= 1
    BY <1>1
  <2>4. P[j - 1] \in Nat /\ P[k - 1] \in Nat /\ P[j] \in Nat
    BY <1>1, <2>1
  <2>. QED
    BY <2>2, <2>3, <2>4
<1>6. ASSUME NEW k \in 1..n
      PROVE  P[k - 1] \in DOMAIN code /\ code[P[k - 1]] = s[k] /\ P[k - 1] \in Nat
  <2>1. P[k - 1] \in DOMAIN code
    BY <1>2
  <2>2. ASSUME NEW j \in 1..n, P[j - 1] = P[k - 1]
        PROVE  j = k
    <3>1. ~(j < k)
      BY <1>5, <2>2
    <3>2. ~(k < j)
      BY <1>5, <2>2
    <3>. QED
      BY <3>1, <3>2
  <2>3. (CHOOSE j \in 1..n : P[j - 1] = P[k - 1]) = k
    BY <2>2
  <2>4. code[P[k - 1]] = s[CHOOSE j \in 1..n : P[j - 1] = P[k - 1]]
    BY <1>2
  <2>5. k - 1 \in 0..n
    OBVIOUS
  <2>. QED
    BY <1>1, <2>1, <2>3, <2>4, <2>5
<1>7. \A o \in DOMAIN code : \E k \in 1..n : o = P[k - 1]
  BY <1>2
<1>8. IsCode(code)
  <2>1. ASSUME NEW o \in DOMAIN code
        PROVE  o \in Nat /\ IsInstr(code[o])
    <3>1. PICK k \in 1..n : o = P[k - 1]
      BY <1>7
    <3>. QED
      BY <1>6, <3>1
  <2>. QED
    BY <2>1 DEF IsCode
<1>9. Fits(code, P[n])
  <2>1. ASSUME NEW o \in DOMAIN code
        PROVE  o + EmittedSize(code[o]) <= P[n]
    <3>1. PICK k \in 1..n : o = P[k - 1]
      BY <1>7
    <3>2. o + EmittedSize(code[o]) = P[k]
      BY <1>1, <1>6, <3>1
    <3>3. k \in 0..n /\ n \in k..n
      OBVIOUS
    <3>. QED
      BY <1>3, <3>2, <3>3
  <2>2. ASSUME NEW o \in DOMAIN code, NEW p \in DOMAIN code, p > o
        PROVE  p >= o + EmittedSize(code[o])
    <3>1. PICK j \in 1..n : o = P[j - 1]
      BY <1>7
    <3>2. PICK k \in 1..n : p = P[k - 1]
      BY <1>7
    <3>3. CASE j < k
      BY <1>5, <1>6, <3>1, <3>2, <3>3
    <3>4. CASE k <= j
      <4>1. k - 1 \in 0..n /\ j - 1 \in (k - 1)..n /\ j - 1 \in 0..n
        BY <3>4
      <4>2. P[k - 1] <= P[j - 1] /\ P[k - 1] \in Nat /\ P[j - 1] \in Nat
        BY <1>1, <1>3, <4>1
      <4>. QED
        BY <2>2, <3>1, <3>2, <4>2
    <3>. QED
      BY <3>3, <3>4
  <2>. QED
    BY <2>1, <2>2 DEF Fits
<1>. QED
  BY <1>4, <1>6, <1>7, <1>8, <1>9 DEF Placement, P, code

-----------------------------------------------------------------------------
PieceSizes(pieces) == [k \in DOMAIN pieces |-> pieces[k].size]
ArePieces(pieces, n) ==
  DOMAIN pieces = 1..n /\ \A k \in 1..n : pieces[k].size \in Nat /\ IsCode(pieces[k].code)

LEMMA PiecesPlaced ==
  ASSUME NEW n \in Nat, NEW pieces, ArePieces(pieces, n)
  PROVE  /\ PieceSizes(pieces) \in Seq(Nat) /\ Len(PieceSizes(pieces)) = n
         /\ \A k \in 0..n : Places(PieceSizes(pieces))[k] \in Nat
         /\ \A k \in 1..n : Places(PieceSizes(pieces))[k] = Places(PieceSizes(pieces))[k - 1] + pieces[k].size
         /\ Places(PieceSizes(pieces))[0] = 0
<1>1. PieceSizes(pieces) = [k \in 1..n |-> pieces[k].size] /\ \A k \in 1..n : pieces[k].size \in Nat
  BY DEF PieceSizes, ArePieces
<1>2. /\ PieceSizes(pieces) \in Seq(Nat) /\ Len(PieceSizes(pieces)) = n
      /\ \A k \in 1..n : PieceSizes(pieces)[k] = pieces[k].size
  BY <1>1
<1>. QED
  BY <1>2, PlacesAdd

\* What is written comes from a piece.
LEMMA WrittenFrom ==
  ASSUME NEW n \in Nat, NEW pieces, ArePieces(pieces, n), NEW start \in Nat
  PROVE  /\ IsCode(Written(pieces, start))
         /\ \A o \in DOMAIN Written(pieces, start) :
              \E k \in 1..n : \E p \in DOMAIN pieces[k].code :
                o = start + Places(PieceSizes(pieces))[k - 1] + p /\ Written(pieces, start)[o] = pieces[k].code[p]
<1> DEFINE P == Places(PieceSizes(pieces))
           code == Written(pieces, start)
           piece(o) == CHOOSE k \in 1..n : o - (start + P[k - 1]) \in DOMAIN pieces[k].code
<1>1. DOMAIN pieces = 1..n /\ \A k \in 1..n : IsCode(pieces[k].code)
  BY DEF ArePieces
<1>2. code = [o \in UNION {{p + (start + P[k - 1]) : p \in DOMAIN pieces[k].code} : k \in 1..n} |->
                pieces[piece(o)].code[o - (start + P[piece(o) - 1])]]
  BY <1>1 DEF Written, PieceSizes
<1>3. \A k \in 0..n : P[k] \in Nat
  BY PiecesPlaced
<1> HIDE DEF P, code, piece
<1>4. ASSUME NEW o \in DOMAIN code
      PROVE  \E k \in 1..n : \E p \in DOMAIN pieces[k].code : o = start + P[k - 1] + p /\ code[o] = pieces[k].code[p] /\ o \in Nat
  <2>1. PICK k \in 1..n : o \in {p + (start + P[k - 1]) : p \in DOMAIN pieces[k].code}
    BY <1>2
  <2>2. PICK p \in DOMAIN pieces[k].code : o = p + (start + P[k - 1])
    BY <2>1
  <2>3. p \in Nat /\ P[k - 1] \in Nat
    BY <1>1, <1>3 DEF IsCode
  <2>4. o - (start + P[k - 1]) = p /\ o \in Nat
    BY <2>2, <2>3
  <2>5. piece(o) \in 1..n /\ o - (start + P[piece(o) - 1]) \in DOMAIN pieces[piece(o)].code
    <3>1. \E j \in 1..n : o - (start + P[j - 1]) \in DOMAIN pieces[j].code
      BY <2>4
    <3>. QED
      BY <3>1 DEF piece
  <2>6. code[o] = pieces[piece(o)].code[o - (start + P[piece(o) - 1])]
    BY <1>2
  <2>7. P[piece(o) - 1] \in Nat
    BY <1>3, <2>5
  <2>8. o = start + P[piece(o) - 1] + (o - (start + P[piece(o) - 1]))
    BY <2>4, <2>7
  <2>. QED
    BY <2>4, <2>5, <2>6, <2>8
<1>5. IsCode(code)
  BY <1>1, <1>4 DEF IsCode
<1>. QED
  BY <1>4, <1>5 DEF P, code

\* Pieces that fit are written as they are.
Together(code, pieces, n, start) ==
  /\ Fits(code, start + Total(PieceSizes(pieces)))
  /\ \A k \in 1..n : \A p \in DOMAIN pieces[k].code :
       /\ start + Places(PieceSizes(pieces))[k - 1] + p \in DOMAIN code
       /\ code[start + Places(PieceSizes(pieces))[k - 1] + p] = pieces[k].code[p]

LEMMA WrittenTogether ==
  ASSUME NEW n \in Nat, NEW pieces, ArePieces(pieces, n), NEW start \in Nat,
         \A k \in 1..n : Fits(pieces[k].code, pieces[k].size)
  PROVE  Together(Written(pieces, start), pieces, n, start)
<1> DEFINE P == Places(PieceSizes(pieces))
           code == Written(pieces, start)
<1>1. DOMAIN pieces = 1..n /\ \A k \in 1..n : IsCode(pieces[k].code) /\ pieces[k].size \in Nat
  BY DEF ArePieces
<1>2. DOMAIN code = UNION {{p + (start + P[k - 1]) : p \in DOMAIN pieces[k].code} : k \in 1..n}
  BY <1>1 DEF Written, PieceSizes
<1>3. /\ PieceSizes(pieces) \in Seq(Nat) /\ Len(PieceSizes(pieces)) = n
      /\ \A k \in 0..n : P[k] \in Nat
      /\ \A k \in 1..n : P[k] = P[k - 1] + pieces[k].size
  BY PiecesPlaced
<1>4. \A j \in 0..n : \A k \in j..n : P[j] <= P[k]
  BY <1>3, PlacesGrow
<1>5. \A o \in DOMAIN code :
              \E k \in 1..n : \E p \in DOMAIN pieces[k].code : o = start + P[k - 1] + p /\ code[o] = pieces[k].code[p]
  BY WrittenFrom
<1>6. Total(PieceSizes(pieces)) = P[n]
  BY <1>3 DEF Total
<1> HIDE DEF P, code
<1>7. ASSUME NEW k \in 1..n, NEW p \in DOMAIN pieces[k].code
      PROVE  /\ p \in Nat /\ P[k - 1] \in Nat /\ P[k] \in Nat /\ P[k] = P[k - 1] + pieces[k].size
             /\ EmittedSize(pieces[k].code[p]) \in Nat /\ EmittedSize(pieces[k].code[p]) >= 1
             /\ p + EmittedSize(pieces[k].code[p]) <= pieces[k].size
  <2>1. IsCode(pieces[k].code) /\ k \in 0..n /\ k - 1 \in 0..n
    BY <1>1
  <2>. QED
    BY <1>3, <2>1, CodeSized DEF Fits
\* Of two instructions of different pieces the first ends before the second.
<1>8. ASSUME NEW j \in 1..n, NEW k \in 1..n, j < k,
             NEW p \in DOMAIN pieces[j].code, NEW q \in DOMAIN pieces[k].code
      PROVE  start + P[j - 1] + p + EmittedSize(pieces[j].code[p]) <= start + P[k - 1] + q
  <2>1. j \in 0..n /\ k - 1 \in j..n
    BY <1>8
  <2>2. P[j] <= P[k - 1]
    BY <1>4, <2>1
  <2>3. /\ p \in Nat /\ P[j - 1] \in Nat /\ P[j] = P[j - 1] + pieces[j].size
        /\ EmittedSize(pieces[j].code[p]) \in Nat /\ p + EmittedSize(pieces[j].code[p]) <= pieces[j].size
        /\ pieces[j].size \in Nat
    BY <1>1, <1>7
  <2>4. q \in Nat /\ P[k - 1] \in Nat
    BY <1>7
  <2>. QED
    BY <2>2, <2>3, <2>4
<1>9. ASSUME NEW k \in 1..n, NEW p \in DOMAIN pieces[k].code
      PROVE  start + P[k - 1] + p \in DOMAIN code /\ code[start + P[k - 1] + p] = pieces[k].code[p]
  <2>1. start + P[k - 1] + p \in DOMAIN code
    <3>1. p + (start + P[k - 1]) \in DOMAIN code
      BY <1>2
    <3>. QED
      BY <1>7, <3>1
  <2>2. PICK j \in 1..n : \E q \in DOMAIN pieces[j].code :
          start + P[k - 1] + p = start + P[j - 1] + q /\ code[start + P[k - 1] + p] = pieces[j].code[q]
    BY <1>5, <2>1
  <2>3. PICK q \in DOMAIN pieces[j].code :
          start + P[k - 1] + p = start + P[j - 1] + q /\ code[start + P[k - 1] + p] = pieces[j].code[q]
    BY <2>2
  <2>4. ~(j < k)
    <3> SUFFICES ASSUME j < k
                 PROVE  FALSE
      OBVIOUS
    <3>1. start + P[j - 1] + q + EmittedSize(pieces[j].code[q]) <= start + P[k - 1] + p
      BY <1>8
    <3>. QED
      BY <1>7, <2>3, <3>1
  <2>5. ~(k < j)
    <3> SUFFICES ASSUME k < j
                 PROVE  FALSE
      OBVIOUS
    <3>1. start + P[k - 1] + p + EmittedSize(pieces[k].code[p]) <= start + P[j - 1] + q
      BY <1>8
    <3>. QED
      BY <1>7, <2>3, <3>1
  <2>6. j = k
    BY <2>4, <2>5
  <2>7. p = q
    BY <1>7, <2>3, <2>6
  <2>. QED
    BY <2>1, <2>3, <2>6, <2>7
<1>10. ASSUME NEW o \in DOMAIN code
       PROVE  o + EmittedSize(code[o]) <= start + P[n]
  <2>1. PICK k \in 1..n : \E p \in DOMAIN pieces[k].code : o = start + P[k - 1] + p /\ code[o] = pieces[k].code[p]
    BY <1>5
  <2>2. PICK p \in DOMAIN pieces[k].code : o = start + P[k - 1] + p /\ code[o] = pieces[k].code[p]
    BY <2>1
  <2>3. k \in 0..n /\ n \in k..n /\ n \in 0..n
    OBVIOUS
  <2>4. P[k] <= P[n] /\ P[n] \in Nat
    BY <1>3, <1>4, <2>3
  <2>5. /\ p \in Nat /\ P[k - 1] \in Nat /\ P[k] \in Nat /\ P[k] = P[k - 1] + pieces[k].size
        /\ EmittedSize(code[o]) \in Nat /\ p + EmittedSize(code[o]) <= pieces[k].size
    BY <1>7, <2>2
  <2>6. pieces[k].size \in Nat
    BY <1>1
  <2>. QED
    BY <2>2, <2>4, <2>5, <2>6
<1>11. ASSUME NEW o1 \in DOMAIN code, NEW o2 \in DOMAIN code, o2 > o1
       PROVE  o2 >= o1 + EmittedSize(code[o1])
  <2>1. PICK k \in 1..n : \E p \in DOMAIN pieces[k].code : o1 = start + P[k - 1] + p /\ code[o1] = pieces[k].code[p]
    BY <1>5
  <2>2. PICK p \in DOMAIN pieces[k].code : o1 = start + P[k - 1] + p /\ code[o1] = pieces[k].code[p]
    BY <2>1
  <2>3. PICK j \in 1..n : \E q \in DOMAIN pieces[j].code : o2 = start + P[j - 1] + q /\ code[o2] = pieces[j].code[q]
    BY <1>5
  <2>4. PICK q \in DOMAIN pieces[j].code : o2 = start + P[j - 1] + q /\ code[o2] = pieces[j].code[q]
    BY <2>3
  <2>5. CASE k < j
    <3>1. start + P[k - 1] + p + EmittedSize(pieces[k].code[p]) <= start + P[j - 1] + q
      BY <1>8, <2>5
    <3>. QED
      BY <1>7, <2>2, <2>4, <3>1
  <2>6. CASE j < k
    <3>1. start + P[j - 1] + q + EmittedSize(pieces[j].code[q]) <= start + P[k - 1] + p
      BY <1>8, <2>6
    <3>. QED
      BY <1>7, <1>11, <2>2, <2>4, <3>1
  <2>7. CASE j = k
    <3>1. q > p
      BY <1>7, <1>11, <2>2, <2>4, <2>7
    <3>2. q >= p + EmittedSize(pieces[k].code[p])
      BY <2>7, <3>1 DEF Fits
    <3>. QED
      BY <1>7, <2>2, <2>4, <2>7, <3>2
  <2>. QED
    BY <2>5, <2>6, <2>7
<1>12. Fits(code, start + P[n])
  BY <1>10, <1>11 DEF Fits
<1>. QED
  BY <1>6, <1>9, <1>12 DEF Together, P, code

-----------------------------------------------------------------------------
(***************************************************************************)
(* A file: where bodies are in it.                                         *)
(***************************************************************************)
Opens(lines) == {i \in DOMAIN lines : lines[i].op \in {".function:", ".block:"}}
\* Lines whose names are counted as they are emitted.
Complete(lines) == \A i \in DOMAIN lines : IsSequence(lines[i].args) /\ GivesNames(lines[i])
\* A file with such lines that defines no name twice.
ProperFile(lines) ==
  /\ Complete(lines)
  /\ \A i, j \in Opens(lines) : /\ lines[i].args[1] # EntryFunctionName
                                /\ lines[i].args[1] = lines[j].args[1] => i = j

LEMMA MinIsLeast ==
  ASSUME NEW S \in SUBSET Nat, S # {}
  PROVE  Min(S) \in S /\ \A i \in S : Min(S) <= i
<1>1. \E x \in S : \A y \in S : x <= y
  BY SmallestExists
<1>. QED
  BY <1>1 DEF Min

LEMMA MaxIsOnly ==
  ASSUME NEW i \in Int
  PROVE  Max({i}) = i
BY DEF Max

LEMMA MaxIsIn ==
  ASSUME NEW n \in Nat, NEW S \in SUBSET (1..n), S # {}
  PROVE  Max(S) \in S
<1> DEFINE R == {n - i : i \in S}
<1>1. R \in SUBSET Nat /\ R # {}
  <2>1. ASSUME NEW i \in S
        PROVE  n - i \in Nat
    <3>1. i \in 1..n
      OBVIOUS
    <3>. QED
      BY <3>1
  <2>2. PICK i : i \in S
    OBVIOUS
  <2>3. n - i \in R
    BY <2>2
  <2>. QED
    BY <2>1, <2>3
<1>2. PICK r \in R : \A y \in R : r <= y
  BY <1>1, SmallestExists
<1>3. PICK i \in S : r = n - i
  OBVIOUS
<1>4. \A j \in S : i >= j
  <2> SUFFICES ASSUME NEW j \in S
               PROVE  i >= j
    OBVIOUS
  <2>1. n - i <= n - j
    BY <1>2, <1>3
  <2>2. i \in Nat /\ j \in Nat
    OBVIOUS
  <2>. QED
    BY <2>1, <2>2
<1>. QED
  BY <1>4 DEF Max

\* Where the body opened at line o closes.
Closes(lines, o) ==
  /\ Closing(lines, o) \in DOMAIN lines /\ Closing(lines, o) > o /\ Closing(lines, o) \in Nat
  /\ lines[Closing(lines, o)].op = ".end"
  /\ \A j \in (o + 1)..(Closing(lines, o)) : lines[j].op \notin {".function:", ".block:"}
  /\ \A j \in (o + 1)..(Closing(lines, o) - 1) : lines[j].op # ".end"

LEMMA ClosingLine ==
  ASSUME NEW lines, IsFile(lines), NEW o \in Opens(lines)
  PROVE  Closes(lines, o)
<1> DEFINE N == Len(lines)
           E == {j \in DOMAIN lines : j > o /\ lines[j].op = ".end"}
           c == Closing(lines, o)
<1>1. N \in Nat /\ DOMAIN lines = 1..N
  BY SequenceDomain DEF IsFile
<1>2. PICK e \in DOMAIN lines :
        /\ e > o /\ lines[e].op = ".end"
        /\ \A j \in (o + 1)..e : lines[j].op \notin {".function:", ".block:"}
  BY DEF IsFile, Opens
<1>3. E \in SUBSET Nat /\ e \in E /\ o \in 1..N
  BY <1>1, <1>2 DEF Opens
<1>4. c \in E /\ \A j \in E : c <= j
  BY <1>3, MinIsLeast DEF Closing
<1> HIDE DEF c
<1>5. c \in 1..N /\ c > o /\ lines[c].op = ".end" /\ c <= e /\ e \in Nat /\ c \in Nat
  BY <1>1, <1>3, <1>4
<1>6. \A j \in (o + 1)..c : lines[j].op \notin {".function:", ".block:"}
  BY <1>2, <1>3, <1>5
<1>7. ASSUME NEW j \in (o + 1)..(c - 1)
      PROVE  lines[j].op # ".end"
  <2>1. j \in 1..N /\ j > o /\ j < c /\ j \in Nat
    BY <1>3, <1>5
  <2>2. j \notin E
    BY <1>4, <1>5, <2>1
  <2>. QED
    BY <1>1, <2>1, <2>2
<1>. QED
  BY <1>1, <1>5, <1>6, <1>7 DEF Closes, c

\* The lines of the body.
BodyLines(lines, o) == SubSeq(lines, o + 1, Closing(lines, o) - 1)
Slice(lines, o) == (o + 1)..(Closing(lines, o) - 1)

LEMMA SliceLines ==
  ASSUME NEW lines, IsFile(lines), NEW o \in Opens(lines)
  PROVE  /\ o \in Nat /\ o >= 1 /\ Len(lines) \in Nat /\ DOMAIN lines = 1..Len(lines) /\ Closing(lines, o) <= Len(lines)
         /\ Len(BodyLines(lines, o)) = Closing(lines, o) - o - 1 /\ Len(BodyLines(lines, o)) \in Nat
         /\ DOMAIN BodyLines(lines, o) = 1..Len(BodyLines(lines, o))
         /\ \A k \in 1..Len(BodyLines(lines, o)) :
              BodyLines(lines, o)[k] = lines[o + k] /\ o + k \in Slice(lines, o) /\ o + k \in DOMAIN lines
         /\ IsSequence(BodyLines(lines, o))
<1> DEFINE c == Closing(lines, o) b == BodyLines(lines, o)
<1>1. Len(lines) \in Nat /\ DOMAIN lines = 1..Len(lines)
  BY SequenceDomain DEF IsFile
<1>2. c \in 1..Len(lines) /\ c > o /\ o \in 1..Len(lines)
  BY <1>1, ClosingLine DEF Closes, Opens
<1>3. b = [k \in 1..(c - o - 1) |-> lines[o + k]] /\ c - o - 1 \in Nat
  <2> HIDE DEF c
  <2>1. SubSeq(lines, o + 1, c - 1) = [k \in 1..(c - 1 - (o + 1) + 1) |-> lines[k + (o + 1) - 1]]
    BY <1>2
  <2>2. c - 1 - (o + 1) + 1 = c - o - 1 /\ c - o - 1 \in Nat
    BY <1>2
  <2>3. \A k \in 1..(c - o - 1) : k + (o + 1) - 1 = o + k
    BY <1>2
  <2>4. b = SubSeq(lines, o + 1, c - 1)
    BY DEF BodyLines, c
  <2>. QED
    BY <2>1, <2>2, <2>3, <2>4
<1>4. Len(b) = c - o - 1 /\ DOMAIN b = 1..(c - o - 1) /\ \A k \in 1..(c - o - 1) : b[k] = lines[o + k]
  BY <1>3
<1>5. \A k \in 1..(c - o - 1) : o + k \in (o + 1)..(c - 1) /\ o + k \in 1..Len(lines)
  BY <1>2
<1>6. IsSequence(b)
  BY <1>3, <1>4 DEF IsSequence
<1>. QED
  BY <1>1, <1>2, <1>3, <1>4, <1>5, <1>6 DEF Slice

\* Bodies are apart.
LEMMA SlicesApart ==
  ASSUME NEW lines, IsFile(lines), NEW o \in Opens(lines), NEW p \in Opens(lines), p > o
  PROVE  Closing(lines, o) < p
<1>1. Closes(lines, o) /\ o \in Nat /\ p \in Nat
  BY ClosingLine, SliceLines
<1>2. p \notin (o + 1)..(Closing(lines, o))
  BY <1>1 DEF Closes, Opens
<1>3. Closing(lines, o) \in Nat
  BY <1>1 DEF Closes
<1>. QED
  BY <1>1, <1>2, <1>3

-----------------------------------------------------------------------------
(***************************************************************************)
(* The names of a file and the bodies they have.                           *)
(***************************************************************************)
Of(lines, directive) == {i \in DOMAIN lines : lines[i].op = directive}
IsNamed1(names, lines, directive) ==
  /\ Cardinality(Of(lines, directive)) \in Nat
  /\ DOMAIN names = 1..Cardinality(Of(lines, directive)) /\ Len(names) = Cardinality(Of(lines, directive))
  /\ names = [k \in 1..Cardinality(Of(lines, directive)) |-> names[k]]
  /\ \A i \in Of(lines, directive) :
       /\ Upto(Of(lines, directive), i) \in 1..Cardinality(Of(lines, directive))
       /\ names[Upto(Of(lines, directive), i)] = lines[i].args[1]
  /\ \A k \in 1..Cardinality(Of(lines, directive)) :
       \E i \in Of(lines, directive) : Upto(Of(lines, directive), i) = k /\ names[k] = lines[i].args[1]

LEMMA NamesOfLines ==
  ASSUME NEW lines, IsSequence(lines), NEW directive
  PROVE  /\ IsNamed1(Named1(lines, directive), lines, directive)
         /\ ToSet(Named1(lines, directive)) = {lines[i].args[1] : i \in Of(lines, directive)}
<1> DEFINE S == Of(lines, directive) found == Pick(lines, S) names == Named1(lines, directive)
<1>1. Len(lines) \in Nat /\ DOMAIN lines = 1..Len(lines)
  BY SequenceDomain
<1>2. S \in SUBSET (1..Len(lines))
  BY <1>1 DEF Of
<1>3. IsPick(found, lines, S)
  BY <1>1, <1>2, Picked
<1>4. names = [k \in DOMAIN found |-> found[k].args[1]]
  BY DEF Named1, Of
<1> HIDE DEF S, found, names
<1>5. /\ Cardinality(S) \in Nat /\ DOMAIN found = 1..Cardinality(S)
      /\ \A i \in S : Upto(S, i) \in 1..Cardinality(S) /\ found[Upto(S, i)] = lines[i]
      /\ \A k \in 1..Cardinality(S) : \E i \in S : Upto(S, i) = k /\ found[k] = lines[i]
  BY <1>3 DEF IsPick
<1>6. /\ names = [k \in 1..Cardinality(S) |-> found[k].args[1]]
      /\ DOMAIN names = 1..Cardinality(S) /\ Len(names) = Cardinality(S)
      /\ \A k \in 1..Cardinality(S) : names[k] = found[k].args[1]
  BY <1>4, <1>5
<1>7. names = [k \in 1..Cardinality(S) |-> names[k]]
  BY <1>6
<1>8. IsNamed1(names, lines, directive)
  <2>1. \A i \in S : Upto(S, i) \in 1..Cardinality(S) /\ names[Upto(S, i)] = lines[i].args[1]
    BY <1>5, <1>6
  <2>2. \A k \in 1..Cardinality(S) : \E i \in S : Upto(S, i) = k /\ names[k] = lines[i].args[1]
    BY <1>5, <1>6
  <2>. QED
    BY <1>5, <1>6, <1>7, <2>1, <2>2 DEF IsNamed1, S
<1>9. ToSet(names) = {lines[i].args[1] : i \in S}
  <2>1. \A x : x \in ToSet(names) <=> x \in {lines[i].args[1] : i \in S}
    BY <1>5, <1>6 DEF ToSet
  <2>. QED
    BY <2>1
<1>. QED
  BY <1>8, <1>9 DEF S, names

LEMMA InvokableBodies ==
  ASSUME NEW lines, IsFile(lines), NEW directive \in {".function:", ".block:"}
  PROVE  /\ DOMAIN Invokables(lines, directive) = {lines[i].args[1] : i \in Of(lines, directive)}
         /\ ProperFile(lines) =>
              \A o \in Of(lines, directive) :
                Invokables(lines, directive)[lines[o].args[1]] = BodyLines(lines, o)
<1>1. IsSequence(lines) /\ Len(lines) \in Nat /\ DOMAIN lines = 1..Len(lines)
  BY SequenceDomain DEF IsFile
<1>2. DOMAIN Invokables(lines, directive) = {lines[i].args[1] : i \in Of(lines, directive)}
  <2>1. DOMAIN Invokables(lines, directive) = ToSet(Named1(lines, directive))
    BY DEF Invokables
  <2>. QED
    BY <1>1, <2>1, NamesOfLines
<1>3. ASSUME ProperFile(lines), NEW o \in Of(lines, directive)
      PROVE  Invokables(lines, directive)[lines[o].args[1]] = BodyLines(lines, o)
  <2> DEFINE name == lines[o].args[1]
             T == {i \in DOMAIN lines : lines[i].op = directive /\ lines[i].args[1] = name}
  <2>1. T = {o}
    BY <1>3 DEF Of, Opens, ProperFile
  <2>2. Max(T) = o
    BY <1>1, <2>1, MaxIsOnly DEF Of
  <2>3. name \in ToSet(Named1(lines, directive))
    BY <1>1, NamesOfLines
  <2>4. Invokables(lines, directive)[name] = SubSeq(lines, Max(T) + 1, Closing(lines, Max(T)) - 1)
    BY <2>3 DEF Invokables
  <2>. QED
    BY <2>2, <2>4 DEF BodyLines
<1>. QED
  BY <1>2, <1>3

-----------------------------------------------------------------------------
(***************************************************************************)
(* The functions of libraries.                                             *)
(***************************************************************************)
LEMMA Flattened ==
  ASSUME NEW T, NEW seqs \in Seq(Seq(T))
  PROVE  FlattenSeq(seqs) \in Seq(T) /\ (Len(seqs) = 1 => FlattenSeq(seqs) = seqs[1])
<1> DEFINE n == Len(seqs)
           Joins(f, m) == f = [i \in 1..m |-> IF i = 1 THEN seqs[i] ELSE f[i - 1] \o seqs[i]]
           Q == {m \in Nat : \E f : Joins(f, m)}
           F == CHOOSE f : Joins(f, n)
<1>1. n \in Nat /\ \A i \in 1..n : seqs[i] \in Seq(T)
  OBVIOUS
<1>2. Nat \subseteq Q
  <2>1. 0 \in Q
    <3> DEFINE f == [i \in 1..0 |-> 0]
    <3>1. Joins(f, 0)
      OBVIOUS
    <3>. QED
      BY <3>1
  <2>2. ASSUME NEW m \in Nat, m \in Q
        PROVE  m + 1 \in Q
    <3>1. PICK f : Joins(f, m)
      BY <2>2
    <3> DEFINE g == [i \in 1..(m + 1) |->
                       IF i = m + 1 THEN IF i = 1 THEN seqs[i] ELSE f[m] \o seqs[i] ELSE f[i]]
    <3>2. ASSUME NEW i \in 1..(m + 1)
          PROVE  g[i] = IF i = 1 THEN seqs[i] ELSE g[i - 1] \o seqs[i]
      <4>1. CASE i = m + 1
        <5>1. i # 1 => g[i - 1] = f[m]
          BY <4>1
        <5>2. g[i] = IF i = 1 THEN seqs[i] ELSE f[m] \o seqs[i]
          BY <4>1
        <5> HIDE DEF g
        <5>. QED
          BY <5>1, <5>2
      <4>2. CASE i \in 1..m
        <5>1. f[i] = IF i = 1 THEN seqs[i] ELSE f[i - 1] \o seqs[i]
          BY <3>1, <4>2
        <5>2. g[i] = f[i] /\ (i # 1 => g[i - 1] = f[i - 1])
          BY <4>2
        <5> HIDE DEF g
        <5>. QED
          BY <5>1, <5>2
      <4>. QED
        BY <4>1, <4>2
    <3>3. g = [i \in 1..(m + 1) |-> g[i]]
      OBVIOUS
    <3>4. Joins(g, m + 1)
      <4> HIDE DEF g
      <4>. QED
        BY <3>2, <3>3
    <3> HIDE DEF Joins, g
    <3>. QED
      BY <3>4
  <2> HIDE DEF Q
  <2>. QED
    BY <2>1, <2>2, CountingUp
<1>3. FlattenSeq(seqs) = IF n = 0 THEN seqs ELSE F[n]
  BY DEF FlattenSeq
<1>4. Joins(F, n)
  <2>1. \E f : Joins(f, n)
    BY <1>1, <1>2
  <2> HIDE DEF Joins
  <2>. QED
    BY <2>1
<1> HIDE DEF F
<1>5. \A i \in 1..n : F[i] = IF i = 1 THEN seqs[i] ELSE F[i - 1] \o seqs[i]
  BY <1>4
<1> HIDE DEF n
<1> DEFINE R == {m \in Nat : m + 1 <= n => F[m + 1] \in Seq(T)}
<1>6. Nat \subseteq R
  <2>1. 0 \in R
    BY <1>1, <1>5
  <2>2. ASSUME NEW m \in Nat, m \in R
        PROVE  m + 1 \in R
    <3> SUFFICES ASSUME m + 1 + 1 <= n
                 PROVE  F[m + 1 + 1] \in Seq(T)
      OBVIOUS
    <3>1. F[m + 1] \in Seq(T) /\ m + 1 + 1 \in 1..n /\ m + 1 + 1 # 1 /\ m + 1 + 1 - 1 = m + 1
      BY <1>1, <2>2
    <3>2. PICK i : i = m + 1 + 1
      OBVIOUS
    <3>3. i \in 1..n /\ i # 1 /\ i - 1 = m + 1
      BY <3>1, <3>2
    <3>4. F[i] = F[i - 1] \o seqs[i] /\ seqs[i] \in Seq(T)
      BY <1>1, <1>5, <3>3
    <3>5. F[i] \in Seq(T)
      BY <3>1, <3>3, <3>4
    <3>. QED
      BY <3>2, <3>5
  <2> HIDE DEF R
  <2>. QED
    BY <2>1, <2>2, CountingUp
<1>7. FlattenSeq(seqs) \in Seq(T)
  <2>1. CASE n = 0
    <3>1. seqs = <<>> /\ seqs \in Seq(T)
      BY <2>1 DEF n
    <3>. QED
      BY <1>3, <2>1, <3>1
  <2>2. CASE n # 0
    <3>1. PICK m : m = n - 1
      OBVIOUS
    <3>2. m \in Nat /\ m + 1 = n /\ m + 1 <= n
      BY <1>1, <2>2, <3>1
    <3>3. m \in R
      BY <1>6, <3>2
    <3>4. F[n] \in Seq(T)
      BY <3>2, <3>3
    <3>. QED
      BY <1>3, <2>2, <3>4
  <2>. QED
    BY <2>1, <2>2
<1>8. n = 1 => FlattenSeq(seqs) = seqs[1]
  BY <1>3, <1>5
<1>. QED
  BY <1>7, <1>8 DEF n

\* A library as Loader has read it, as far as its table of functions goes.
IsTable(functions) == functions.order \in Seq(ToSet(functions.order))

LEMMA LinkedNames ==
  ASSUME NEW libs, NEW n \in Nat, DOMAIN libs = 1..n, \A l \in 1..n : IsTable(libs[l].functions), NEW offset
  PROVE  LET linked == LinkedFunctions(libs, offset)
             names == UNION {ToSet(libs[l].functions.order) : l \in 1..n}
         IN /\ Len(linked) \in Nat /\ DOMAIN linked = 1..Len(linked)
            /\ \A i \in DOMAIN linked : linked[i][1] \in names
            /\ n = 0 => linked = <<>>
            /\ n = 1 => linked = [f \in DOMAIN libs[1].functions.order |->
                                    <<libs[1].functions.order[f],
                                      libs[1].functions.mapping[libs[1].functions.order[f]] + offset>>]
<1> DEFINE linked == LinkedFunctions(libs, offset)
           names == UNION {ToSet(libs[l].functions.order) : l \in 1..n}
           table(l) == [f \in DOMAIN libs[l].functions.order |->
                          <<libs[l].functions.order[f],
                            libs[l].functions.mapping[libs[l].functions.order[f]] + offset>>]
           T == UNION {ToSet(table(l)) : l \in 1..n}
           tables == [l \in 1..n |-> table(l)]
<1>1. linked = FlattenSeq(tables)
  BY DEF LinkedFunctions
<1>2. ASSUME NEW l \in 1..n
      PROVE  table(l) \in Seq(T)
  <2>1. libs[l].functions.order \in Seq(ToSet(libs[l].functions.order))
    BY DEF IsTable
  <2> DEFINE m == Len(libs[l].functions.order)
  <2>2. m \in Nat /\ DOMAIN libs[l].functions.order = 1..m
    BY <2>1
  <2>3. \A f \in 1..m : table(l)[f] \in ToSet(table(l))
    BY <2>2 DEF ToSet
  <2>4. table(l) \in [1..m -> T]
    <3>1. table(l) = [f \in 1..m |-> table(l)[f]]
      BY <2>2
    <3> HIDE DEF table
    <3>. QED
      BY <2>3, <3>1
  <2> HIDE DEF table, T
  <2>. QED
    BY <2>2, <2>4
<1>3. tables \in Seq(Seq(T)) /\ Len(tables) = n /\ (n = 1 => tables[1] = table(1))
  <2> HIDE DEF table, T
  <2>. QED
    BY <1>2
<1>4. \A x \in T : x[1] \in names
  <2> SUFFICES ASSUME NEW l \in 1..n, NEW x \in ToSet(table(l))
               PROVE  x[1] \in names
    OBVIOUS
  <2>1. PICK f \in DOMAIN libs[l].functions.order : x = table(l)[f]
    BY DEF ToSet
  <2>2. x[1] = libs[l].functions.order[f]
    BY <2>1, Pairs
  <2>. QED
    BY <2>2 DEF ToSet
<1>5. FlattenSeq(tables) \in Seq(T) /\ (n = 1 => FlattenSeq(tables) = table(1)) 
  <2> HIDE DEF table, T, tables
  <2>. QED
    BY <1>3, Flattened
<1>6. n = 0 => FlattenSeq(tables) = <<>>
  BY <1>3 DEF FlattenSeq
<1> HIDE DEF T, linked, tables, names
<1>7. \A i \in DOMAIN linked : linked[i] \in T
  BY <1>1, <1>5
<1>8. Len(linked) \in Nat /\ DOMAIN linked = 1..Len(linked)
  BY <1>1, <1>5
<1>. QED
  BY <1>1, <1>4, <1>5, <1>6, <1>7, <1>8 DEF linked, names

LEMMA AllLocal ==
  ASSUME NEW functions, functions.names \in Seq(ToSet(functions.names)), NEW linked,
         \A name \in ToSet(functions.names) : name \notin NamesIn(linked)
  PROVE  LocalNames(functions, linked) = functions.names
<1> DEFINE names == functions.names n == Len(names)
<1>1. n \in Nat /\ DOMAIN names = 1..n /\ \A i \in 1..n : names[i] \in ToSet(names)
  BY DEF ToSet
<1>2. {i \in DOMAIN names : names[i] \notin NamesIn(linked)} = 1..n
  BY <1>1
<1>3. LocalNames(functions, linked) = Pick(names, 1..n)
  BY <1>2 DEF LocalNames
<1>4. SubSeq(names, 1, n) = Pick(names, 1..n)
  <2>1. 1 \in 1..(n + 1) /\ n \in (1 - 1)..n
    BY <1>1
  <2>. QED
    BY <2>1, SliceIsPick
<1>5. SubSeq(names, 1, n) = names
  OBVIOUS
<1>. QED
  BY <1>3, <1>4, <1>5

-----------------------------------------------------------------------------
(***************************************************************************)
(* The bodies that are generated for a file in which no name is defined    *)
(* twice.                                                                  *)
(***************************************************************************)
FunctionsOf(lines, flags) ==
  IF flags.as_lib THEN GatherFunctions(lines)
  ELSE WithEntry(GatherFunctions(lines), lines, MainFunction(lines, flags))
AllBodies(lines, flags) ==
  ToGenerate(GatherBlocks(lines), FunctionsOf(lines, flags), FunctionsOf(lines, flags).names)

Blocks(lines) == Cardinality(Of(lines, ".block:"))
Functions(lines) == Cardinality(Of(lines, ".function:"))
\* The place of the body that line i opens.
Rank(lines, i) ==
  IF lines[i].op = ".block:" THEN Upto(Of(lines, ".block:"), i)
  ELSE Blocks(lines) + Upto(Of(lines, ".function:"), i)

BodyAt(body, lines, i) ==
  body = [directive |-> lines[i].op, name |-> lines[i].args[1], lines |-> BodyLines(lines, i)]
EntryAt(body, lines, flags) ==
  body = [directive |-> ".function:", name |-> EntryFunctionName,
          lines |-> EntryBody(lines, MainFunction(lines, flags))]

\* How many bodies there are, and which one is where.
Bodied(bodies, lines, flags) ==
  /\ Blocks(lines) \in Nat /\ Functions(lines) \in Nat
  /\ DOMAIN bodies = 1..(Blocks(lines) + Functions(lines) + IF flags.as_lib THEN 0 ELSE 1)
  /\ \A i \in Opens(lines) : Rank(lines, i) \in 1..(Blocks(lines) + Functions(lines))
                             /\ BodyAt(bodies[Rank(lines, i)], lines, i)
  /\ \A k \in 1..(Blocks(lines) + Functions(lines)) : \E i \in Opens(lines) : Rank(lines, i) = k
  /\ ~flags.as_lib => EntryAt(bodies[Blocks(lines) + Functions(lines) + 1], lines, flags)

LEMMA FunctionsGathered ==
  ASSUME NEW lines, IsFile(lines), NEW flags
  PROVE  LET functions == FunctionsOf(lines, flags)
             n == Functions(lines)
             names == Named1(lines, ".function:")
         IN /\ n \in Nat /\ DOMAIN names = 1..n
            /\ functions.names = IF flags.as_lib THEN names ELSE Append(names, EntryFunctionName)
            /\ functions.names \in Seq(ToSet(functions.names))
            /\ Len(functions.names) = n + (IF flags.as_lib THEN 0 ELSE 1)
            /\ \A k \in 1..n : functions.names[k] = names[k]
            /\ ~flags.as_lib => functions.names[n + 1] = EntryFunctionName
            /\ functions.signatures = Signatures(lines)
            /\ \A name : (name # EntryFunctionName \/ flags.as_lib)
                 /\ name \in DOMAIN Invokables(lines, ".function:") =>
                   functions.bodies[name] = Invokables(lines, ".function:")[name]
            /\ ~flags.as_lib =>
                 functions.bodies[EntryFunctionName] = EntryBody(lines, MainFunction(lines, flags))
<1> DEFINE functions == FunctionsOf(lines, flags)
           n == Functions(lines)
           names == Named1(lines, ".function:")
           gathered == GatherFunctions(lines)
           main == MainFunction(lines, flags)
<1>1. IsSequence(lines)
  BY DEF IsFile
<1>2. IsNamed1(names, lines, ".function:")
  BY <1>1, NamesOfLines
<1>3. /\ n \in Nat /\ DOMAIN names = 1..n /\ Len(names) = n /\ names = [k \in 1..n |-> names[k]]
  BY <1>2 DEF IsNamed1, Functions
<1>4. names \in Seq(ToSet(names))
  <2> HIDE DEF names
  <2>1. \A k \in 1..n : names[k] \in ToSet(names)
    BY <1>3 DEF ToSet
  <2>. QED
    BY <1>3, <2>1
<1>5. gathered = [names |-> names, signatures |-> Signatures(lines), bodies |-> Invokables(lines, ".function:")]
  BY DEF GatherFunctions, FunctionNames
<1> HIDE DEF names, n, gathered, functions
<1>6. CASE flags.as_lib
  <2>1. functions = gathered
    BY <1>6 DEF functions, FunctionsOf, gathered
  <2>. QED
    BY <1>3, <1>4, <1>5, <1>6, <2>1 DEF functions, names, n
<1>7. CASE ~flags.as_lib
  <2> DEFINE all == Append(names, EntryFunctionName)
             bodies == [name \in DOMAIN gathered.bodies \cup {EntryFunctionName} |->
                          IF name = EntryFunctionName THEN EntryBody(lines, main)
                          ELSE gathered.bodies[name]]
  <2>1. functions = [gathered EXCEPT !.names = Append(gathered.names, EntryFunctionName), !.bodies = bodies]
    BY <1>7 DEF functions, FunctionsOf, gathered, WithEntry
  <2>2. gathered.names = names /\ gathered.signatures = Signatures(lines)
        /\ gathered.bodies = Invokables(lines, ".function:")
    BY <1>5
  <2>3. /\ \A name : name # EntryFunctionName
             /\ name \in DOMAIN Invokables(lines, ".function:") =>
               bodies[name] = Invokables(lines, ".function:")[name]
        /\ bodies[EntryFunctionName] = EntryBody(lines, main)
    BY <2>2
  <2> HIDE DEF bodies
  <2>4. functions = [names |-> all, signatures |-> Signatures(lines), bodies |-> bodies]
    BY <1>5, <2>1, <2>2
  <2>5. functions.names = all /\ functions.signatures = Signatures(lines) /\ functions.bodies = bodies
    BY <2>4
  <2>6. all \in Seq(ToSet(all)) /\ Len(all) = n + 1 /\ all[n + 1] = EntryFunctionName
        /\ \A k \in 1..n : all[k] = names[k]
    <3>1. Len(all) = n + 1 /\ DOMAIN all = 1..(n + 1) /\ all[n + 1] = EntryFunctionName
          /\ \A k \in 1..n : all[k] = names[k]
      BY <1>3, <1>4
    <3>2. all \in Seq(ToSet(names) \cup {EntryFunctionName})
      BY <1>4
    <3> HIDE DEF all
    <3>3. \A k \in 1..(n + 1) : all[k] \in ToSet(all)
      BY <3>1 DEF ToSet
    <3>4. all = [k \in 1..(n + 1) |-> all[k]] /\ n + 1 \in Nat
      BY <1>3, <3>1, <3>2
    <3>5. all \in [1..(n + 1) -> ToSet(all)]
      BY <3>3, <3>4
    <3>6. all \in Seq(ToSet(all))
      BY <3>4, <3>5
    <3>. QED
      BY <3>1, <3>6
  <2> HIDE DEF all
  <2>. QED
    BY <1>3, <1>7, <2>3, <2>5, <2>6 DEF functions, names, n, all
<1>. QED
  BY <1>6, <1>7

\* Two sequences put together.
LEMMA Joined ==
  ASSUME NEW a \in Nat, NEW c \in Nat, NEW s, NEW t,
         s = [k \in 1..a |-> s[k]], t = [k \in 1..c |-> t[k]]
  PROVE  /\ Len(s \o t) = a + c /\ DOMAIN (s \o t) = 1..(a + c)
         /\ \A k \in 1..a : (s \o t)[k] = s[k]
         /\ \A k \in 1..c : (s \o t)[a + k] = t[k]
         /\ s \o t = [k \in 1..(a + c) |-> (s \o t)[k]]
<1> DEFINE T == {s[k] : k \in 1..a} \cup {t[k] : k \in 1..c}
<1>1. s \in [1..a -> T]
  OBVIOUS
<1>2. t \in [1..c -> T]
  OBVIOUS
<1> HIDE DEF T
<1>3. s \in Seq(T) /\ t \in Seq(T) /\ Len(s) = a /\ Len(t) = c
  BY <1>1, <1>2
<1>4. /\ Len(s \o t) = a + c /\ DOMAIN (s \o t) = 1..(a + c)
      /\ \A k \in 1..a : (s \o t)[k] = s[k]
      /\ \A k \in 1..c : (s \o t)[a + k] = t[k]
  BY <1>3
<1>5. s \o t \in Seq(T)
  BY <1>3
<1>6. s \o t = [k \in 1..Len(s \o t) |-> (s \o t)[k]]
  BY <1>5
<1>. QED
  BY <1>4, <1>6

LEMMA BodiesOfFile ==
  ASSUME NEW lines, IsFile(lines), ProperFile(lines), NEW flags
  PROVE  Bodied(AllBodies(lines, flags), lines, flags)
<1> DEFINE bodies == AllBodies(lines, flags)
           functions == FunctionsOf(lines, flags)
           blocks == GatherBlocks(lines)
           S == Of(lines, ".block:") T == Of(lines, ".function:")
           b == Blocks(lines) f == Functions(lines)
           e == IF flags.as_lib THEN 0 ELSE 1
           N == Named1(lines, ".block:") M == Named1(lines, ".function:")
           body(directive, invokables, name) ==
             [directive |-> directive, name |-> name, lines |-> invokables.bodies[name]]
<1>1. IsSequence(lines)
  BY DEF IsFile
<1>2. IsNamed1(N, lines, ".block:") /\ IsNamed1(M, lines, ".function:")
  BY <1>1, NamesOfLines
<1>3. /\ b \in Nat /\ DOMAIN N = 1..b
      /\ \A i \in S : Upto(S, i) \in 1..b /\ N[Upto(S, i)] = lines[i].args[1]
      /\ \A k \in 1..b : \E i \in S : Upto(S, i) = k
  BY <1>2 DEF IsNamed1, Blocks
<1>4. /\ f \in Nat /\ DOMAIN M = 1..f
      /\ \A i \in T : Upto(T, i) \in 1..f /\ M[Upto(T, i)] = lines[i].args[1]
      /\ \A k \in 1..f : \E i \in T : Upto(T, i) = k
  BY <1>2 DEF IsNamed1, Functions
<1>5. /\ Len(functions.names) = f + e
      /\ functions.names \in Seq(ToSet(functions.names))
      /\ \A k \in 1..f : functions.names[k] = M[k]
      /\ ~flags.as_lib => functions.names[f + 1] = EntryFunctionName
      /\ ~flags.as_lib => functions.bodies[EntryFunctionName] = EntryBody(lines, MainFunction(lines, flags))
      /\ \A name : (name # EntryFunctionName \/ flags.as_lib)
           /\ name \in DOMAIN Invokables(lines, ".function:") =>
             functions.bodies[name] = Invokables(lines, ".function:")[name]
  BY FunctionsGathered
<1>6. blocks.names = N /\ blocks.bodies = Invokables(lines, ".block:")
  BY DEF GatherBlocks, BlockNames
<1> DEFINE first == [k \in 1..b |-> body(".block:", blocks, N[k])]
           second == [k \in 1..(f + e) |-> body(".function:", functions, functions.names[k])]
<1>7. bodies = first \o second
  <2>1. DOMAIN functions.names = 1..(f + e)
    BY <1>4, <1>5
  <2>. QED
    BY <1>3, <1>6, <2>1 DEF AllBodies, ToGenerate
<1>8. /\ DOMAIN bodies = 1..(b + f + e)
      /\ \A k \in 1..b : bodies[k] = body(".block:", blocks, N[k])
      /\ \A k \in 1..(f + e) : bodies[b + k] = body(".function:", functions, functions.names[k])
  <2>0. f + e \in Nat
    BY <1>4
  <2>1. /\ Len(first) = b /\ Len(second) = f + e
        /\ \A k \in 1..b : first[k] = body(".block:", blocks, N[k])
        /\ \A k \in 1..(f + e) : second[k] = body(".function:", functions, functions.names[k])
    <3> HIDE DEF body
    <3>. QED
      BY <1>3, <2>0
  <2>2. first = [k \in 1..b |-> first[k]] /\ second = [k \in 1..(f + e) |-> second[k]]
    OBVIOUS
  <2> HIDE DEF first, second, bodies, b, f, e
  <2>3. PICK m : m = f + e
    OBVIOUS
  <2>4. /\ DOMAIN (first \o second) = 1..(b + m)
        /\ \A k \in 1..b : (first \o second)[k] = first[k]
        /\ \A k \in 1..m : (first \o second)[b + k] = second[k]
    BY <1>3, <2>0, <2>2, <2>3, Joined
  <2>6. b + (f + e) = b + f + e
    BY <2>0, <1>3, <1>4 DEF e
  <2>. QED
    BY <1>7, <2>1, <2>3, <2>4, <2>6
<1> HIDE DEF bodies, functions, blocks, b, f, N, M, first, second
<1>9. ASSUME NEW i \in S
      PROVE  /\ Rank(lines, i) = Upto(S, i) /\ Upto(S, i) \in 1..b
             /\ BodyAt(bodies[Upto(S, i)], lines, i)
  <2>1. lines[i].op = ".block:"
    BY DEF Of
  <2>2. Invokables(lines, ".block:")[lines[i].args[1]] = BodyLines(lines, i)
    BY InvokableBodies
  <2>3. bodies[Upto(S, i)] = body(".block:", blocks, lines[i].args[1])
    BY <1>3, <1>8
  <2>. QED
    BY <1>3, <1>6, <2>1, <2>2, <2>3 DEF BodyAt, Rank
<1>10. ASSUME NEW i \in T
       PROVE  /\ Rank(lines, i) = b + Upto(T, i) /\ Upto(T, i) \in 1..f
              /\ BodyAt(bodies[b + Upto(T, i)], lines, i)
  <2>1. lines[i].op = ".function:"
    BY DEF Of
  <2>2. Invokables(lines, ".function:")[lines[i].args[1]] = BodyLines(lines, i)
    BY InvokableBodies
  <2>3. Upto(T, i) \in 1..f /\ Upto(T, i) \in 1..(f + e)
    BY <1>4
  <2>4. bodies[b + Upto(T, i)] = body(".function:", functions, lines[i].args[1])
    BY <1>4, <1>5, <1>8, <2>3
  <2>5. lines[i].args[1] \in DOMAIN Invokables(lines, ".function:")
    BY InvokableBodies
  <2>6. lines[i].args[1] # EntryFunctionName
    BY DEF ProperFile, Of, Opens
  <2>7. functions.bodies[lines[i].args[1]] = BodyLines(lines, i)
    BY <1>5, <2>2, <2>5, <2>6
  <2>8. Rank(lines, i) = b + Upto(T, i)
    BY <2>1 DEF Rank, b
  <2>. QED
    BY <2>1, <2>3, <2>4, <2>7, <2>8 DEF BodyAt
<1>11. Opens(lines) = S \cup T
  BY DEF Opens, Of
<1>12. ASSUME NEW i \in Opens(lines)
       PROVE  Rank(lines, i) \in 1..(b + f) /\ BodyAt(bodies[Rank(lines, i)], lines, i)
  <2>1. CASE i \in S
    BY <1>3, <1>4, <1>9, <2>1
  <2>2. CASE i \in T
    BY <1>3, <1>4, <1>10, <2>2
  <2>. QED
    BY <1>11, <2>1, <2>2
<1>13. ASSUME NEW k \in 1..(b + f)
       PROVE  \E i \in Opens(lines) : Rank(lines, i) = k
  <2>1. CASE k \in 1..b
    BY <1>3, <1>9, <1>11, <2>1
  <2>2. CASE k \notin 1..b
    <3>1. PICK m : m = k - b
      OBVIOUS
    <3>2. m \in 1..f /\ k = b + m
      BY <1>3, <1>4, <2>2, <3>1
    <3>3. PICK i \in T : Upto(T, i) = m
      BY <1>4, <3>2
    <3>. QED
      BY <1>10, <1>11, <3>2, <3>3
  <2>. QED
    BY <2>1, <2>2
<1>14. ASSUME ~flags.as_lib
       PROVE  EntryAt(bodies[b + f + 1], lines, flags)
  <2>1. f + 1 \in 1..(f + e) /\ b + (f + 1) = b + f + 1
    BY <1>3, <1>4, <1>14
  <2>2. bodies[b + f + 1] = body(".function:", functions, EntryFunctionName)
    BY <1>5, <1>8, <1>14, <2>1
  <2>. QED
    BY <1>5, <1>14, <2>2 DEF EntryAt
<1>. QED
  BY <1>3, <1>4, <1>8, <1>12, <1>13, <1>14 DEF Bodied, bodies, b, f

-----------------------------------------------------------------------------
(***************************************************************************)
(* A body and the instructions it is compiled to.                          *)
(***************************************************************************)
Skipped == {".mark:", ".name:", ".main:", ".link:", ".signature:", ".bsignature:", ".type:"}
Kept(lines) ==
  {i \in DOMAIN lines : /\ lines[i].op \notin Skipped
                        /\ \A d \in {".function:", ".block:", ".class:"} : ~Within(lines, i, d)}
\* The compiled body and where it comes from.
Coded(lines, unit, name) == Tagged(Compile(lines), unit, name)
IsCoded(s, lines, unit, name) ==
  LET n == Cardinality(Kept(lines))
  IN /\ n \in Nat /\ IsPick(Filter(lines), lines, Kept(lines)) /\ DOMAIN s = 1..n
     /\ \A k \in 1..n :
          /\ IsInstr(s[k]) /\ s[k].source = <<unit, name, k>> /\ s[k].op = Filter(lines)[k].op
          /\ CanCompileLine(Filter(lines)[k], k - 1, Marks(lines), Names(lines))
          /\ s[k].args = CompileLine(Filter(lines)[k], k - 1, Marks(lines), Names(lines)).args
          /\ s[k].types = CompileLine(Filter(lines)[k], k - 1, Marks(lines), Names(lines)).types
          /\ EmittedSize(s[k]) = CountedSize(Filter(lines)[k]) /\ WalkedSize(s[k]) = EmittedSize(s[k])

LEMMA FilterPicks ==
  ASSUME NEW lines, NEW m \in Nat, DOMAIN lines = 1..m
  PROVE  Cardinality(Kept(lines)) \in Nat /\ IsPick(Filter(lines), lines, Kept(lines))
<1>1. Filter(lines) = Pick(lines, Kept(lines))
  BY DEF Filter, Kept, Skipped
<1>2. Kept(lines) \in SUBSET (1..m)
  BY DEF Kept
<1>3. IsPick(Filter(lines), lines, Kept(lines))
  BY <1>1, <1>2, Picked
<1>. QED
  BY <1>3 DEF IsPick

LEMMA CompiledBody ==
  ASSUME NEW lines, NEW m \in Nat, DOMAIN lines = 1..m, CanCompile(lines), Complete(lines), NEW unit, NEW name
  PROVE  IsCoded(Coded(lines, unit, name), lines, unit, name)
<1> DEFINE n == Cardinality(Kept(lines)) s == Coded(lines, unit, name)
           c(k) == CompileLine(Filter(lines)[k], k - 1, Marks(lines), Names(lines))
<1>1. n \in Nat /\ IsPick(Filter(lines), lines, Kept(lines)) /\ DOMAIN Filter(lines) = 1..n
  BY FilterPicks DEF IsPick
<1>2. s = [k \in 1..n |-> [op |-> c(k).op, args |-> c(k).args, types |-> c(k).types,
                           source |-> <<unit, name, k>>]]
  BY <1>1 DEF Coded, Tagged, Compile
<1>3. ASSUME NEW k \in 1..n
      PROVE  /\ IsInstr(s[k]) /\ s[k].source = <<unit, name, k>> /\ s[k].op = Filter(lines)[k].op
             /\ CanCompileLine(Filter(lines)[k], k - 1, Marks(lines), Names(lines))
             /\ s[k].args = c(k).args /\ s[k].types = c(k).types
             /\ EmittedSize(s[k]) = CountedSize(Filter(lines)[k]) /\ WalkedSize(s[k]) = EmittedSize(s[k])
  <2> DEFINE line == Filter(lines)[k]
  <2>1. CanCompileLine(line, k - 1, Marks(lines), Names(lines))
    BY <1>1 DEF CanCompile
  <2>2. line.op \in Implemented
    BY <2>1 DEF CanCompileLine
  <2>10. IsSequence(line.args) /\ GivesNames(line)
    <3>1. PICK i \in Kept(lines) : Filter(lines)[k] = lines[i]
      BY <1>1 DEF IsPick
    <3>2. i \in DOMAIN lines
      BY DEF Kept
    <3>. QED
      BY <3>1, <3>2 DEF Complete
  <2>3. Agree(line, c(k))
    BY <2>1, <2>10, LineSizesAgree
  <2>4. c(k).op = line.op /\ DOMAIN c(k).args = Fields(line.op)
    BY CompiledLine DEF Fields
  <2> HIDE DEF c, line
  <2>5. s[k] = [op |-> c(k).op, args |-> c(k).args, types |-> c(k).types, source |-> <<unit, name, k>>]
    BY <1>2
  <2> HIDE DEF s
  <2>6. s[k].op = line.op /\ s[k].args = c(k).args /\ s[k].types = c(k).types /\ s[k].source = <<unit, name, k>>
    BY <2>4, <2>5
  <2>7. IsInstr(s[k])
    BY <2>2, <2>4, <2>5, <2>6 DEF IsInstr
  <2>8. EmittedSize(s[k]) = EmittedSize(c(k)) /\ WalkedSize(s[k]) = WalkedSize(c(k))
    BY <2>4, <2>6 DEF EmittedSize, WalkedSize, WalkedNames
  <2>9. CountedSize(line) = EmittedSize(c(k)) /\ WalkedSize(c(k)) = EmittedSize(c(k))
    BY <2>3 DEF Agree
  <2>. QED
    BY <2>1, <2>6, <2>7, <2>8, <2>9 DEF line
<1>4. DOMAIN s = 1..n
  BY <1>2
<1> HIDE DEF s, c
<1>. QED
  BY <1>1, <1>3, <1>4 DEF IsCoded, s, c

LEMMA Directive ==
  /\ \A line : line.op \in Implemented => ~IsDirective(line)
  /\ \A line : line.op \in Skipped \cup {".function:", ".block:", ".end"} => IsDirective(line)
<1>1. Implemented \subseteq DOMAIN OpSize
  BY Kinds, Formats DEF Gives
<1>2. \A line : line.op \in Implemented => ~IsDirective(line)
  BY <1>1, MnemonicsHaveNoDot DEF IsDirective
<1>3. \A line : line.op \in Skipped \cup {".function:", ".block:", ".end"} => IsDirective(line)
  BY DirectivesHaveADot DEF IsDirective, Skipped
<1>. QED
  BY <1>2, <1>3

\* What a filter keeps can be compiled.
LEMMA KeptLines ==
  ASSUME NEW lines, NEW m \in Nat, DOMAIN lines = 1..m, CanCompile(lines), NEW i \in Kept(lines)
  PROVE  lines[i].op \in Implemented /\ ~IsDirective(lines[i])
<1>1. IsPick(Filter(lines), lines, Kept(lines))
  BY FilterPicks
<1>2. Upto(Kept(lines), i) \in DOMAIN Filter(lines) /\ Filter(lines)[Upto(Kept(lines), i)] = lines[i]
  BY <1>1 DEF IsPick
<1>3. lines[i].op \in Implemented
  BY <1>2 DEF CanCompile, CanCompileLine
<1>. QED
  BY <1>3, Directive

\* No body has definitions in it.
IsPlain(lines) == \A i \in DOMAIN lines : lines[i].op \notin {".function:", ".block:", ".class:"}

LEMMA PlainKept ==
  ASSUME NEW lines, NEW m \in Nat, DOMAIN lines = 1..m, IsPlain(lines), CanCompile(lines)
  PROVE  \A i \in 1..m : /\ i \in Kept(lines) <=> ~IsDirective(lines[i])
                         /\ i \notin Kept(lines) <=> lines[i].op \in Skipped
<1>1. \A i \in 1..m : \A d \in {".function:", ".block:", ".class:"} : ~Within(lines, i, d)
  BY DEF Within, IsPlain
<1>2. \A i \in 1..m : i \notin Kept(lines) <=> lines[i].op \in Skipped
  BY <1>1 DEF Kept
<1>3. \A i \in 1..m : lines[i].op \in Skipped => IsDirective(lines[i])
  BY Directive
<1>4. \A i \in Kept(lines) : ~IsDirective(lines[i])
  BY KeptLines
<1>. QED
  BY <1>2, <1>3, <1>4

\* The same instructions as the source means.
LEMMA FilterIsInstructions ==
  ASSUME NEW lines, NEW m \in Nat, DOMAIN lines = 1..m, IsPlain(lines), CanCompile(lines)
  PROVE  Filter(lines) = Listing!InstructionsOf(lines)
<1>1. Kept(lines) = {i \in DOMAIN lines : Listing!IsInstruction(lines[i])}
  BY PlainKept DEF Kept, IsDirective, Listing!IsInstruction
<1>2. Filter(lines) = Pick(lines, Kept(lines))
  BY DEF Filter, Kept, Skipped
<1>. QED
  BY <1>1, <1>2 DEF Listing!InstructionsOf, Listing!Pick, Pick, Listing!Cardinality, Cardinality

\* What is emitted for a body, and when there is no room left after it.
LEMMA EmittedTotal ==
  ASSUME NEW lines, NEW unit, NEW name
  PROVE  EmittedBytes(Compile(lines)) = Total(Sizes(Coded(lines, unit, name)))
<1> DEFINE c == Compile(lines) s == Coded(lines, unit, name)
<1>1. s = [k \in DOMAIN c |-> [op |-> c[k].op, args |-> c[k].args, types |-> c[k].types,
                              source |-> <<unit, name, k>>]]
  BY DEF Coded, Tagged
<1> HIDE DEF c, s
<1>2. DOMAIN s = DOMAIN c /\ \A k \in DOMAIN c : s[k].op = c[k].op /\ s[k].args = c[k].args
  BY <1>1
<1>3. \A k \in DOMAIN c : EmittedSize(s[k]) = EmittedSize(c[k])
  BY <1>2 DEF EmittedSize
<1>4. Sizes(s) = [k \in DOMAIN c |-> EmittedSize(c[k])]
  BY <1>2, <1>3 DEF Sizes
<1>. QED
  BY <1>4 DEF EmittedBytes, c, s

LEMMA NothingFilled ==
  ASSUME NEW lines, NEW m \in Nat, DOMAIN lines = 1..m, NEW unit, NEW name,
         NEW size \in Nat, size = Total(Sizes(Coded(lines, unit, name)))
  PROVE  Filled(Compile(lines), size) = Compile(lines)
<1> DEFINE c == Compile(lines) none == [k \in 1..0 |-> Nop]
<1>1. PICK n \in Nat : DOMAIN Filter(lines) = 1..n
  BY FilterPicks DEF IsPick
<1>2. DOMAIN c = 1..n /\ c = [k \in 1..n |-> c[k]]
  BY <1>1 DEF Compile
<1>3. size - EmittedBytes(c) = 0
  BY EmittedTotal
<1>4. Filled(c, size) = c \o none
  BY <1>3 DEF Filled
<1> HIDE DEF c
<1>5. PICK z \in Nat : z = 0
  OBVIOUS
<1>6. none = [k \in 1..z |-> none[k]]
  BY <1>5
<1> HIDE DEF none
<1>7. /\ \A k \in 1..n : (c \o none)[k] = c[k]
      /\ c \o none = [k \in 1..(n + z) |-> (c \o none)[k]]
  BY <1>1, <1>2, <1>6, Joined
<1>8. n + z = n
  BY <1>1, <1>5
<1>9. c \o none = [k \in 1..n |-> c[k]]
  BY <1>7, <1>8
<1>. QED
  BY <1>2, <1>4, <1>9 DEF c

\* What is counted for a body is what its instructions take.
LEMMA BodySized ==
  ASSUME NEW lines, NEW m \in Nat, DOMAIN lines = 1..m, Len(lines) = m, CanCompile(lines), Complete(lines),
         NEW unit, NEW name
  PROVE  /\ CountBytes(Filter(lines)) = Total(Sizes(Coded(lines, unit, name)))
         /\ IsPlain(lines) => CountBytes(lines) = Total(Sizes(Coded(lines, unit, name)))
<1> DEFINE s == Coded(lines, unit, name) K == Kept(lines) n == Cardinality(K)
           counted == [i \in 1..m |-> CountedSize(lines[i])]
<1>1. IsCoded(s, lines, unit, name)
  BY CompiledBody
<1>2. /\ n \in Nat /\ IsPick(Filter(lines), lines, K) /\ DOMAIN s = 1..n
      /\ \A k \in 1..n : IsInstr(s[k]) /\ EmittedSize(s[k]) = CountedSize(Filter(lines)[k])
  BY <1>1 DEF IsCoded
<1>3. Sizes(s) = [k \in 1..n |-> CountedSize(Filter(lines)[k])]
  <2> HIDE DEF s
  <2>. QED
    BY <1>2 DEF Sizes
<1>4. CountBytes(Filter(lines)) = Total(Sizes(s))
  BY <1>2, <1>3 DEF CountBytes, IsPick
<1>5. ASSUME IsPlain(lines)
      PROVE  CountBytes(lines) = Total(Sizes(s))
  <2>1. K \in SUBSET (1..m)
    BY DEF Kept
  <2>2. ASSUME NEW i \in 1..m
        PROVE  CountedSize(lines[i]) \in Nat /\ (i \in K \/ CountedSize(lines[i]) = 0)
    <3>1. CASE i \in K
      <4>1. Upto(K, i) \in 1..n /\ Filter(lines)[Upto(K, i)] = lines[i]
        BY <1>2, <3>1 DEF IsPick
      <4>2. EmittedSize(s[Upto(K, i)]) \in Nat
        BY <1>2, <4>1, InstructionSized DEF IsInstr, Sized
      <4>. QED
        BY <1>2, <3>1, <4>1, <4>2
    <3>2. CASE i \notin K
      <4>1. IsDirective(lines[i])
        BY <1>5, <3>2, PlainKept
      <4>. QED
        BY <4>1 DEF CountedSize
    <3>. QED
      BY <3>1, <3>2
  <2>3. counted \in Seq(Nat) /\ Len(counted) = m
    BY <2>2
  <2>4. Mass(counted, K) = Total(counted)
    <3>1. \A i \in 1..Len(counted) : counted[i] = 0 \/ (i \in K <=> i \in 1..Len(counted))
      BY <2>2, <2>3
    <3> HIDE DEF counted, K
    <3>2. Mass(counted, K) = Mass(counted, 1..Len(counted))
      BY <2>3, <3>1, MassSame
    <3>. QED
      BY <2>3, <3>2, MassOfAll
  <2>5. Total(Pick(counted, K)) = Mass(counted, K)
    <3> HIDE DEF counted
    <3>. QED
      BY <2>1, <2>3, PickedTotal
  <2>6. Pick(counted, K) = Sizes(s)
    <3>1. IsPick(Pick(counted, K), counted, K)
      BY <2>1, Picked
    <3>2. ASSUME NEW k \in 1..n
          PROVE  Pick(counted, K)[k] = CountedSize(Filter(lines)[k])
      <4>1. PICK i \in K : Upto(K, i) = k /\ Filter(lines)[k] = lines[i]
        BY <1>2 DEF IsPick
      <4>2. Pick(counted, K)[k] = counted[i]
        BY <3>1, <4>1 DEF IsPick
      <4>. QED
        BY <2>1, <4>1, <4>2
    <3>3. Pick(counted, K) = [k \in 1..n |-> Pick(counted, K)[k]]
      BY <3>1 DEF IsPick
    <3> HIDE DEF counted
    <3>. QED
      BY <1>3, <3>2, <3>3
  <2>7. CountBytes(lines) = Total(counted)
    BY DEF CountBytes
  <2>. QED
    BY <2>4, <2>5, <2>6, <2>7
<1>. QED
  BY <1>4, <1>5

-----------------------------------------------------------------------------
(***************************************************************************)
(* What generate has done when it succeeds and generates all functions.    *)
(***************************************************************************)
SectionOf(unit, lines, flags) == Section(unit, AllBodies(lines, flags))
BufferOf(unit, lines, flags) == WriteBodies(AllBodies(lines, flags), SectionOf(unit, lines, flags))
LinkedTo(lines, libs, flags) == LinkedFunctions(libs, LocalSize(lines, flags))
BytesOf(lines, libs, flags) == LocalSize(lines, flags) + Total([l \in DOMAIN libs |-> libs[l].size])
AbsolutePositions(section) == UNION {section[k].positions : k \in DOMAIN section}
AllOwn(lines, libs, flags) ==
  LocalNames(FunctionsOf(lines, flags), LinkedTo(lines, libs, flags)) = FunctionsOf(lines, flags).names
Succeeded(unit, lines, libs, flags) ==
  LET section == SectionOf(unit, lines, flags)
      buffer == BufferOf(unit, lines, flags)
      bytes == BytesOf(lines, libs, flags)
  IN /\ Accepted(lines, flags, MainFunction(lines, flags), GatherFunctions(lines), GatherBlocks(lines),
                 FunctionsOf(lines, flags), LinkedTo(lines, libs, flags))
     /\ \A k \in DOMAIN section : ~section[k].died
     /\ CanCalculateJumps(buffer, bytes, AbsolutePositions(section))
     /\ Generate(unit, lines, libs, flags).image
          = Image(libs, flags, GatherBlocks(lines), FunctionsOf(lines, flags), LinkedTo(lines, libs, flags),
                  LocalSize(lines, flags), bytes, section, buffer)

LEMMA GenerateGives ==
  ASSUME NEW unit, NEW lines, NEW libs, NEW flags,
         Generate(unit, lines, libs, flags).outcome = "assembled", AllOwn(lines, libs, flags)
  PROVE  Succeeded(unit, lines, libs, flags)
<1> DEFINE main == MainFunction(lines, flags) link == LocalSize(lines, flags)
           gathered == GatherFunctions(lines) blocks == GatherBlocks(lines)
           functions == FunctionsOf(lines, flags) linked == LinkedTo(lines, libs, flags)
           section == SectionOf(unit, lines, flags)
           buffer == BufferOf(unit, lines, flags)
           bytes == BytesOf(lines, libs, flags)
           accepted == Accepted(lines, flags, main, gathered, blocks, functions, linked)
           bad == \/ \E k \in DOMAIN section : section[k].died
                  \/ ~CanCalculateJumps(buffer, bytes, AbsolutePositions(section))
           picture == Image(libs, flags, blocks, functions, linked, link, bytes, section, buffer)
           over == \E k \in DOMAIN AllBodies(lines, flags) : Overruns(AllBodies(lines, flags)[k])
           G == GenerateBodies(unit, libs, flags, blocks, functions, linked, link)
<1>1. Generate(unit, lines, libs, flags) = IF accepted THEN G ELSE Refused
  BY DEF Generate, FunctionsOf, LinkedTo
<1>2. LocalNames(functions, linked) = functions.names
  BY DEF AllOwn
<1>3. G = IF over THEN Overrun ELSE IF bad THEN Died ELSE [outcome |-> "assembled", image |-> picture]
  BY <1>2 DEF GenerateBodies, AllBodies, SectionOf, BufferOf, BytesOf, AbsolutePositions
<1>4. Refused.outcome = "refused" /\ Died.outcome = "died" /\ Overrun.outcome = "overrun"
  BY DEF Refused, Died, Overrun
<1> HIDE DEF accepted, bad, over, picture, G
<1>5. accepted /\ ~over /\ ~bad
  BY <1>1, <1>3, <1>4
<1>6. Generate(unit, lines, libs, flags).image = picture
  BY <1>1, <1>3, <1>5
<1>. QED
  BY <1>5, <1>6 DEF Succeeded, accepted, bad, picture

-----------------------------------------------------------------------------
(***************************************************************************)
(* Instructions that differ in targets only.                               *)
(***************************************************************************)
Alike(c, d) ==
  /\ IsInstr(c) /\ c.op = d.op /\ c.types = d.types /\ c.source = d.source
  /\ \A i \in Fields(d.op) : Layout[d.op][i] # "target" => c.args[i] = d.args[i]
Retargeted(new, old) == DOMAIN new = DOMAIN old /\ \A o \in DOMAIN old : Alike(new[o], old[o])

LEMMA AlikeSizes ==
  ASSUME NEW c, NEW d, Alike(c, d)
  PROVE  EmittedSize(c) = EmittedSize(d) /\ \A i \in Fields(d.op) : FieldOffset(c, i) = FieldOffset(d, i)
<1>1. c.op = d.op /\ c.op \in Implemented
  BY DEF Alike, IsInstr
<1>2. \A i \in Fields(c.op) : Layout[c.op][i] # "target" => c.args[i] = d.args[i]
  BY <1>1 DEF Alike
<1>. QED
  BY <1>1, <1>2, SameSized

LEMMA AlikeThrough ==
  ASSUME NEW c, NEW d, NEW e, Alike(c, d), Alike(d, e)
  PROVE  Alike(c, e)
BY DEF Alike

LEMMA AlikeItself ==
  ASSUME NEW c, IsInstr(c)
  PROVE  Alike(c, c)
BY DEF Alike

LEMMA RetargetedCode ==
  ASSUME NEW new, NEW old, IsCode(old), Retargeted(new, old)
  PROVE  /\ IsCode(new)
         /\ \A o \in DOMAIN old : /\ EmittedSize(new[o]) = EmittedSize(old[o])
                                 /\ \A i \in Fields(old[o].op) : FieldOffset(new[o], i) = FieldOffset(old[o], i)
         /\ \A size : Fits(old, size) => Fits(new, size)
<1>1. Rewritten(new, old)
  BY DEF Rewritten, Retargeted, Alike
<1>2. \A o \in DOMAIN old : \A i \in Fields(old[o].op) :
         Layout[old[o].op][i] # "target" => new[o].args[i] = old[o].args[i]
  BY DEF Retargeted, Alike
<1>. QED
  BY <1>1, <1>2, RewrittenSizes

LEMMA CalculatedRetargets ==
  ASSUME NEW code, NEW bound, IsCode(code), Fits(code, bound), NEW positions, AtTargets(positions, code),
         NEW size, NEW offset
  PROVE  Retargeted(CalculateJumps(code, size, positions, offset), code)
<1> DEFINE new == CalculateJumps(code, size, positions, offset)
<1>1. Rewritten(new, code)
  BY CalculatedCode
<1>2. ASSUME NEW o \in DOMAIN code, NEW i \in Fields(code[o].op), Layout[code[o].op][i] # "target"
      PROVE  new[o].args[i] = code[o].args[i]
  <2>1. i \notin FieldsAt(code[o], o, positions)
    BY <1>2, StoredIntoTargets
  <2>2. new[o].args[i] = IF i \in FieldsAt(code[o], o, positions)
                         THEN offset + BytecodeOffset(code, size, code[o].args[i]) ELSE code[o].args[i]
    BY CalculatedCode
  <2>. QED
    BY <2>1, <2>2
<1> HIDE DEF new
<1>. QED
  BY <1>1, <1>2 DEF Retargeted, Rewritten, Alike, new

LEMMA RelocatedRetargets ==
  ASSUME NEW lib, NEW bound, IsCode(lib.code), Fits(lib.code, bound), AtTargets(lib.jumps, lib.code), NEW offset
  PROVE  Retargeted(Relocated(lib, offset), lib.code)
<1> DEFINE new == Relocated(lib, offset) code == lib.code
<1>1. Rewritten(new, code)
  BY RelocatedCode
<1>2. ASSUME NEW o \in DOMAIN code, NEW i \in Fields(code[o].op), Layout[code[o].op][i] # "target"
      PROVE  new[o].args[i] = code[o].args[i]
  <2>1. i \notin FieldsAt(code[o], o, lib.jumps)
    BY <1>2, StoredIntoTargets
  <2>2. new[o].args[i] = IF i \in FieldsAt(code[o], o, lib.jumps)
                         THEN lib.code[o].args[i] + offset ELSE lib.code[o].args[i]
    BY RelocatedCode
  <2>. QED
    BY <2>1, <2>2
<1> HIDE DEF new
<1>. QED
  BY <1>1, <1>2 DEF Retargeted, Rewritten, Alike, new

-----------------------------------------------------------------------------
(***************************************************************************)
(* The bodies of a file, compiled.                                         *)
(***************************************************************************)
LEMMA EntryLines ==
  ASSUME NEW lines, IsSequence(lines), NEW main
  PROVE  LET body == EntryBody(lines, main) m == Len(lines)
         IN /\ m \in Nat /\ DOMAIN body = 1..(m + 6) /\ Len(body) = m + 6 /\ IsSequence(body)
            /\ body[1] = Line("ress", <<"local">>)
            /\ \A i \in 1..m : body[1 + i] = lines[i]
            /\ body[m + 2] = Line("frame", << <<"", 1>> >>)
            /\ body[m + 3] = Line("param", << <<"", 0>>, <<"", 1>> >>)
            /\ body[m + 4] = Line("call", << <<"", 1>>, main>>)
            /\ body[m + 5] = Line("move", << <<"", 0>>, <<"", 1>> >>)
            /\ body[m + 6] = Line("halt", <<>>)
<1> DEFINE m == Len(lines) body == EntryBody(lines, main)
           a1 == Line("frame", << <<"", 1>> >>) a2 == Line("param", << <<"", 0>>, <<"", 1>> >>)
           a3 == Line("call", << <<"", 1>>, main>>) a4 == Line("move", << <<"", 0>>, <<"", 1>> >>)
           a5 == Line("halt", <<>>) a0 == Line("ress", <<"local">>)
           first == <<a0>> last == <<a1, a2, a3, a4, a5>> front == first \o lines
<1>1. m \in Nat /\ DOMAIN lines = 1..m /\ lines = [i \in 1..m |-> lines[i]]
  BY DEF IsSequence
<1>2. body = front \o last
  BY DEF EntryBody
<1> HIDE DEF a0, a1, a2, a3, a4, a5, body
<1>3. first = [k \in 1..1 |-> first[k]] /\ first[1] = a0
  OBVIOUS
<1>4. last = [k \in 1..5 |-> last[k]] /\ last[1] = a1 /\ last[2] = a2 /\ last[3] = a3 /\ last[4] = a4 /\ last[5] = a5
  OBVIOUS
<1> HIDE DEF first, last, m
<1>5. /\ Len(front) = 1 + m /\ DOMAIN front = 1..(1 + m)
      /\ \A k \in 1..1 : front[k] = first[k]
      /\ \A k \in 1..m : front[1 + k] = lines[k]
      /\ front = [k \in 1..(1 + m) |-> front[k]]
  BY <1>1, <1>3, Joined
<1> HIDE DEF front
<1>6. PICK f : f = 1 + m
  OBVIOUS
<1>7. f \in Nat /\ front = [k \in 1..f |-> front[k]]
  BY <1>1, <1>5, <1>6
<1>31. PICK g : g = 5
  OBVIOUS
<1>32. g \in Nat /\ last = [k \in 1..g |-> last[k]]
  BY <1>4, <1>31
<1>33. /\ Len(front \o last) = f + g /\ DOMAIN (front \o last) = 1..(f + g)
       /\ \A k \in 1..f : (front \o last)[k] = front[k]
       /\ \A k \in 1..g : (front \o last)[f + k] = last[k]
       /\ front \o last = [k \in 1..(f + g) |-> (front \o last)[k]]
  BY <1>7, <1>32, Joined, SMTT(40)
<1>8. /\ Len(body) = f + 5 /\ DOMAIN body = 1..(f + 5)
      /\ \A k \in 1..f : body[k] = front[k]
      /\ \A k \in 1..5 : body[f + k] = last[k]
  BY <1>2, <1>33, <1>31
<1>14. body = [k \in 1..(f + 5) |-> body[k]]
  BY <1>2, <1>33, <1>31
<1>9. f + 5 = m + 6 /\ f + 1 = m + 2 /\ f + 2 = m + 3 /\ f + 3 = m + 4 /\ f + 4 = m + 5 /\ f \in Nat
  BY <1>1, <1>6
<1>10. body[1] = a0
  <2>1. 1 \in 1..f
    BY <1>1, <1>6
  <2>2. body[1] = front[1]
    BY <1>8, <2>1
  <2>3. front[1] = first[1]
    BY <1>5
  <2>. QED
    BY <1>3, <2>2, <2>3
<1>11. ASSUME NEW i \in 1..m
       PROVE  body[1 + i] = lines[i]
  <2>1. PICK k : k = 1 + i
    OBVIOUS
  <2>2. k \in 1..f
    BY <1>1, <1>6, <2>1
  <2>3. body[k] = front[k]
    BY <1>8, <2>2
  <2>4. front[1 + i] = lines[i]
    BY <1>5
  <2>. QED
    BY <2>1, <2>3, <2>4
<1>12. body[m + 2] = a1 /\ body[m + 3] = a2 /\ body[m + 4] = a3 /\ body[m + 5] = a4 /\ body[m + 6] = a5
  <2>1. body[f + 1] = a1 /\ body[f + 2] = a2 /\ body[f + 3] = a3 /\ body[f + 4] = a4 /\ body[f + 5] = a5
    BY <1>4, <1>8
  <2>. QED
    BY <1>9, <2>1
<1>13. Len(body) = m + 6 /\ DOMAIN body = 1..(m + 6)
  BY <1>8, <1>9
<1>15. IsSequence(body)
  <2>1. PICK e : e = f + 5
    OBVIOUS
  <2>2. e \in Nat /\ Len(body) = e /\ body = [k \in 1..e |-> body[k]]
    BY <1>8, <1>9, <1>14, <2>1
  <2>. QED
    BY <2>2 DEF IsSequence
<1>. QED
  BY <1>1, <1>10, <1>11, <1>12, <1>13, <1>15 DEF m, body, a0, a1, a2, a3, a4, a5

-----------------------------------------------------------------------------
(***************************************************************************)
(* The bodies of a file are all different, and are generated for their     *)
(* size.                                                                   *)
(***************************************************************************)
Ready(b, unit) ==
  LET s == Coded(b.lines, unit, b.name)
  IN /\ \E m \in Nat : DOMAIN b.lines = 1..m
     /\ IsCoded(s, b.lines, unit, b.name) /\ BodySize(b) = Total(Sizes(s))

LEMMA BodyOfRank ==
  ASSUME NEW lines, IsFile(lines), ProperFile(lines), NEW flags, NEW k \in DOMAIN AllBodies(lines, flags)
  PROVE  \/ \E i \in Opens(lines) : Rank(lines, i) = k /\ BodyAt(AllBodies(lines, flags)[k], lines, i)
         \/ /\ ~flags.as_lib /\ k = Blocks(lines) + Functions(lines) + 1
            /\ EntryAt(AllBodies(lines, flags)[k], lines, flags)
<1> DEFINE n == Blocks(lines) + Functions(lines)
<1>1. Bodied(AllBodies(lines, flags), lines, flags)
  BY BodiesOfFile
<1>2. n \in Nat /\ (k \in 1..n \/ (~flags.as_lib /\ k = n + 1))
  BY <1>1 DEF Bodied
<1>. QED
  BY <1>1, <1>2 DEF Bodied

LEMMA BodiesDistinct ==
  ASSUME NEW lines, IsFile(lines), ProperFile(lines), NEW flags,
         NEW j \in DOMAIN AllBodies(lines, flags), NEW k \in DOMAIN AllBodies(lines, flags),
         AllBodies(lines, flags)[j].name = AllBodies(lines, flags)[k].name
  PROVE  j = k
<1> DEFINE bodies == AllBodies(lines, flags)
<1>1. ASSUME NEW h \in DOMAIN bodies
      PROVE  \/ \E i \in Opens(lines) : Rank(lines, i) = h /\ bodies[h].name = lines[i].args[1]
             \/ h = Blocks(lines) + Functions(lines) + 1 /\ bodies[h].name = EntryFunctionName
  BY BodyOfRank DEF BodyAt, EntryAt
<1> HIDE DEF bodies
<1>2. bodies[j].name = bodies[k].name /\ j \in DOMAIN bodies /\ k \in DOMAIN bodies
  BY DEF bodies
<1>3. CASE \E i \in Opens(lines) : Rank(lines, i) = j /\ bodies[j].name = lines[i].args[1]
  BY <1>1, <1>2, <1>3 DEF ProperFile
<1>4. CASE ~\E i \in Opens(lines) : Rank(lines, i) = j /\ bodies[j].name = lines[i].args[1]
  BY <1>1, <1>2, <1>4 DEF ProperFile
<1>. QED
  BY <1>3, <1>4

\* The lines of a body are those of the file, or added to them.
LEMMA OwnLines ==
  ASSUME NEW lines, IsFile(lines), NEW i \in Opens(lines)
  PROVE  /\ Len(BodyLines(lines, i)) \in Nat /\ DOMAIN BodyLines(lines, i) = 1..Len(BodyLines(lines, i))
         /\ IsPlain(BodyLines(lines, i))
         /\ Complete(lines) => Complete(BodyLines(lines, i))
<1> DEFINE b == BodyLines(lines, i)
<1>1. Len(b) \in Nat /\ DOMAIN b = 1..Len(b)
      /\ \A j \in 1..Len(b) : b[j] = lines[i + j] /\ i + j \in Slice(lines, i) /\ i + j \in DOMAIN lines
  BY SliceLines
<1> HIDE DEF b
<1>2. Closes(lines, i) /\ i \in Nat
  BY ClosingLine, SliceLines
<1>3. ASSUME NEW j \in 1..Len(b)
      PROVE  b[j].op \notin {".function:", ".block:", ".class:"}
  <2>1. i + j \in (i + 1)..Closing(lines, i)
    BY <1>1, <1>2 DEF Slice, Closes
  <2>2. lines[i + j].op \notin {".function:", ".block:"}
    BY <1>2, <2>1 DEF Closes
  <2>3. lines[i + j].op # ".class:"
    BY <1>1 DEF IsFile
  <2>. QED
    BY <1>1, <2>2, <2>3
<1>4. Complete(lines) => Complete(b)
  BY <1>1 DEF Complete
<1>. QED
  BY <1>1, <1>3, <1>4 DEF IsPlain, b

CompleteLine(line) == IsSequence(line.args) /\ GivesNames(line)
LEMMA EntryAdds ==
  ASSUME NEW lines, IsSequence(lines), NEW main
  PROVE  /\ Len(lines) \in Nat /\ DOMAIN EntryBody(lines, main) = 1..(Len(lines) + 6)
         /\ \A i \in DOMAIN EntryBody(lines, main) :
              \/ \E j \in DOMAIN lines : EntryBody(lines, main)[i] = lines[j]
              \/ CompleteLine(EntryBody(lines, main)[i])
<1> DEFINE m == Len(lines) body == EntryBody(lines, main)
<1>1. /\ m \in Nat /\ DOMAIN lines = 1..m /\ DOMAIN body = 1..(m + 6)
      /\ body[1] = Line("ress", <<"local">>)
      /\ \A i \in 1..m : body[1 + i] = lines[i]
      /\ body[m + 2] = Line("frame", << <<"", 1>> >>)
      /\ body[m + 3] = Line("param", << <<"", 0>>, <<"", 1>> >>)
      /\ body[m + 4] = Line("call", << <<"", 1>>, main>>)
      /\ body[m + 5] = Line("move", << <<"", 0>>, <<"", 1>> >>)
      /\ body[m + 6] = Line("halt", <<>>)
  BY EntryLines, SequenceDomain
<1>2. \A op, args : Line(op, args).op = op /\ Line(op, args).args = args
  BY DEF Line
<1>3. \A x, y : IsSequence(<<x, y>>) /\ IsSequence(<<x>>) /\ IsSequence(<<>>)
  BY DEF IsSequence
<1>4. ASSUME NEW op, NEW args, op \notin {"msg", "attach"}, IsSequence(args)
      PROVE  CompleteLine(Line(op, args))
  BY <1>2, <1>4 DEF GivesNames, CompleteLine
<1>9. m \in Nat
  BY <1>1
<1> HIDE DEF body, m
<1>6. CompleteLine(body[1]) /\ CompleteLine(body[m + 2]) /\ CompleteLine(body[m + 3])
  BY <1>1, <1>3, <1>4
<1>7. CompleteLine(body[m + 4]) /\ CompleteLine(body[m + 5]) /\ CompleteLine(body[m + 6])
  BY <1>1, <1>3, <1>4
<1>8. ASSUME NEW i \in 1..(m + 6)
      PROVE  (\E j \in DOMAIN lines : body[i] = lines[j]) \/ CompleteLine(body[i])
  <2>1. CASE i \in 2..(m + 1)
    <3>1. PICK j : j = i - 1
      OBVIOUS
    <3>2. j \in 1..m /\ i = 1 + j
      BY <1>9, <2>1, <3>1
    <3>3. j \in DOMAIN lines /\ body[i] = lines[j]
      BY <1>1, <3>2
    <3>. QED
      BY <3>3
  <2>2. CASE i \notin 2..(m + 1)
    <3>1. i = 1 \/ i = m + 2 \/ i = m + 3 \/ i = m + 4 \/ i = m + 5 \/ i = m + 6
      BY <1>9, <2>2
    <3>. QED
      BY <1>6, <1>7, <3>1
  <2>. QED
    BY <2>1, <2>2
<1>. QED
  BY <1>1, <1>8 DEF body, m

LEMMA EntryComplete ==
  ASSUME NEW lines, IsSequence(lines), Complete(lines), NEW main
  PROVE  Complete(EntryBody(lines, main))
<1>1. \A j \in DOMAIN lines : CompleteLine(lines[j])
  BY DEF Complete, CompleteLine
<1>2. \A i \in DOMAIN EntryBody(lines, main) : CompleteLine(EntryBody(lines, main)[i])
  BY <1>1, EntryAdds
<1>. QED
  BY <1>2 DEF Complete, CompleteLine

LEMMA BodiesReady ==
  ASSUME NEW lines, IsFile(lines), ProperFile(lines), NEW flags, NEW k \in DOMAIN AllBodies(lines, flags),
         CanCompile(AllBodies(lines, flags)[k].lines), NEW unit
  PROVE  Ready(AllBodies(lines, flags)[k], unit)
<1> DEFINE b == AllBodies(lines, flags)[k] s == Coded(b.lines, unit, b.name)
<1>1. CASE \E i \in Opens(lines) : BodyAt(b, lines, i)
  <2>1. PICK i \in Opens(lines) : BodyAt(b, lines, i)
    BY <1>1
  <2>2. b = [directive |-> lines[i].op, name |-> lines[i].args[1], lines |-> BodyLines(lines, i)]
    BY <2>1 DEF BodyAt
  <2> HIDE DEF b
  <2>3. b.lines = BodyLines(lines, i) /\ b.name # EntryFunctionName
    BY <2>2 DEF ProperFile
  <2>4. Len(b.lines) \in Nat /\ DOMAIN b.lines = 1..Len(b.lines) /\ IsPlain(b.lines) /\ Complete(b.lines)
    BY <2>3, OwnLines DEF ProperFile
  <2>6. CanCompile(b.lines)
    BY DEF b
  <2>7. BodySize(b) = CountBytes(b.lines)
    BY <2>3 DEF BodySize
  <2>8. CountBytes(b.lines) = Total(Sizes(s))
    BY <2>4, <2>6, BodySized
  <2>9. IsCoded(s, b.lines, unit, b.name)
    BY <2>4, <2>6, CompiledBody
  <2>. QED
    BY <2>4, <2>7, <2>8, <2>9 DEF Ready, b
<1>2. CASE EntryAt(b, lines, flags)
  <2>1. b = [directive |-> ".function:", name |-> EntryFunctionName,
             lines |-> EntryBody(lines, MainFunction(lines, flags))]
    BY <1>2 DEF EntryAt
  <2>2. IsSequence(lines)
    BY DEF IsFile
  <2>3. CanCompile(b.lines)
    BY DEF b
  <2> HIDE DEF b
  <2>4. b.lines = EntryBody(lines, MainFunction(lines, flags)) /\ b.name = EntryFunctionName
        /\ b.directive = ".function:"
    BY <2>1
  <2>5. Len(lines) \in Nat /\ DOMAIN b.lines = 1..(Len(lines) + 6) /\ Len(b.lines) = Len(lines) + 6
    BY <2>2, <2>4, EntryLines
  <2>6. PICK m : m = Len(lines) + 6
    OBVIOUS
  <2>7. m \in Nat /\ DOMAIN b.lines = 1..m /\ Len(b.lines) = m
    BY <2>5, <2>6
  <2>11. Complete(b.lines)
    BY <2>2, <2>4, EntryComplete DEF ProperFile
  <2>8. BodySize(b) = CountBytes(Filter(b.lines))
    BY <2>4 DEF BodySize
  <2>9. CountBytes(Filter(b.lines)) = Total(Sizes(s))
    BY <2>3, <2>7, <2>11, BodySized
  <2>10. IsCoded(s, b.lines, unit, b.name)
    BY <2>3, <2>7, <2>11, CompiledBody
  <2>. QED
    BY <2>7, <2>8, <2>9, <2>10 DEF Ready, b
<1>. QED
  BY <1>1, <1>2, BodyOfRank

-----------------------------------------------------------------------------
(***************************************************************************)
(* Nothing is written beyond the size counted for a body, whatever names   *)
(* the file defines.                                                       *)
(***************************************************************************)
\* The lines a body is generated from.
IsOwnBody(body, lines, flags) ==
  \/ \E o \in Opens(lines) : body.lines = BodyLines(lines, o)
  \/ /\ body.directive = ".function:" /\ body.name = EntryFunctionName
     /\ body.lines = EntryBody(lines, MainFunction(lines, flags))

LEMMA RoomForBody ==
  ASSUME NEW lines, IsFile(lines), Complete(lines), NEW flags, NEW body, IsOwnBody(body, lines, flags),
         CanCompile(body.lines)
  PROVE  ~Overruns(body)
<1> DEFINE b == body.lines s == Coded(b, 0, body.name)
<1>1. \/ IsPlain(b)
      \/ body.directive = ".function:" /\ body.name = EntryFunctionName
  BY OwnLines DEF IsOwnBody
<1>2. \E m \in Nat : DOMAIN b = 1..m /\ Len(b) = m
  <2>1. CASE \E o \in Opens(lines) : b = BodyLines(lines, o)
    BY <2>1, OwnLines
  <2>2. CASE b = EntryBody(lines, MainFunction(lines, flags))
    <3>1. IsSequence(lines)
      BY DEF IsFile
    <3>2. Len(lines) \in Nat /\ DOMAIN b = 1..(Len(lines) + 6) /\ Len(b) = Len(lines) + 6
      BY <2>2, <3>1, EntryLines
    <3>. QED
      BY <3>2
  <2>. QED
    BY <2>1, <2>2 DEF IsOwnBody
<1>3. Complete(b)
  BY OwnLines, EntryComplete DEF IsOwnBody, IsFile
<1>4. PICK m \in Nat : DOMAIN b = 1..m /\ Len(b) = m
  BY <1>2
<1>5. CanCompile(b)
  OBVIOUS
<1> HIDE DEF b
<1>6. /\ CountBytes(Filter(b)) = Total(Sizes(s))
      /\ IsPlain(b) => CountBytes(b) = Total(Sizes(s))
  BY <1>3, <1>4, <1>5, BodySized
<1>7. BodySize(body) = Total(Sizes(s))
  BY <1>1, <1>6 DEF BodySize, b
<1>8. Total(Sizes(s)) \in Nat
  <2>1. IsCoded(s, b, 0, body.name)
    BY <1>3, <1>4, <1>5, CompiledBody
  <2>2. PICK n \in Nat : DOMAIN s = 1..n /\ \A k \in 1..n : IsInstr(s[k])
    BY <2>1 DEF IsCoded
  <2> HIDE DEF s
  <2>3. Sizes(s) \in Seq(Nat) /\ Len(Sizes(s)) = n /\ \A k \in 0..n : Places(Sizes(s))[k] \in Nat
    BY <2>2, BodySizes
  <2>. QED
    BY <2>2, <2>3 DEF Total
<1>9. EmittedBytes(Compile(b)) = Total(Sizes(s))
  BY EmittedTotal
<1>. QED
  BY <1>7, <1>8, <1>9 DEF Overruns, b

\* Every body that is generated is one of these.
LEMMA GeneratedBodies ==
  ASSUME NEW lines, IsFile(lines), NEW flags, NEW linked,
         NEW body \in ToSet(ToGenerate(GatherBlocks(lines), FunctionsOf(lines, flags),
                                       LocalNames(FunctionsOf(lines, flags), linked)))
  PROVE  /\ IsOwnBody(body, lines, flags)
         /\ \/ \E name \in ToSet(GatherBlocks(lines).names) : body.lines = GatherBlocks(lines).bodies[name]
            \/ \E name \in ToSet(LocalNames(FunctionsOf(lines, flags), linked)) :
                 body.lines = FunctionsOf(lines, flags).bodies[name]
<1> DEFINE functions == FunctionsOf(lines, flags) blocks == GatherBlocks(lines)
           local == LocalNames(functions, linked)
           made(directive, invokables, name) ==
             [directive |-> directive, name |-> name, lines |-> invokables.bodies[name]]
           first == [k \in DOMAIN blocks.names |-> made(".block:", blocks, blocks.names[k])]
           second == [k \in DOMAIN local |-> made(".function:", functions, local[k])]
           N == Named1(lines, ".block:") M == Named1(lines, ".function:")
<1>1. IsSequence(lines) /\ Len(lines) \in Nat /\ DOMAIN lines = 1..Len(lines)
  BY SequenceDomain DEF IsFile
<1>2. blocks.names = N /\ blocks.bodies = Invokables(lines, ".block:")
  BY DEF GatherBlocks, BlockNames
<1>3. PICK b \in Nat : DOMAIN blocks.names = 1..b
  BY <1>1, <1>2, NamesOfLines DEF IsNamed1
<1>4. PICK f \in Nat :
        /\ DOMAIN M = 1..f
        /\ functions.names \in Seq(ToSet(functions.names))
        /\ Len(functions.names) = f + (IF flags.as_lib THEN 0 ELSE 1)
        /\ \A k \in 1..f : functions.names[k] = M[k]
        /\ ~flags.as_lib => functions.names[f + 1] = EntryFunctionName
        /\ \A name : (name # EntryFunctionName \/ flags.as_lib)
             /\ name \in DOMAIN Invokables(lines, ".function:") =>
               functions.bodies[name] = Invokables(lines, ".function:")[name]
        /\ ~flags.as_lib =>
             functions.bodies[EntryFunctionName] = EntryBody(lines, MainFunction(lines, flags))
  BY FunctionsGathered
<1>5. ASSUME NEW directive \in {".block:", ".function:"}, NEW name \in DOMAIN Invokables(lines, directive)
      PROVE  \E o \in Opens(lines) : Invokables(lines, directive)[name] = BodyLines(lines, o)
  <2> DEFINE T == {i \in DOMAIN lines : lines[i].op = directive /\ lines[i].args[1] = name}
  <2>1. name \in ToSet(Named1(lines, directive))
    BY DEF Invokables
  <2>2. Invokables(lines, directive)[name] = SubSeq(lines, Max(T) + 1, Closing(lines, Max(T)) - 1)
    BY <2>1 DEF Invokables
  <2>3. T \in SUBSET (1..Len(lines)) /\ T # {}
    BY <1>1, <2>1, NamesOfLines DEF Of
  <2>4. Max(T) \in T
    <3> HIDE DEF T
    <3>. QED
      BY <1>1, <2>3, MaxIsIn
  <2>5. Max(T) \in Opens(lines)
    BY <2>4 DEF Opens
  <2>. QED
    BY <2>2, <2>5 DEF BodyLines
<1>6. \A name \in ToSet(N) : name \in DOMAIN Invokables(lines, ".block:")
  BY DEF Invokables
<1>7. \A name \in ToSet(M) : name \in DOMAIN Invokables(lines, ".function:")
  BY DEF Invokables
<1>8. ASSUME NEW name \in ToSet(functions.names)
      PROVE  \/ ~flags.as_lib /\ name = EntryFunctionName
             \/ (name # EntryFunctionName \/ flags.as_lib) /\ name \in ToSet(M)
  <2>1. PICK k \in DOMAIN functions.names : name = functions.names[k]
    BY DEF ToSet
  <2>2. DOMAIN functions.names = 1..Len(functions.names)
    BY <1>4
  <2>3. k \in 1..(f + (IF flags.as_lib THEN 0 ELSE 1))
    BY <1>4, <2>2
  <2> HIDE DEF functions, M
  <2>4. CASE k \in 1..f
    BY <1>4, <2>1, <2>4 DEF ToSet
  <2>5. CASE k \notin 1..f
    <3>1. ~flags.as_lib /\ k = f + 1
      BY <2>3, <2>5
    <3>. QED
      BY <1>4, <2>1, <3>1
  <2>. QED
    BY <2>4, <2>5
<1>9. \E n \in Nat : DOMAIN local = 1..n /\ \A k \in 1..n : local[k] \in ToSet(functions.names)
  <2> DEFINE S == {i \in DOMAIN functions.names : functions.names[i] \notin NamesIn(linked)}
  <2>1. PICK n \in Nat : n = Len(functions.names) /\ DOMAIN functions.names = 1..n
    BY <1>4
  <2>2. S \in SUBSET (1..n)
    BY <2>1
  <2>3. local = Pick(functions.names, S)
    BY DEF LocalNames
  <2> HIDE DEF S, functions, local
  <2>4. IsPick(local, functions.names, S)
    BY <2>2, <2>3, Picked
  <2>. QED
    BY <2>1, <2>2, <2>4 DEF IsPick, ToSet
<1>10. PICK n \in Nat : DOMAIN local = 1..n /\ \A k \in 1..n : local[k] \in ToSet(functions.names)
  BY <1>9
<1>11. PICK k \in DOMAIN (first \o second) : body = (first \o second)[k]
  BY DEF ToGenerate, ToSet
<1>12. \A directive, invokables, name :
         /\ made(directive, invokables, name).directive = directive
         /\ made(directive, invokables, name).name = name
         /\ made(directive, invokables, name).lines = invokables.bodies[name]
  OBVIOUS
<1> HIDE DEF made, functions, blocks, local, N, M
<1>13. first = [j \in 1..b |-> first[j]] /\ second = [j \in 1..n |-> second[j]]
       /\ (\A j \in 1..b : first[j] = made(".block:", blocks, blocks.names[j]))
       /\ \A j \in 1..n : second[j] = made(".function:", functions, local[j])
  BY <1>3, <1>10
<1> HIDE DEF first, second
<1>14. /\ DOMAIN (first \o second) = 1..(b + n)
       /\ \A j \in 1..b : (first \o second)[j] = first[j]
       /\ \A j \in 1..n : (first \o second)[b + j] = second[j]
  BY <1>13, Joined
<1>15. \/ \E j \in 1..b : body = made(".block:", blocks, blocks.names[j])
       \/ \E j \in 1..n : body = made(".function:", functions, local[j])
  <2>1. CASE k \in 1..b
    BY <1>11, <1>13, <1>14, <2>1
  <2>2. CASE k \notin 1..b
    <3>1. PICK j : j = k - b
      OBVIOUS
    <3>2. j \in 1..n /\ k = b + j
      BY <1>11, <1>14, <2>2, <3>1
    <3>. QED
      BY <1>11, <1>13, <1>14, <3>2
  <2>. QED
    BY <2>1, <2>2
<1>16. ASSUME NEW j \in 1..b, body = made(".block:", blocks, blocks.names[j])
       PROVE  /\ \E o \in Opens(lines) : body.lines = BodyLines(lines, o)
              /\ \E name \in ToSet(blocks.names) : body.lines = blocks.bodies[name]
  <2>1. blocks.names[j] \in ToSet(blocks.names)
    BY <1>3 DEF ToSet
  <2>2. body.lines = blocks.bodies[blocks.names[j]]
    BY <1>12, <1>16
  <2>. QED
    BY <1>2, <1>5, <1>6, <2>1, <2>2
<1>17. ASSUME NEW j \in 1..n, body = made(".function:", functions, local[j])
       PROVE  /\ IsOwnBody(body, lines, flags)
              /\ \E name \in ToSet(local) : body.lines = functions.bodies[name]
  <2>1. local[j] \in ToSet(local) /\ local[j] \in ToSet(functions.names)
    BY <1>10 DEF ToSet
  <2>2. body.directive = ".function:" /\ body.name = local[j] /\ body.lines = functions.bodies[local[j]]
    BY <1>12, <1>17
  <2>3. CASE ~flags.as_lib /\ local[j] = EntryFunctionName
    BY <1>4, <2>1, <2>2, <2>3 DEF IsOwnBody
  <2>4. CASE (local[j] # EntryFunctionName \/ flags.as_lib) /\ local[j] \in ToSet(M)
    <3>1. local[j] \in DOMAIN Invokables(lines, ".function:")
      BY <1>7, <2>4
    <3>2. functions.bodies[local[j]] = Invokables(lines, ".function:")[local[j]]
      BY <1>4, <2>4, <3>1
    <3>3. PICK o \in Opens(lines) : Invokables(lines, ".function:")[local[j]] = BodyLines(lines, o)
      BY <1>5, <3>1
    <3>. QED
      BY <2>1, <2>2, <3>2, <3>3 DEF IsOwnBody
  <2>. QED
    BY <1>8, <2>1, <2>3, <2>4
<1>. QED
  BY <1>15, <1>16, <1>17 DEF IsOwnBody, functions, blocks, local

LEMMA NothingOverruns ==
  ASSUME NEW unit, NEW lines, IsFile(lines), Complete(lines), NEW libs, NEW flags
  PROVE  Generate(unit, lines, libs, flags).outcome # "overrun"
<1> DEFINE main == MainFunction(lines, flags) link == LocalSize(lines, flags)
           blocks == GatherBlocks(lines) functions == FunctionsOf(lines, flags)
           linked == LinkedTo(lines, libs, flags) local == LocalNames(functions, linked)
           bodies == ToGenerate(blocks, functions, local)
           accepted == Accepted(lines, flags, main, GatherFunctions(lines), blocks, functions, linked)
           over == \E k \in DOMAIN bodies : Overruns(bodies[k])
           G == GenerateBodies(unit, libs, flags, blocks, functions, linked, link)
<1>1. Generate(unit, lines, libs, flags) = IF accepted THEN G ELSE Refused
  BY DEF Generate, FunctionsOf, LinkedTo
<1>2. Refused.outcome = "refused" /\ Died.outcome = "died"
  BY DEF Refused, Died
<1>3. \A image_ : [outcome |-> "assembled", image |-> image_].outcome = "assembled"
  OBVIOUS
<1>4. ~over => G.outcome \in {"died", "assembled"}
  BY <1>2, <1>3 DEF GenerateBodies
<1>5. ASSUME accepted
      PROVE  ~over
  <2>1. /\ \A name \in ToSet(blocks.names) : CanCompile(blocks.bodies[name])
        /\ \A name \in ToSet(local) : CanCompile(functions.bodies[name])
    BY <1>5 DEF Accepted
  <2> SUFFICES ASSUME NEW k \in DOMAIN bodies
               PROVE  ~Overruns(bodies[k])
    OBVIOUS
  <2>2. PICK body : body = bodies[k] /\ body \in ToSet(bodies)
    BY DEF ToSet
  <2>3. IsOwnBody(body, lines, flags) /\ CanCompile(body.lines)
    BY <2>1, <2>2, GeneratedBodies
  <2>4. ~Overruns(body)
    BY <2>3, RoomForBody
  <2>. QED
    BY <2>2, <2>4
<1> HIDE DEF accepted, over, G
<1>. QED
  BY <1>1, <1>2, <1>4, <1>5

LEMMA NeverOverruns == Spec => [](NamesGiven => stage # "overrun")
<1> DEFINE Never == NamesGiven => stage # "overrun"
<1>1. Init => Never
  BY DEF Init
<1>2. ASSUME BuildInv, Never, [Next]_vars
      PROVE  Never'
  <2> SUFFICES ASSUME NamesGiven'
               PROVE  stage' # "overrun"
    OBVIOUS
  <2>1. UNCHANGED project
    BY <1>2 DEF Next, AssembleLibrary, AssembleProgram, Load, Reassemble, vars
  <2>2. NamesGiven /\ stage # "overrun"
    BY <1>2, <2>1 DEF NamesGiven, Units, File
  <2>3. project \in Projects
    BY <1>2 DEF BuildInv
  <2>4. ASSUME NEW u \in Units
        PROVE  IsFile(File(u)) /\ Complete(File(u))
    <3>1. IsFile(File(u))
      BY <2>3, ProjectParts DEF Units, File
    <3>. QED
      BY <2>2, <3>1 DEF Complete, IsFile, NamesGiven
  <2>5. CASE AssembleLibrary
    <3>1. PICK n : n = Len(built) + 1
      OBVIOUS
    <3>2. /\ Len(built) < Len(project.libs)
          /\ stage' = stage \/ stage' = Generate(n, project.libs[n].lines, Links(project.libs[n].links),
                                                 Flags(TRUE)).outcome
      BY <2>5, <3>1 DEF AssembleLibrary
    <3>3. n \in Units /\ n # 0
      <4>1. Len(built) \in Nat
        <5>1. Len(built) \in 0..Len(project.libs)
          BY <1>2 DEF BuildInv
        <5>. QED
          BY <2>3, <5>1, ProjectParts
      <4>2. Len(project.libs) \in Nat
        BY <2>3, ProjectParts
      <4>. QED
        BY <3>1, <3>2, <4>1, <4>2 DEF Units
    <3>4. IsFile(project.libs[n].lines) /\ Complete(project.libs[n].lines)
      BY <2>4, <3>3 DEF File
    <3>. QED
      BY <2>2, <3>2, <3>4, NothingOverruns
  <2>6. CASE AssembleProgram
    <3>1. stage' = Generate(0, project.lines, Links(project.links), Flags(FALSE)).outcome
      BY <2>6 DEF AssembleProgram
    <3>2. 0 \in Units
      BY <2>3, ProjectParts DEF Units
    <3>3. IsFile(project.lines) /\ Complete(project.lines)
      BY <2>4, <3>2 DEF File
    <3>. QED
      BY <3>1, <3>3, NothingOverruns
  <2>7. CASE Load \/ Reassemble \/ UNCHANGED vars
    BY <2>2, <2>7 DEF Load, Reassemble, vars
  <2>. QED
    BY <1>2, <2>5, <2>6, <2>7 DEF Next
<1>. QED
  BY <1>1, <1>2, BuildHolds, PTL DEF Spec

LEMMA BodiesCompile ==
  ASSUME NEW unit, NEW lines, IsFile(lines), ProperFile(lines), NEW libs, NEW flags,
         AllOwn(lines, libs, flags),
         Accepted(lines, flags, MainFunction(lines, flags), GatherFunctions(lines), GatherBlocks(lines),
                  FunctionsOf(lines, flags), LinkedTo(lines, libs, flags)),
         NEW k \in DOMAIN AllBodies(lines, flags)
  PROVE  CanCompile(AllBodies(lines, flags)[k].lines)
<1> DEFINE b == AllBodies(lines, flags)[k] functions == FunctionsOf(lines, flags) blocks == GatherBlocks(lines)
           names == Named1(lines, ".function:") f == Functions(lines) all == functions.names
<1>1. IsSequence(lines)
  BY DEF IsFile
<1>2. /\ \A name \in ToSet(blocks.names) : CanCompile(blocks.bodies[name])
      /\ \A name \in ToSet(functions.names) : CanCompile(functions.bodies[name])
  BY DEF Accepted, AllOwn
<1>3. blocks.names = Named1(lines, ".block:") /\ blocks.bodies = Invokables(lines, ".block:")
  BY DEF GatherBlocks, BlockNames
<1>4. /\ f \in Nat /\ DOMAIN names = 1..f
      /\ all \in Seq(ToSet(all)) /\ Len(all) = f + (IF flags.as_lib THEN 0 ELSE 1)
      /\ \A j \in 1..f : all[j] = names[j]
      /\ ~flags.as_lib => all[f + 1] = EntryFunctionName
      /\ \A name : (name # EntryFunctionName \/ flags.as_lib)
            /\ name \in DOMAIN Invokables(lines, ".function:") =>
              functions.bodies[name] = Invokables(lines, ".function:")[name]
      /\ ~flags.as_lib =>
            functions.bodies[EntryFunctionName] = EntryBody(lines, MainFunction(lines, flags))
  BY FunctionsGathered
<1> HIDE DEF b, functions, blocks, names, all, f
<1>5. ToSet(names) \subseteq ToSet(all) /\ (~flags.as_lib => EntryFunctionName \in ToSet(all))
  <2>1. DOMAIN all = 1..(f + (IF flags.as_lib THEN 0 ELSE 1))
    BY <1>4
  <2>. QED
    BY <1>4, <2>1 DEF ToSet
<1>6. CASE \E i \in Opens(lines) : BodyAt(b, lines, i)
  <2>1. PICK i \in Opens(lines) : BodyAt(b, lines, i)
    BY <1>6
  <2> DEFINE name == lines[i].args[1]
  <2>2. b.lines = BodyLines(lines, i) /\ name # EntryFunctionName
    BY <2>1 DEF BodyAt, ProperFile
  <2>3. CASE lines[i].op = ".block:"
    <3>1. i \in Of(lines, ".block:")
      BY <2>3 DEF Of, Opens
    <3>2. name \in ToSet(Named1(lines, ".block:"))
      BY <1>1, <3>1, NamesOfLines
    <3>3. Invokables(lines, ".block:")[name] = BodyLines(lines, i)
      BY <3>1, InvokableBodies
    <3>. QED
      BY <1>2, <1>3, <2>2, <3>2, <3>3 DEF b
  <2>4. CASE lines[i].op = ".function:"
    <3>1. i \in Of(lines, ".function:")
      BY <2>4 DEF Of, Opens
    <3>2. name \in ToSet(names)
      BY <1>1, <3>1, NamesOfLines DEF names
    <3>3. Invokables(lines, ".function:")[name] = BodyLines(lines, i)
          /\ name \in DOMAIN Invokables(lines, ".function:")
      BY <3>1, InvokableBodies
    <3>4. CanCompile(functions.bodies[name])
      BY <1>2, <1>5, <3>2 DEF all
    <3>. QED
      BY <1>4, <2>2, <3>3, <3>4 DEF b
  <2>. QED
    BY <2>3, <2>4 DEF Opens
<1>7. CASE ~flags.as_lib /\ EntryAt(b, lines, flags)
  <2>1. b.lines = EntryBody(lines, MainFunction(lines, flags))
    BY <1>7 DEF EntryAt
  <2>2. CanCompile(functions.bodies[EntryFunctionName])
    BY <1>2, <1>5, <1>7 DEF all
  <2>. QED
    BY <1>4, <1>7, <2>1, <2>2 DEF b
<1>. QED
  BY <1>6, <1>7, BodyOfRank DEF b

-----------------------------------------------------------------------------
(***************************************************************************)
(* The bodies of a file as bytes, one after the other.                     *)
(***************************************************************************)
PieceOf(unit, b) == Placed(Coded(b.lines, unit, b.name))
IsPiece(g, unit, b, offset) ==
  LET code == PieceOf(unit, b) size == BodySize(b)
  IN /\ size \in Nat /\ IsCode(code) /\ Fits(code, size)
     /\ g.size = size
     /\ g.code = CalculateJumps(code, size, Jumps(code, FALSE), offset)
     /\ g.jumps = {p + offset : p \in Jumps(code, FALSE)}
     /\ g.positions = {p + offset : p \in Jumps(code, TRUE)}
     /\ g.died = ~CanCalculateJumps(code, size, Jumps(code, FALSE))
     /\ Retargeted(g.code, code) /\ IsCode(g.code) /\ Fits(g.code, size)

LEMMA ReadyPlaced ==
  ASSUME NEW unit, NEW b, Ready(b, unit)
  PROVE  LET s == Coded(b.lines, unit, b.name) n == Cardinality(Kept(b.lines))
         IN /\ n \in Nat /\ DOMAIN s = 1..n /\ \A k \in 1..n : IsInstr(s[k])
            /\ Placement(PieceOf(unit, b), s, n)
            /\ BodySize(b) = Total(Sizes(s)) /\ BodySize(b) \in Nat
            /\ IsCode(PieceOf(unit, b)) /\ Fits(PieceOf(unit, b), BodySize(b))
<1> DEFINE s == Coded(b.lines, unit, b.name) n == Cardinality(Kept(b.lines))
<1>1. IsCoded(s, b.lines, unit, b.name) /\ BodySize(b) = Total(Sizes(s))
  BY DEF Ready
<1>2. n \in Nat /\ DOMAIN s = 1..n /\ \A k \in 1..n : IsInstr(s[k])
  BY <1>1 DEF IsCoded
<1> HIDE DEF s, n
<1>3. Placement(Placed(s), s, n)
  BY <1>2, PlacedCode
<1>4. Total(Sizes(s)) \in Nat
  <2>1. Sizes(s) \in Seq(Nat) /\ Len(Sizes(s)) = n /\ \A k \in 0..n : Places(Sizes(s))[k] \in Nat
    BY <1>2, BodySizes
  <2>. QED
    BY <1>2, <2>1 DEF Total
<1>. QED
  BY <1>1, <1>2, <1>3, <1>4 DEF Placement, PieceOf, s, n

LEMMA GeneratedPiece ==
  ASSUME NEW unit, NEW b, Ready(b, unit), NEW offset
  PROVE  IsPiece(Generated(unit, b, offset), unit, b, offset)
<1> DEFINE code == PieceOf(unit, b) size == BodySize(b) g == Generated(unit, b, offset)
<1>1. g = [size |-> size, code |-> CalculateJumps(code, size, Jumps(code, FALSE), offset),
           jumps |-> {p + offset : p \in Jumps(code, FALSE)},
           positions |-> {p + offset : p \in Jumps(code, TRUE)},
           died |-> ~CanCalculateJumps(code, size, Jumps(code, FALSE))]
  <2>1. Filled(Compile(b.lines), BodySize(b)) = Compile(b.lines)
    <3>1. PICK m \in Nat : DOMAIN b.lines = 1..m
      BY DEF Ready
    <3>2. BodySize(b) = Total(Sizes(Coded(b.lines, unit, b.name))) /\ BodySize(b) \in Nat
      BY ReadyPlaced
    <3>. QED
      BY <3>1, <3>2, NothingFilled
  <2>. QED
    BY <2>1 DEF Generated, PieceOf, Coded
<1>2. size \in Nat /\ IsCode(code) /\ Fits(code, size)
  BY ReadyPlaced
<1> HIDE DEF code, size, g
<1>3. /\ g.size = size /\ g.code = CalculateJumps(code, size, Jumps(code, FALSE), offset)
      /\ g.jumps = {p + offset : p \in Jumps(code, FALSE)}
      /\ g.positions = {p + offset : p \in Jumps(code, TRUE)}
      /\ g.died = ~CanCalculateJumps(code, size, Jumps(code, FALSE))
  BY <1>1
<1>4. Retargeted(g.code, code)
  <2>1. AtTargets(Jumps(code, FALSE), code)
    BY <1>2, JumpsAreTargets
  <2>2. PICK positions : positions = Jumps(code, FALSE)
    OBVIOUS
  <2>3. Retargeted(CalculateJumps(code, size, positions, offset), code)
    BY <1>2, <2>1, <2>2, CalculatedRetargets
  <2>. QED
    BY <1>3, <2>2, <2>3
<1>5. IsCode(g.code) /\ Fits(g.code, size)
  BY <1>2, <1>4, RetargetedCode
<1>. QED
  BY <1>2, <1>3, <1>4, <1>5 DEF IsPiece, code, size, g

SectionSizes(bodies) == [k \in DOMAIN bodies |-> BodySize(bodies[k])]

LEMMA SectionPieces ==
  ASSUME NEW unit, NEW n \in Nat, NEW bodies, DOMAIN bodies = 1..n, \A k \in 1..n : Ready(bodies[k], unit)
  PROVE  /\ ArePieces(Section(unit, bodies), n)
         /\ PieceSizes(Section(unit, bodies)) = SectionSizes(bodies)
         /\ \A k \in 1..n : IsPiece(Section(unit, bodies)[k], unit, bodies[k], Places(SectionSizes(bodies))[k - 1])
<1> DEFINE section == Section(unit, bodies) at == Places(SectionSizes(bodies))
<1>1. section = [k \in 1..n |-> Generated(unit, bodies[k], at[k - 1])]
  BY DEF Section, SectionSizes
<1> HIDE DEF section, at
<1>2. \A k \in 1..n : IsPiece(section[k], unit, bodies[k], at[k - 1])
  BY <1>1, GeneratedPiece
<1>3. ArePieces(section, n)
  BY <1>1, <1>2 DEF ArePieces, IsPiece
<1>4. PieceSizes(section) = SectionSizes(bodies)
  BY <1>1, <1>2 DEF PieceSizes, SectionSizes, IsPiece
<1>. QED
  BY <1>2, <1>3, <1>4 DEF section, at

\* Bodies that are all different are written as they have been generated.
LEMMA BufferIsSection ==
  ASSUME NEW n \in Nat, NEW bodies, DOMAIN bodies = 1..n,
         \A j, k \in 1..n : bodies[j] = bodies[k] => j = k,
         NEW section, section = [k \in 1..n |-> section[k]]
  PROVE  WriteBodies(bodies, section) = Written(section, 0)
<1>1. ASSUME NEW k \in 1..n
      PROVE  Max({j \in DOMAIN bodies : bodies[j] = bodies[k]}) = k
  <2>1. {j \in DOMAIN bodies : bodies[j] = bodies[k]} = {k}
    OBVIOUS
  <2>2. k \in Int
    OBVIOUS
  <2>. QED
    BY <2>1, <2>2, MaxIsOnly
<1>2. [k \in DOMAIN bodies |-> section[Max({j \in DOMAIN bodies : bodies[j] = bodies[k]})]]
      = [k \in 1..n |-> section[k]]
  BY <1>1
<1>. QED
  BY <1>2 DEF WriteBodies

-----------------------------------------------------------------------------
(***************************************************************************)
(* The code of a file: its bodies with the absolute jumps calculated.      *)
(***************************************************************************)
Count(lines, flags) == Blocks(lines) + Functions(lines) + IF flags.as_lib THEN 0 ELSE 1
Starts(lines, flags) == Places(SectionSizes(AllBodies(lines, flags)))
Used(lines, flags) == Total(SectionSizes(AllBodies(lines, flags)))
OwnCode(unit, lines, libs, flags) ==
  CalculateJumps(BufferOf(unit, lines, flags), BytesOf(lines, libs, flags),
                 AbsolutePositions(SectionOf(unit, lines, flags)), 0)

RecordedJumps(section) == UNION {section[k].jumps : k \in DOMAIN section}

IsSection(unit, lines, flags) ==
  LET n == Count(lines, flags)
      bodies == AllBodies(lines, flags)
      section == SectionOf(unit, lines, flags)
  IN /\ n \in Nat /\ DOMAIN bodies = 1..n /\ \A k \in 1..n : Ready(bodies[k], unit)
     /\ ArePieces(section, n) /\ PieceSizes(section) = SectionSizes(bodies)
     /\ SectionSizes(bodies) \in Seq(Nat) /\ Len(SectionSizes(bodies)) = n
     /\ \A k \in 1..n : IsPiece(section[k], unit, bodies[k], Starts(lines, flags)[k - 1])
     /\ \A k \in 0..n : Starts(lines, flags)[k] \in Nat
     /\ \A k \in 1..n : Starts(lines, flags)[k] = Starts(lines, flags)[k - 1] + BodySize(bodies[k])
     /\ Starts(lines, flags)[0] = 0 /\ Starts(lines, flags)[n] = Used(lines, flags) /\ Used(lines, flags) \in Nat
IsBuffer(unit, lines, flags) ==
  LET n == Count(lines, flags)
      section == SectionOf(unit, lines, flags)
      buffer == BufferOf(unit, lines, flags)
  IN /\ IsCode(buffer) /\ Fits(buffer, Used(lines, flags))
     /\ \A k \in 1..n : \A p \in DOMAIN section[k].code :
          /\ Starts(lines, flags)[k - 1] + p \in DOMAIN buffer
          /\ buffer[Starts(lines, flags)[k - 1] + p] = section[k].code[p]
     /\ \A o \in DOMAIN buffer : \E k \in 1..n : \E p \in DOMAIN section[k].code :
          o = Starts(lines, flags)[k - 1] + p
     /\ AtTargets(AbsolutePositions(section), buffer) /\ AtTargets(RecordedJumps(section), buffer)
IsOwn(unit, lines, libs, flags) ==
  LET own == OwnCode(unit, lines, libs, flags)
  IN /\ Retargeted(own, BufferOf(unit, lines, flags)) /\ IsCode(own) /\ Fits(own, Used(lines, flags))

LEMMA BodiesMade ==
  ASSUME NEW unit, NEW lines, IsFile(lines), ProperFile(lines), NEW libs, NEW flags, AllOwn(lines, libs, flags),
         Accepted(lines, flags, MainFunction(lines, flags), GatherFunctions(lines), GatherBlocks(lines),
                  FunctionsOf(lines, flags), LinkedTo(lines, libs, flags))
  PROVE  IsSection(unit, lines, flags)
<1> DEFINE n == Count(lines, flags) bodies == AllBodies(lines, flags) section == SectionOf(unit, lines, flags)
           starts == Starts(lines, flags) sizes == SectionSizes(bodies)
<1>1. n \in Nat /\ DOMAIN bodies = 1..n
  <2>1. /\ Blocks(lines) \in Nat /\ Functions(lines) \in Nat
        /\ DOMAIN bodies = 1..(Blocks(lines) + Functions(lines) + IF flags.as_lib THEN 0 ELSE 1)
    BY BodiesOfFile DEF Bodied
  <2>. QED
    BY <2>1 DEF Count
<1>2. \A k \in 1..n : Ready(bodies[k], unit)
  BY <1>1, BodiesCompile, BodiesReady
<1> HIDE DEF n, bodies
<1>3. /\ ArePieces(section, n) /\ PieceSizes(section) = sizes
      /\ \A k \in 1..n : IsPiece(section[k], unit, bodies[k], Places(sizes)[k - 1])
  <2>1. section = Section(unit, bodies)
    BY DEF SectionOf, bodies
  <2>. QED
    BY <1>1, <1>2, <2>1, SectionPieces
<1>4. starts = Places(sizes) /\ Used(lines, flags) = Total(sizes)
  BY DEF Starts, Used, bodies
<1>5. \A k \in 1..n : BodySize(bodies[k]) \in Nat
  BY <1>2, ReadyPlaced
<1>6. sizes = [k \in 1..n |-> BodySize(bodies[k])]
  BY <1>1 DEF SectionSizes
<1> HIDE DEF sizes, section, starts
<1>7. sizes \in Seq(Nat) /\ Len(sizes) = n /\ \A k \in 1..n : sizes[k] = BodySize(bodies[k])
  BY <1>1, <1>5, <1>6
<1>8. /\ \A k \in 0..n : starts[k] \in Nat
      /\ \A k \in 1..n : starts[k] = starts[k - 1] + BodySize(bodies[k])
      /\ starts[0] = 0
  BY <1>1, <1>4, <1>7, PlacesAdd
<1>9. starts[n] = Used(lines, flags) /\ Used(lines, flags) \in Nat
  BY <1>1, <1>4, <1>7, <1>8 DEF Total
<1>. QED
  BY <1>1, <1>2, <1>3, <1>4, <1>7, <1>8, <1>9 DEF IsSection, n, bodies, section, starts, sizes

LEMMA BufferMade ==
  ASSUME NEW unit, NEW lines, IsFile(lines), ProperFile(lines), NEW flags, IsSection(unit, lines, flags)
  PROVE  IsBuffer(unit, lines, flags)
<1> DEFINE n == Count(lines, flags) bodies == AllBodies(lines, flags) section == SectionOf(unit, lines, flags)
           starts == Starts(lines, flags) used == Used(lines, flags) buffer == BufferOf(unit, lines, flags)
           sizes == PieceSizes(section)
<1>1. /\ n \in Nat /\ DOMAIN bodies = 1..n /\ ArePieces(section, n)
      /\ \A k \in 1..n : IsPiece(section[k], unit, bodies[k], starts[k - 1])
      /\ \A k \in 0..n : starts[k] \in Nat
  BY DEF IsSection
<1>2. Places(sizes) = starts /\ Total(sizes) = used
  BY DEF IsSection, Starts, Used
<1>3. \A j, k \in 1..n : bodies[j] = bodies[k] => j = k
  BY <1>1, BodiesDistinct
<1>4. section = [k \in 1..n |-> section[k]]
  <2>1. DOMAIN section = 1..n
    BY <1>1 DEF ArePieces
  <2>. QED
    BY <2>1 DEF SectionOf, Section
<1>5. buffer = Written(section, 0)
  BY <1>1, <1>3, <1>4, BufferIsSection DEF BufferOf
<1> HIDE DEF n, bodies, section, starts, used, buffer, sizes
<1>6. \A k \in 1..n : Fits(section[k].code, section[k].size) /\ IsCode(section[k].code)
  BY <1>1 DEF IsPiece
<1>7. Together(buffer, section, n, 0)
  BY <1>1, <1>5, <1>6, WrittenTogether
<1>8. /\ IsCode(buffer)
      /\ \A o \in DOMAIN buffer : \E k \in 1..n : \E p \in DOMAIN section[k].code :
           o = 0 + starts[k - 1] + p
  BY <1>1, <1>2, <1>5, WrittenFrom DEF sizes
<1>9. ASSUME NEW k \in 1..n, NEW p \in DOMAIN section[k].code
      PROVE  /\ starts[k - 1] \in Nat /\ p \in Nat /\ 0 + starts[k - 1] + p = starts[k - 1] + p
             /\ starts[k - 1] + p \in DOMAIN buffer
             /\ buffer[starts[k - 1] + p] = section[k].code[p]
  <2>1. starts[k - 1] \in Nat /\ p \in Nat
    <3>1. p \in Nat
      BY <1>6 DEF IsCode
    <3>2. k - 1 \in 0..n
      BY <1>1
    <3>. QED
      BY <1>1, <3>1, <3>2
  <2>2. 0 + starts[k - 1] + p = starts[k - 1] + p
    BY <2>1
  <2>3. /\ 0 + starts[k - 1] + p \in DOMAIN buffer
        /\ buffer[0 + starts[k - 1] + p] = section[k].code[p]
    BY <1>2, <1>7 DEF Together, sizes
  <2>. QED
    BY <2>1, <2>2, <2>3
<1>10. Fits(buffer, used)
  <2>1. Fits(buffer, 0 + used)
    BY <1>2, <1>7 DEF Together, sizes
  <2>2. used \in Nat
    BY DEF IsSection, used
  <2>3. 0 + used = used
    BY <2>2
  <2>. QED
    BY <2>1, <2>3
<1>11. \A o \in DOMAIN buffer : \E k \in 1..n : \E p \in DOMAIN section[k].code : o = starts[k - 1] + p
  BY <1>8, <1>9
<1>12. ASSUME NEW k \in 1..n, NEW absolute, NEW p \in Jumps(PieceOf(unit, bodies[k]), absolute)
       PROVE  \E o \in DOMAIN buffer : \E i \in Fields(buffer[o].op) :
                Layout[buffer[o].op][i] = "target" /\ p + starts[k - 1] = o + FieldOffset(buffer[o], i)
  <2> DEFINE code == PieceOf(unit, bodies[k]) start == starts[k - 1]
  <2>1. IsPiece(section[k], unit, bodies[k], start)
    BY <1>1
  <2>2. IsCode(code) /\ Retargeted(section[k].code, code) /\ p \in Jumps(code, absolute)
    BY <1>12, <2>1 DEF IsPiece
  <2> HIDE DEF code, start
  <2>3. AtTargets(Jumps(code, absolute), code)
    BY <2>2, JumpsAreTargets
  <2>4. PICK o \in DOMAIN code : \E i \in Fields(code[o].op) :
           Layout[code[o].op][i] = "target" /\ p = o + FieldOffset(code[o], i)
    BY <2>2, <2>3 DEF AtTargets
  <2>5. PICK i \in Fields(code[o].op) : Layout[code[o].op][i] = "target" /\ p = o + FieldOffset(code[o], i)
    BY <2>4
  <2> DEFINE c == section[k].code[o]
  <2>6. o \in DOMAIN section[k].code /\ Alike(c, code[o])
    BY <2>2 DEF Retargeted
  <2>7. c.op = code[o].op /\ FieldOffset(c, i) = FieldOffset(code[o], i)
    BY <2>6, AlikeSizes DEF Alike
  <2>8. start + o \in DOMAIN buffer /\ buffer[start + o] = c /\ start \in Nat /\ o \in Nat
    BY <1>9, <2>6 DEF start
  <2>9. FieldOffset(c, i) \in Nat
    <3>1. IsInstr(c) /\ i \in Fields(c.op)
      BY <2>6, <2>7 DEF Alike
    <3>2. c.op \in Implemented
      BY <3>1 DEF IsInstr
    <3>3. Sized(c)
      BY <3>2, InstructionSized
    <3>. QED
      BY <3>1, <3>3 DEF Sized
  <2> HIDE DEF c
  <2>10. p + start = (start + o) + FieldOffset(c, i)
    BY <2>5, <2>7, <2>8, <2>9
  <2>. QED
    BY <2>5, <2>7, <2>8, <2>10 DEF start
<1>13. DOMAIN section = 1..n
  BY <1>4
<1>14. AtTargets(AbsolutePositions(section), buffer)
  <2> SUFFICES ASSUME NEW k \in 1..n, NEW q \in section[k].positions
               PROVE  \E o \in DOMAIN buffer : \E i \in Fields(buffer[o].op) :
                        Layout[buffer[o].op][i] = "target" /\ q = o + FieldOffset(buffer[o], i)
    BY <1>13 DEF AtTargets, AbsolutePositions
  <2>1. section[k].positions = {p + starts[k - 1] : p \in Jumps(PieceOf(unit, bodies[k]), TRUE)}
    BY <1>1 DEF IsPiece
  <2>. QED
    BY <1>12, <2>1
<1>15. AtTargets(RecordedJumps(section), buffer)
  <2> SUFFICES ASSUME NEW k \in 1..n, NEW q \in section[k].jumps
               PROVE  \E o \in DOMAIN buffer : \E i \in Fields(buffer[o].op) :
                        Layout[buffer[o].op][i] = "target" /\ q = o + FieldOffset(buffer[o], i)
    BY <1>13 DEF AtTargets, RecordedJumps
  <2>1. section[k].jumps = {p + starts[k - 1] : p \in Jumps(PieceOf(unit, bodies[k]), FALSE)}
    BY <1>1 DEF IsPiece
  <2>. QED
    BY <1>12, <2>1
<1>. QED
  BY <1>8, <1>9, <1>10, <1>11, <1>14, <1>15 DEF IsBuffer, n, section, starts, used, buffer

LEMMA OwnMade ==
  ASSUME NEW unit, NEW lines, NEW libs, NEW flags, IsBuffer(unit, lines, flags)
  PROVE  IsOwn(unit, lines, libs, flags)
<1> DEFINE buffer == BufferOf(unit, lines, flags) own == OwnCode(unit, lines, libs, flags)
           positions == AbsolutePositions(SectionOf(unit, lines, flags))
<1>1. IsCode(buffer) /\ Fits(buffer, Used(lines, flags)) /\ AtTargets(positions, buffer)
  BY DEF IsBuffer
<1> HIDE DEF buffer, positions
<1>2. Retargeted(own, buffer)
  BY <1>1, CalculatedRetargets DEF OwnCode, buffer, positions
<1> HIDE DEF own
<1>3. IsCode(own) /\ Fits(own, Used(lines, flags))
  BY <1>1, <1>2, RetargetedCode
<1>. QED
  BY <1>2, <1>3 DEF IsOwn, own, buffer

-----------------------------------------------------------------------------
(***************************************************************************)
(* The libraries behind it, and the image.                                 *)
(***************************************************************************)
Good(lib) ==
  /\ lib.size \in Nat /\ IsCode(lib.code) /\ Fits(lib.code, lib.size) /\ AtTargets(lib.jumps, lib.code)
  /\ IsTable(lib.functions)
GoodLibs(libs, m) == m \in Nat /\ DOMAIN libs = 1..m /\ \A l \in 1..m : Good(libs[l])
LibrarySizes(libs) == [l \in DOMAIN libs |-> libs[l].size]
LibraryCode(lines, libs, flags) == WriteLibraries(libs, Used(lines, flags), LocalSize(lines, flags))

AreLinked(code, libs, m, start, link) ==
  LET at == Places(LibrarySizes(libs))
  IN /\ IsCode(code) /\ Fits(code, start + Total(LibrarySizes(libs))) /\ Total(LibrarySizes(libs)) \in Nat
     /\ \A l \in 1..m : \A p \in DOMAIN libs[l].code :
          /\ at[l - 1] \in Nat /\ start + at[l - 1] + p \in DOMAIN code
          /\ code[start + at[l - 1] + p] = Relocated(libs[l], link)[p]
     /\ \A o \in DOMAIN code : o >= start /\ \E l \in 1..m : \E p \in DOMAIN libs[l].code :
                                                 o = start + at[l - 1] + p
     /\ \A l \in 1..m : Retargeted(Relocated(libs[l], link), libs[l].code)
     /\ m = 0 => DOMAIN code = {}
     /\ m = 1 => Total(LibrarySizes(libs)) = libs[1].size /\ at[0] = 0

LEMMA LibrariesMade ==
  ASSUME NEW libs, NEW m, GoodLibs(libs, m), NEW start \in Nat, NEW link
  PROVE  AreLinked(WriteLibraries(libs, start, link), libs, m, start, link)
<1> DEFINE pieces == [l \in DOMAIN libs |-> [size |-> libs[l].size, code |-> Relocated(libs[l], link)]]
           code == WriteLibraries(libs, start, link) sizes == LibrarySizes(libs) at == Places(sizes)
<1>1. m \in Nat /\ DOMAIN libs = 1..m /\ \A l \in 1..m : Good(libs[l])
  BY DEF GoodLibs
<1>2. code = Written(pieces, start)
  BY DEF WriteLibraries
<1>3. /\ DOMAIN pieces = 1..m
      /\ \A l \in 1..m : pieces[l].size = libs[l].size /\ pieces[l].code = Relocated(libs[l], link)
  BY <1>1
<1>4. PieceSizes(pieces) = sizes
  BY <1>1 DEF PieceSizes, LibrarySizes
<1> HIDE DEF pieces, code, sizes, at
<1>5. ASSUME NEW l \in 1..m
      PROVE  /\ Retargeted(Relocated(libs[l], link), libs[l].code)
             /\ IsCode(pieces[l].code) /\ Fits(pieces[l].code, pieces[l].size) /\ pieces[l].size \in Nat
             /\ DOMAIN pieces[l].code = DOMAIN libs[l].code
  <2>1. IsCode(libs[l].code) /\ Fits(libs[l].code, libs[l].size) /\ AtTargets(libs[l].jumps, libs[l].code)
        /\ libs[l].size \in Nat
    BY <1>1 DEF Good
  <2>2. Retargeted(Relocated(libs[l], link), libs[l].code)
    BY <2>1, RelocatedRetargets
  <2>3. IsCode(Relocated(libs[l], link)) /\ Fits(Relocated(libs[l], link), libs[l].size)
    BY <2>1, <2>2, RetargetedCode
  <2>. QED
    BY <1>3, <2>1, <2>2, <2>3 DEF Retargeted
<1>6. ArePieces(pieces, m)
  BY <1>3, <1>5 DEF ArePieces
<1>7. /\ sizes \in Seq(Nat) /\ Len(sizes) = m /\ \A l \in 0..m : at[l] \in Nat
      /\ \A l \in 1..m : at[l] = at[l - 1] + pieces[l].size
      /\ at[0] = 0
  BY <1>1, <1>4, <1>6, PiecesPlaced DEF at
<1>8. Together(code, pieces, m, start)
  BY <1>1, <1>2, <1>5, <1>6, WrittenTogether
<1>9. /\ IsCode(code)
      /\ \A o \in DOMAIN code : \E l \in 1..m : \E p \in DOMAIN pieces[l].code :
           o = start + at[l - 1] + p /\ code[o] = pieces[l].code[p]
  BY <1>1, <1>2, <1>4, <1>6, WrittenFrom DEF at
<1>10. Fits(code, start + Total(sizes))
  BY <1>4, <1>8 DEF Together
<1>11. Total(sizes) \in Nat /\ Total(sizes) = at[m]
  BY <1>1, <1>7 DEF Total, at
<1>12. ASSUME NEW l \in 1..m, NEW p \in DOMAIN libs[l].code
       PROVE  /\ at[l - 1] \in Nat /\ start + at[l - 1] + p \in DOMAIN code
              /\ code[start + at[l - 1] + p] = Relocated(libs[l], link)[p]
  <2>1. l - 1 \in 0..m
    BY <1>1
  <2>2. p \in DOMAIN pieces[l].code
    BY <1>5
  <2>. QED
    BY <1>3, <1>4, <1>7, <1>8, <2>1, <2>2 DEF Together, at
<1>13. ASSUME NEW o \in DOMAIN code
       PROVE  o >= start /\ \E l \in 1..m : \E p \in DOMAIN libs[l].code : o = start + at[l - 1] + p
  <2>1. PICK l \in 1..m : \E p \in DOMAIN pieces[l].code : o = start + at[l - 1] + p
    BY <1>9
  <2>2. PICK p \in DOMAIN pieces[l].code : o = start + at[l - 1] + p
    BY <2>1
  <2>3. p \in Nat /\ l - 1 \in 0..m
    BY <1>1, <1>5 DEF IsCode
  <2>4. at[l - 1] \in Nat
    BY <1>7, <2>3
  <2>5. o >= start
    BY <2>2, <2>3, <2>4
  <2>6. p \in DOMAIN libs[l].code
    BY <1>5
  <2>. QED
    BY <2>2, <2>5, <2>6
<1>14. m = 0 => DOMAIN code = {}
  <2>1. m = 0 => 1..m = {}
    BY <1>1
  <2>. QED
    BY <1>13, <2>1
<1>15. m = 1 => Total(sizes) = libs[1].size /\ at[0] = 0
  <2>1. ASSUME m = 1
        PROVE  at[1] = libs[1].size
    <3>1. at[1] = at[1 - 1] + pieces[1].size /\ 1 - 1 = 0 /\ pieces[1].size \in Nat
      BY <1>5, <1>7, <2>1
    <3>. QED
      BY <1>3, <1>7, <2>1, <3>1
  <2>. QED
    BY <1>7, <1>11, <2>1
<1>. QED
  BY <1>5, <1>9, <1>10, <1>11, <1>12, <1>13, <1>14, <1>15 DEF AreLinked, code, sizes, at

\* The code of an image is that of the file and that of the libraries.
IsImage(written, unit, lines, libs, m, flags) ==
  LET own == OwnCode(unit, lines, libs, flags)
      linked == LibraryCode(lines, libs, flags)
  IN /\ IsOwn(unit, lines, libs, flags)
     /\ AreLinked(linked, libs, m, Used(lines, flags), LocalSize(lines, flags))
     /\ DOMAIN written.code = DOMAIN own \cup DOMAIN linked
     /\ \A o \in DOMAIN own : written.code[o] = own[o] /\ o < Used(lines, flags)
     /\ \A o \in DOMAIN linked : written.code[o] = linked[o] /\ o >= Used(lines, flags)
     /\ IsCode(written.code) /\ Fits(written.code, Used(lines, flags) + Total(LibrarySizes(libs)))
     /\ written.size = LocalSize(lines, flags) + Total(LibrarySizes(libs))
     /\ flags.as_lib => AtTargets(written.jumps, written.code)

LEMMA UsedIsNat ==
  ASSUME NEW unit, NEW lines, NEW flags, IsSection(unit, lines, flags)
  PROVE  Used(lines, flags) \in Nat
BY DEF IsSection

LEMMA ImageMade ==
  ASSUME NEW unit, NEW lines, NEW libs, NEW m, NEW flags, GoodLibs(libs, m),
         IsSection(unit, lines, flags), IsBuffer(unit, lines, flags), Succeeded(unit, lines, libs, flags)
  PROVE  IsImage(Generate(unit, lines, libs, flags).image, unit, lines, libs, m, flags)
<1> DEFINE written == Generate(unit, lines, libs, flags).image
           own == OwnCode(unit, lines, libs, flags) linked == LibraryCode(lines, libs, flags)
           section == SectionOf(unit, lines, flags) used == Used(lines, flags)
           size == used + Total(LibrarySizes(libs))
<1>1. used \in Nat /\ PieceSizes(section) = SectionSizes(AllBodies(lines, flags))
  BY DEF IsSection
<1>2. written = Image(libs, flags, GatherBlocks(lines), FunctionsOf(lines, flags), LinkedTo(lines, libs, flags),
                    LocalSize(lines, flags), BytesOf(lines, libs, flags), section, BufferOf(unit, lines, flags))
  BY DEF Succeeded
<1>3. Total([k \in DOMAIN section |-> section[k].size]) = used
  BY <1>1 DEF PieceSizes, Used
<1>4. /\ written.size = BytesOf(lines, libs, flags)
      /\ written.code = [o \in DOMAIN own \cup DOMAIN linked |-> IF o \in DOMAIN own THEN own[o] ELSE linked[o]]
      /\ written.jumps = IF flags.as_lib THEN RecordedJumps(section) ELSE {}
  <2> DEFINE r(a, b, c, d, e) == [blocks |-> a, functions |-> b, size |-> c, code |-> d, jumps |-> e]
             libraries == WriteLibraries(libs, Total([k \in DOMAIN section |-> section[k].size]), LocalSize(lines, flags))
             code == [o \in DOMAIN own \cup DOMAIN libraries |-> IF o \in DOMAIN own THEN own[o] ELSE libraries[o]]
  <2>1. \E a, b : written = r(a, b, BytesOf(lines, libs, flags), code,
                            IF flags.as_lib THEN RecordedJumps(section) ELSE {})
    BY <1>2 DEF Image, OwnCode, AbsolutePositions, RecordedJumps
  <2>2. libraries = linked
    BY <1>3 DEF LibraryCode
  <2> HIDE DEF written, own, linked, section, libraries
  <2>3. PICK a, b : written = r(a, b, BytesOf(lines, libs, flags), code,
                              IF flags.as_lib THEN RecordedJumps(section) ELSE {})
    BY <2>1
  <2>. QED
    BY <2>2, <2>3
<1> HIDE DEF written, own, linked, section, used
<1>5. /\ IsOwn(unit, lines, libs, flags) /\ IsCode(own) /\ Fits(own, used)
      /\ Retargeted(own, BufferOf(unit, lines, flags))
  BY OwnMade DEF IsOwn, own, used
<1>6. AreLinked(linked, libs, m, used, LocalSize(lines, flags))
  BY <1>1, LibrariesMade DEF LibraryCode, linked, used
<1>7. /\ IsCode(linked) /\ Fits(linked, size) /\ \A o \in DOMAIN linked : o >= used
      /\ Total(LibrarySizes(libs)) \in Nat
  BY <1>6 DEF AreLinked
<1>8. ASSUME NEW o \in DOMAIN own
      PROVE  /\ o \in Nat /\ EmittedSize(own[o]) \in Nat /\ EmittedSize(own[o]) >= 1
             /\ o + EmittedSize(own[o]) <= used /\ o < used
  <2>1. o \in Nat /\ EmittedSize(own[o]) \in Nat /\ EmittedSize(own[o]) >= 1
    BY <1>5, CodeSized
  <2>2. o + EmittedSize(own[o]) <= used
    BY <1>5 DEF Fits
  <2>. QED
    BY <1>1, <2>1, <2>2
<1>9. ASSUME NEW o \in DOMAIN linked
      PROVE  o \in Nat /\ o \notin DOMAIN own
  <2>1. o \in Nat /\ o >= used
    BY <1>7 DEF IsCode
  <2>. QED
    BY <1>1, <1>8, <2>1
<1>10. /\ DOMAIN written.code = DOMAIN own \cup DOMAIN linked
       /\ \A o \in DOMAIN own : written.code[o] = own[o]
       /\ \A o \in DOMAIN linked : written.code[o] = linked[o]
  BY <1>4, <1>9
<1>11. IsCode(written.code)
  BY <1>5, <1>7, <1>10 DEF IsCode
<1>12. Fits(written.code, size)
  <2>1. ASSUME NEW o \in DOMAIN written.code
        PROVE  o + EmittedSize(written.code[o]) <= size
    <3>1. CASE o \in DOMAIN own
      BY <1>1, <1>7, <1>8, <1>10, <3>1
    <3>2. CASE o \in DOMAIN linked
      BY <1>7, <1>10, <3>2 DEF Fits
    <3>. QED
      BY <1>10, <3>1, <3>2
  <2>2. ASSUME NEW o \in DOMAIN written.code, NEW p \in DOMAIN written.code, p > o
        PROVE  p >= o + EmittedSize(written.code[o])
    <3>1. CASE o \in DOMAIN own /\ p \in DOMAIN own
      BY <1>5, <1>10, <2>2, <3>1 DEF Fits
    <3>2. CASE o \in DOMAIN linked /\ p \in DOMAIN linked
      BY <1>7, <1>10, <2>2, <3>2 DEF Fits
    <3>3. CASE o \in DOMAIN own /\ p \in DOMAIN linked
      <4>1. p >= used /\ p \in Nat
        BY <1>7, <1>9, <3>3
      <4>. QED
        BY <1>1, <1>8, <1>10, <3>3, <4>1
    <3>4. CASE o \in DOMAIN linked /\ p \in DOMAIN own
      <4>1. o >= used /\ o \in Nat
        BY <1>7, <1>9, <3>4
      <4>2. p < used /\ p \in Nat
        BY <1>8, <3>4
      <4>. QED
        BY <1>1, <2>2, <4>1, <4>2
    <3>. QED
      BY <1>10, <3>1, <3>2, <3>3, <3>4
  <2>. QED
    BY <2>1, <2>2 DEF Fits
<1>13. ASSUME flags.as_lib
       PROVE  AtTargets(written.jumps, written.code)
  <2> DEFINE buffer == BufferOf(unit, lines, flags)
  <2>1. AtTargets(written.jumps, buffer)
    BY <1>4, <1>13 DEF IsBuffer, section
  <2>2. IsCode(buffer) /\ Retargeted(own, buffer)
    BY <1>5 DEF IsBuffer
  <2> HIDE DEF buffer
  <2>3. ASSUME NEW o \in DOMAIN buffer
        PROVE  /\ o \in DOMAIN written.code /\ written.code[o] = own[o] /\ own[o].op = buffer[o].op
               /\ \A i \in Fields(buffer[o].op) : FieldOffset(own[o], i) = FieldOffset(buffer[o], i)
    <3>1. o \in DOMAIN own /\ Alike(own[o], buffer[o])
      BY <2>2 DEF Retargeted
    <3>. QED
      BY <1>10, <3>1, AlikeSizes DEF Alike
  <2>4. ASSUME NEW q \in written.jumps
        PROVE  \E o \in DOMAIN written.code : \E i \in Fields(written.code[o].op) :
                 Layout[written.code[o].op][i] = "target" /\ q = o + FieldOffset(written.code[o], i)
    <3>1. PICK o \in DOMAIN buffer : \E i \in Fields(buffer[o].op) :
             Layout[buffer[o].op][i] = "target" /\ q = o + FieldOffset(buffer[o], i)
      BY <2>1 DEF AtTargets
    <3>. QED
      BY <2>3, <3>1
  <2>. QED
    BY <2>4 DEF AtTargets
<1>14. written.size = LocalSize(lines, flags) + Total(LibrarySizes(libs))
  BY <1>4 DEF BytesOf, LibrarySizes
<1>. QED
  BY <1>5, <1>6, <1>7, <1>8, <1>10, <1>11, <1>12, <1>13, <1>14 DEF IsImage, written, own, linked, used

-----------------------------------------------------------------------------
(***************************************************************************)
(* The tables of an image.                                                 *)
(***************************************************************************)
BlockPlaces(lines) ==
  LET blocks == GatherBlocks(lines)
  IN Places([k \in DOMAIN blocks.names |-> CountBytes(blocks.bodies[blocks.names[k]])])
BlockBytes(lines) ==
  LET blocks == GatherBlocks(lines)
  IN Total([k \in DOMAIN blocks.names |-> CountBytes(blocks.bodies[blocks.names[k]])])
FunctionPlaces(lines, flags) ==
  LET functions == FunctionsOf(lines, flags)
  IN Places([k \in DOMAIN functions.names |-> CountBytes(functions.bodies[functions.names[k]])])
HasTables(written, lines, libs, flags) ==
  LET functions == FunctionsOf(lines, flags)
      blocks == GatherBlocks(lines)
      linked == LinkedTo(lines, libs, flags)
      n == Len(functions.names)
  IN /\ n \in Nat /\ DOMAIN functions.names = 1..n /\ Len(linked) \in Nat /\ DOMAIN linked = 1..Len(linked)
     /\ DOMAIN written.functions = 1..(n + Len(linked))
     /\ \A i \in 1..n : written.functions[i] = <<functions.names[i], BlockBytes(lines) + FunctionPlaces(lines, flags)[i - 1]>>
     /\ \A i \in 1..Len(linked) :
          written.functions[n + i] = <<linked[i][1], AddressIn(linked, linked[i][1])>>
     /\ DOMAIN written.blocks = DOMAIN blocks.names
     /\ \A i \in DOMAIN blocks.names : written.blocks[i] = <<blocks.names[i], 0 + BlockPlaces(lines)[i - 1]>>

LEMMA TablesMade ==
  ASSUME NEW unit, NEW lines, IsFile(lines), NEW libs, NEW m, NEW flags, GoodLibs(libs, m),
         AllOwn(lines, libs, flags), Succeeded(unit, lines, libs, flags)
  PROVE  HasTables(Generate(unit, lines, libs, flags).image, lines, libs, flags)
<1> DEFINE written == Generate(unit, lines, libs, flags).image
           functions == FunctionsOf(lines, flags) blocks == GatherBlocks(lines)
           linked == LinkedTo(lines, libs, flags) link == LocalSize(lines, flags)
           bytes == BytesOf(lines, libs, flags) section == SectionOf(unit, lines, flags)
           buffer == BufferOf(unit, lines, flags)
           n == Len(functions.names) c == Len(linked)
           own == [i \in DOMAIN functions.names |->
                     <<functions.names[i], BlockBytes(lines) + FunctionPlaces(lines, flags)[i - 1]>>]
           foreign == [i \in DOMAIN linked |-> <<linked[i][1], AddressIn(linked, linked[i][1])>>]
           table == [i \in DOMAIN blocks.names |-> <<blocks.names[i], 0 + BlockPlaces(lines)[i - 1]>>]
<1>1. n \in Nat /\ DOMAIN functions.names = 1..n
  <2>1. functions.names \in Seq(ToSet(functions.names))
    BY FunctionsGathered
  <2>. QED
    BY <2>1
<1>2. c \in Nat /\ DOMAIN linked = 1..c
  <2>1. m \in Nat /\ DOMAIN libs = 1..m /\ \A l \in 1..m : IsTable(libs[l].functions)
    BY DEF GoodLibs, Good
  <2>. QED
    BY <2>1, LinkedNames DEF LinkedTo
<1>3. written = Image(libs, flags, blocks, functions, linked, link, bytes, section, buffer)
  BY DEF Succeeded
<1>4. written.functions = own \o foreign /\ written.blocks = table
  <2> DEFINE r(a, b, u, d, e) == [blocks |-> a, functions |-> b, size |-> u, code |-> d, jumps |-> e]
  <2>1. LocalNames(functions, linked) = functions.names
    BY DEF AllOwn
  <2>2. \E u, d, e : written = r(table, own \o foreign, u, d, e)
    BY <1>3, <2>1 DEF Image, AddressTable, BlockBytes, FunctionPlaces, BlockPlaces
  <2> HIDE DEF written, own, foreign, table
  <2>. QED
    BY <2>2
<1>5. /\ own = [i \in 1..n |-> own[i]] /\ foreign = [i \in 1..c |-> foreign[i]]
      /\ \A i \in 1..n : own[i] = <<functions.names[i], BlockBytes(lines) + FunctionPlaces(lines, flags)[i - 1]>>
      /\ \A i \in 1..c : foreign[i] = <<linked[i][1], AddressIn(linked, linked[i][1])>>
      /\ DOMAIN table = DOMAIN blocks.names
      /\ \A i \in DOMAIN blocks.names : table[i] = <<blocks.names[i], 0 + BlockPlaces(lines)[i - 1]>>
  <2> HIDE DEF functions, linked, n, c, blocks
  <2>. QED
    BY <1>1, <1>2
<1> HIDE DEF written, own, foreign, table, functions, linked, n, c, blocks
<1>6. /\ DOMAIN (own \o foreign) = 1..(n + c)
      /\ \A k \in 1..n : (own \o foreign)[k] = own[k]
      /\ \A k \in 1..c : (own \o foreign)[n + k] = foreign[k]
  BY <1>1, <1>2, <1>5, Joined
<1>7. /\ n \in Nat /\ DOMAIN functions.names = 1..n /\ c \in Nat /\ DOMAIN linked = 1..c
      /\ DOMAIN written.functions = 1..(n + c)
      /\ \A i \in 1..n : written.functions[i] = <<functions.names[i], BlockBytes(lines) + FunctionPlaces(lines, flags)[i - 1]>>
      /\ \A i \in 1..c : written.functions[n + i] = <<linked[i][1], AddressIn(linked, linked[i][1])>>
      /\ DOMAIN written.blocks = DOMAIN blocks.names
      /\ \A i \in DOMAIN blocks.names : written.blocks[i] = <<blocks.names[i], 0 + BlockPlaces(lines)[i - 1]>>
  BY <1>1, <1>2, <1>4, <1>5, <1>6
<1>. QED
  BY <1>7 DEF HasTables, written, functions, linked, n, c, blocks

\* The names Loader finds are those of the file and those it links.
LEMMA LoadedNames ==
  ASSUME NEW written, NEW lines, NEW libs, NEW flags, HasTables(written, lines, libs, flags)
  PROVE  LET loader == LoadMap(written.functions)
         IN /\ IsTable(loader)
            /\ ToSet(loader.order) = ToSet(FunctionsOf(lines, flags).names) \cup NamesIn(LinkedTo(lines, libs, flags))
            /\ DOMAIN loader.mapping = ToSet(loader.order)
<1> DEFINE loader == LoadMap(written.functions) names == FunctionsOf(lines, flags).names
           linked == LinkedTo(lines, libs, flags) n == Len(names) c == Len(linked) t == written.functions
<1>1. /\ n \in Nat /\ DOMAIN names = 1..n /\ c \in Nat /\ DOMAIN linked = 1..c
      /\ DOMAIN t = 1..(n + c)
      /\ \A i \in 1..n : t[i][1] = names[i]
      /\ \A i \in 1..c : t[n + i][1] = linked[i][1]
  BY Pairs DEF HasTables
<1>2. loader.order = [i \in DOMAIN t |-> t[i][1]] /\ DOMAIN loader.mapping = {t[i][1] : i \in DOMAIN t}
  BY DEF LoadMap
<1> HIDE DEF loader, names, linked, n, c, t
<1>3. PICK e : e = n + c
  OBVIOUS
<1>4. e \in Nat /\ loader.order = [i \in 1..e |-> t[i][1]] /\ Len(loader.order) = e
      /\ DOMAIN loader.order = 1..e
  BY <1>1, <1>2, <1>3
<1>5. ToSet(loader.order) = {t[i][1] : i \in 1..e}
  <2>1. \A i \in 1..e : loader.order[i] = t[i][1]
    BY <1>4
  <2>2. \A x : x \in ToSet(loader.order) <=> x \in {t[i][1] : i \in 1..e}
    BY <1>4, <2>1 DEF ToSet
  <2>. QED
    BY <2>2
<1>6. loader.order \in Seq(ToSet(loader.order))
  <2>1. \A i \in 1..e : t[i][1] \in ToSet(loader.order)
    BY <1>5
  <2>2. loader.order \in [1..e -> ToSet(loader.order)]
    BY <1>4, <2>1
  <2>. QED
    BY <1>4, <2>2
<1>7. {t[i][1] : i \in 1..e} = ToSet(names) \cup NamesIn(linked)
  <2>1. ASSUME NEW i \in 1..e
        PROVE  t[i][1] \in ToSet(names) \cup NamesIn(linked)
    <3>1. CASE i \in 1..n
      BY <1>1, <3>1 DEF ToSet
    <3>2. CASE i \notin 1..n
      <4>1. PICK j : j = i - n
        OBVIOUS
      <4>2. j \in 1..c /\ i = n + j
        BY <1>1, <1>3, <3>2, <4>1
      <4>3. t[n + j][1] = linked[j][1]
        BY <1>1, <4>2
      <4>. QED
        BY <1>1, <4>2, <4>3 DEF NamesIn
    <3>. QED
      BY <3>1, <3>2
  <2>2. ASSUME NEW i \in 1..n
        PROVE  names[i] \in {t[j][1] : j \in 1..e}
    <3>1. i \in 1..e
      BY <1>1, <1>3
    <3>. QED
      BY <1>1, <3>1
  <2>3. ASSUME NEW i \in 1..c
        PROVE  linked[i][1] \in {t[j][1] : j \in 1..e}
    <3>1. PICK j : j = n + i
      OBVIOUS
    <3>2. j \in 1..e
      BY <1>1, <1>3, <3>1
    <3>3. t[j][1] = linked[i][1]
      BY <1>1, <3>1
    <3>. QED
      BY <3>2, <3>3
  <2>4. ToSet(names) \subseteq {t[i][1] : i \in 1..e}
    BY <1>1, <2>2 DEF ToSet
  <2>5. NamesIn(linked) \subseteq {t[i][1] : i \in 1..e}
    BY <1>1, <2>3 DEF NamesIn
  <2>6. {t[i][1] : i \in 1..e} \subseteq ToSet(names) \cup NamesIn(linked)
    BY <2>1
  <2>. QED
    BY <2>4, <2>5, <2>6
<1>. QED
  BY <1>1, <1>2, <1>3, <1>5, <1>6, <1>7 DEF IsTable, loader, names, linked

-----------------------------------------------------------------------------
(***************************************************************************)
(* The bodies of a file take what is counted for their lines.              *)
(***************************************************************************)
LineSizes(lines) == [i \in DOMAIN lines |-> CountedSize(lines[i])]

LEMMA LineSized ==
  ASSUME NEW line, IsDirective(line) \/ line.op \in DOMAIN OpSize
  PROVE  CountedSize(line) \in Nat /\ (IsDirective(line) => CountedSize(line) = 0)
<1>1. ASSUME NEW op \in DOMAIN OpSize
      PROVE  OpSize[op] \in Nat
  BY SizeTable DEF Gives, Only
<1>2. \A names : SizeOfNames(names) \in Nat
  BY TextSizes DEF SizeOfNames
<1>. QED
  BY <1>1, <1>2 DEF CountedSize

LEMMA LinesSized ==
  ASSUME NEW lines, IsSequence(lines), Instructions(lines)
  PROVE  /\ LineSizes(lines) \in Seq(Nat) /\ Len(LineSizes(lines)) = Len(lines) /\ Len(lines) \in Nat
         /\ \A i \in 1..Len(lines) : /\ LineSizes(lines)[i] = CountedSize(lines[i])
                                     /\ IsDirective(lines[i]) => LineSizes(lines)[i] = 0
         /\ CountBytes(lines) = Total(LineSizes(lines)) /\ CountBytes(lines) \in Nat
<1> DEFINE n == Len(lines) sizes == LineSizes(lines)
<1>1. n \in Nat /\ DOMAIN lines = 1..n
  BY SequenceDomain
<1>2. \A i \in 1..n : CountedSize(lines[i]) \in Nat /\ (IsDirective(lines[i]) => CountedSize(lines[i]) = 0)
  BY <1>1, LineSized DEF Instructions
<1>3. sizes = [i \in 1..n |-> CountedSize(lines[i])]
  BY <1>1 DEF LineSizes
<1>4. sizes \in Seq(Nat) /\ Len(sizes) = n
  <2> HIDE DEF sizes, n
  <2>. QED
    BY <1>1, <1>2, <1>3
<1>5. CountBytes(lines) = Total(sizes)
  BY DEF CountBytes, LineSizes
<1>6. Total(sizes) \in Nat
  <2>1. Len(sizes) \in 0..Len(sizes)
    BY <1>1, <1>4
  <2> HIDE DEF sizes
  <2>. QED
    BY <1>4, <2>1, PlacesAdd DEF Total
<1>. QED
  BY <1>1, <1>2, <1>3, <1>4, <1>5, <1>6

\* The lines of one body.
LEMMA BodyMass ==
  ASSUME NEW lines, IsFile(lines), Instructions(lines), NEW o \in Opens(lines)
  PROVE  CountBytes(BodyLines(lines, o)) = Mass(LineSizes(lines), Slice(lines, o))
<1> DEFINE n == Len(lines) sizes == LineSizes(lines) c == Closing(lines, o) b == BodyLines(lines, o)
<1>1. sizes \in Seq(Nat) /\ Len(sizes) = n /\ n \in Nat /\ \A i \in 1..n : sizes[i] = CountedSize(lines[i])
  BY LinesSized DEF IsFile
<1>2. /\ o \in Nat /\ o >= 1 /\ DOMAIN lines = 1..n /\ c <= n /\ c > o /\ c \in Nat
      /\ Len(b) = c - o - 1 /\ DOMAIN b = 1..Len(b)
      /\ \A k \in 1..Len(b) : b[k] = lines[o + k] /\ o + k \in DOMAIN lines
  BY SliceLines, ClosingLine DEF Closes
<1> HIDE DEF sizes, c, b, n
<1>3. [k \in DOMAIN b |-> CountedSize(b[k])] = SubSeq(sizes, o + 1, c - 1)
  <2>1. SubSeq(sizes, o + 1, c - 1) = [k \in 1..(c - 1 - (o + 1) + 1) |-> sizes[k + (o + 1) - 1]]
    <3>1. c \in 1..n /\ o \in 1..n /\ n \in Nat /\ c > o
      BY <1>1, <1>2
    <3>. QED
      BY <3>1
  <2>2. c - 1 - (o + 1) + 1 = c - o - 1
    BY <1>2
  <2>3. \A k \in 1..(c - o - 1) : k + (o + 1) - 1 = o + k
    BY <1>2
  <2>4. \A k \in 1..(c - o - 1) : CountedSize(b[k]) = sizes[o + k]
    BY <1>1, <1>2
  <2>5. DOMAIN b = 1..(c - o - 1)
    BY <1>2
  <2>6. [k \in 1..(c - o - 1) |-> CountedSize(b[k])] = [k \in 1..(c - o - 1) |-> sizes[o + k]]
    BY <2>4
  <2>7. [k \in 1..(c - o - 1) |-> sizes[k + (o + 1) - 1]] = [k \in 1..(c - o - 1) |-> sizes[o + k]]
    BY <2>3
  <2>. QED
    BY <2>1, <2>2, <2>5, <2>6, <2>7
<1>4. PICK x : x = o + 1
  OBVIOUS
<1>5. PICK y : y = c - 1
  OBVIOUS
<1>6. x \in 1..(Len(sizes) + 1) /\ y \in (x - 1)..Len(sizes)
  BY <1>1, <1>2, <1>4, <1>5
<1>7. Total(SubSeq(sizes, x, y)) = Mass(sizes, x..y)
  BY <1>1, <1>6, SlicedTotal
<1>. QED
  BY <1>3, <1>4, <1>5, <1>7 DEF CountBytes, Slice, b, c, sizes

\* The lines of all bodies.
InBodies(lines) == UNION {Slice(lines, o) : o \in Opens(lines)}

LEMMA BodiesMass ==
  ASSUME NEW lines, IsFile(lines), ProperFile(lines), Instructions(lines), NEW flags, NEW unit,
         IsSection(unit, lines, flags)
  PROVE  LET c == Blocks(lines) + Functions(lines)
         IN /\ c \in Nat /\ c <= Count(lines, flags)
            /\ Starts(lines, flags)[c] = Mass(LineSizes(lines), InBodies(lines))
<1> DEFINE c == Blocks(lines) + Functions(lines)
           bodies == AllBodies(lines, flags)
           all == SectionSizes(bodies)
           sizes == LineSizes(lines)
           opening(k) == CHOOSE i \in Opens(lines) : Rank(lines, i) = k
           parts == [k \in 1..c |-> Slice(lines, opening(k))]
           own == [k \in 1..c |-> Mass(sizes, parts[k])]
<1>1. Bodied(bodies, lines, flags)
  BY BodiesOfFile
<1>2. c \in Nat /\ Count(lines, flags) = c + (IF flags.as_lib THEN 0 ELSE 1)
  BY <1>1 DEF Bodied, Count
<1>3. c <= Count(lines, flags)
  BY <1>2
<1>4. sizes \in Seq(Nat)
  BY LinesSized DEF IsFile
<1>5. ASSUME NEW k \in 1..c
      PROVE  opening(k) \in Opens(lines) /\ Rank(lines, opening(k)) = k
  BY <1>1, <1>5 DEF Bodied
<1> HIDE DEF opening
<1>6. ASSUME NEW i \in Opens(lines)
      PROVE  Rank(lines, i) \in 1..c
  BY <1>1, <1>6 DEF Bodied
<1>7. ASSUME NEW i \in Opens(lines), NEW j \in Opens(lines), Rank(lines, i) = Rank(lines, j)
      PROVE  i = j
  <2>1. BodyAt(bodies[Rank(lines, i)], lines, i) /\ BodyAt(bodies[Rank(lines, j)], lines, j)
    BY <1>1 DEF Bodied
  <2>2. lines[i].args[1] = lines[j].args[1]
    <3>1. bodies[Rank(lines, i)].name = lines[i].args[1]
      BY <2>1 DEF BodyAt
    <3>2. bodies[Rank(lines, j)].name = lines[j].args[1]
      BY <2>1 DEF BodyAt
    <3>. QED
      BY <1>7, <3>1, <3>2
  <2>. QED
    BY <2>2 DEF ProperFile
<1>8. \A j, k \in 1..c : j # k => parts[j] \cap parts[k] = {}
  <2>1. ASSUME NEW i \in Opens(lines), NEW j \in Opens(lines), i < j
        PROVE  Slice(lines, i) \cap Slice(lines, j) = {}
    <3>1. Closing(lines, i) < j /\ Closing(lines, i) \in Nat /\ Closing(lines, j) \in Nat /\ i \in Nat /\ j \in Nat
      BY <2>1, SlicesApart, SliceLines, ClosingLine DEF Closes
    <3>. QED
      BY <3>1 DEF Slice
  <2>2. ASSUME NEW j \in 1..c, NEW k \in 1..c, j # k
        PROVE  parts[j] \cap parts[k] = {}
    <3>1. opening(j) \in Opens(lines) /\ opening(k) \in Opens(lines) /\ opening(j) # opening(k)
      BY <1>5, <2>2
    <3>2. opening(j) \in Nat /\ opening(k) \in Nat
      BY <3>1, SliceLines
    <3>3. opening(j) < opening(k) \/ opening(k) < opening(j)
      BY <3>1, <3>2
    <3>4. Slice(lines, opening(j)) \cap Slice(lines, opening(k)) = {}
      BY <2>1, <3>1, <3>3
    <3>. QED
      BY <3>4
  <2>. QED
    BY <2>2
<1>9. Total(own) = Mass(sizes, UNION {parts[k] : k \in 1..c})
  <2> HIDE DEF parts, sizes, c
  <2>. QED
    BY <1>2, <1>4, <1>8, PartsAdd
<1>10. UNION {parts[k] : k \in 1..c} = InBodies(lines)
  <2>1. ASSUME NEW x, x \in InBodies(lines)
        PROVE  x \in UNION {parts[k] : k \in 1..c}
    <3>1. PICK i \in Opens(lines) : x \in Slice(lines, i)
      BY <2>1 DEF InBodies
    <3>2. opening(Rank(lines, i)) = i /\ Rank(lines, i) \in 1..c
      BY <1>5, <1>6, <1>7
    <3>3. parts[Rank(lines, i)] = Slice(lines, i)
      BY <3>2
    <3> HIDE DEF parts, c
    <3>. QED
      BY <3>1, <3>2, <3>3
  <2>2. ASSUME NEW k \in 1..c
        PROVE  parts[k] \subseteq InBodies(lines)
    BY <1>5 DEF InBodies
  <2> HIDE DEF parts
  <2>. QED
    BY <2>1, <2>2
<1>11. ASSUME NEW k \in 1..c
       PROVE  own[k] = all[k] /\ own[k] \in Nat
  <2>1. PICK i \in Opens(lines) : i = opening(k)
    BY <1>5
  <2>2. Rank(lines, i) = k /\ BodyAt(bodies[k], lines, i)
    BY <1>1, <1>5, <2>1 DEF Bodied
  <2>3. bodies[k].lines = BodyLines(lines, i) /\ bodies[k].name # EntryFunctionName
    BY <2>2 DEF BodyAt, ProperFile
  <2>4. BodySize(bodies[k]) = CountBytes(BodyLines(lines, i))
    BY <2>3 DEF BodySize
  <2>5. own[k] = Mass(sizes, Slice(lines, i))
    BY <2>1
  <2>6. all[k] = BodySize(bodies[k])
    <3>1. k \in DOMAIN bodies
      BY <1>1, <1>2 DEF Bodied
    <3>. QED
      BY <3>1 DEF SectionSizes
  <2>7. Mass(sizes, Slice(lines, i)) \in Nat
    BY <1>4, MaskedSizes
  <2>. QED
    BY <2>4, <2>5, <2>6, <2>7, BodyMass
<1>12. own \in Seq(Nat) /\ Len(own) = c
  <2>1. own = [k \in 1..c |-> own[k]]
    OBVIOUS
  <2> HIDE DEF own, c
  <2>. QED
    BY <1>2, <1>11, <2>1
<1>13. all \in Seq(Nat) /\ Len(all) = Count(lines, flags)
  BY DEF IsSection
<1>14. Places(own)[c] = Places(all)[c]
  <2> HIDE DEF own, all, c
  <2>1. c <= Len(own) /\ c <= Len(all) /\ c \in 0..c
    BY <1>2, <1>3, <1>12, <1>13
  <2>. QED
    BY <1>2, <1>11, <1>12, <1>13, <2>1, SameBeginning
<1>15. Starts(lines, flags)[c] = Places(all)[c]
  BY DEF Starts
<1>16. Total(own) = Places(own)[c]
  BY <1>12 DEF Total
<1>. QED
  BY <1>2, <1>3, <1>9, <1>10, <1>14, <1>15, <1>16

-----------------------------------------------------------------------------
(***************************************************************************)
(* The entry function: what it keeps of the file, and its size.            *)
(***************************************************************************)
Made(line, op) == \E args : line = Line(op, args)

LEMMA EntryMade ==
  ASSUME NEW lines, IsFile(lines), NEW main
  PROVE  LET E == EntryBody(lines, main) m == Len(lines)
         IN /\ m \in Nat /\ DOMAIN E = 1..(m + 6) /\ Len(E) = m + 6 /\ IsSequence(E) /\ DOMAIN lines = 1..m
            /\ Made(E[1], "ress") /\ Made(E[m + 2], "frame") /\ Made(E[m + 3], "param")
            /\ \E reg : E[m + 4] = Line("call", <<reg, main>>)
            /\ Made(E[m + 5], "move") /\ Made(E[m + 6], "halt")
            /\ \A i \in 1..m : E[1 + i] = lines[i]
<1> DEFINE E == EntryBody(lines, main) m == Len(lines)
<1>1. IsSequence(lines)
  BY DEF IsFile
<1>2. m \in Nat /\ DOMAIN lines = 1..m
  BY <1>1, SequenceDomain
<1>3. /\ DOMAIN E = 1..(m + 6) /\ Len(E) = m + 6 /\ IsSequence(E)
      /\ E[1] = Line("ress", <<"local">>)
      /\ \A i \in 1..m : E[1 + i] = lines[i]
      /\ E[m + 2] = Line("frame", << <<"", 1>> >>)
      /\ E[m + 3] = Line("param", << <<"", 0>>, <<"", 1>> >>)
      /\ E[m + 4] = Line("call", << <<"", 1>>, main>>)
      /\ E[m + 5] = Line("move", << <<"", 0>>, <<"", 1>> >>)
      /\ E[m + 6] = Line("halt", <<>>)
  BY <1>1, EntryLines
<1>4. \A op, args : Made(Line(op, args), op)
  BY DEF Made
<1> HIDE DEF E, m
<1>5. /\ Made(E[1], "ress") /\ Made(E[m + 2], "frame") /\ Made(E[m + 3], "param")
      /\ \E reg : E[m + 4] = Line("call", <<reg, main>>)
      /\ Made(E[m + 5], "move") /\ Made(E[m + 6], "halt")
  BY <1>3, <1>4, Zenon
<1>. QED
  BY <1>2, <1>3, <1>5 DEF E, m

LEMMA EntryMnemonics ==
  ASSUME NEW lines, IsFile(lines), NEW main
  PROVE  LET E == EntryBody(lines, main) m == Len(lines)
         IN /\ m \in Nat /\ DOMAIN E = 1..(m + 6) /\ DOMAIN lines = 1..m
            /\ E[1].op = "ress" /\ E[m + 2].op = "frame" /\ E[m + 3].op = "param" /\ E[m + 4].op = "call"
            /\ E[m + 5].op = "move" /\ E[m + 6].op = "halt"
            /\ \A i \in 1..m : E[1 + i] = lines[i]
<1> DEFINE E == EntryBody(lines, main) m == Len(lines)
<1>1. \A line, op : Made(line, op) => line.op = op
  BY DEF Made, Line
<1>2. /\ m \in Nat /\ DOMAIN E = 1..(m + 6) /\ DOMAIN lines = 1..m
      /\ Made(E[1], "ress") /\ Made(E[m + 2], "frame") /\ Made(E[m + 3], "param")
      /\ \E reg : E[m + 4] = Line("call", <<reg, main>>)
      /\ Made(E[m + 5], "move") /\ Made(E[m + 6], "halt")
      /\ \A i \in 1..m : E[1 + i] = lines[i]
  BY EntryMade
<1>3. Made(E[m + 4], "call")
  BY <1>2 DEF Made
<1> HIDE DEF E, m
<1>. QED
  BY <1>1, <1>2, <1>3 DEF E, m

LEMMA ShiftedClosing ==
  ASSUME NEW lines, IsFile(lines), NEW main, NEW o \in Opens(lines)
  PROVE  Closing(EntryBody(lines, main), o + 1) = Closing(lines, o) + 1
<1> DEFINE E == EntryBody(lines, main) m == Len(lines) c == Closing(lines, o)
           S == {j \in DOMAIN E : j > o + 1 /\ E[j].op = ".end"}
<1>1. /\ m \in Nat /\ DOMAIN E = 1..(m + 6)
      /\ E[1].op = "ress" /\ E[m + 2].op = "frame" /\ E[m + 3].op = "param" /\ E[m + 4].op = "call"
      /\ E[m + 5].op = "move" /\ E[m + 6].op = "halt"
      /\ \A i \in 1..m : E[1 + i] = lines[i]
  BY EntryMnemonics
<1>2. DOMAIN lines = 1..m /\ o \in 1..m
  BY SequenceDomain DEF IsFile, Opens
<1>3. /\ c \in 1..m /\ c > o /\ lines[c].op = ".end"
      /\ \A j \in (o + 1)..(c - 1) : lines[j].op # ".end"
  BY <1>2, ClosingLine DEF Closes
<1> HIDE DEF E, c
<1>4. c + 1 \in S
  <2>1. c + 1 \in 1..(m + 6) /\ c + 1 > o + 1 /\ 1 + c = c + 1
    BY <1>1, <1>2, <1>3
  <2>. QED
    BY <1>1, <1>3, <2>1
<1>5. ASSUME NEW j \in S
      PROVE  c + 1 <= j
  <2>1. j \in 1..(m + 6) /\ j > o + 1 /\ E[j].op = ".end"
    BY <1>1
  <2>2. j \in 2..(m + 1)
    <3>1. j # 1 /\ j # m + 2 /\ j # m + 3 /\ j # m + 4 /\ j # m + 5 /\ j # m + 6
      BY <1>1, <2>1
    <3>. QED
      BY <1>1, <2>1, <3>1
  <2>3. j - 1 \in 1..m /\ 1 + (j - 1) = j
    BY <1>1, <2>2
  <2>4. lines[j - 1].op = ".end"
    BY <1>1, <2>1, <2>3
  <2>5. j - 1 \notin (o + 1)..(c - 1)
    BY <1>3, <2>4
  <2>. QED
    BY <1>1, <1>2, <1>3, <2>1, <2>3, <2>5
<1>6. S \in SUBSET Nat
  BY <1>1
<1>7. Min(S) \in S /\ \A j \in S : Min(S) <= j
  BY <1>4, <1>6, MinIsLeast
<1>8. Min(S) = c + 1
  <2>1. Min(S) <= c + 1 /\ c + 1 <= Min(S) /\ Min(S) \in Nat /\ c + 1 \in Nat
    BY <1>3, <1>4, <1>5, <1>6, <1>7
  <2> HIDE DEF S
  <2>. QED
    BY <2>1
<1>. QED
  BY <1>8 DEF Closing, E, c

LEMMA ShiftedWithin ==
  ASSUME NEW lines, IsFile(lines), NEW main, NEW d \in {".function:", ".block:", ".class:"},
         NEW x \in 1..(Len(lines) + 6)
  PROVE  Within(EntryBody(lines, main), x, d) <=> x - 1 \in 1..Len(lines) /\ Within(lines, x - 1, d)
<1> DEFINE E == EntryBody(lines, main) m == Len(lines)
<1>1. /\ m \in Nat /\ DOMAIN E = 1..(m + 6)
      /\ E[1].op = "ress" /\ E[m + 2].op = "frame" /\ E[m + 3].op = "param" /\ E[m + 4].op = "call"
      /\ E[m + 5].op = "move" /\ E[m + 6].op = "halt"
      /\ \A i \in 1..m : E[1 + i] = lines[i]
  BY EntryMnemonics
<1>2. DOMAIN lines = 1..m
  BY SequenceDomain DEF IsFile
<1> HIDE DEF E
<1>3. ASSUME NEW j \in 1..(m + 6), E[j].op = d
      PROVE  /\ j - 1 \in Opens(lines) /\ lines[j - 1].op = d /\ j - 1 \in 1..m
             /\ Closing(E, j) = Closing(lines, j - 1) + 1 /\ Closing(lines, j - 1) \in 1..m
  <2>1. j # 1 /\ j # m + 2 /\ j # m + 3 /\ j # m + 4 /\ j # m + 5 /\ j # m + 6
    BY <1>1, <1>3
  <2>2. j - 1 \in 1..m /\ 1 + (j - 1) = j /\ (j - 1) + 1 = j
    <3>1. j \in 2..(m + 1)
      <4>1. m \in Nat /\ j \in 1..(m + 6)
        BY <1>1, <1>3
      <4>. QED
        BY <2>1, <4>1
    <3>. QED
      BY <1>1, <3>1
  <2>3. lines[j - 1].op = d
    BY <1>1, <1>3, <2>2
  <2>4. j - 1 \in Opens(lines)
    BY <1>2, <2>2, <2>3 DEF Opens, IsFile
  <2>5. PICK o \in Opens(lines) : o = j - 1
    BY <2>4
  <2>6. Closing(E, o + 1) = Closing(lines, o) + 1
    BY ShiftedClosing DEF E
  <2>7. Closing(lines, o) \in 1..m
    BY <1>2, ClosingLine DEF Closes
  <2>. QED
    BY <2>2, <2>3, <2>5, <2>6, <2>7
<1>4. ASSUME Within(E, x, d)
      PROVE  x - 1 \in 1..m /\ Within(lines, x - 1, d)
  <2>1. PICK j \in 1..(m + 6) : E[j].op = d /\ j <= x /\ x <= Closing(E, j)
    BY <1>1, <1>4 DEF Within
  <2>2. /\ lines[j - 1].op = d /\ j - 1 \in 1..m
        /\ Closing(E, j) = Closing(lines, j - 1) + 1 /\ Closing(lines, j - 1) \in 1..m
    BY <1>3, <2>1
  <2>3. PICK o \in 1..m : o = j - 1
    BY <2>2
  <2>4. o <= x - 1 /\ x - 1 <= Closing(lines, o) /\ x - 1 \in 1..m
    BY <1>1, <2>1, <2>2, <2>3
  <2>. QED
    BY <1>2, <2>2, <2>3, <2>4 DEF Within
<1>5. ASSUME x - 1 \in 1..m, Within(lines, x - 1, d)
      PROVE  Within(E, x, d)
  <2>1. PICK o \in 1..m : lines[o].op = d /\ o <= x - 1 /\ x - 1 <= Closing(lines, o)
    BY <1>2, <1>5 DEF Within
  <2>2. PICK j : j = o + 1
    OBVIOUS
  <2>3. j \in 1..(m + 6) /\ o = j - 1
    BY <1>1, <2>2
  <2>4. E[j].op = d
    BY <1>1, <2>1, <2>2
  <2>5. Closing(E, j) = Closing(lines, o) + 1 /\ Closing(lines, o) \in 1..m
    BY <1>3, <2>3, <2>4
  <2>6. j <= x /\ x <= Closing(E, j)
    BY <1>1, <2>1, <2>2, <2>5
  <2>. QED
    BY <1>1, <2>3, <2>4, <2>6 DEF Within
<1>. QED
  BY <1>4, <1>5 DEF E

\* The entry function keeps its own six lines and the code outside of bodies.
LEMMA EntryKeeps ==
  ASSUME NEW lines, IsFile(lines), NEW main, NEW x \in 1..(Len(lines) + 6)
  PROVE  x \in Kept(EntryBody(lines, main))
           <=> x = 1 \/ x > Len(lines) + 1 \/ (x - 1 \in 1..Len(lines) /\ x - 1 \in Kept(lines))
<1> DEFINE E == EntryBody(lines, main) m == Len(lines)
<1>1. /\ m \in Nat /\ DOMAIN E = 1..(m + 6)
      /\ E[1].op = "ress" /\ E[m + 2].op = "frame" /\ E[m + 3].op = "param" /\ E[m + 4].op = "call"
      /\ E[m + 5].op = "move" /\ E[m + 6].op = "halt"
      /\ \A i \in 1..m : E[1 + i] = lines[i]
  BY EntryMnemonics
<1>2. DOMAIN lines = 1..m
  BY SequenceDomain DEF IsFile
<1>3. \A d \in {".function:", ".block:", ".class:"} :
        Within(E, x, d) <=> x - 1 \in 1..m /\ Within(lines, x - 1, d)
  BY ShiftedWithin
<1> HIDE DEF E
<1>4. CASE x - 1 \in 1..m
  <2>1. E[x] = lines[x - 1] /\ x # 1 /\ ~(x > m + 1)
    <3>1. 1 + (x - 1) = x
      OBVIOUS
    <3>. QED
      BY <1>1, <1>4, <3>1
  <2>. QED
    BY <1>1, <1>2, <1>3, <1>4, <2>1 DEF Kept, E
<1>5. CASE x - 1 \notin 1..m
  <2>1. x \in {1, m + 2, m + 3, m + 4, m + 5, m + 6}
    BY <1>1, <1>5
  <2>2. E[x].op \in {"ress", "frame", "param", "call", "move", "halt"}
    BY <1>1, <2>1
  <2>3. x = 1 \/ x > m + 1
    BY <1>1, <2>1
  <2>4. x \in Kept(E)
    BY <1>1, <1>3, <1>5, <2>2 DEF Kept, Skipped
  <2>. QED
    BY <1>5, <2>3, <2>4 DEF E
<1>. QED
  BY <1>4, <1>5

\* What is counted for the instructions of a body.
LEMMA FilteredSize ==
  ASSUME NEW lines, IsSequence(lines), Instructions(lines)
  PROVE  CountBytes(Filter(lines)) = Mass(LineSizes(lines), Kept(lines))
<1> DEFINE m == Len(lines) K == Kept(lines) n == Cardinality(K) sizes == LineSizes(lines)
<1>1. m \in Nat /\ DOMAIN lines = 1..m
  BY SequenceDomain
<1>2. sizes \in Seq(Nat) /\ Len(sizes) = m /\ \A i \in 1..m : sizes[i] = CountedSize(lines[i])
  BY LinesSized
<1>3. n \in Nat /\ IsPick(Filter(lines), lines, K) /\ K \in SUBSET (1..m)
  BY <1>1, FilterPicks DEF Kept
<1> HIDE DEF sizes, K
<1>4. IsPick(Pick(sizes, K), sizes, K) /\ Total(Pick(sizes, K)) = Mass(sizes, K)
  BY <1>1, <1>2, <1>3, Picked, PickedTotal
<1>5. ASSUME NEW k \in 1..n
      PROVE  Pick(sizes, K)[k] = CountedSize(Filter(lines)[k])
  <2>1. PICK i \in K : Upto(K, i) = k /\ Filter(lines)[k] = lines[i]
    BY <1>3 DEF IsPick
  <2>2. Pick(sizes, K)[k] = sizes[i]
    BY <1>4, <2>1 DEF IsPick
  <2>. QED
    BY <1>2, <1>3, <2>1, <2>2
<1>6. Pick(sizes, K) = [k \in 1..n |-> Pick(sizes, K)[k]]
  BY <1>4 DEF IsPick
<1>7. DOMAIN Filter(lines) = 1..n
  BY <1>3 DEF IsPick
<1>8. Pick(sizes, K) = [k \in DOMAIN Filter(lines) |-> CountedSize(Filter(lines)[k])]
  BY <1>5, <1>6, <1>7
<1>. QED
  BY <1>4, <1>8 DEF CountBytes, sizes, K

LEMMA CountedEntry ==
  /\ \A op \in {"ress", "frame", "param", "move", "halt"} : \A args :
       CountedSize(Line(op, args)) = OpSize[op] /\ OpSize[op] \in Nat
  /\ \A reg, main : CountedSize(Line("call", <<reg, main>>)) = OpSize["call"] + TextSize(main)
  /\ OpSize["call"] \in Nat
<1>1. {"ress", "frame", "param", "move", "halt", "call"} \subseteq DOMAIN OpSize
  BY SizeTable DEF Gives
<1>2. \A op \in {"ress", "frame", "param", "move", "halt", "call"} : OpSize[op] \in Nat
  BY SizeTable DEF Gives
<1>3. \A op, args : Line(op, args).op = op /\ Line(op, args).args = args
  BY DEF Line
<1>4. ASSUME NEW op \in {"ress", "frame", "param", "move", "halt"}, NEW args
      PROVE  CountedSize(Line(op, args)) = OpSize[op]
  <2>1. CountedNames(Line(op, args)) = <<>>
    BY <1>3 DEF CountedNames
  <2>2. CountedSize(Line(op, args)) = OpSize[op] + SizeOfNames(<<>>)
    BY <1>1, <1>3, <2>1, CountedSizes
  <2>. QED
    BY <1>2, <2>2, NameSizes
<1>5. ASSUME NEW reg, NEW main
      PROVE  CountedSize(Line("call", <<reg, main>>)) = OpSize["call"] + TextSize(main)
  <2> DEFINE a == <<reg, main>>
  <2>1. Len(a) = 2 /\ TextAt(a, 2) = main
    BY DEF TextAt
  <2> HIDE DEF a
  <2>2. CountedNames(Line("call", a)) = <<main>>
    BY <1>3, <2>1 DEF CountedNames
  <2>3. CountedSize(Line("call", a)) = OpSize["call"] + SizeOfNames(<<main>>)
    BY <1>1, <1>3, <2>2, CountedSizes
  <2>. QED
    BY <2>3, NameSizes DEF a
<1>. QED
  BY <1>2, <1>4, <1>5

LEMMA ThreeParts ==
  ASSUME NEW T, NEW a \in Seq(T), NEW b \in Seq(T), NEW c \in Seq(T), NEW w \in Seq(T),
         Len(w) = Len(a) + Len(b) + Len(c),
         \A i \in 1..Len(a) : w[i] = a[i],
         \A i \in 1..Len(b) : w[Len(a) + i] = b[i],
         \A i \in 1..Len(c) : w[Len(a) + Len(b) + i] = c[i]
  PROVE  w = (a \o b) \o c
<1> DEFINE d == a \o b
<1>1. d \in Seq(T) /\ Len(d) = Len(a) + Len(b) /\ \A i \in 1..(Len(a) + Len(b)) : d[i] = w[i]
  <2>1. d \in Seq(T) /\ Len(d) = Len(a) + Len(b)
    OBVIOUS
  <2>2. ASSUME NEW i \in 1..(Len(a) + Len(b))
        PROVE  d[i] = w[i]
    <3>1. CASE i <= Len(a)
      BY <3>1
    <3>2. CASE i > Len(a)
      <4>1. i - Len(a) \in 1..Len(b) /\ Len(a) + (i - Len(a)) = i
        BY <3>2
      <4>2. d[i] = b[i - Len(a)]
        BY <3>2
      <4>. QED
        BY <4>1, <4>2
    <3>. QED
      BY <3>1, <3>2
  <2>. QED
    BY <2>1, <2>2
<1> HIDE DEF d
<1>2. d \o c \in Seq(T) /\ Len(d \o c) = Len(w)
  <2>1. d \in Seq(T) /\ Len(d) = Len(a) + Len(b)
    BY <1>1
  <2>2. d \o c \in Seq(T)
    BY <2>1
  <2>3. Len(d \o c) = Len(d) + Len(c)
    BY <2>1, ConcatProperties
  <2>. QED
    BY <2>1, <2>2, <2>3
<1>3. ASSUME NEW i \in 1..Len(w)
      PROVE  (d \o c)[i] = w[i]
  <2>1. CASE i <= Len(d)
    BY <1>1, <2>1
  <2>2. CASE i > Len(d)
    <3>1. i - Len(d) \in 1..Len(c) /\ Len(a) + Len(b) + (i - Len(d)) = i
      BY <1>1, <2>2
    <3>2. (d \o c)[i] = c[i - Len(d)]
      BY <1>1, <2>2
    <3>. QED
      BY <3>1, <3>2
  <2>. QED
    BY <1>1, <2>1, <2>2
<1>. QED
  BY <1>2, <1>3 DEF d

LEMMA EntryMass ==
  ASSUME NEW lines, IsFile(lines), Instructions(lines), NEW main
  PROVE  /\ CountBytes(Filter(EntryBody(lines, main))) = Mass(LineSizes(lines), Kept(lines)) + EntrySize(main)
         /\ EntrySize(main) \in Nat
<1> DEFINE E == EntryBody(lines, main) m == Len(lines) sizes == LineSizes(lines) all == LineSizes(E)
           t == TextSize(main)
           front == <<OpSize["ress"]>>
           back == <<OpSize["frame"], OpSize["param"], OpSize["call"] + t, OpSize["move"], OpSize["halt"]>>
           mid == Masked(sizes, Kept(lines)) whole == Masked(all, Kept(E))
<1>1. IsSequence(lines)
  BY DEF IsFile
<1>2. /\ m \in Nat /\ DOMAIN E = 1..(m + 6) /\ Len(E) = m + 6 /\ IsSequence(E)
      /\ Made(E[1], "ress") /\ Made(E[m + 2], "frame") /\ Made(E[m + 3], "param")
      /\ \E reg : E[m + 4] = Line("call", <<reg, main>>)
      /\ Made(E[m + 5], "move") /\ Made(E[m + 6], "halt")
      /\ \A i \in 1..m : E[1 + i] = lines[i]
  BY EntryMade
<1>3. DOMAIN lines = 1..m
  BY <1>1, SequenceDomain
<1>4. sizes \in Seq(Nat) /\ Len(sizes) = m /\ \A i \in 1..m : sizes[i] = CountedSize(lines[i])
  BY <1>1, LinesSized
<1>5. t \in Nat /\ OpSize["call"] \in Nat /\ \A op \in {"ress", "frame", "param", "move", "halt"} : OpSize[op] \in Nat
  BY TextSizes, CountedEntry
<1>6. EntrySize(main) = OpSize["ress"] + OpSize["frame"] + OpSize["param"] + OpSize["call"] + t
                        + OpSize["move"] + OpSize["halt"]
  BY DEF EntrySize
<1> HIDE DEF E, sizes, m, t
<1>7. /\ CountedSize(E[1]) = OpSize["ress"] /\ CountedSize(E[m + 2]) = OpSize["frame"]
      /\ CountedSize(E[m + 3]) = OpSize["param"] /\ CountedSize(E[m + 5]) = OpSize["move"]
      /\ CountedSize(E[m + 6]) = OpSize["halt"]
  <2>1. \A op \in {"ress", "frame", "param", "move", "halt"} : \A line :
          Made(line, op) => CountedSize(line) = OpSize[op]
    BY CountedEntry DEF Made
  <2>. QED
    BY <1>2, <2>1
<1>8. CountedSize(E[m + 4]) = OpSize["call"] + t
  BY <1>2, CountedEntry DEF t
<1>9. IsSequence(E) /\ Instructions(E)
  <2>1. IsSequence(E)
    BY <1>2
  <2>2. ASSUME NEW i \in 1..(m + 6)
        PROVE  IsDirective(E[i]) \/ E[i].op \in DOMAIN OpSize
    <3>1. CASE i - 1 \in 1..m
      <4>1. E[i] = lines[i - 1]
        <5>1. 1 + (i - 1) = i
          OBVIOUS
        <5>. QED
          BY <1>2, <3>1, <5>1
      <4>. QED
        BY <1>3, <3>1, <4>1 DEF Instructions
    <3>2. CASE i - 1 \notin 1..m
      <4>1. i \in {1, m + 2, m + 3, m + 4, m + 5, m + 6}
        <5>1. m \in Nat
          BY <1>2
        <5>. QED
          BY <3>2, <5>1
      <4>2. /\ E[1].op = "ress" /\ E[m + 2].op = "frame" /\ E[m + 3].op = "param" /\ E[m + 4].op = "call"
            /\ E[m + 5].op = "move" /\ E[m + 6].op = "halt"
        BY EntryMnemonics DEF E, m
      <4>3. {"ress", "frame", "param", "move", "halt", "call"} \subseteq DOMAIN OpSize
        BY SizeTable DEF Gives
      <4>. QED
        BY <4>1, <4>2, <4>3
    <3>. QED
      BY <3>1, <3>2
  <2>3. \A i \in DOMAIN E : IsDirective(E[i]) \/ E[i].op \in DOMAIN OpSize
    BY <1>2, <2>2
  <2>. QED
    BY <2>1, <2>3 DEF Instructions
<1>10. /\ all \in Seq(Nat) /\ Len(all) = m + 6 /\ \A i \in 1..(m + 6) : all[i] = CountedSize(E[i])
       /\ CountBytes(Filter(E)) = Mass(all, Kept(E))
  BY <1>2, <1>9, LinesSized, FilteredSize
<1> HIDE DEF all
<1>11. /\ mid \in Seq(Nat) /\ Len(mid) = m /\ m \in Nat
       /\ \A i \in 1..m : mid[i] = IF i \in Kept(lines) THEN sizes[i] ELSE 0
  BY <1>4, MaskedSizes
<1>12. /\ whole \in Seq(Nat) /\ Len(whole) = m + 6
       /\ \A i \in 1..(m + 6) : whole[i] = IF i \in Kept(E) THEN all[i] ELSE 0
  BY <1>10, MaskedSizes
<1>13. \A x \in 1..(m + 6) : x \in Kept(E) <=> x = 1 \/ x > m + 1 \/ (x - 1 \in 1..m /\ x - 1 \in Kept(lines))
  BY EntryKeeps DEF E, m
<1>14. front \in Seq(Nat) /\ back \in Seq(Nat) /\ Len(front) = 1 /\ Len(back) = 5
  BY <1>5
<1>15. whole = (front \o mid) \o back
  <2> HIDE DEF whole, mid
  <2>1. /\ whole[1] = front[1]
        /\ whole[m + 2] = back[1] /\ whole[m + 3] = back[2] /\ whole[m + 4] = back[3] /\ whole[m + 5] = back[4]
        /\ whole[m + 6] = back[5]
    <3>1. \A x \in {1, m + 2, m + 3, m + 4, m + 5, m + 6} : x \in Kept(E) /\ x \in 1..(m + 6)
      BY <1>11, <1>13
    <3>2. \A x \in {1, m + 2, m + 3, m + 4, m + 5, m + 6} : whole[x] = CountedSize(E[x])
      BY <1>10, <1>12, <3>1
    <3>. QED
      BY <1>7, <1>8, <3>2
  <2>2. ASSUME NEW i \in 1..m
        PROVE  whole[1 + i] = mid[i]
    <3>1. 1 + i \in 1..(m + 6) /\ (1 + i) - 1 = i /\ 1 + i # 1 /\ ~(1 + i > m + 1)
      BY <1>11
    <3>2. PICK x : x = 1 + i
      OBVIOUS
    <3>3. x \in 1..(m + 6) /\ x - 1 = i /\ x # 1 /\ ~(x > m + 1)
      BY <3>1, <3>2
    <3>4. x \in Kept(E) <=> i \in Kept(lines)
      BY <1>13, <3>3
    <3>5. all[x] = sizes[i]
      BY <1>2, <1>4, <1>10, <3>2, <3>3
    <3>. QED
      BY <1>11, <1>12, <3>2, <3>3, <3>4, <3>5
  <2>3. \A i \in 1..1 : whole[i] = front[i]
    BY <2>1
  <2>4. \A i \in 1..5 : whole[1 + m + i] = back[i]
    <3>1. 1 + m + 1 = m + 2 /\ 1 + m + 2 = m + 3 /\ 1 + m + 3 = m + 4 /\ 1 + m + 4 = m + 5 /\ 1 + m + 5 = m + 6
      BY <1>11
    <3> HIDE DEF back
    <3>2. ASSUME NEW i \in 1..5
          PROVE  whole[1 + m + i] = back[i]
      <4>1. i = 1 \/ i = 2 \/ i = 3 \/ i = 4 \/ i = 5
        OBVIOUS
      <4>. QED
        BY <2>1, <3>1, <4>1
    <3>. QED
      BY <3>2
  <2>5. Len(whole) = Len(front) + Len(mid) + Len(back)
    BY <1>11, <1>12, <1>14
  <2>6. front \in Seq(Nat) /\ mid \in Seq(Nat) /\ back \in Seq(Nat) /\ whole \in Seq(Nat)
        /\ Len(front) = 1 /\ Len(mid) = m /\ Len(back) = 5
    BY <1>11, <1>12, <1>14
  <2> HIDE DEF front, back
  <2>7. /\ \A i \in 1..Len(front) : whole[i] = front[i]
        /\ \A i \in 1..Len(mid) : whole[Len(front) + i] = mid[i]
        /\ \A i \in 1..Len(back) : whole[Len(front) + Len(mid) + i] = back[i]
    BY <2>2, <2>3, <2>4, <2>6
  <2>. QED
    BY <2>5, <2>6, <2>7, ThreeParts, ZenonT(60)
<1>16. Total(whole) = Total(front) + Total(mid) + Total(back)
  <2>1. front \o mid \in Seq(Nat)
    BY <1>11, <1>14
  <2> HIDE DEF front, mid, back, whole
  <2>2. Total(front \o mid) = Total(front) + Total(mid)
    BY <1>11, <1>14, TotalTogether
  <2>3. Total((front \o mid) \o back) = Total(front \o mid) + Total(back)
    BY <1>14, <2>1, TotalTogether
  <2>. QED
    BY <1>15, <2>2, <2>3
<1>17. Total(front) = OpSize["ress"]
  <2>1. front[1] = OpSize["ress"]
    OBVIOUS
  <2> HIDE DEF front
  <2>2. Places(front)[0] = 0 /\ \A k \in 1..1 : Places(front)[k] = Places(front)[k - 1] + front[k]
    BY <1>14, PlacesAdd
  <2>3. Places(front)[1] = Places(front)[0] + front[1]
    BY <2>2
  <2>. QED
    BY <1>5, <1>14, <2>1, <2>2, <2>3 DEF Total
<1>18. Total(back) = OpSize["frame"] + OpSize["param"] + (OpSize["call"] + t) + OpSize["move"] + OpSize["halt"]
  <2>1. /\ back[1] = OpSize["frame"] /\ back[2] = OpSize["param"] /\ back[3] = OpSize["call"] + t
        /\ back[4] = OpSize["move"] /\ back[5] = OpSize["halt"]
    OBVIOUS
  <2> HIDE DEF back
  <2>2. Places(back)[0] = 0 /\ \A k \in 1..5 : Places(back)[k] = Places(back)[k - 1] + back[k]
    BY <1>14, PlacesAdd
  <2>3. /\ Places(back)[1] = Places(back)[0] + back[1] /\ Places(back)[2] = Places(back)[1] + back[2]
        /\ Places(back)[3] = Places(back)[2] + back[3] /\ Places(back)[4] = Places(back)[3] + back[4]
        /\ Places(back)[5] = Places(back)[4] + back[5]
    BY <2>2
  <2>. QED
    BY <1>5, <1>14, <2>1, <2>2, <2>3 DEF Total
<1>19. Mass(all, Kept(E)) = Total(whole) /\ Mass(sizes, Kept(lines)) = Total(mid)
  BY DEF Mass
<1>20. Total(mid) \in Nat
  BY <1>11, TotalTogether
<1> HIDE DEF front, back, mid, whole
<1>21. CountBytes(Filter(E)) = Mass(sizes, Kept(lines)) + EntrySize(main)
  <2>2. CountBytes(Filter(E)) = Total(front) + Total(mid) + Total(back)
    BY <1>10, <1>16, <1>19
  <2>3. Mass(sizes, Kept(lines)) = Total(mid)
    BY <1>19
  <2> HIDE DEF EntrySize
  <2>. QED
    BY <1>5, <1>6, <1>17, <1>18, <1>20, <2>2, <2>3
<1>22. EntrySize(main) \in Nat
  BY <1>5, <1>6
<1>. QED
  BY <1>21, <1>22 DEF E, sizes

\* A line that takes bytes is in one body or kept by the entry function.
LEMMA LinesCovered ==
  ASSUME NEW lines, IsFile(lines), Instructions(lines)
  PROVE  /\ InBodies(lines) \cap Kept(lines) = {}
         /\ \A i \in 1..Len(lines) : LineSizes(lines)[i] = 0 \/ i \in InBodies(lines) \cup Kept(lines)
<1> DEFINE m == Len(lines)
<1>1. m \in Nat /\ DOMAIN lines = 1..m
  BY SequenceDomain DEF IsFile
<1>2. ASSUME NEW o \in Opens(lines)
      PROVE  /\ o \in 1..m /\ Closing(lines, o) \in 1..m /\ lines[Closing(lines, o)].op = ".end"
             /\ lines[o].op \in {".function:", ".block:"}
  BY <1>1, ClosingLine DEF Closes, Opens
<1>3. ASSUME NEW i \in InBodies(lines)
      PROVE  i \notin Kept(lines)
  <2>1. PICK o \in Opens(lines) : i \in Slice(lines, o)
    BY DEF InBodies
  <2>2. o <= i /\ i <= Closing(lines, o)
    BY <1>2, <2>1 DEF Slice
  <2>3. Within(lines, i, lines[o].op)
    BY <1>1, <1>2, <2>2 DEF Within
  <2>. QED
    BY <1>2, <2>3 DEF Kept
<1>4. ASSUME NEW i \in 1..m, i \notin InBodies(lines), i \notin Kept(lines)
      PROVE  LineSizes(lines)[i] = 0
  <2>1. CASE lines[i].op \in Skipped
    BY <2>1, Directive, LinesSized DEF IsFile
  <2>2. CASE \E d \in {".function:", ".block:", ".class:"} : Within(lines, i, d)
    <3>1. PICK o \in 1..m : lines[o].op \in {".function:", ".block:", ".class:"} /\ o <= i /\ i <= Closing(lines, o)
      BY <1>1, <2>2 DEF Within
    <3>2. o \in Opens(lines)
      BY <1>1, <3>1 DEF IsFile, Opens
    <3>3. i \notin Slice(lines, o)
      BY <1>4, <3>2 DEF InBodies
    <3>4. i = o \/ i = Closing(lines, o)
      BY <1>2, <3>1, <3>2, <3>3 DEF Slice
    <3>5. lines[i].op \in {".function:", ".block:", ".end"}
      BY <1>2, <3>2, <3>4
    <3>. QED
      BY <3>5, Directive, LinesSized DEF IsFile
  <2>. QED
    BY <1>1, <1>4, <2>1, <2>2 DEF Kept
<1>. QED
  BY <1>3, <1>4

LEMMA UsedSize ==
  ASSUME NEW unit, NEW lines, IsFile(lines), ProperFile(lines), Instructions(lines), NEW flags,
         IsSection(unit, lines, flags)
  PROVE  /\ LocalSize(lines, flags) \in Nat /\ Used(lines, flags) \in Nat
         /\ Used(lines, flags) <= LocalSize(lines, flags)
         /\ ~flags.as_lib => Used(lines, flags) = LocalSize(lines, flags)
<1> DEFINE m == Len(lines) sizes == LineSizes(lines) c == Blocks(lines) + Functions(lines)
           inside == Mass(sizes, InBodies(lines)) outside == Mass(sizes, Kept(lines))
           main == MainFunction(lines, flags)
<1>1. sizes \in Seq(Nat) /\ Len(sizes) = m /\ m \in Nat /\ CountBytes(lines) = Total(sizes) /\ Total(sizes) \in Nat
  BY LinesSized DEF IsFile
<1>2. inside \in Nat /\ outside \in Nat
  BY <1>1, MaskedSizes
<1>3. inside + outside = Total(sizes)
  <2> DEFINE both == InBodies(lines) \cup Kept(lines)
  <2>1. Mass(sizes, both) = inside + outside
    BY <1>1, LinesCovered, MassAdds
  <2>2. \A i \in 1..m : sizes[i] = 0 \/ (i \in both <=> i \in 1..m)
    BY LinesCovered
  <2>3. Mass(sizes, both) = Mass(sizes, 1..m)
    <3> HIDE DEF sizes, both, m
    <3>. QED
      BY <1>1, <2>2, MassSame
  <2>4. Mass(sizes, 1..m) = Total(sizes)
    BY <1>1, MassOfAll
  <2>. QED
    BY <2>1, <2>3, <2>4
<1>4. c \in Nat /\ c <= Count(lines, flags) /\ Starts(lines, flags)[c] = inside
  BY BodiesMass
<1>5. CountBytes(Filter(EntryBody(lines, main))) = outside + EntrySize(main) /\ EntrySize(main) \in Nat
  BY EntryMass
<1>6. Starts(lines, flags)[Count(lines, flags)] = Used(lines, flags) /\ Used(lines, flags) \in Nat
  BY DEF IsSection
<1>7. Count(lines, flags) = c + (IF flags.as_lib THEN 0 ELSE 1)
  <2>1. Blocks(lines) \in Nat /\ Functions(lines) \in Nat
    BY BodiesOfFile DEF Bodied
  <2>. QED
    BY <2>1 DEF Count
<1> HIDE DEF sizes, inside, outside, c
<1>8. CASE flags.as_lib
  <2>1. Used(lines, flags) = inside
    BY <1>4, <1>6, <1>7, <1>8
  <2>2. LocalSize(lines, flags) = Total(sizes)
    BY <1>1, <1>8 DEF LocalSize
  <2>. QED
    BY <1>1, <1>2, <1>3, <1>8, <2>1, <2>2
<1>9. CASE ~flags.as_lib
  <2>1. c + 1 \in 1..Count(lines, flags) /\ (c + 1) - 1 = c
    BY <1>4, <1>7, <1>9
  <2>2. PICK k : k = c + 1
    OBVIOUS
  <2>3. k \in 1..Count(lines, flags) /\ k - 1 = c /\ k = Count(lines, flags)
    BY <1>7, <1>9, <2>1, <2>2
  <2>4. Starts(lines, flags)[k] = Starts(lines, flags)[k - 1] + BodySize(AllBodies(lines, flags)[k])
    BY <2>3 DEF IsSection
  <2>5. EntryAt(AllBodies(lines, flags)[k], lines, flags)
    BY <1>9, <2>2, BodiesOfFile DEF Bodied, c
  <2>6. BodySize(AllBodies(lines, flags)[k]) = CountBytes(Filter(EntryBody(lines, main)))
    BY <2>5 DEF EntryAt, BodySize
  <2>7. Used(lines, flags) = inside + (outside + EntrySize(main))
    BY <1>4, <1>5, <1>6, <2>3, <2>4, <2>6
  <2>8. LocalSize(lines, flags) = Total(sizes) + EntrySize(main)
    BY <1>1, <1>9 DEF LocalSize
  <2>. QED
    BY <1>1, <1>2, <1>3, <1>5, <1>9, <2>7, <2>8
<1>. QED
  BY <1>8, <1>9

=============================================================================
