-------------------------- MODULE TypeSystemProofs --------------------------
(***************************************************************************)
(* Proofs about the search order, for any types and any derivations among  *)
(* them, and about prototypes and the typesystem, for any number of types, *)
(* registers and addresses.                                                *)
(*                                                                         *)
(* The loop of inheritanceChainOf ends because what it appends is derived  *)
(* from by what it has reached: types have a rank, and a chain holds types *)
(* of lower rank.                                                          *)
(***************************************************************************)
EXTENDS TypeSystem, FiniteSetTheorems, SequenceTheorems, TLAPS

\* Each type in the sequence ranks below k.
Below(s, rank, k) == \A i \in DOMAIN s : rank[s[i]] < k

\* Sequences of types, one for each, that hold lower types only.
Descending(types, rank) ==
  {f \in [types -> Seq(types)] : \A t \in types : Below(f[t], rank, rank[t])}

-----------------------------------------------------------------------------
(***************************************************************************)
(* Induction, for sets.                                                    *)
(***************************************************************************)
LEMMA SmallestExists ==
  ASSUME NEW S \in SUBSET Nat, S # {}
  PROVE  \E x \in S : \A y \in S : x <= y
  <1>1. \E x \in S : \A y \in S : <<y, x>> \notin OpToRel(<, Nat)
    BY WFMin, NatLessThanWellFounded
  <1>2. OpToRel(<, Nat) = {p \in Nat \X Nat : p[1] < p[2]}
    BY Zenon DEF OpToRel
  <1>3. PICK x \in S : \A y \in S : <<y, x>> \notin OpToRel(<, Nat)
    BY <1>1
  <1>4. ASSUME NEW y \in S
        PROVE  x <= y
    <2>1. x \in Nat /\ y \in Nat
      OBVIOUS
    <2>2. <<y, x>> \notin {p \in Nat \X Nat : p[1] < p[2]}
      BY <1>2, <1>3, Zenon
    <2> QED BY <2>1, <2>2
  <1> QED BY <1>4

LEMMA CountingUp ==
  ASSUME NEW Q, 0 \in Q, \A n \in Nat : n \in Q => n + 1 \in Q
  PROVE  Nat \subseteq Q
  <1> SUFFICES ASSUME Nat \ Q # {}
               PROVE  FALSE
    OBVIOUS
  <1>1. PICK x \in Nat \ Q : \A y \in Nat \ Q : x <= y
    <2>1. Nat \ Q \in SUBSET Nat
      OBVIOUS
    <2> QED BY <2>1, SmallestExists
  <1>2. x # 0 /\ x - 1 \in Nat /\ ~(x <= x - 1)
    OBVIOUS
  <1>3. x - 1 \in Q
    BY <1>1, <1>2
  <1>4. (x - 1) + 1 = x
    OBVIOUS
  <1> QED BY <1>2, <1>3, <1>4

\* What is left for the loop when it has appended the sequence s.
LEMMA NextRest ==
  ASSUME NEW T, NEW rest \in Seq(T), rest # <<>>, NEW s \in Seq(T)
  PROVE  LET next == Tail(rest) \o s
         IN /\ Head(rest) = rest[1] /\ rest[1] \in T
            /\ next \in Seq(T)
            /\ DOMAIN next = 1..(Len(rest) - 1 + Len(s))
            /\ \A j \in DOMAIN next :
                 next[j] = IF j < Len(rest) THEN rest[j + 1] ELSE s[j - Len(rest) + 1]
  OBVIOUS

\* A set of sequences that the loop cannot enter from outside holds all.
LEMMA LoopInduction ==
  ASSUME NEW T, NEW N \in Nat, NEW rank \in [T -> 0..N], NEW f \in Descending(T, rank),
         NEW Q, <<>> \in Q,
         \A rest \in Seq(T) :
           rest # <<>> /\ Tail(rest) \o f[Head(rest)] \in Q => rest \in Q
  PROVE  Seq(T) \subseteq Q
  <1> DEFINE Low(k) == \A rest \in Seq(T) : Below(rest, rank, k) => rest \in Q
             Lows == {k \in Nat : Low(k)}
  <1>1. f \in [T -> Seq(T)] /\ \A t \in T : Below(f[t], rank, rank[t])
    BY DEF Descending
  <1>2. Low(0)
    <2> SUFFICES ASSUME NEW rest \in Seq(T), Below(rest, rank, 0)
                 PROVE  rest = <<>>
      OBVIOUS
    <2>1. \A i \in 1..Len(rest) : rest[i] \in T /\ rank[rest[i]] < 0
      BY DEF Below
    <2>2. \A i \in 1..Len(rest) : FALSE
      BY <2>1
    <2> QED BY <2>2
  <1>3. ASSUME NEW k \in Nat, Low(k)
        PROVE  Low(k + 1)
    <2> DEFINE Few(m) == \A rest \in Seq(T) :
                 Below(rest, rank, k + 1)
                 /\ (\A j \in DOMAIN rest : j > m => rank[rest[j]] < k)
                   => rest \in Q
               Fews == {m \in Nat : Few(m)}
    <2>1. Few(0)
      <3> SUFFICES ASSUME NEW rest \in Seq(T), \A j \in DOMAIN rest : j > 0 => rank[rest[j]] < k
                   PROVE  rest \in Q
        OBVIOUS
      <3>1. Below(rest, rank, k)
        BY DEF Below
      <3> QED BY <3>1, <1>3
    <2>2. ASSUME NEW m \in Nat, Few(m)
          PROVE  Few(m + 1)
      <3> SUFFICES ASSUME NEW rest \in Seq(T), Below(rest, rank, k + 1), rest # <<>>,
                          \A j \in DOMAIN rest : j > m + 1 => rank[rest[j]] < k
                   PROVE  rest \in Q
        OBVIOUS
      <3> DEFINE s == f[Head(rest)]
                 next == Tail(rest) \o s
      <3>1. Head(rest) \in T /\ s \in Seq(T) /\ Below(s, rank, rank[Head(rest)])
        BY <1>1, NextRest
      <3>2. /\ Head(rest) = rest[1] /\ next \in Seq(T)
            /\ DOMAIN next = 1..(Len(rest) - 1 + Len(s))
            /\ \A j \in DOMAIN next :
                 next[j] = IF j < Len(rest) THEN rest[j + 1] ELSE s[j - Len(rest) + 1]
        <4>1. s \in Seq(T)
          BY <3>1
        <4> HIDE DEF s
        <4> QED BY <4>1, NextRest
      <3>3. /\ Len(rest) \in Nat /\ Len(rest) > 0 /\ DOMAIN rest = 1..Len(rest)
            /\ Len(s) \in Nat /\ DOMAIN s = 1..Len(s)
        BY <3>1
      <3>4. \A j \in DOMAIN s : s[j] \in T /\ rank[s[j]] \in Nat
        BY <3>1, <3>3
      <3>5. rank[rest[1]] \in Nat /\ rank[rest[1]] < k + 1
        BY <3>1, <3>2, <3>3 DEF Below
      <3>6. \A j \in DOMAIN s : rank[s[j]] < k
        BY <3>1, <3>2, <3>4, <3>5 DEF Below
      <3> HIDE DEF s, next
      <3>7. ASSUME NEW j \in DOMAIN next
            PROVE  rank[next[j]] < k + 1 /\ (j > m => rank[next[j]] < k)
        <4>1. CASE j < Len(rest)
          <5>1. j \in Nat /\ j > 0
            BY <3>2, <3>3
          <5>2. next[j] = rest[j + 1]
            BY <3>2, <4>1
          <5>3. j + 1 \in DOMAIN rest /\ (j > m => j + 1 > m + 1)
            BY <3>3, <4>1, <5>1
          <5> QED BY <5>1, <5>2, <5>3 DEF Below
        <4>2. CASE ~(j < Len(rest))
          <5>1. j - Len(rest) + 1 \in DOMAIN s /\ next[j] = s[j - Len(rest) + 1]
            <6>1. next[j] = s[j - Len(rest) + 1]
              BY <3>2, <4>2
            <6>2. j \in Nat /\ j <= Len(rest) - 1 + Len(s) /\ Len(rest) <= j
              BY <3>2, <3>3, <4>2
            <6>3. j - Len(rest) + 1 \in 1..Len(s)
              BY <3>3, <6>2
            <6> QED BY <3>3, <6>1, <6>3
          <5>2. rank[next[j]] \in Nat /\ rank[next[j]] < k
            BY <5>1, <3>4, <3>6
          <5> QED BY <5>2
        <4> QED BY <4>1, <4>2
      <3>8. next \in Q
        BY <2>2, <3>2, <3>7 DEF Below
      <3> QED BY <3>8 DEF next, s
    <2> HIDE DEF Few
    <2>3. Nat \subseteq Fews
      <3>1. 0 \in Fews /\ \A m \in Nat : m \in Fews => m + 1 \in Fews
        BY <2>1, <2>2
      <3> HIDE DEF Fews
      <3> QED BY <3>1, CountingUp
    <2> USE DEF Few
    <2>4. ASSUME NEW rest \in Seq(T), Below(rest, rank, k + 1)
          PROVE  rest \in Q
      <3>1. Few(Len(rest)) /\ \A j \in DOMAIN rest : ~(j > Len(rest))
        BY <2>3
      <3> QED BY <3>1, <2>4
    <2> QED BY <2>4
  <1> HIDE DEF Low
  <1>4. Nat \subseteq Lows
    <2>1. 0 \in Lows /\ \A k \in Nat : k \in Lows => k + 1 \in Lows
      BY <1>2, <1>3
    <2> HIDE DEF Lows
    <2> QED BY <2>1, CountingUp
  <1> USE DEF Low
  <1>5. ASSUME NEW rest \in Seq(T)
        PROVE  rest \in Q
    <2>1. Low(N + 1)
      BY <1>4
    <2>2. \A i \in DOMAIN rest : rest[i] \in T
      OBVIOUS
    <2>3. Below(rest, rank, N + 1)
      BY <2>2 DEF Below
    <2> QED BY <2>1, <2>3
  <1> QED BY <1>5

-----------------------------------------------------------------------------
(***************************************************************************)
(* The loop: it ends, and what it makes of the types left to it.           *)
(***************************************************************************)
\* g is what the loop makes of the types left to it, given their chains f.
Loops(T, f, g) ==
  g = [rest \in Seq(T) |->
         IF rest = <<>> THEN <<>>
         ELSE <<Head(rest)>> \o g[Tail(rest) \o f[Head(rest)]]]

LEMMA LoopEnds ==
  ASSUME NEW T, NEW N \in Nat, NEW rank \in [T -> 0..N], NEW f \in Descending(T, rank)
  PROVE  \E g : Loops(T, f, g)
  <1> DEFINE Following(rest) == Tail(rest) \o f[Head(rest)]
             X == Seq(T) \X Seq(T)
             Closed(R) ==
               /\ <<<<>>, <<>>>> \in R
               /\ \A rest, d \in Seq(T) :
                    rest # <<>> /\ <<Following(rest), d>> \in R
                      => <<rest, <<Head(rest)>> \o d>> \in R
             Rel == {x \in X : \A R \in SUBSET X : Closed(R) => x \in R}
  <1>1. \A rest \in Seq(T) : rest # <<>> =>
          /\ Following(rest) \in Seq(T) /\ Head(rest) \in T
          /\ \A d \in Seq(T) : <<Head(rest)>> \o d \in Seq(T)
    <2> SUFFICES ASSUME NEW rest \in Seq(T), rest # <<>>
                 PROVE  /\ Following(rest) \in Seq(T) /\ Head(rest) \in T
                        /\ \A d \in Seq(T) : <<Head(rest)>> \o d \in Seq(T)
      OBVIOUS
    <2>1. Head(rest) \in T
      BY NextRest
    <2>2. f[Head(rest)] \in Seq(T)
      BY <2>1 DEF Descending
    <2> QED BY <2>1, <2>2, NextRest
  <1>2. <<>> \in Seq(T)
    OBVIOUS
  <1> HIDE DEF Following
  <1>3. Closed(Rel)
    <2>1. <<<<>>, <<>>>> \in Rel
      BY <1>2
    <2>2. ASSUME NEW rest \in Seq(T), NEW d \in Seq(T), rest # <<>>, <<Following(rest), d>> \in Rel
          PROVE  <<rest, <<Head(rest)>> \o d>> \in Rel
      <3>1. <<rest, <<Head(rest)>> \o d>> \in X
        BY <1>1, <2>2
      <3> QED BY <2>2, <3>1
    <2> QED BY <2>1, <2>2
  <1> DEFINE Empty(x) == x[1] = <<>> /\ x[2] = <<>>
             Step(x) == /\ x[1] # <<>>
                        /\ \E d \in Seq(T) : /\ <<Following(x[1]), d>> \in Rel
                                             /\ x[2] = <<Head(x[1])>> \o d
             Some == {x \in Rel : Empty(x) \/ Step(x)}
  <1>4. Some \in SUBSET X
    OBVIOUS
  <1>5. Closed(Some)
    <2>1. <<<<>>, <<>>>> \in Some
      <3>1. <<<<>>, <<>>>> \in Rel
        BY <1>3
      <3> QED BY <3>1
    <2>2. ASSUME NEW rest \in Seq(T), NEW d \in Seq(T), rest # <<>>, <<Following(rest), d>> \in Some
          PROVE  <<rest, <<Head(rest)>> \o d>> \in Some
      <3>1. <<Following(rest), d>> \in Rel
        BY <2>2
      <3>2. <<rest, <<Head(rest)>> \o d>> \in Rel
        BY <1>3, <2>2, <3>1
      <3>3. Step(<<rest, <<Head(rest)>> \o d>>)
        <4> HIDE DEF Rel
        <4> QED BY <2>2, <3>1
      <3> HIDE DEF Step, Rel, Empty
      <3> QED BY <3>2, <3>3
    <2> QED BY <2>1, <2>2
  <1>6. \A x \in Rel : Empty(x) \/ Step(x)
    <2>1. Rel \subseteq Some
      <3> HIDE DEF Some, Closed
      <3> QED BY <1>4, <1>5
    <2> HIDE DEF Rel, Empty, Step
    <2> QED BY <2>1
  <1>7. Rel \subseteq X
    OBVIOUS
  <1> HIDE DEF Rel, Some
  <1> DEFINE Q == {rest \in Seq(T) :
                     \E d \in Seq(T) : /\ <<rest, d>> \in Rel
                                       /\ \A e \in Seq(T) : <<rest, e>> \in Rel => e = d}
  <1>8. <<>> \in Q
    <2>1. \A e \in Seq(T) : <<<<>>, e>> \in Rel => e = <<>>
      BY <1>6
    <2> QED BY <1>2, <1>3, <2>1
  <1>9. ASSUME NEW rest \in Seq(T), rest # <<>>, Following(rest) \in Q
        PROVE  rest \in Q
    <2>1. PICK d \in Seq(T) : /\ <<Following(rest), d>> \in Rel
                              /\ \A e \in Seq(T) : <<Following(rest), e>> \in Rel => e = d
      BY <1>9
    <2>2. <<rest, <<Head(rest)>> \o d>> \in Rel /\ <<Head(rest)>> \o d \in Seq(T)
      BY <1>1, <1>3, <1>9, <2>1
    <2>3. ASSUME NEW e \in Seq(T), <<rest, e>> \in Rel
          PROVE  e = <<Head(rest)>> \o d
      <3>1. Step(<<rest, e>>)
        BY <1>6, <1>9, <2>3
      <3>2. PICK c \in Seq(T) : <<Following(rest), c>> \in Rel /\ e = <<Head(rest)>> \o c
        BY <3>1
      <3> QED BY <2>1, <3>2
    <2> QED BY <2>2, <2>3
  <1>10. Seq(T) \subseteq Q
    <2>1. \A rest \in Seq(T) :
            rest # <<>> /\ Tail(rest) \o f[Head(rest)] \in Q => rest \in Q
      BY <1>9 DEF Following
    <2> HIDE DEF Q
    <2> QED BY <1>8, <2>1, LoopInduction
  <1> DEFINE g == [rest \in Seq(T) |-> CHOOSE d \in Seq(T) : <<rest, d>> \in Rel]
  <1>11. \A rest \in Seq(T) :
           /\ g[rest] \in Seq(T) /\ <<rest, g[rest]>> \in Rel
           /\ \A e \in Seq(T) : <<rest, e>> \in Rel => e = g[rest]
    <2> SUFFICES ASSUME NEW rest \in Seq(T)
                 PROVE  /\ g[rest] \in Seq(T) /\ <<rest, g[rest]>> \in Rel
                        /\ \A e \in Seq(T) : <<rest, e>> \in Rel => e = g[rest]
      OBVIOUS
    <2>1. PICK d \in Seq(T) : /\ <<rest, d>> \in Rel
                              /\ \A e \in Seq(T) : <<rest, e>> \in Rel => e = d
      BY <1>10
    <2>2. g[rest] = CHOOSE e \in Seq(T) : <<rest, e>> \in Rel
      OBVIOUS
    <2> HIDE DEF g
    <2> QED BY <2>1, <2>2
  <1>12. ASSUME NEW rest \in Seq(T)
         PROVE  g[rest] = IF rest = <<>> THEN <<>> ELSE <<Head(rest)>> \o g[Following(rest)]
    <2> HIDE DEF g
    <2>1. CASE rest = <<>>
      BY <1>2, <1>3, <1>11, <2>1
    <2>2. CASE rest # <<>>
      <3>1. Following(rest) \in Seq(T) /\ <<Head(rest)>> \o g[Following(rest)] \in Seq(T)
        BY <1>1, <1>11, <2>2
      <3>2. <<rest, <<Head(rest)>> \o g[Following(rest)]>> \in Rel
        BY <1>3, <1>11, <2>2, <3>1
      <3> QED BY <1>11, <2>2, <3>1, <3>2
    <2> QED BY <2>1, <2>2
  <1>13. Loops(T, f, g)
    <2>1. g \in [Seq(T) -> Seq(T)]
      BY <1>11
    <2> HIDE DEF g
    <2>2. [rest \in Seq(T) |-> g[rest]]
            = [rest \in Seq(T) |->
                 IF rest = <<>> THEN <<>> ELSE <<Head(rest)>> \o g[Following(rest)]]
      BY <1>12
    <2> QED BY <2>1, <2>2 DEF Loops, Following
  <1> HIDE DEF g
  <1> QED BY <1>13

\* Grown(f) maps sequences of types to such, and each as the loop does.
Unrolls(T, f) ==
  /\ Grown(f) \in [Seq(T) -> Seq(T)]
  /\ Grown(f)[<<>>] = <<>>
  /\ \A rest \in Seq(T) : rest # <<>> =>
       /\ Tail(rest) \o f[Head(rest)] \in Seq(T)
       /\ Grown(f)[rest] = <<Head(rest)>> \o Grown(f)[Tail(rest) \o f[Head(rest)]]

LEMMA LoopResult ==
  ASSUME NEW T, NEW N \in Nat, NEW rank \in [T -> 0..N], NEW f \in Descending(T, rank)
  PROVE  Unrolls(T, f)
  <1>1. DOMAIN f = T /\ \A t \in T : f[t] \in Seq(T)
    BY DEF Descending
  <1>2. Grown(f) = CHOOSE g : Loops(T, f, g)
    BY <1>1 DEF Grown, Loops
  <1>3. Loops(T, f, Grown(f))
    BY <1>2, LoopEnds
  <1> DEFINE G == Grown(f)
  <1>4. DOMAIN G = Seq(T) /\ G = [rest \in Seq(T) |-> G[rest]]
    BY <1>3 DEF Loops
  <1>5. \A rest \in Seq(T) :
          G[rest] = IF rest = <<>> THEN <<>>
                    ELSE <<Head(rest)>> \o G[Tail(rest) \o f[Head(rest)]]
    BY <1>3 DEF Loops
  <1> HIDE DEF G
  <1>6. \A rest \in Seq(T) : rest # <<>> =>
          Head(rest) \in T /\ Tail(rest) \o f[Head(rest)] \in Seq(T)
    BY <1>1, NextRest
  <1> DEFINE Q == {rest \in Seq(T) : G[rest] \in Seq(T)}
  <1>7. <<>> \in Q
    <2>1. <<>> \in Seq(T)
      OBVIOUS
    <2>2. G[<<>>] = <<>>
      BY <1>5, <2>1
    <2> QED BY <2>1, <2>2
  <1>8. ASSUME NEW rest \in Seq(T), rest # <<>>, Tail(rest) \o f[Head(rest)] \in Q
        PROVE  rest \in Q
    <2>1. G[rest] = <<Head(rest)>> \o G[Tail(rest) \o f[Head(rest)]]
      BY <1>5, <1>8
    <2>2. Head(rest) \in T /\ G[Tail(rest) \o f[Head(rest)]] \in Seq(T)
      BY <1>6, <1>8
    <2>3. G[rest] \in Seq(T)
      BY <2>1, <2>2
    <2> QED BY <2>3
  <1>9. Seq(T) \subseteq Q
    <2> HIDE DEF Q
    <2> QED BY <1>7, <1>8, LoopInduction
  <1>10. G \in [Seq(T) -> Seq(T)]
    BY <1>4, <1>9
  <1>11. <<>> \in Seq(T)
    OBVIOUS
  <1> QED BY <1>5, <1>6, <1>10, <1>11 DEF G, Unrolls

LEMMA RangeOfConcat ==
  ASSUME NEW T, NEW s \in Seq(T), NEW t \in Seq(T)
  PROVE  Range(s \o t) = Range(s) \cup Range(t)
  <1> DEFINE m == Len(s)
             n == Len(t)
             st == s \o t
  <1>1. /\ m \in Nat /\ n \in Nat /\ DOMAIN s = 1..m /\ DOMAIN t = 1..n
        /\ DOMAIN st = 1..(m + n)
    OBVIOUS
  <1>2. \A i \in 1..m : st[i] = s[i]
    OBVIOUS
  <1>3. \A i \in 1..n : st[m + i] = t[i]
    OBVIOUS
  <1> HIDE DEF m, n, st
  <1>4. \A i \in 1..(m + n) : i \in 1..m \/ (i - m \in 1..n /\ i = m + (i - m))
    BY <1>1
  <1>5. \A i \in 1..n : m + i \in 1..(m + n)
    BY <1>1
  <1>6. \A i \in 1..m : i \in 1..(m + n)
    BY <1>1
  <1>7. Range(st) \subseteq Range(s) \cup Range(t)
    <2>1. ASSUME NEW i \in 1..(m + n)
          PROVE  st[i] \in Range(s) \cup Range(t)
      BY <1>1, <1>2, <1>3, <1>4 DEF Range
    <2> QED BY <1>1, <2>1 DEF Range
  <1>8. Range(s) \subseteq Range(st)
    BY <1>1, <1>2, <1>6 DEF Range
  <1>9. Range(t) \subseteq Range(st)
    BY <1>1, <1>3, <1>5 DEF Range
  <1> QED BY <1>7, <1>8, <1>9 DEF st

LEMMA RangeOfRest ==
  ASSUME NEW T, NEW rest \in Seq(T), rest # <<>>
  PROVE  /\ Head(rest) \in T /\ Tail(rest) \in Seq(T)
         /\ Range(rest) = {Head(rest)} \cup Range(Tail(rest))
  <1>1. Head(rest) \in T /\ Tail(rest) \in Seq(T) /\ rest = <<Head(rest)>> \o Tail(rest)
    OBVIOUS
  <1>2. Range(<<Head(rest)>>) = {Head(rest)}
    BY DEF Range
  <1>3. Range(<<Head(rest)>> \o Tail(rest)) = Range(<<Head(rest)>>) \cup Range(Tail(rest))
    <2> DEFINE s == <<Head(rest)>>
               t == Tail(rest)
    <2>1. s \in Seq(T) /\ t \in Seq(T)
      BY <1>1
    <2> HIDE DEF s, t
    <2>2. Range(s \o t) = Range(s) \cup Range(t)
      BY <2>1, RangeOfConcat
    <2> QED BY <2>2 DEF s, t
  <1> QED BY <1>1, <1>2, <1>3

\* What the loop has reached next, and what is left to it then.
Reaches(T, f, rest) ==
  LET next == Tail(rest) \o f[Head(rest)]
  IN /\ Head(rest) \in T /\ f[Head(rest)] \in Seq(T) /\ next \in Seq(T)
     /\ Range(rest) = {Head(rest)} \cup Range(Tail(rest))
     /\ Range(next) = Range(Tail(rest)) \cup Range(f[Head(rest)])
     /\ Grown(f)[next] \in Seq(T)
     /\ Grown(f)[rest] = <<Head(rest)>> \o Grown(f)[next]
     /\ Range(Grown(f)[rest]) = {Head(rest)} \cup Range(Grown(f)[next])

LEMMA LoopStep ==
  ASSUME NEW T, NEW N \in Nat, NEW rank \in [T -> 0..N], NEW f \in Descending(T, rank),
         NEW rest \in Seq(T), rest # <<>>
  PROVE  Reaches(T, f, rest)
  <1> DEFINE h == Head(rest)
             t == Tail(rest)
             s == f[h]
             next == t \o s
             g == Grown(f)[next]
             one == <<h>>
  <1>1. h \in T /\ t \in Seq(T) /\ Range(rest) = {h} \cup Range(t)
    BY RangeOfRest
  <1>2. s \in Seq(T)
    BY <1>1 DEF Descending
  <1>3. Unrolls(T, f)
    BY LoopResult
  <1>4. Grown(f) \in [Seq(T) -> Seq(T)] /\ next \in Seq(T) /\ Grown(f)[rest] = one \o g
    BY <1>3 DEF Unrolls
  <1>5. g \in Seq(T)
    BY <1>4
  <1>6. one \in Seq(T) /\ Range(one) = {h}
    BY <1>1 DEF Range
  <1>7. Range(next) = Range(t) \cup Range(s)
    <2>1. t \in Seq(T) /\ s \in Seq(T)
      BY <1>1, <1>2
    <2> HIDE DEF t, s
    <2> QED BY <2>1, RangeOfConcat
  <1>8. Range(Grown(f)[rest]) = {h} \cup Range(g)
    <2>1. one \in Seq(T) /\ g \in Seq(T)
      BY <1>5, <1>6
    <2> HIDE DEF one, g
    <2>2. Range(one \o g) = Range(one) \cup Range(g)
      BY <2>1, RangeOfConcat
    <2> QED BY <1>4, <1>6, <2>2
  <1> QED BY <1>1, <1>2, <1>4, <1>5, <1>7, <1>8, Zenon DEF Reaches

\* The loop stays within types that are closed under chains.
LEMMA LoopStaysWithin ==
  ASSUME NEW T, NEW N \in Nat, NEW rank \in [T -> 0..N], NEW f \in Descending(T, rank),
         NEW S \in SUBSET T, \A t \in S : Range(f[t]) \subseteq S,
         NEW types \in Seq(T), Range(types) \subseteq S
  PROVE  Range(Grown(f)[types]) \subseteq S
  <1> DEFINE Q == {rest \in Seq(T) :
                     Range(rest) \subseteq S => Range(Grown(f)[rest]) \subseteq S}
  <1>1. <<>> \in Q
    <2>1. <<>> \in Seq(T) /\ Grown(f)[<<>>] = <<>>
      BY LoopResult DEF Unrolls
    <2> QED BY <2>1
  <1>2. ASSUME NEW rest \in Seq(T), rest # <<>>, Tail(rest) \o f[Head(rest)] \in Q
        PROVE  rest \in Q
    <2> DEFINE next == Tail(rest) \o f[Head(rest)]
    <2>1. Reaches(T, f, rest)
      BY <1>2, LoopStep
    <2>2. /\ Head(rest) \in T
          /\ Range(rest) = {Head(rest)} \cup Range(Tail(rest))
          /\ Range(next) = Range(Tail(rest)) \cup Range(f[Head(rest)])
          /\ Range(Grown(f)[rest]) = {Head(rest)} \cup Range(Grown(f)[next])
      BY <2>1, Zenon DEF Reaches
    <2>3. next \in Q
      BY <1>2
    <2> HIDE DEF next
    <2> QED BY <2>2, <2>3
  <1>3. Seq(T) \subseteq Q
    <2> HIDE DEF Q
    <2> QED BY <1>1, <1>2, LoopInduction
  <1> QED BY <1>3

\* The loop leaves out nothing that was left to it, and no chain of a type it
\* has reached.
LEMMA LoopIsComplete ==
  ASSUME NEW T, NEW N \in Nat, NEW rank \in [T -> 0..N], NEW f \in Descending(T, rank),
         NEW types \in Seq(T)
  PROVE  /\ Range(types) \subseteq Range(Grown(f)[types])
         /\ \A t \in Range(Grown(f)[types]) : Range(f[t]) \subseteq Range(Grown(f)[types])
  <1> DEFINE Complete(rest) ==
               /\ Range(rest) \subseteq Range(Grown(f)[rest])
               /\ \A t \in Range(Grown(f)[rest]) : Range(f[t]) \subseteq Range(Grown(f)[rest])
             Q == {rest \in Seq(T) : Complete(rest)}
  <1>1. <<>> \in Q
    <2>1. <<>> \in Seq(T) /\ Grown(f)[<<>>] = <<>> /\ Range(<<>>) = {}
      BY LoopResult DEF Unrolls, Range
    <2> QED BY <2>1
  <1>2. ASSUME NEW rest \in Seq(T), rest # <<>>, Tail(rest) \o f[Head(rest)] \in Q
        PROVE  rest \in Q
    <2> DEFINE next == Tail(rest) \o f[Head(rest)]
    <2>1. Reaches(T, f, rest)
      BY <1>2, LoopStep
    <2>2. /\ Range(rest) = {Head(rest)} \cup Range(Tail(rest))
          /\ Range(next) = Range(Tail(rest)) \cup Range(f[Head(rest)])
          /\ Range(Grown(f)[rest]) = {Head(rest)} \cup Range(Grown(f)[next])
      BY <2>1, Zenon DEF Reaches
    <2>3. Complete(next)
      BY <1>2
    <2> HIDE DEF next
    <2>4. Complete(rest)
      BY <2>2, <2>3
    <2> QED BY <2>4
  <1>3. Seq(T) \subseteq Q
    <2> HIDE DEF Q
    <2> QED BY <1>1, <1>2, LoopInduction
  <1> QED BY <1>3

\* The loop appends.
LEMMA LoopAppends ==
  ASSUME NEW T, NEW N \in Nat, NEW rank \in [T -> 0..N], NEW f \in Descending(T, rank),
         NEW types \in Seq(T)
  PROVE  /\ Len(types) <= Len(Grown(f)[types])
         /\ \A j \in 1..Len(types) : Grown(f)[types][j] = types[j]
  <1> DEFINE Prefix(rest) == /\ Len(rest) <= Len(Grown(f)[rest])
                             /\ \A j \in 1..Len(rest) : Grown(f)[rest][j] = rest[j]
             Q == {rest \in Seq(T) : Prefix(rest)}
  <1>1. <<>> \in Q
    <2>1. <<>> \in Seq(T) /\ Grown(f)[<<>>] = <<>>
      BY LoopResult DEF Unrolls
    <2> QED BY <2>1
  <1>2. ASSUME NEW rest \in Seq(T), rest # <<>>, Tail(rest) \o f[Head(rest)] \in Q
        PROVE  rest \in Q
    <2> DEFINE s == f[Head(rest)]
               next == Tail(rest) \o s
               g == Grown(f)[next]
    <2>1. Reaches(T, f, rest)
      BY <1>2, LoopStep
    <2>2. /\ Head(rest) \in T /\ s \in Seq(T) /\ next \in Seq(T) /\ g \in Seq(T)
          /\ Grown(f)[rest] = <<Head(rest)>> \o g
      BY <2>1, Zenon DEF Reaches
    <2>3. Len(next) <= Len(g) /\ \A j \in 1..Len(next) : g[j] = next[j]
      BY <1>2
    <2>4. /\ Len(next) = Len(rest) - 1 + Len(s) /\ Head(rest) = rest[1]
          /\ \A j \in 1..Len(next) : j < Len(rest) => next[j] = rest[j + 1]
      BY <1>2, <2>2, NextRest
    <2>5. Len(rest) \in Nat /\ Len(rest) > 0 /\ Len(s) \in Nat /\ Len(g) \in Nat
      BY <1>2, <2>2
    <2>6. /\ Len(Grown(f)[rest]) = Len(g) + 1
          /\ Grown(f)[rest][1] = Head(rest)
          /\ \A j \in 1..Len(g) : Grown(f)[rest][j + 1] = g[j]
      <3> HIDE DEF g
      <3> QED BY <2>2
    <2> HIDE DEF s, next, g
    <2>7. ASSUME NEW j \in 1..Len(rest)
          PROVE  Grown(f)[rest][j] = rest[j]
      <3>1. CASE j = 1
        BY <2>4, <2>6, <3>1
      <3>2. CASE j # 1
        <4>1. /\ j - 1 \in 1..Len(next) /\ j - 1 \in 1..Len(g) /\ j - 1 < Len(rest)
              /\ (j - 1) + 1 = j
          BY <2>3, <2>4, <2>5, <3>2
        <4> QED BY <2>3, <2>4, <2>6, <4>1
      <3> QED BY <3>1, <3>2
    <2>8. Len(rest) <= Len(Grown(f)[rest])
      BY <2>3, <2>4, <2>5, <2>6
    <2> QED BY <2>7, <2>8
  <1>3. Seq(T) \subseteq Q
    <2> HIDE DEF Q
    <2> QED BY <1>1, <1>2, LoopInduction
  <1> QED BY <1>3

\* The chains of types the loop does not reach do not matter to it.
AgreesWithin(S, e, f) == \A t \in S : Range(f[t]) \subseteq S /\ e[t] = f[t]

LEMMA LoopAgrees ==
  ASSUME NEW T, NEW N \in Nat, NEW rank \in [T -> 0..N],
         NEW f \in Descending(T, rank), NEW e \in Descending(T, rank),
         NEW S \in SUBSET T, AgreesWithin(S, e, f)
  PROVE  \A types \in Seq(T) : Range(types) \subseteq S => Grown(e)[types] = Grown(f)[types]
  <1> DEFINE Q == {rest \in Seq(T) :
                     Range(rest) \subseteq S => Grown(e)[rest] = Grown(f)[rest]}
  <1>1. <<>> \in Q
    <2>1. <<>> \in Seq(T) /\ Grown(f)[<<>>] = <<>> /\ Grown(e)[<<>>] = <<>>
      BY LoopResult DEF Unrolls
    <2> QED BY <2>1
  <1>2. ASSUME NEW rest \in Seq(T), rest # <<>>, Tail(rest) \o f[Head(rest)] \in Q
        PROVE  rest \in Q
    <2> SUFFICES ASSUME Range(rest) \subseteq S
                 PROVE  Grown(e)[rest] = Grown(f)[rest]
      OBVIOUS
    <2> DEFINE next == Tail(rest) \o f[Head(rest)]
    <2>1. Reaches(T, f, rest) /\ Reaches(T, e, rest)
      BY <1>2, LoopStep
    <2>2. /\ Range(rest) = {Head(rest)} \cup Range(Tail(rest))
          /\ Range(next) = Range(Tail(rest)) \cup Range(f[Head(rest)])
          /\ Grown(f)[rest] = <<Head(rest)>> \o Grown(f)[next]
      BY <2>1, Zenon DEF Reaches
    <2>3. Grown(e)[rest] = <<Head(rest)>> \o Grown(e)[Tail(rest) \o e[Head(rest)]]
      BY <2>1, Zenon DEF Reaches
    <2>4. e[Head(rest)] = f[Head(rest)] /\ Range(next) \subseteq S
      BY <2>2 DEF AgreesWithin
    <2> QED BY <1>2, <2>2, <2>3, <2>4
  <1>3. Seq(T) \subseteq Q
    <2> HIDE DEF Q
    <2> QED BY <1>1, <1>2, LoopInduction
  <1> QED BY <1>3

-----------------------------------------------------------------------------
(***************************************************************************)
(* The recursion: it ends after as many calls within one another as types. *)
(***************************************************************************)
\* F can be applied again and again.
Repeats(S, s, F) ==
  \E g \in [Nat -> S] : g[0] = s /\ \A n \in Nat : g[n + 1] = F[g[n]]

LEMMA Repetition ==
  ASSUME NEW S, NEW s \in S, NEW F \in [S -> S]
  PROVE  Repeats(S, s, F)
  <1> DEFINE X == Nat \X S
             Closed(R) == /\ <<0, s>> \in R
                          /\ \A n \in Nat, x \in S :
                               <<n, x>> \in R => <<n + 1, F[x]>> \in R
             Rel == {p \in X : \A R \in SUBSET X : Closed(R) => p \in R}
  <1>1. Closed(Rel)
    <2>1. \A n \in Nat, x \in S : <<n + 1, F[x]>> \in X
      OBVIOUS
    <2> QED BY <2>1
  <1> DEFINE First(p) == p[1] = 0 /\ p[2] = s
             Later(p) == \E n \in Nat, x \in S :
                           <<n, x>> \in Rel /\ p[1] = n + 1 /\ p[2] = F[x]
             Some == {p \in Rel : First(p) \/ Later(p)}
  <1>2. Some \in SUBSET X
    OBVIOUS
  <1>3. Closed(Some)
    <2>1. <<0, s>> \in Some
      <3>1. <<0, s>> \in Rel
        BY <1>1
      <3> QED BY <3>1
    <2>2. ASSUME NEW n \in Nat, NEW x \in S, <<n, x>> \in Some
          PROVE  <<n + 1, F[x]>> \in Some
      <3>1. <<n, x>> \in Rel
        BY <2>2
      <3>2. <<n + 1, F[x]>> \in Rel
        BY <1>1, <3>1
      <3>3. Later(<<n + 1, F[x]>>)
        <4> HIDE DEF Rel
        <4> QED BY <3>1
      <3> HIDE DEF Rel, First, Later
      <3> QED BY <3>2, <3>3
    <2> QED BY <2>1, <2>2
  <1>4. \A p \in Rel : First(p) \/ Later(p)
    <2>1. Rel \subseteq Some
      <3> HIDE DEF Some, Closed
      <3> QED BY <1>2, <1>3
    <2> HIDE DEF Rel, First, Later
    <2> QED BY <2>1
  <1>5. Rel \subseteq X
    OBVIOUS
  <1> HIDE DEF Rel, Some
  <1> DEFINE One(n) == \E x \in S : <<n, x>> \in Rel /\ \A y \in S : <<n, y>> \in Rel => y = x
             Q == {n \in Nat : One(n)}
  <1>6. One(0)
    <2>1. ASSUME NEW y \in S, <<0, y>> \in Rel
          PROVE  y = s
      <3>1. ~Later(<<0, y>>)
        <4>1. \A n \in Nat : 0 # n + 1
          OBVIOUS
        <4> QED BY <4>1
      <3>2. First(<<0, y>>)
        <4> HIDE DEF First, Later
        <4> QED BY <1>4, <2>1, <3>1
      <3> QED BY <3>2
    <2> QED BY <1>1, <2>1
  <1>7. ASSUME NEW n \in Nat, One(n)
        PROVE  One(n + 1)
    <2>1. PICK x \in S : <<n, x>> \in Rel /\ \A y \in S : <<n, y>> \in Rel => y = x
      BY <1>7
    <2>2. <<n + 1, F[x]>> \in Rel /\ F[x] \in S
      BY <1>1, <2>1
    <2>3. ASSUME NEW y \in S, <<n + 1, y>> \in Rel
          PROVE  y = F[x]
      <3>1. Later(<<n + 1, y>>)
        <4>1. n + 1 # 0
          OBVIOUS
        <4>2. ~First(<<n + 1, y>>)
          BY <4>1
        <4> HIDE DEF First, Later
        <4> QED BY <1>4, <2>3, <4>2
      <3>2. PICK m \in Nat, z \in S : <<m, z>> \in Rel /\ n + 1 = m + 1 /\ y = F[z]
        BY <3>1
      <3>3. m = n
        BY <3>2
      <3> QED BY <2>1, <3>2, <3>3
    <2> QED BY <2>2, <2>3
  <1>8. Nat \subseteq Q
    <2>1. 0 \in Q /\ \A n \in Nat : n \in Q => n + 1 \in Q
      <3> HIDE DEF One
      <3> QED BY <1>6, <1>7
    <2> HIDE DEF Q
    <2> QED BY <2>1, CountingUp
  <1> DEFINE g == [n \in Nat |-> CHOOSE x \in S : <<n, x>> \in Rel]
  <1>9. \A n \in Nat :
          /\ g[n] \in S /\ <<n, g[n]>> \in Rel
          /\ \A y \in S : <<n, y>> \in Rel => y = g[n]
    <2> SUFFICES ASSUME NEW n \in Nat
                 PROVE  /\ g[n] \in S /\ <<n, g[n]>> \in Rel
                        /\ \A y \in S : <<n, y>> \in Rel => y = g[n]
      OBVIOUS
    <2>1. PICK x \in S : <<n, x>> \in Rel /\ \A y \in S : <<n, y>> \in Rel => y = x
      BY <1>8
    <2>2. g[n] = CHOOSE x_1 \in S : <<n, x_1>> \in Rel
      OBVIOUS
    <2> HIDE DEF g
    <2> QED BY <2>1, <2>2
  <1>10. g \in [Nat -> S]
    BY <1>9
  <1> HIDE DEF g
  <1>11. g[0] = s
    BY <1>1, <1>9
  <1>12. ASSUME NEW n \in Nat
         PROVE  g[n + 1] = F[g[n]]
    <2>1. g[n] \in S /\ <<n, g[n]>> \in Rel
      BY <1>9
    <2>2. <<n + 1, F[g[n]]>> \in Rel
      BY <1>1, <2>1
    <2>3. F[g[n]] \in S /\ n + 1 \in Nat
      BY <2>1
    <2> QED BY <1>9, <2>2, <2>3
  <1> QED BY <1>10, <1>11, <1>12 DEF Repeats

\* What one more call makes of chains that descend descends.
LEMMA LoopDescends ==
  ASSUME NEW T, NEW N \in Nat, NEW rank \in [T -> 0..N],
         NEW bases \in Descending(T, rank), NEW f \in Descending(T, rank)
  PROVE  [t \in T |-> Grown(f)[bases[t]]] \in Descending(T, rank)
  <1>1. ASSUME NEW t \in T
        PROVE  Grown(f)[bases[t]] \in Seq(T) /\ Below(Grown(f)[bases[t]], rank, rank[t])
    <2> DEFINE S == {u \in T : rank[u] < rank[t]}
    <2>1. /\ bases[t] \in Seq(T) /\ Below(bases[t], rank, rank[t])
          /\ \A u \in T : f[u] \in Seq(T) /\ Below(f[u], rank, rank[u])
      BY DEF Descending
    <2>2. Range(bases[t]) \subseteq S
      BY <2>1 DEF Below, Range
    <2>3. \A u \in S : Range(f[u]) \subseteq S
      <3> SUFFICES ASSUME NEW u \in S, NEW i \in DOMAIN f[u]
                   PROVE  f[u][i] \in S
        BY DEF Range
      <3>1. f[u][i] \in T /\ rank[f[u][i]] < rank[u] /\ rank[u] < rank[t]
        BY <2>1 DEF Below
      <3>2. rank[f[u][i]] \in Nat /\ rank[u] \in Nat /\ rank[t] \in Nat
        BY <3>1
      <3> QED BY <3>1, <3>2
    <2>4. Grown(f)[bases[t]] \in Seq(T)
      BY <2>1, LoopResult DEF Unrolls
    <2>5. Range(Grown(f)[bases[t]]) \subseteq S
      <3>1. S \in SUBSET T
        OBVIOUS
      <3> HIDE DEF S
      <3> QED BY <2>1, <2>2, <2>3, <3>1, LoopStaysWithin
    <2> QED BY <2>4, <2>5 DEF Below, Range
  <1> QED BY <1>1 DEF Descending

\* Every call makes the chains of one more.
Recurs(T, rank, bases) ==
  LET C == ChainsWithin(bases)
  IN \A n \in Nat : /\ C[n] \in Descending(T, rank)
                    /\ C[n + 1] = [t \in T |-> Grown(C[n])[bases[t]]]

LEMMA ChainsDescend ==
  ASSUME NEW T, NEW N \in Nat, NEW rank \in [T -> 0..N], NEW bases \in Descending(T, rank)
  PROVE  Recurs(T, rank, bases)
  <1> DEFINE none == [t \in T |-> <<>>]
             More(f) == [t \in T |-> Grown(f)[bases[t]]]
             D == Descending(T, rank)
             F == [f \in D |-> More(f)]
             Levels(c) == c = [n \in Nat |-> IF n = 0 THEN none ELSE More(c[n - 1])]
             C == ChainsWithin(bases)
  <1>1. DOMAIN bases = T
    BY DEF Descending
  <1>2. none \in D
    BY DEF Descending, Below
  <1>3. \A f \in D : More(f) \in D
    BY LoopDescends
  <1> HIDE DEF none, More, D
  <1>4. \E c \in [Nat -> D] : c[0] = none /\ \A n \in Nat : c[n + 1] = More(c[n])
    <2>1. F \in [D -> D]
      BY <1>3
    <2>2. \E c \in [Nat -> D] : c[0] = none /\ \A n \in Nat : c[n + 1] = F[c[n]]
      <3> HIDE DEF F
      <3>1. Repeats(D, none, F)
        BY <1>2, <2>1, Repetition
      <3> QED BY <3>1, Zenon DEF Repeats
    <2> QED BY <2>2
  <1>5. \E c : Levels(c)
    <2>1. PICK c \in [Nat -> D] : c[0] = none /\ \A n \in Nat : c[n + 1] = More(c[n])
      BY <1>4
    <2>2. \A n \in Nat : c[n] = IF n = 0 THEN none ELSE More(c[n - 1])
      <3> SUFFICES ASSUME NEW n \in Nat, n # 0
                   PROVE  c[n] = More(c[n - 1])
        BY <2>1
      <3>1. n - 1 \in Nat /\ (n - 1) + 1 = n
        OBVIOUS
      <3> QED BY <2>1, <3>1
    <2>3. c = [n \in Nat |-> c[n]]
      OBVIOUS
    <2> QED BY <2>2, <2>3
  <1>6. C = CHOOSE c : Levels(c)
    BY <1>1 DEF ChainsWithin, none, More
  <1> HIDE DEF C
  <1>7. Levels(C)
    <2> HIDE DEF Levels
    <2> QED BY <1>5, <1>6
  <1>8. C[0] = none /\ \A n \in Nat : C[n + 1] = More(C[n])
    <2>1. \A n \in Nat : C[n] = IF n = 0 THEN none ELSE More(C[n - 1])
      BY <1>7
    <2>2. ASSUME NEW n \in Nat
          PROVE  C[n + 1] = More(C[n])
      <3>1. n + 1 \in Nat /\ n + 1 # 0 /\ (n + 1) - 1 = n
        OBVIOUS
      <3> QED BY <2>1, <3>1
    <2> QED BY <2>1, <2>2
  <1> DEFINE Q == {n \in Nat : C[n] \in D}
  <1>9. Nat \subseteq Q
    <2>1. 0 \in Q /\ \A n \in Nat : n \in Q => n + 1 \in Q
      BY <1>2, <1>3, <1>8
    <2> HIDE DEF Q
    <2> QED BY <2>1, CountingUp
  <1> QED BY <1>8, <1>9 DEF C, More, D, Recurs

\* Chains of types that rank below n are found by n calls within one another.
LEMMA ChainsSettle ==
  ASSUME NEW T, NEW N \in Nat, NEW rank \in [T -> 0..N], NEW bases \in Descending(T, rank)
  PROVE  \A n \in Nat : \A t \in T : rank[t] < n =>
           ChainsWithin(bases)[n][t] = Grown(ChainsWithin(bases)[n])[bases[t]]
  <1> DEFINE C == ChainsWithin(bases)
             D == Descending(T, rank)
             Settled(n) == \A t \in T : rank[t] < n => C[n][t] = Grown(C[n])[bases[t]]
             Q == {n \in Nat : Settled(n)}
  <1>1. \A n \in Nat : C[n] \in D /\ C[n + 1] = [t \in T |-> Grown(C[n])[bases[t]]]
    <2>1. Recurs(T, rank, bases)
      BY ChainsDescend
    <2> QED BY <2>1 DEF Recurs
  <1> HIDE DEF C
  <1>2. Settled(0)
    OBVIOUS
  <1>3. ASSUME NEW n \in Nat, Settled(n)
        PROVE  Settled(n + 1)
    <2> SUFFICES ASSUME NEW t \in T, rank[t] < n + 1
                 PROVE  C[n + 1][t] = Grown(C[n + 1])[bases[t]]
      OBVIOUS
    <2> DEFINE S == {u \in T : rank[u] < n}
               f == C[n]
               e == C[n + 1]
    <2>1. f \in D /\ e \in D /\ \A u \in T : e[u] = Grown(f)[bases[u]]
      <3>1. n + 1 \in Nat
        OBVIOUS
      <3>2. C[n] \in D /\ C[n + 1] \in D
        BY <1>1, <3>1
      <3>3. C[n + 1] = [u \in T |-> Grown(C[n])[bases[u]]]
        BY <1>1
      <3> QED BY <3>2, <3>3
    <2>2. \A u \in S : e[u] = f[u]
      BY <1>3, <2>1
    <2> HIDE DEF e, f
    <2>3. \A u \in S : Range(f[u]) \subseteq S
      <3> SUFFICES ASSUME NEW u \in S, NEW i \in DOMAIN f[u]
                   PROVE  f[u][i] \in S
        BY DEF Range
      <3>1. f[u] \in Seq(T) /\ Below(f[u], rank, rank[u])
        BY <2>1 DEF Descending
      <3>2. f[u][i] \in T /\ rank[f[u][i]] < rank[u]
        BY <3>1 DEF Below
      <3>3. rank[f[u][i]] \in Nat /\ rank[u] \in Nat
        BY <3>2
      <3> QED BY <3>2, <3>3
    <2>4. bases[t] \in Seq(T) /\ Range(bases[t]) \subseteq S
      <3>1. bases[t] \in Seq(T) /\ Below(bases[t], rank, rank[t])
        BY DEF Descending
      <3>2. \A i \in DOMAIN bases[t] : bases[t][i] \in T /\ rank[bases[t][i]] < n
        <4> SUFFICES ASSUME NEW i \in DOMAIN bases[t]
                     PROVE  bases[t][i] \in T /\ rank[bases[t][i]] < n
          OBVIOUS
        <4>1. bases[t][i] \in T /\ rank[bases[t][i]] < rank[t]
          BY <3>1 DEF Below
        <4>2. rank[bases[t][i]] \in Nat /\ rank[t] \in Nat
          BY <4>1
        <4> QED BY <4>1, <4>2
      <3> QED BY <3>1, <3>2 DEF Range
    <2>5. S \in SUBSET T
      OBVIOUS
    <2> HIDE DEF S
    <2>6. Grown(e)[bases[t]] = Grown(f)[bases[t]]
      <3>1. AgreesWithin(S, e, f)
        BY <2>2, <2>3 DEF AgreesWithin
      <3>2. f \in Descending(T, rank) /\ e \in Descending(T, rank)
        BY <2>1
      <3> HIDE DEF D, Settled, Q
      <3>3. \A types \in Seq(T) : Range(types) \subseteq S => Grown(e)[types] = Grown(f)[types]
        BY <2>5, <3>1, <3>2, LoopAgrees
      <3> QED BY <2>4, <3>3
    <2> QED BY <2>1, <2>6 DEF e
  <1>4. Nat \subseteq Q
    <2>1. 0 \in Q /\ \A n \in Nat : n \in Q => n + 1 \in Q
      BY <1>2, <1>3
    <2> HIDE DEF Q
    <2> QED BY <2>1, CountingUp
  <1> QED BY <1>4 DEF C

-----------------------------------------------------------------------------
(***************************************************************************)
(* Ancestors.                                                              *)
(***************************************************************************)
\* bases maps types to types it has entries for.
Derivations(bases) == \A t \in DOMAIN bases : bases[t] \in Seq(DOMAIN bases)

LEMMA DerivationsClosed ==
  ASSUME NEW bases, Derivations(bases)
  PROVE  \A t \in DOMAIN bases : Range(bases[t]) \subseteq DOMAIN bases
  BY DEF Derivations, Range

\* What inherits a type directly inherits it; what a base inherits is inherited.
LEMMA AncestorsClosed ==
  ASSUME NEW bases, \A u \in DOMAIN bases : Range(bases[u]) \subseteq DOMAIN bases,
         NEW t \in DOMAIN bases
  PROVE  /\ Range(bases[t]) \subseteq AncestorsOf(bases, t)
         /\ \A v \in AncestorsOf(bases, t) : Range(bases[v]) \subseteq AncestorsOf(bases, t)
  BY DEF AncestorsOf

\* What an ancestor inherits is inherited.
LEMMA AncestorsInherit ==
  ASSUME NEW bases, \A u \in DOMAIN bases : Range(bases[u]) \subseteq DOMAIN bases,
         NEW t \in DOMAIN bases, NEW v \in AncestorsOf(bases, t)
  PROVE  v \in DOMAIN bases /\ AncestorsOf(bases, v) \subseteq AncestorsOf(bases, t)
  <1> DEFINE S == AncestorsOf(bases, t)
  <1>1. v \in DOMAIN bases /\ S \in SUBSET DOMAIN bases
    BY DEF AncestorsOf
  <1>2. Range(bases[v]) \subseteq S /\ \A u \in S : Range(bases[u]) \subseteq S
    BY AncestorsClosed
  <1> HIDE DEF S
  <1>3. AncestorsOf(bases, v) \subseteq S
    BY <1>1, <1>2 DEF AncestorsOf
  <1> QED BY <1>1, <1>3 DEF S

\* Every ancestor is inherited through one of the bases.
LEMMA AncestorsStep ==
  ASSUME NEW bases, \A u \in DOMAIN bases : Range(bases[u]) \subseteq DOMAIN bases,
         NEW t \in DOMAIN bases, NEW x \in AncestorsOf(bases, t), x \notin Range(bases[t])
  PROVE  \E v \in Range(bases[t]) : x \in AncestorsOf(bases, v)
  <1> SUFFICES ASSUME \A v \in Range(bases[t]) : x \notin AncestorsOf(bases, v)
               PROVE  FALSE
    OBVIOUS
  <1> DEFINE S == {w \in DOMAIN bases :
                     /\ w # x
                     /\ \/ w \in Range(bases[t])
                        \/ \E v \in Range(bases[t]) : w \in AncestorsOf(bases, v)}
  <1>1. Range(bases[t]) \subseteq S
    OBVIOUS
  <1>2. ASSUME NEW w \in S, NEW y \in Range(bases[w])
        PROVE  y \in S
    <2>1. y \in DOMAIN bases
      OBVIOUS
    <2>2. PICK v \in Range(bases[t]) : y \in AncestorsOf(bases, v)
      <3>1. CASE w \in Range(bases[t])
        BY <3>1, AncestorsClosed
      <3>2. CASE \E v \in Range(bases[t]) : w \in AncestorsOf(bases, v)
        BY <3>2, AncestorsClosed
      <3> QED BY <3>1, <3>2
    <2> QED BY <2>1, <2>2
  <1>3. S \in SUBSET DOMAIN bases /\ x \notin S
    OBVIOUS
  <1> HIDE DEF S
  <1>4. x \in S
    BY <1>1, <1>2, <1>3 DEF AncestorsOf
  <1> QED BY <1>3, <1>4

\* The types whose chains one call of inheritanceChainOf computes.
Lineage(bases, type) == {type} \cup AncestorsOf(bases, type)

LEMMA LineageClosed ==
  ASSUME NEW bases, Derivations(bases), NEW type \in DOMAIN bases,
         NEW t \in Lineage(bases, type)
  PROVE  /\ t \in DOMAIN bases
         /\ Range(bases[t]) \subseteq AncestorsOf(bases, t)
         /\ AncestorsOf(bases, t) \subseteq AncestorsOf(bases, type)
  <1>1. \A u \in DOMAIN bases : Range(bases[u]) \subseteq DOMAIN bases
    BY DerivationsClosed
  <1>2. t \in DOMAIN bases /\ AncestorsOf(bases, t) \subseteq AncestorsOf(bases, type)
    BY <1>1, AncestorsInherit DEF Lineage
  <1> QED BY <1>1, <1>2, AncestorsClosed

-----------------------------------------------------------------------------
(***************************************************************************)
(* What inheritanceChainOf returns.                                        *)
(***************************************************************************)
\* f maps the types of a lineage to chains that are what the loop makes of the
\* bases; the rank of a type is the number of its ancestors.
Finds(bases, type, N, rank, f) ==
  LET T == Lineage(bases, type)
  IN /\ rank \in [T -> 0..N]
     /\ Restrict(bases, T) \in Descending(T, rank)
     /\ f \in Descending(T, rank)
     /\ \A t \in T : f[t] = Grown(f)[bases[t]]
     /\ InheritanceChainOf(bases, type) = f[type]

LEMMA ChainFound ==
  ASSUME NEW bases, Derivations(bases), IsFiniteSet(DOMAIN bases),
         NEW type \in DOMAIN bases, ChainEnds(bases, type)
  PROVE  \E N \in Nat : /\ N <= Cardinality(DOMAIN bases)
                        /\ \E rank, f : Finds(bases, type, N, rank, f)
  <1> DEFINE T == Lineage(bases, type)
             own == Restrict(bases, T)
             A(t) == AncestorsOf(bases, t)
             N == Cardinality(A(type))
             rank == [t \in T |-> Cardinality(A(t))]
             M == Cardinality(T)
             f == ChainsWithin(own)[M]
  <1>1. \A t \in T : /\ t \in DOMAIN bases
                     /\ Range(bases[t]) \subseteq A(t) /\ A(t) \subseteq A(type)
    BY LineageClosed
  <1>2. A(type) \subseteq DOMAIN bases /\ A(type) \subseteq T /\ T = {type} \cup A(type)
    BY DEF AncestorsOf, Lineage
  <1>3. \A t \in T : t \notin A(t)
    BY DEF ChainEnds, Lineage
  <1> HIDE DEF A, T
  <1>4. IsFiniteSet(A(type)) /\ N \in Nat /\ N <= Cardinality(DOMAIN bases)
    BY <1>2, FS_Subset, FS_CardinalityType
  <1>5. \A t \in T : IsFiniteSet(A(t)) /\ Cardinality(A(t)) \in Nat /\ Cardinality(A(t)) <= N
    BY <1>1, <1>4, FS_Subset, FS_CardinalityType
  <1>6. M = N + 1
    <2>1. type \in T /\ type \notin A(type) /\ T = A(type) \cup {type}
      BY <1>2, <1>3
    <2> QED BY <1>4, <2>1, FS_AddElement
  <1>7. rank \in [T -> 0..N]
    BY <1>4, <1>5
  <1>8. ASSUME NEW t \in T, NEW u \in Range(bases[t])
        PROVE  u \in T /\ rank[u] < rank[t]
    <2>1. u \in A(t) /\ u \in T
      BY <1>1, <1>2, <1>8
    <2>2. A(u) \subseteq A(t) /\ u \notin A(u)
      <3>1. \A v \in DOMAIN bases : Range(bases[v]) \subseteq DOMAIN bases
        BY DerivationsClosed
      <3>2. t \in DOMAIN bases /\ u \in A(t)
        BY <1>1, <2>1
      <3>3. A(u) \subseteq A(t)
        BY <3>1, <3>2, AncestorsInherit DEF A
      <3> QED BY <3>3, <2>1, <1>3
    <2>3. /\ Cardinality(A(u)) <= Cardinality(A(t))
          /\ Cardinality(A(u)) # Cardinality(A(t))
      BY <1>5, <2>1, <2>2, FS_Subset
    <2> QED BY <1>5, <2>1, <2>3
  <1>9. own \in Descending(T, rank)
    <2>1. \A t \in T : own[t] = bases[t]
      BY DEF Restrict
    <2>2. ASSUME NEW t \in T
          PROVE  bases[t] \in Seq(T) /\ Below(bases[t], rank, rank[t])
      <3>1. bases[t] \in Seq(DOMAIN bases)
        BY <1>1 DEF Derivations
      <3>2. \A i \in DOMAIN bases[t] : bases[t][i] \in T /\ rank[bases[t][i]] < rank[t]
        BY <1>8 DEF Range
      <3> HIDE DEF rank
      <3>3. bases[t] \in Seq(T)
        BY <3>1, <3>2
      <3> QED BY <3>2, <3>3 DEF Below
    <2> HIDE DEF rank
    <2> QED BY <2>1, <2>2 DEF Descending, Restrict
  <1> HIDE DEF rank, own, N, M
  <1>10. f \in Descending(T, rank)
    <2>1. Recurs(T, rank, own)
      BY <1>4, <1>7, <1>9, ChainsDescend
    <2>2. \A n \in Nat : ChainsWithin(own)[n] \in Descending(T, rank)
      BY <2>1, Zenon DEF Recurs
    <2>3. M \in Nat
      BY <1>4, <1>6
    <2> QED BY <2>2, <2>3
  <1>11. \A t \in T : f[t] = Grown(f)[bases[t]]
    <2>1. \A t \in T : rank[t] < M /\ own[t] = bases[t]
      BY <1>4, <1>6, <1>7 DEF Restrict, own
    <2>2. M \in Nat
      BY <1>4, <1>6
    <2>3. \A n \in Nat : \A t \in T : rank[t] < n =>
             ChainsWithin(own)[n][t] = Grown(ChainsWithin(own)[n])[own[t]]
      BY <1>4, <1>7, <1>9, ChainsSettle
    <2> QED BY <2>1, <2>2, <2>3
  <1>12. InheritanceChainOf(bases, type) = f[type]
    BY DEF InheritanceChainOf, Lineage, T, own, M
  <1> HIDE DEF f
  <1>13. Finds(bases, type, N, rank, f)
    BY <1>7, <1>9, <1>10, <1>11, <1>12 DEF Finds, T, own
  <1> QED BY <1>4, <1>13

\* A chain found holds the ancestors of its type.
LEMMA FoundComplete ==
  ASSUME NEW bases, Derivations(bases), NEW type \in DOMAIN bases,
         NEW N \in Nat, NEW rank, NEW f, Finds(bases, type, N, rank, f)
  PROVE  \A t \in Lineage(bases, type) :
           /\ f[t] \in Seq(Lineage(bases, type))
           /\ Range(f[t]) = AncestorsOf(bases, t)
  <1> DEFINE T == Lineage(bases, type)
             A(t) == AncestorsOf(bases, t)
  <1>1. /\ rank \in [T -> 0..N] /\ f \in Descending(T, rank)
        /\ \A t \in T : f[t] = Grown(f)[bases[t]]
        /\ \A t \in T : f[t] \in Seq(T)
    BY DEF Finds, Descending
  <1>2. \A t \in T : bases[t] \in Seq(T) /\ Below(bases[t], rank, rank[t])
    BY DEF Finds, Descending, Restrict
  <1>3. \A t \in T : /\ t \in DOMAIN bases
                     /\ Range(bases[t]) \subseteq A(t) /\ A(t) \subseteq A(type)
    BY LineageClosed
  <1>4. A(type) \subseteq T
    BY DEF Lineage
  <1>5. \A t \in T : \A u \in A(t) : A(u) \subseteq A(t)
    <2>1. \A u \in DOMAIN bases : Range(bases[u]) \subseteq DOMAIN bases
      BY DerivationsClosed
    <2> QED BY <1>3, <2>1, AncestorsInherit
  <1>6. \A t \in T : Range(f[t]) \subseteq T
    BY <1>1 DEF Range
  <1> HIDE DEF T
  <1>7. ASSUME NEW t \in T
        PROVE  Range(bases[t]) \subseteq Range(f[t])
               /\ \A u \in Range(f[t]) : Range(f[u]) \subseteq Range(f[t])
    <2> DEFINE types == bases[t]
    <2>1. types \in Seq(T)
      BY <1>2
    <2> HIDE DEF types
    <2>2. /\ Range(types) \subseteq Range(Grown(f)[types])
          /\ \A u \in Range(Grown(f)[types]) : Range(f[u]) \subseteq Range(Grown(f)[types])
      BY <1>1, <2>1, LoopIsComplete
    <2> QED BY <1>1, <2>2 DEF types
  <1>8. ASSUME NEW t \in T
        PROVE  A(t) \subseteq Range(f[t])
    <2> DEFINE S == Range(f[t])
    <2>1. Range(bases[t]) \subseteq S
      BY <1>7
    <2>2. \A u \in S : Range(bases[u]) \subseteq S
      BY <1>6, <1>7
    <2>3. S \in SUBSET DOMAIN bases
      BY <1>3, <1>6
    <2> HIDE DEF S
    <2>4. A(t) \subseteq S
      BY <2>1, <2>2, <2>3 DEF AncestorsOf
    <2> QED BY <2>4 DEF S
  <1> HIDE DEF A
  <1> DEFINE Within(n) == \A t \in T : rank[t] < n => Range(f[t]) \subseteq A(t)
             Q == {n \in Nat : Within(n)}
  <1>9. Within(0)
    BY <1>1
  <1>10. ASSUME NEW n \in Nat, Within(n)
         PROVE  Within(n + 1)
    <2> SUFFICES ASSUME NEW t \in T, rank[t] < n + 1
                 PROVE  Range(f[t]) \subseteq A(t)
      OBVIOUS
    <2> DEFINE S == {u \in T : u \in A(t) /\ rank[u] < n}
               types == bases[t]
    <2>1. S \in SUBSET T /\ S \subseteq A(t)
      OBVIOUS
    <2>2. \A u \in S : Range(f[u]) \subseteq S
      <3> SUFFICES ASSUME NEW u \in S, NEW i \in DOMAIN f[u]
                   PROVE  f[u][i] \in S
        BY DEF Range
      <3>1. f[u][i] \in T /\ rank[f[u][i]] < rank[u]
        BY <1>1 DEF Descending, Below
      <3>2. rank[f[u][i]] \in Nat /\ rank[u] \in Nat
        BY <1>1, <3>1
      <3>3. f[u][i] \in A(t)
        BY <1>5, <1>10 DEF Range
      <3> QED BY <3>1, <3>2, <3>3
    <2>3. types \in Seq(T) /\ Range(types) \subseteq S
      <3>1. \A i \in DOMAIN types : types[i] \in T /\ rank[types[i]] < rank[t]
        BY <1>2 DEF Below
      <3>2. \A i \in DOMAIN types : rank[types[i]] \in Nat /\ rank[t] \in Nat
        BY <1>1, <3>1
      <3>3. \A i \in DOMAIN types : types[i] \in A(t)
        BY <1>3 DEF Range
      <3>4. types \in Seq(T)
        BY <1>2
      <3> HIDE DEF types
      <3>5. \A i \in DOMAIN types : types[i] \in S
        BY <3>1, <3>2, <3>3
      <3> QED BY <3>4, <3>5 DEF Range
    <2> HIDE DEF S, types
    <2>4. Range(Grown(f)[types]) \subseteq S
      BY <1>1, <2>1, <2>2, <2>3, LoopStaysWithin
    <2> QED BY <1>1, <2>1, <2>4 DEF types
  <1>11. Nat \subseteq Q
    <2>1. 0 \in Q /\ \A n \in Nat : n \in Q => n + 1 \in Q
      <3> HIDE DEF Within
      <3> QED BY <1>9, <1>10
    <2> HIDE DEF Q
    <2> QED BY <2>1, CountingUp
  <1>12. \A t \in T : Range(f[t]) \subseteq A(t)
    <2>1. Within(N + 1)
      BY <1>11
    <2> QED BY <1>1, <2>1
  <1> QED BY <1>1, <1>8, <1>12 DEF T, A

\* The chain of a type above which no type inherits from itself holds its
\* ancestors, all of them and no other type.
THEOREM ChainHoldsAncestors ==
  ASSUME NEW bases, Derivations(bases), IsFiniteSet(DOMAIN bases),
         NEW type \in DOMAIN bases, ChainEnds(bases, type)
  PROVE  /\ InheritanceChainOf(bases, type) \in Seq(AncestorsOf(bases, type))
         /\ Range(InheritanceChainOf(bases, type)) = AncestorsOf(bases, type)
  <1> DEFINE chain == InheritanceChainOf(bases, type)
             T == Lineage(bases, type)
  <1>1. PICK N \in Nat : \E rank, f : Finds(bases, type, N, rank, f)
    BY ChainFound
  <1>2. PICK rank, f : Finds(bases, type, N, rank, f)
    BY <1>1
  <1>3. type \in T
    BY DEF Lineage
  <1>4. f[type] \in Seq(T) /\ Range(f[type]) = AncestorsOf(bases, type)
    BY <1>2, <1>3, FoundComplete
  <1>5. chain = f[type]
    BY <1>2 DEF Finds
  <1> HIDE DEF chain, T
  <1>6. chain \in Seq(T) /\ \A i \in DOMAIN chain : chain[i] \in AncestorsOf(bases, type)
    BY <1>4, <1>5 DEF Range
  <1>7. chain \in Seq(AncestorsOf(bases, type))
    BY <1>6
  <1> QED BY <1>4, <1>5, <1>7 DEF chain

-----------------------------------------------------------------------------
(***************************************************************************)
(* The order of the chain, of types that derive from one type each.        *)
(***************************************************************************)
LEMMA FirstAtIs ==
  ASSUME NEW T, NEW s \in Seq(T), NEW x, NEW i \in DOMAIN s, s[i] = x,
         \A j \in 1..(i - 1) : s[j] # x
  PROVE  FirstAt(s, x) = i
  <1> DEFINE First(k) == k \in DOMAIN s /\ s[k] = x /\ \A j \in 1..(k - 1) : s[j] # x
  <1>1. DOMAIN s = 1..Len(s) /\ Len(s) \in Nat
    OBVIOUS
  <1>2. First(i)
    OBVIOUS
  <1>3. \A k : First(k) => k = i
    <2> SUFFICES ASSUME NEW k, First(k), k # i
                 PROVE  FALSE
      OBVIOUS
    <2>1. k \in Nat /\ i \in Nat /\ k > 0 /\ i > 0
      BY <1>1
    <2>2. CASE k < i
      <3>1. k \in 1..(i - 1)
        BY <2>1, <2>2
      <3> QED BY <3>1
    <2>3. CASE i < k
      <3>1. i \in 1..(k - 1)
        BY <2>1, <2>3
      <3> QED BY <3>1
    <2> QED BY <2>1, <2>2, <2>3
  <1>4. FirstAt(s, x) = CHOOSE k \in DOMAIN s : s[k] = x /\ \A j \in 1..(k - 1) : s[j] # x
    BY DEF FirstAt
  <1> QED BY <1>2, <1>3, <1>4

LEMMA FirstAtFound ==
  ASSUME NEW T, NEW s \in Seq(T), NEW x \in Range(s)
  PROVE  /\ FirstAt(s, x) \in DOMAIN s
         /\ s[FirstAt(s, x)] = x
         /\ \A j \in 1..(FirstAt(s, x) - 1) : s[j] # x
  <1> DEFINE S == {i \in DOMAIN s : s[i] = x}
  <1>1. DOMAIN s = 1..Len(s) /\ Len(s) \in Nat
    OBVIOUS
  <1>2. S \in SUBSET Nat /\ S # {}
    BY <1>1 DEF Range
  <1>3. PICK i \in S : \A j \in S : i <= j
    <2> HIDE DEF S
    <2> QED BY <1>2, SmallestExists
  <1>4. i \in DOMAIN s /\ s[i] = x
    BY <1>3
  <1>5. \A j \in 1..(i - 1) : s[j] # x
    <2> SUFFICES ASSUME NEW j \in 1..(i - 1), s[j] = x
                 PROVE  FALSE
      OBVIOUS
    <2>1. j \in S /\ ~(i <= j)
      BY <1>1, <1>4
    <2> QED BY <1>3, <2>1
  <1>6. FirstAt(s, x) = i
    BY <1>4, <1>5, FirstAtIs
  <1> QED BY <1>4, <1>5, <1>6

LEMMA OneLong ==
  ASSUME NEW T, NEW s \in Seq(T), s # <<>>, Len(s) <= 1
  PROVE  s[1] \in T /\ s = <<s[1]>> /\ Len(s) = 1
  <1>1. Len(s) = 1
    <2>1. Len(s) \in Nat /\ Len(s) # 0
      BY EmptySeq
    <2> QED BY <2>1
  <1>2. s[1] \in T
    BY <1>1
  <1> DEFINE one == <<s[1]>>
  <1>3. one \in Seq(T) /\ Len(one) = 1 /\ one[1] = s[1]
    BY <1>2
  <1> HIDE DEF one
  <1>4. \A i \in 1..Len(s) : s[i] = one[i]
    BY <1>1, <1>3
  <1>5. s = one
    BY <1>1, <1>3, <1>4, SeqEqual
  <1> QED BY <1>1, <1>2, <1>5 DEF one

LEMMA NothingElse ==
  ASSUME NEW T, NEW b \in T, NEW s \in Seq(T)
  PROVE  Head(<<b>>) = b /\ Tail(<<b>>) \o s = s
  <1>1. Tail(<<b>>) = <<>>
    OBVIOUS
  <1>2. <<>> \o s = s
    BY ConcatEmptySeq
  <1> QED BY <1>1, <1>2

\* The chain f finds for a type without a base is empty; otherwise it is the
\* base, then the chain of the base, and then types that this chain holds.
Extends(bases, type, rank, f, t) ==
  \/ AncestorsOf(bases, t) = {} /\ bases[t] = <<>>
  \/ \E b \in Lineage(bases, type) :
       /\ bases[t] = <<b>> /\ rank[b] < rank[t]
       /\ AncestorsOf(bases, t) = {b} \cup AncestorsOf(bases, b)
       /\ b \notin AncestorsOf(bases, b)
       /\ FirstAt(f[t], b) = 1
       /\ \A u \in AncestorsOf(bases, b) : FirstAt(f[t], u) = FirstAt(f[b], u) + 1

LEMMA FoundSingle ==
  ASSUME NEW bases, Derivations(bases), NEW type \in DOMAIN bases,
         NEW N \in Nat, NEW rank, NEW f, Finds(bases, type, N, rank, f),
         NEW t \in Lineage(bases, type), Len(bases[t]) <= 1
  PROVE  Extends(bases, type, rank, f, t)
  <1> DEFINE T == Lineage(bases, type)
             A(u) == AncestorsOf(bases, u)
  <1>1. /\ rank \in [T -> 0..N] /\ f \in Descending(T, rank)
        /\ f[t] = Grown(f)[bases[t]]
    BY DEF Finds
  <1>2. bases[t] \in Seq(T) /\ Below(bases[t], rank, rank[t])
    BY DEF Finds, Descending, Restrict
  <1>3. \A u \in T : f[u] \in Seq(T) /\ Range(f[u]) = A(u)
    BY FoundComplete
  <1>4. \A u \in T : \A x \in A(u) : x \in T /\ rank[x] < rank[u]
    <2> SUFFICES ASSUME NEW u \in T, NEW x \in A(u)
                 PROVE  x \in T /\ rank[x] < rank[u]
      OBVIOUS
    <2>1. PICK i \in DOMAIN f[u] : x = f[u][i]
      BY <1>3 DEF Range
    <2>2. f[u] \in Seq(T) /\ Below(f[u], rank, rank[u])
      BY <1>1 DEF Descending
    <2> QED BY <2>1, <2>2 DEF Below
  <1> HIDE DEF T, A
  <1>5. CASE bases[t] = <<>>
    <2>1. f[t] = <<>>
      BY <1>1, <1>5, LoopResult DEF Unrolls
    <2>2. Range(f[t]) = {}
      BY <2>1 DEF Range
    <2> QED BY <1>3, <1>5, <2>2 DEF A, T, Extends
  <1>6. CASE bases[t] # <<>>
    <2> DEFINE b == bases[t][1]
               g == Grown(f)[f[b]]
    <2>1. bases[t] = <<b>> /\ b \in T /\ rank[b] < rank[t]
      <3>1. Len(bases[t]) = 1 /\ 1 \in DOMAIN bases[t]
        BY <1>2, <1>6, OneLong
      <3>2. bases[t] = <<b>> /\ b \in T
        BY <1>2, <1>6, OneLong
      <3> QED BY <1>2, <3>1, <3>2 DEF Below
    <2>2. f[b] \in Seq(T) /\ Range(f[b]) = A(b)
      BY <1>3, <2>1
    <2>3. f[t] = <<b>> \o g /\ g \in Seq(T)
      <3>1. Unrolls(T, f)
        BY <1>1, LoopResult
      <3>2. Head(bases[t]) = b /\ Tail(bases[t]) \o f[b] = f[b]
        <4>1. Head(<<b>>) = b /\ Tail(<<b>>) \o f[b] = f[b]
          BY <2>1, <2>2, NothingElse
        <4> QED BY <2>1, <4>1
      <3>3. Grown(f)[bases[t]] = <<b>> \o g
        <4> DEFINE rest == bases[t]
        <4>1. rest \in Seq(T) /\ rest # <<>>
          BY <1>2, <1>6
        <4>2. Grown(f)[rest] = <<Head(rest)>> \o Grown(f)[Tail(rest) \o f[Head(rest)]]
          <5> HIDE DEF rest
          <5> QED BY <3>1, <4>1, Zenon DEF Unrolls
        <4> QED BY <3>2, <4>2, Zenon
      <3>4. g \in Seq(T)
        BY <2>2, <3>1 DEF Unrolls
      <3> QED BY <1>1, <3>3, <3>4
    <2>4. Len(f[b]) <= Len(g) /\ \A j \in 1..Len(f[b]) : g[j] = f[b][j]
      <3> DEFINE types == f[b]
      <3>1. types \in Seq(T)
        BY <2>2
      <3> HIDE DEF types
      <3>2. /\ Len(types) <= Len(Grown(f)[types])
            /\ \A j \in 1..Len(types) : Grown(f)[types][j] = types[j]
        BY <1>1, <3>1, LoopAppends
      <3> QED BY <3>2 DEF types
    <2>5. Range(g) \subseteq A(b)
      <3> DEFINE types == f[b]
                 S == A(b)
      <3>1. types \in Seq(T) /\ Range(types) \subseteq S
        BY <2>2
      <3>2. S \in SUBSET T
        BY <1>4, <2>1
      <3>3. \A u \in S : Range(f[u]) \subseteq S
        <4>1. \A u \in DOMAIN bases : Range(bases[u]) \subseteq DOMAIN bases
          BY DerivationsClosed
        <4>2. b \in DOMAIN bases
          BY <2>1, LineageClosed DEF T
        <4>3. \A u \in S : A(u) \subseteq S
          BY <4>1, <4>2, AncestorsInherit DEF A
        <4> QED BY <1>3, <3>2, <4>3
      <3> HIDE DEF types, S
      <3>4. Range(Grown(f)[types]) \subseteq S
        BY <1>1, <3>1, <3>2, <3>3, LoopStaysWithin
      <3> QED BY <3>4 DEF types, S
    <2> HIDE DEF b, g
    <2>6. /\ Len(f[t]) = Len(g) + 1 /\ f[t][1] = b
          /\ \A j \in 1..Len(g) : f[t][j + 1] = g[j]
          /\ DOMAIN f[t] = 1..(Len(g) + 1) /\ f[t] \in Seq(T)
          /\ Len(g) \in Nat
      BY <2>1, <2>3
    <2>7. A(t) = {b} \cup A(b)
      <3>1. Range(<<b>>) = {b}
        BY DEF Range
      <3>2. <<b>> \in Seq(T)
        BY <2>1
      <3>3. Range(f[t]) = {b} \cup Range(g)
        <4> DEFINE one == <<b>>
        <4>1. one \in Seq(T)
          BY <3>2
        <4> HIDE DEF one
        <4>2. Range(one \o g) = Range(one) \cup Range(g)
          BY <2>3, <4>1, RangeOfConcat
        <4> QED BY <2>3, <3>1, <4>2 DEF one
      <3>4. Range(f[b]) \subseteq Range(g)
        <4>1. /\ DOMAIN f[b] = 1..Len(f[b]) /\ DOMAIN g = 1..Len(g)
              /\ Len(f[b]) \in Nat /\ Len(g) \in Nat
          BY <2>2, <2>3
        <4>2. \A j \in 1..Len(f[b]) : j \in 1..Len(g)
          BY <2>4, <4>1
        <4> QED BY <2>4, <4>1, <4>2 DEF Range
      <3> QED BY <1>3, <2>2, <2>5, <3>3, <3>4 DEF T
    <2>8. b \notin A(b)
      <3>1. rank[b] \in Nat
        BY <1>1, <2>1
      <3> QED BY <1>4, <2>1, <3>1
    <2>9. FirstAt(f[t], b) = 1
      <3>1. 1 \in DOMAIN f[t]
        BY <2>6
      <3> QED BY <2>6, <3>1, FirstAtIs
    <2>10. ASSUME NEW u \in A(b)
           PROVE  FirstAt(f[t], u) = FirstAt(f[b], u) + 1
      <3> DEFINE i == FirstAt(f[b], u)
      <3>1. i \in DOMAIN f[b] /\ f[b][i] = u /\ \A j \in 1..(i - 1) : f[b][j] # u
        BY <2>2, <2>10, FirstAtFound
      <3> HIDE DEF i
      <3>2. /\ i \in Nat /\ i > 0 /\ i <= Len(f[b]) /\ i <= Len(g)
            /\ Len(f[b]) \in Nat
        BY <2>2, <2>4, <2>6, <3>1, SMTT(40)
      <3>3. i + 1 \in DOMAIN f[t] /\ f[t][i + 1] = u
        BY <2>4, <2>6, <3>1, <3>2
      <3>4. ASSUME NEW j \in 1..((i + 1) - 1), f[t][j] = u
            PROVE  FALSE
        <4>1. CASE j = 1
          BY <2>6, <2>8, <2>10, <3>4, <4>1
        <4>2. CASE j # 1
          <5>1. /\ j - 1 \in 1..(i - 1) /\ j - 1 \in 1..Len(g) /\ j - 1 \in 1..Len(f[b])
                /\ (j - 1) + 1 = j
            BY <2>6, <3>2, <4>2
          <5>2. f[t][j] = f[b][j - 1]
            BY <2>4, <2>6, <5>1
          <5> QED BY <3>1, <3>4, <5>1, <5>2
        <4> QED BY <4>1, <4>2
      <3>5. FirstAt(f[t], u) = i + 1
        BY <2>6, <3>3, <3>4, FirstAtIs
      <3> QED BY <3>5 DEF i
    <2> QED BY <2>1, <2>7, <2>8, <2>9, <2>10 DEF A, T, Extends
  <1> QED BY <1>5, <1>6

\* Types that derive from one type each.
SingleBases(bases) == \A t \in DOMAIN bases : Len(bases[t]) <= 1

LEMMA FoundInOrder ==
  ASSUME NEW bases, Derivations(bases), SingleBases(bases), NEW type \in DOMAIN bases,
         NEW N \in Nat, NEW rank, NEW f, Finds(bases, type, N, rank, f)
  PROVE  \A t \in Lineage(bases, type) :
           \A u \in AncestorsOf(bases, t) : \A v \in AncestorsOf(bases, u) :
             FirstAt(f[t], u) < FirstAt(f[t], v)
  <1> DEFINE T == Lineage(bases, type)
             A(u) == AncestorsOf(bases, u)
             InOrder(t) == \A u \in A(t) : \A v \in A(u) : FirstAt(f[t], u) < FirstAt(f[t], v)
             Orders(n) == \A t \in T : rank[t] < n => InOrder(t)
             Q == {n \in Nat : Orders(n)}
  <1>1. /\ rank \in [T -> 0..N] /\ \A t \in T : t \in DOMAIN bases
        /\ \A t \in T : f[t] \in Seq(T) /\ Range(f[t]) = A(t)
    BY FoundComplete, LineageClosed DEF Finds
  <1>2. \A t \in T : \A u \in A(t) : A(u) \subseteq A(t)
    <2>1. \A u \in DOMAIN bases : Range(bases[u]) \subseteq DOMAIN bases
      BY DerivationsClosed
    <2> QED BY <1>1, <2>1, AncestorsInherit
  <1>3. Orders(0)
    BY <1>1
  <1>4. ASSUME NEW n \in Nat, Orders(n)
        PROVE  Orders(n + 1)
    <2> SUFFICES ASSUME NEW t \in T, rank[t] < n + 1
                 PROVE  InOrder(t)
      OBVIOUS
    <2>1. CASE A(t) = {}
      BY <2>1
    <2>2. CASE A(t) # {}
      <3>1. PICK b \in T :
              /\ rank[b] < rank[t] /\ A(t) = {b} \cup A(b) /\ b \notin A(b)
              /\ FirstAt(f[t], b) = 1
              /\ \A u \in A(b) : FirstAt(f[t], u) = FirstAt(f[b], u) + 1
        <4>1. Len(bases[t]) <= 1
          BY <1>1 DEF SingleBases
        <4>2. Extends(bases, type, rank, f, t)
          BY <4>1, FoundSingle
        <4> QED BY <2>2, <4>2 DEF Extends
      <3>2. InOrder(b)
        <4>1. rank[b] \in Nat /\ rank[t] \in Nat
          BY <1>1
        <4>2. rank[b] < n
          BY <3>1, <4>1
        <4> HIDE DEF InOrder
        <4> QED BY <1>4, <4>2
      <3>3. \A u \in A(b) : FirstAt(f[b], u) \in Nat /\ FirstAt(f[b], u) > 0
        <4> SUFFICES ASSUME NEW u \in A(b)
                     PROVE  FirstAt(f[b], u) \in Nat /\ FirstAt(f[b], u) > 0
          OBVIOUS
        <4>1. f[b] \in Seq(T) /\ u \in Range(f[b])
          BY <1>1
        <4>2. FirstAt(f[b], u) \in DOMAIN f[b]
          BY <4>1, FirstAtFound
        <4> QED BY <4>1, <4>2
      <3> SUFFICES ASSUME NEW u \in A(t), NEW v \in A(u)
                   PROVE  FirstAt(f[t], u) < FirstAt(f[t], v)
        OBVIOUS
      <3> HIDE DEF T, A
      <3>4. CASE u = b
        BY <3>1, <3>3, <3>4
      <3>5. CASE u \in A(b)
        <4>1. v \in A(b)
          BY <1>2, <3>5
        <4>2. FirstAt(f[b], u) < FirstAt(f[b], v)
          BY <3>2, <3>5
        <4> QED BY <3>1, <3>3, <3>5, <4>1, <4>2
      <3> QED BY <3>1, <3>4, <3>5
    <2> QED BY <2>1, <2>2
  <1> HIDE DEF InOrder
  <1>5. Nat \subseteq Q
    <2>1. 0 \in Q /\ \A n \in Nat : n \in Q => n + 1 \in Q
      <3> HIDE DEF Orders
      <3> QED BY <1>3, <1>4
    <2> HIDE DEF Q
    <2> QED BY <2>1, CountingUp
  <1>6. \A t \in T : InOrder(t)
    <2>1. Orders(N + 1)
      BY <1>5
    <2> QED BY <1>1, <2>1
  <1> QED BY <1>6 DEF InOrder

\* If each type derives from one type, an ancestor comes in the chain before
\* everything it inherits from.
THEOREM ChainInOrder ==
  ASSUME NEW bases, Derivations(bases), IsFiniteSet(DOMAIN bases), SingleBases(bases),
         NEW type \in DOMAIN bases, ChainEnds(bases, type),
         NEW u \in AncestorsOf(bases, type), NEW v \in AncestorsOf(bases, u)
  PROVE  FirstAt(InheritanceChainOf(bases, type), u)
           < FirstAt(InheritanceChainOf(bases, type), v)
  <1>1. PICK N \in Nat : \E rank, f : Finds(bases, type, N, rank, f)
    BY ChainFound
  <1>2. PICK rank, f : Finds(bases, type, N, rank, f)
    BY <1>1
  <1>3. type \in Lineage(bases, type)
    BY DEF Lineage
  <1>4. FirstAt(f[type], u) < FirstAt(f[type], v)
    BY <1>2, <1>3, FoundInOrder
  <1>5. InheritanceChainOf(bases, type) = f[type]
    BY <1>2 DEF Finds
  <1> QED BY <1>4, <1>5

-----------------------------------------------------------------------------
(***************************************************************************)
(* Distances.                                                              *)
(***************************************************************************)
\* The types n derivations above a type derive, all of them, from the types
\* n + 1 above.
Ascends(bases, t) ==
  /\ Above(bases, t)[0] = {t}
  /\ \A n \in Nat :
       Above(bases, t)[n + 1] = UNION {Range(bases[u]) : u \in Above(bases, t)[n]}

LEMMA AboveFound ==
  ASSUME NEW bases, \A u \in DOMAIN bases : Range(bases[u]) \subseteq DOMAIN bases,
         NEW t \in DOMAIN bases
  PROVE  Ascends(bases, t)
  <1> DEFINE S == SUBSET DOMAIN bases
             Up(X) == UNION {Range(bases[u]) : u \in X}
             F == [X \in S |-> Up(X)]
             Levels(c) == c = [n \in Nat |-> IF n = 0 THEN {t} ELSE Up(c[n - 1])]
             a == Above(bases, t)
  <1>1. {t} \in S /\ \A X \in S : Up(X) \in S
    OBVIOUS
  <1>2. a = CHOOSE c : Levels(c)
    BY DEF Above
  <1> HIDE DEF Up, a, S
  <1>3. \E c \in [Nat -> S] : c[0] = {t} /\ \A n \in Nat : c[n + 1] = Up(c[n])
    <2>1. F \in [S -> S]
      BY <1>1
    <2>2. \E c \in [Nat -> S] : c[0] = {t} /\ \A n \in Nat : c[n + 1] = F[c[n]]
      <3> HIDE DEF F
      <3>1. Repeats(S, {t}, F)
        BY <1>1, <2>1, Repetition
      <3> QED BY <3>1, Zenon DEF Repeats
    <2> QED BY <2>2
  <1>4. \E c : Levels(c)
    <2>1. PICK c \in [Nat -> S] : c[0] = {t} /\ \A n \in Nat : c[n + 1] = Up(c[n])
      BY <1>3
    <2>2. \A n \in Nat : c[n] = IF n = 0 THEN {t} ELSE Up(c[n - 1])
      <3> SUFFICES ASSUME NEW n \in Nat, n # 0
                   PROVE  c[n] = Up(c[n - 1])
        BY <2>1
      <3>1. n - 1 \in Nat /\ (n - 1) + 1 = n
        OBVIOUS
      <3> QED BY <2>1, <3>1
    <2>3. c = [n \in Nat |-> c[n]]
      OBVIOUS
    <2> QED BY <2>2, <2>3
  <1>5. Levels(a)
    <2> HIDE DEF Levels
    <2> QED BY <1>2, <1>4
  <1>6. \A n \in Nat : a[n] = IF n = 0 THEN {t} ELSE Up(a[n - 1])
    BY <1>5
  <1>7. ASSUME NEW n \in Nat
        PROVE  a[n + 1] = Up(a[n])
    <2>1. n + 1 \in Nat /\ n + 1 # 0 /\ (n + 1) - 1 = n
      OBVIOUS
    <2> QED BY <1>6, <2>1
  <1> QED BY <1>6, <1>7 DEF Ascends, a, Up

\* With one base each, the types n + 1 derivations above a type are those n
\* above its base.
LEMMA AboveBase ==
  ASSUME NEW bases, NEW t, NEW b, bases[t] = <<b>>,
         Ascends(bases, t), Ascends(bases, b)
  PROVE  \A n \in Nat : Above(bases, t)[n + 1] = Above(bases, b)[n]
  <1> DEFINE up == Above(bases, t)
             over == Above(bases, b)
             Up(X) == UNION {Range(bases[u]) : u \in X}
             Q == {n \in Nat : up[n + 1] = over[n]}
  <1>1. up[0] = {t} /\ \A n \in Nat : up[n + 1] = Up(up[n])
    BY DEF Ascends
  <1>2. over[0] = {b} /\ \A n \in Nat : over[n + 1] = Up(over[n])
    BY DEF Ascends
  <1>3. Up({t}) = {b}
    <2>1. Range(<<b>>) = {b}
      BY DEF Range
    <2> QED BY <2>1
  <1> HIDE DEF up, over, Up
  <1>4. up[0 + 1] = over[0]
    <2>1. up[0 + 1] = Up(up[0])
      BY <1>1
    <2> QED BY <2>1, <1>1, <1>2, <1>3
  <1>5. ASSUME NEW n \in Nat, up[n + 1] = over[n]
        PROVE  up[(n + 1) + 1] = over[n + 1]
    <2>1. up[(n + 1) + 1] = Up(up[n + 1])
      BY <1>1
    <2> QED BY <2>1, <1>2, <1>5
  <1>6. Nat \subseteq Q
    <2>1. 0 \in Q /\ \A n \in Nat : n \in Q => n + 1 \in Q
      BY <1>4, <1>5
    <2> HIDE DEF Q
    <2> QED BY <2>1, CountingUp
  <1> QED BY <1>6 DEF up, over

\* In a chain an ancestor stands for the first time where its distance puts it.
LEMMA FoundAtDistance ==
  ASSUME NEW bases, Derivations(bases), SingleBases(bases), NEW type \in DOMAIN bases,
         NEW N \in Nat, NEW rank, NEW f, Finds(bases, type, N, rank, f)
  PROVE  \A t \in Lineage(bases, type) : \A u \in AncestorsOf(bases, t) :
           /\ FirstAt(f[t], u) \in 1..rank[t]
           /\ u \in Above(bases, t)[FirstAt(f[t], u)]
           /\ \A k \in 0..(FirstAt(f[t], u) - 1) : u \notin Above(bases, t)[k]
  <1> DEFINE T == Lineage(bases, type)
             A(u) == AncestorsOf(bases, u)
             At(t, u, d) == /\ d \in 1..rank[t] /\ u \in Above(bases, t)[d]
                            /\ \A k \in 0..(d - 1) : u \notin Above(bases, t)[k]
             Placed(t) == \A u \in A(t) : At(t, u, FirstAt(f[t], u))
             Places(n) == \A t \in T : rank[t] < n => Placed(t)
             Q == {n \in Nat : Places(n)}
  <1>1. /\ rank \in [T -> 0..N] /\ \A t \in T : t \in DOMAIN bases
        /\ \A t \in T : f[t] \in Seq(T) /\ Range(f[t]) = A(t)
    BY FoundComplete, LineageClosed DEF Finds
  <1>2. \A t \in T : Ascends(bases, t)
    <2>1. \A u \in DOMAIN bases : Range(bases[u]) \subseteq DOMAIN bases
      BY DerivationsClosed
    <2> QED BY <1>1, <2>1, AboveFound
  <1>3. \A t \in T : t \notin A(t)
    <2> SUFFICES ASSUME NEW t \in T, t \in A(t)
                 PROVE  FALSE
      OBVIOUS
    <2>1. PICK i \in DOMAIN f[t] : t = f[t][i]
      BY <1>1 DEF Range
    <2>2. Below(f[t], rank, rank[t])
      BY DEF Finds, Descending
    <2>3. rank[t] < rank[t] /\ rank[t] \in Nat
      BY <1>1, <2>1, <2>2 DEF Below
    <2> QED BY <2>3
  <1>4. Places(0)
    BY <1>1
  <1>5. ASSUME NEW n \in Nat, Places(n)
        PROVE  Places(n + 1)
    <2> SUFFICES ASSUME NEW t \in T, rank[t] < n + 1, NEW u \in A(t)
                 PROVE  At(t, u, FirstAt(f[t], u))
      OBVIOUS
    <2>1. PICK b \in T :
            /\ bases[t] = <<b>> /\ rank[b] < rank[t] /\ A(t) = {b} \cup A(b)
            /\ FirstAt(f[t], b) = 1
            /\ \A v \in A(b) : FirstAt(f[t], v) = FirstAt(f[b], v) + 1
      <3>1. Len(bases[t]) <= 1 /\ A(t) # {}
        BY <1>1 DEF SingleBases
      <3>2. Extends(bases, type, rank, f, t)
        BY <3>1, FoundSingle
      <3> QED BY <3>1, <3>2 DEF Extends
    <2>2. rank[b] \in Nat /\ rank[t] \in Nat
      BY <1>1
    <2>3. Placed(b)
      <3>1. rank[b] < n
        BY <2>1, <2>2
      <3> HIDE DEF Placed
      <3> QED BY <1>5, <3>1
    <2> DEFINE up == Above(bases, t)
               over == Above(bases, b)
    <2>4. up[0] = {t} /\ over[0] = {b} /\ \A k \in Nat : up[k + 1] = over[k]
      <3>1. Ascends(bases, t) /\ Ascends(bases, b)
        BY <1>2, <2>1
      <3>2. \A k \in Nat : Above(bases, t)[k + 1] = Above(bases, b)[k]
        BY <2>1, <3>1, AboveBase
      <3>3. Above(bases, t)[0] = {t} /\ Above(bases, b)[0] = {b}
        BY <3>1 DEF Ascends
      <3> QED BY <3>2, <3>3
    <2> HIDE DEF up, over
    <2>5. u # t
      BY <1>3
    <2>6. CASE u = b
      <3>1. 1 \in 1..rank[t] /\ u \in up[1]
        <4>1. up[0 + 1] = over[0] /\ 0 + 1 = 1
          BY <2>4
        <4> QED BY <2>1, <2>2, <2>4, <2>6, <4>1
      <3>2. \A k \in 0..(1 - 1) : u \notin up[k]
        BY <2>4, <2>5
      <3> QED BY <2>1, <2>6, <3>1, <3>2 DEF up
    <2>7. CASE u \in A(b)
      <3> DEFINE d == FirstAt(f[b], u)
      <3>1. d \in 1..rank[b] /\ u \in over[d] /\ \A k \in 0..(d - 1) : u \notin over[k]
        BY <2>3, <2>7 DEF over
      <3>2. FirstAt(f[t], u) = d + 1
        BY <2>1, <2>7
      <3> HIDE DEF d
      <3>3. d \in Nat /\ d + 1 \in 1..rank[t] /\ u \in up[d + 1]
        BY <2>1, <2>2, <2>4, <3>1
      <3>4. ASSUME NEW k \in 0..((d + 1) - 1)
            PROVE  u \notin up[k]
        <4>1. CASE k = 0
          BY <2>4, <2>5, <4>1
        <4>2. CASE k # 0
          <5>1. k - 1 \in Nat /\ (k - 1) + 1 = k /\ k - 1 \in 0..(d - 1)
            BY <3>3, <4>2
          <5>2. up[k] = over[k - 1]
            BY <2>4, <5>1
          <5> QED BY <3>1, <5>1, <5>2
        <4> QED BY <4>1, <4>2
      <3> QED BY <3>2, <3>3, <3>4 DEF up
    <2> QED BY <2>1, <2>6, <2>7
  <1> HIDE DEF Placed
  <1>6. Nat \subseteq Q
    <2>1. 0 \in Q /\ \A n \in Nat : n \in Q => n + 1 \in Q
      <3> HIDE DEF Places
      <3> QED BY <1>4, <1>5
    <2> HIDE DEF Q
    <2> QED BY <2>1, CountingUp
  <1>7. \A t \in T : Placed(t)
    <2>1. Places(N + 1)
      BY <1>6
    <2> QED BY <1>1, <2>1
  <1> QED BY <1>7 DEF Placed

\* A type is at the distance where it is found first.
LEMMA DistanceIs ==
  ASSUME NEW bases, NEW t, NEW u, Cardinality(DOMAIN bases) \in Nat,
         NEW d \in 0..Cardinality(DOMAIN bases), u \in Above(bases, t)[d],
         \A k \in 0..(d - 1) : u \notin Above(bases, t)[k]
  PROVE  Distance(bases, t, u) = d
  <1> DEFINE M == Cardinality(DOMAIN bases)
             above == Above(bases, t)
             First(n) == n \in 0..M /\ u \in above[n] /\ \A k \in 0..(n - 1) : u \notin above[k]
  <1>1. First(d)
    OBVIOUS
  <1>2. ASSUME NEW n, First(n), n # d
        PROVE  FALSE
    <2>1. n \in Nat /\ d \in Nat
      BY <1>2
    <2>2. CASE n < d
      <3>1. n \in 0..(d - 1)
        BY <2>1, <2>2
      <3> QED BY <1>1, <1>2, <3>1
    <2>3. CASE d < n
      <3>1. d \in 0..(n - 1)
        BY <2>1, <2>3
      <3> QED BY <1>1, <1>2, <3>1
    <2> QED BY <1>2, <2>1, <2>2, <2>3
  <1>3. Distance(bases, t, u) =
          CHOOSE n \in 0..M : u \in above[n] /\ \A k \in 0..(n - 1) : u \notin above[k]
    BY DEF Distance
  <1> HIDE DEF M, above
  <1> QED BY <1>1, <1>2, <1>3

\* If each type derives from one type, an ancestor comes in the chain for the
\* first time where the number of derivations between puts it.
THEOREM ChainByDistance ==
  ASSUME NEW bases, Derivations(bases), IsFiniteSet(DOMAIN bases), SingleBases(bases),
         NEW type \in DOMAIN bases, ChainEnds(bases, type)
  PROVE  /\ Distance(bases, type, type) = 0
         /\ \A u \in AncestorsOf(bases, type) :
              FirstAt(InheritanceChainOf(bases, type), u) = Distance(bases, type, u)
  <1> DEFINE M == Cardinality(DOMAIN bases)
  <1>1. M \in Nat
    BY FS_CardinalityType
  <1>2. PICK N \in Nat : N <= M /\ \E rank, f : Finds(bases, type, N, rank, f)
    BY ChainFound
  <1>3. PICK rank, f : Finds(bases, type, N, rank, f)
    BY <1>2
  <1>4. type \in Lineage(bases, type) /\ rank[type] \in 0..N
    BY <1>3 DEF Lineage, Finds
  <1>5. InheritanceChainOf(bases, type) = f[type]
    BY <1>3 DEF Finds
  <1>6. ASSUME NEW u \in AncestorsOf(bases, type)
        PROVE  FirstAt(f[type], u) = Distance(bases, type, u)
    <2> DEFINE d == FirstAt(f[type], u)
    <2>1. /\ d \in 1..rank[type] /\ u \in Above(bases, type)[d]
          /\ \A k \in 0..(d - 1) : u \notin Above(bases, type)[k]
      BY <1>3, <1>4, FoundAtDistance
    <2> HIDE DEF d
    <2>2. d \in 0..M
      BY <1>1, <1>2, <1>4, <2>1
    <2>3. Distance(bases, type, u) = d
      BY <1>1, <2>1, <2>2, DistanceIs
    <2> QED BY <2>3 DEF d
  <1>7. Distance(bases, type, type) = 0
    <2>1. \A u \in DOMAIN bases : Range(bases[u]) \subseteq DOMAIN bases
      BY DerivationsClosed
    <2>2. type \in Above(bases, type)[0]
      BY <2>1, AboveFound DEF Ascends
    <2>3. 0 \in 0..M /\ \A k \in 0..(0 - 1) : type \notin Above(bases, type)[k]
      BY <1>1
    <2> QED BY <1>1, <2>2, <2>3, DistanceIs
  <1> QED BY <1>5, <1>6, <1>7

\* While nobody refers to a prototype, each has one holder: an entry of the
\* typesystem or one register.  EntriesIntact alone is not inductive: what
\* keeps an entry alive is that no register holds its prototype.
OneHolder ==
  Keeps({"no_alias"}) =>
    /\ \A t \in Registered : Entry(t) # Null /\ Entry(t).name = t
    /\ \A t \in Registered, r \in Registers : registers[r] # typesystem[t]
    /\ \A r, s \in Registers : Held(r) /\ r # s => registers[r] # registers[s]

\* The typesystem is finite, methods are functions there are, and a prototype
\* derives from several types only in a program that has left a convention.
Plain ==
  /\ IsFiniteSet(Registered)
  /\ \A a \in Addresses : prototypes[a] # Null =>
       /\ \A m \in Methods : prototypes[a].methods[m] \in Functions \cup {Null}
       /\ Keeps({"single_base"}) => Len(prototypes[a].bases) <= 1

Inv == /\ TypeOK /\ OneHolder /\ BasesRegistered /\ AncestryAcyclic /\ NoCrash
       /\ Plain /\ MethodsResolve

-----------------------------------------------------------------------------
(***************************************************************************)
(* Prototypes are records.                                                 *)
(***************************************************************************)
LEMMA NewPrototypeType ==
  ASSUME NEW name \in Types, NEW pinned \in BOOLEAN
  PROVE  NewPrototype(name, pinned) \in Prototype
  BY DEF NewPrototype, Prototype

LEMMA AppendedBases ==
  ASSUME NEW p \in Prototype, NEW base \in Types
  PROVE  LET q == [p EXCEPT !.bases = Append(@, base)]
         IN /\ q \in Prototype
            /\ q.name = p.name
            /\ Range(q.bases) = Range(p.bases) \cup {base}
  <1> DEFINE longer == Append(p.bases, base)
  <1>1. p.bases \in Seq(Types)
    BY DEF Prototype
  <1>2. longer \in Seq(Types)
    BY <1>1
  <1>3. Range(longer) = Range(p.bases) \cup {base}
    <2> DEFINE n == Len(p.bases)
    <2>1. n \in Nat /\ DOMAIN p.bases = 1..n /\ DOMAIN longer = 1..(n + 1)
      BY <1>1
    <2>2. \A i \in 1..n : longer[i] = p.bases[i]
      BY <1>1
    <2>3. longer[n + 1] = base
      BY <1>1
    <2> HIDE DEF longer, n
    <2>4. 1..(n + 1) = 1..n \cup {n + 1}
      BY <2>1
    <2> QED BY <2>1, <2>2, <2>3, <2>4 DEF Range
  <1> HIDE DEF longer
  <1>4. [p EXCEPT !.bases = longer] \in Prototype
    BY <1>2 DEF Prototype
  <1>5. [p EXCEPT !.bases = longer].name = p.name /\ [p EXCEPT !.bases = longer].bases = longer
    BY DEF Prototype
  <1> QED BY <1>3, <1>4, <1>5 DEF longer

-----------------------------------------------------------------------------
(***************************************************************************)
(* Each operation keeps the types and the single holder.                   *)
(***************************************************************************)
Holding == TypeOK /\ OneHolder

LEMMA FreshIsUnused ==
  ASSUME Unused # {}
  PROVE  Fresh \in Addresses /\ prototypes[Fresh] = Null
  BY DEF Fresh, Unused

LEMMA ClassHolds ==
  ASSUME Holding, NEW r \in Registers, NEW n \in Names, Class(r, n)
  PROVE  Holding'
  <1> DEFINE old == registers[r]
             pinned == old # Null /\ prototypes[old].pinned
             new == NewPrototype(n, pinned)
  <1>1. Fresh \in Addresses /\ prototypes[Fresh] = Null
    BY FreshIsUnused DEF Class
  <1>2. /\ prototypes \in [Addresses -> Prototype \cup {Null}]
        /\ registers \in [Registers -> {a \in Addresses : prototypes[a] # Null} \cup {Null}]
        /\ typesystem \in [Types -> Addresses \cup {Null}]
        /\ broken \subseteq Conventions /\ crashed \in BOOLEAN
    BY DEF Holding, TypeOK
  <1>3. pinned \in BOOLEAN
    BY <1>2 DEF Prototype
  <1>4. new \in Prototype /\ new # Null
    BY <1>3, NewPrototypeType, NullAssumption DEF Types
  <1>5. /\ prototypes' = [a \in Addresses |->
             IF a = Fresh THEN new ELSE IF a = old THEN Null ELSE prototypes[a]]
        /\ registers' = [s \in Registers |->
             IF s = r \/ (old # Null /\ registers[s] = old) THEN Fresh ELSE registers[s]]
        /\ UNCHANGED <<typesystem, broken, crashed>>
    BY DEF Class
  <1> HIDE DEF pinned, new
  <1>6. TypeOK'
    <2>1. prototypes' \in [Addresses -> Prototype \cup {Null}]
      BY <1>1, <1>2, <1>4, <1>5
    <2>2. registers' \in [Registers -> {a \in Addresses : prototypes'[a] # Null} \cup {Null}]
      BY <1>1, <1>2, <1>4, <1>5, TypeSystemAssumption
    <2> QED BY <2>1, <2>2, <1>2, <1>5 DEF TypeOK
  <1>7. OneHolder'
    <2> SUFFICES ASSUME Keeps({"no_alias"})
                 PROVE  /\ \A t \in Registered : Entry(t)' # Null /\ Entry(t)'.name = t
                        /\ \A t \in Registered, s \in Registers : registers'[s] # typesystem[t]
                        /\ \A s, q \in Registers :
                             registers'[s] # Null /\ s # q => registers'[s] # registers'[q]
      BY <1>5 DEF OneHolder, Keeps, Registered, Held
    <2>1. /\ \A t \in Registered : Entry(t) # Null /\ Entry(t).name = t
          /\ \A t \in Registered, s \in Registers : registers[s] # typesystem[t]
          /\ \A s, q \in Registers : registers[s] # Null /\ s # q => registers[s] # registers[q]
      BY DEF Holding, OneHolder, Held
    <2>2. \A t \in Registered : typesystem[t] \in Addresses
      BY <1>2 DEF Registered
    <2>3. \A t \in Registered : Entry(t)' = Entry(t) /\ typesystem[t] # Fresh
      BY <1>1, <1>2, <1>5, <2>1, <2>2 DEF Entry
    <2>4. \A s \in Registers : registers'[s] = IF s = r THEN Fresh ELSE registers[s]
      BY <1>2, <1>5, <2>1
    <2>5. \A s \in Registers : registers[s] # Fresh
      BY <1>1, <1>2, TypeSystemAssumption
    <2> QED BY <2>1, <2>3, <2>4, <2>5
  <1> QED BY <1>6, <1>7 DEF Holding

LEMMA DeriveHolds ==
  ASSUME Holding, NEW r \in Registers, NEW base \in Types, Derive(r, base)
  PROVE  /\ Holding'
         /\ registers[r] \in Addresses
         /\ prototypes'[registers[r]] # Null
         /\ Range(prototypes'[registers[r]].bases)
              = Range(prototypes[registers[r]].bases) \cup {base}
  <1> DEFINE at == registers[r]
             longer == [prototypes[at] EXCEPT !.bases = Append(@, base)]
  <1>1. /\ prototypes \in [Addresses -> Prototype \cup {Null}]
        /\ registers \in [Registers -> {a \in Addresses : prototypes[a] # Null} \cup {Null}]
        /\ typesystem \in [Types -> Addresses \cup {Null}]
        /\ broken \subseteq Conventions /\ crashed \in BOOLEAN
    BY DEF Holding, TypeOK
  <1>2. at # Null /\ at \in Addresses /\ prototypes[at] \in Prototype
    BY <1>1 DEF Derive, Held
  <1>3. /\ longer \in Prototype /\ longer.name = prototypes[at].name
        /\ Range(longer.bases) = Range(prototypes[at].bases) \cup {base}
    BY <1>2, AppendedBases
  <1>4. /\ prototypes' = [prototypes EXCEPT ![at] = longer]
        /\ broken \subseteq broken' /\ broken' \subseteq broken \cup {"single_base"}
        /\ UNCHANGED <<registers, typesystem, crashed>>
    BY <1>1, <1>2 DEF Derive, Breaks
  <1> HIDE DEF longer
  <1>5. /\ prototypes'[at] = longer /\ longer # Null
        /\ \A a \in Addresses \ {at} : prototypes'[a] = prototypes[a]
    BY <1>1, <1>2, <1>3, <1>4, NullAssumption
  <1>6. TypeOK'
    <2>1. prototypes' \in [Addresses -> Prototype \cup {Null}]
      BY <1>1, <1>3, <1>4
    <2>2. registers' \in [Registers -> {a \in Addresses : prototypes'[a] # Null} \cup {Null}]
      BY <1>1, <1>2, <1>4, <1>5
    <2> QED BY <2>1, <2>2, <1>1, <1>4 DEF TypeOK, Conventions
  <1>7. OneHolder'
    <2>1. "no_alias" \notin broken' => "no_alias" \notin broken
      BY <1>4
    <2>2. \A t \in Registered : typesystem[t] \in Addresses
      BY <1>1 DEF Registered
    <2>3. \A t \in Registered : Entry(t) # Null /\ Entry(t).name = t
            => Entry(t)' # Null /\ Entry(t)'.name = t
      BY <1>1, <1>2, <1>3, <1>4, <1>5, <2>2 DEF Entry
    <2> QED BY <2>1, <2>3, <1>4 DEF Holding, OneHolder, Keeps, Registered, Held
  <1> QED BY <1>2, <1>3, <1>5, <1>6, <1>7 DEF Holding

LEMMA AttachHolds ==
  ASSUME Holding, NEW r \in Registers, NEW m \in Methods,
         NEW f \in Defined \cup Undefined, Attach(r, m, f)
  PROVE  /\ Holding'
         /\ \A a \in Addresses : prototypes'[a] # Null =>
              prototypes[a] # Null /\ prototypes'[a].bases = prototypes[a].bases
  <1> DEFINE at == registers[r]
             other == [prototypes[at] EXCEPT !.methods[m] = f]
  <1>1. /\ prototypes \in [Addresses -> Prototype \cup {Null}]
        /\ registers \in [Registers -> {a \in Addresses : prototypes[a] # Null} \cup {Null}]
        /\ typesystem \in [Types -> Addresses \cup {Null}]
        /\ broken \subseteq Conventions /\ crashed \in BOOLEAN
    BY DEF Holding, TypeOK
  <1>2. at # Null /\ at \in Addresses /\ prototypes[at] \in Prototype
    BY <1>1 DEF Attach, Held
  <1>3. /\ other \in Prototype /\ other.name = prototypes[at].name
        /\ other.bases = prototypes[at].bases
    BY <1>2 DEF Attach, Prototype, Functions
  <1>4. /\ prototypes' = [prototypes EXCEPT ![at] = other]
        /\ UNCHANGED <<registers, typesystem, broken, crashed>>
    BY <1>1, <1>2 DEF Attach
  <1> HIDE DEF other
  <1>5. /\ prototypes'[at] = other /\ other # Null
        /\ \A a \in Addresses \ {at} : prototypes'[a] = prototypes[a]
    BY <1>1, <1>2, <1>3, <1>4, NullAssumption
  <1>6. TypeOK'
    <2>1. prototypes' \in [Addresses -> Prototype \cup {Null}]
      BY <1>1, <1>3, <1>4
    <2>2. registers' \in [Registers -> {a \in Addresses : prototypes'[a] # Null} \cup {Null}]
      BY <1>1, <1>2, <1>4, <1>5
    <2> QED BY <2>1, <2>2, <1>1, <1>4 DEF TypeOK
  <1>7. OneHolder'
    <2>1. \A t \in Registered : typesystem[t] \in Addresses
      BY <1>1 DEF Registered
    <2>2. \A t \in Registered : Entry(t) # Null /\ Entry(t).name = t
            => Entry(t)' # Null /\ Entry(t)'.name = t
      BY <1>1, <1>2, <1>3, <1>4, <1>5, <2>1 DEF Entry
    <2> QED BY <2>2, <1>4 DEF Holding, OneHolder, Keeps, Registered, Held
  <1>8. prototypes[at] # Null
    BY <1>2, NullAssumption
  <1> QED BY <1>2, <1>3, <1>5, <1>6, <1>7, <1>8 DEF Holding

LEMMA RefHolds ==
  ASSUME Holding, NEW r \in Registers, NEW s \in Registers, Ref(r, s)
  PROVE  Holding'
  <1>1. /\ broken' = broken \cup {"no_alias"}
        /\ UNCHANGED <<prototypes, typesystem, crashed>>
        /\ registers' = [registers EXCEPT ![s] = registers[r]]
    BY DEF Ref, Breaks
  <1>2. TypeOK'
    BY <1>1 DEF Holding, TypeOK, Conventions
  <1>3. OneHolder'
    BY <1>1 DEF OneHolder, Keeps
  <1> QED BY <1>2, <1>3 DEF Holding

LEMMA CopyHolds ==
  ASSUME Holding, NEW r \in Registers, NEW s \in Registers, Copy(r, s)
  PROVE  Holding'
  <1> DEFINE new == NewPrototype(prototypes[registers[r]].name, FALSE)
  <1>1. Fresh \in Addresses /\ prototypes[Fresh] = Null
    BY FreshIsUnused DEF Copy
  <1>2. /\ prototypes \in [Addresses -> Prototype \cup {Null}]
        /\ registers \in [Registers -> {a \in Addresses : prototypes[a] # Null} \cup {Null}]
        /\ typesystem \in [Types -> Addresses \cup {Null}]
        /\ broken \subseteq Conventions /\ crashed \in BOOLEAN
    BY DEF Holding, TypeOK
  <1>3. prototypes[registers[r]] \in Prototype
    BY <1>2 DEF Copy, Held
  <1>4. new \in Prototype /\ new # Null
    <2>1. prototypes[registers[r]].name \in Types
      BY <1>3 DEF Prototype
    <2> QED BY <2>1, NewPrototypeType, NullAssumption
  <1>5. /\ prototypes' = [prototypes EXCEPT ![Fresh] = new]
        /\ registers' = [registers EXCEPT ![s] = Fresh]
        /\ UNCHANGED <<typesystem, broken, crashed>>
    BY DEF Copy
  <1> HIDE DEF new
  <1>6. TypeOK'
    <2>1. prototypes' \in [Addresses -> Prototype \cup {Null}]
      BY <1>1, <1>2, <1>4, <1>5
    <2>2. registers' \in [Registers -> {a \in Addresses : prototypes'[a] # Null} \cup {Null}]
      BY <1>1, <1>2, <1>4, <1>5, TypeSystemAssumption
    <2> QED BY <2>1, <2>2, <1>2, <1>5 DEF TypeOK
  <1>7. OneHolder'
    <2> SUFFICES ASSUME Keeps({"no_alias"})
                 PROVE  /\ \A t \in Registered : Entry(t)' # Null /\ Entry(t)'.name = t
                        /\ \A t \in Registered, q \in Registers : registers'[q] # typesystem[t]
                        /\ \A q, p \in Registers :
                             registers'[q] # Null /\ q # p => registers'[q] # registers'[p]
      BY <1>5 DEF OneHolder, Keeps, Registered, Held
    <2>1. /\ \A t \in Registered : Entry(t) # Null /\ Entry(t).name = t
          /\ \A t \in Registered, q \in Registers : registers[q] # typesystem[t]
          /\ \A q, p \in Registers : registers[q] # Null /\ q # p => registers[q] # registers[p]
      BY DEF Holding, OneHolder, Held
    <2>2. \A t \in Registered : typesystem[t] \in Addresses
      BY <1>2 DEF Registered
    <2>3. \A t \in Registered : Entry(t)' = Entry(t) /\ typesystem[t] # Fresh
      BY <1>1, <1>2, <1>5, <2>1, <2>2 DEF Entry
    <2>4. \A q \in Registers : registers'[q] = IF q = s THEN Fresh ELSE registers[q]
      BY <1>2, <1>5
    <2>5. \A q \in Registers : registers[q] # Fresh
      BY <1>1, <1>2, TypeSystemAssumption
    <2> QED BY <2>1, <2>3, <2>4, <2>5
  <1> QED BY <1>6, <1>7 DEF Holding

LEMMA FreeHolds ==
  ASSUME Holding, NEW r \in Registers, Free(r)
  PROVE  Holding'
  <1> DEFINE at == registers[r]
             last == ~prototypes[at].pinned /\ \A s \in Registers \ {r} : registers[s] # at
  <1>1. /\ prototypes \in [Addresses -> Prototype \cup {Null}]
        /\ registers \in [Registers -> {a \in Addresses : prototypes[a] # Null} \cup {Null}]
        /\ typesystem \in [Types -> Addresses \cup {Null}]
        /\ broken \subseteq Conventions /\ crashed \in BOOLEAN
    BY DEF Holding, TypeOK
  <1>2. /\ at # Null /\ at \in Addresses
        /\ prototypes' = IF last THEN [prototypes EXCEPT ![at] = Null] ELSE prototypes
        /\ registers' = [registers EXCEPT ![r] = Null]
        /\ UNCHANGED <<typesystem, broken, crashed>>
    BY <1>1 DEF Free, Held
  <1>3. last => \A s \in Registers \ {r} : registers[s] # at
    OBVIOUS
  <1> HIDE DEF last
  <1>4. /\ \A s \in Registers \ {r} : registers'[s] = registers[s]
        /\ registers'[r] = Null
        /\ \A a \in Addresses : a # at => prototypes'[a] = prototypes[a]
    BY <1>1, <1>2
  <1>5. TypeOK'
    <2>1. prototypes' \in [Addresses -> Prototype \cup {Null}]
      BY <1>1, <1>2
    <2>2. \A s \in Registers : registers'[s] # Null =>
            registers'[s] \in Addresses /\ prototypes'[registers'[s]] # Null
      BY <1>1, <1>2, <1>3, <1>4
    <2>3. registers' \in [Registers -> {a \in Addresses : prototypes'[a] # Null} \cup {Null}]
      BY <2>2, <1>1, <1>2
    <2> QED BY <2>1, <2>3, <1>1, <1>2 DEF TypeOK
  <1>6. OneHolder'
    <2> SUFFICES ASSUME Keeps({"no_alias"})
                 PROVE  /\ \A t \in Registered : Entry(t)' # Null /\ Entry(t)'.name = t
                        /\ \A t \in Registered, q \in Registers : registers'[q] # typesystem[t]
                        /\ \A q, p \in Registers :
                             registers'[q] # Null /\ q # p => registers'[q] # registers'[p]
      BY <1>2 DEF OneHolder, Keeps, Registered, Held
    <2>1. /\ \A t \in Registered : Entry(t) # Null /\ Entry(t).name = t
          /\ \A t \in Registered, q \in Registers : registers[q] # typesystem[t]
          /\ \A q, p \in Registers : registers[q] # Null /\ q # p => registers[q] # registers[p]
      BY DEF Holding, OneHolder, Held
    <2>2. \A t \in Registered : typesystem[t] \in Addresses /\ typesystem[t] # Null
      BY <1>1, TypeSystemAssumption DEF Registered
    <2>3. \A t \in Registered : Entry(t)' = Entry(t)
      BY <1>2, <1>4, <2>1, <2>2 DEF Entry
    <2> QED BY <2>1, <2>2, <2>3, <1>4
  <1> QED BY <1>5, <1>6 DEF Holding

\* What register does to the prototypes: the one handed over stays as it is,
\* and one that is lost was the entry of the same name.
LEMMA RegisterKeeps ==
  ASSUME Holding, NEW r \in Registers, Register(r)
  PROVE  LET at == registers[r]
             n == prototypes[at].name
         IN /\ at \in Addresses /\ at # Null /\ prototypes[at] # Null /\ n \in Types
            /\ typesystem' = [typesystem EXCEPT ![n] = at]
            /\ registers' = [registers EXCEPT ![r] = Null]
            /\ prototypes' \in [Addresses -> Prototype \cup {Null}]
            /\ prototypes'[at] # Null /\ prototypes'[at].name = n
            /\ prototypes'[at].bases = prototypes[at].bases
            /\ prototypes'[at].methods = prototypes[at].methods
            /\ \A b \in Addresses : b # at =>
                 \/ prototypes'[b] = prototypes[b]
                 \/ /\ prototypes'[b] = Null /\ b = typesystem[n]
                    /\ \A s \in Registers : registers[s] # b
  <1> DEFINE at == registers[r]
             n == prototypes[at].name
             kept == [prototypes[at] EXCEPT !.pinned = TRUE]
  <1>1. /\ prototypes \in [Addresses -> Prototype \cup {Null}]
        /\ registers \in [Registers -> {a \in Addresses : prototypes[a] # Null} \cup {Null}]
    BY DEF Holding, TypeOK
  <1>2. /\ at \in Addresses /\ at # Null /\ prototypes[at] # Null
        /\ prototypes[at] \in Prototype
    BY <1>1 DEF Register, Held
  <1>3. /\ n \in Types /\ kept \in Prototype /\ kept # Null
        /\ kept.name = n /\ kept.bases = prototypes[at].bases
        /\ kept.methods = prototypes[at].methods
    <2>1. /\ n \in Types /\ kept \in Prototype /\ kept.name = n
          /\ kept.bases = prototypes[at].bases /\ kept.methods = prototypes[at].methods
      BY <1>2 DEF Prototype
    <2> HIDE DEF kept, n
    <2> QED BY <2>1, NullAssumption
  <1>4. /\ typesystem' = [typesystem EXCEPT ![n] = at]
        /\ registers' = [registers EXCEPT ![r] = Null]
        /\ prototypes' = [b \in Addresses |->
              IF b = at THEN kept
              ELSE IF b = typesystem[n] /\ \A s \in Registers : registers[s] # b THEN Null
              ELSE prototypes[b]]
    BY DEF Register, Replaced
  <1> HIDE DEF kept, n, at
  <1>5. prototypes' \in [Addresses -> Prototype \cup {Null}]
    BY <1>1, <1>2, <1>3, <1>4
  <1>6. prototypes'[at] = kept
    BY <1>2, <1>4
  <1>7. \A b \in Addresses : b # at =>
          \/ prototypes'[b] = prototypes[b]
          \/ /\ prototypes'[b] = Null /\ b = typesystem[n]
             /\ \A s \in Registers : registers[s] # b
    BY <1>4
  <1> QED BY <1>2, <1>3, <1>4, <1>5, <1>6, <1>7 DEF n, at

LEMMA RegisterHolds ==
  ASSUME Holding, NEW r \in Registers, Register(r)
  PROVE  Holding'
  <1> DEFINE at == registers[r]
             n == prototypes[at].name
  <1>1. /\ prototypes \in [Addresses -> Prototype \cup {Null}]
        /\ registers \in [Registers -> {a \in Addresses : prototypes[a] # Null} \cup {Null}]
        /\ typesystem \in [Types -> Addresses \cup {Null}]
        /\ broken \subseteq Conventions /\ crashed \in BOOLEAN
    BY DEF Holding, TypeOK
  <1>2. /\ at \in Addresses /\ at # Null /\ prototypes[at] # Null /\ n \in Types
        /\ typesystem' = [typesystem EXCEPT ![n] = at]
        /\ registers' = [registers EXCEPT ![r] = Null]
        /\ prototypes' \in [Addresses -> Prototype \cup {Null}]
        /\ prototypes'[at] # Null /\ prototypes'[at].name = n
    BY RegisterKeeps
  <1>3. \A b \in Addresses : b # at =>
          \/ prototypes'[b] = prototypes[b]
          \/ /\ prototypes'[b] = Null /\ b = typesystem[n]
             /\ \A s \in Registers : registers[s] # b
    BY RegisterKeeps
  <1>4. /\ broken \subseteq broken' /\ broken' \subseteq Conventions
        /\ crashed' = crashed
    BY <1>1 DEF Register, Breaks, Conventions
  <1> HIDE DEF n
  <1>5. TypeOK'
    <2>1. \A s \in Registers : registers'[s] # Null =>
            registers'[s] \in Addresses /\ prototypes'[registers'[s]] # Null
      BY <1>1, <1>2, <1>3
    <2>2. registers' \in [Registers -> {a \in Addresses : prototypes'[a] # Null} \cup {Null}]
      BY <2>1, <1>1, <1>2
    <2>3. typesystem' \in [Types -> Addresses \cup {Null}]
      BY <1>1, <1>2
    <2> QED BY <2>2, <2>3, <1>1, <1>2, <1>4 DEF TypeOK
  <1>6. OneHolder'
    <2> SUFFICES ASSUME Keeps({"no_alias"})
                 PROVE  /\ \A t \in Types : typesystem'[t] # Null =>
                             /\ prototypes'[typesystem'[t]] # Null
                             /\ prototypes'[typesystem'[t]].name = t
                             /\ \A q \in Registers : registers'[q] # typesystem'[t]
                        /\ \A q, p \in Registers :
                             registers'[q] # Null /\ q # p => registers'[q] # registers'[p]
      BY <1>4 DEF OneHolder, Keeps, Registered, Held, Entry
    <2>1. /\ \A t \in Types : typesystem[t] # Null =>
               /\ prototypes[typesystem[t]] # Null
               /\ prototypes[typesystem[t]].name = t
               /\ \A q \in Registers : registers[q] # typesystem[t]
          /\ \A q, p \in Registers : registers[q] # Null /\ q # p => registers[q] # registers[p]
      BY DEF Holding, OneHolder, Held, Registered, Entry
    <2>2. \A q \in Registers : registers'[q] # at /\ registers'[q] \in {registers[q], Null}
      BY <1>1, <1>2, <2>1
    <2>3. typesystem'[n] = at /\ \A t \in Types \ {n} : typesystem'[t] = typesystem[t]
      BY <1>1, <1>2
    <2>4. ASSUME NEW t \in Types \ {n}, typesystem[t] # Null
          PROVE  prototypes'[typesystem[t]] = prototypes[typesystem[t]]
      <3>1. typesystem[t] \in Addresses /\ typesystem[t] # at
        BY <1>1, <2>1, <2>4
      <3>2. typesystem[t] # typesystem[n]
        BY <2>1, <2>4, <1>2
      <3> QED BY <1>3, <3>1, <3>2
    <2>5. \A q, p \in Registers :
            registers'[q] # Null /\ q # p => registers'[q] # registers'[p]
      BY <2>1, <1>1, <1>2
    <2>6. \A t \in Types \ {n} : typesystem'[t] # Null =>
            /\ prototypes'[typesystem'[t]] # Null
            /\ prototypes'[typesystem'[t]].name = t
            /\ \A q \in Registers : registers'[q] # typesystem'[t]
      BY <2>1, <2>2, <2>3, <2>4
    <2>7. /\ prototypes'[typesystem'[n]] # Null
          /\ prototypes'[typesystem'[n]].name = n
          /\ \A q \in Registers : registers'[q] # typesystem'[n]
      BY <1>2, <2>2, <2>3
    <2> QED BY <2>5, <2>6, <2>7
  <1> QED BY <1>5, <1>6 DEF Holding

LEMMA MessageHolds ==
  ASSUME Holding,
         \/ MsgNobody
         \/ \E t \in Types : Throw(t)
         \/ \E t \in Types \cup {BuiltIn}, m \in Methods : Msg(t, m)
  PROVE  Holding'
  <1>1. /\ UNCHANGED <<prototypes, registers, typesystem>>
        /\ crashed' \in BOOLEAN /\ broken \subseteq broken'
        /\ broken' \subseteq broken \cup {"has_receiver", "class_receiver"}
    BY DEF MsgNobody, Throw, Msg, Breaks, Searchable
  <1>2. TypeOK'
    BY <1>1 DEF Holding, TypeOK, Conventions
  <1>3. OneHolder'
    BY <1>1 DEF Holding, OneHolder, Keeps, Registered, Held, Entry
  <1> QED BY <1>2, <1>3 DEF Holding

LEMMA InitHolds ==
  ASSUME Init
  PROVE  Holding
  <1> DEFINE object == [NewPrototype(Object, FALSE) EXCEPT
                          !.methods = [m \in Methods |-> ObjectMethod]]
             plain == NewPrototype(Object, FALSE)
  <1>1. object \in Prototype /\ object.name = Object
    <2>1. plain \in Prototype
      BY NewPrototypeType DEF Types
    <2>2. plain.name = Object
      BY DEF NewPrototype
    <2> HIDE DEF plain
    <2>3. LET other == [plain EXCEPT !.methods = [m \in Methods |-> ObjectMethod]]
          IN other \in Prototype /\ other.name = Object
      BY <2>1, <2>2 DEF Prototype, Functions
    <2> QED BY <2>3 DEF plain
  <1>2. object # Null
    BY <1>1, NullAssumption
  <1>3. /\ prototypes = [a \in Addresses |-> IF a # 0 THEN Null ELSE object]
        /\ registers = [r \in Registers |-> Null]
        /\ typesystem = [t \in Types |-> IF t = Object THEN 0 ELSE Null]
        /\ broken = {} /\ crashed = FALSE
    BY DEF Init
  <1> HIDE DEF object
  <1>4. TypeOK
    BY <1>1, <1>3, TypeSystemAssumption DEF TypeOK, Types
  <1>5. OneHolder
    BY <1>1, <1>2, <1>3, TypeSystemAssumption
       DEF OneHolder, Keeps, Registered, Entry, Held
  <1> QED BY <1>4, <1>5 DEF Holding

LEMMA StepHolds ==
  ASSUME Holding, [Next]_vars
  PROVE  Holding'
  <1>1. CASE UNCHANGED vars
    BY <1>1 DEF vars, Holding, TypeOK, OneHolder, Keeps, Registered, Held, Entry
  <1>2. ASSUME NEW r \in Registers, Build(r)
        PROVE  Holding'
    <2>1. ASSUME NEW n \in Names, Class(r, n) PROVE Holding'
      BY <2>1, ClassHolds
    <2>2. ASSUME NEW t \in Types, Derive(r, t) PROVE Holding'
      BY <2>2, DeriveHolds
    <2>3. ASSUME NEW m \in Methods, NEW f \in Defined \cup Undefined, Attach(r, m, f)
          PROVE  Holding'
      BY <2>3, AttachHolds
    <2>4. ASSUME Register(r) PROVE Holding'
      BY <2>4, RegisterHolds
    <2>5. ASSUME NEW s \in Registers, Ref(r, s) \/ Copy(r, s) PROVE Holding'
      BY <2>5, RefHolds, CopyHolds
    <2>6. ASSUME Free(r) PROVE Holding'
      BY <2>6, FreeHolds
    <2> QED BY <1>2, <2>1, <2>2, <2>3, <2>4, <2>5, <2>6 DEF Build
  <1> QED BY <1>1, <1>2, MessageHolds DEF Next

-----------------------------------------------------------------------------
(***************************************************************************)
(* Bases are registered, and entries stay what they are.                   *)
(***************************************************************************)
LEMMA StepGrows ==
  ASSUME Holding, [Next]_vars
  PROVE  Registered \subseteq Registered' /\ broken \subseteq broken'
  <1>1. ASSUME NEW r \in Registers, Register(r)
        PROVE  Registered \subseteq Registered'
    <2>1. /\ registers[r] # Null
          /\ typesystem' = [typesystem EXCEPT ![prototypes[registers[r]].name] = registers[r]]
      BY <1>1, RegisterKeeps
    <2> QED BY <2>1 DEF Registered, Holding, TypeOK
  <1>2. UNCHANGED typesystem => Registered' = Registered
    BY DEF Registered
  <1> QED BY <1>1, <1>2
      DEF Next, vars, Build, Class, Derive, Attach, Register, Ref, Copy, Free,
          Throw, Msg, MsgNobody, Breaks

\* What a step leaves of, or does to, the prototype at an address.
Kept(a) ==
  /\ prototypes[a] # Null /\ prototypes'[a].bases = prototypes[a].bases
  /\ prototypes'[a].methods = prototypes[a].methods

Made(a) ==
  prototypes'[a].bases = <<>> /\ prototypes'[a].methods = [m \in Methods |-> Null]

Derived(a) ==
  /\ prototypes[a] # Null /\ prototypes'[a].methods = prototypes[a].methods
  /\ \E base \in Registered :
       /\ prototypes'[a].bases = Append(prototypes[a].bases, base)
       /\ Range(prototypes'[a].bases) = Range(prototypes[a].bases) \cup {base}
  /\ prototypes[a].bases # <<>> => "single_base" \in broken'

Attached(a) ==
  /\ prototypes[a] # Null /\ prototypes'[a].bases = prototypes[a].bases
  /\ \E f \in Defined : \A m \in Methods :
       prototypes'[a].methods[m] \in {f, prototypes[a].methods[m]}

LEMMA StepPrototypes ==
  ASSUME Holding, [Next]_vars, NEW a \in Addresses, prototypes'[a] # Null
  PROVE  Kept(a) \/ Made(a) \/ Derived(a) \/ Attached(a)
  <1>1. /\ prototypes \in [Addresses -> Prototype \cup {Null}]
        /\ registers \in [Registers -> {b \in Addresses : prototypes[b] # Null} \cup {Null}]
    BY DEF Holding, TypeOK
  <1>2. prototypes'[a] = prototypes[a] => Kept(a)
    BY DEF Kept
  <1>3. ASSUME NEW r \in Registers, NEW n \in Names, Class(r, n)
        PROVE  Kept(a) \/ Made(a)
    <2> DEFINE old == registers[r]
               pinned == old # Null /\ prototypes[old].pinned
    <2>1. prototypes'[a] = IF a = Fresh THEN NewPrototype(n, pinned)
                           ELSE IF a = old THEN Null ELSE prototypes[a]
      BY <1>3 DEF Class
    <2>2. CASE a = Fresh
      BY <2>1, <2>2 DEF NewPrototype, Made
    <2>3. CASE a # Fresh
      BY <2>1, <2>3, <1>2
    <2> QED BY <2>2, <2>3
  <1>4. ASSUME NEW r \in Registers, NEW base \in Types, Derive(r, base)
        PROVE  Kept(a) \/ Derived(a)
    <2> DEFINE at == registers[r]
               longer == [prototypes[at] EXCEPT !.bases = Append(@, base)]
    <2>1. /\ at \in Addresses /\ prototypes[at] # Null
          /\ Range(prototypes'[at].bases) = Range(prototypes[at].bases) \cup {base}
      BY <1>4, DeriveHolds DEF Derive, Held, Holding, TypeOK
    <2>2. prototypes' = [prototypes EXCEPT ![at] = longer] /\ base \in Registered
      BY <1>1, <1>4, <2>1 DEF Derive
    <2>3. prototypes[at].bases # <<>> => "single_base" \in broken'
      BY <1>4 DEF Derive, Breaks
    <2>4. /\ longer.methods = prototypes[at].methods
          /\ longer.bases = Append(prototypes[at].bases, base)
      BY <1>1, <2>1 DEF Prototype
    <2> HIDE DEF longer
    <2>5. CASE a = at
      <3>1. prototypes'[a] = longer
        BY <1>1, <2>2, <2>5
      <3> QED BY <2>1, <2>2, <2>3, <2>4, <2>5, <3>1 DEF Derived
    <2>6. CASE a # at
      BY <1>1, <1>2, <2>2, <2>6
    <2> QED BY <2>5, <2>6
  <1>5. ASSUME NEW r \in Registers, NEW m \in Methods, NEW f \in Defined \cup Undefined,
               Attach(r, m, f)
        PROVE  Kept(a) \/ Attached(a)
    <2> DEFINE at == registers[r]
               other == [prototypes[at] EXCEPT !.methods[m] = f]
    <2>1. /\ at \in Addresses /\ prototypes[at] # Null /\ f \in Defined
          /\ prototypes' = [prototypes EXCEPT ![at] = other]
      BY <1>1, <1>5 DEF Attach, Held
    <2>2. /\ other.bases = prototypes[at].bases
          /\ \A l \in Methods : other.methods[l] \in {f, prototypes[at].methods[l]}
      BY <1>1, <2>1 DEF Prototype
    <2> HIDE DEF other
    <2>3. CASE a = at
      <3>1. prototypes'[a] = other
        BY <1>1, <2>1, <2>3
      <3> QED BY <2>1, <2>2, <2>3, <3>1 DEF Attached
    <2>4. CASE a # at
      BY <1>1, <1>2, <2>1, <2>4
    <2> QED BY <2>3, <2>4
  <1>6. ASSUME NEW r \in Registers, Register(r)
        PROVE  Kept(a)
    BY <1>6, <1>2, RegisterKeeps DEF Kept
  <1>7. ASSUME NEW r \in Registers, NEW s \in Registers, Copy(r, s)
        PROVE  Kept(a) \/ Made(a)
    <2>1. prototypes'[a] = IF a = Fresh
                           THEN NewPrototype(prototypes[registers[r]].name, FALSE)
                           ELSE prototypes[a]
      BY <1>1, <1>7 DEF Copy
    <2>2. CASE a = Fresh
      BY <2>1, <2>2 DEF NewPrototype, Made
    <2>3. CASE a # Fresh
      BY <2>1, <2>3, <1>2
    <2> QED BY <2>2, <2>3
  <1>8. ASSUME NEW r \in Registers, Free(r)
        PROVE  Kept(a)
    <2>1. prototypes' = [prototypes EXCEPT ![registers[r]] = Null] \/ UNCHANGED prototypes
      BY <1>8 DEF Free
    <2> QED BY <2>1, <1>1, <1>2
  <1>9. (\/ \E r, s \in Registers : Ref(r, s)
         \/ MsgNobody
         \/ \E t \in Types : Throw(t)
         \/ \E t \in Types \cup {BuiltIn}, m \in Methods : Msg(t, m)
         \/ UNCHANGED vars) => prototypes'[a] = prototypes[a]
    BY DEF Ref, MsgNobody, Throw, Msg, vars
  <1> QED BY <1>2, <1>3, <1>4, <1>5, <1>6, <1>7, <1>8, <1>9 DEF Next, Build

LEMMA StepBases ==
  ASSUME Holding, BasesRegistered, [Next]_vars,
         NEW a \in Addresses, prototypes'[a] # Null
  PROVE  Range(prototypes'[a].bases) \subseteq Registered
  <1>1. CASE Made(a)
    BY <1>1 DEF Made, Range
  <1>2. CASE Kept(a) \/ Derived(a) \/ Attached(a)
    BY <1>2 DEF Kept, Derived, Attached, BasesRegistered
  <1> QED BY <1>1, <1>2, StepPrototypes

LEMMA StepRegisters ==
  ASSUME Holding, [Next]_vars
  PROVE  \/ Registered' = Registered
         \/ \E n \in Types : Registered' = Registered \cup {n}
  <1>1. ASSUME NEW r \in Registers, Register(r)
        PROVE  \E n \in Types : Registered' = Registered \cup {n}
    <2> DEFINE at == registers[r]
               n == prototypes[at].name
    <2>1. at # Null /\ n \in Types /\ typesystem' = [typesystem EXCEPT ![n] = at]
      BY <1>1, RegisterKeeps
    <2> HIDE DEF at, n
    <2>2. Registered' = Registered \cup {n}
      BY <2>1 DEF Registered, Holding, TypeOK
    <2> QED BY <2>1, <2>2
  <1>2. UNCHANGED typesystem => Registered' = Registered
    BY DEF Registered
  <1> QED BY <1>1, <1>2
      DEF Next, vars, Build, Class, Derive, Attach, Ref, Copy, Free, Throw, Msg, MsgNobody

LEMMA StepPlain ==
  ASSUME Holding, Plain, [Next]_vars
  PROVE  Plain'
  <1>1. IsFiniteSet(Registered')
    <2>1. IsFiniteSet(Registered)
      BY DEF Plain
    <2>2. \A n \in Types : IsFiniteSet(Registered \cup {n})
      BY <2>1, FS_AddElement
    <2> QED BY <2>1, <2>2, StepRegisters
  <1>2. broken \subseteq broken'
    BY StepGrows
  <1>3. ASSUME NEW a \in Addresses, prototypes'[a] # Null
        PROVE  /\ \A m \in Methods : prototypes'[a].methods[m] \in Functions \cup {Null}
               /\ Keeps({"single_base"})' => Len(prototypes'[a].bases) <= 1
    <2>1. CASE Kept(a)
      BY <2>1, <1>2 DEF Kept, Plain, Keeps
    <2>2. CASE Made(a)
      BY <2>2 DEF Made
    <2>3. CASE Derived(a)
      <3>1. \A m \in Methods : prototypes'[a].methods[m] \in Functions \cup {Null}
        BY <2>3 DEF Derived, Plain
      <3>2. ASSUME Keeps({"single_base"})'
            PROVE  Len(prototypes'[a].bases) <= 1
        <4>1. prototypes[a].bases = <<>>
          BY <2>3, <3>2 DEF Derived, Keeps
        <4>2. PICK base \in Registered :
                prototypes'[a].bases = Append(prototypes[a].bases, base)
          BY <2>3 DEF Derived
        <4>3. Len(Append(<<>>, base)) = 1
          OBVIOUS
        <4> QED BY <4>1, <4>2, <4>3
      <3> QED BY <3>1, <3>2
    <2>4. CASE Attached(a)
      BY <2>4, <1>2 DEF Attached, Plain, Keeps, Functions
    <2> QED BY <1>3, <2>1, <2>2, <2>3, <2>4, StepPrototypes
  <1> QED BY <1>1, <1>3 DEF Plain

\* A registered type's entry is changed by no instruction but the registration
\* of the type itself.
LEMMA StepKeepsEntries ==
  ASSUME Holding, [Next]_vars, Keeps({"one_registration", "no_alias"})',
         NEW t \in Registered
  PROVE  Entry(t) # Null /\ Entry(t)' # Null /\ Entry(t)' = Entry(t)
  <1>1. broken \subseteq broken'
    BY StepGrows
  <1>2. /\ prototypes \in [Addresses -> Prototype \cup {Null}]
        /\ registers \in [Registers -> {a \in Addresses : prototypes[a] # Null} \cup {Null}]
        /\ typesystem[t] \in Addresses /\ typesystem[t] # Null
    BY TypeSystemAssumption DEF Holding, TypeOK, Registered
  <1>3. /\ prototypes[typesystem[t]] # Null
        /\ \A u \in Registered : prototypes[typesystem[u]].name = u
        /\ \A r \in Registers : registers[r] # typesystem[t]
    BY <1>1 DEF Keeps, Holding, OneHolder, Entry
  <1> DEFINE Stays == /\ typesystem'[t] = typesystem[t]
                     /\ prototypes'[typesystem[t]] # Null
                     /\ prototypes'[typesystem[t]] = prototypes[typesystem[t]]
  <1>4. (UNCHANGED <<prototypes, typesystem>>) => Stays
    BY <1>3
  <1>5. ASSUME NEW r \in Registers, NEW n \in Names, Class(r, n)
        PROVE  Stays
    BY <1>5, <1>2, <1>3, FreshIsUnused DEF Class
  <1>6. ASSUME NEW r \in Registers, NEW base \in Types, Derive(r, base)
        PROVE  Stays
    BY <1>6, <1>2, <1>3 DEF Derive
  <1>7. ASSUME NEW r \in Registers, NEW m \in Methods, NEW f \in Defined \cup Undefined,
               Attach(r, m, f)
        PROVE  Stays
    BY <1>7, <1>2, <1>3 DEF Attach
  <1>8. ASSUME NEW r \in Registers, Register(r)
        PROVE  Stays
    <2> DEFINE at == registers[r]
               n == prototypes[at].name
    <2>1. /\ at # Null /\ n \in Types
          /\ typesystem' = [typesystem EXCEPT ![n] = at]
          /\ \A b \in Addresses : b # at =>
               \/ prototypes'[b] = prototypes[b]
               \/ prototypes'[b] = Null /\ b = typesystem[n]
      BY <1>8, RegisterKeeps
    <2>2. n \notin Registered
      BY <1>8 DEF Register, Breaks, Keeps
    <2> HIDE DEF n, at
    <2>3. n # t /\ typesystem[n] = Null
      BY <2>1, <2>2 DEF Registered
    <2>4. typesystem'[t] = typesystem[t] /\ typesystem[t] # at
      BY <2>1, <2>3, <1>3 DEF Holding, TypeOK, Registered, at
    <2> QED BY <2>1, <2>3, <2>4, <1>2, <1>3
  <1>9. ASSUME NEW r \in Registers, NEW s \in Registers, Copy(r, s)
        PROVE  Stays
    BY <1>9, <1>2, <1>3, FreshIsUnused DEF Copy
  <1>10. ASSUME NEW r \in Registers, Free(r)
         PROVE  Stays
    BY <1>10, <1>2, <1>3 DEF Free
  <1>11. ASSUME NEW r \in Registers, NEW s \in Registers, Ref(r, s)
         PROVE  Stays
    BY <1>4, <1>11 DEF Ref
  <1>12. (\/ MsgNobody
          \/ \E u \in Types : Throw(u)
          \/ \E u \in Types \cup {BuiltIn}, m \in Methods : Msg(u, m)
          \/ UNCHANGED vars) => UNCHANGED <<prototypes, typesystem>>
    BY DEF MsgNobody, Throw, Msg, vars
  <1> HIDE DEF Stays
  <1>13. Stays
    BY <1>4, <1>5, <1>6, <1>7, <1>8, <1>9, <1>10, <1>11, <1>12 DEF Next, Build
  <1> QED BY <1>3, <1>13 DEF Stays, Entry

-----------------------------------------------------------------------------
(***************************************************************************)
(* A new type derives from types registered before it, so that no cycle    *)
(* can close.                                                              *)
(***************************************************************************)
LEMMA RegisteredBases ==
  ASSUME Holding, BasesRegistered, NEW t \in Registered, Entry(t) # Null
  PROVE  Range(Bases[t]) \subseteq Registered
  BY TypeSystemAssumption DEF Holding, TypeOK, BasesRegistered, Bases, Entry, Registered

LEMMA StepAcyclic ==
  ASSUME Holding, BasesRegistered, AncestryAcyclic, [Next]_vars
  PROVE  AncestryAcyclic'
  <1> SUFFICES ASSUME Keeps({"one_registration", "no_alias"})',
                      NEW S \in SUBSET Registered', S # {}
               PROVE  \E t \in S : Range(Bases'[t]) \cap S = {}
    BY DEF AncestryAcyclic
  <1>1. \A t \in Registered :
          Entry(t) # Null /\ Entry(t)' # Null /\ Entry(t)' = Entry(t)
    BY StepKeepsEntries
  <1>2. Registered \subseteq Registered' /\ broken \subseteq broken'
    BY StepGrows
  <1>3. \A t \in Registered : Bases'[t] = Bases[t] /\ Range(Bases[t]) \subseteq Registered
    BY <1>1, <1>2, RegisteredBases DEF Bases
  <1>4. \A T \in SUBSET Registered : T # {} => \E t \in T : Range(Bases[t]) \cap T = {}
    BY <1>1, <1>2 DEF AncestryAcyclic, Keeps, Intact
  <1>5. CASE S \subseteq Registered
    BY <1>3, <1>4, <1>5
  <1>6. CASE ~(S \subseteq Registered)
    <2>1. PICK n \in Types : Registered' = Registered \cup {n}
      BY <1>6, StepRegisters
    <2>2. n \in S /\ n \notin Registered
      BY <1>6, <2>1
    <2>3. Range(Bases'[n]) \subseteq Registered
      <3>1. typesystem'[n] \in Addresses /\ prototypes'[typesystem'[n]] # Null
        <4>1. Holding'
          BY StepHolds
        <4>2. "no_alias" \notin broken' /\ n \in Registered'
          BY <2>1 DEF Keeps
        <4> QED BY <4>1, <4>2 DEF Holding, TypeOK, OneHolder, Keeps, Registered, Entry
      <3>2. Bases'[n] = prototypes'[typesystem'[n]].bases
        BY <2>1 DEF Bases, Entry
      <3> QED BY <3>1, <3>2, StepBases
    <2>4. CASE S = {n}
      BY <2>2, <2>3, <2>4
    <2>5. CASE S # {n}
      <3>1. S \ {n} # {} /\ S \ {n} \subseteq Registered
        BY <2>1, <2>2, <2>5
      <3>2. PICK t \in S \ {n} : Range(Bases[t]) \cap (S \ {n}) = {}
        BY <1>4, <3>1
      <3> QED BY <3>1, <3>2, <2>2, <1>3
    <2> QED BY <2>4, <2>5
  <1> QED BY <1>5, <1>6

\* Above a type of acyclic derivations no type inherits from itself.
LEMMA AcyclicEnds ==
  ASSUME NEW bases, \A u \in DOMAIN bases : Range(bases[u]) \subseteq DOMAIN bases,
         \A S \in SUBSET DOMAIN bases : S # {} => \E u \in S : Range(bases[u]) \cap S = {},
         NEW t \in DOMAIN bases
  PROVE  ChainEnds(bases, t)
  <1>1. ASSUME NEW x \in DOMAIN bases, x \in AncestorsOf(bases, x)
        PROVE  FALSE
    <2> DEFINE C == {u \in DOMAIN bases : x \in AncestorsOf(bases, u)}
    <2>1. PICK u \in C : Range(bases[u]) \cap C = {}
      BY <1>1
    <2>2. x \notin Range(bases[u])
      BY <1>1, <2>1
    <2>3. PICK v \in Range(bases[u]) : x \in AncestorsOf(bases, v)
      BY <2>1, <2>2, AncestorsStep
    <2> QED BY <2>1, <2>3
  <1>2. \A u \in AncestorsOf(bases, t) : u \in DOMAIN bases
    BY DEF AncestorsOf
  <1> QED BY <1>1, <1>2 DEF ChainEnds

LEMMA AcyclicSearches ==
  ASSUME Holding, BasesRegistered, AncestryAcyclic,
         Keeps({"one_registration", "no_alias"}), NEW t \in Registered
  PROVE  Searchable(t)
  <1>1. Intact
    BY DEF Keeps, Holding, OneHolder, Intact
  <1>2. /\ DOMAIN Bases = Registered
        /\ \A u \in Registered : Range(Bases[u]) \subseteq Registered
    BY <1>1, RegisteredBases DEF Bases, Intact
  <1>3. \A S \in SUBSET Registered : S # {} => \E u \in S : Range(Bases[u]) \cap S = {}
    BY <1>1 DEF AncestryAcyclic
  <1>4. ChainEnds(Bases, t)
    BY <1>2, <1>3, AcyclicEnds
  <1> QED BY <1>1, <1>2, <1>4 DEF Searchable

LEMMA StepNoCrash ==
  ASSUME Holding, BasesRegistered, AncestryAcyclic, NoCrash, [Next]_vars
  PROVE  NoCrash'
  <1> SUFFICES ASSUME crashed',
                      Keeps({"one_registration", "no_alias", "has_receiver", "class_receiver"})'
               PROVE  FALSE
    BY DEF NoCrash
  <1>1. broken \subseteq broken'
    BY StepGrows
  <1>2. ~crashed
    BY <1>1 DEF NoCrash, Keeps
  <1>3. Keeps({"one_registration", "no_alias"})
    BY <1>1 DEF Keeps
  <1>4. \A t \in Registered : Searchable(t)
    BY <1>3, AcyclicSearches
  <1>5. CASE MsgNobody
    BY <1>5 DEF MsgNobody, Breaks, Keeps
  <1>6. ASSUME NEW t \in Types, Throw(t)
        PROVE  FALSE
    BY <1>4, <1>6 DEF Throw, Instances
  <1>7. ASSUME NEW t \in Types \cup {BuiltIn}, NEW m \in Methods, Msg(t, m)
        PROVE  FALSE
    BY <1>4, <1>7 DEF Msg, Instances, Breaks, Keeps
  <1> QED BY <1>2, <1>5, <1>6, <1>7
      DEF Next, vars, Build, Class, Derive, Attach, Register, Ref, Copy, Free

-----------------------------------------------------------------------------
(***************************************************************************)
(* What a message is resolved to.                                          *)
(***************************************************************************)
LEMMA SearchableTypes ==
  ASSUME Holding, Plain, NEW t \in Types, Searchable(t)
  PROVE  /\ DOMAIN Bases = Registered /\ Derivations(Bases) /\ IsFiniteSet(DOMAIN Bases)
         /\ t \in DOMAIN Bases /\ ChainEnds(Bases, t)
         /\ Keeps({"single_base"}) => SingleBases(Bases)
  <1>1. DOMAIN Bases = Registered
    BY DEF Bases
  <1>2. ASSUME NEW u \in Registered
        PROVE  /\ Bases[u] \in Seq(Registered)
               /\ Keeps({"single_base"}) => Len(Bases[u]) <= 1
    <2>1. typesystem[u] \in Addresses /\ prototypes[typesystem[u]] # Null
      BY TypeSystemAssumption DEF Searchable, Intact, Entry, Holding, TypeOK, Registered
    <2>2. prototypes[typesystem[u]] \in Prototype
      BY <2>1 DEF Holding, TypeOK
    <2> DEFINE s == prototypes[typesystem[u]].bases
    <2>3. Bases[u] = s
      BY DEF Bases, Entry
    <2>4. s \in Seq(Types)
      BY <2>2 DEF Prototype
    <2>5. Range(s) \subseteq Registered
      BY <2>3 DEF Searchable
    <2>6. Keeps({"single_base"}) => Len(s) <= 1
      BY <2>1 DEF Plain
    <2> HIDE DEF s
    <2>7. s \in Seq(Registered)
      BY <2>4, <2>5 DEF Range
    <2> QED BY <2>3, <2>6, <2>7
  <1>3. IsFiniteSet(Registered)
    BY DEF Plain
  <1> QED BY <1>1, <1>2, <1>3 DEF Searchable, Derivations, SingleBases

\* The search starts at the type and goes on along the chain.
LEMMA SearchOrderIs ==
  ASSUME NEW t \in Types, NEW A \in SUBSET Registered, t \in Registered,
         InheritanceChainOf(Bases, t) \in Seq(A)
  PROVE  /\ SearchOrder(t) \in Seq(Registered)
         /\ Len(SearchOrder(t)) = Len(InheritanceChainOf(Bases, t)) + 1
         /\ SearchOrder(t)[1] = t
         /\ \A i \in 1..Len(InheritanceChainOf(Bases, t)) :
              SearchOrder(t)[i + 1] = InheritanceChainOf(Bases, t)[i]
  <1> DEFINE chain == InheritanceChainOf(Bases, t)
             order == SearchOrder(t)
  <1>1. chain \in Seq(Registered)
    <2>1. chain \in Seq(A)
      OBVIOUS
    <2> HIDE DEF chain
    <2> QED BY <2>1
  <1>2. order = <<t>> \o chain
    BY DEF SearchOrder
  <1> HIDE DEF chain, order
  <1>3. order \in Seq(Registered) /\ Len(order) = Len(chain) + 1 /\ order[1] = t
        /\ \A i \in 1..Len(chain) : order[i + 1] = chain[i]
    BY <1>1, <1>2
  <1> QED BY <1>3 DEF chain, order

\* The type at i is the first of the search order that accepts the message.
FirstAccepting(order, m, i) ==
  /\ i \in DOMAIN order /\ Accepts(order[i], m)
  /\ \A j \in DOMAIN order : Accepts(order[j], m) => i <= j

LEMMA ResolveFinds ==
  ASSUME NEW t, NEW m, SearchOrder(t) \in Seq(Registered)
  PROVE  \/ /\ Resolve(t, m) = Null
            /\ \A j \in DOMAIN SearchOrder(t) : ~Accepts(SearchOrder(t)[j], m)
         \/ \E i : /\ FirstAccepting(SearchOrder(t), m, i)
                   /\ Resolve(t, m) = Entry(SearchOrder(t)[i]).methods[m]
  <1> DEFINE order == SearchOrder(t)
             accepting == {i \in DOMAIN order : Accepts(order[i], m)}
  <1>1. Resolve(t, m) = IF accepting = {} THEN Null ELSE Entry(order[Min(accepting)]).methods[m]
    BY DEF Resolve
  <1>2. CASE accepting = {}
    BY <1>1, <1>2
  <1>3. CASE accepting # {}
    <2>1. accepting \in SUBSET Nat
      OBVIOUS
    <2>2. \E i \in accepting : \A j \in accepting : i <= j
      <3> HIDE DEF accepting
      <3> QED BY <1>3, <2>1, SmallestExists
    <2>3. Min(accepting) \in accepting /\ \A j \in accepting : Min(accepting) <= j
      <3> HIDE DEF accepting
      <3> QED BY <2>2 DEF Min
    <2>4. FirstAccepting(order, m, Min(accepting))
      BY <2>3 DEF FirstAccepting
    <2> HIDE DEF accepting
    <2> QED BY <1>1, <1>3, <2>4
  <1> QED BY <1>2, <1>3

\* The chain of a searchable type.
LEMMA SearchFinds ==
  ASSUME Holding, Plain, NEW t \in Types, Searchable(t)
  PROVE  /\ AncestorsOf(Bases, t) \subseteq Registered
         /\ InheritanceChainOf(Bases, t) \in Seq(AncestorsOf(Bases, t))
         /\ Range(InheritanceChainOf(Bases, t)) = AncestorsOf(Bases, t)
         /\ SearchOrder(t) \in Seq(Registered)
  <1>1. /\ DOMAIN Bases = Registered /\ Derivations(Bases) /\ IsFiniteSet(DOMAIN Bases)
        /\ t \in DOMAIN Bases /\ ChainEnds(Bases, t)
    BY SearchableTypes
  <1>2. AncestorsOf(Bases, t) \subseteq Registered
    BY <1>1 DEF AncestorsOf
  <1>3. /\ InheritanceChainOf(Bases, t) \in Seq(AncestorsOf(Bases, t))
        /\ Range(InheritanceChainOf(Bases, t)) = AncestorsOf(Bases, t)
    BY <1>1, ChainHoldsAncestors
  <1> QED BY <1>1, <1>2, <1>3, SearchOrderIs

\* A message is resolved to a function there is.
LEMMA ResolvesToFunction ==
  ASSUME Holding, Plain, NEW t \in Types, Searchable(t), NEW m \in Methods
  PROVE  Resolve(t, m) \in Functions \cup {Null}
  <1>1. SearchOrder(t) \in Seq(Registered)
    BY SearchFinds
  <1>2. ASSUME NEW i \in DOMAIN SearchOrder(t)
        PROVE  Entry(SearchOrder(t)[i]).methods[m] \in Functions \cup {Null}
    <2> DEFINE u == SearchOrder(t)[i]
    <2>1. u \in Registered
      BY <1>1
    <2> HIDE DEF u
    <2>2. typesystem[u] \in Addresses /\ prototypes[typesystem[u]] # Null
      BY <2>1, TypeSystemAssumption
         DEF Searchable, Intact, Entry, Holding, TypeOK, Registered
    <2> QED BY <2>2 DEF Plain, Entry, u
  <1> QED BY <1>1, <1>2, ResolveFinds DEF FirstAccepting

\* The type that answers a message is as near as any that accepts it.
LEMMA ResolvesToNearest ==
  ASSUME Holding, Plain, Keeps({"single_base"}), NEW t \in Types, Searchable(t), NEW m
  PROVE  LET accepting == {u \in {t} \cup AncestorsOf(Bases, t) : Accepts(u, m)}
         IN IF accepting = {} THEN Resolve(t, m) = Null
            ELSE \E u \in accepting :
                   /\ Resolve(t, m) = Entry(u).methods[m]
                   /\ \A v \in accepting :
                        Distance(Bases, t, u) <= Distance(Bases, t, v)
  <1> DEFINE chain == InheritanceChainOf(Bases, t)
             order == SearchOrder(t)
             A == AncestorsOf(Bases, t)
             D(u) == Distance(Bases, t, u)
             accepting == {u \in {t} \cup A : Accepts(u, m)}
  <1>1. /\ A \subseteq Registered /\ chain \in Seq(A) /\ Range(chain) = A
        /\ order \in Seq(Registered) /\ t \in Registered
    BY SearchFinds DEF Searchable
  <1>2. /\ Len(order) = Len(chain) + 1 /\ order[1] = t
        /\ \A i \in 1..Len(chain) : order[i + 1] = chain[i]
    BY <1>1, SearchOrderIs
  <1>3. D(t) = 0 /\ \A u \in A : FirstAt(chain, u) = D(u)
    <2>1. /\ Derivations(Bases) /\ IsFiniteSet(DOMAIN Bases) /\ SingleBases(Bases)
          /\ t \in DOMAIN Bases /\ ChainEnds(Bases, t)
      BY SearchableTypes
    <2> QED BY <2>1, ChainByDistance
  <1>4. \/ /\ Resolve(t, m) = Null
           /\ \A j \in DOMAIN order : ~Accepts(order[j], m)
        \/ \E i : /\ FirstAccepting(order, m, i)
                  /\ Resolve(t, m) = Entry(order[i]).methods[m]
    BY <1>1, ResolveFinds
  <1> HIDE DEF chain, order, A, D
  <1>5. /\ DOMAIN order = 1..(Len(chain) + 1) /\ DOMAIN chain = 1..Len(chain)
        /\ Len(chain) \in Nat
    BY <1>1, <1>2
  <1>6. \A v \in A : \E j \in 1..Len(chain) : order[j + 1] = v /\ D(v) = j
    <2> SUFFICES ASSUME NEW v \in A
                 PROVE  \E j \in 1..Len(chain) : order[j + 1] = v /\ D(v) = j
      OBVIOUS
    <2> DEFINE j == FirstAt(chain, v)
    <2>1. j \in DOMAIN chain /\ chain[j] = v
      BY <1>1, FirstAtFound
    <2>2. j = D(v)
      BY <1>3
    <2> HIDE DEF j
    <2> QED BY <1>2, <1>5, <2>1, <2>2
  <1>7. ASSUME NEW i, FirstAccepting(order, m, i)
        PROVE  order[i] \in accepting /\ \A v \in accepting : D(order[i]) <= D(v)
    <2>1. /\ i \in 1..(Len(chain) + 1) /\ Accepts(order[i], m)
          /\ \A j \in 1..(Len(chain) + 1) : Accepts(order[j], m) => i <= j
      BY <1>5, <1>7 DEF FirstAccepting
    <2>2. CASE i = 1
      <3>1. \A v \in accepting : D(v) \in Nat
        BY <1>3, <1>6
      <3> QED BY <1>2, <1>3, <2>1, <2>2, <3>1
    <2>3. CASE i # 1
      <3> DEFINE k == i - 1
                 u == order[i]
      <3>1. k \in 1..Len(chain) /\ k + 1 = i /\ chain[k] = u
        <4>1. k \in 1..Len(chain) /\ k + 1 = i
          BY <1>5, <2>1, <2>3
        <4> QED BY <1>2, <4>1
      <3>2. u \in A
        BY <1>1, <1>5, <3>1
      <3>3. PICK j \in 1..Len(chain) : order[j + 1] = u /\ D(u) = j
        BY <1>6, <3>2
      <3>4. \A l \in 1..(FirstAt(chain, u) - 1) : chain[l] # u
        BY <1>1, <3>2, FirstAtFound
      <3>5. D(u) = k
        <4>1. FirstAt(chain, u) = j
          BY <1>3, <3>2, <3>3
        <4>2. i <= j + 1
          BY <1>5, <2>1, <3>3
        <4>3. ~(k < j)
          <5> SUFFICES ASSUME k < j
                       PROVE  FALSE
            OBVIOUS
          <5>1. k \in 1..(j - 1)
            BY <3>1, <3>3
          <5> QED BY <3>1, <3>4, <4>1, <5>1
        <4> QED BY <2>1, <3>1, <3>3, <4>2, <4>3
      <3>6. ASSUME NEW v \in accepting
            PROVE  k <= D(v)
        <4>1. CASE v = t
          <5>1. Accepts(order[1], m) /\ 1 \in 1..(Len(chain) + 1)
            BY <1>2, <1>5, <4>1
          <5> QED BY <2>1, <2>3, <5>1
        <4>2. CASE v \in A
          <5>1. PICK l \in 1..Len(chain) : order[l + 1] = v /\ D(v) = l
            BY <1>6, <4>2
          <5>2. l + 1 \in 1..(Len(chain) + 1)
            BY <1>5, <5>1
          <5>3. i <= l + 1
            BY <2>1, <5>1, <5>2
          <5> QED BY <2>1, <5>1, <5>3
        <4> QED BY <4>1, <4>2
      <3> HIDE DEF k
      <3> QED BY <2>1, <3>2, <3>5, <3>6
    <2> QED BY <2>2, <2>3
  <1>8. \A v \in accepting : \E j \in DOMAIN order : order[j] = v /\ Accepts(order[j], m)
    <2> SUFFICES ASSUME NEW v \in accepting
                 PROVE  \E j \in DOMAIN order : order[j] = v /\ Accepts(order[j], m)
      OBVIOUS
    <2>1. CASE v = t
      <3>1. 1 \in DOMAIN order /\ order[1] = v
        BY <1>2, <1>5, <2>1
      <3> QED BY <3>1
    <2>2. CASE v \in A
      <3>1. PICK j \in 1..Len(chain) : order[j + 1] = v
        BY <1>6, <2>2
      <3>2. j + 1 \in DOMAIN order
        BY <1>5
      <3> QED BY <3>1, <3>2
    <2> QED BY <2>1, <2>2
  <1> HIDE DEF accepting
  <1>9. CASE \A j \in DOMAIN order : ~Accepts(order[j], m)
    <2>1. accepting = {}
      BY <1>8, <1>9
    <2>2. Resolve(t, m) = Null
      BY <1>4, <1>9 DEF FirstAccepting
    <2> QED BY <2>1, <2>2 DEF accepting, A
  <1>10. ASSUME NEW i, FirstAccepting(order, m, i),
                Resolve(t, m) = Entry(order[i]).methods[m]
         PROVE  \E u \in accepting : /\ Resolve(t, m) = Entry(u).methods[m]
                                     /\ \A v \in accepting : D(u) <= D(v)
    BY <1>7, <1>10
  <1> QED BY <1>4, <1>9, <1>10 DEF accepting, A, D

\* Registering more types changes neither the ancestors of a type nor its chain.
LEMMA SameAncestors ==
  ASSUME NEW bases, NEW more, DOMAIN bases \subseteq DOMAIN more,
         \A u \in DOMAIN bases : more[u] = bases[u],
         \A u \in DOMAIN bases : Range(bases[u]) \subseteq DOMAIN bases,
         NEW t \in DOMAIN bases
  PROVE  AncestorsOf(more, t) = AncestorsOf(bases, t)
  <1> DEFINE A == AncestorsOf(bases, t)
             B == AncestorsOf(more, t)
  <1>1. A \subseteq DOMAIN bases /\ B \subseteq DOMAIN more
    BY DEF AncestorsOf
  <1>2. Range(bases[t]) \subseteq A /\ \A v \in A : Range(bases[v]) \subseteq A
    BY AncestorsClosed
  <1>3. B \subseteq A
    <2>1. \A S \in SUBSET DOMAIN more :
            (Range(more[t]) \subseteq S /\ \A v \in S : Range(more[v]) \subseteq S)
              => B \subseteq S
      BY DEF AncestorsOf
    <2>2. Range(more[t]) \subseteq A /\ \A v \in A : Range(more[v]) \subseteq A
      BY <1>1, <1>2
    <2> HIDE DEF A, B
    <2> QED BY <1>1, <2>1, <2>2
  <1>4. A \subseteq B
    <2>1. Range(more[t]) \subseteq B /\ \A v \in B : Range(more[v]) \subseteq B
      <3>1. B \subseteq DOMAIN bases
        BY <1>1, <1>3
      <3> QED BY <3>1 DEF AncestorsOf
    <2>2. \A S \in SUBSET DOMAIN bases :
            (Range(bases[t]) \subseteq S /\ \A v \in S : Range(bases[v]) \subseteq S)
              => A \subseteq S
      BY DEF AncestorsOf
    <2>3. Range(bases[t]) \subseteq B /\ \A v \in B : Range(bases[v]) \subseteq B
      BY <1>1, <1>3, <2>1
    <2> HIDE DEF A, B
    <2> QED BY <1>1, <1>3, <2>2, <2>3
  <1> QED BY <1>3, <1>4

LEMMA SameChain ==
  ASSUME NEW bases, NEW more, DOMAIN bases \subseteq DOMAIN more,
         \A u \in DOMAIN bases : more[u] = bases[u],
         \A u \in DOMAIN bases : Range(bases[u]) \subseteq DOMAIN bases,
         NEW t \in DOMAIN bases
  PROVE  InheritanceChainOf(more, t) = InheritanceChainOf(bases, t)
  <1> DEFINE types == {t} \cup AncestorsOf(bases, t)
  <1>1. types = {t} \cup AncestorsOf(more, t)
    BY SameAncestors
  <1>2. types \subseteq DOMAIN bases
    BY DEF AncestorsOf
  <1> HIDE DEF types
  <1>3. Restrict(more, types) = Restrict(bases, types)
    BY <1>2 DEF Restrict
  <1>4. /\ InheritanceChainOf(more, t) =
             ChainsWithin(Restrict(more, types))[Cardinality(types)][t]
        /\ InheritanceChainOf(bases, t) =
             ChainsWithin(Restrict(bases, types))[Cardinality(types)][t]
    BY <1>1 DEF InheritanceChainOf, types
  <1> QED BY <1>3, <1>4

LEMMA StepStable ==
  ASSUME Inv, Inv', [Next]_vars, Keeps({"one_registration", "no_alias"})',
         NEW t \in Types, Searchable(t)
  PROVE  Searchable(t)' /\ \A m \in Methods : Resolve(t, m)' = Resolve(t, m)
  <1>1. Holding /\ Plain /\ Holding'
    BY DEF Inv, Holding
  <1>2. Registered \subseteq Registered'
    BY <1>1, StepGrows
  <1>3. \A u \in Registered : prototypes'[typesystem'[u]] = prototypes[typesystem[u]]
    BY <1>1, StepKeepsEntries DEF Entry
  <1>4. /\ DOMAIN Bases = Registered /\ DOMAIN Bases' = Registered' /\ t \in Registered
        /\ \A u \in Registered : Bases'[u] = Bases[u] /\ Range(Bases[u]) \subseteq Registered
    BY <1>2, <1>3 DEF Bases, Entry, Searchable
  <1>5. Searchable(t)'
    <2>1. Intact'
      BY <1>1 DEF Keeps, Holding, OneHolder, Intact
    <2>2. \A u \in Registered' : Range(Bases'[u]) \subseteq Registered'
      <3> SUFFICES ASSUME NEW u \in Registered'
                   PROVE  Range(Bases'[u]) \subseteq Registered'
        OBVIOUS
      <3>1. typesystem'[u] \in Addresses /\ prototypes'[typesystem'[u]] # Null
        BY <1>1, <2>1, TypeSystemAssumption DEF Holding, TypeOK, Intact, Registered, Entry
      <3> QED BY <3>1 DEF Inv, BasesRegistered, Bases, Entry
    <2>3. \A S \in SUBSET Registered' : S # {} => \E u \in S : Range(Bases'[u]) \cap S = {}
      BY <2>1 DEF Inv, AncestryAcyclic
    <2>4. ChainEnds(Bases', t)
      BY <1>2, <1>4, <2>2, <2>3, AcyclicEnds
    <2> QED BY <1>2, <1>4, <2>1, <2>2, <2>4 DEF Searchable
  <1>6. InheritanceChainOf(Bases', t) = InheritanceChainOf(Bases, t)
    <2> DEFINE bases == Bases
               more == Bases'
    <2>1. /\ DOMAIN bases \subseteq DOMAIN more /\ t \in DOMAIN bases
          /\ \A u \in DOMAIN bases : more[u] = bases[u]
          /\ \A u \in DOMAIN bases : Range(bases[u]) \subseteq DOMAIN bases
      BY <1>2, <1>4
    <2> HIDE DEF bases, more
    <2>2. InheritanceChainOf(more, t) = InheritanceChainOf(bases, t)
      BY <2>1, SameChain
    <2> QED BY <2>2 DEF bases, more
  <1>7. SearchOrder(t)' = SearchOrder(t) /\ SearchOrder(t) \in Seq(Registered)
    BY <1>1, <1>6, SearchFinds DEF SearchOrder
  <1>8. ASSUME NEW m \in Methods
        PROVE  Resolve(t, m)' = Resolve(t, m)
    <2> DEFINE order == SearchOrder(t)
               Answers(p) == p.methods[m] # Null
               accepting == {i \in DOMAIN order : Answers(prototypes[typesystem[order[i]]])}
               later == {i \in DOMAIN order : Answers(prototypes'[typesystem'[order[i]]])}
    <2>1. \A i \in DOMAIN order : order[i] \in Registered
      BY <1>7
    <2>2. /\ Resolve(t, m) = IF accepting = {} THEN Null
                             ELSE prototypes[typesystem[order[Min(accepting)]]].methods[m]
          /\ Resolve(t, m)' = IF later = {} THEN Null
                              ELSE prototypes'[typesystem'[order[Min(later)]]].methods[m]
      BY <1>7 DEF Resolve, Accepts, Entry
    <2> HIDE DEF order, Answers
    <2>3. later = accepting
      BY <1>3, <2>1
    <2>4. accepting # {} => Min(accepting) \in DOMAIN order
      <3>1. accepting \in SUBSET Nat
        BY <1>7 DEF order
      <3>2. accepting # {} => \E i \in accepting : \A j \in accepting : i <= j
        <4> HIDE DEF accepting
        <4> QED BY <3>1, SmallestExists
      <3>3. accepting # {} => Min(accepting) \in accepting
        <4> HIDE DEF accepting
        <4> QED BY <3>2 DEF Min
      <3> QED BY <3>3
    <2> HIDE DEF accepting, later
    <2> QED BY <1>3, <2>1, <2>2, <2>3, <2>4
  <1> QED BY <1>5, <1>8

LEMMA StepResolves ==
  ASSUME Holding, Plain, MethodsResolve, [Next]_vars
  PROVE  MethodsResolve'
  <1>1. ASSUME NEW t \in Types \cup {BuiltIn}, NEW m \in Methods, Msg(t, m)
        PROVE  MethodsResolve'
    <2>1. CASE Searchable(t)
      <3>1. t \in Types
        BY <2>1 DEF Searchable, Registered
      <3> QED BY <1>1, <2>1, <3>1, ResolvesToFunction DEF Msg, MethodsResolve
    <2>2. CASE ~Searchable(t)
      BY <1>1, <2>2 DEF Msg, MethodsResolve
    <2> QED BY <2>1, <2>2
  <1>2. resolved' = Null => MethodsResolve'
    BY DEF MethodsResolve
  <1>3. UNCHANGED vars => MethodsResolve'
    BY DEF MethodsResolve, vars
  <1> QED BY <1>1, <1>2, <1>3 DEF Next

-----------------------------------------------------------------------------
(***************************************************************************)
(* The invariant and what follows from it.                                 *)
(***************************************************************************)
\* What each prototype, register and entry of the typesystem is, and who holds
\* it, is kept by every instruction.
THEOREM Invariance == Spec => []Inv
  <1>1. Init => Inv
    <2> SUFFICES ASSUME Init PROVE Inv
      OBVIOUS
    <2>1. Holding
      BY InitHolds
    <2>2. /\ \A a \in Addresses : prototypes[a] # Null => prototypes[a].bases = <<>>
          /\ crashed = FALSE
      BY DEF Init, NewPrototype
    <2>3. Range(<<>>) = {}
      BY DEF Range
    <2>4. BasesRegistered
      BY <2>2, <2>3 DEF BasesRegistered
    <2>5. AncestryAcyclic
      <3>1. \A t \in Registered : Entry(t) # Null => Range(Bases[t]) = {}
        BY <2>1, <2>2, <2>3, TypeSystemAssumption DEF Holding, TypeOK, Registered, Entry, Bases
      <3> QED BY <3>1 DEF AncestryAcyclic, Intact
    <2>6. Plain
      <3>1. Registered = {Object}
        BY TypeSystemAssumption DEF Init, Registered, Types
      <3>2. IsFiniteSet({Object})
        BY FS_Singleton
      <3>3. ASSUME NEW a \in Addresses, prototypes[a] # Null, NEW m \in Methods
            PROVE  prototypes[a].methods[m] = ObjectMethod
        BY <3>3 DEF Init, NewPrototype
      <3>4. Len(<<>>) <= 1
        OBVIOUS
      <3> QED BY <2>2, <3>1, <3>2, <3>3, <3>4 DEF Plain, Functions
    <2>7. MethodsResolve
      BY DEF Init, MethodsResolve
    <2> QED BY <2>1, <2>2, <2>4, <2>5, <2>6, <2>7 DEF Inv, Holding, NoCrash
  <1>2. Inv /\ [Next]_vars => Inv'
    <2> SUFFICES ASSUME Inv, [Next]_vars PROVE Inv'
      OBVIOUS
    <2>1. Holding
      BY DEF Inv, Holding
    <2>2. Holding'
      BY <2>1, StepHolds
    <2>3. BasesRegistered'
      BY <2>1, StepBases, StepGrows DEF Inv, BasesRegistered
    <2>4. AncestryAcyclic'
      BY <2>1, StepAcyclic DEF Inv
    <2>5. NoCrash'
      BY <2>1, StepNoCrash DEF Inv
    <2>6. Plain' /\ MethodsResolve'
      BY <2>1, StepPlain, StepResolves DEF Inv
    <2> QED BY <2>2, <2>3, <2>4, <2>5, <2>6 DEF Inv, Holding
  <1> QED BY <1>1, <1>2, PTL DEF Spec

\* Registers and the typesystem hold prototypes that exist: deleting one goes
\* through the register that holds it last, and the register is emptied.
THEOREM TypesCorrect == Spec => []TypeOK
  <1>1. Inv => TypeOK
    BY DEF Inv
  <1> QED BY <1>1, Invariance, PTL

\* Nothing a program does with its registers deletes or replaces an entry of
\* the typesystem, as long as it makes no reference to a prototype.
THEOREM EntriesStayIntact == Spec => []EntriesIntact
  <1>1. Inv => EntriesIntact
    BY DEF Inv, OneHolder, EntriesIntact
  <1> QED BY <1>1, Invariance, PTL

\* A prototype, registered or still being built, derives from registered
\* types only.
THEOREM BasesStayRegistered == Spec => []BasesRegistered
  <1>1. Inv => BasesRegistered
    BY DEF Inv
  <1> QED BY <1>1, Invariance, PTL

\* No sequence of class, derive and register instructions closes a cycle of
\* derivations, whatever the number of types.
THEOREM AncestryStaysAcyclic == Spec => []AncestryAcyclic
  <1>1. Inv => AncestryAcyclic
    BY DEF Inv
  <1> QED BY <1>1, Invariance, PTL

\* Messages and the search for catchers end the process only in programs that
\* have left one of four conventions.
THEOREM MessagesDoNotCrash == Spec => []NoCrash
  <1>1. Inv => NoCrash
    BY DEF Inv
  <1> QED BY <1>1, Invariance, PTL

\* inheritanceChainOf returns the ancestors of a type, all of them and no other
\* type, however many types there are and in whatever way they derive.
THEOREM ChainsAreComplete == Spec => []ChainComplete
  <1>1. Inv => ChainComplete
    BY SearchFinds DEF Inv, Holding, ChainComplete
  <1> QED BY <1>1, Invariance, PTL

\* In a program whose types derive from one type each, a type is searched before
\* the types it derives from.
THEOREM DerivedComeFirst == Spec => []DerivedFirst
  <1>1. ASSUME Inv, Keeps({"single_base"}), NEW t \in Types, Searchable(t),
               NEW u \in Range(InheritanceChainOf(Bases, t)), NEW v \in AncestorsOf(Bases, u)
        PROVE  FirstAt(InheritanceChainOf(Bases, t), u) < FirstAt(InheritanceChainOf(Bases, t), v)
    <2>1. Holding /\ Plain
      BY <1>1 DEF Inv, Holding
    <2>2. u \in AncestorsOf(Bases, t)
      BY <1>1, <2>1, SearchFinds
    <2>3. /\ Derivations(Bases) /\ IsFiniteSet(DOMAIN Bases) /\ SingleBases(Bases)
          /\ t \in DOMAIN Bases /\ ChainEnds(Bases, t)
      BY <1>1, <2>1, SearchableTypes
    <2> QED BY <1>1, <2>2, <2>3, ChainInOrder
  <1>2. Inv => DerivedFirst
    BY <1>1 DEF DerivedFirst
  <1> QED BY <1>2, Invariance, PTL

\* A message is resolved to a function there is, or refused.
THEOREM MethodsAlwaysResolve == Spec => []MethodsResolve
  <1>1. Inv => MethodsResolve
    BY DEF Inv
  <1> QED BY <1>1, Invariance, PTL

\* What a registered type answers to a message never changes, in a program that
\* registers each type once and makes no reference to a prototype.
THEOREM ResolutionsAreStable == Spec => ResolutionStable
  <1> DEFINE Stable == (Keeps({"one_registration", "no_alias"})'
                          /\ ~UNCHANGED <<prototypes, typesystem>>) =>
                         \A t \in Types : Searchable(t) =>
                           Searchable(t)' /\ \A m \in Methods : Resolve(t, m)' = Resolve(t, m)
  <1>1. Inv /\ Inv' /\ [Next]_vars => Stable
    BY StepStable
  <1>2. ResolutionStable <=> [][Stable]_vars
    BY DEF ResolutionStable
  <1> HIDE DEF Stable
  <1> QED BY <1>1, <1>2, Invariance, PTL DEF Spec

\* In a program whose types derive from one type each, a message is answered by
\* the nearest type that accepts it.
THEOREM NearestTypeAnswers == Spec => NearestAnswers
  <1> DEFINE Nearest ==
               \A t \in Types, m \in Methods :
                 (~crashed' /\ Keeps({"single_base"}) /\ UNCHANGED prototypes /\ Msg(t, m)) =>
                   LET accepting == {u \in {t} \cup AncestorsOf(Bases, t) : Accepts(u, m)}
                   IN IF accepting = {} THEN resolved' = Null
                      ELSE \E u \in accepting :
                             /\ resolved' = Entry(u).methods[m]
                             /\ \A v \in accepting :
                                  Distance(Bases, t, u) <= Distance(Bases, t, v)
  <1>1. Inv => Nearest
    <2> SUFFICES ASSUME Inv, NEW t \in Types, NEW m \in Methods,
                        ~crashed', Keeps({"single_base"}), Msg(t, m)
                 PROVE  LET accepting == {u \in {t} \cup AncestorsOf(Bases, t) : Accepts(u, m)}
                        IN IF accepting = {} THEN resolved' = Null
                           ELSE \E u \in accepting :
                                  /\ resolved' = Entry(u).methods[m]
                                  /\ \A v \in accepting :
                                       Distance(Bases, t, u) <= Distance(Bases, t, v)
      OBVIOUS
    <2>1. Holding /\ Plain
      BY DEF Inv, Holding
    <2>2. Searchable(t) /\ resolved' = Resolve(t, m)
      BY DEF Msg
    <2> QED BY <2>1, <2>2, ResolvesToNearest
  <1>2. NearestAnswers <=> [][Nearest]_vars
    BY DEF NearestAnswers
  <1> HIDE DEF Nearest
  <1> QED BY <1>1, <1>2, Invariance, PTL DEF Spec

=============================================================================
