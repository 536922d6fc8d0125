--------------------------- MODULE StructuredProofs ---------------------------
(***************************************************************************)
(* Proofs that in a program whose functions end with `end` and whose       *)
(* blocks end with `leave` the two stacks of the CPU stay tied together,   *)
(* and that the CPU then implements structured control flow, for every     *)
(* number of functions, blocks and frames, and every depth.                *)
(*                                                                         *)
(* The properties are not inductive: that a block that leaves, or a        *)
(* function that ends, finds its caller's try frames as they were depends  *)
(* on what each return address on both stacks points to.                   *)
(***************************************************************************)
EXTENDS CpuProofs, CpuRefinement, WellFoundedInduction

\* What is assumed of the program: it keeps to the three rules, and catches no
\* type by the detailed type of an Exception (a catcher found that way runs on
\* the stacks as they are).
Structured ==
  /\ {"end_in_function", "leave_in_block", "jumps_stay"} \subseteq Rules
  /\ \A e \in Thrown : e.type = "Exception" => e.etype \notin CatchTypes

\* A program that is not linked with other modules, and one that may be, but
\* catches nothing (a caught exception leaves the jump base where it was).
OneModule == Modules = {Bytecode}

ManyModules ==
  /\ "local_blocks" \in Rules
  /\ \A e \in Thrown : \A k \in DOMAIN Candidates(e) : Candidates(e)[k] \notin CatchTypes

\* The try frame at i was entered from the frame at m.
Owns(fs, ts, m, i) ==
  m \in DOMAIN fs /\ i \in DOMAIN ts /\ ts[i].assoc = fs[m].addr

\* Each try frame belongs to a frame, never to the one of __entry, and the
\* stacks are in the same order.
Tied(fs, ts) ==
  /\ \A i \in DOMAIN ts : \E m \in DOMAIN fs : m > 1 /\ Owns(fs, ts, m, i)
  /\ \A i, j \in DOMAIN ts, m, n \in DOMAIN fs :
       Owns(fs, ts, m, i) /\ Owns(fs, ts, n, j) /\ i <= j => m <= n

\* The code the function of the frame at k is in, if execution is at u.
Body(fs, u, k) == IF k = Len(fs) THEN u ELSE fs[k + 1].ret

\* A function is in one of its blocks as long as it has a try frame; its first
\* try frame returns to the function, and the others to blocks.
Nested(ts) ==
  \A i \in DOMAIN ts : ts[i].ret \in Blocks <=> (i > 1 /\ ts[i - 1].assoc = ts[i].assoc)

Shape(fs, ts, u) ==
  /\ \A k \in DOMAIN fs : Body(fs, u, k) \in Blocks <=> \E i \in DOMAIN ts : Owns(fs, ts, k, i)
  /\ \A k \in DOMAIN fs : Body(fs, u, k) \in Bodies <=> k > 1
  /\ \A k \in DOMAIN fs : fs[k].fn \notin Foreign

Linked ==
  /\ Tied(frames, tryframes)
  /\ status = "running" => Shape(frames, tryframes, ip) /\ Nested(tryframes)
  /\ status # "crashed"

-----------------------------------------------------------------------------
(***************************************************************************)
(* Stacks of frames and of try frames.                                     *)
(***************************************************************************)

LEMMA TryStack ==
  ASSUME NEW ts \in Seq(TryFrame)
  PROVE  /\ Len(ts) \in Nat /\ DOMAIN ts = 1..Len(ts)
         /\ \A i \in DOMAIN ts : ts[i] \in TryFrame
<1>1. Len(ts) \in Nat /\ DOMAIN ts = 1..Len(ts)
  BY LenProperties
<1>. QED
  BY <1>1, ElementOfSeq

LEMMA BelowTop ==
  ASSUME NEW n \in Nat \ {0}, NEW m \in 1..n, m # n
  PROVE  m \in 1..(n - 1) /\ 1..m \subseteq 1..(n - 1)
OBVIOUS

\* A stack that keeps the frames that own try frames keeps the tie.
LEMMA TiedKept ==
  ASSUME NEW fs, NEW gs, Stack(gs), NEW ts, Tied(fs, ts),
         \A m, i : Owns(fs, ts, m, i) => m \in DOMAIN gs /\ gs[m] = fs[m]
  PROVE  /\ Tied(gs, ts)
         /\ \A m, i : Owns(gs, ts, m, i) <=> Owns(fs, ts, m, i)
<1>1. \A m, i : Owns(fs, ts, m, i) => Owns(gs, ts, m, i)
  BY DEF Owns
<1>2. ASSUME NEW n, NEW i, Owns(gs, ts, n, i)
      PROVE  Owns(fs, ts, n, i)
  <2>1. PICK m \in DOMAIN fs : Owns(fs, ts, m, i)
    BY <1>2 DEF Owns, Tied
  <2>2. m = n
    BY <1>2, <2>1 DEF Owns, Stack
  <2>. QED
    BY <2>1, <2>2
<1>3. \A m, i : Owns(gs, ts, m, i) <=> Owns(fs, ts, m, i)
  BY <1>1, <1>2
<1>4. \A i \in DOMAIN ts : \E m \in DOMAIN gs : m > 1 /\ Owns(gs, ts, m, i)
  BY <1>1 DEF Tied, Owns
<1>5. \A i, j \in DOMAIN ts, m, n \in DOMAIN gs :
        Owns(gs, ts, m, i) /\ Owns(gs, ts, n, j) /\ i <= j => m <= n
  BY <1>3 DEF Tied, Owns
<1>. QED
  BY <1>3, <1>4, <1>5 DEF Tied

\* What is left when a try frame at i catches, in the frame at m that entered
\* it, and goes on in block b.
LEMMA UnwoundShape ==
  ASSUME NEW fs, Stack(fs), NEW gs, Stack(gs), NEW ts \in Seq(TryFrame), NEW u,
         Tied(fs, ts), Shape(fs, ts, u), Nested(ts),
         NEW i \in DOMAIN ts, NEW m \in DOMAIN fs, Owns(fs, ts, m, i),
         m \in DOMAIN gs, \A k \in 1..m : gs[k] = fs[k],
         NEW b \in Blocks
  PROVE  /\ Tied(SubSeq(gs, 1, m), SubSeq(ts, 1, i))
         /\ Shape(SubSeq(gs, 1, m), SubSeq(ts, 1, i), b)
         /\ Nested(SubSeq(ts, 1, i))
<1> DEFINE hs == SubSeq(gs, 1, m)
           us == SubSeq(ts, 1, i)
<1>1. /\ Len(fs) \in Nat \ {0} /\ DOMAIN fs = 1..Len(fs)
      /\ Len(ts) \in Nat /\ DOMAIN ts = 1..Len(ts)
  BY TopFrame, TryStack
<1>2. /\ m \in Nat \ {0} /\ i \in Nat \ {0} /\ m <= Len(fs) /\ i <= Len(ts)
  BY <1>1
<1>3. /\ Stack(hs) /\ Len(hs) = m
      /\ \A k \in 1..m : hs[k] = fs[k]
  BY PrefixOfStack
<1>4. DOMAIN hs = 1..m
  BY <1>3, TopFrame
<1>5. Len(us) = i /\ \A j \in 1..i : us[j] = ts[j]
  <2>1. \A j \in 1..i : ts[j] \in TryFrame
    BY <1>1, <1>2, TryStack
  <2>. QED
    BY <1>2, <2>1, SubSeqProperties
<1>6. DOMAIN us = 1..i
  <2>1. us \in Seq(TryFrame)
    BY <1>1, <1>2, TryStack, SubSeqProperties
  <2>. QED
    BY <2>1, <1>5, TryStack
<1> HIDE DEF hs, us
<1>7. \A n, j : Owns(hs, us, n, j) <=> (n \in 1..m /\ j \in 1..i /\ Owns(fs, ts, n, j))
  BY <1>1, <1>2, <1>3, <1>4, <1>5, <1>6 DEF Owns
<1>8. \A j \in 1..i, n \in DOMAIN fs : Owns(fs, ts, n, j) => n \in 1..m
  <2> SUFFICES ASSUME NEW j \in 1..i, NEW n \in DOMAIN fs, Owns(fs, ts, n, j)
               PROVE  n \in 1..m
    OBVIOUS
  <2>1. j \in DOMAIN ts /\ j <= i
    BY <1>1, <1>2
  <2>2. n <= m
    BY <2>1 DEF Tied
  <2>. QED
    BY <2>2, <1>1, <1>2
<1>9. Tied(hs, us)
  <2>1. ASSUME NEW j \in DOMAIN us
        PROVE  \E n \in DOMAIN hs : n > 1 /\ Owns(hs, us, n, j)
    <3>1. j \in 1..i /\ j \in DOMAIN ts
      BY <1>1, <1>2, <1>6
    <3>2. PICK n \in DOMAIN fs : n > 1 /\ Owns(fs, ts, n, j)
      BY <3>1 DEF Tied
    <3>. QED
      BY <1>4, <1>7, <1>8, <3>1, <3>2
  <2>2. \A j, l \in DOMAIN us, n, o \in DOMAIN hs :
          Owns(hs, us, n, j) /\ Owns(hs, us, o, l) /\ j <= l => n <= o
    <3> SUFFICES ASSUME NEW j \in DOMAIN us, NEW l \in DOMAIN us,
                        NEW n \in DOMAIN hs, NEW o \in DOMAIN hs,
                        Owns(hs, us, n, j), Owns(hs, us, o, l), j <= l
                 PROVE  n <= o
      OBVIOUS
    <3>1. Owns(fs, ts, n, j) /\ Owns(fs, ts, o, l)
      BY <1>7
    <3>. QED
      BY <3>1 DEF Tied, Owns
  <2>. QED
    BY <2>1, <2>2 DEF Tied
<1>10. ASSUME NEW k \in DOMAIN hs
       PROVE  /\ Body(hs, b, k) \in Blocks <=> \E j \in DOMAIN us : Owns(hs, us, k, j)
              /\ Body(hs, b, k) \in Bodies <=> k > 1
              /\ hs[k].fn \notin Foreign
  <2>1. k \in 1..m /\ k \in DOMAIN fs
    BY <1>1, <1>2, <1>4
  <2>2. hs[k].fn \notin Foreign
    BY <2>1, <1>3 DEF Shape
  <2>3. CASE k = m
    <3>1. Body(hs, b, k) = b
      BY <1>3, <2>3 DEF Body
    <3>2. Owns(hs, us, k, i)
      BY <1>2, <1>7, <2>3
    <3>3. m > 1
      <4>1. PICK n \in DOMAIN fs : n > 1 /\ Owns(fs, ts, n, i)
        BY DEF Tied
      <4>2. n = m
        BY <4>1 DEF Owns, Stack
      <4>. QED
        BY <4>1, <4>2
    <3>. QED
      BY <2>2, <2>3, <3>1, <3>2, <3>3 DEF Bodies, Owns
  <2>4. CASE k # m
    <3>1. k + 1 \in 1..m /\ k # Len(fs) /\ k < m
      BY <1>1, <1>2, <2>1, <2>4
    <3>2. Body(hs, b, k) = Body(fs, u, k)
      BY <1>3, <2>4, <3>1 DEF Body
    <3>3. ASSUME NEW j \in DOMAIN ts, Owns(fs, ts, k, j)
          PROVE  j \in 1..i
      <4>1. ~(i <= j)
        BY <3>1, <3>3, <2>1, <1>1 DEF Tied
      <4>. QED
        BY <4>1, <1>1, <1>2
    <3>4. (\E j \in DOMAIN us : Owns(hs, us, k, j)) <=> \E j \in DOMAIN ts : Owns(fs, ts, k, j)
      BY <1>1, <1>2, <1>6, <1>7, <2>1, <3>3
    <3>. QED
      BY <2>1, <2>2, <3>2, <3>4 DEF Shape
  <2>. QED
    BY <2>3, <2>4
<1>11. Nested(us)
  BY <1>1, <1>2, <1>5, <1>6 DEF Nested
<1>. QED
  BY <1>9, <1>10, <1>11 DEF Shape, hs, us

\* A function is called: nobody owns a try frame of the new one.
LEMMA PushedShape ==
  ASSUME NEW fs, Stack(fs), NEW ts \in Seq(TryFrame), NEW u \in Bodies \cup {Start},
         Tied(fs, ts), Shape(fs, ts, u),
         NEW fr, Stack(Append(fs, fr)), fr.fn \notin Foreign,
         fr.ret = IF u = Start THEN Exit ELSE u,
         NEW f \in Functions
  PROVE  /\ Tied(Append(fs, fr), ts)
         /\ Shape(Append(fs, fr), ts, f)
<1> DEFINE gs == Append(fs, fr)
           top == Len(fs)
<1>1. top = Len(fs) /\ top \in Nat \ {0} /\ DOMAIN fs = 1..top
  BY TopFrame
<1>2. /\ Len(gs) = top + 1
      /\ \A i \in 1..top : gs[i] = fs[i]
      /\ gs[top + 1] = fr
  <2>1. fs \in Seq(Frame)
    BY DEF Stack
  <2>. QED
    BY <2>1, <1>1, AppendProperties
<1>3. DOMAIN gs = 1..(top + 1)
  BY <1>2, TopFrame
<1> HIDE DEF gs, top
<1>4. \A m, i : Owns(fs, ts, m, i) => m \in DOMAIN gs /\ gs[m] = fs[m]
  BY <1>1, <1>2, <1>3 DEF Owns
<1>5. Tied(gs, ts) /\ \A m, i : Owns(gs, ts, m, i) <=> Owns(fs, ts, m, i)
  BY <1>4, TiedKept DEF gs
<1>6. ASSUME NEW k \in DOMAIN gs
      PROVE  /\ Body(gs, f, k) \in Blocks <=> \E i \in DOMAIN ts : Owns(gs, ts, k, i)
             /\ Body(gs, f, k) \in Bodies <=> k > 1
             /\ gs[k].fn \notin Foreign
  <2>1. CASE k = top + 1
    <3>1. Body(gs, f, k) = f /\ k > 1
      BY <1>1, <1>2, <2>1 DEF Body
    <3>2. k \notin DOMAIN fs
      BY <1>1, <2>1
    <3>. QED
      BY <1>2, <1>5, <2>1, <3>1, <3>2, CpuAssumption DEF Bodies, Owns
  <2>2. CASE k = top
    <3>1. Body(gs, f, k) = IF u = Start THEN Exit ELSE u
      <4>1. k # Len(gs) /\ k + 1 = top + 1
        BY <1>1, <1>2, <2>2
      <4>. QED
        BY <1>2, <4>1 DEF Body
    <3>2. Body(fs, u, k) = u /\ k \in DOMAIN fs /\ gs[k] = fs[k]
      BY <1>1, <1>2, <2>2 DEF Body
    <3>3. (u \in Blocks <=> Body(gs, f, k) \in Blocks) /\ (u \in Bodies <=> Body(gs, f, k) \in Bodies)
      BY <3>1, CpuAssumption DEF Bodies
    <3>. QED
      BY <1>5, <3>2, <3>3 DEF Shape
  <2>3. CASE k < top
    <3>1. k \in DOMAIN fs /\ k + 1 \in 1..top /\ k # top /\ k # Len(gs)
      BY <1>1, <1>2, <1>3, <2>3
    <3>2. Body(gs, f, k) = Body(fs, u, k) /\ gs[k] = fs[k]
      BY <1>1, <1>2, <3>1 DEF Body
    <3>. QED
      BY <1>5, <3>1, <3>2 DEF Shape
  <2>. QED
    BY <1>1, <1>3, <2>1, <2>2, <2>3
<1>. QED
  BY <1>5, <1>6 DEF Shape, gs

\* A function ends: it has left its blocks.
LEMMA PoppedShape ==
  ASSUME NEW fs, Stack(fs), NEW ts \in Seq(TryFrame), NEW u \in Functions,
         Tied(fs, ts), Shape(fs, ts, u)
  PROVE  /\ Len(fs) > 1
         /\ Stack(Front(fs)) /\ Front(fs) # <<>>
         /\ \A m, i : Owns(fs, ts, m, i) =>
              m \in DOMAIN Front(fs) /\ \A k \in 1..m : Front(fs)[k] = fs[k]
         /\ Tied(Front(fs), ts)
         /\ Shape(Front(fs), ts, Last(fs).ret)
         /\ \A m, i : Owns(Front(fs), ts, m, i) <=> Owns(fs, ts, m, i)
         /\ \A k \in DOMAIN Front(fs) :
              /\ k \in DOMAIN fs /\ Front(fs)[k] = fs[k]
              /\ Body(Front(fs), Last(fs).ret, k) = Body(fs, u, k)
<1> DEFINE gs == SubSeq(fs, 1, Len(fs) - 1)
<1>1. Len(fs) \in Nat \ {0} /\ DOMAIN fs = 1..Len(fs)
  BY TopFrame
<1>2. Body(fs, u, Len(fs)) = u /\ Len(fs) \in DOMAIN fs
  BY <1>1 DEF Body
<1>3. Len(fs) > 1 /\ \A i \in DOMAIN ts : ~Owns(fs, ts, Len(fs), i)
  BY <1>2, CpuAssumption DEF Shape, Bodies
<1>4. Len(fs) - 1 \in DOMAIN fs
  BY <1>1, <1>3
<1>5. /\ Stack(gs) /\ Len(gs) = Len(fs) - 1
      /\ \A k \in 1..(Len(fs) - 1) : gs[k] = fs[k]
  BY <1>4, PrefixOfStack
<1>6. DOMAIN gs = 1..(Len(fs) - 1) /\ gs # <<>>
  BY <1>5, TopFrame DEF Stack
<1>7. Front(fs) = gs
  BY DEF Front
<1> HIDE DEF gs
<1>8. \A m, i : Owns(fs, ts, m, i) =>
        m \in DOMAIN gs /\ \A k \in 1..m : gs[k] = fs[k]
  <2> SUFFICES ASSUME NEW m, NEW i, Owns(fs, ts, m, i)
               PROVE  m \in DOMAIN gs /\ \A k \in 1..m : gs[k] = fs[k]
    OBVIOUS
  <2>1. m # Len(fs) /\ m \in 1..Len(fs)
    BY <1>1, <1>3 DEF Owns
  <2>. QED
    <3>1. m \in 1..(Len(fs) - 1) /\ 1..m \subseteq 1..(Len(fs) - 1)
      BY <1>1, <2>1, BelowTop
    <3>. QED
      BY <1>5, <1>6, <3>1
<1>9. \A m, i : Owns(fs, ts, m, i) => m \in DOMAIN gs /\ gs[m] = fs[m]
  BY <1>1, <1>8 DEF Owns
<1>10. Tied(gs, ts) /\ \A m, i : Owns(gs, ts, m, i) <=> Owns(fs, ts, m, i)
  BY <1>5, <1>9, TiedKept
<1>11. ASSUME NEW k \in DOMAIN gs
       PROVE  /\ k \in DOMAIN fs /\ gs[k] = fs[k]
              /\ Body(gs, Last(fs).ret, k) = Body(fs, u, k)
  <2>1. k \in DOMAIN fs /\ k # Len(fs) /\ gs[k] = fs[k]
    BY <1>1, <1>5, <1>6
  <2>2. CASE k = Len(fs) - 1
    <3>1. k = Len(gs) /\ k + 1 = Len(fs)
      BY <1>1, <1>5, <2>2
    <3>2. Body(gs, Last(fs).ret, k) = fs[Len(fs)].ret
      BY <3>1 DEF Body, Last
    <3>3. Body(fs, u, k) = fs[Len(fs)].ret
      BY <2>1, <3>1 DEF Body
    <3>. QED
      BY <2>1, <3>2, <3>3
  <2>3. CASE k # Len(fs) - 1
    <3>1. k + 1 \in 1..(Len(fs) - 1)
      BY <1>1, <1>6, <2>3
    <3>. QED
      BY <1>5, <2>1, <2>3, <3>1 DEF Body
  <2>. QED
    BY <2>1, <2>2, <2>3
<1>12. Shape(gs, ts, Last(fs).ret)
  BY <1>10, <1>11 DEF Shape
<1>. QED
  BY <1>3, <1>5, <1>6, <1>7, <1>8, <1>10, <1>11, <1>12

\* The function of the top frame enters a block.
LEMMA EnteredShape ==
  ASSUME NEW fs, Stack(fs), NEW ts \in Seq(TryFrame), NEW u \in Bodies,
         Tied(fs, ts), Shape(fs, ts, u), Nested(ts),
         NEW t \in TryFrame, t.ret = u, t.assoc = Last(fs).addr,
         NEW b \in Blocks
  PROVE  /\ Tied(fs, Append(ts, t))
         /\ Shape(fs, Append(ts, t), b)
         /\ Nested(Append(ts, t))
         /\ \A m, i : Owns(fs, Append(ts, t), m, i) =>
              \/ Owns(fs, ts, m, i) /\ Append(ts, t)[i] = ts[i]
              \/ m = Len(fs) /\ Append(ts, t)[i] = t
<1> DEFINE us == Append(ts, t)
           top == Len(fs)
           n == Len(ts)
<1>1. /\ top \in Nat \ {0} /\ DOMAIN fs = 1..top
      /\ n \in Nat /\ DOMAIN ts = 1..n
  BY TopFrame, TryStack
<1>2. /\ us \in Seq(TryFrame) /\ Len(us) = n + 1
      /\ \A i \in 1..n : us[i] = ts[i]
      /\ us[n + 1] = t
  BY AppendProperties
<1>3. DOMAIN us = 1..(n + 1)
  BY <1>2, TryStack
<1>4. top \in DOMAIN fs /\ Body(fs, u, top) = u /\ t.assoc = fs[top].addr
  BY <1>1 DEF Body, Last
<1>5. top > 1 /\ (u \in Blocks <=> \E i \in DOMAIN ts : Owns(fs, ts, top, i))
  BY <1>4 DEF Shape
<1>6. \A k \in DOMAIN fs \ {top} : Body(fs, b, k) = Body(fs, u, k)
  BY DEF Body
<1>7. Body(fs, b, top) = b
  BY DEF Body
<1> HIDE DEF us, top, n
<1>8. \A m, i : Owns(fs, us, m, i) <=> (Owns(fs, ts, m, i) \/ (m = top /\ i = n + 1))
  <2> SUFFICES ASSUME NEW m, NEW i
               PROVE  Owns(fs, us, m, i) <=> (Owns(fs, ts, m, i) \/ (m = top /\ i = n + 1))
    OBVIOUS
  <2>1. CASE i \in 1..n
    BY <1>1, <1>2, <1>3, <2>1 DEF Owns
  <2>2. CASE i = n + 1
    <3>1. i \notin DOMAIN ts /\ i \in DOMAIN us
      BY <1>1, <1>3, <2>2
    <3>2. m \in DOMAIN fs /\ fs[m].addr = fs[top].addr => m = top
      BY <1>4 DEF Stack
    <3>. QED
      BY <1>2, <1>4, <2>2, <3>1, <3>2 DEF Owns
  <2>3. CASE i \notin 1..(n + 1)
    <3>1. i \notin DOMAIN ts /\ i \notin DOMAIN us /\ i # n + 1
      BY <1>1, <1>3, <2>3
    <3>. QED
      BY <3>1 DEF Owns
  <2>4. 1..(n + 1) = 1..n \cup {n + 1}
    BY <1>1
  <2>. QED
    BY <2>1, <2>2, <2>3, <2>4
<1>9. Tied(fs, us)
  <2>1. \A i \in DOMAIN us : \E m \in DOMAIN fs : m > 1 /\ Owns(fs, us, m, i)
    <3> SUFFICES ASSUME NEW i \in DOMAIN us
                 PROVE  \E m \in DOMAIN fs : m > 1 /\ Owns(fs, us, m, i)
      OBVIOUS
    <3>1. CASE i = n + 1
      BY <1>4, <1>5, <1>8, <3>1
    <3>2. CASE i # n + 1
      <4>1. i \in DOMAIN ts
        BY <1>1, <1>3, <3>2
      <4>. QED
        BY <1>8, <4>1 DEF Tied
    <3>. QED
      BY <3>1, <3>2
  <2>2. \A i, j \in DOMAIN us, m, o \in DOMAIN fs :
          Owns(fs, us, m, i) /\ Owns(fs, us, o, j) /\ i <= j => m <= o
    <3> SUFFICES ASSUME NEW i \in DOMAIN us, NEW j \in DOMAIN us,
                        NEW m \in DOMAIN fs, NEW o \in DOMAIN fs,
                        Owns(fs, us, m, i), Owns(fs, us, o, j), i <= j
                 PROVE  m <= o
      OBVIOUS
    <3>1. CASE o = top
      BY <1>1, <3>1
    <3>2. CASE o # top
      <4>1. Owns(fs, ts, o, j) /\ j \in DOMAIN ts
        BY <1>8, <3>2 DEF Owns
      <4>2. i # n + 1
        BY <1>1, <4>1
      <4>3. Owns(fs, ts, m, i) /\ i \in DOMAIN ts
        BY <1>8, <4>2 DEF Owns
      <4>. QED
        BY <4>1, <4>3 DEF Tied
    <3>. QED
      BY <3>1, <3>2
  <2>. QED
    BY <2>1, <2>2 DEF Tied
<1>10. Shape(fs, us, b)
  <2> SUFFICES ASSUME NEW k \in DOMAIN fs
               PROVE  /\ Body(fs, b, k) \in Blocks <=> \E i \in DOMAIN us : Owns(fs, us, k, i)
                      /\ Body(fs, b, k) \in Bodies <=> k > 1
                      /\ fs[k].fn \notin Foreign
    BY DEF Shape
  <2>1. CASE k = top
    <3>1. Owns(fs, us, k, n + 1) /\ n + 1 \in DOMAIN us
      BY <1>1, <1>3, <1>8, <2>1
    <3>. QED
      BY <1>5, <1>7, <2>1, <3>1 DEF Shape, Bodies
  <2>2. CASE k # top
    <3>1. (\E i \in DOMAIN us : Owns(fs, us, k, i)) <=> \E i \in DOMAIN ts : Owns(fs, ts, k, i)
      BY <1>8, <2>2 DEF Owns
    <3>. QED
      BY <1>6, <2>2, <3>1 DEF Shape
  <2>. QED
    BY <2>1, <2>2
<1>11. u \in Blocks <=> n > 0 /\ ts[n].assoc = t.assoc
  <2>1. CASE u \in Blocks
    <3>1. PICK i \in DOMAIN ts : Owns(fs, ts, top, i)
      BY <1>5, <2>1
    <3>2. n \in DOMAIN ts /\ i <= n
      BY <1>1, <3>1
    <3>3. PICK m \in DOMAIN fs : Owns(fs, ts, m, n)
      BY <3>2 DEF Tied
    <3>4. top <= m
      BY <1>4, <3>1, <3>2, <3>3 DEF Tied
    <3>5. m = top
      BY <1>1, <3>4
    <3>. QED
      BY <1>1, <1>4, <2>1, <3>2, <3>3, <3>5 DEF Owns
  <2>2. CASE n > 0 /\ ts[n].assoc = t.assoc
    <3>1. n \in DOMAIN ts
      BY <1>1, <2>2
    <3>2. Owns(fs, ts, top, n)
      BY <1>4, <2>2, <3>1 DEF Owns
    <3>. QED
      BY <1>5, <2>2, <3>1, <3>2
  <2>. QED
    BY <2>1, <2>2
<1>12. Nested(us)
  <2> SUFFICES ASSUME NEW i \in DOMAIN us
               PROVE  us[i].ret \in Blocks <=> (i > 1 /\ us[i - 1].assoc = us[i].assoc)
    BY DEF Nested
  <2>1. CASE i = n + 1
    <3>1. i - 1 = n /\ us[i] = t /\ (i > 1 <=> n > 0)
      BY <1>1, <1>2, <2>1
    <3>2. n > 0 => us[n] = ts[n]
      BY <1>1, <1>2
    <3>. QED
      BY <1>11, <3>1, <3>2
  <2>2. CASE i # n + 1
    <3>1. i \in 1..n /\ (i > 1 => i - 1 \in 1..n)
      BY <1>1, <1>3, <2>2
    <3>. QED
      BY <1>1, <1>2, <3>1 DEF Nested
  <2>. QED
    BY <2>1, <2>2
<1>13. \A m, i : Owns(fs, us, m, i) =>
         \/ Owns(fs, ts, m, i) /\ us[i] = ts[i]
         \/ m = top /\ us[i] = t
  BY <1>1, <1>2, <1>8 DEF Owns
<1>. QED
  BY <1>9, <1>10, <1>12, <1>13 DEF us, top

\* The function of the top frame leaves a block.
LEMMA LeftShape ==
  ASSUME NEW fs, Stack(fs), NEW ts \in Seq(TryFrame), NEW u \in Blocks,
         Tied(fs, ts), Shape(fs, ts, u), Nested(ts)
  PROVE  /\ ts # <<>>
         /\ Tied(fs, Front(ts))
         /\ Shape(fs, Front(ts), Last(ts).ret)
         /\ Nested(Front(ts))
         /\ Owns(fs, ts, Len(fs), Len(ts))
         /\ \A m, j : Owns(fs, Front(ts), m, j) => Owns(fs, ts, m, j) /\ Front(ts)[j] = ts[j]
<1> DEFINE us == SubSeq(ts, 1, Len(ts) - 1)
           top == Len(fs)
           n == Len(ts)
           v == ts[Len(ts)].ret
<1>1. /\ top \in Nat \ {0} /\ DOMAIN fs = 1..top
      /\ n \in Nat /\ DOMAIN ts = 1..n
  BY TopFrame, TryStack
<1>2. top \in DOMAIN fs /\ Body(fs, u, top) = u
  BY <1>1 DEF Body
<1>3. PICK i \in DOMAIN ts : Owns(fs, ts, top, i)
  BY <1>2 DEF Shape
<1>4. n \in DOMAIN ts /\ i <= n /\ n > 0
  BY <1>1, <1>3
<1>5. Owns(fs, ts, top, n)
  <2>1. PICK m \in DOMAIN fs : Owns(fs, ts, m, n)
    BY <1>4 DEF Tied
  <2>2. top <= m
    BY <1>2, <1>3, <1>4, <2>1 DEF Tied
  <2>3. m = top
    BY <1>1, <2>2
  <2>. QED
    BY <2>1, <2>3
<1>6. Len(us) = n - 1 /\ DOMAIN us = 1..(n - 1) /\ \A j \in 1..(n - 1) : us[j] = ts[j]
  <2> DEFINE o == n - 1
  <2>1. o \in Nat /\ \A j \in 1..o : ts[j] \in TryFrame
    BY <1>1, <1>4, TryStack
  <2>2. us = SubSeq(ts, 1, o)
    OBVIOUS
  <2> HIDE DEF us, o
  <2>3. us \in Seq(TryFrame) /\ Len(us) = o /\ \A j \in 1..o : us[j] = ts[j]
    BY <2>1, <2>2, SubSeqProperties
  <2>4. DOMAIN us = 1..o
    BY <2>3, TryStack
  <2>. QED
    BY <2>3, <2>4 DEF o
<1>7. Front(ts) = us /\ Last(ts).ret = v /\ v \in Bodies /\ ts # <<>>
  <2>1. ts[n] \in TryFrame
    BY <1>4, TryStack
  <2>2. ts # <<>>
    BY <1>4, EmptySeq
  <2>. QED
    BY <2>1, <2>2 DEF Front, Last, TryFrame
<1>8. v \in Blocks <=> n > 1 /\ ts[n - 1].assoc = ts[n].assoc
  BY <1>4 DEF Nested
<1>9. \A k \in DOMAIN fs \ {top} : Body(fs, v, k) = Body(fs, u, k)
  BY DEF Body
<1>10. Body(fs, v, top) = v
  BY DEF Body
<1> HIDE DEF us, top, n, v
<1>11. \A m, j : Owns(fs, us, m, j) <=> (Owns(fs, ts, m, j) /\ j # n)
  <2> SUFFICES ASSUME NEW m, NEW j
               PROVE  Owns(fs, us, m, j) <=> (Owns(fs, ts, m, j) /\ j # n)
    OBVIOUS
  <2>1. j \in DOMAIN us <=> (j \in DOMAIN ts /\ j # n)
    BY <1>1, <1>4, <1>6
  <2>2. j \in DOMAIN us => us[j] = ts[j]
    BY <1>6
  <2>. QED
    BY <2>1, <2>2 DEF Owns
<1>12. \A j \in DOMAIN us : j \in DOMAIN ts /\ j # n
  BY <1>1, <1>4, <1>6
<1>13. Tied(fs, us)
  BY <1>11, <1>12 DEF Tied
<1>14. Shape(fs, us, v)
  <2> SUFFICES ASSUME NEW k \in DOMAIN fs
               PROVE  /\ Body(fs, v, k) \in Blocks <=> \E j \in DOMAIN us : Owns(fs, us, k, j)
                      /\ Body(fs, v, k) \in Bodies <=> k > 1
                      /\ fs[k].fn \notin Foreign
    BY DEF Shape
  <2>1. CASE k = top
    <3>1. (u \in Bodies <=> k > 1) /\ fs[k].fn \notin Foreign
      BY <1>2, <2>1 DEF Shape
    <3>2. v \in Bodies <=> k > 1
      BY <1>7, <3>1 DEF Bodies
    <3>3. ASSUME v \in Blocks
          PROVE  \E j \in DOMAIN us : Owns(fs, us, top, j)
      <4>1. n - 1 \in DOMAIN us /\ n - 1 \in DOMAIN ts /\ n - 1 # n
        BY <1>1, <1>4, <1>6, <1>8, <3>3
      <4>2. Owns(fs, ts, top, n - 1)
        BY <1>5, <1>8, <3>3, <4>1 DEF Owns
      <4>. QED
        BY <1>11, <4>1, <4>2
    <3>4. ASSUME NEW j \in DOMAIN us, Owns(fs, us, top, j)
          PROVE  v \in Blocks
      <4>1. n - 1 \in DOMAIN us /\ n - 1 \in DOMAIN ts /\ n > 1 /\ j <= n - 1
        BY <1>1, <1>4, <1>6, <3>4
      <4>2. PICK m \in DOMAIN fs : Owns(fs, ts, m, n - 1)
        BY <4>1 DEF Tied
      <4>3. Owns(fs, ts, top, j) /\ j \in DOMAIN ts
        BY <1>11, <1>12, <3>4
      <4>4. top <= m
        BY <1>2, <4>1, <4>2, <4>3 DEF Tied
      <4>5. m = top
        BY <1>1, <4>4
      <4>6. ts[n - 1].assoc = ts[n].assoc
        BY <1>5, <4>2, <4>5 DEF Owns
      <4>. QED
        BY <1>8, <4>1, <4>6
    <3>. QED
      BY <1>10, <2>1, <3>1, <3>2, <3>3, <3>4
  <2>2. CASE k # top
    <3>1. ~Owns(fs, ts, k, n)
      BY <1>2, <1>5, <2>2 DEF Owns, Stack
    <3>2. (\E j \in DOMAIN us : Owns(fs, us, k, j)) <=> \E j \in DOMAIN ts : Owns(fs, ts, k, j)
      BY <1>11, <3>1 DEF Owns
    <3>. QED
      BY <1>9, <2>2, <3>2 DEF Shape
  <2>. QED
    BY <2>1, <2>2
<1>15. Nested(us)
  <2> SUFFICES ASSUME NEW j \in DOMAIN us
               PROVE  us[j].ret \in Blocks <=> (j > 1 /\ us[j - 1].assoc = us[j].assoc)
    BY DEF Nested
  <2>1. j \in DOMAIN ts /\ us[j] = ts[j] /\ (j > 1 => us[j - 1] = ts[j - 1])
    BY <1>1, <1>4, <1>6
  <2>. QED
    BY <2>1 DEF Nested
<1>16. \A m, j : Owns(fs, us, m, j) => Owns(fs, ts, m, j) /\ us[j] = ts[j]
  BY <1>6, <1>11 DEF Owns
<1>. QED
  BY <1>5, <1>7, <1>13, <1>14, <1>15, <1>16 DEF us, top, n

-----------------------------------------------------------------------------
(***************************************************************************)
(* What tick does after an instruction.                                    *)
(***************************************************************************)

\* A CPU that runs, with its stacks tied.
Running ==
  /\ Sound
  /\ status = "running"
  /\ Tied(frames, tryframes)
  /\ Shape(frames, tryframes, ip)
  /\ Nested(tryframes)

\* fs is the call stack with frames added on top, or with frames dropped that
\* have entered no block.
OwnersOn(fs) ==
  \A m, i : Owns(frames, tryframes, m, i) =>
    m \in DOMAIN fs /\ \A k \in 1..m : fs[k] = frames[k]

LEMMA OwnersKept ==
  ASSUME Running, NEW fs, Stack(fs), OwnersOn(fs)
  PROVE  Tied(fs, tryframes)
<1>1. Stack(frames)
  BY DEF Running, Sound, StacksSound
<1>2. ASSUME NEW m, NEW i, Owns(frames, tryframes, m, i)
      PROVE  m \in DOMAIN fs /\ fs[m] = frames[m]
  <2>1. m \in 1..m
    BY <1>1, <1>2, TopFrame DEF Owns
  <2>. QED
    BY <1>2, <2>1 DEF OwnersOn
<1>. QED
  BY <1>2, TiedKept DEF Running

\* Unwinding finds the frame that entered the block.
LEMMA UnwoundToOwner ==
  ASSUME NEW fs, Stack(fs), NEW m \in DOMAIN fs, m > 1,
         NEW n, Kept(fs, fs[m].addr, n)
  PROVE  n = m
<1>1. Len(fs) \in Nat /\ DOMAIN fs = 1..Len(fs)
  BY TopFrame
<1>2. n \in DOMAIN fs /\ \A j \in DOMAIN fs : j > n /\ j > 2 => fs[j].addr # fs[m].addr
  BY DEF Kept
<1>3. CASE n > 2 /\ fs[n].addr = fs[m].addr
  BY <1>2, <1>3 DEF Stack
<1>4. CASE n = 2
  <2>1. ~(m > n /\ m > 2)
    BY <1>2
  <2>. QED
    BY <1>1, <1>4, <2>1
<1>5. CASE n = 1 /\ Len(fs) = 1
  BY <1>1, <1>5
<1>. QED
  BY <1>3, <1>4, <1>5 DEF Kept

LEMMA CaughtByTypeOnly ==
  ASSUME Structured, Running, NEW e \in Thrown
  PROVE  DetailedHits(TryCatchers, e) = {}
<1> SUFFICES ASSUME NEW i \in DOMAIN TryCatchers,
                    e.type = "Exception", e.etype \in DOMAIN TryCatchers[i]
             PROVE  FALSE
  BY DEF DetailedHits
<1>1. i \in DOMAIN tryframes /\ TryCatchers[i] = tryframes[i].catchers
  BY DEF TryCatchers
<1>2. tryframes[i] \in TryFrame
  BY <1>1, TryStack DEF Running, Sound, StacksSound
<1>3. tryframes[i].catchers \in CatcherMaps
  BY <1>2 DEF TryFrame
<1>4. DOMAIN tryframes[i].catchers \subseteq CatchTypes
  BY <1>3 DEF CatcherMaps
<1>. QED
  BY <1>1, <1>4 DEF Structured

\* An instruction has failed and left fs on the stack.
LEMMA RaiseLinked ==
  ASSUME Structured, Running, NEW fs, Stack(fs), OwnersOn(fs),
         NEW rs, NEW e \in Thrown, Raise(e, fs, rs)
  PROVE  Linked'
<1>1. CASE frames' = fs /\ tryframes' = tryframes /\ status' \in {"invalid_address", "uncaught"}
  BY <1>1, OwnersKept DEF Linked
<1>2. CASE CatchDetailed(e, fs, rs)
  BY <1>2, CaughtByTypeOnly DEF CatchDetailed, CaughtByDetail, Innermost
<1>3. CASE CatchByType(e, fs, rs) /\ status' = status
  <2>1. PICK i \in DOMAIN tryframes, b \in Blocks :
          /\ ip' = b
          /\ UnwindFrames(tryframes[i].assoc, fs, rs)
          /\ tryframes' = SubSeq(tryframes, 1, i)
    BY <1>3 DEF CatchByType, UnwindTryFrames
  <2>2. PICK m \in DOMAIN frames : m > 1 /\ Owns(frames, tryframes, m, i)
    BY DEF Running, Tied
  <2>3. m \in DOMAIN fs /\ \A k \in 1..m : fs[k] = frames[k]
    BY <2>2 DEF OwnersOn
  <2>4. Stack(frames) /\ tryframes \in Seq(TryFrame)
    BY DEF Running, Sound, StacksSound
  <2>5. tryframes[i].assoc = fs[m].addr
    <3>1. m \in 1..m
      BY <2>2, <2>4, TopFrame
    <3>. QED
      BY <2>2, <2>3, <3>1 DEF Owns
  <2>6. frames' = SubSeq(fs, 1, m)
    BY <2>1, <2>2, <2>3, <2>5, UnwoundToOwner DEF UnwindFrames
  <2>7. /\ Tied(SubSeq(fs, 1, m), SubSeq(tryframes, 1, i))
        /\ Shape(SubSeq(fs, 1, m), SubSeq(tryframes, 1, i), b)
        /\ Nested(SubSeq(tryframes, 1, i))
    BY <2>2, <2>3, <2>4, UnwoundShape DEF Running
  <2>. QED
    BY <1>3, <2>1, <2>6, <2>7 DEF Linked, Running
<1>. QED
  BY <1>1, <1>2, <1>3 DEF Raise

LEMMA FaultLinked ==
  ASSUME Structured, Running, Fault
  PROVE  Linked'
<1>1. OwnersOn(frames)
  BY DEF OwnersOn, Owns
<1>2. MachineException \in Thrown
  BY CatchingAssumption
<1>. QED
  BY <1>1, <1>2, RaiseLinked DEF Fault, Running, Sound, StacksSound

LEMMA GoToLinked ==
  ASSUME NEW u, NEW fs, NEW ts, NEW same, GoTo(u, fs, ts, same),
         Tied(fs, ts), Shape(fs, ts, u), Nested(ts)
  PROVE  Linked'
BY DEF GoTo, Linked

LEMMA GoOnLinked ==
  ASSUME Running, GoOn
  PROVE  Linked'
BY GoToLinked DEF GoOn, Running

-----------------------------------------------------------------------------
(***************************************************************************)
(* The instructions that change the stacks.                                *)
(***************************************************************************)

LEMMA PushKeepsOwners ==
  ASSUME Running, NEW fr, Stack(Push(fr))
  PROVE  OwnersOn(Push(fr))
<1>1. Stack(frames) /\ frames \in Seq(Frame)
  BY DEF Running, Sound, StacksSound, Stack
<1>2. Len(frames) \in Nat /\ DOMAIN frames = 1..Len(frames)
  BY <1>1, TopFrame
<1>3. /\ Len(Push(fr)) = Len(frames) + 1
      /\ \A i \in 1..Len(frames) : Push(fr)[i] = frames[i]
  BY <1>1, <1>2 DEF Push
<1>4. DOMAIN Push(fr) = 1..(Len(frames) + 1)
  BY <1>3, TopFrame
<1> SUFFICES ASSUME NEW m, NEW i, Owns(frames, tryframes, m, i)
             PROVE  m \in DOMAIN Push(fr) /\ \A k \in 1..m : Push(fr)[k] = frames[k]
  BY DEF OwnersOn
<1>5. m \in 1..Len(frames)
  BY <1>2 DEF Owns
<1>6. 1..m \subseteq 1..Len(frames) /\ m \in 1..(Len(frames) + 1)
  BY <1>2, <1>5
<1>. QED
  BY <1>3, <1>4, <1>6

LEMMA CallLinked ==
  ASSUME Structured, Running, NEW f \in Functions, NEW place \in BOOLEAN,
         NEW closure \in BOOLEAN, NEW same \in BOOLEAN, Call(f, place, closure, same)
  PROVE  Linked'
<1>1. CASE CallRefused
  BY <1>1, FaultLinked DEF Call
<1>2. CASE ~CallRefused
  <2> DEFINE called == PreparedFrame(f, place)
  <2>1. ip \in Bodies \cup {Start} /\ GoTo(f, Push(called), tryframes, same)
    BY <1>2 DEF Call, Executing
  <2>2. Stack(Push(called)) /\ called.fn = f
    BY <1>2, <2>1, CalleeSound DEF Names, Running
  <2>3. called.ret = IF ip = Start THEN Exit ELSE ip
    BY DEF PreparedFrame, ReturnTo
  <2>4. f \notin Foreign
    BY CpuAssumption
  <2> HIDE DEF called
  <2>5. Tied(Push(called), tryframes) /\ Shape(Push(called), tryframes, f)
    BY <2>1, <2>2, <2>3, <2>4, PushedShape DEF Push, Running, Sound, StacksSound
  <2>. QED
    BY <2>1, <2>5, GoToLinked DEF Running
<1>. QED
  BY <1>1, <1>2

LEMMA CallForeignLinked ==
  ASSUME Structured, Running, NEW f \in Foreign, NEW place \in BOOLEAN, CallForeign(f, place)
  PROVE  Linked'
<1>1. CASE CallRefused
  BY <1>1, FaultLinked DEF CallForeign
<1>2. CASE ~CallRefused
  <2> DEFINE called == PreparedFrame(f, place)
  <2>1. ip \in Bodies
    BY DEF CallForeign, Executing
  <2>2. Stack(Push(called)) /\ Stack(frames)
    BY <1>2, <2>1, CalleeSound DEF Names, Running, Sound, StacksSound
  <2>3. \/ \E e \in Faults : Raise(e, Push(called), LocalOf(called))
        \/ Raise(MachineException, frames, LocalOf(Last(frames)))
        \/ GoOn
    BY <1>2 DEF CallForeign
  <2> HIDE DEF called
  <2>4. CASE \E e \in Faults : Raise(e, Push(called), LocalOf(called))
    BY <2>2, <2>4, PushKeepsOwners, RaiseLinked DEF Faults
  <2>5. CASE Raise(MachineException, frames, LocalOf(Last(frames)))
    <3>1. OwnersOn(frames)
      BY DEF OwnersOn, Owns
    <3>. QED
      BY <2>2, <2>5, <3>1, RaiseLinked, CatchingAssumption
  <2>. QED
    BY <2>3, <2>4, <2>5, GoOnLinked
<1>. QED
  BY <1>1, <1>2

LEMMA EndLinked ==
  ASSUME Structured, Running, End
  PROVE  Linked'
<1> DEFINE rest == Front(frames)
<1>1. ip \in Functions
  BY DEF End, Follows, Structured
<1>2. /\ Len(frames) > 1
      /\ Stack(rest) /\ rest # <<>>
      /\ OwnersOn(rest)
      /\ Tied(rest, tryframes)
      /\ Shape(rest, tryframes, Last(frames).ret)
  BY <1>1, PoppedShape DEF Running, Sound, StacksSound, OwnersOn
<1>3. Last(rest).fn \notin Foreign
  BY <1>2, TopFrame DEF Shape, Last
<1>4. \/ Fault
      \/ Raise(MachineException, rest, LocalOf(Last(rest)))
      \/ GoTo(Last(frames).ret, rest, tryframes, FALSE)
  BY <1>2, <1>3 DEF End
<1> HIDE DEF rest
<1>5. CASE Raise(MachineException, rest, LocalOf(Last(rest)))
  BY <1>2, <1>5, RaiseLinked, CatchingAssumption
<1>6. CASE GoTo(Last(frames).ret, rest, tryframes, FALSE)
  BY <1>2, <1>6, GoToLinked DEF Running
<1>. QED
  BY <1>4, <1>5, <1>6, FaultLinked

LEMMA EnterLinked ==
  ASSUME Structured, Running, NEW b \in Blocks, NEW same \in BOOLEAN, Enter(b, same)
  PROVE  Linked'
<1> DEFINE entered == [ret |-> ip, assoc |-> Last(frames).addr, block |-> b,
                       catchers |-> tryCatchers]
<1>1. ip \in Bodies /\ GoTo(b, frames, Append(tryframes, entered), same)
  BY DEF Enter, Executing
<1>2. entered \in TryFrame
  BY <1>1, TopFrame DEF TryFrame, Frame, Running, Sound, StacksSound, HooksSound
<1>3. entered.ret = ip /\ entered.assoc = Last(frames).addr
  OBVIOUS
<1> HIDE DEF entered
<1>4. /\ Tied(frames, Append(tryframes, entered))
      /\ Shape(frames, Append(tryframes, entered), b)
      /\ Nested(Append(tryframes, entered))
  BY <1>1, <1>2, <1>3, EnteredShape DEF Running, Sound, StacksSound
<1>. QED
  BY <1>1, <1>4, GoToLinked

LEMMA LeaveLinked ==
  ASSUME Structured, Running, Leave
  PROVE  Linked'
<1>1. ip \in Blocks
  BY DEF Leave, Follows, Structured
<1>2. /\ tryframes # <<>>
      /\ Tied(frames, Front(tryframes))
      /\ Shape(frames, Front(tryframes), Last(tryframes).ret)
      /\ Nested(Front(tryframes))
  BY <1>1, LeftShape DEF Running, Sound, StacksSound
<1>3. Last(frames).fn \notin Foreign
  BY TopFrame DEF Running, Sound, StacksSound, Shape, Last
<1>4. GoTo(Last(tryframes).ret, frames, Front(tryframes), FALSE)
  BY <1>2, <1>3 DEF Leave
<1>. QED
  BY <1>2, <1>4, GoToLinked

\* A jump that stays in its body.
LEMMA JumpStays ==
  ASSUME Structured, JumpBaseOfCode, Jump
  PROVE  /\ \E same \in BOOLEAN : GoTo(ip, frames, tryframes, same)
         /\ jumpBase = ModuleOf[ip] /\ UNCHANGED <<pending, jumpBase, uregset, caught>>
<1>1. jumpBase = ModuleOf[ip] /\ StaysInBody
  BY DEF Jump, Executing, JumpBaseOfCode, Structured, StaysInBody
<1>. QED
  BY <1>1 DEF Jump

LEMMA JumpLinked ==
  ASSUME Structured, Running, JumpBaseOfCode, Jump
  PROVE  Linked'
<1>1. PICK same \in BOOLEAN : GoTo(ip, frames, tryframes, same)
  BY JumpStays
<1>. QED
  BY <1>1, GoToLinked DEF Running

LEMMA DeadLinked ==
  ASSUME Running, NoFrame \/ NoTryFrame
  PROVE  Linked'
BY DEF NoFrame, NoTryFrame, Die, Linked, Running

-----------------------------------------------------------------------------
(***************************************************************************)
(* The inductive invariant.                                                *)
(***************************************************************************)

LEMMA InitLinked == Init => Linked
<1> SUFFICES ASSUME Init PROVE Linked
  OBVIOUS
<1>1. tryframes = <<>> /\ status = "running" /\ ip = Start
  BY DEF Init
<1>2. DOMAIN frames = {1} /\ frames[1].fn = Start /\ Len(frames) = 1
  BY DEF Init
<1>3. DOMAIN tryframes = {}
  BY <1>1
<1>4. Tied(frames, tryframes) /\ Nested(tryframes)
  BY <1>3 DEF Tied, Nested
<1>5. Shape(frames, tryframes, ip)
  BY <1>1, <1>2, <1>3, CpuAssumption DEF Shape, Body, Bodies
<1>. QED
  BY <1>1, <1>4, <1>5 DEF Linked

LEMMA TickLinked ==
  ASSUME Structured, Inv, Linked, JumpBaseOfCode, Tick
  PROVE  Linked'
<1>1. status = "running"
  BY DEF Tick, NewFrame, NoFrame, Call, CallForeign, End, Try, Catch, Enter,
         NoTryFrame, Leave, Throw, Pull, Ress, Jump, Halt, Executing
<1>2. Running
  BY <1>1, SoundOfInv DEF Running, Linked
<1>3. CASE NewFrame
  BY <1>2, <1>3, FaultLinked, GoOnLinked DEF NewFrame
<1>4. CASE \E f \in Functions, place, closure, same \in BOOLEAN : Call(f, place, closure, same)
  BY <1>2, <1>4, CallLinked
<1>5. CASE \E f \in Foreign, place \in BOOLEAN : CallForeign(f, place)
  BY <1>2, <1>5, CallForeignLinked
<1>6. CASE End
  BY <1>2, <1>6, EndLinked
<1>7. CASE Try
  BY <1>2, <1>7, FaultLinked, GoOnLinked DEF Try
<1>8. CASE \E t \in CatchTypes, b \in Blocks : Catch(t, b)
  BY <1>2, <1>8, GoOnLinked DEF Catch
<1>9. CASE \E b \in Blocks, same \in BOOLEAN : Enter(b, same)
  BY <1>2, <1>9, EnterLinked
<1>10. CASE NoFrame \/ NoTryFrame
  BY <1>2, <1>10, DeadLinked
<1>11. CASE Leave
  BY <1>2, <1>11, LeaveLinked
<1>12. CASE \E e \in Thrown : Throw(e)
  <2>1. PICK e \in Thrown : Raise(e, frames, uregset)
    BY <1>12 DEF Throw
  <2>2. OwnersOn(frames)
    BY DEF OwnersOn, Owns
  <2>. QED
    BY <1>2, <2>1, <2>2, RaiseLinked DEF Running, Sound, StacksSound
<1>13. CASE Pull
  BY <1>2, <1>13, FaultLinked, GoOnLinked DEF Pull
<1>14. CASE \E kind \in {"global", "local", "static"} : Ress(kind)
  BY <1>2, <1>14, GoOnLinked DEF Ress
<1>15. CASE Jump
  BY <1>2, <1>15, JumpLinked
<1>16. CASE Halt
  BY <1>2, <1>16 DEF Halt, Linked, Running
<1>. QED
  BY <1>3, <1>4, <1>5, <1>6, <1>7, <1>8, <1>9, <1>10, <1>11, <1>12, <1>13,
     <1>14, <1>15, <1>16 DEF Tick

\* Every call, return, entered or left block and every unwinding of a
\* structured program keeps the call stack and the block stack tied together.
THEOREM StacksLinked ==
  ASSUME Structured, OneModule
  PROVE  Spec => [](Inv /\ Linked)
<1>1. Init => Inv /\ Linked
  BY InitInv, InitLinked
<1>2. Inv /\ Linked /\ [Next]_vars => (Inv /\ Linked)'
  <2> SUFFICES ASSUME Inv, Linked, [Next]_vars
               PROVE  Inv' /\ Linked'
    OBVIOUS
  <2>1. CASE Tick
    <3>1. JumpBaseOfCode
      BY CpuAssumption DEF OneModule, Inv, TypeOK, JumpBaseOfCode
    <3>. QED
      BY <2>1, <3>1, TickInv, TickLinked
  <2>2. CASE UNCHANGED vars
    <3>1. Inv'
      BY <2>2, StutterInv
    <3>2. Linked'
      BY <2>2 DEF Linked, vars
    <3>. QED
      BY <3>1, <3>2
  <2>. QED
    BY <2>1, <2>2 DEF Next, Stopped
<1>. QED
  BY <1>1, <1>2, PTL DEF Spec

\* Every try frame belongs to a frame on the stack, and the two stacks are in
\* the same order, for every structured program.
THEOREM TryFramesStayTied ==
  ASSUME Structured, OneModule
  PROVE  Spec => []TryFramesFollowFrames
<1>1. Linked => TryFramesFollowFrames
  <2> SUFFICES ASSUME Linked, NEW i \in DOMAIN tryframes, NEW j \in DOMAIN tryframes, i <= j
               PROVE  \E m, n \in DOMAIN frames :
                        /\ m <= n
                        /\ tryframes[i].assoc = frames[m].addr
                        /\ tryframes[j].assoc = frames[n].addr
    BY DEF TryFramesFollowFrames
  <2>1. PICK m \in DOMAIN frames : Owns(frames, tryframes, m, i)
    BY DEF Linked, Tied
  <2>2. PICK n \in DOMAIN frames : Owns(frames, tryframes, n, j)
    BY DEF Linked, Tied
  <2>3. m <= n
    BY <2>1, <2>2 DEF Linked, Tied
  <2>. QED
    BY <2>1, <2>2, <2>3 DEF Owns
<1>. QED
  BY <1>1, StacksLinked, PTL

\* A block or handler of a structured program always runs in the frame of the
\* function that entered the block.
THEOREM BlocksRunInTheirFrames ==
  ASSUME Structured, OneModule
  PROVE  Spec => []BlockRunsInItsFrame
<1>1. Inv /\ Linked => BlockRunsInItsFrame
  <2> SUFFICES ASSUME Inv, Linked, status = "running", ip \in Blocks
               PROVE  tryframes # <<>> /\ Last(tryframes).assoc = Last(frames).addr
    BY DEF BlockRunsInItsFrame
  <2>1. Stack(frames) /\ tryframes \in Seq(TryFrame)
    BY SoundOfInv DEF Sound, StacksSound
  <2>2. Len(frames) \in DOMAIN frames /\ Body(frames, ip, Len(frames)) = ip
    BY <2>1, TopFrame DEF Body
  <2>3. PICK i \in DOMAIN tryframes : Owns(frames, tryframes, Len(frames), i)
    BY <2>2 DEF Linked, Shape
  <2>4. Len(tryframes) \in DOMAIN tryframes /\ i <= Len(tryframes)
    BY <2>1, <2>3, TryStack
  <2>5. PICK m \in DOMAIN frames : Owns(frames, tryframes, m, Len(tryframes))
    BY <2>4 DEF Linked, Tied
  <2>6. Len(frames) <= m
    BY <2>2, <2>3, <2>4, <2>5 DEF Linked, Tied
  <2>7. m = Len(frames)
    BY <2>1, <2>5, <2>6, TopFrame
  <2>8. tryframes # <<>>
    BY <2>1, <2>4, EmptySeq
  <2>. QED
    BY <2>5, <2>7, <2>8 DEF Owns, Last
<1>. QED
  BY <1>1, StacksLinked, PTL

\* In a structured program that is not linked, the only ticks that kill the
\* process are param, paref and msg without a prepared frame and catch and enter
\* without a try frame: end and leave always return to a function of the program.
THEOREM OnlyMissingHooksKill ==
  ASSUME Structured, OneModule
  PROVE  Spec => []OnlyHooksKill
<1>1. Linked => OnlyHooksKill
  BY DEF Linked, OnlyHooksKill
<1>. QED
  BY <1>1, StacksLinked, PTL

-----------------------------------------------------------------------------
(***************************************************************************)
(* Linked modules.                                                         *)
(***************************************************************************)

\* Each function is in code of its own module, and every try frame of it
\* returns to such code.
Based(fs, ts, u) ==
  /\ \A k \in DOMAIN fs : ModuleOf[Body(fs, u, k)] = ModuleOf[fs[k].fn]
  /\ \A m, i : Owns(fs, ts, m, i) => ModuleOf[ts[i].ret] = ModuleOf[fs[m].fn]

Located ==
  /\ status = "running" => Based(frames, tryframes, ip)
  /\ JumpBaseOfCode

\* A CPU that runs, with its code located, and what a tick makes of it.
RunningInPlace ==
  /\ Running
  /\ Based(frames, tryframes, ip)
  /\ JumpBaseOfCode

StaysInPlace ==
  /\ Located'
  /\ status' = "invalid_address" => ip' = ip

\* Nothing is caught: an instruction that fails stops the CPU where it is.
LEMMA RaiseInPlace ==
  ASSUME Structured, ManyModules, RunningInPlace,
         NEW fs, NEW rs, NEW e \in Thrown, Raise(e, fs, rs)
  PROVE  StaysInPlace
<1>1. DetailedHits(TryCatchers, e) = {}
  BY CaughtByTypeOnly DEF RunningInPlace
<1>2. ~CatchDetailed(e, fs, rs)
  BY <1>1 DEF CatchDetailed, CaughtByDetail, Innermost
<1>3. TypeHits(TryCatchers, e) = {}
  <2> SUFFICES ASSUME NEW i \in DOMAIN TryCatchers, NEW k \in DOMAIN Candidates(e),
                      Candidates(e)[k] \in DOMAIN TryCatchers[i]
               PROVE  FALSE
    BY DEF TypeHits
  <2>1. i \in DOMAIN tryframes /\ TryCatchers[i] = tryframes[i].catchers
    BY DEF TryCatchers
  <2>2. tryframes[i] \in TryFrame
    BY <2>1, TryStack DEF RunningInPlace, Running, Sound, StacksSound
  <2>3. DOMAIN tryframes[i].catchers \subseteq CatchTypes
    BY <2>2 DEF TryFrame, CatcherMaps
  <2>. QED
    BY <2>1, <2>3 DEF ManyModules
<1>4. ~CatchByType(e, fs, rs)
  BY <1>3 DEF CatchByType, CaughtByType, Innermost
<1>5. ip' = ip /\ status' \in {"invalid_address", "uncaught"}
  BY <1>2, <1>4 DEF Raise
<1>. QED
  BY <1>5 DEF StaysInPlace, Located, JumpBaseOfCode

LEMMA FaultInPlace ==
  ASSUME Structured, ManyModules, RunningInPlace, Fault
  PROVE  StaysInPlace
BY RaiseInPlace, CatchingAssumption DEF Fault

\* Code of the function on top is code tick accepts.
LEMMA GoToInPlace ==
  ASSUME NEW fs, Stack(fs), NEW ts, NEW u, NEW same, GoTo(u, fs, ts, same),
         Shape(fs, ts, u), Based(fs, ts, u),
         u \in Bodies => jumpBase' = ModuleOf[u]
  PROVE  StaysInPlace
<1>1. Last(fs) \in Frame /\ Last(fs).fn \notin Foreign /\ ModuleOf[u] = ModuleOf[Last(fs).fn]
  BY TopFrame DEF Shape, Based, Body, Last
<1>2. ~OutOfCode(u, fs, ts)
  <2> SUFFICES ASSUME ModuleOf[u] \in HighModules
               PROVE  LinkedFunction(Last(fs).fn)
    BY DEF OutOfCode
  <2>1. ModuleOf[Last(fs).fn] # Bytecode
    BY <1>1, CpuAssumption
  <2>. QED
    BY <1>1, <2>1, CpuAssumption DEF LinkedFunction, Frame, Names
<1>. QED
  BY <1>2 DEF GoTo, StaysInPlace, Located, JumpBaseOfCode

LEMMA GoOnInPlace ==
  ASSUME RunningInPlace, GoOn, ip \in Bodies => jumpBase' = ModuleOf[ip]
  PROVE  StaysInPlace
BY GoToInPlace DEF GoOn, RunningInPlace, Running, Sound, StacksSound

LEMMA KeptInPlace ==
  ASSUME RunningInPlace, jumpBase' = jumpBase
  PROVE  ip \in Bodies => jumpBase' = ModuleOf[ip]
BY DEF RunningInPlace, Running, JumpBaseOfCode

\* What a call makes of the call stack.
LEMMA PushedBase ==
  ASSUME NEW fs, Stack(fs), NEW ts, NEW u \in Bodies \cup {Start},
         Tied(fs, ts), Based(fs, ts, u),
         NEW fr, Stack(Append(fs, fr)), fr.ret = IF u = Start THEN Exit ELSE u
  PROVE  Based(Append(fs, fr), ts, fr.fn)
<1> DEFINE gs == Append(fs, fr)
           top == Len(fs)
<1>1. top = Len(fs) /\ top \in Nat \ {0} /\ DOMAIN fs = 1..top /\ fs \in Seq(Frame)
  BY TopFrame DEF Stack
<1>2. /\ Len(gs) = top + 1
      /\ \A i \in 1..top : gs[i] = fs[i]
      /\ gs[top + 1] = fr
  BY <1>1, AppendProperties
<1>3. DOMAIN gs = 1..(top + 1)
  BY <1>2, TopFrame
<1> HIDE DEF gs, top
<1>4. \A m, i : Owns(gs, ts, m, i) => Owns(fs, ts, m, i) /\ gs[m] = fs[m]
  <2>1. \A m, i : Owns(fs, ts, m, i) => m \in DOMAIN gs /\ gs[m] = fs[m]
    BY <1>1, <1>2, <1>3 DEF Owns
  <2>. QED
    BY <2>1, TiedKept DEF gs
<1>5. ASSUME NEW k \in DOMAIN gs
      PROVE  ModuleOf[Body(gs, fr.fn, k)] = ModuleOf[gs[k].fn]
  <2>1. CASE k = top + 1
    BY <1>2, <2>1 DEF Body
  <2>2. CASE k = top
    <3>1. k # Len(gs) /\ k + 1 = top + 1 /\ k \in DOMAIN fs
      BY <1>1, <1>2, <2>2
    <3>2. Body(gs, fr.fn, k) = fr.ret /\ Body(fs, u, k) = u /\ gs[k] = fs[k]
      BY <1>1, <1>2, <2>2, <3>1 DEF Body
    <3>3. ModuleOf[fr.ret] = ModuleOf[u]
      BY CpuAssumption
    <3>. QED
      BY <3>1, <3>2, <3>3 DEF Based
  <2>3. CASE k < top
    <3>1. k \in DOMAIN fs /\ k + 1 \in 1..top /\ k # top /\ k # Len(gs)
      BY <1>1, <1>2, <1>3, <2>3
    <3>2. Body(gs, fr.fn, k) = Body(fs, u, k) /\ gs[k] = fs[k]
      BY <1>1, <1>2, <3>1 DEF Body
    <3>. QED
      BY <3>1, <3>2 DEF Based
  <2>. QED
    BY <1>1, <1>3, <2>1, <2>2, <2>3
<1>6. \A m, i : Owns(gs, ts, m, i) => ModuleOf[ts[i].ret] = ModuleOf[gs[m].fn]
  BY <1>4 DEF Based
<1>7. Based(gs, ts, fr.fn)
  BY <1>5, <1>6 DEF Based
<1>. QED
  BY <1>7 DEF gs

LEMMA CallInPlace ==
  ASSUME Structured, ManyModules, RunningInPlace, NEW f \in Functions, NEW place \in BOOLEAN,
         NEW closure \in BOOLEAN, NEW same \in BOOLEAN, Call(f, place, closure, same)
  PROVE  StaysInPlace
<1>1. CASE CallRefused
  BY <1>1, FaultInPlace DEF Call
<1>2. CASE ~CallRefused
  <2> DEFINE called == PreparedFrame(f, place)
  <2>1. /\ ip \in Bodies \cup {Start} /\ GoTo(f, Push(called), tryframes, same)
        /\ jumpBase' = ModuleOf[f]
    BY <1>2 DEF Call, Executing
  <2>2. Stack(Push(called)) /\ called.fn = f
    BY <1>2, <2>1, CalleeSound DEF Names, RunningInPlace, Running
  <2>3. called.ret = IF ip = Start THEN Exit ELSE ip
    BY DEF PreparedFrame, ReturnTo
  <2>4. f \notin Foreign
    BY CpuAssumption
  <2> HIDE DEF called
  <2>5. Shape(Push(called), tryframes, f)
    BY <2>1, <2>2, <2>3, <2>4, PushedShape
    DEF Push, RunningInPlace, Running, Sound, StacksSound
  <2>6. Based(Push(called), tryframes, f)
    BY <2>1, <2>2, <2>3, PushedBase
    DEF Push, RunningInPlace, Running, Sound, StacksSound
  <2>. QED
    BY <2>1, <2>2, <2>5, <2>6, GoToInPlace
<1>. QED
  BY <1>1, <1>2

LEMMA CallForeignInPlace ==
  ASSUME Structured, ManyModules, RunningInPlace, NEW f \in Foreign, NEW place \in BOOLEAN,
         CallForeign(f, place)
  PROVE  StaysInPlace
<1>1. \/ \E e \in Thrown : \E fs, rs : Raise(e, fs, rs)
      \/ GoOn /\ jumpBase' = jumpBase
  BY CatchingAssumption DEF CallForeign, Fault, Faults
<1>. QED
  BY <1>1, RaiseInPlace, GoOnInPlace, KeptInPlace

LEMMA EndInPlace ==
  ASSUME Structured, ManyModules, RunningInPlace, End
  PROVE  StaysInPlace
<1> DEFINE rest == Front(frames)
           u == Last(frames).ret
<1>1. ip \in Functions
  BY DEF End, Follows, Structured
<1>2. /\ Stack(rest) /\ rest # <<>>
      /\ Shape(rest, tryframes, u)
      /\ \A m, i : Owns(rest, tryframes, m, i) <=> Owns(frames, tryframes, m, i)
      /\ \A k \in DOMAIN rest :
           /\ k \in DOMAIN frames /\ rest[k] = frames[k]
           /\ Body(rest, u, k) = Body(frames, ip, k)
  BY <1>1, PoppedShape DEF RunningInPlace, Running, Sound, StacksSound
<1>3. Len(rest) \in DOMAIN rest /\ Last(rest).fn \notin Foreign
  BY <1>2, TopFrame DEF Shape, Last
<1>4. \/ \E e \in Thrown : \E fs, rs : Raise(e, fs, rs)
      \/ GoTo(u, rest, tryframes, FALSE) /\ jumpBase' = ModuleOf[Last(rest).fn]
  BY <1>2, <1>3, CatchingAssumption DEF End, Fault, JumpBaseOf
<1> HIDE DEF rest, u
<1>5. Based(rest, tryframes, u)
  <2>1. \A k \in DOMAIN rest : ModuleOf[Body(rest, u, k)] = ModuleOf[rest[k].fn]
    BY <1>2 DEF RunningInPlace, Based
  <2>2. \A m, i : Owns(rest, tryframes, m, i) => rest[m] = frames[m]
    BY <1>2 DEF Owns
  <2>. QED
    BY <1>2, <2>1, <2>2 DEF RunningInPlace, Based
<1>6. ModuleOf[u] = ModuleOf[Last(rest).fn]
  BY <1>3, <1>5 DEF Based, Body, Last
<1>. QED
  BY <1>2, <1>4, <1>5, <1>6, RaiseInPlace, GoToInPlace

LEMMA EnterInPlace ==
  ASSUME Structured, ManyModules, RunningInPlace, NEW b \in Blocks, NEW same \in BOOLEAN,
         Enter(b, same)
  PROVE  StaysInPlace
<1> DEFINE entered == [ret |-> ip, assoc |-> Last(frames).addr, block |-> b,
                       catchers |-> tryCatchers]
           ts == Append(tryframes, entered)
<1>1. /\ ip \in Bodies /\ GoTo(b, frames, ts, same)
      /\ ModuleOf[b] = ModuleOf[ip] /\ jumpBase' = ModuleOf[b]
  BY DEF Enter, Executing, Follows, ManyModules
<1>2. entered \in TryFrame
  BY <1>1, TopFrame
  DEF TryFrame, Frame, RunningInPlace, Running, Sound, StacksSound, HooksSound
<1>3. entered.ret = ip /\ entered.assoc = Last(frames).addr
  OBVIOUS
<1> HIDE DEF entered
<1>4. /\ Shape(frames, ts, b)
      /\ \A m, i : Owns(frames, ts, m, i) =>
           \/ Owns(frames, tryframes, m, i) /\ ts[i] = tryframes[i]
           \/ m = Len(frames) /\ ts[i] = entered
  BY <1>1, <1>2, <1>3, EnteredShape DEF RunningInPlace, Running, Sound, StacksSound
<1> HIDE DEF ts
<1>5. Stack(frames) /\ Len(frames) \in DOMAIN frames
  BY TopFrame DEF RunningInPlace, Running, Sound, StacksSound
<1>6. ModuleOf[ip] = ModuleOf[frames[Len(frames)].fn]
  BY <1>5 DEF RunningInPlace, Based, Body
<1>7. Based(frames, ts, b)
  <2>1. \A k \in DOMAIN frames : ModuleOf[Body(frames, b, k)] = ModuleOf[frames[k].fn]
    BY <1>1, <1>6 DEF RunningInPlace, Based, Body
  <2>2. \A m, i : Owns(frames, ts, m, i) => ModuleOf[ts[i].ret] = ModuleOf[frames[m].fn]
    BY <1>3, <1>4, <1>6 DEF RunningInPlace, Based
  <2>. QED
    BY <2>1, <2>2 DEF Based
<1>. QED
  BY <1>1, <1>4, <1>5, <1>7, GoToInPlace

LEMMA LeaveInPlace ==
  ASSUME Structured, ManyModules, RunningInPlace, Leave
  PROVE  StaysInPlace
<1> DEFINE ts == Front(tryframes)
           u == Last(tryframes).ret
<1>1. ip \in Blocks
  BY DEF Leave, Follows, Structured
<1>2. /\ tryframes # <<>>
      /\ Shape(frames, ts, u)
      /\ Owns(frames, tryframes, Len(frames), Len(tryframes))
      /\ \A m, j : Owns(frames, ts, m, j) => Owns(frames, tryframes, m, j) /\ ts[j] = tryframes[j]
  BY <1>1, LeftShape DEF RunningInPlace, Running, Sound, StacksSound
<1>3. Stack(frames) /\ Last(frames).fn \notin Foreign
  BY TopFrame DEF RunningInPlace, Running, Sound, StacksSound, Shape, Last
<1>4. GoTo(u, frames, ts, FALSE) /\ jumpBase' = ModuleOf[Last(frames).fn]
  BY <1>2, <1>3 DEF Leave, JumpBaseOf
<1>5. ModuleOf[u] = ModuleOf[frames[Len(frames)].fn]
  BY <1>2 DEF RunningInPlace, Based, Last
<1> HIDE DEF ts, u
<1>6. Based(frames, ts, u)
  <2>1. \A k \in DOMAIN frames : ModuleOf[Body(frames, u, k)] = ModuleOf[frames[k].fn]
    BY <1>5 DEF RunningInPlace, Based, Body
  <2>2. \A m, i : Owns(frames, ts, m, i) => ModuleOf[ts[i].ret] = ModuleOf[frames[m].fn]
    BY <1>2 DEF RunningInPlace, Based
  <2>. QED
    BY <2>1, <2>2 DEF Based
<1>. QED
  BY <1>2, <1>3, <1>4, <1>5, <1>6, GoToInPlace DEF Last

LEMMA JumpInPlace ==
  ASSUME Structured, RunningInPlace, Jump
  PROVE  StaysInPlace
<1>1. jumpBase = ModuleOf[ip] /\ jumpBase' = jumpBase
  BY JumpStays DEF RunningInPlace
<1>2. PICK same \in BOOLEAN : GoTo(ip, frames, tryframes, same)
  BY JumpStays DEF RunningInPlace
<1>. QED
  BY <1>1, <1>2, GoToInPlace DEF RunningInPlace, Running, Sound, StacksSound

LEMMA TickInPlace ==
  ASSUME Structured, ManyModules, Inv, Linked, Located, Tick
  PROVE  StaysInPlace
<1>1. status = "running"
  BY DEF Tick, NewFrame, NoFrame, Call, CallForeign, End, Try, Catch, Enter,
         NoTryFrame, Leave, Throw, Pull, Ress, Jump, Halt, Executing
<1>2. RunningInPlace
  BY <1>1, SoundOfInv DEF RunningInPlace, Running, Linked, Located
<1>3. CASE NewFrame
  BY <1>2, <1>3, FaultInPlace, GoOnInPlace, KeptInPlace DEF NewFrame
<1>4. CASE \E f \in Functions, place, closure, same \in BOOLEAN : Call(f, place, closure, same)
  BY <1>2, <1>4, CallInPlace
<1>5. CASE \E f \in Foreign, place \in BOOLEAN : CallForeign(f, place)
  BY <1>2, <1>5, CallForeignInPlace
<1>6. CASE End
  BY <1>2, <1>6, EndInPlace
<1>7. CASE Try
  BY <1>2, <1>7, FaultInPlace, GoOnInPlace, KeptInPlace DEF Try
<1>8. CASE \E t \in CatchTypes, b \in Blocks : Catch(t, b)
  BY <1>2, <1>8, GoOnInPlace DEF Catch, Follows, ManyModules
<1>9. CASE \E b \in Blocks, same \in BOOLEAN : Enter(b, same)
  BY <1>2, <1>9, EnterInPlace
<1>10. CASE NoFrame \/ NoTryFrame
  BY <1>10 DEF NoFrame, NoTryFrame, Die, StaysInPlace, Located, JumpBaseOfCode
<1>11. CASE Leave
  BY <1>2, <1>11, LeaveInPlace
<1>12. CASE \E e \in Thrown : Throw(e)
  BY <1>2, <1>12, RaiseInPlace DEF Throw
<1>13. CASE Pull
  BY <1>2, <1>13, FaultInPlace, GoOnInPlace, KeptInPlace DEF Pull
<1>14. CASE \E kind \in {"global", "local", "static"} : Ress(kind)
  BY <1>2, <1>14, GoOnInPlace, KeptInPlace DEF Ress
<1>15. CASE Jump
  BY <1>2, <1>15, JumpInPlace
<1>16. CASE Halt
  BY <1>16 DEF Halt, StaysInPlace, Located, JumpBaseOfCode
<1>. QED
  BY <1>3, <1>4, <1>5, <1>6, <1>7, <1>8, <1>9, <1>10, <1>11, <1>12, <1>13,
     <1>14, <1>15, <1>16 DEF Tick

LEMMA InitLocated == Init => Located
<1> SUFFICES ASSUME Init PROVE Located
  OBVIOUS
<1>1. DOMAIN tryframes = {} /\ ip = Start
  BY DEF Init
<1>2. DOMAIN frames = {1} /\ frames[1].fn = Start /\ Len(frames) = 1
  BY DEF Init
<1>. QED
  BY <1>1, <1>2, CpuAssumption DEF Located, Based, Owns, Body, JumpBaseOfCode

\* Code stays in its module, for any number of linked modules, as long as no
\* exception is caught.
THEOREM CodeStaysInPlace ==
  ASSUME Structured, ManyModules
  PROVE  Spec => [](Inv /\ Linked /\ Located)
<1>1. Init => Inv /\ Linked /\ Located
  BY InitInv, InitLinked, InitLocated
<1>2. Inv /\ Linked /\ Located /\ [Next]_vars => (Inv /\ Linked /\ Located)'
  <2> SUFFICES ASSUME Inv, Linked, Located, [Next]_vars
               PROVE  Inv' /\ Linked' /\ Located'
    OBVIOUS
  <2>1. CASE Tick
    BY <2>1, TickInv, TickLinked, TickInPlace DEF Located, StaysInPlace
  <2>2. CASE UNCHANGED vars
    <3>1. Inv'
      BY <2>2, StutterInv
    <3>2. Linked' /\ Located'
      BY <2>2 DEF Linked, Located, JumpBaseOfCode, vars
    <3>. QED
      BY <3>1, <3>2
  <2>. QED
    BY <2>1, <2>2 DEF Next, Stopped
<1>. QED
  BY <1>1, <1>2, PTL DEF Spec

\* As long as nothing is caught and blocks are entered in their own module, calls
\* and returns between any number of modules leave jumps relative to the module of
\* the code that executes them.  (A caught exception may not: catching does not
\* restore jump_base.)
THEOREM JumpBasesFollowCode ==
  ASSUME Structured, ManyModules
  PROVE  Spec => []JumpBaseOfCode
<1>1. Located => JumpBaseOfCode
  BY DEF Located
<1>. QED
  BY <1>1, CodeStaysInPlace, PTL

\* Under the same two conditions only an instruction that fails ends in an address
\* fault, however the modules are mapped: no call, return, jump, entered or left
\* block does.
THEOREM ControlStaysInCode ==
  ASSUME Structured, ManyModules
  PROVE  Spec => OnlyFailuresLeaveCode
<1>1. Inv /\ Linked /\ Located /\ [Next]_vars =>
        [status' = "invalid_address" => UNCHANGED ip]_vars
  <2> SUFFICES ASSUME Inv, Linked, Located, [Next]_vars
               PROVE  [status' = "invalid_address" => UNCHANGED ip]_vars
    OBVIOUS
  <2>1. CASE Tick
    BY <2>1, TickInPlace DEF StaysInPlace
  <2>2. CASE UNCHANGED vars
    BY <2>2
  <2>. QED
    BY <2>1, <2>2 DEF Next, Stopped
<1>. QED
  BY <1>1, CodeStaysInPlace, PTL DEF Spec, OnlyFailuresLeaveCode

-----------------------------------------------------------------------------
(***************************************************************************)
(* The CPU implements structured control flow.  As long as the two stacks  *)
(* are tied together, the one stack they are read as grows and shrinks at  *)
(* its end with both of them, and unwinding both cuts it after the block   *)
(* that catches.                                                           *)
(***************************************************************************)
\* Two stacks that are tied together.
Pair(fs, ts) == Stack(fs) /\ ts \in Seq(TryFrame) /\ Tied(fs, ts)

\* i of the first p contexts are blocks.
UpTo(fs, ts, p, i) ==
  /\ i \in 0..Len(ts)
  /\ i > 0 => Place(fs, ts, i) <= p
  /\ i < Len(ts) => Place(fs, ts, i + 1) > p

-----------------------------------------------------------------------------
(***************************************************************************)
(* Places of blocks.                                                       *)
(***************************************************************************)

LEMMA PairLengths ==
  ASSUME NEW fs, NEW ts, Pair(fs, ts)
  PROVE  /\ Len(fs) \in Nat \ {0} /\ DOMAIN fs = 1..Len(fs)
         /\ Len(ts) \in Nat /\ DOMAIN ts = 1..Len(ts)
BY TopFrame, TryStack DEF Pair

LEMMA CallsBelowIs ==
  ASSUME NEW fs, Stack(fs), NEW ts, NEW m, NEW i, Owns(fs, ts, m, i)
  PROVE  Place(fs, ts, i) = m + i
<1> DEFINE t == ts[i]
           Below(k) == IF k > 0 THEN fs[k].addr = t.assoc ELSE \A n \in DOMAIN fs : fs[n].addr # t.assoc
<1>1. m \in DOMAIN fs /\ fs[m].addr = t.assoc
  BY DEF Owns
<1>2. Len(fs) \in Nat \ {0} /\ DOMAIN fs = 1..Len(fs)
  BY TopFrame
<1>3. m \in 0..Len(fs) /\ Below(m)
  BY <1>1, <1>2
<1>4. \A k \in 0..Len(fs) : Below(k) => k = m
  <2> SUFFICES ASSUME NEW k \in 0..Len(fs), Below(k)
               PROVE  k = m
    OBVIOUS
  <2>1. k > 0
    BY <1>1, <1>2
  <2>2. k \in DOMAIN fs /\ fs[k].addr = fs[m].addr
    BY <1>1, <1>2, <2>1
  <2>. QED
    BY <1>1, <2>2 DEF Stack
<1>5. CallsBelow(fs, t) = CHOOSE k \in 0..Len(fs) : Below(k)
  BY DEF CallsBelow
<1> HIDE DEF Below
<1>6. CallsBelow(fs, t) = m
  BY <1>3, <1>4, <1>5
<1>. QED
  BY <1>6 DEF Place

LEMMA PlaceOfBlock ==
  ASSUME NEW fs, NEW ts, Pair(fs, ts), NEW i \in DOMAIN ts
  PROVE  \E m \in DOMAIN fs : Owns(fs, ts, m, i) /\ Place(fs, ts, i) = m + i
BY CallsBelowIs DEF Pair, Tied

LEMMA PlacesRise ==
  ASSUME NEW fs, NEW ts, Pair(fs, ts), NEW i \in DOMAIN ts, NEW j \in DOMAIN ts, i <= j
  PROVE  /\ Place(fs, ts, i) \in (i + 1)..(Len(fs) + i)
         /\ Place(fs, ts, i) + (j - i) <= Place(fs, ts, j)
<1>1. PICK m \in DOMAIN fs : Owns(fs, ts, m, i) /\ Place(fs, ts, i) = m + i
  BY PlaceOfBlock
<1>2. PICK n \in DOMAIN fs : Owns(fs, ts, n, j) /\ Place(fs, ts, j) = n + j
  BY PlaceOfBlock
<1>3. m <= n
  BY <1>1, <1>2 DEF Pair, Tied
<1>. QED
  BY <1>1, <1>2, <1>3, PairLengths

LEMMA PlaceBounds ==
  ASSUME NEW fs, NEW ts, Pair(fs, ts), NEW i \in DOMAIN ts
  PROVE  Place(fs, ts, i) \in (i + 1)..(Len(fs) + i)
<1>1. i \in Nat
  BY PairLengths
<1>. QED
  BY <1>1, PlacesRise

LEMMA LastOrBefore ==
  ASSUME NEW n \in Nat, NEW i \in 0..n
  PROVE  i = n \/ i < n
OBVIOUS

LEMMA LeastExists ==
  ASSUME NEW S \in SUBSET Nat, S # {}
  PROVE  \E x \in S : \A y \in S : x <= y
  <1>1. \E x \in S : \A y \in S : <<y, x>> \notin OpToRel(<, Nat)
    BY WFMin, NatLessThanWellFounded
  <1>2. OpToRel(<, Nat) = {p \in Nat \X Nat : p[1] < p[2]}
    BY Zenon DEF OpToRel
  <1>3. PICK x \in S : \A y \in S : <<y, x>> \notin OpToRel(<, Nat)
    BY <1>1
  <1>4. \A y \in S : ~(y < x)
    BY <1>2, <1>3
  <1>. QED
    BY <1>4

LEMMA UpToExists ==
  ASSUME NEW fs, NEW ts, Pair(fs, ts), NEW p \in Nat
  PROVE  \E i : UpTo(fs, ts, p, i)
<1> DEFINE n == Len(ts)
           S == {i \in 0..n : i < n => Place(fs, ts, i + 1) > p}
<1>1. n \in Nat /\ DOMAIN ts = 1..n
  BY PairLengths
<1>2. n \in S /\ S \in SUBSET Nat
  BY <1>1
<1>3. PICK i \in S : \A j \in S : i <= j
  BY <1>2, LeastExists
<1>4. i > 0 => Place(fs, ts, i) <= p
  <2> SUFFICES ASSUME i > 0
               PROVE  Place(fs, ts, i) <= p
    OBVIOUS
  <2>1. i - 1 \in 0..n /\ i - 1 < n /\ i \in DOMAIN ts /\ (i - 1) + 1 = i
    BY <1>1
  <2>2. i - 1 \notin S
    <3>1. i \in Nat /\ (i - 1 \in S => i <= i - 1)
      BY <1>2, <1>3
    <3>. QED
      BY <3>1
  <2>3. ~(Place(fs, ts, i) > p)
    BY <2>1, <2>2
  <2>4. Place(fs, ts, i) \in Int
    BY <2>1, PlacesRise, PairLengths
  <2>. QED
    BY <2>3, <2>4
<1>. QED
  BY <1>1, <1>4 DEF UpTo

LEMMA UpToUnique ==
  ASSUME NEW fs, NEW ts, Pair(fs, ts), NEW p \in Nat,
         NEW i, UpTo(fs, ts, p, i), NEW j, UpTo(fs, ts, p, j), i < j
  PROVE  FALSE
<1>1. Len(ts) \in Nat /\ DOMAIN ts = 1..Len(ts) /\ Len(fs) \in Nat
  BY PairLengths
<1>2. i + 1 \in DOMAIN ts /\ j \in DOMAIN ts /\ i + 1 <= j
  BY <1>1 DEF UpTo
<1>3. Place(fs, ts, i + 1) > p /\ Place(fs, ts, j) <= p
  BY <1>1, <1>2 DEF UpTo
<1>4. /\ Place(fs, ts, i + 1) + (j - (i + 1)) <= Place(fs, ts, j)
      /\ Place(fs, ts, i + 1) \in Int /\ Place(fs, ts, j) \in Int
  <2>1. /\ Place(fs, ts, i + 1) \in (i + 1 + 1)..(Len(fs) + (i + 1))
        /\ Place(fs, ts, i + 1) + (j - (i + 1)) <= Place(fs, ts, j)
    BY <1>2, PlacesRise
  <2>2. Place(fs, ts, j) \in (j + 1)..(Len(fs) + j)
    BY <1>1, <1>2, PlacesRise
  <2>. QED
    BY <1>1, <1>2, <2>1, <2>2
<1>. QED
  BY <1>1, <1>2, <1>3, <1>4

LEMMA BlocksUpToIs ==
  ASSUME NEW fs, NEW ts, Pair(fs, ts), NEW p \in Nat, NEW i, UpTo(fs, ts, p, i)
  PROVE  BlocksUpTo(fs, ts, p) = i
<1>1. BlocksUpTo(fs, ts, p) = CHOOSE j \in 0..Len(ts) : UpTo(fs, ts, p, j)
  BY DEF BlocksUpTo, UpTo
<1>2. i \in 0..Len(ts) /\ Len(ts) \in Nat
  BY PairLengths DEF UpTo
<1>3. \A j \in 0..Len(ts) : UpTo(fs, ts, p, j) => j = i
  <2> SUFFICES ASSUME NEW j \in 0..Len(ts), UpTo(fs, ts, p, j)
               PROVE  j = i
    OBVIOUS
  <2>1. ~(i < j) /\ ~(j < i)
    BY UpToUnique
  <2>. QED
    BY <1>2, <2>1
<1>. QED
  BY <1>1, <1>2, <1>3

LEMMA BlocksUpToChosen ==
  ASSUME NEW fs, NEW ts, Pair(fs, ts), NEW p \in Nat
  PROVE  UpTo(fs, ts, p, BlocksUpTo(fs, ts, p))
BY UpToExists, BlocksUpToIs

-----------------------------------------------------------------------------
(***************************************************************************)
(* The one stack.                                                          *)
(***************************************************************************)

LEMMA ContextsAre ==
  ASSUME NEW fs, NEW ts, Pair(fs, ts)
  PROVE  /\ Len(Contexts(fs, ts)) = Len(fs) + Len(ts)
         /\ DOMAIN Contexts(fs, ts) = 1..(Len(fs) + Len(ts))
         /\ \A p \in 1..(Len(fs) + Len(ts)) : Contexts(fs, ts)[p] = ContextAt(fs, ts, p)
         /\ \E S : Contexts(fs, ts) \in Seq(S)
<1> DEFINE n == Len(fs) + Len(ts)
           s == [p \in 1..n |-> ContextAt(fs, ts, p)]
           S == {s[p] : p \in 1..n}
<1>1. n \in Nat
  BY PairLengths
<1>2. Contexts(fs, ts) = SubSeq(s, 1, n)
  BY DEF Contexts
<1>3. \A p \in 1..n : s[p] = ContextAt(fs, ts, p) /\ s[p] \in S
  OBVIOUS
<1> HIDE DEF n, s, S
<1>4. /\ SubSeq(s, 1, n) \in Seq(S) /\ Len(SubSeq(s, 1, n)) = n
      /\ \A p \in 1..n : SubSeq(s, 1, n)[p] = s[p]
  BY <1>1, <1>3, SubSeqProperties
<1>5. DOMAIN SubSeq(s, 1, n) = 1..n
  BY <1>4, LenProperties
<1>. QED
  BY <1>2, <1>3, <1>4, <1>5 DEF n

\* A context is a block, or a call.
LEMMA ContextCases ==
  ASSUME NEW fs, NEW ts, Pair(fs, ts), NEW p \in 1..(Len(fs) + Len(ts))
  PROVE  \/ \E i \in DOMAIN ts : p = Place(fs, ts, i) /\ Contexts(fs, ts)[p] = BlockOf(ts[i])
         \/ /\ \A i \in DOMAIN ts : p # Place(fs, ts, i)
            /\ p - BlocksUpTo(fs, ts, p) \in DOMAIN fs
            /\ Contexts(fs, ts)[p] = CallOf(fs[p - BlocksUpTo(fs, ts, p)])
<1> DEFINE i == BlocksUpTo(fs, ts, p)
<1>1. /\ Len(fs) \in Nat \ {0} /\ DOMAIN fs = 1..Len(fs)
      /\ Len(ts) \in Nat /\ DOMAIN ts = 1..Len(ts)
      /\ p \in Nat \ {0}
  BY PairLengths
<1>2. UpTo(fs, ts, p, i)
  BY <1>1, BlocksUpToChosen
<1>3. Contexts(fs, ts)[p] =
        IF i > 0 /\ Place(fs, ts, i) = p THEN BlockOf(ts[i]) ELSE CallOf(fs[p - i])
  BY ContextsAre DEF ContextAt
<1> HIDE DEF i
<1>4. i \in 0..Len(ts) /\ (i > 0 => i \in DOMAIN ts)
  BY <1>1, <1>2 DEF UpTo
<1>5. CASE i > 0 /\ Place(fs, ts, i) = p
  BY <1>3, <1>4, <1>5
<1>6. CASE ~(i > 0 /\ Place(fs, ts, i) = p)
  <2>1. \A j \in DOMAIN ts : p # Place(fs, ts, j)
    <3> SUFFICES ASSUME NEW j \in DOMAIN ts, Place(fs, ts, j) = p
                 PROVE  FALSE
      OBVIOUS
    <3>1. UpTo(fs, ts, p, j)
      <4>1. j < Len(ts) => j + 1 \in DOMAIN ts /\ j <= j + 1 /\ (j + 1) - j = 1
        BY <1>1
      <4>2. j < Len(ts) => Place(fs, ts, j) + 1 <= Place(fs, ts, j + 1)
        BY <4>1, PlacesRise
      <4>3. j < Len(ts) => Place(fs, ts, j + 1) \in Int
        BY <1>1, <4>1, PlacesRise
      <4>. QED
        BY <1>1, <4>2, <4>3 DEF UpTo
    <3>2. j = i
      BY <1>1, <1>2, <3>1, BlocksUpToIs
    <3>. QED
      BY <1>1, <1>6, <3>2
  <2>2. p - i \in DOMAIN fs
    <3>1. i < p
      <4>1. CASE i = 0
        BY <1>1, <4>1
      <4>2. CASE i > 0
        <5>1. Place(fs, ts, i) <= p /\ Place(fs, ts, i) \in (i + 1)..(Len(fs) + i)
          BY <1>1, <1>2, <1>4, <4>2, PlacesRise DEF UpTo
        <5>. QED
          BY <1>1, <1>4, <5>1
      <4>. QED
        BY <1>4, <4>1, <4>2
    <3>2. p <= Len(fs) + i
      <4>1. CASE i = Len(ts)
        BY <1>1, <4>1
      <4>2. CASE i < Len(ts)
        <5>1. i + 1 \in DOMAIN ts
          BY <1>1, <1>4, <4>2
        <5>2. Place(fs, ts, i + 1) > p /\ Place(fs, ts, i + 1) \in (i + 1 + 1)..(Len(fs) + (i + 1))
          BY <1>1, <1>2, <4>2, <5>1, PlacesRise DEF UpTo
        <5>. QED
          BY <1>1, <1>4, <5>2
      <4>3. i = Len(ts) \/ i < Len(ts)
        BY <1>1, <1>4, LastOrBefore
      <4>. QED
        BY <4>1, <4>2, <4>3
    <3>. QED
      BY <1>1, <1>4, <3>1, <3>2
  <2>. QED
    BY <1>3, <1>6, <2>1, <2>2 DEF i
<1>. QED
  BY <1>5, <1>6

LEMMA BlockInPlace ==
  ASSUME NEW fs, NEW ts, Pair(fs, ts), NEW i \in DOMAIN ts
  PROVE  /\ Place(fs, ts, i) \in DOMAIN Contexts(fs, ts)
         /\ Contexts(fs, ts)[Place(fs, ts, i)] = BlockOf(ts[i])
<1>1. /\ Len(fs) \in Nat \ {0} /\ DOMAIN fs = 1..Len(fs)
      /\ Len(ts) \in Nat /\ DOMAIN ts = 1..Len(ts)
  BY PairLengths
<1>2. Place(fs, ts, i) \in (i + 1)..(Len(fs) + i)
  BY <1>1, PlacesRise
<1>3. Place(fs, ts, i) \in 1..(Len(fs) + Len(ts))
  BY <1>1, <1>2
<1>4. PICK j \in DOMAIN ts : /\ Place(fs, ts, i) = Place(fs, ts, j)
                             /\ Contexts(fs, ts)[Place(fs, ts, i)] = BlockOf(ts[j])
  BY <1>3, ContextCases
<1>5. ~(i < j) /\ ~(j < i)
  <2>1. i < j => Place(fs, ts, i) + (j - i) <= Place(fs, ts, j)
    BY <1>1, PlacesRise
  <2>2. j < i => Place(fs, ts, j) + (i - j) <= Place(fs, ts, i)
    BY <1>1, PlacesRise
  <2>. QED
    BY <1>1, <1>2, <1>4, <2>1, <2>2
<1>6. i = j
  BY <1>1, <1>5
<1>. QED
  BY <1>3, <1>4, <1>6, ContextsAre

-----------------------------------------------------------------------------
(***************************************************************************)
(* Growing and cutting the one stack.                                      *)
(***************************************************************************)

\* gs and us are the lowest elements of fs and ts, and no other block of ts
\* comes before their end.
Cut(fs, ts, gs, us) ==
  /\ Len(gs) <= Len(fs) /\ \A m \in DOMAIN gs : gs[m] = fs[m]
  /\ Len(us) <= Len(ts) /\ \A i \in DOMAIN us : us[i] = ts[i]
  /\ Len(us) < Len(ts) => Place(fs, ts, Len(us) + 1) > Len(gs) + Len(us)

LEMMA SamePlaces ==
  ASSUME NEW fs, NEW ts, Pair(fs, ts), NEW gs, NEW us, Pair(gs, us), Cut(fs, ts, gs, us),
         NEW i \in DOMAIN us
  PROVE  i \in DOMAIN ts /\ us[i] = ts[i] /\ Place(gs, us, i) = Place(fs, ts, i)
<1>1. PICK m \in DOMAIN gs : Owns(gs, us, m, i) /\ Place(gs, us, i) = m + i
  BY PlaceOfBlock
<1>2. m \in DOMAIN fs /\ i \in DOMAIN ts
  BY <1>1, PairLengths DEF Cut
<1>3. Owns(fs, ts, m, i)
  BY <1>1, <1>2 DEF Owns, Cut
<1>. QED
  BY <1>1, <1>2, <1>3, CallsBelowIs DEF Pair, Cut

LEMMA SameBlocks ==
  ASSUME NEW fs, NEW ts, Pair(fs, ts), NEW gs, NEW us, Pair(gs, us), Cut(fs, ts, gs, us),
         NEW p \in 1..(Len(gs) + Len(us))
  PROVE  BlocksUpTo(fs, ts, p) = BlocksUpTo(gs, us, p)
<1> DEFINE i == BlocksUpTo(gs, us, p)
<1>1. /\ Len(us) \in Nat /\ DOMAIN us = 1..Len(us)
      /\ Len(ts) \in Nat /\ DOMAIN ts = 1..Len(ts)
      /\ Len(gs) \in Nat /\ Len(fs) \in Nat
      /\ p \in Nat
  BY PairLengths
<1>2. UpTo(gs, us, p, i)
  BY <1>1, BlocksUpToChosen
<1> HIDE DEF i
<1>3. i \in 0..Len(us) /\ Len(us) <= Len(ts)
  BY <1>2 DEF UpTo, Cut
<1>4. i > 0 => Place(fs, ts, i) <= p
  <2> SUFFICES ASSUME i > 0
               PROVE  Place(fs, ts, i) <= p
    OBVIOUS
  <2>1. i \in DOMAIN us
    BY <1>1, <1>3
  <2>. QED
    BY <1>2, <2>1, SamePlaces DEF UpTo
<1>5. i < Len(ts) => Place(fs, ts, i + 1) > p
  <2>1. CASE i < Len(us)
    <3>1. i + 1 \in DOMAIN us
      BY <1>1, <1>3, <2>1
    <3>. QED
      BY <1>2, <2>1, <3>1, SamePlaces DEF UpTo
  <2>2. CASE i = Len(us) /\ Len(us) < Len(ts)
    <3>1. Place(fs, ts, i + 1) > Len(gs) + Len(us)
      BY <2>2 DEF Cut
    <3>2. i + 1 \in DOMAIN ts
      BY <1>1, <1>3, <2>2
    <3>3. Place(fs, ts, i + 1) \in Int
      BY <1>1, <1>3, <3>2, PlacesRise
    <3>. QED
      BY <1>1, <3>1, <3>3
  <2>3. i < Len(us) \/ (i = Len(us) /\ Len(us) < Len(ts)) \/ ~(i < Len(ts))
    BY <1>1, <1>3, LastOrBefore
  <2>. QED
    BY <2>1, <2>2, <2>3
<1>6. UpTo(fs, ts, p, i)
  BY <1>1, <1>3, <1>4, <1>5 DEF UpTo
<1>7. BlocksUpTo(fs, ts, p) = i
  BY <1>1, <1>6, BlocksUpToIs
<1>. QED
  BY <1>7 DEF i

LEMMA ContextsCut ==
  ASSUME NEW fs, NEW ts, Pair(fs, ts), NEW gs, NEW us, Pair(gs, us), Cut(fs, ts, gs, us),
         NEW p \in 1..(Len(gs) + Len(us))
  PROVE  Contexts(gs, us)[p] = Contexts(fs, ts)[p]
<1>1. /\ Len(us) \in Nat /\ DOMAIN us = 1..Len(us)
      /\ Len(ts) \in Nat /\ DOMAIN ts = 1..Len(ts)
      /\ Len(gs) \in Nat /\ Len(fs) \in Nat
      /\ Len(gs) <= Len(fs) /\ Len(us) <= Len(ts)
  BY PairLengths DEF Cut
<1>2. p \in 1..(Len(fs) + Len(ts))
  BY <1>1
<1>3. CASE \E i \in DOMAIN us : p = Place(gs, us, i) /\ Contexts(gs, us)[p] = BlockOf(us[i])
  <2>1. PICK i \in DOMAIN us : p = Place(gs, us, i) /\ Contexts(gs, us)[p] = BlockOf(us[i])
    BY <1>3
  <2>2. i \in DOMAIN ts /\ us[i] = ts[i] /\ p = Place(fs, ts, i)
    BY <2>1, SamePlaces
  <2>. QED
    BY <2>1, <2>2, BlockInPlace
<1>4. CASE /\ \A i \in DOMAIN us : p # Place(gs, us, i)
           /\ p - BlocksUpTo(gs, us, p) \in DOMAIN gs
           /\ Contexts(gs, us)[p] = CallOf(gs[p - BlocksUpTo(gs, us, p)])
  <2>1. \A i \in DOMAIN ts : p # Place(fs, ts, i)
    <3> SUFFICES ASSUME NEW i \in DOMAIN ts, p = Place(fs, ts, i)
                 PROVE  FALSE
      OBVIOUS
    <3>1. CASE i \in DOMAIN us
      BY <1>4, <3>1, SamePlaces
    <3>2. CASE i \notin DOMAIN us
      <4>1. Len(us) + 1 \in DOMAIN ts /\ Len(us) < Len(ts) /\ Len(us) + 1 <= i
        BY <1>1, <3>2
      <4>2. Place(fs, ts, Len(us) + 1) > Len(gs) + Len(us)
        BY <4>1 DEF Cut
      <4>3. Place(fs, ts, Len(us) + 1) + (i - (Len(us) + 1)) <= p
        BY <4>1, PlacesRise
      <4>4. Place(fs, ts, Len(us) + 1) \in Int
        BY <1>1, <4>1, PlacesRise
      <4>. QED
        BY <1>1, <4>1, <4>2, <4>3, <4>4
    <3>. QED
      BY <3>1, <3>2
  <2>2. Contexts(fs, ts)[p] = CallOf(fs[p - BlocksUpTo(fs, ts, p)])
    BY <1>2, <2>1, ContextCases
  <2>3. BlocksUpTo(fs, ts, p) = BlocksUpTo(gs, us, p)
    BY SameBlocks
  <2>. QED
    BY <1>4, <2>2, <2>3 DEF Cut
<1>. QED
  BY <1>3, <1>4, ContextCases

\* The stack a cut leaves.
LEMMA ContextsPrefix ==
  ASSUME NEW fs, NEW ts, Pair(fs, ts), NEW gs, NEW us, Pair(gs, us), Cut(fs, ts, gs, us)
  PROVE  Contexts(gs, us) = SubSeq(Contexts(fs, ts), 1, Len(gs) + Len(us))
<1> DEFINE c == Contexts(fs, ts)
           d == Contexts(gs, us)
           n == Len(gs) + Len(us)
<1>1. /\ Len(us) \in Nat /\ Len(ts) \in Nat /\ Len(gs) \in Nat /\ Len(fs) \in Nat
      /\ Len(gs) <= Len(fs) /\ Len(us) <= Len(ts)
  BY PairLengths DEF Cut
<1>2. n \in Nat /\ n <= Len(fs) + Len(ts)
  BY <1>1
<1>3. PICK S : c \in Seq(S)
  BY ContextsAre
<1>4. PICK T : d \in Seq(T)
  BY ContextsAre
<1>5. Len(c) = Len(fs) + Len(ts) /\ Len(d) = n
  BY ContextsAre
<1>6. \A p \in 1..n : d[p] = c[p]
  BY ContextsCut
<1> HIDE DEF c, d, n
<1>7. \A p \in 1..n : c[p] \in S
  BY <1>1, <1>2, <1>3, <1>5, ElementOfSeq
<1>8. /\ SubSeq(c, 1, n) \in Seq(S) /\ Len(SubSeq(c, 1, n)) = n
      /\ \A p \in 1..n : SubSeq(c, 1, n)[p] = c[p]
  BY <1>2, <1>7, SubSeqProperties
<1>9. d = SubSeq(c, 1, n)
  BY <1>2, <1>4, <1>5, <1>6, <1>8, SeqEqual
<1>. QED
  BY <1>9 DEF c, d, n

\* The stack that is cut by one context.
LEMMA ContextsGrown ==
  ASSUME NEW fs, NEW ts, Pair(fs, ts), NEW gs, NEW us, Pair(gs, us), Cut(fs, ts, gs, us),
         Len(fs) + Len(ts) = Len(gs) + Len(us) + 1,
         NEW x, x = Contexts(fs, ts)[Len(gs) + Len(us) + 1]
  PROVE  Contexts(fs, ts) = Append(Contexts(gs, us), x)
<1> DEFINE c == Contexts(fs, ts)
           d == Contexts(gs, us)
           n == Len(gs) + Len(us)
<1>1. Len(us) \in Nat /\ Len(gs) \in Nat
  BY PairLengths
<1>2. n \in Nat
  BY <1>1
<1>3. PICK S : c \in Seq(S)
  BY ContextsAre
<1>4. PICK T : d \in Seq(T)
  BY ContextsAre
<1>5. Len(c) = n + 1 /\ Len(d) = n
  BY ContextsAre
<1>6. \A p \in 1..n : d[p] = c[p]
  BY ContextsCut
<1>7. c[n + 1] = x
  OBVIOUS
<1> HIDE DEF c, d, n
<1>8. d \in Seq(T \cup {x})
  BY <1>4, <1>5, <1>2, ElementOfSeq, LenProperties, IsASeq
<1>9. /\ Append(d, x) \in Seq(T \cup {x}) /\ Len(Append(d, x)) = n + 1
      /\ \A p \in 1..n : Append(d, x)[p] = d[p]
      /\ Append(d, x)[n + 1] = x
  BY <1>5, <1>8, AppendProperties
<1>10. \A p \in 1..(n + 1) : Append(d, x)[p] = c[p]
  BY <1>2, <1>6, <1>7, <1>9
<1>11. c = Append(d, x)
  BY <1>2, <1>3, <1>5, <1>9, <1>10, SeqEqual
<1>. QED
  BY <1>11 DEF c, d

\* gs has one frame more than fs.
LEMMA OneCallMore ==
  ASSUME NEW fs, NEW ts, Pair(fs, ts), NEW gs, Pair(gs, ts),
         Len(gs) = Len(fs) + 1, \A m \in DOMAIN fs : gs[m] = fs[m]
  PROVE  /\ Cut(gs, ts, fs, ts)
         /\ Len(Contexts(gs, ts)) = Len(fs) + Len(ts) + 1
         /\ Contexts(gs, ts)[Len(fs) + Len(ts) + 1] = CallOf(gs[Len(gs)])
<1> DEFINE p == Len(fs) + Len(ts) + 1
           n == Len(ts)
<1>1. /\ Len(fs) \in Nat \ {0} /\ DOMAIN fs = 1..Len(fs)
      /\ Len(ts) \in Nat /\ DOMAIN ts = 1..Len(ts)
      /\ DOMAIN gs = 1..Len(gs)
  BY PairLengths
<1>2. Cut(gs, ts, fs, ts)
  BY <1>1 DEF Cut
<1>3. p \in Nat /\ p \in 1..(Len(gs) + Len(ts)) /\ p = Len(gs) + Len(ts) /\ p - n = Len(gs)
  BY <1>1
<1>4. \A i \in DOMAIN ts : Place(gs, ts, i) <= Len(fs) + i
  <2> SUFFICES ASSUME NEW i \in DOMAIN ts
               PROVE  Place(gs, ts, i) <= Len(fs) + i
    OBVIOUS
  <2>1. Place(gs, ts, i) = Place(fs, ts, i)
    BY <1>2, SamePlaces
  <2>2. Place(fs, ts, i) \in (i + 1)..(Len(fs) + i)
    BY <1>1, PlacesRise
  <2>. QED
    BY <1>1, <2>1, <2>2
<1>5. \A i \in DOMAIN ts : p # Place(gs, ts, i)
  <2> SUFFICES ASSUME NEW i \in DOMAIN ts, p = Place(gs, ts, i)
               PROVE  FALSE
    OBVIOUS
  <2>1. p <= Len(fs) + i
    BY <1>4
  <2>. QED
    BY <1>1, <2>1
<1>6. BlocksUpTo(gs, ts, p) = n
  <2>1. n > 0 => Place(gs, ts, n) <= p
    <3> SUFFICES ASSUME n > 0
                 PROVE  Place(gs, ts, n) <= p
      OBVIOUS
    <3>1. n \in DOMAIN ts
      BY <1>1
    <3>2. Place(gs, ts, n) <= Len(fs) + n
      BY <1>4, <3>1
    <3>3. Place(gs, ts, n) \in (n + 1)..(Len(gs) + n)
      BY <3>1, PlaceBounds
    <3>. QED
      BY <1>1, <3>2, <3>3
  <2>2. n \in 0..Len(ts) /\ ~(n < Len(ts))
    BY <1>1
  <2>3. UpTo(gs, ts, p, n)
    BY <2>1, <2>2 DEF UpTo
  <2>. QED
    BY <1>3, <2>3, BlocksUpToIs
<1> HIDE DEF p
<1>7. Contexts(gs, ts)[p] = CallOf(gs[p - BlocksUpTo(gs, ts, p)])
  BY <1>3, <1>5, ContextCases
<1>8. Len(Contexts(gs, ts)) = p
  BY <1>3, ContextsAre
<1>. QED
  BY <1>2, <1>3, <1>6, <1>7, <1>8 DEF p

\* ts has one try frame more than us, entered from the frame on top.
LEMMA OneBlockMore ==
  ASSUME NEW fs, NEW us, Pair(fs, us), NEW ts, Pair(fs, ts),
         Len(ts) = Len(us) + 1, \A i \in DOMAIN us : us[i] = ts[i],
         Owns(fs, ts, Len(fs), Len(ts))
  PROVE  /\ Cut(fs, ts, fs, us)
         /\ Len(Contexts(fs, ts)) = Len(fs) + Len(us) + 1
         /\ Contexts(fs, ts)[Len(fs) + Len(us) + 1] = BlockOf(ts[Len(ts)])
<1>1. /\ Len(fs) \in Nat \ {0} /\ Len(us) \in Nat /\ Len(ts) \in Nat
      /\ DOMAIN ts = 1..Len(ts)
  BY PairLengths
<1>2. Len(ts) \in DOMAIN ts
  BY <1>1
<1>3. Place(fs, ts, Len(ts)) = Len(fs) + Len(us) + 1
  <2>1. Place(fs, ts, Len(ts)) = Len(fs) + Len(ts)
    BY CallsBelowIs DEF Pair
  <2>. QED
    BY <1>1, <2>1
<1>4. Len(fs) <= Len(fs) /\ Len(us) <= Len(ts)
  BY <1>1
<1>5. Place(fs, ts, Len(us) + 1) > Len(fs) + Len(us)
  BY <1>1, <1>3
<1>6. Cut(fs, ts, fs, us)
  BY <1>4, <1>5 DEF Cut
<1>7. Contexts(fs, ts)[Len(fs) + Len(us) + 1] = BlockOf(ts[Len(ts)])
  BY <1>2, <1>3, BlockInPlace
<1>8. Len(Contexts(fs, ts)) = Len(fs) + Len(us) + 1
  BY <1>1, ContextsAre
<1>. QED
  BY <1>6, <1>7, <1>8

\* gs and us end with the try frame at i and the frame that entered it.
LEMMA CutAtBlock ==
  ASSUME NEW fs, NEW ts, Pair(fs, ts), NEW gs, NEW us, Pair(gs, us),
         NEW m, NEW i, Owns(fs, ts, m, i),
         Len(gs) = m, \A k \in DOMAIN gs : gs[k] = fs[k],
         Len(us) = i, \A j \in DOMAIN us : us[j] = ts[j]
  PROVE  Contexts(gs, us) = SubSeq(Contexts(fs, ts), 1, Place(fs, ts, i))
<1>1. /\ Len(fs) \in Nat \ {0} /\ DOMAIN fs = 1..Len(fs)
      /\ Len(ts) \in Nat /\ DOMAIN ts = 1..Len(ts)
  BY PairLengths
<1>2. m \in 1..Len(fs) /\ i \in 1..Len(ts)
  BY <1>1 DEF Owns
<1>3. Place(fs, ts, i) = m + i
  BY CallsBelowIs DEF Pair
<1>4. i < Len(ts) => Place(fs, ts, i + 1) > m + i
  <2> SUFFICES ASSUME i < Len(ts)
               PROVE  Place(fs, ts, i + 1) > m + i
    OBVIOUS
  <2>1. i \in DOMAIN ts /\ i + 1 \in DOMAIN ts /\ i <= i + 1 /\ (i + 1) - i = 1
    BY <1>1, <1>2
  <2>2. Place(fs, ts, i) + ((i + 1) - i) <= Place(fs, ts, i + 1)
    BY <2>1, PlacesRise
  <2>3. Place(fs, ts, i + 1) \in ((i + 1) + 1)..(Len(fs) + (i + 1))
    BY <2>1, PlaceBounds
  <2>4. Place(fs, ts, i + 1) \in Int
    BY <1>1, <1>2, <2>3
  <2>5. (m + i) + 1 <= Place(fs, ts, i + 1)
    BY <1>3, <2>1, <2>2
  <2>. QED
    BY <1>1, <1>2, <2>4, <2>5
<1>5. m <= Len(fs) /\ i <= Len(ts)
  BY <1>1, <1>2
<1>6. Cut(fs, ts, gs, us)
  BY <1>4, <1>5 DEF Cut
<1>7. Contexts(gs, us) = SubSeq(Contexts(fs, ts), 1, Len(gs) + Len(us))
  BY <1>6, ContextsPrefix
<1>. QED
  BY <1>3, <1>7

-----------------------------------------------------------------------------
(***************************************************************************)
(* What tick does after an instruction.                                    *)
(***************************************************************************)

Controlled == [Control!SNext]_(Control!svars)

LEMMA RunningPair ==
  ASSUME Running
  PROVE  Pair(frames, tryframes)
BY DEF Running, Sound, StacksSound, Pair

\* A tick of a CPU that runs, in terms of the one stack.
LEMMA Stops ==
  ASSUME Running, status' \notin {"running", "uncaught"}
  PROVE  Controlled
BY DEF Running, Controlled, Control!SNext, Control!SStop

LEMMA Stutters ==
  ASSUME Running, ip' = ip, frames' = frames, tryframes' = tryframes, status' = "running"
  PROVE  Controlled
BY DEF Running, Controlled, Control!svars

LEMMA StepsOn ==
  ASSUME Running, NEW u, NEW fs, NEW ts, NEW same, GoTo(u, fs, ts, same),
         status' = "running" => Controlled
  PROVE  Controlled
BY Stops DEF GoTo

LEMMA GoOnControlled ==
  ASSUME Running, GoOn
  PROVE  Controlled
BY StepsOn, Stutters DEF GoOn, GoTo

\* The catchers of the one stack are those of the try frames.
LEMMA SameHits ==
  ASSUME NEW fs, NEW ts, Pair(fs, ts), NEW e,
         NEW cs, cs = [p \in DOMAIN Contexts(fs, ts) |-> Contexts(fs, ts)[p].catchers],
         NEW bs, bs = [i \in DOMAIN ts |-> ts[i].catchers]
  PROVE  /\ \A i \in DOMAIN ts : Place(fs, ts, i) \in DOMAIN cs /\ cs[Place(fs, ts, i)] = bs[i]
         /\ \A p \in DetailedHits(cs, e) :
              \E i \in DetailedHits(bs, e) : p = Place(fs, ts, i)
         /\ \A p \in TypeHits(cs, e) :
              \E i \in TypeHits(bs, e) : p = Place(fs, ts, i)
         /\ \A i \in TypeHits(bs, e) : Place(fs, ts, i) \in TypeHits(cs, e)
<1>1. \A i \in DOMAIN ts : Place(fs, ts, i) \in DOMAIN cs /\ cs[Place(fs, ts, i)] = bs[i]
  <2>1. \A p \in DOMAIN Contexts(fs, ts) : p \in DOMAIN cs /\ cs[p] = Contexts(fs, ts)[p].catchers
    OBVIOUS
  <2>2. \A i \in DOMAIN ts : /\ Place(fs, ts, i) \in DOMAIN Contexts(fs, ts)
                            /\ Contexts(fs, ts)[Place(fs, ts, i)] = BlockOf(ts[i])
    BY BlockInPlace
  <2>3. \A i \in DOMAIN ts : BlockOf(ts[i]).catchers = bs[i]
    BY DEF BlockOf
  <2>. QED
    BY <2>1, <2>2, <2>3
<1>2. \A p \in DOMAIN cs : cs[p] # NoCatchers => \E i \in DOMAIN ts : p = Place(fs, ts, i)
  <2> SUFFICES ASSUME NEW p \in DOMAIN cs, cs[p] # NoCatchers
               PROVE  \E i \in DOMAIN ts : p = Place(fs, ts, i)
    OBVIOUS
  <2>1. p \in 1..(Len(fs) + Len(ts)) /\ Contexts(fs, ts)[p].catchers # NoCatchers
    BY ContextsAre
  <2>2. \A fr : CallOf(fr).catchers = NoCatchers
    BY DEF CallOf
  <2>. QED
    BY <2>1, <2>2, ContextCases
<1>3. \A t : t \notin DOMAIN NoCatchers
  BY DEF NoCatchers
<1>4. \A p \in DOMAIN cs : DOMAIN cs[p] # {} =>
        \E i \in DOMAIN ts : p = Place(fs, ts, i) /\ cs[p] = bs[i]
  BY <1>1, <1>2, <1>3
<1>5. DOMAIN bs = DOMAIN ts
  OBVIOUS
<1>6. ASSUME NEW p \in DetailedHits(cs, e)
      PROVE  \E i \in DetailedHits(bs, e) : p = Place(fs, ts, i)
  BY <1>4, <1>5 DEF DetailedHits
<1>7. ASSUME NEW p \in TypeHits(cs, e)
      PROVE  \E i \in TypeHits(bs, e) : p = Place(fs, ts, i)
  BY <1>4, <1>5 DEF TypeHits
<1>8. ASSUME NEW i \in TypeHits(bs, e)
      PROVE  Place(fs, ts, i) \in TypeHits(cs, e)
  BY <1>1, <1>5 DEF TypeHits
<1>. QED
  BY <1>1, <1>6, <1>7, <1>8

\* An instruction has failed and left fs on the stack.
LEMMA RaiseControlled ==
  ASSUME Structured, Running, NEW fs, Stack(fs), OwnersOn(fs),
         NEW rs, NEW e \in Thrown, Raise(e, fs, rs)
  PROVE  Controlled
<1> DEFINE c == Contexts(frames, tryframes)
           cs == Control!CatchersOf(c)
           at(i) == Place(frames, tryframes, i)
<1>1. cs = [p \in DOMAIN c |-> c[p].catchers]
  BY DEF Control!CatchersOf
<1>2. /\ \A i \in DOMAIN tryframes : at(i) \in DOMAIN cs /\ cs[at(i)] = TryCatchers[i]
      /\ \A p \in DetailedHits(cs, e) : \E i \in DetailedHits(TryCatchers, e) : p = at(i)
      /\ \A p \in TypeHits(cs, e) : \E i \in TypeHits(TryCatchers, e) : p = at(i)
      /\ \A i \in TypeHits(TryCatchers, e) : at(i) \in TypeHits(cs, e)
  BY <1>1, RunningPair, SameHits DEF TryCatchers
<1>3. DetailedHits(TryCatchers, e) = {}
  BY CaughtByTypeOnly
<1>4. DetailedHits(cs, e) = {}
  BY <1>2, <1>3
<1>5. DOMAIN cs = DOMAIN c
  BY <1>1
<1> HIDE DEF cs, at, c
<1>6. CASE status' = "invalid_address"
  BY <1>6, Stops
<1>7. CASE status' = "uncaught" /\ Uncaught(TryCatchers, e)
  <2>1. Uncaught(cs, e)
    BY <1>2, <1>4, <1>7 DEF Uncaught
  <2>2. Control!Uncaught(cs, e)
    BY <2>1 DEF Uncaught, Control!Uncaught, DetailedHits, Control!DetailedHits,
                TypeHits, Control!TypeHits, Candidates, Control!Candidates
  <2>3. Control!SUncaught
    BY <1>7, <2>2 DEF Control!SUncaught, Running, cs, c
  <2>. QED
    BY <2>3 DEF Controlled, Control!SNext, Running
<1>8. CASE CatchByType(e, fs, rs) /\ status' = status
  <2>1. PICK i \in DOMAIN tryframes, b \in Blocks :
          /\ CaughtByType(TryCatchers, e, i, b)
          /\ ip' = b
          /\ UnwindFrames(tryframes[i].assoc, fs, rs)
          /\ tryframes' = SubSeq(tryframes, 1, i)
    BY <1>8 DEF CatchByType, UnwindTryFrames
  <2>2. CaughtByType(cs, e, at(i), b)
    <3>1. i \in TypeHits(TryCatchers, e) /\ \A j \in TypeHits(TryCatchers, e) : j <= i
      BY <2>1 DEF CaughtByType, Innermost
    <3>2. \A j \in TypeHits(TryCatchers, e) : j \in DOMAIN tryframes
      BY DEF TypeHits, TryCatchers
    <3>3. \A p \in TypeHits(cs, e) : p <= at(i)
      <4> SUFFICES ASSUME NEW p \in TypeHits(cs, e)
                   PROVE  p <= at(i)
        OBVIOUS
      <4>1. PICK j \in TypeHits(TryCatchers, e) : p = at(j)
        BY <1>2
      <4>2. j \in DOMAIN tryframes /\ j <= i
        BY <3>1, <3>2
      <4>3. at(j) + (i - j) <= at(i)
        BY <4>2, RunningPair, PlacesRise DEF at
      <4>4. at(j) \in (j + 1)..(Len(frames) + j) /\ at(i) \in (i + 1)..(Len(frames) + i)
        BY <4>2, RunningPair, PlaceBounds DEF at
      <4>5. i \in Nat /\ j \in Nat /\ Len(frames) \in Nat
        BY <4>2, RunningPair, PairLengths
      <4>. QED
        BY <4>1, <4>2, <4>3, <4>4, <4>5
    <3>4. Innermost(at(i), TypeHits(cs, e))
      BY <1>2, <3>1, <3>3 DEF Innermost
    <3>5. IsHandler(cs[at(i)], e, b)
      BY <1>2, <2>1 DEF CaughtByType
    <3>. QED
      BY <1>4, <3>4, <3>5 DEF CaughtByType
  <2>3. Control!CaughtByType(cs, e, at(i), b)
    BY <2>2 DEF CaughtByType, Control!CaughtByType, DetailedHits, Control!DetailedHits,
                TypeHits, Control!TypeHits, Candidates, Control!Candidates,
                Innermost, Control!Innermost, IsHandler, Control!IsHandler
  <2>4. PICK m \in DOMAIN frames : m > 1 /\ Owns(frames, tryframes, m, i)
    BY DEF Running, Tied
  <2>5. m \in DOMAIN fs /\ \A k \in 1..m : fs[k] = frames[k]
    BY <2>4 DEF OwnersOn
  <2>6. Stack(frames) /\ tryframes \in Seq(TryFrame)
    BY DEF Running, Sound, StacksSound
  <2>7. tryframes[i].assoc = fs[m].addr
    <3>1. m \in 1..m
      BY <2>4, <2>6, TopFrame
    <3>. QED
      BY <2>4, <2>5, <3>1 DEF Owns
  <2>8. frames' = SubSeq(fs, 1, m)
    BY <2>1, <2>4, <2>5, <2>7, UnwoundToOwner DEF UnwindFrames
  <2>9. Pair(frames', tryframes')
    <3>1. Tied(SubSeq(fs, 1, m), SubSeq(tryframes, 1, i))
      BY <2>4, <2>5, <2>6, UnwoundShape DEF Running
    <3>2. Stack(SubSeq(fs, 1, m))
      BY <2>5, PrefixOfStack
    <3>3. SubSeq(tryframes, 1, i) \in Seq(TryFrame)
      BY <2>6, TryStack, SubSeqProperties
    <3>. QED
      BY <2>1, <2>8, <3>1, <3>2, <3>3 DEF Pair
  <2>10. Len(frames') = m /\ \A k \in DOMAIN frames' : frames'[k] = frames[k]
    <3>1. Len(frames') = m /\ \A k \in 1..m : frames'[k] = fs[k]
      BY <2>5, <2>8, PrefixOfStack
    <3>2. DOMAIN frames' = 1..m
      BY <2>9, <3>1, PairLengths
    <3>. QED
      BY <2>5, <3>1, <3>2
  <2>11. Len(tryframes') = i /\ \A j \in DOMAIN tryframes' : tryframes'[j] = tryframes[j]
    <3>1. i \in Nat /\ i <= Len(tryframes) /\ DOMAIN tryframes = 1..Len(tryframes)
          /\ Len(tryframes) \in Nat
      BY <2>6, TryStack
    <3>2. \A j \in 1..i : tryframes[j] \in TryFrame
      BY <2>6, <3>1, TryStack
    <3>3. Len(tryframes') = i /\ \A j \in 1..i : tryframes'[j] = tryframes[j]
      BY <2>1, <3>1, <3>2, SubSeqProperties
    <3>4. DOMAIN tryframes' = 1..i
      BY <2>9, <3>3, PairLengths
    <3>. QED
      BY <3>3, <3>4
  <2>12. Contexts(frames', tryframes') = SubSeq(c, 1, at(i))
    BY <2>4, <2>9, <2>10, <2>11, RunningPair, CutAtBlock DEF c, at
  <2>13. at(i) \in DOMAIN c
    BY <1>2, <1>5
  <2>14. Control!SThrow
    BY <1>8, <2>1, <2>3, <2>12, <2>13 DEF Control!SThrow, Running, c, cs
  <2>. QED
    BY <2>14 DEF Controlled, Control!SNext, Running
<1>9. ~CatchDetailed(e, fs, rs)
  BY <1>3 DEF CatchDetailed, CaughtByDetail, Innermost
<1>. QED
  BY <1>6, <1>7, <1>8, <1>9 DEF Raise

LEMMA FaultControlled ==
  ASSUME Structured, Running, Fault
  PROVE  Controlled
<1>1. OwnersOn(frames)
  BY DEF OwnersOn, Owns
<1>. QED
  BY <1>1, RaiseControlled, CatchingAssumption DEF Fault, Running, Sound, StacksSound

-----------------------------------------------------------------------------
(***************************************************************************)
(* The instructions that change the stacks.                                *)
(***************************************************************************)

LEMMA CallControlled ==
  ASSUME Structured, Running, NEW f \in Functions, NEW place \in BOOLEAN,
         NEW closure \in BOOLEAN, NEW same \in BOOLEAN, Call(f, place, closure, same)
  PROVE  Controlled
<1>1. CASE CallRefused
  BY <1>1, FaultControlled DEF Call
<1>2. CASE ~CallRefused
  <2> DEFINE called == PreparedFrame(f, place)
             gs == Push(called)
  <2>1. ip \in Bodies \cup {Start} /\ GoTo(f, gs, tryframes, same)
    BY <1>2 DEF Call, Executing
  <2>2. Stack(gs) /\ called.fn = f
    BY <1>2, <2>1, CalleeSound DEF Names, Running
  <2>3. called.ret = IF ip = Start THEN Exit ELSE ip
    BY DEF PreparedFrame, ReturnTo
  <2>4. f \notin Foreign
    BY CpuAssumption
  <2> HIDE DEF called
  <2>5. Tied(gs, tryframes)
    BY <2>1, <2>2, <2>3, <2>4, PushedShape DEF Push, Running, Sound, StacksSound
  <2>6. Pair(gs, tryframes) /\ Pair(frames, tryframes)
    BY <2>2, <2>5, RunningPair DEF Pair
  <2>7. /\ Len(gs) = Len(frames) + 1 /\ gs[Len(gs)] = called
        /\ \A m \in DOMAIN frames : gs[m] = frames[m]
    <3>1. frames \in Seq(Frame) /\ Len(frames) \in Nat /\ DOMAIN frames = 1..Len(frames)
      BY TopFrame DEF Running, Sound, StacksSound, Stack
    <3>. QED
      BY <3>1, AppendProperties DEF Push
  <2> HIDE DEF gs
  <2>8. Cut(gs, tryframes, frames, tryframes)
    BY <2>6, <2>7, OneCallMore
  <2>9. Contexts(gs, tryframes) = Append(Contexts(frames, tryframes), CallOf(called))
    <3>1. Len(gs) + Len(tryframes) = Len(frames) + Len(tryframes) + 1
      BY <2>6, <2>7, PairLengths
    <3>2. CallOf(called) = Contexts(gs, tryframes)[Len(frames) + Len(tryframes) + 1]
      BY <2>6, <2>7, OneCallMore
    <3>. QED
      BY <2>6, <2>8, <3>1, <3>2, ContextsGrown
  <2>10. CallOf(called) = Control!CallContext(IF ip = Start THEN Exit ELSE ip)
    BY <2>3 DEF CallOf, Control!CallContext, NoCatchers, Control!NoCatchers
  <2>11. ASSUME status' = "running"
         PROVE  Controlled
    <3>1. ip' = f /\ frames' = gs /\ tryframes' = tryframes
      BY <2>1 DEF GoTo
    <3>2. Control!SCall
      BY <2>9, <2>10, <2>11, <3>1 DEF Control!SCall, Running
    <3>. QED
      BY <3>2 DEF Controlled, Control!SNext, Running
  <2>. QED
    BY <2>1, <2>11, StepsOn
<1>. QED
  BY <1>1, <1>2

LEMMA CallForeignControlled ==
  ASSUME Structured, Running, NEW f \in Foreign, NEW place \in BOOLEAN, CallForeign(f, place)
  PROVE  Controlled
<1>1. CASE CallRefused
  BY <1>1, FaultControlled DEF CallForeign
<1>2. CASE ~CallRefused
  <2> DEFINE called == PreparedFrame(f, place)
  <2>1. ip \in Bodies
    BY DEF CallForeign, Executing
  <2>2. Stack(Push(called)) /\ Stack(frames)
    BY <1>2, <2>1, CalleeSound DEF Names, Running, Sound, StacksSound
  <2>3. \/ \E e \in Faults : Raise(e, Push(called), LocalOf(called))
        \/ Raise(MachineException, frames, LocalOf(Last(frames)))
        \/ GoOn
    BY <1>2 DEF CallForeign
  <2> HIDE DEF called
  <2>4. CASE \E e \in Faults : Raise(e, Push(called), LocalOf(called))
    BY <2>2, <2>4, PushKeepsOwners, RaiseControlled DEF Faults
  <2>5. CASE Raise(MachineException, frames, LocalOf(Last(frames)))
    <3>1. OwnersOn(frames)
      BY DEF OwnersOn, Owns
    <3>. QED
      BY <2>2, <2>5, <3>1, RaiseControlled, CatchingAssumption
  <2>. QED
    BY <2>3, <2>4, <2>5, GoOnControlled
<1>. QED
  BY <1>1, <1>2

LEMMA EndControlled ==
  ASSUME Structured, Running, End
  PROVE  Controlled
<1> DEFINE rest == Front(frames)
           c == Contexts(frames, tryframes)
           n == Len(rest) + Len(tryframes)
<1>1. ip \in Functions
  BY DEF End, Follows, Structured
<1>2. /\ Len(frames) > 1
      /\ Stack(rest) /\ rest # <<>>
      /\ OwnersOn(rest)
      /\ Tied(rest, tryframes)
      /\ Shape(rest, tryframes, Last(frames).ret)
      /\ \A k \in DOMAIN rest : rest[k] = frames[k]
  BY <1>1, PoppedShape DEF Running, Sound, StacksSound, OwnersOn
<1>3. Last(rest).fn \notin Foreign
  BY <1>2, TopFrame DEF Shape, Last
<1>4. \/ Fault
      \/ Raise(MachineException, rest, LocalOf(Last(rest)))
      \/ GoTo(Last(frames).ret, rest, tryframes, FALSE)
  BY <1>2, <1>3 DEF End
<1>5. Len(frames) = Len(rest) + 1
  <2>1. Len(frames) \in Nat /\ Len(frames) - 1 \in DOMAIN frames
    BY <1>2, TopFrame DEF Running, Sound, StacksSound
  <2>2. Len(rest) = Len(frames) - 1
    BY <2>1, PrefixOfStack DEF Front, Running, Sound, StacksSound
  <2>. QED
    BY <2>1, <2>2
<1> HIDE DEF rest
<1>6. CASE Raise(MachineException, rest, LocalOf(Last(rest)))
  BY <1>2, <1>6, RaiseControlled, CatchingAssumption
<1>7. CASE GoTo(Last(frames).ret, rest, tryframes, FALSE)
  <2>1. Pair(rest, tryframes) /\ Pair(frames, tryframes)
    BY <1>2, RunningPair DEF Pair
  <2>2. /\ Cut(frames, tryframes, rest, tryframes)
        /\ Len(c) = n + 1
        /\ c[n + 1] = CallOf(Last(frames))
    BY <1>2, <1>5, <2>1, OneCallMore DEF Last
  <2>3. n \in Nat \ {0}
    BY <2>1, PairLengths
  <2>4. Contexts(rest, tryframes) = SubSeq(c, 1, n)
    BY <2>1, <2>2, ContextsPrefix
  <2> HIDE DEF c, n
  <2>5. Len(c) - 1 = n /\ Len(c) > 1
    BY <2>2, <2>3
  <2>6. ASSUME status' = "running"
        PROVE  Controlled
    <3>1. ip' = Last(frames).ret /\ frames' = rest /\ tryframes' = tryframes
      BY <1>7 DEF GoTo
    <3>2. c[Len(c)].call /\ c[Len(c)].ret = Last(frames).ret
      BY <2>2 DEF CallOf
    <3>3. Control!SReturn
      BY <2>4, <2>5, <2>6, <3>1, <3>2
      DEF Control!SReturn, Control!Pop, Control!Top, Running, c
    <3>. QED
      BY <3>3 DEF Controlled, Control!SNext, Running
  <2>. QED
    BY <1>7, <2>6, StepsOn
<1>. QED
  BY <1>4, <1>6, <1>7, FaultControlled

LEMMA EnterControlled ==
  ASSUME Structured, Running, NEW b \in Blocks, NEW same \in BOOLEAN, Enter(b, same)
  PROVE  Controlled
<1> DEFINE entered == [ret |-> ip, assoc |-> Last(frames).addr, block |-> b,
                       catchers |-> tryCatchers]
           ts == Append(tryframes, entered)
<1>1. ip \in Bodies /\ GoTo(b, frames, ts, same)
  BY DEF Enter, Executing
<1>2. entered \in TryFrame /\ tryCatchers \in CatcherMaps
  BY <1>1, TopFrame DEF TryFrame, Frame, Running, Sound, StacksSound, HooksSound
<1>3. entered.ret = ip /\ entered.assoc = Last(frames).addr /\ entered.catchers = tryCatchers
  OBVIOUS
<1> HIDE DEF entered
<1>4. Tied(frames, ts)
  BY <1>1, <1>2, <1>3, EnteredShape DEF Running, Sound, StacksSound
<1>5. Len(tryframes) \in Nat /\ tryframes \in Seq(TryFrame) /\ DOMAIN tryframes = 1..Len(tryframes)
  BY TryStack DEF Running, Sound, StacksSound
<1>6. /\ ts \in Seq(TryFrame) /\ Len(ts) = Len(tryframes) + 1 /\ ts[Len(ts)] = entered
      /\ \A i \in DOMAIN tryframes : tryframes[i] = ts[i]
  BY <1>2, <1>5, AppendProperties
<1> HIDE DEF ts
<1>7. Pair(frames, ts) /\ Pair(frames, tryframes)
  BY <1>4, <1>6, RunningPair DEF Pair
<1>8. Owns(frames, ts, Len(frames), Len(ts))
  <2>1. Len(frames) \in DOMAIN frames /\ Len(ts) \in DOMAIN ts
    BY <1>5, <1>6, <1>7, PairLengths
  <2>. QED
    BY <1>3, <1>6, <2>1 DEF Owns, Last
<1>9. /\ Cut(frames, ts, frames, tryframes)
      /\ Contexts(frames, ts)[Len(frames) + Len(tryframes) + 1] = BlockOf(entered)
  BY <1>6, <1>7, <1>8, OneBlockMore
<1>10. Contexts(frames, ts) = Append(Contexts(frames, tryframes), BlockOf(entered))
  <2>1. Len(frames) + Len(ts) = Len(frames) + Len(tryframes) + 1
    BY <1>5, <1>6, <1>7, PairLengths
  <2>. QED
    BY <1>7, <1>9, <2>1, ContextsGrown
<1>11. BlockOf(entered) = Control!BlockContext(ip, tryCatchers)
  BY <1>3 DEF BlockOf, Control!BlockContext
<1>12. tryCatchers \in Control!CatcherMaps
  BY <1>2 DEF CatcherMaps, Control!CatcherMaps
<1>13. ASSUME status' = "running"
       PROVE  Controlled
  <2>1. ip' = b /\ frames' = frames /\ tryframes' = ts
    BY <1>1 DEF GoTo
  <2>2. Control!SEnter
    BY <1>10, <1>11, <1>12, <1>13, <2>1 DEF Control!SEnter, Running
  <2>. QED
    BY <2>2 DEF Controlled, Control!SNext, Running
<1>. QED
  BY <1>1, <1>13, StepsOn

LEMMA LeaveControlled ==
  ASSUME Structured, Running, Leave
  PROVE  Controlled
<1> DEFINE us == Front(tryframes)
           c == Contexts(frames, tryframes)
           n == Len(frames) + Len(us)
<1>1. ip \in Blocks
  BY DEF Leave, Follows, Structured
<1>2. /\ tryframes # <<>>
      /\ Tied(frames, us)
      /\ Owns(frames, tryframes, Len(frames), Len(tryframes))
  BY <1>1, LeftShape DEF Running, Sound, StacksSound
<1>3. Last(frames).fn \notin Foreign
  BY TopFrame DEF Running, Sound, StacksSound, Shape, Last
<1>4. GoTo(Last(tryframes).ret, frames, us, FALSE)
  BY <1>2, <1>3 DEF Leave
<1>5. /\ us \in Seq(TryFrame) /\ Len(tryframes) = Len(us) + 1
      /\ \A i \in DOMAIN us : us[i] = tryframes[i]
  <2> DEFINE k == Len(tryframes) - 1
  <2>1. /\ Len(tryframes) \in Nat /\ DOMAIN tryframes = 1..Len(tryframes)
        /\ Len(tryframes) \in DOMAIN tryframes
    BY <1>2, TryStack DEF Owns, Running, Sound, StacksSound
  <2>2. k \in Nat /\ Len(tryframes) = k + 1 /\ \A j \in 1..k : tryframes[j] \in TryFrame
    BY <2>1, TryStack DEF Running, Sound, StacksSound
  <2>3. us = SubSeq(tryframes, 1, k)
    BY DEF Front
  <2> HIDE DEF us, k
  <2>4. us \in Seq(TryFrame) /\ Len(us) = k /\ \A j \in 1..k : us[j] = tryframes[j]
    BY <2>2, <2>3, SubSeqProperties
  <2>5. DOMAIN us = 1..k
    BY <2>4, TryStack
  <2>. QED
    BY <2>2, <2>4, <2>5
<1> HIDE DEF us
<1>6. Pair(frames, us) /\ Pair(frames, tryframes)
  BY <1>2, <1>5, RunningPair DEF Pair
<1>7. /\ Cut(frames, tryframes, frames, us)
      /\ Len(c) = n + 1
      /\ c[n + 1] = BlockOf(Last(tryframes))
  BY <1>2, <1>5, <1>6, OneBlockMore DEF Last
<1>8. n \in Nat
  BY <1>6, PairLengths
<1>9. Contexts(frames, us) = SubSeq(c, 1, n)
  BY <1>6, <1>7, ContextsPrefix
<1> HIDE DEF c, n
<1>10. Len(c) - 1 = n
  BY <1>7, <1>8
<1>11. ASSUME status' = "running"
       PROVE  Controlled
  <2>1. ip' = Last(tryframes).ret /\ frames' = frames /\ tryframes' = us
    BY <1>4 DEF GoTo
  <2>2. ~c[Len(c)].call /\ c[Len(c)].ret = Last(tryframes).ret
    BY <1>7 DEF BlockOf
  <2>3. Control!SLeave
    BY <1>9, <1>10, <1>11, <2>1, <2>2 DEF Control!SLeave, Control!Pop, Control!Top, Running, c
  <2>. QED
    BY <2>3 DEF Controlled, Control!SNext, Running
<1>. QED
  BY <1>4, <1>11, StepsOn

LEMMA JumpControlled ==
  ASSUME Structured, Running, JumpBaseOfCode, Jump
  PROVE  Controlled
<1>1. PICK same \in BOOLEAN : GoTo(ip, frames, tryframes, same)
  BY JumpStays
<1>2. CASE same
  <2>1. status' # "running" /\ status' # "uncaught"
    BY <1>1, <1>2 DEF GoTo
  <2>. QED
    BY <2>1, Stops
<1>3. CASE ~same
  BY <1>1, <1>3, GoOnControlled DEF GoOn
<1>. QED
  BY <1>2, <1>3

-----------------------------------------------------------------------------
(***************************************************************************)
(* The refinement.                                                         *)
(***************************************************************************)

LEMMA InitControlled == Init => Control!SInit
<1> SUFFICES ASSUME Init PROVE Control!SInit
  OBVIOUS
<1> DEFINE fr == frames[1]
<1>1. /\ status = "running" /\ ip = Start /\ tryframes = <<>>
      /\ frames = <<fr>> /\ fr.ret = Exit
  BY DEF Init
<1> HIDE DEF fr
<1>2. Len(frames) = 1 /\ Len(tryframes) = 0
  BY <1>1
<1>3. BlocksUpTo(frames, tryframes, 1) = 0
  <2>1. 0..Len(tryframes) = {0}
    BY <1>2
  <2>. QED
    BY <1>2, <2>1 DEF BlocksUpTo
<1>4. ContextAt(frames, tryframes, 1) = CallOf(fr)
  BY <1>1, <1>3 DEF ContextAt
<1>5. Contexts(frames, tryframes) = <<CallOf(fr)>>
  <2> DEFINE s == [p \in 1..1 |-> ContextAt(frames, tryframes, p)]
             x == CallOf(fr)
  <2>1. Contexts(frames, tryframes) = SubSeq(s, 1, 1)
    BY <1>2 DEF Contexts
  <2>2. s[1] = x
    BY <1>4
  <2> HIDE DEF s, x
  <2>3. /\ SubSeq(s, 1, 1) \in Seq({x}) /\ Len(SubSeq(s, 1, 1)) = 1
        /\ SubSeq(s, 1, 1)[1] = x
    BY <2>2, SubSeqProperties
  <2>4. <<x>> \in Seq({x}) /\ Len(<<x>>) = 1 /\ <<x>>[1] = x
    OBVIOUS
  <2>5. \A i \in 1..1 : SubSeq(s, 1, 1)[i] = <<x>>[i]
    BY <2>3, <2>4
  <2>6. SubSeq(s, 1, 1) = <<x>>
    BY <2>3, <2>4, <2>5, SeqEqual
  <2>. QED
    BY <2>1, <2>6 DEF x
<1>6. CallOf(fr) = Control!CallContext(Exit)
  BY <1>1 DEF CallOf, Control!CallContext, NoCatchers, Control!NoCatchers
<1>. QED
  BY <1>1, <1>5, <1>6 DEF Control!SInit

LEMMA TickControlled ==
  ASSUME Structured, Inv, Linked, JumpBaseOfCode, Tick
  PROVE  Controlled
<1>1. status = "running"
  BY DEF Tick, NewFrame, NoFrame, Call, CallForeign, End, Try, Catch, Enter,
         NoTryFrame, Leave, Throw, Pull, Ress, Jump, Halt, Executing
<1>2. Running
  BY <1>1, SoundOfInv DEF Running, Linked
<1>3. CASE NewFrame
  BY <1>2, <1>3, FaultControlled, GoOnControlled DEF NewFrame
<1>4. CASE \E f \in Functions, place, closure, same \in BOOLEAN : Call(f, place, closure, same)
  BY <1>2, <1>4, CallControlled
<1>5. CASE \E f \in Foreign, place \in BOOLEAN : CallForeign(f, place)
  BY <1>2, <1>5, CallForeignControlled
<1>6. CASE End
  BY <1>2, <1>6, EndControlled
<1>7. CASE Try
  BY <1>2, <1>7, FaultControlled, GoOnControlled DEF Try
<1>8. CASE \E t \in CatchTypes, b \in Blocks : Catch(t, b)
  BY <1>2, <1>8, GoOnControlled DEF Catch
<1>9. CASE \E b \in Blocks, same \in BOOLEAN : Enter(b, same)
  BY <1>2, <1>9, EnterControlled
<1>10. CASE NoFrame \/ NoTryFrame
  BY <1>2, <1>10, Stops DEF NoFrame, NoTryFrame, Die
<1>11. CASE Leave
  BY <1>2, <1>11, LeaveControlled
<1>12. CASE \E e \in Thrown : Throw(e)
  <2>1. PICK e \in Thrown : Raise(e, frames, uregset)
    BY <1>12 DEF Throw
  <2>2. OwnersOn(frames)
    BY DEF OwnersOn, Owns
  <2>. QED
    BY <1>2, <2>1, <2>2, RaiseControlled DEF Running, Sound, StacksSound
<1>13. CASE Pull
  BY <1>2, <1>13, FaultControlled, GoOnControlled DEF Pull
<1>14. CASE \E kind \in {"global", "local", "static"} : Ress(kind)
  BY <1>2, <1>14, GoOnControlled DEF Ress
<1>15. CASE Jump
  BY <1>2, <1>15, JumpControlled
<1>16. CASE Halt
  BY <1>2, <1>16, Stops DEF Halt
<1>. QED
  BY <1>3, <1>4, <1>5, <1>6, <1>7, <1>8, <1>9, <1>10, <1>11, <1>12, <1>13,
     <1>14, <1>15, <1>16 DEF Tick

\* The two stacks of the CPU (frames and tryframes of cpu.h, tied together by
\* TryFrame::associated_frame) behave as one stack of nested calls and blocks
\* for every structured program: `end` and `leave` resume the caller, and a
\* thrown object unwinds to the innermost block that catches it.
THEOREM ControlIsStructured ==
  ASSUME Structured, OneModule
  PROVE  Spec => ImplementsStructuredControl
<1>1. Spec => [](Inv /\ Linked)
  BY StacksLinked
<1>2. Init => Control!SInit
  BY InitControlled
<1>3. Inv /\ Linked /\ [Next]_vars => [Control!SNext]_(Control!svars)
  <2> SUFFICES ASSUME Inv, Linked, [Next]_vars
               PROVE  Controlled
    BY DEF Controlled
  <2>1. CASE Tick
    <3>1. JumpBaseOfCode
      BY CpuAssumption DEF OneModule, Inv, TypeOK, JumpBaseOfCode
    <3>. QED
      BY <2>1, <3>1, TickControlled
  <2>2. CASE UNCHANGED vars
    BY <2>2 DEF vars, Controlled, Control!svars
  <2>. QED
    BY <2>1, <2>2 DEF Next, Stopped
<1>. QED
  BY <1>1, <1>2, <1>3, PTL DEF Spec, ImplementsStructuredControl, Control!SSpec
=============================================================================
