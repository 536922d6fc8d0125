--------------------------- MODULE CpuRefinement ---------------------------
(***************************************************************************)
(* The two stacks of the CPU, read as the one stack of StructuredControl:  *)
(* each call is followed by the blocks entered from its frame.             *)
(***************************************************************************)
EXTENDS Cpu

CallOf(frame) == [call |-> TRUE, ret |-> frame.ret, catchers |-> NoCatchers]
BlockOf(t) == [call |-> FALSE, ret |-> t.ret, catchers |-> t.catchers]

\* How many calls lie below a block: those up to the frame that entered it.
CallsBelow(fs, t) ==
  CHOOSE m \in 0..Len(fs) :
    IF m > 0 THEN fs[m].addr = t.assoc ELSE \A n \in DOMAIN fs : fs[n].addr # t.assoc

\* The place of a block in the one stack, and how many of the first p contexts
\* are blocks.
Place(fs, ts, i) == CallsBelow(fs, ts[i]) + i

BlocksUpTo(fs, ts, p) ==
  CHOOSE i \in 0..Len(ts) :
    /\ i > 0 => Place(fs, ts, i) <= p
    /\ i < Len(ts) => Place(fs, ts, i + 1) > p

ContextAt(fs, ts, p) ==
  LET i == BlocksUpTo(fs, ts, p)
  IN IF i > 0 /\ Place(fs, ts, i) = p THEN BlockOf(ts[i]) ELSE CallOf(fs[p - i])

\* SubSeq has TLC evaluate the sequence once.
Contexts(fs, ts) ==
  LET size == Len(fs) + Len(ts)
  IN SubSeq([p \in 1..size |-> ContextAt(fs, ts, p)], 1, size)

Control == INSTANCE StructuredControl WITH
  code    <- IF status = "running" THEN ip ELSE Exit,
  stack   <- IF status = "running" THEN Contexts(frames, tryframes) ELSE <<>>,
  outcome <- IF status \in {"running", "uncaught"} THEN status ELSE "stopped"

\* The CPU implements structured control flow: `end` and `leave` resume the
\* code that called the function or entered the block, and a thrown object
\* unwinds to the innermost block with a catcher for it, in the frame that
\* entered this block.
ImplementsStructuredControl == Control!SSpec
=============================================================================
