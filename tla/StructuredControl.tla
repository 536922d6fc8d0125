------------------------- MODULE StructuredControl -------------------------
(***************************************************************************)
(* What calls, blocks and exceptions of the machine promise together,      *)
(* stated over ONE stack of contexts.  A context is a call in progress or  *)
(* an entered block; `end` closes the innermost context and needs it to be *)
(* a call, `leave` closes it and needs it to be a block, and a thrown      *)
(* object closes every context inside the block that catches it.  The CPU  *)
(* implements this with two stacks, frames and tryframes, tied together by *)
(* TryFrame::associated_frame.                                             *)
(***************************************************************************)
EXTENDS Catching

CONSTANTS Functions, Start, Exit

VARIABLES
  code,     \* the function or block whose body is being executed
  stack,    \* contexts, outermost first: [call, ret, catchers]
  outcome   \* "running", "uncaught" or "stopped"

svars == <<code, stack, outcome>>

Context == [call : BOOLEAN, ret : Functions \cup Blocks \cup {Start, Exit},
            catchers : CatcherMaps]

CallContext(r) == [call |-> TRUE, ret |-> r, catchers |-> NoCatchers]
BlockContext(r, c) == [call |-> FALSE, ret |-> r, catchers |-> c]

CatchersOf(s) == [i \in DOMAIN s |-> s[i].catchers]

SInit ==
  /\ code = Start
  /\ stack = <<CallContext(Exit)>>
  /\ outcome = "running"

Top == stack[Len(stack)]

Pop ==
  /\ code' = Top.ret
  /\ stack' = SubSeq(stack, 1, Len(stack) - 1)
  /\ UNCHANGED outcome

SCall ==
  \E f \in Functions :
    /\ code' = f
    /\ stack' = Append(stack, CallContext(IF code = Start THEN Exit ELSE code))
    /\ UNCHANGED outcome

SReturn == Top.call /\ Len(stack) > 1 /\ Pop

SEnter ==
  \E b \in Blocks, c \in CatcherMaps :
    /\ code' = b
    /\ stack' = Append(stack, BlockContext(code, c))
    /\ UNCHANGED outcome

SLeave == ~Top.call /\ Pop

\* The catching block's context stays open while its handler runs.
SThrow ==
  \E e \in Thrown, i \in DOMAIN stack, b \in Blocks :
    /\ \/ CaughtByDetail(CatchersOf(stack), e, i, b)
       \/ CaughtByType(CatchersOf(stack), e, i, b)
    /\ code' = b
    /\ stack' = SubSeq(stack, 1, i)
    /\ UNCHANGED outcome

SUncaught ==
  /\ \E e \in Thrown : Uncaught(CatchersOf(stack), e)
  /\ outcome' = "uncaught" /\ code' = Exit /\ stack' = <<>>

SStop == outcome' = "stopped" /\ code' = Exit /\ stack' = <<>>

SNext ==
  /\ outcome = "running"
  /\ SCall \/ SReturn \/ SEnter \/ SLeave \/ SThrow \/ SUncaught \/ SStop

SSpec == SInit /\ [][SNext]_svars
=============================================================================
