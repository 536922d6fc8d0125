------------------------------ MODULE Catching ------------------------------
(***************************************************************************)
(* Which registered catcher the CPU selects for a thrown object.           *)
(*                                                                         *)
(* A try frame carries a map from type names to handler blocks.  CPU::tick *)
(* searches the stack of try frames twice.  The first search serves        *)
(* objects of the machine's own type Exception and looks only for their    *)
(* detailed type (etype).  The second looks for the object's type and, if  *)
(* that type is registered in the typesystem, for its ancestors in the     *)
(* order inheritanceChainOf returns them.                                  *)
(***************************************************************************)
EXTENDS Naturals, Sequences

CONSTANTS
  Types,        \* type names
  CatchTypes,   \* the type names the program registers catchers for
  Blocks,       \* names of blocks, handlers included
  Chains,       \* typesystem: a registered type name -> its inheritance chain
  Thrown        \* the objects a program may throw: [type, etype]

\* What the CPU throws on an erroneous instruction: new Exception(message).
MachineException == [type |-> "Exception", etype |-> "Exception"]

\* The classes of include/viua/exceptions.h the machine itself throws.
MachineTypes == {"Exception", "OutOfRangeException"}

Faults == {e \in Thrown : e.type \in MachineTypes}

ASSUME CatchingAssumption ==
  /\ CatchTypes \subseteq Types
  /\ Thrown \subseteq [type : Types, etype : Types]
  /\ MachineException \in Thrown
  /\ DOMAIN Chains \subseteq Types
  /\ \A t \in DOMAIN Chains : Chains[t] \in Seq(DOMAIN Chains)

\* The catchers of one try frame: a partial map from type names to blocks.
CatcherMaps == UNION {[S -> Blocks] : S \in SUBSET CatchTypes}

NoCatchers == [t \in {} |-> CHOOSE b \in Blocks : TRUE]

AddCatcher(c, t, b) == [u \in DOMAIN c \cup {t} |-> IF u = t THEN b ELSE c[u]]

-----------------------------------------------------------------------------
\* First search: an Exception is matched by its detailed type.
DetailedHits(cs, e) ==
  {i \in DOMAIN cs : e.type = "Exception" /\ e.etype \in DOMAIN cs[i]}

\* Second search: the object's type, then the ancestors of a registered type.
Candidates(e) ==
  <<e.type>> \o (IF e.type \in DOMAIN Chains THEN Chains[e.type] ELSE <<>>)

TypeHits(cs, e) ==
  {i \in DOMAIN cs : \E k \in DOMAIN Candidates(e) : Candidates(e)[k] \in DOMAIN cs[i]}

\* b is the block the catcher map c gives to the first candidate it knows.
IsHandler(c, e, b) ==
  \E k \in DOMAIN Candidates(e) :
    /\ Candidates(e)[k] \in DOMAIN c
    /\ b = c[Candidates(e)[k]]
    /\ \A j \in 1..(k - 1) : Candidates(e)[j] \notin DOMAIN c

Innermost(i, hits) == i \in hits /\ \A j \in hits : j <= i

\* cs lists the catcher maps from the outermost try frame to the innermost.
\* The try frame at i catches e in block b, in the first or the second search.
CaughtByDetail(cs, e, i, b) ==
  /\ Innermost(i, DetailedHits(cs, e))
  /\ b = cs[i][e.etype]

CaughtByType(cs, e, i, b) ==
  /\ DetailedHits(cs, e) = {}
  /\ Innermost(i, TypeHits(cs, e))
  /\ IsHandler(cs[i], e, b)

Uncaught(cs, e) == DetailedHits(cs, e) = {} /\ TypeHits(cs, e) = {}
=============================================================================
