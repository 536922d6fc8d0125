------------------------------- MODULE MCCpu -------------------------------
(* Instances of Cpu for TLC. *)
EXTENDS CpuRefinement

CONSTANTS a1, a2, a3, a4, a5, main, g, ext, body, handler, lib

AddrSymmetry == Permutations(Addr)

\* One module holds all the code.
OneModule == [u \in Units |-> Bytecode]

\* g and handler live in a library linked at run time.
TwoModules == [u \in Units |-> IF u \in {g, handler} THEN lib ELSE Bytecode]

AllTypes == {"Exception", "OutOfRangeException", "Integer", "Base", "Derived"}

Thing(t) == [type |-> t, etype |-> t]

OutOfRange == [type |-> "OutOfRangeException", etype |-> "Exception"]

\* Derived derives from Base, both registered in the typesystem.
Derivation == [t \in {"Base", "Derived"} |-> IF t = "Derived" THEN <<"Base">> ELSE <<>>]

ObjectsThrown == {MachineException, OutOfRange, Thing("Derived")}

NothingCaught == {MachineException, Thing("Integer")}
=============================================================================
