----------------------------- MODULE MCDebugger -----------------------------
(* A program for TLC: a loop (1, 2, 3) that calls itself and may fail, its exit    *)
(* (4), and bytes the program never gets to: 8, which reads as an instruction *)
(* and goes on at 9, which does not.                                          *)
EXTENDS Debugger, TLC

ModelFlow == 1 :> {2} @@ 2 :> {3} @@ 3 :> {1, 4} @@ 4 :> {} @@ 8 :> {9} @@ 9 :> {}

ModelOpcodes == 1 :> "izero" @@ 2 :> "call" @@ 3 :> "iadd" @@ 4 :> "halt" @@ 8 :> "swap"

ModelCallees == [a \in Known |-> IF a = 2 THEN "main" ELSE Null]

ModelFunctions == [a \in Known |-> "main"]

ModelOperands == 1 :> <<1>> @@ 2 :> <<0>> @@ 3 :> <<2, 1, 1>> @@ 4 :> <<>> @@ 8 :> <<1, 2>>

ModelMisreads == [a \in Known |-> 0]

ModelTicks == {-2, -1, 2, 3}
=============================================================================
