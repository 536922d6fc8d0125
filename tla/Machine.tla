------------------------------- MODULE Machine -------------------------------
(***************************************************************************)
(* A CPU that runs a program without a debugger: what CPU::run repeats     *)
(* until tick returns a null pointer.  A program is its control flow (Cpu  *)
(* says how tick determines it).                                           *)
(***************************************************************************)
CONSTANTS
  Code,     \* addresses of instructions
  Entry,    \* where the program starts
  Flow,     \* address -> the addresses execution may go on at
  Halting,  \* instructions that end the program
  Failing   \* instructions that may throw an object nothing catches

VARIABLES at, outcome

\* CPU::tick at address a: the instruction pointer afterwards, and whether a
\* pointer is returned (running) or, without (halted) or with an exception
\* (failed), a null pointer.
Ticks(a, next, result) ==
  \/ next \in Flow[a] /\ result = "running"
  \/ a \in Halting /\ next = a /\ result = "halted"
  \/ a \in Failing /\ next = a /\ result = "failed"

Init == at = Entry /\ outcome = "running"
Next == outcome = "running" /\ Ticks(at, at', outcome')
Spec == Init /\ [][Next]_<<at, outcome>>
=============================================================================
