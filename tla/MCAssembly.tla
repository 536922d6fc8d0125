----------------------------- MODULE MCAssembly ----------------------------
(***************************************************************************)
(* The projects TLC builds.  Layouts: one program for each instruction,    *)
(* all operands given and some left out, with a jump over it.  Control:    *)
(* bodies of main with at most two lines out of a pool of jumps, branches, *)
(* marks, calls and directives, among code outside of bodies, a block and  *)
(* a function with a jump each. Linking: programs of one such line with    *)
(* libraries that have jumps, one or two of them, linked together or one   *)
(* by the other, with blocks, with code of their own and with names that   *)
(* clash.                                                                  *)
(***************************************************************************)
EXTENDS Assembly

L(op, args) == Line(op, args)
R(n) == <<"", n>>
Function(name, body) == <<L(".function:", <<name>>)>> \o body \o <<L(".end", <<>>)>>
Block(name, body) == <<L(".block:", <<name>>)>> \o body \o <<L(".end", <<>>)>>
Mark(m) == L(".mark:", <<m>>)
Jump(kind, n) == L("jump", << <<kind, n>> >>)
Returning == <<L("izero", <<R(0)>>), L("end", <<>>)>>
Program(lines) == [lines |-> lines, links |-> <<>>, libs |-> <<>>, errors |-> FALSE]

-----------------------------------------------------------------------------
Forms(op) ==
  LET layout == Layout[op]
      value(kind, at) == CASE kind = "operand" -> IF at THEN <<"@", 2>> ELSE <<"name", "x">>
                           [] kind = "byte" -> IF at THEN <<"@", 2>> ELSE R(7)
                           [] kind = "float" -> 1
                           [] kind = "set" -> "static"
                           [] kind = "target" -> <<"mark", "m">>
                           [] kind = "name" -> "main"
      form(at, n) == L(op, [i \in 1..n |-> value(layout[i], at)])
      short == CASE layout \in {Three, Two} \/ op = "branch" -> {Len(layout) - 1}
                 [] op \in {"class", "derive", "new", "msg"} -> {1}
                 [] op = "attach" -> {1, 2}
                 [] op = "catch" -> {0, 1}
                 [] op = "link" -> {0}
                 [] OTHER -> {}
  IN {form(at, n) : at \in BOOLEAN, n \in {Len(layout)} \cup short}
Balanced(line) ==
  CASE line.op = "frame" -> <<line, L("call", <<R(0), "main">>)>>
    [] line.op \in {"call", "fcall", "msg"} -> <<L("frame", <<R(0)>>), line>>
    [] OTHER -> <<line>>
Sample(line) ==
  Program(Function("main", <<L(".name:", <<1, "x">>), Jump("mark", "m")>> \o Balanced(line)
                             \o <<Mark("m")>> \o Returning)
          \o Block("main_", <<L("leave", <<>>)>>))
Layouts ==
  {Sample(line) : line \in UNION {Forms(op) : op \in DOMAIN Layout \ {"enter"}}
                            \cup {L("enter", <<"main_">>), L("call", <<"main">>), L("streq", <<R(1), R(1), R(1)>>)}}

-----------------------------------------------------------------------------
Pool ==
  {L("nop", <<>>), Jump("mark", "m"), Jump("+", 2), Jump("index", 1), Jump(".", 2), Jump("0x", 7),
   L("branch", <<R(1), <<"mark", "m">> >>), L("branch", <<R(1), <<"mark", "m">>, <<"-", 0>> >>),
   L("branch", <<R(1), <<".", 1>>, <<"mark", "m">> >>),
   L("frame", <<R(0)>>), L("call", <<"fun">>), L("enter", <<"b">>), Mark("m"), L(".type:", <<"T">>)}
Lines2 == {<<>>} \cup {<<a>> : a \in Pool} \cup {<<a, b>> : a, b \in Pool}

Fun == Function("fun", <<L("nop", <<>>), Mark("m"), L("strstore", <<R(1), "abc">>), Jump("mark", "m"), L("end", <<>>)>>)
B == Block("b", <<Jump("+", 1), L("leave", <<>>)>>)
Main(free) == Function("main", free \o <<L("nop", <<>>)>> \o Returning)
MarkedMain(free) == Function("main", free \o <<Mark("m"), L("nop", <<>>)>> \o Returning)
Outside == <<Jump("mark", "top"), Mark("top"), L("nop", <<>>)>>

Control ==
  {Program(Fun \o around[1] \o main \o around[2]) :
     main \in {Main(free) : free \in Lines2} \cup {MarkedMain(free) : free \in Lines2},
     around \in {<< <<>>, <<>> >>, << <<>>, B>>, <<Outside, B>>}}
  \cup {Program(Fun \o Outside \o Main(<<free>>)) : free \in Pool}
  \cup {Program(Main(<<>>) \o <<L(".main:", <<"fun">>)>> \o Function("fun", Returning)),
        Program(Main(<<L("bstore", <<R(1), <<"@", 2>> >>)>>)),
        Program(Main(<<>>) \o Fun \o Fun),
        Program(Function("fun", <<L("nop", <<>>)>>) \o Main(<<>>) \o Fun),
        Program(Function("fun", <<L("frame", <<R(0)>>), L("halt", <<>>)>>)
                \o Function("fun", <<L("call", <<"main">>), L("end", <<>>)>>) \o Main(<<>>)),
        Program(Function("__entry", <<L("end", <<>>)>>) \o Main(<<>>)),
        Program(Function("fun", <<Mark("m")>>) \o Main(<<>>) \o Block("b", <<Mark("m"), L("leave", <<>>)>>)),
        Program(Function("fun", <<L("frame", <<R(0)>>), L("halt", <<>>)>>)
                \o Main(<<L("call", <<"fun">>)>>)),
        Program(Function("fun", <<L("frame", <<R(0)>>), L("halt", <<>>)>>)
                \o Block("b", <<L("call", <<"fun">>), L("leave", <<>>)>>) \o Main(<<>>)),
        Program(<<L("frame", <<R(0)>>)>> \o Main(<<>>)),
        Program(Main(<<>>) \o <<L("frame", <<R(0)>>)>>),
        Program(<<L(".signature:", <<"other">>)>> \o Main(<<L("frame", <<R(0)>>), L("call", <<"other">>)>>)),
        [Program(Function("fun", <<L("nop", <<>>)>>) \o Main(<<>>)) EXCEPT !.errors = TRUE]}

-----------------------------------------------------------------------------
Gun(jump) == Function("gun", <<L("nop", <<>>), jump, L("izero", <<R(1)>>), Mark("m"), L("end", <<>>)>>)
Lib(lines, links) == [lines |-> lines, links |-> links]
First ==
  {Lib(lines, <<>>) : lines \in
     {Function("hun", <<L("end", <<>>)>>) \o Gun(Jump("mark", "m")), Gun(L("branch", <<R(1), <<"mark", "m">> >>)),
      Gun(Jump(".", 3)), <<L("nop", <<>>)>> \o Gun(Jump("+", 1)),
      Block("b", <<L("leave", <<>>)>>) \o Gun(L("enter", <<"b">>)), Fun \o Gun(Jump("mark", "m"))}}
Second == Function("hun", <<Jump("+", 1), L("end", <<>>)>>)
Libraries ==
  {[libs |-> <<first>>, links |-> <<1>>] : first \in First}
  \cup {[libs |-> <<first, Lib(Second, <<>>)>>, links |-> <<1, 2>>] : first \in First}
  \cup {[libs |-> <<first, Lib(Second, <<1>>)>>, links |-> <<2>>] : first \in First}
Linking ==
  {[lines |-> main \o own, links |-> l.links, libs |-> l.libs, errors |-> FALSE] :
     main \in {MarkedMain(<<free>>) : free \in Pool}
              \cup {MarkedMain(<<L("frame", <<R(0)>>), L("call", <<"gun">>)>>)},
     own \in {<<>>, Fun, Fun \o B}, l \in Libraries}

MCProjects == Layouts \cup Control \cup Linking
=============================================================================
