----------------------------- MODULE TypeSystem -----------------------------
(***************************************************************************)
(* Prototypes, the typesystem and messages.  A prototype is built in a     *)
(* register by the instructions class, derive and attach, and handed over  *)
(* to the typesystem by register; from then on objects refer to it by      *)
(* name, and msg and the search for catchers walk from name to name.       *)
(*                                                                         *)
(* Prototypes are addresses: the typesystem, a register and a Reference    *)
(* may hold the same one.  broken records which conventions the program    *)
(* has left so far; a property says which of them it depends on.           *)
(***************************************************************************)
EXTENDS Inheritance, FiniteSetsExt

CONSTANTS
  Names,       \* names the program gives its classes, that of Object perhaps
  Object,      \* the type the front end registers
  BuiltIn,     \* a type of values that is not in the typesystem
  Methods,     \* names of methods
  Defined,     \* functions there are, and
  Undefined,   \* names of functions there are not
  ObjectMethod,\* the foreign method the front end gives Object
  Registers,
  Addresses,   \* of prototypes
  Null,
  MaxEdits     \* bound of the model only: bases and methods of all prototypes

Types == Names \cup {Object}
Functions == Defined \cup {ObjectMethod}

\* one_registration: no type is registered twice.
\* no_alias:         no register holds a reference to a prototype.
\* single_base:      a prototype derives from one type.
\* has_receiver:     msg is used with a prepared frame and an object in slot 0.
\* class_receiver:   messages are sent to instances of registered types.
Conventions == {"one_registration", "no_alias", "single_base",
                "has_receiver", "class_receiver"}

ASSUME TypeSystemAssumption ==
  /\ Addresses \subseteq Nat /\ IsFiniteSet(Addresses) /\ 0 \in Addresses
  /\ BuiltIn \notin Types
  /\ Null \notin Addresses \cup Functions \cup Undefined
  /\ Undefined \cap Functions = {}
  /\ MaxEdits \in Nat

VARIABLES
  prototypes,  \* what is at an address
  registers,   \* prototypes held by the registers of the running function
  typesystem,  \* prototypes by name
  resolved,    \* what the instruction, a message, was resolved to, or Null
  broken,      \* conventions the program has broken
  crashed      \* the process has ended: unbounded recursion, a null pointer,
               \* an object that is gone, an exception nobody catches

vars == <<prototypes, registers, typesystem, resolved, broken, crashed>>

\* methods maps a method to a function; pinned: a Reference nobody holds any
\* more keeps the prototype alive (register empties a register without counting).
Prototype == [name : Types, bases : Seq(Types),
              methods : [Methods -> Functions \cup Undefined \cup {Null}],
              pinned : BOOLEAN]

ASSUME NullAssumption == Null \notin Prototype

TypeOK ==
  /\ prototypes \in [Addresses -> Prototype \cup {Null}]
  /\ registers \in [Registers -> {a \in Addresses : prototypes[a] # Null} \cup {Null}]
  /\ typesystem \in [Types -> Addresses \cup {Null}]
  /\ broken \subseteq Conventions
  /\ crashed \in BOOLEAN

-----------------------------------------------------------------------------
Registered == {t \in Types : typesystem[t] # Null}
Held(r) == registers[r] # Null
Breaks(convention, condition) ==
  broken' = broken \cup (IF condition THEN {convention} ELSE {})

Edits ==
  LET edits(a) == Len(prototypes[a].bases)
                  + Cardinality({m \in Methods : prototypes[a].methods[m] \in Defined})
  IN MapThenSumSet(edits, Addresses \ {a \in Addresses : prototypes[a] = Null})

Unused == {a \in Addresses : prototypes[a] = Null}
Fresh == CHOOSE a \in Unused : TRUE

NewPrototype(name, pinned) ==
  [name |-> name, bases |-> <<>>, methods |-> [m \in Methods |-> Null],
   pinned |-> pinned]

\* The entry of a type, and the graph of derivations the typesystem holds.
Entry(t) == prototypes[typesystem[t]]
Intact == \A t \in Registered : Entry(t) # Null
Bases == [t \in Registered |-> Entry(t).bases]

\* Searching a type and its ancestors finds a prototype at every step and ends.
Searchable(t) ==
  /\ Intact
  /\ t \in Registered
  /\ \A u \in Registered : Range(Bases[u]) \subseteq Registered
  /\ ChainEnds(Bases, t)

\* The method resolution order.
SearchOrder(t) == <<t>> \o InheritanceChainOf(Bases, t)

Accepts(t, m) == Entry(t).methods[m] # Null

\* The function the first type that accepts m resolves it to, or Null.
Resolve(t, m) ==
  LET order == SearchOrder(t)
      accepting == {i \in DOMAIN order : Accepts(order[i], m)}
  IN IF accepting = {} THEN Null ELSE Entry(order[Min(accepting)]).methods[m]

-----------------------------------------------------------------------------
\* main of the CPU front end registers Object and its methods.
Init ==
  /\ prototypes = [a \in Addresses |->
       IF a # 0 THEN Null
       ELSE [NewPrototype(Object, FALSE) EXCEPT
               !.methods = [m \in Methods |-> ObjectMethod]]]
  /\ registers = [r \in Registers |-> Null]
  /\ typesystem = [t \in Types |-> IF t = Object THEN 0 ELSE Null]
  /\ resolved = Null /\ broken = {} /\ crashed = FALSE

\* class: a new prototype is placed in the register, whether or not a type of
\* that name is registered.  What the register held is deleted; the References
\* to it follow.
Class(r, name) ==
  LET old == registers[r]
      pinned == old # Null /\ prototypes[old].pinned
  IN /\ Unused # {}
     /\ prototypes' = [a \in Addresses |->
          IF a = Fresh THEN NewPrototype(name, pinned)
          ELSE IF a = old THEN Null ELSE prototypes[a]]
     /\ registers' = [s \in Registers |->
          IF s = r \/ (old # Null /\ registers[s] = old) THEN Fresh ELSE registers[s]]
     /\ UNCHANGED <<typesystem, broken, crashed>>

\* Faulty: the base may be registered later.
DeriveForward(r, base) ==
  /\ Held(r) /\ Edits < MaxEdits
  /\ prototypes' = [prototypes EXCEPT ![registers[r]].bases = Append(@, base)]
  /\ Breaks("single_base", prototypes[registers[r]].bases # <<>>)
  /\ UNCHANGED <<registers, typesystem, crashed>>

\* derive: refused with an exception unless the base is registered.
Derive(r, base) ==
  /\ Held(r) /\ Edits < MaxEdits
  /\ base \in Registered
  /\ prototypes' = [prototypes EXCEPT ![registers[r]].bases = Append(@, base)]
  /\ Breaks("single_base", prototypes[registers[r]].bases # <<>>)
  /\ UNCHANGED <<registers, typesystem, crashed>>

\* Faulty: the function is not looked up.
AttachAny(r, m, f) ==
  /\ Held(r) /\ Edits < MaxEdits
  /\ prototypes' = [prototypes EXCEPT ![registers[r]].methods[m] = f]
  /\ UNCHANGED <<registers, typesystem, broken, crashed>>

\* attach: refused with an exception unless the function is defined.
Attach(r, m, f) ==
  /\ Held(r) /\ Edits < MaxEdits
  /\ f \in Defined
  /\ prototypes' = [prototypes EXCEPT ![registers[r]].methods[m] = f]
  /\ UNCHANGED <<registers, typesystem, broken, crashed>>

\* The prototypes once the typesystem holds the one at a instead of another of
\* its name: the one replaced is lost, and its memory with it, unless a register
\* refers to it.
Replaced(a) ==
  LET old == typesystem[prototypes[a].name]
  IN [b \in Addresses |->
        IF b = a THEN [prototypes[a] EXCEPT !.pinned = TRUE]
        ELSE IF b = old /\ \A r \in Registers : registers[r] # b THEN Null
        ELSE prototypes[b]]

\* Faulty: the register goes on holding the prototype.
RegisterShared(r) ==
  /\ Held(r)
  /\ prototypes' = Replaced(registers[r])
  /\ typesystem' = [typesystem EXCEPT ![prototypes[registers[r]].name] = registers[r]]
  /\ Breaks("one_registration", prototypes[registers[r]].name \in Registered)
  /\ UNCHANGED <<registers, crashed>>

\* register: the typesystem takes the prototype over and the register is
\* emptied.
Register(r) ==
  /\ Held(r)
  /\ prototypes' = Replaced(registers[r])
  /\ typesystem' = [typesystem EXCEPT ![prototypes[registers[r]].name] = registers[r]]
  /\ Breaks("one_registration", prototypes[registers[r]].name \in Registered)
  /\ registers' = [registers EXCEPT ![r] = Null]
  /\ UNCHANGED crashed

\* ref: both registers hold References to the prototype.
Ref(r, s) ==
  /\ Held(r) /\ ~Held(s)
  /\ registers' = [registers EXCEPT ![s] = registers[r]]
  /\ Breaks("no_alias", TRUE)
  /\ UNCHANGED <<prototypes, typesystem, crashed>>

\* copy: of a prototype only the name is copied.
Copy(r, s) ==
  /\ Held(r) /\ ~Held(s) /\ Unused # {}
  /\ prototypes' = [prototypes EXCEPT
       ![Fresh] = NewPrototype(prototypes[registers[r]].name, FALSE)]
  /\ registers' = [registers EXCEPT ![s] = Fresh]
  /\ UNCHANGED <<typesystem, broken, crashed>>

\* Faulty: References to the prototype are not counted.
FreeUncounted(r) ==
  /\ Held(r)
  /\ prototypes' = [prototypes EXCEPT ![registers[r]] = Null]
  /\ registers' = [registers EXCEPT ![r] = Null]
  /\ UNCHANGED <<typesystem, broken, crashed>>

\* free: the last register that holds the prototype deletes it.
Free(r) ==
  /\ Held(r)
  /\ LET old == registers[r]
         last == ~prototypes[old].pinned /\ \A s \in Registers \ {r} : registers[s] # old
     IN prototypes' = IF last THEN [prototypes EXCEPT ![old] = Null] ELSE prototypes
  /\ registers' = [registers EXCEPT ![r] = Null]
  /\ UNCHANGED <<typesystem, broken, crashed>>

\* Faulty: objects of any type can be made.
AnyType == Types

\* The types there can be objects of: new refuses a type that is not
\* registered, and no type is ever taken out of the typesystem.
Instances == Registered

\* Nothing is prepared, or slot 0 is empty: msg follows a null pointer.
MsgNobody ==
  /\ crashed' = TRUE
  /\ Breaks("has_receiver", TRUE)
  /\ UNCHANGED <<prototypes, registers, typesystem>>

\* msg: the first type that accepts m resolves it to the function that is
\* called (see Cpu); without one, or if that function does not exist, the
\* message is refused with an exception.
Msg(t, m) ==
  /\ t \in Instances \cup {BuiltIn}
  /\ crashed' = ~Searchable(t)
  /\ resolved' = IF Searchable(t) THEN Resolve(t, m) ELSE Null
  /\ Breaks("class_receiver", t = BuiltIn)
  /\ UNCHANGED <<prototypes, registers, typesystem>>

\* tick looks for a catcher of an object thrown: its ancestors are searched
\* unless its own type is caught.
Throw(t) ==
  /\ t \in Instances
  /\ crashed' = ~Searchable(t)
  /\ UNCHANGED <<prototypes, registers, typesystem, broken>>

Build(r) ==
  \/ \E n \in Names : Class(r, n)
  \/ \E t \in Types : Derive(r, t)
  \/ \E m \in Methods, f \in Defined \cup Undefined : Attach(r, m, f)
  \/ Register(r)
  \/ \E s \in Registers : Ref(r, s) \/ Copy(r, s)
  \/ Free(r)

Next ==
  /\ ~crashed
  /\ \/ /\ \/ \E r \in Registers : Build(r)
           \/ \E t \in Types : Throw(t)
           \/ MsgNobody
        /\ resolved' = Null
     \/ \E t \in Types \cup {BuiltIn}, m \in Methods : Msg(t, m)

Spec == Init /\ [][Next]_vars
-----------------------------------------------------------------------------
Keeps(conventions) == broken \cap conventions = {}

\* A typesystem entry is a prototype that exists and has the name of the entry:
\* register hands the prototype over, so nothing a register does later can
\* delete or replace it.  Only a reference made before the registration can.
EntriesIntact ==
  Keeps({"no_alias"}) => \A t \in Registered : Entry(t) # Null /\ Entry(t).name = t

\* derive accepts only types that can be found for ever after: no type is
\* taken out of the typesystem, so the recursion over ancestors always finds
\* the next one.
BasesRegistered ==
  \A a \in Addresses : prototypes[a] # Null => Range(prototypes[a].bases) \subseteq Registered

\* The recursion of inheritanceChainOf ends: among any types one derives from
\* none of the others, nor from itself.  derive has no check for it: what keeps
\* the derivations acyclic is that a base is registered, and complete, before
\* a type can derive from it.
AncestryAcyclic ==
  (Keeps({"one_registration", "no_alias"}) /\ Intact) =>
    \A S \in SUBSET Registered : S # {} => \E t \in S : Range(Bases[t]) \cap S = {}

\* inheritanceChainOf returns the ancestors of a type, all of them and no
\* other type.
ChainComplete ==
  \A t \in Types : Searchable(t) =>
    Range(InheritanceChainOf(Bases, t)) = AncestorsOf(Bases, t)

\* A type is searched before the types it derives from, so that its methods
\* and its catchers go before theirs.  With several bases this fails: the
\* chain returned is not the one linearised.
DerivedFirst ==
  Keeps({"single_base"}) =>
    \A t \in Types : Searchable(t) =>
      LET chain == InheritanceChainOf(Bases, t)
      IN \A u \in Range(chain) : \A v \in AncestorsOf(Bases, u) :
           FirstAt(chain, u) < FirstAt(chain, v)

\* The exception "method resolves to undefined function" is never thrown:
\* attach has looked the function up, and functions stay.
MethodsResolve == resolved \in Functions \cup {Null}

\* A process that ends at a message or at the search for a catcher has
\* registered a type twice, referred to a prototype, or sent a message without
\* a receiver of a registered type.  Objects made by new always are receivers.
NoCrash ==
  crashed => ~Keeps({"one_registration", "no_alias", "has_receiver", "class_receiver"})

\* What a registered type answers to a message never changes, whatever is
\* derived, attached, registered and deleted afterwards.
ResolutionStable ==
  [][(Keeps({"one_registration", "no_alias"})' /\ ~UNCHANGED <<prototypes, typesystem>>) =>
       \A t \in Types : Searchable(t) =>
         Searchable(t)' /\ \A m \in Methods : Resolve(t, m)' = Resolve(t, m)]_vars

\* A message is answered by the nearest type that accepts it, the receiver's
\* own type first.
NearestAnswers ==
  [][\A t \in Types, m \in Methods :
       (~crashed' /\ Keeps({"single_base"}) /\ UNCHANGED prototypes /\ Msg(t, m)) =>
         LET accepting == {u \in {t} \cup AncestorsOf(Bases, t) : Accepts(u, m)}
         IN IF accepting = {} THEN resolved' = Null
            ELSE \E u \in accepting :
                   /\ resolved' = Entry(u).methods[m]
                   /\ \A v \in accepting :
                        Distance(Bases, t, u) <= Distance(Bases, t, v)]_vars
=============================================================================
