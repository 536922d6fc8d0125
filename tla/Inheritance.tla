----------------------------- MODULE Inheritance -----------------------------
(***************************************************************************)
(* The order in which the CPU searches the ancestors of a type, for a      *)
(* method (vmmsg) and for a catcher (tick), and reference definitions to   *)
(* compare it with.  bases maps a registered type to the types its         *)
(* prototype derives from, in the order of the derive instructions.        *)
(***************************************************************************)
EXTENDS Naturals, FiniteSets, SequencesExt

\* What a type inherits from, directly or not: the least set that holds its
\* bases and the bases of everything in it.
AncestorsOf(bases, type) ==
  LET Closed(S) == /\ Range(bases[type]) \subseteq S
                   /\ \A t \in S : Range(bases[t]) \subseteq S
  IN {u \in DOMAIN bases : \A S \in SUBSET DOMAIN bases : Closed(S) => u \in S}

\* The recursion of inheritanceChainOf ends: no type above this one (nor the
\* type itself) inherits from itself.
ChainEnds(bases, type) ==
  \A t \in {type} \cup AncestorsOf(bases, type) : t \notin AncestorsOf(bases, t)

\* Faulty: the chains of the bases come before the bases.
BasesLast(bases, type) ==
  LET chain[t \in DOMAIN bases] ==
        FlattenSeq([i \in DOMAIN bases[t] |-> chain[bases[t][i]]]) \o bases[t]
  IN chain[type]

\* Faulty: the chains of the bases are not appended.
BasesOnly(bases, type) == bases[type]

\* The loop of CPU::inheritanceChainOf runs over the vector it appends to, so it
\* reaches the appended types as well and appends their chains again.  Given the
\* chains of the types, this is what the loop makes of the types it has not
\* reached yet.
Grown(chain) ==
  LET grown[rest \in Seq(DOMAIN chain)] ==
        IF rest = <<>> THEN <<>>
        ELSE <<Head(rest)>> \o grown[Tail(rest) \o chain[Head(rest)]]
  IN grown

\* What a call of CPU::inheritanceChainOf returns that makes less than n calls
\* within one another.
ChainsWithin(bases) ==
  LET chains[n \in Nat] ==
        IF n = 0 THEN [t \in DOMAIN bases |-> <<>>]
        ELSE [t \in DOMAIN bases |-> Grown(chains[n - 1])[bases[t]]]
  IN chains

\* CPU::inheritanceChainOf.  A call for a type makes calls for its ancestors, and
\* as the calls end, none is within another for the same type.  The
\* linearisation computed after the loop is not what is returned.
InheritanceChainOf(bases, type) ==
  LET types == {type} \cup AncestorsOf(bases, type)
  IN ChainsWithin(Restrict(bases, types))[Cardinality(types)][type]

\* Where an element stands in a sequence for the first time.
FirstAt(s, x) == CHOOSE i \in DOMAIN s : s[i] = x /\ \A j \in 1..(i - 1) : s[j] # x

\* The types n derivations above a type.
Above(bases, type) ==
  LET above[n \in Nat] ==
        IF n = 0 THEN {type} ELSE UNION {Range(bases[t]) : t \in above[n - 1]}
  IN above

\* How many derivations lie between a type and an ancestor of it.
Distance(bases, type, ancestor) ==
  LET above == Above(bases, type)
  IN CHOOSE n \in 0..Cardinality(DOMAIN bases) :
       ancestor \in above[n] /\ \A k \in 0..(n - 1) : ancestor \notin above[k]
=============================================================================
