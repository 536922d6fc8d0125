---------------------------- MODULE MCTypeSystem ----------------------------
\* Constants of TypeSystem for TLC.
EXTENDS TypeSystem

\* Two classes and Object, that may derive from each other in every way.
CONSTANTS A, B, r1, r2
ModelNames == {A, B}
ModelRegisters == {r1, r2}
ModelSymmetry == Permutations(ModelNames) \cup Permutations(ModelRegisters)
ModelAddresses == 0..2
=============================================================================
