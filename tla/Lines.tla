-------------------------------- MODULE Lines -------------------------------
(***************************************************************************)
(* Selections from a sequence, and where pieces placed one after the other *)
(* start.                                                                  *)
(***************************************************************************)
EXTENDS Integers, Sequences, FiniteSets

\* The elements of a sequence at the indexes of a set, in order.
Pick(lines, indexes) ==
  [k \in 1..Cardinality(indexes) |->
     lines[CHOOSE i \in indexes : Cardinality({j \in indexes : j <= i}) = k]]

\* Pieces of these sizes: piece k + 1 starts at place k, and place Len(sizes) is
\* where the last one ends.
Places(sizes) ==
  LET after[k \in 0..Len(sizes)] == IF k = 0 THEN 0 ELSE after[k - 1] + sizes[k]
  IN after
Total(sizes) == Places(sizes)[Len(sizes)]
=============================================================================
