------------------------------- MODULE MCStrip -------------------------------
(* Instances of Strip for TLC: windows are interchangeable.                *)
EXTENDS Strip

Symmetry == Permutations(Windows)

\* The bound of the larger instance: at most one of its four windows is
\* minimized or floating.
FewAside == Cardinality(ws.minimized \cup ws.floating) <= 1
=============================================================================
