------------------------------ MODULE MCVector ------------------------------
(* The bound of the runs of Vector. *)
EXTENDS Vector, TLC

\* Addresses and stored pointers are interchangeable.
Symmetry == Permutations(Nodes) \cup Permutations(Data)
=============================================================================
