------------------------------ MODULE MCLibrary ------------------------------
\* Library on small instances.
EXTENDS Library, MCConditions, TLC

Symmetry == Permutations(Reqs) \cup Permutations(Books) \cup Permutations(Issues)

=============================================================================
