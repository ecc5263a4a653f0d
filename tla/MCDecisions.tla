---------------------------- MODULE MCDecisions ----------------------------
\* Decisions on small instances, one service each.
EXTENDS Decisions, MCConditions, TLC

Instances == {[overlap |-> c.overlap, faults |-> c.faults, service |-> s] : c \in Conditions, s \in Services}

Symmetry == UNION {Permutations(S) : S \in {Reqs, Items, Parents, Codes}}

=============================================================================
