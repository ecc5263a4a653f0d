---------------------------- MODULE MCFeeLedger ----------------------------
\* FeeLedger on small instances: requests and payment ids are interchangeable.
EXTENDS FeeLedger, MCConditions, TLC

Symmetry == Permutations(Reqs) \cup Permutations(Payments)

=============================================================================
