---------------------------- MODULE MCAllocations ----------------------------
\* Allocations on small instances, as the hostel and as the transport service.
EXTENDS Allocations, MCConditions, TLC

Services == {[overlap |-> c.overlap, faults |-> c.faults, service |-> s] :
               c \in Conditions, s \in {"hostel", "transport"}}

Symmetry ==
    UNION {Permutations(S) : S \in {Reqs, Houses, Places, Numbers, Vehicles, Students, Ids}}

=============================================================================
