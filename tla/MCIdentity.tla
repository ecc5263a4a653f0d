----------------------------- MODULE MCIdentity -----------------------------
\* Identity on small instances, one area each; passwords and second factors are only
\* followed as requests take turns, which their properties assume.
EXTENDS Identity, MCConditions, TLC

Instances ==
    {[overlap |-> c.overlap, faults |-> c.faults, areas |-> {a}] :
       c \in Faulty \cup Serial, a \in {"password", "factor"}}
      \cup {[overlap |-> c.overlap, faults |-> c.faults, areas |-> {"access"}] : c \in Conditions}

\* Every role has every permission by default.
Catalogue == [o \in Roles |-> Perms]

Symmetry == UNION {Permutations(S) : S \in {Reqs, Users, Sessions, Resets, Secrets, Keys, Roles}}

=============================================================================
