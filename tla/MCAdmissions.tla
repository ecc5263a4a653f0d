---------------------------- MODULE MCAdmissions ----------------------------
\* Admissions on small instances.  ana and Ana are two spellings of one address,
\* R1 and r1 of one roll number.  Nothing tells two spellings apart but that they
\* are different, so they form symmetry sets like ids of one kind.
EXTENDS Admissions, MCConditions, TLC

CONSTANTS ana, Ana, bob, R1, r1, R2

Lower == [x \in {ana, Ana} |-> "ana"] @@ [x \in {bob} |-> "bob"]
           @@ [x \in {R1, r1} |-> "r1"] @@ [x \in {R2} |-> "r2"]

Symmetry == UNION {Permutations(S) : S \in {Reqs, Apps, Students, {ana, Ana}, {R1, r1}}}

=============================================================================
