--------------------------- MODULE MCExaminations ---------------------------
\* Examinations on small instances.
EXTENDS Examinations, MCConditions, TLC

Symmetry ==
    Permutations(Reqs) \cup Permutations(Exams) \cup Permutations(Schedules)
      \cup Permutations(Students) \cup Permutations(Values) \cup Permutations(Subjects)

=============================================================================
