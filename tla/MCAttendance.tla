---------------------------- MODULE MCAttendance ----------------------------
\* Attendance on one session, with one ACTIVE student in its section.  Ids of
\* one kind are interchangeable.
EXTENDS Attendance, MCConditions, TLC

Symmetry == Permutations(Reqs) \cup Permutations(Corrections)

=============================================================================
