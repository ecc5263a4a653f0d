---------------------------- MODULE MCConditions ----------------------------
\* The conditions of service the runs consider: values for the constant Modes.

\* As deployed: requests overlap, and any of them may die half-way.
Deployed    == [overlap |-> TRUE, faults |-> TRUE]
\* Requests about one thing take turns; they may die.
InTurn      == [overlap |-> FALSE, faults |-> TRUE]
\* They take turns and none dies.
Untroubled  == [overlap |-> FALSE, faults |-> FALSE]

Conditions  == {Deployed, InTurn, Untroubled}
Overlapping == {[overlap |-> TRUE, faults |-> FALSE]}
Faulty      == {InTurn}
Serial      == {Untroubled}

=============================================================================
