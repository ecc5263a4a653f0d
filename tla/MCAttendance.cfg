SPECIFICATION Spec
CONSTANTS
    Reqs = {r1, r2}
    Sessions = {s1}
    Students = {a}
    Active = {a}
    Corrections = {c1}
    MaxMarks = 2
    Leaves = {l1}
    Modes <- Conditions
INVARIANTS CorrectionsSound Prepopulated
PROPERTIES LockedRecordsFrozen NothingTakenBack
SYMMETRY Symmetry
CHECK_DEADLOCK FALSE
