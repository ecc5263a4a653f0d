SPECIFICATION LibrarySpec
CONSTANTS
    Reqs = {q1, q2}
    Books = {b1}
    Issues = {i1, i2, i3}
    Totals = {1, 2}
    MaxLate = 1
    MaxCopies = 3
    Modes <- Conditions
INVARIANTS StockSound
PROPERTIES ReturnIsFinal
SYMMETRY Symmetry
CHECK_DEADLOCK FALSE
