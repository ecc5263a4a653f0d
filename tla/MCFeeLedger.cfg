SPECIFICATION Spec
CONSTANTS
    Reqs = {r1, r2}
    Invoices = {i1}
    Structures = {k1}
    Payments = {p1, p2, p3}
    Amounts = {1, 2}
    MaxAdjusted = 1
    Modes <- Conditions
INVARIANTS LedgerSound StatusMatchesLedger
PROPERTIES NothingTakenBack NoPaymentOnceSettled
SYMMETRY Symmetry
CHECK_DEADLOCK FALSE
