SPECIFICATION Spec
CONSTANTS
    Reqs = {q1, q2}
    Houses = {h1, h2}
    Places = {p1, p2}
    Numbers = {n1}
    Capacities = {1, 2}
    Vehicles = {v1}
    Students = {t1, t2}
    Ids = {a1, a2, a3}
    Modes <- Services
INVARIANTS AllocationsSound
PROPERTIES NothingTakenAlong
SYMMETRY Symmetry
CHECK_DEADLOCK FALSE
