SPECIFICATION Spec
CONSTANTS
    Reqs = {q1, q2}
    Items = {i1, i2}
    Parents = {p1, p2}
    Students = {t1, t2}
    Eligible = {t1}
    Codes = {c1, c2, c3}
    Marks = {1, 2}
    MaxVersion = 3
    Modes <- Instances
INVARIANTS RecordsSound
PROPERTIES FollowsLifecycle DecisionsStand EntriesFollowParent
SYMMETRY Symmetry
CHECK_DEADLOCK FALSE
