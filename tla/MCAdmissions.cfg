SPECIFICATION Spec
CONSTANTS
    Reqs = {q1, q2}
    Apps = {a1}
    Students = {s1, s2}
    Programs = {p1}
    Emails = {ana, Ana}
    Rolls = {R1, r1, R2}
    ana = ana  Ana = Ana  bob = bob
    R1 = R1  r1 = r1  R2 = R2
    Fold <- Lower
    Modes <- Conditions
INVARIANTS LinksSound EnrolmentSound
PROPERTIES FollowsLifecycle EnrolledAsApplied
SYMMETRY Symmetry
CHECK_DEADLOCK FALSE
