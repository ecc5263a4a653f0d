SPECIFICATION FairSpec
CONSTANTS
    Reqs = {q1, q2}
    Apps = {a1}
    Students = {s1, s2}
    Programs = {p1}
    Emails = {ana, bob}
    Rolls = {R1}
    ana = ana  Ana = Ana  bob = bob
    R1 = R1  r1 = r1  R2 = R2
    Fold <- Lower
    Modes <- Serial
PROPERTIES EnrolmentCompletes
CHECK_DEADLOCK FALSE
