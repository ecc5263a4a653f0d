SPECIFICATION Spec
CONSTANTS
    Reqs = {q1, q2}
    Users = {u1}
    Sessions = {t1, t2, t3}
    Resets = {k1}
    Secrets = {s1, s2}
    Keys = {a1}
    Roles = {o1, o2}
    Perms = {p1}
    Defaults <- Catalogue
    MaxFailures = 2
    MaxPassword = 1
    Modes <- Instances
INVARIANTS CredentialsSound LockoutHolds AccessIsCurrent
PROPERTIES SessionsEarned
SYMMETRY Symmetry
CHECK_DEADLOCK FALSE
