SPECIFICATION Spec
CONSTANTS
    Reqs = {q1, q2}
    Ids = {x1, x2, x3}
    n1 = n1
    N1 = N1
    n2 = n2
    g1 = g1
    g2 = g2
    s1 = s1
    s2 = s2
    t1 = t1
    t2 = t2
    m1 = m1
    m2 = m2
    Given <- GivenRows
    Names <- Spellings
    Fold <- Folded
    Slots <- Times
    Modes <- Instances
    Asked <- Requested
INVARIANTS FollowersFollow NoConflicts ReferencesHold
PROPERTIES SectionsStayAssigned
SYMMETRY Symmetry
CHECK_DEADLOCK FALSE
