SPECIFICATION Spec
CONSTANTS
    Reqs = {q1, q2, q3}
    Exams = {e1}
    Schedules = {x1, x2}
    Subjects = {u1}
    Students = {n1, n2}
    Values = {v1, v2}
    Modes <- Conditions
INVARIANTS MarksSound
PROPERTIES FollowsWorkflow VerifiedIsFixed NothingTakenAlong
SYMMETRY Symmetry
CHECK_DEADLOCK FALSE
