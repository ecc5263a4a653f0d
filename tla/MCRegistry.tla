----------------------------- MODULE MCRegistry -----------------------------
\* Registry on small instances, each following two or three of the kinds.
EXTENDS Registry, MCConditions, TLC

CONSTANTS n1, N1, n2, g1, g2, s1, s2, t1, t2, m1, m2

Spellings == {n1, N1, n2}
Folded    == [n \in Spellings |-> IF n = N1 THEN n1 ELSE n]

\* Two entries may share their faculty member, room or section, or not.
GivenRows ==
    [k \in Kinds |-> CASE k = "section" -> {s1, s2}
                       [] k = "faculty" -> {t1, t2}
                       [] k = "room" -> {m1, m2}
                       [] k = "program" -> {g1, g2}
                       [] OTHER -> {g1}]

\* One period after another, and one that overlaps both.
Times == {[day |-> 1, start |-> 1, end |-> 2], [day |-> 1, start |-> 2, end |-> 3],
          [day |-> 1, start |-> 1, end |-> 3]}

\* Enough entries for every pair to share one thing, all or none, at times that
\* overlap, coincide or follow one another.
Slot(a, b) == [day |-> 1, start |-> a, end |-> b]
Entries == {<<s1, t1, m1, Slot(1, 2)>>, <<s1, t2, m2, Slot(1, 3)>>, <<s2, t1, m2, Slot(1, 3)>>,
            <<s2, t2, m1, Slot(1, 3)>>, <<s2, t2, m2, Slot(1, 2)>>, <<s1, t1, m1, Slot(2, 3)>>}
Requested(d) ==
    CASE d.kind = "entry" ->
           \E e \in Entries : /\ d.refs["section"] = e[1] /\ d.refs["faculty"] = e[2]
                              /\ d.refs["room"] \in {e[3]} \cup Ids /\ d.key = e[4]
      [] d.kind \in {"department", "section", "room", "leaveType", "certificateType", "company"} -> d.key # n2
      [] d.kind \in {"program", "subject", "year"} -> d.key # N1
      [] d.kind = "batch" -> d.key # n2 /\ (d.refs["year"] \in Ids => d.key = n1 /\ d.refs["program"] = g1)
      [] d.kind = "faculty" -> d.refs["user"] = "NONE"
      [] OTHER -> TRUE

Scopes == {{"department", "program", "student"}, {"batch"}, {"program", "subject"},
           {"year", "batch"}, {"section", "student"}, {"room", "entry"}, {"period"}, {"entry"},
           {"faculty", "user", "session"}, {"section", "message"}, {"student", "activity"},
           {"leaveType", "leave"}, {"certificateType", "certificate"}, {"company", "opening"}}

Instances ==
    {[overlap |-> c.overlap, faults |-> c.faults, scope |-> s] : c \in Conditions, s \in Scopes}
      \cup {[overlap |-> c.overlap, faults |-> c.faults, scope |-> {"year", "batch"}] : c \in Overlapping}

Symmetry == Permutations(Reqs) \cup Permutations(Ids)

=============================================================================
