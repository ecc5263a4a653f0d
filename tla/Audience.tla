-------------------------------- MODULE Audience --------------------------------
(***************************************************************************)
(* Who an announcement is for: resolveAudienceUserIds, which picks those   *)
(* who are notified (src/src/modules/notifications), and getFeed, which    *)
(* picks what a caller reads (src/src/modules/announcements).  One is      *)
(* meant to be the inverse of the other, and both walk from the student to *)
(* section, batch and program.  The same of class groups: who hears of a   *)
(* message, and who may read it (src/src/modules/class-groups).            *)
(*                                                                         *)
(* college is a snapshot of the rows read:                                 *)
(*   student[u], faculty[u]: the Student or Faculty row linked to user u   *)
(*   batchOf[s], programOf[b]: of section s and batch b                    *)
(*   teaches: <<u, s>>, u has a timetable entry with section s             *)
(***************************************************************************)
EXTENDS Rows

CONSTANTS
    Users, Departments, Programs, Batches, Sections,
    NoId         \* null

ASSUME AudienceAssumption == NoId \notin Departments \cup Programs \cup Batches \cup Sections

Audiences == {"COLLEGE", "DEPARTMENT", "PROGRAM", "BATCH", "SECTION"}

StudentRow == [department : Departments, section : Sections \cup {NoId}, active : BOOLEAN]
FacultyRow == [department : Departments, active : BOOLEAN]

Scope == [audience   : Audiences,
          department : Departments \cup {NoId}, program : Programs \cup {NoId},
          batch      : Batches \cup {NoId},     section : Sections \cup {NoId}]

\* announcementInputSchema: the id the audience names is given; others may be too.
Valid(scope) ==
    CASE scope.audience = "COLLEGE"    -> TRUE
      [] scope.audience = "DEPARTMENT" -> scope.department # NoId
      [] scope.audience = "PROGRAM"    -> scope.program # NoId
      [] scope.audience = "BATCH"      -> scope.batch # NoId
      [] scope.audience = "SECTION"    -> scope.section # NoId

IsStudent(college, u) == college.student[u] # NoRow
IsFaculty(college, u) == college.faculty[u] # NoRow

\* A filter on a null id filters nothing.
Matches(value, id) == id = NoId \/ value = id

-----------------------------------------------------------------------------
\* resolveAudienceUserIds.

StudentInScope(college, row, scope) ==
    CASE scope.audience = "COLLEGE"    -> TRUE
      [] scope.audience = "DEPARTMENT" -> Matches(row.department, scope.department)
      [] scope.audience = "PROGRAM"    ->
           row.section # NoId /\ Matches(college.programOf[college.batchOf[row.section]], scope.program)
      [] scope.audience = "BATCH"      ->
           row.section # NoId /\ Matches(college.batchOf[row.section], scope.batch)
      [] scope.audience = "SECTION"    -> Matches(row.section, scope.section)

FacultyInScope(row, scope) ==
    \/ scope.audience = "COLLEGE"
    \/ scope.audience = "DEPARTMENT" /\ Matches(row.department, scope.department)

\* Faculty would be notified of every department's announcements.
Mutant_Recipients(college, scope) ==
    {u \in Users :
       \/ /\ IsStudent(college, u) /\ college.student[u].active
          /\ StudentInScope(college, college.student[u], scope)
       \/ /\ IsFaculty(college, u) /\ college.faculty[u].active
          /\ scope.audience \in {"COLLEGE", "DEPARTMENT"}}

Recipients(college, scope) ==
    {u \in Users :
       \/ /\ IsStudent(college, u) /\ college.student[u].active
          /\ StudentInScope(college, college.student[u], scope)
       \/ /\ IsFaculty(college, u) /\ college.faculty[u].active
          /\ FacultyInScope(college.faculty[u], scope)}

-----------------------------------------------------------------------------
\* getFeed, of announcements that are published and have not expired.

\* The department of the student row, or else of the faculty row.
FeedDepartment(college, u) ==
    CASE IsStudent(college, u)                           -> college.student[u].department
      [] ~IsStudent(college, u) /\ IsFaculty(college, u) -> college.faculty[u].department
      [] OTHER                                           -> NoId

FeedSection(college, u) == IF IsStudent(college, u) THEN college.student[u].section ELSE NoId
FeedBatch(college, u) ==
    LET s == FeedSection(college, u) IN IF s = NoId THEN NoId ELSE college.batchOf[s]
FeedProgram(college, u) ==
    LET b == FeedBatch(college, u) IN IF b = NoId THEN NoId ELSE college.programOf[b]

InFeed(college, u, scope) ==
    LET among(own, id) == own # NoId /\ own = id IN
      CASE scope.audience = "COLLEGE"    -> TRUE
        [] scope.audience = "DEPARTMENT" -> among(FeedDepartment(college, u), scope.department)
        [] scope.audience = "PROGRAM"    -> among(FeedProgram(college, u), scope.program)
        [] scope.audience = "BATCH"      -> among(FeedBatch(college, u), scope.batch)
        [] scope.audience = "SECTION"    -> among(FeedSection(college, u), scope.section)

-----------------------------------------------------------------------------
\* Class groups: assertSectionMember and resolveClassGroupRecipients.

Teaches(college, u, s) == IsFaculty(college, u) /\ <<u, s>> \in college.teaches

IsMember(college, u, s) ==
    \/ IsStudent(college, u) /\ college.student[u].section = s
    \/ Teaches(college, u, s)

GroupRecipients(college, s) ==
    {u \in Users :
       \/ IsStudent(college, u) /\ college.student[u].active /\ college.student[u].section = s
       \/ Teaches(college, u, s)}

-----------------------------------------------------------------------------

\* Whoever is notified of an announcement finds it in the feed, and whoever finds
\* it there was to be notified, unless the account belongs to nobody active.  This
\* is said of an account linked to a student or to a faculty member; of one linked
\* to both, the feed forgets the department of the latter.
FeedMatchesAudience(college) ==
    \A scope \in Scope, u \in Users :
      Valid(scope) /\ ~(IsStudent(college, u) /\ IsFaculty(college, u)) =>
        /\ u \in Recipients(college, scope) => InFeed(college, u, scope)
        /\ InFeed(college, u, scope) =>
             \/ u \in Recipients(college, scope)
             \/ IsStudent(college, u) /\ ~college.student[u].active
             \/ IsFaculty(college, u) /\ ~college.faculty[u].active
             \/ scope.audience = "COLLEGE" /\ ~IsStudent(college, u) /\ ~IsFaculty(college, u)

\* Whoever hears of a message in a class group is a member of it, who may read it
\* there; and of its members only students who left do not hear of it.  Holders of
\* CLASS_GROUP_MANAGE read in every group, hear of nothing and are left out.
GroupMatchesMembers(college) ==
    \A s \in Sections, u \in Users :
      /\ u \in GroupRecipients(college, s) => IsMember(college, u, s)
      /\ IsMember(college, u, s) =>
           \/ u \in GroupRecipients(college, s)
           \/ IsStudent(college, u) /\ ~college.student[u].active

=============================================================================
