---------------------------- MODULE Examinations ----------------------------
(***************************************************************************)
(* Exams, their schedules and the marks workflow:                          *)
(* src/src/modules/examinations/examination.service.ts.                    *)
(*                                                                         *)
(* Every query of a handler is a transaction of its own, so a handler is a *)
(* chain of steps.  Reads that precede the one a handler decides on, and   *)
(* whose answer the foreign keys check again at the write, are part of     *)
(* that step.  Subjects, rooms, students and academic years are outside    *)
(* this module and taken to exist.  A value stands for what a marks row    *)
(* says of the student: marks obtained, maximum and special status.        *)
(***************************************************************************)
EXTENDS Naturals, FiniteSets, Requests, Rows

CONSTANTS
    Exams,       \* ids of exams, never reused (cuid)
    Schedules,   \* ids of exam schedules, never reused (cuid)
    Subjects,
    Students,
    Values       \* what a marks row may say

ASSUME ExaminationsAssumption ==
    /\ Exams \cap Schedules = {}
    /\ "NONE" \notin Values

VARIABLES
    exam,      \* exam[e]: whether the exam row exists
    schedule,  \* schedule[s]: the schedule row
    marks,     \* marks[m]: the marks row of m = <<schedule, student>>
    trail      \* history: trail[m] is the published value by the audit log

vars == <<mode, exam, schedule, marks, req, trail>>

Entries     == Schedules \X Students
MarksStatus == {"DRAFT", "SUBMITTED", "VERIFIED", "PUBLISHED"}

ScheduleRow == [exam : Exams, subject : Subjects]
MarksRow    == [status : MarksStatus, value : Values]

Request ==
    {Idle}
      \cup [pc : {"insertSchedule"}, e : Exams, subject : Subjects]
      \cup [pc : {"deleteExam"}, e : Exams]
      \cup [pc : {"updateSchedule"}, s : Schedules, subject : Subjects]
      \cup [pc : {"deleteSchedule"}, s : Schedules]
      \* enterMarks: the entries of the body still to be handled
      \cup [pc : {"enter"}, s : Schedules, todo : SUBSET Students]
      \cup [pc : {"upsert"}, s : Schedules, todo : SUBSET Students, st : Students, value : Values]
      \cup [pc : {"move"}, s : Schedules, from : MarksStatus \ {"PUBLISHED"}]
      \cup [pc : {"edit", "revise", "logRevision"}, s : Schedules, st : Students, value : Values]

Present(s) == schedule[s] \notin {NoRow, Deleted}
Entered(m) == marks[m] # NoRow
OfExam(e)  == {s \in Schedules : Present(s) /\ schedule[s].exam = e}

TypeOK ==
    /\ exam \in [Exams -> {"absent", "present", "deleted"}]
    /\ schedule \in [Schedules -> ScheduleRow \cup {NoRow, Deleted}]
    /\ marks \in [Entries -> MarksRow \cup {NoRow}]
    /\ req \in [Reqs -> Request]
    /\ trail \in [Entries -> Values \cup {"NONE"}]

Init ==
    /\ mode \in Modes
    /\ exam = [e \in Exams |-> "absent"]
    /\ schedule = [s \in Schedules |-> NoRow]
    /\ marks = [m \in Entries |-> NoRow]
    /\ req = [r \in Reqs |-> Idle]
    /\ trail = [m \in Entries |-> "NONE"]

-----------------------------------------------------------------------------
\* Request bookkeeping.

Touches(q) ==
    CASE req[q].pc \in {"insertSchedule", "deleteExam"} -> {req[q].e}
      [] req[q].pc \in {"updateSchedule", "deleteSchedule", "enter", "upsert", "move", "edit",
                        "revise", "logRevision"} -> {req[q].s}
      [] OTHER -> {}

\* The code serialises nothing (MayOverlap); otherwise requests
\* on one exam or one schedule take turns.
MayStart(r, x) ==
    /\ req[r] = Idle
    /\ MayOverlap \/ \A q \in Reqs : x \notin Touches(q)

\* The server stops, or a query fails: earlier queries of r stay committed.
Die(r) ==
    /\ Faults /\ req[r] # Idle
    /\ Done(r)
    /\ UNCHANGED <<exam, schedule, marks, trail>>

-----------------------------------------------------------------------------
\* Exams and schedules.  Both foreign keys are ON DELETE CASCADE.

\* Rows on their way out: the schedules gone, and every entry under them.
Cascade(gone) ==
    /\ schedule' = [s \in Schedules |-> IF s \in gone THEN Deleted ELSE schedule[s]]
    /\ marks' = [m \in Entries |-> IF m[1] \in gone THEN NoRow ELSE marks[m]]
    /\ trail' = [m \in Entries |-> IF m[1] \in gone THEN "NONE" ELSE trail[m]]

CreateExam(r, e) ==
    /\ MayStart(r, e)
    /\ exam[e] = "absent"
    /\ exam' = [exam EXCEPT ![e] = "present"]
    /\ UNCHANGED <<schedule, marks, req, trail>>

DeleteExam(r, e) ==
    /\ MayStart(r, e)
    /\ exam[e] = "present"                        \* else 404
    /\ OfExam(e) = {}                             \* else EXAM_IN_USE
    /\ Goto(r, [pc |-> "deleteExam", e |-> e])
    /\ UNCHANGED <<exam, schedule, marks, trail>>

ExamDelete(r) ==
    /\ At(r, "deleteExam")
    /\ exam' = [exam EXCEPT ![req[r].e] = "deleted"]
    /\ Cascade(OfExam(req[r].e))
    /\ Done(r)

Scheduled(e, subject) == \E s \in OfExam(e) : schedule[s].subject = subject

CreateSchedule(r, e, subject) ==
    /\ MayStart(r, e)
    /\ exam[e] = "present"                        \* else 404
    /\ ~Scheduled(e, subject)                     \* else DUPLICATE_SCHEDULE
    /\ Goto(r, [pc |-> "insertSchedule", e |-> e, subject |-> subject])
    /\ UNCHANGED <<exam, schedule, marks, trail>>

\* The foreign key refuses a deleted exam.
Insertable(e, subject) == exam[e] = "present" /\ ~Scheduled(e, subject)

ScheduleInsert(r, s) ==
    /\ At(r, "insertSchedule")
    /\ schedule[s] = NoRow
    /\ schedule' = IF Insertable(req[r].e, req[r].subject)
                   THEN [schedule EXCEPT ![s] = [exam |-> req[r].e, subject |-> req[r].subject]]
                   ELSE schedule
    /\ Done(r)
    /\ UNCHANGED <<exam, marks, trail>>

UpdateSchedule(r, s, subject) ==
    /\ MayStart(r, s)
    /\ Present(s)                                 \* else 404
    /\ Goto(r, [pc |-> "updateSchedule", s |-> s, subject |-> subject])
    /\ UNCHANGED <<exam, schedule, marks, trail>>

\* No check of its own: a deleted row or the unique index fails the query.
ScheduleUpdate(r) ==
    /\ At(r, "updateSchedule")
    /\ LET s == req[r].s  subject == req[r].subject IN
         schedule' = IF /\ Present(s)
                        /\ \A t \in OfExam(schedule[s].exam) \ {s} : schedule[t].subject # subject
                     THEN [schedule EXCEPT ![s].subject = subject] ELSE schedule
    /\ Done(r)
    /\ UNCHANGED <<exam, marks, trail>>

\* The count would look at published marks only.
Mutant_Unmarked(s) == \A st \in Students : Entered(<<s, st>>) => marks[<<s, st>>].status # "PUBLISHED"
Unmarked(s) == \A st \in Students : ~Entered(<<s, st>>)

DeleteSchedule(r, s) ==
    /\ MayStart(r, s)
    /\ Present(s)                                 \* else 404
    /\ Unmarked(s)                                \* else SCHEDULE_IN_USE
    /\ Goto(r, [pc |-> "deleteSchedule", s |-> s])
    /\ UNCHANGED <<exam, schedule, marks, trail>>

ScheduleDelete(r) ==
    /\ At(r, "deleteSchedule")
    /\ IF Present(req[r].s) THEN Cascade({req[r].s}) ELSE UNCHANGED <<schedule, marks, trail>>
    /\ Done(r)
    /\ UNCHANGED exam

-----------------------------------------------------------------------------
\* Marks: enterMarks looks at each entry of the body and then writes it.

EnterMarks(r, s, sts) ==
    /\ MayStart(r, s)
    /\ Present(s)                                 \* else 404
    /\ Goto(r, [pc |-> "enter", s |-> s, todo |-> sts])
    /\ UNCHANGED <<exam, schedule, marks, trail>>

\* Only DRAFT entries may be overwritten.
Enterable(m) == Entered(m) => marks[m].status = "DRAFT"

\* On MARKS_NOT_EDITABLE the entries written so far stay.
EnterRead(r, st, value) ==
    /\ At(r, "enter") /\ st \in req[r].todo
    /\ IF Enterable(<<req[r].s, st>>)
       THEN Goto(r, [pc |-> "upsert", s |-> req[r].s, todo |-> req[r].todo \ {st},
                     st |-> st, value |-> value])
       ELSE Done(r)
    /\ UNCHANGED <<exam, schedule, marks, trail>>

\* The update branch writes the value and leaves the status alone; the foreign
\* key refuses a deleted schedule.
MarksUpsert(r) ==
    /\ At(r, "upsert")
    /\ LET m == <<req[r].s, req[r].st>>  value == req[r].value IN
         IF Present(req[r].s)
         THEN /\ marks' = [marks EXCEPT ![m] =
                             [status |-> IF Entered(m) THEN marks[m].status ELSE "DRAFT",
                              value |-> value]]
              /\ IF req[r].todo = {}
                 THEN Done(r)
                 ELSE Goto(r, [pc |-> "enter", s |-> req[r].s, todo |-> req[r].todo])
         ELSE Done(r) /\ UNCHANGED marks
    /\ UNCHANGED <<exam, schedule, trail>>

\* submitMarks, verifyMarks and publishMarks: transitionScheduleMarks(from, to)
To(from) == CASE from = "DRAFT" -> "SUBMITTED"
              [] from = "SUBMITTED" -> "VERIFIED"
              [] from = "VERIFIED" -> "PUBLISHED"

TransitionScheduleMarks(r, s, from) ==
    /\ MayStart(r, s)
    /\ \E st \in Students : Entered(<<s, st>>) /\ marks[<<s, st>>].status = from
                                                  \* else NO_MARKS_TO_TRANSITION
    /\ Goto(r, [pc |-> "move", s |-> s, from |-> from])
    /\ UNCHANGED <<exam, schedule, marks, trail>>

\* updateMany has its own WHERE: the rows in the status now, not those read.
\* The mutant moves every row of the schedule that is not published.
Mutant_Moving(s, from) ==
    {m \in Entries : m[1] = s /\ Entered(m) /\ marks[m].status # "PUBLISHED"}
Moving(s, from) == {m \in Entries : m[1] = s /\ Entered(m) /\ marks[m].status = from}

MarksMove(r) ==
    /\ At(r, "move")
    /\ LET moving == Moving(req[r].s, req[r].from)  to == To(req[r].from) IN
         /\ marks' = [m \in Entries |-> IF m \in moving
                                        THEN [status |-> to, value |-> marks[m].value]
                                        ELSE marks[m]]
         /\ trail' = [m \in Entries |-> IF m \in moving /\ to = "PUBLISHED"
                                        THEN marks[m].value ELSE trail[m]]
    /\ Done(r)
    /\ UNCHANGED <<exam, schedule>>

\* The refusal would cover PUBLISHED only.
Mutant_Editable(m) == Entered(m) /\ marks[m].status # "PUBLISHED"
Editable(m) == Entered(m) /\ marks[m].status \notin {"VERIFIED", "PUBLISHED"}

EditMarks(r, s, st, value) ==
    /\ MayStart(r, s)
    /\ Editable(<<s, st>>)                        \* else 404 or MARKS_NOT_EDITABLE
    /\ Goto(r, [pc |-> "edit", s |-> s, st |-> st, value |-> value])
    /\ UNCHANGED <<exam, schedule, marks, trail>>

\* An update by id: nothing looks at the status again, and a row that is gone
\* fails the query.
Written(m, value) ==
    marks' = IF Entered(m) THEN [marks EXCEPT ![m].value = value] ELSE marks

MarksEdit(r) ==
    /\ At(r, "edit")
    /\ Written(<<req[r].s, req[r].st>>, req[r].value)
    /\ Done(r)
    /\ UNCHANGED <<exam, schedule, trail>>

ReviseMarks(r, s, st, value) ==
    /\ MayStart(r, s)
    /\ Entered(<<s, st>>) /\ marks[<<s, st>>].status = "PUBLISHED"
                                                  \* else 404 or MARKS_NOT_PUBLISHED
    /\ Goto(r, [pc |-> "revise", s |-> s, st |-> st, value |-> value])
    /\ UNCHANGED <<exam, schedule, marks, trail>>

\* The mutant writes no audit row.
Mutant_MarksRevise(r) ==
    /\ At(r, "revise")
    /\ Written(<<req[r].s, req[r].st>>, req[r].value)
    /\ Done(r)
    /\ UNCHANGED <<exam, schedule, trail>>

MarksRevise(r) ==
    /\ At(r, "revise")
    /\ Written(<<req[r].s, req[r].st>>, req[r].value)
    /\ IF Entered(<<req[r].s, req[r].st>>)
       THEN Goto(r, [req[r] EXCEPT !.pc = "logRevision"])
       ELSE Done(r)
    /\ UNCHANGED <<exam, schedule, trail>>

\* The audit row carries marksObtained before and after.
LogRevision(r) ==
    /\ At(r, "logRevision")
    /\ LET m == <<req[r].s, req[r].st>> IN
         trail' = IF Entered(m) THEN [trail EXCEPT ![m] = req[r].value] ELSE trail
    /\ Done(r)
    /\ UNCHANGED <<exam, schedule, marks>>

-----------------------------------------------------------------------------
Begin(r) ==
    \/ \E e \in Exams :
         \/ CreateExam(r, e) \/ DeleteExam(r, e)
         \/ \E subject \in Subjects : CreateSchedule(r, e, subject)
    \/ \E s \in Schedules :
         \/ DeleteSchedule(r, s)
         \/ \E subject \in Subjects : UpdateSchedule(r, s, subject)
         \/ \E sts \in (SUBSET Students) \ {{}} : EnterMarks(r, s, sts)
         \/ \E from \in MarksStatus \ {"PUBLISHED"} : TransitionScheduleMarks(r, s, from)
         \/ \E st \in Students, value \in Values :
              EditMarks(r, s, st, value) \/ ReviseMarks(r, s, st, value)

Continue(r) ==
    \/ ExamDelete(r) \/ ScheduleUpdate(r) \/ ScheduleDelete(r)
    \/ \E s \in Schedules : ScheduleInsert(r, s)
    \/ \E st \in Students, value \in Values : EnterRead(r, st, value)
    \/ MarksUpsert(r) \/ MarksMove(r) \/ MarksEdit(r) \/ MarksRevise(r) \/ LogRevision(r)

Next ==
    /\ \E r \in Reqs : Begin(r) \/ Continue(r) \/ Die(r)
    /\ UNCHANGED mode

Spec == Init /\ [][Next]_vars

-----------------------------------------------------------------------------
\* Properties.

Untouched(x) == \A r \in Reqs : x \notin Touches(r)

Final(m) == Entered(m) /\ marks[m].status \in {"VERIFIED", "PUBLISHED"}

StatusOf == [m \in Entries |-> IF Entered(m) THEN marks[m].status ELSE "NONE"]

Moves ==
    {<<"DRAFT", "SUBMITTED">>, <<"SUBMITTED", "VERIFIED">>, <<"VERIFIED", "PUBLISHED">>}
      \cup (MarksStatus \X {"NONE"})

\* DRAFT, SUBMITTED, VERIFIED, PUBLISHED in this order and one at a time,
\* however requests overlap or die: no bulk move skips a stage or takes one
\* back.  A cascade may take a row away.
MarksWorkflow == INSTANCE Workflow WITH
    Items <- Entries, Absent <- "NONE", First <- "DRAFT", Moves <- Moves, status <- StatusOf

FollowsWorkflow == MarksWorkflow!Spec

\* Entries hang under a schedule that is there, schedules under an exam that is
\* there: no cascade, insert or upsert leaves an orphan, in whatever order.
NoOrphans ==
    /\ \A s \in Schedules : Present(s) => exam[schedule[s].exam] = "present"
    /\ \A m \in Entries : Entered(m) => Present(m[1])

\* A step changes the value of a final mark only by revising a published one.
OnlyRevised(m) ==
    Final(m) /\ Entered(m)' /\ marks'[m].value # marks[m].value =>
      /\ marks[m].status = "PUBLISHED"
      /\ \E r \in Reqs : At(r, "revise") /\ m = <<req[r].s, req[r].st>>

\* What was verified is what is published: between verification and a revision
\* of the published mark nothing changes the value (MARKS_NOT_EDITABLE), as long
\* as requests take turns.
VerifiedIsFixed == [][~MayOverlap => \A m \in Entries : OnlyRevised(m)]_vars

\* No delete takes marks along (SCHEDULE_IN_USE), and deleting an exam takes no
\* schedule along (EXAM_IN_USE), as long as requests take turns: the cascades of
\* the schema never find a row.
NothingTakenAlong ==
    [][~MayOverlap =>
         /\ \A m \in Entries : Entered(m) => Entered(m)'
         /\ \A e \in Exams : exam[e] = "present" /\ exam'[e] = "deleted" => OfExam(e) = {}]_vars

\* The audit log explains every published mark nobody is at work on: it is the
\* value published, or the one the last audited revision wrote.  This takes
\* requests that take turns and do not die.
RevisionsAudited ==
    ~MayOverlap /\ ~Faults =>
      \A m \in Entries :
        Entered(m) /\ marks[m].status = "PUBLISHED" /\ Untouched(m[1]) =>
          marks[m].value = trail[m]

\* No entry is orphaned, and the audit log explains every published mark.
MarksSound == TypeOK /\ NoOrphans /\ RevisionsAudited

=============================================================================
