------------------------------ MODULE Admissions ------------------------------
(***************************************************************************)
(* Admission applications and the students enrolled from them:             *)
(* src/src/modules/admissions/admission.service.ts and the writes of       *)
(* src/src/modules/students/student.service.ts.                            *)
(*                                                                         *)
(* Every query of a handler is a transaction of its own, so a handler is a *)
(* chain of steps.  Applications are never deleted; a check that reads     *)
(* nothing else a request can change is part of the step that follows it   *)
(* (programs, departments and sections are outside this module).           *)
(***************************************************************************)
EXTENDS Naturals, FiniteSets, Requests, Rows

CONSTANTS
    Apps,        \* ids of applications
    Students,    \* ids of students, never reused (cuid)
    Programs,
    Emails,      \* spellings of e-mail addresses
    Rolls,       \* spellings of roll numbers
    Fold         \* Fold[x]: what is left of a spelling when case is ignored

ASSUME AdmissionsAssumption == {"NONE", "NEW"} \cap (Apps \cup Students) = {}

VARIABLES
    app,      \* app[a]: the application row
    student,  \* student[s]: the student row
    made      \* history: made[a] holds the students enrolling a created

vars == <<mode, app, student, req, made>>

LIFECYCLE == <<"APPLIED", "DOCUMENT_VERIFICATION", "SHORTLISTED", "APPROVED",
               "OFFERED", "ACCEPTED">>
Stages            == {LIFECYCLE[n] : n \in 1..6}
TERMINAL_STATUSES == {"ENROLLED", "REJECTED", "WITHDRAWN"}
AdmissionStatus   == Stages \cup TERMINAL_STATUSES

AppRow     == [status : AdmissionStatus, email : Emails, program : Programs]
\* of: admissionApplicationId, "NONE" for NULL
StudentRow == [email : Emails, roll : Rolls, of : Apps \cup {"NONE"}]

Request ==
    {Idle}
      \cup [pc : {"insertApp"}, email : Emails, program : Programs]
      \cup [pc : {"updateApp"}, a : Apps, email : Emails, program : Programs]
      \cup [pc : {"setStatus"}, a : Apps, status : AdmissionStatus]
      \* the student a request writes: s is "NEW" to create one, a the
      \* application it is created for, "NONE" without one
      \cup [pc : {"checkEmail", "checkRoll", "writeStudent"}, s : Students \cup {"NEW"},
            a : Apps \cup {"NONE"}, email : Emails, roll : Rolls]
      \cup [pc : {"setEnrolled", "link"}, a : Apps, s : Students]

Applied(a)  == app[a] # NoRow
Present(s)  == student[s] \notin {NoRow, Deleted}
Terminal(a) == app[a].status \in TERMINAL_STATUSES

TypeOK ==
    /\ app \in [Apps -> AppRow \cup {NoRow}]
    /\ student \in [Students -> StudentRow \cup {NoRow, Deleted}]
    /\ req \in [Reqs -> Request]
    /\ made \in [Apps -> SUBSET Students]

Init ==
    /\ mode \in Modes
    /\ app = [a \in Apps |-> NoRow]
    /\ student = [s \in Students |-> NoRow]
    /\ req = [r \in Reqs |-> Idle]
    /\ made = [a \in Apps |-> {}]

-----------------------------------------------------------------------------
\* Request bookkeeping.  A request touches the rows it writes and the addresses
\* and roll numbers it wants.

Touches(q) ==
    CASE req[q].pc = "insertApp" -> {Fold[req[q].email]}
      [] req[q].pc = "updateApp" -> {req[q].a, Fold[req[q].email]}
      [] req[q].pc = "setStatus" -> {req[q].a}
      [] req[q].pc \in {"checkEmail", "checkRoll", "writeStudent"} ->
           {Fold[req[q].email], Fold[req[q].roll]} \cup ({req[q].a, req[q].s} \ {"NONE", "NEW"})
      [] req[q].pc \in {"setEnrolled", "link"} -> {req[q].a, req[q].s}
      [] OTHER -> {}

\* The code serialises nothing (MayOverlap); otherwise requests
\* that touch the same thing take turns.
MayStart(r, things) ==
    /\ req[r] = Idle
    /\ MayOverlap \/ \A q \in Reqs : Touches(q) \cap things = {}

\* The server stops, or a query fails: earlier queries of r stay committed.
Die(r) ==
    /\ Faults /\ req[r] # Idle
    /\ Done(r)
    /\ UNCHANGED <<app, student, made>>

-----------------------------------------------------------------------------
\* Applications.

\* createApplication compares addresses without case, the unique index
\* (tenantId, email, programId) with it.
SameApplication(a, email, program) ==
    Applied(a) /\ app[a].program = program /\ Fold[app[a].email] = Fold[email]
Duplicate(a, email, program) ==
    Applied(a) /\ app[a].program = program /\ app[a].email = email

CreateApplication(r, email, program) ==
    /\ MayStart(r, {Fold[email]})
    /\ \A a \in Apps : ~SameApplication(a, email, program)   \* else DUPLICATE_APPLICATION
    /\ Goto(r, [pc |-> "insertApp", email |-> email, program |-> program])
    /\ UNCHANGED <<app, student, made>>

ApplicationInsert(r, a) ==
    /\ At(r, "insertApp")
    /\ ~Applied(a)
    /\ LET email == req[r].email  program == req[r].program IN
         IF \E b \in Apps : Duplicate(b, email, program)
         THEN UNCHANGED app
         ELSE app' = [app EXCEPT ![a] = [status |-> "APPLIED", email |-> email, program |-> program]]
    /\ Done(r)
    /\ UNCHANGED <<student, made>>

\* assertNotTerminal
Mutant_Open(a) == Applied(a) /\ app[a].status \notin {"ENROLLED", "REJECTED"}
Open(a) == Applied(a) /\ ~Terminal(a)

UpdateApplication(r, a, email, program) ==
    /\ MayStart(r, {a, Fold[email]})
    /\ Open(a)                                    \* else 404 or APPLICATION_FINALIZED
    /\ Goto(r, [pc |-> "updateApp", a |-> a, email |-> email, program |-> program])
    /\ UNCHANGED <<app, student, made>>

ApplicationUpdate(r) ==
    /\ At(r, "updateApp")
    /\ LET a == req[r].a  email == req[r].email  program == req[r].program IN
         IF \E b \in Apps \ {a} : Duplicate(b, email, program)
         THEN UNCHANGED app
         ELSE app' = [app EXCEPT ![a] = [status |-> app[a].status, email |-> email,
                                         program |-> program]]
    /\ Done(r)
    /\ UNCHANGED <<student, made>>

\* LIFECYCLE.indexOf, counted from 1, with 0 for a status outside the sequence
IndexOf(status) ==
    IF status \in Stages THEN CHOOSE n \in 1..6 : LIFECYCLE[n] = status ELSE 0
NextStage(status) == LIFECYCLE[IndexOf(status) + 1]

Advanceable(a) == Open(a) /\ app[a].status # "ACCEPTED"

\* Enrolment would be one more stage of the life cycle.
Mutant_AdvanceApplication(r, a) ==
    /\ MayStart(r, {a})
    /\ Open(a)
    /\ Goto(r, [pc |-> "setStatus", a |-> a,
                status |-> IF app[a].status = "ACCEPTED" THEN "ENROLLED"
                           ELSE NextStage(app[a].status)])
    /\ UNCHANGED <<app, student, made>>

AdvanceApplication(r, a) ==
    /\ MayStart(r, {a})
    /\ Advanceable(a)                             \* else 404, APPLICATION_FINALIZED
                                                  \* or ALREADY_AT_FINAL_STAGE
    /\ Goto(r, [pc |-> "setStatus", a |-> a, status |-> NextStage(app[a].status)])
    /\ UNCHANGED <<app, student, made>>

RejectApplication(r, a) ==
    /\ MayStart(r, {a})
    /\ Open(a)
    /\ Goto(r, [pc |-> "setStatus", a |-> a, status |-> "REJECTED"])
    /\ UNCHANGED <<app, student, made>>

WithdrawApplication(r, a) ==
    /\ MayStart(r, {a})
    /\ Open(a)
    /\ Goto(r, [pc |-> "setStatus", a |-> a, status |-> "WITHDRAWN"])
    /\ UNCHANGED <<app, student, made>>

\* The second query overwrites whatever status is there by now.
SetStatus(r) ==
    /\ At(r, "setStatus")
    /\ app' = [app EXCEPT ![req[r].a].status = req[r].status]
    /\ Done(r)
    /\ UNCHANGED <<student, made>>

-----------------------------------------------------------------------------
\* Students.  assertUniqueEmail and assertUniqueRollNumber ignore case, the
\* unique indexes (tenantId, email) and (tenantId, rollNumber) do not.

Others(s) == {t \in Students : Present(t) /\ t # s}

\* The check would compare spellings.
Mutant_EmailFree(email, s) == \A t \in Others(s) : student[t].email # email
EmailFree(email, s) == \A t \in Others(s) : Fold[student[t].email] # Fold[email]
RollFree(roll, s)   == \A t \in Others(s) : Fold[student[t].roll] # Fold[roll]

Storable(email, roll, s) ==
    \A t \in Others(s) : student[t].email # email /\ student[t].roll # roll

CreateStudent(r, email, roll) ==
    /\ MayStart(r, {Fold[email], Fold[roll]})
    /\ Goto(r, [pc |-> "checkEmail", s |-> "NEW", a |-> "NONE", email |-> email, roll |-> roll])
    /\ UNCHANGED <<app, student, made>>

UpdateStudent(r, s, email, roll) ==
    /\ MayStart(r, {s, Fold[email], Fold[roll]})
    /\ Present(s)                                 \* else 404
    /\ Goto(r, [pc |-> "checkEmail", s |-> s, a |-> "NONE", email |-> email, roll |-> roll])
    /\ UNCHANGED <<app, student, made>>

CheckEmail(r) ==
    /\ At(r, "checkEmail")
    /\ IF EmailFree(req[r].email, req[r].s)
       THEN Goto(r, [req[r] EXCEPT !.pc = "checkRoll"])
       ELSE Done(r)                               \* DUPLICATE_EMAIL
    /\ UNCHANGED <<app, student, made>>

CheckRoll(r) ==
    /\ At(r, "checkRoll")
    /\ IF RollFree(req[r].roll, req[r].s)
       THEN Goto(r, [req[r] EXCEPT !.pc = "writeStudent"])
       ELSE Done(r)                               \* DUPLICATE_ROLL_NUMBER
    /\ UNCHANGED <<app, student, made>>

\* createStudent's insert; an index refuses an address or number taken since.
\* In the mutant the caller gets the student and the application is forgotten.
Mutant_StudentInsert(r, s) ==
    /\ At(r, "writeStudent") /\ req[r].s = "NEW"
    /\ student[s] = NoRow
    /\ LET a == req[r].a IN
         IF Storable(req[r].email, req[r].roll, s)
         THEN /\ student' = [student EXCEPT ![s] =
                               [email |-> req[r].email, roll |-> req[r].roll, of |-> "NONE"]]
              /\ made' = IF a = "NONE" THEN made ELSE [made EXCEPT ![a] = @ \cup {s}]
         ELSE UNCHANGED <<student, made>>
    /\ Done(r)
    /\ UNCHANGED app

StudentInsert(r, s) ==
    /\ At(r, "writeStudent") /\ req[r].s = "NEW"
    /\ student[s] = NoRow
    /\ LET a == req[r].a IN
         IF Storable(req[r].email, req[r].roll, s)
         THEN /\ student' = [student EXCEPT ![s] =
                               [email |-> req[r].email, roll |-> req[r].roll, of |-> "NONE"]]
              /\ IF a = "NONE"
                 THEN Done(r) /\ UNCHANGED made
                 ELSE /\ Goto(r, [pc |-> "setEnrolled", a |-> a, s |-> s])
                      /\ made' = [made EXCEPT ![a] = @ \cup {s}]
         ELSE Done(r) /\ UNCHANGED <<student, made>>
    /\ UNCHANGED app

\* The row may be gone by now: the query fails.
StudentUpdate(r) ==
    /\ At(r, "writeStudent") /\ req[r].s # "NEW"
    /\ LET s == req[r].s IN
         IF Present(s) /\ Storable(req[r].email, req[r].roll, s)
         THEN student' = [student EXCEPT ![s] = [email |-> req[r].email, roll |-> req[r].roll,
                                                 of |-> student[s].of]]
         ELSE UNCHANGED student
    /\ Done(r)
    /\ UNCHANGED <<app, made>>

\* Foreign keys of rows outside this module may refuse the delete.
DeleteStudent(r, s) ==
    /\ MayStart(r, {s})
    /\ Present(s)                                 \* else 404
    /\ student' = [student EXCEPT ![s] = Deleted]
    /\ UNCHANGED <<app, req, made>>

-----------------------------------------------------------------------------
\* enrollApplication: createStudent, then mark the application, then link.

Enrollable(a) == Applied(a) /\ app[a].status = "ACCEPTED"

\* The whole row is read here: createStudent uses the address of this moment.
EnrollApplication(r, a, roll) ==
    /\ Enrollable(a)                              \* else 404 or NOT_ACCEPTED
    /\ MayStart(r, {a, Fold[app[a].email], Fold[roll]})
    /\ Goto(r, [pc |-> "checkEmail", s |-> "NEW", a |-> a, email |-> app[a].email, roll |-> roll])
    /\ UNCHANGED <<app, student, made>>

\* Nothing looks at the status again.
SetEnrolled(r) ==
    /\ At(r, "setEnrolled")
    /\ app' = [app EXCEPT ![req[r].a].status = "ENROLLED"]
    /\ Goto(r, [req[r] EXCEPT !.pc = "link"])
    /\ UNCHANGED <<student, made>>

\* A deleted student, or the unique index on admissionApplicationId, fails it.
\* The mutant has no such index.
Mutant_Linkable(a, s) == Present(s)
Linkable(a, s) == Present(s) /\ \A t \in Others(s) : student[t].of # a

LinkStudent(r) ==
    /\ At(r, "link")
    /\ student' = IF Linkable(req[r].a, req[r].s)
                  THEN [student EXCEPT ![req[r].s].of = req[r].a] ELSE student
    /\ Done(r)
    /\ UNCHANGED <<app, made>>

-----------------------------------------------------------------------------
Begin(r) ==
    \/ \E email \in Emails, program \in Programs :
         \/ CreateApplication(r, email, program)
         \/ \E a \in Apps : UpdateApplication(r, a, email, program)
    \/ \E a \in Apps :
         \/ AdvanceApplication(r, a) \/ RejectApplication(r, a) \/ WithdrawApplication(r, a)
         \/ \E roll \in Rolls : EnrollApplication(r, a, roll)
    \/ \E email \in Emails, roll \in Rolls :
         \/ CreateStudent(r, email, roll)
         \/ \E s \in Students : UpdateStudent(r, s, email, roll)
    \/ \E s \in Students : DeleteStudent(r, s)

Continue(r) ==
    \/ \E a \in Apps : ApplicationInsert(r, a)
    \/ ApplicationUpdate(r) \/ SetStatus(r)
    \/ CheckEmail(r) \/ CheckRoll(r)
    \/ \E s \in Students : StudentInsert(r, s)
    \/ StudentUpdate(r) \/ SetEnrolled(r) \/ LinkStudent(r)

Next ==
    /\ \E r \in Reqs : Begin(r) \/ Continue(r) \/ Die(r)
    /\ UNCHANGED mode

Spec == Init /\ [][Next]_vars

\* Express answers a request it has accepted: its next query is sent and served.
FairSpec == Spec /\ \A r \in Reqs : WF_vars(Continue(r) /\ UNCHANGED mode)

-----------------------------------------------------------------------------
\* Properties.

Untouched(x) == \A r \in Reqs : x \notin Touches(r)

\* The status column, as long as requests take turns.
AppStatus ==
    [a \in Apps |-> IF Applied(a) /\ ~MayOverlap THEN app[a].status ELSE "NONE"]

Moves ==
    {<<LIFECYCLE[n], LIFECYCLE[n + 1]>> : n \in 1..5}
      \cup (Stages \X {"REJECTED", "WITHDRAWN"})
      \cup {<<"ACCEPTED", "ENROLLED">>}

\* The life cycle of the README: one step forward at a time to ACCEPTED,
\* REJECTED and WITHDRAWN from every stage, ENROLLED from ACCEPTED alone, and
\* nothing after a terminal status, as long as requests take turns.
Lifecycle == INSTANCE Workflow WITH
    Items <- Apps, Absent <- "NONE", First <- "APPLIED", Moves <- Moves, status <- AppStatus

FollowsLifecycle == Lifecycle!Spec

\* However requests overlap or die, ENROLLED means that an enrolment of this
\* very application did create a student.
EnrolledHasStudent ==
    \A a \in Apps : Applied(a) /\ app[a].status = "ENROLLED" => made[a] # {}

\* A link joins an application to a student its enrolment created, and no two
\* students claim one application.
LinksAreOneToOne ==
    \A s \in Students :
      Present(s) /\ student[s].of # "NONE" =>
        /\ s \in made[student[s].of]
        /\ \A t \in Others(s) : student[t].of # student[s].of

\* A student created by an enrolment comes with the rest of it: once nobody is
\* at work on the application it is ENROLLED and the student, if still there,
\* is linked to it.  This takes requests that take turns and do not die.
EnrolmentIsWhole ==
    ~MayOverlap /\ ~Faults =>
      \A a \in Apps : \A s \in made[a] :
        Untouched(a) =>
          app[a].status = "ENROLLED" /\ (Present(s) => student[s].of = a)

EnrolledOnce(a) == Cardinality(made[a]) <= 1

\* An application is enrolled once: retries never make a second student of one
\* applicant, if requests take turns and none dies.
OneStudentPerApplication == ~MayOverlap /\ ~Faults => \A a \in Apps : EnrolledOnce(a)

\* The applicant becomes a student under the address the application shows, as
\* long as requests take turns.
EnrolledAsApplied ==
    [][~MayOverlap =>
         \A a \in Apps :
           Applied(a) /\ app[a].status # "ENROLLED" /\ app'[a].status = "ENROLLED" =>
             \E s \in made[a] : Present(s) /\ student[s].email = app[a].email]_vars

\* No two students share an address or a roll number, whatever the spelling
\* (DUPLICATE_EMAIL, DUPLICATE_ROLL_NUMBER), as long as requests take turns.
StudentsAreDistinct ==
    ~MayOverlap =>
      \A s, t \in Students :
        Present(s) /\ Present(t) /\ s # t =>
          /\ Fold[student[s].email] # Fold[student[t].email]
          /\ Fold[student[s].roll] # Fold[student[t].roll]

\* An enrolment that created its student gets to the end: the application is
\* ENROLLED and the student, unless deleted meanwhile, is linked to it.
EnrolmentCompletes ==
    \A a \in Apps, s \in Students :
      (s \in made[a]) ~>
        /\ Applied(a) /\ app[a].status = "ENROLLED"
        /\ Present(s) => student[s].of = a

\* Applications and the students made of them belong together.
LinksSound == TypeOK /\ EnrolledHasStudent /\ LinksAreOneToOne

\* As long as requests take turns students are distinct, and if none dies an
\* application makes one student, wholly.
EnrolmentSound == StudentsAreDistinct /\ EnrolmentIsWhole /\ OneStudentPerApplication

=============================================================================
