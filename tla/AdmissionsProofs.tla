--------------------------- MODULE AdmissionsProofs ---------------------------
(***************************************************************************)
(* Proofs about Admissions, for any sets of requests, applications,        *)
(* students, programs, addresses and roll numbers, and any way of folding  *)
(* case.                                                                   *)
(***************************************************************************)
EXTENDS Admissions, FiniteSetTheorems, TLAPS

Checking == {"checkEmail", "checkRoll", "writeStudent"}

\* A request at work holds the id of an application that exists; only
\* SetEnrolled writes ENROLLED, for a student its enrolment has created.
Sound(x) ==
    /\ x.pc \in {"updateApp", "setStatus", "setEnrolled", "link"} => Applied(x.a)
    /\ x.pc \in Checking => x.a = "NONE" \/ Applied(x.a)
    /\ x.pc = "setStatus" => x.status # "ENROLLED"
    /\ x.pc \in {"setEnrolled", "link"} => x.s \in made[x.a]

Inv ==
    /\ TypeOK
    /\ \A q \in Reqs : Sound(req[q])
    /\ EnrolledHasStudent
    /\ LinksAreOneToOne

LEMMA RequestShape ==
  ASSUME NEW x \in Request
  PROVE  /\ x.pc \in {"insertApp", "updateApp"} => x.email \in Emails /\ x.program \in Programs
         /\ x.pc \in {"updateApp", "setStatus", "setEnrolled", "link"} => x.a \in Apps
         /\ x.pc = "setStatus" => x.status \in AdmissionStatus
         /\ x.pc \in Checking =>
              /\ x.s \in Students \cup {"NEW"} /\ x.a \in Apps \cup {"NONE"}
              /\ x.email \in Emails /\ x.roll \in Rolls
              /\ \A l \in Checking : [x EXCEPT !.pc = l] \in Request
         /\ x.pc \in {"setEnrolled", "link"} =>
              x.s \in Students /\ [x EXCEPT !.pc = "link"] \in Request
         /\ x.pc \in {"idle", "insertApp", "updateApp", "setStatus", "setEnrolled", "link"} \cup Checking
BY DEF Request, Idle, Checking

LEMMA RequestStep ==
  ASSUME TypeOK, NEW r \in Reqs, NEW x \in Request, Goto(r, x)
  PROVE  /\ req' \in [Reqs -> Request]
         /\ req'[r] = x
         /\ \A q \in Reqs \ {r} : req'[q] = req[q]
BY DEF TypeOK, Goto

LEMMA IdleStep ==
  ASSUME TypeOK, NEW r \in Reqs, Done(r)
  PROVE  Idle \in Request /\ Goto(r, Idle) /\ Sound(Idle)
BY DEF Done, Request, Idle, Sound, Checking

\* The three tables a row can be in.
LEMMA RowKinds ==
  /\ \A row \in AppRow : row # NoRow
  /\ \A row \in StudentRow : row # NoRow /\ row # Deleted
  /\ NoRow # Deleted
BY DEF AppRow, StudentRow, NoRow, Deleted

\* The next stage is a stage.
LEMMA NextStageType ==
  ASSUME NEW x \in Stages, x # "ACCEPTED"
  PROVE  /\ NextStage(x) \in Stages
         /\ \E n \in 1..5 : x = LIFECYCLE[n] /\ NextStage(x) = LIFECYCLE[n + 1]
<1>1. \E k \in 1..6 : LIFECYCLE[k] = x
  BY DEF Stages
<1>2. PICK n : n = IndexOf(x)
  OBVIOUS
<1>3. n \in 1..6 /\ LIFECYCLE[n] = x
  BY <1>1, <1>2 DEF IndexOf
<1>4. LIFECYCLE[6] = "ACCEPTED"
  BY DEF LIFECYCLE
<1>5. n \in 1..5 /\ n + 1 \in 1..6
  BY <1>3, <1>4
<1>6. NextStage(x) = LIFECYCLE[n + 1]
  BY <1>2 DEF NextStage
<1>7. QED BY <1>3, <1>5, <1>6 DEF Stages

\* The stages by name.
LEMMA StageNames ==
  Stages = {"APPLIED", "DOCUMENT_VERIFICATION", "SHORTLISTED", "APPROVED", "OFFERED", "ACCEPTED"}
<1>1. 1..6 = {1, 2, 3, 4, 5, 6}
  OBVIOUS
<1>2. QED BY <1>1 DEF Stages, LIFECYCLE

-----------------------------------------------------------------------------
\* Requests that overlap and die as they like.

\* What a step of r leaves to the requests around it.
Grows(r) ==
    /\ \A a \in Apps : Applied(a) => Applied(a)'
    /\ \A a \in Apps : made[a] \subseteq made'[a]
    /\ \A q \in Reqs \ {r} : req'[q] = req[q]

LEMMA SoundKept ==
  ASSUME Inv, NEW r \in Reqs, Grows(r), Sound(req[r])'
  PROVE  \A q \in Reqs : Sound(req[q])'
<1> SUFFICES ASSUME NEW q \in Reqs, q # r PROVE Sound(req[q])'
  OBVIOUS
<1>1. req'[q] = req[q] /\ req[q] \in Request /\ Sound(req[q])
  BY DEF Inv, TypeOK, Grows
<1>2. PICK x : x = req[q]
  OBVIOUS
<1>3. x \in Request /\ Sound(x)
  BY <1>1, <1>2
<1>4. x.a \in Apps /\ Applied(x.a) => Applied(x.a)'
  BY DEF Grows
<1>5. x.a \in Apps => made[x.a] \subseteq made'[x.a]
  BY DEF Grows
<1>6. Sound(x)'
  BY <1>3, <1>4, <1>5, RequestShape DEF Sound
<1>7. QED BY <1>1, <1>2, <1>6

\* A query that writes nothing.
LEMMA ReadStep ==
  ASSUME Inv, NEW r \in Reqs, UNCHANGED <<app, student, made>>,
         NEW x \in Request, Goto(r, x), Sound(x)
  PROVE  Inv'
<1>1. /\ req' \in [Reqs -> Request] /\ req'[r] = x
      /\ \A q \in Reqs \ {r} : req'[q] = req[q]
  BY RequestStep DEF Inv
<1>2. Grows(r)
  BY <1>1 DEF Grows, Applied
<1>3. Sound(x)'
  BY DEF Sound, Applied
<1>4. \A q \in Reqs : Sound(req[q])'
  BY <1>1, <1>2, <1>3, SoundKept
<1>5. TypeOK'
  BY <1>1 DEF Inv, TypeOK
<1>6. EnrolledHasStudent' /\ LinksAreOneToOne'
  BY DEF Inv, EnrolledHasStudent, LinksAreOneToOne, Applied, Present, Others
<1>7. QED BY <1>4, <1>5, <1>6 DEF Inv

\* A query that writes the row of one application.
LEMMA AppStep ==
  ASSUME Inv, NEW r \in Reqs, UNCHANGED <<student, made>>,
         NEW x \in Request, Goto(r, x), Sound(x)',
         NEW a \in Apps, NEW row \in AppRow, app' = [app EXCEPT ![a] = row],
         row.status = "ENROLLED" => made[a] # {}
  PROVE  Inv'
<1>1. /\ req' \in [Reqs -> Request] /\ req'[r] = x
      /\ \A q \in Reqs \ {r} : req'[q] = req[q]
  BY RequestStep DEF Inv
<1>2. app'[a] = row /\ row # NoRow /\ \A b \in Apps \ {a} : app'[b] = app[b]
  BY RowKinds DEF Inv, TypeOK
<1>3. Grows(r)
  BY <1>1, <1>2 DEF Grows, Applied
<1>4. \A q \in Reqs : Sound(req[q])'
  BY <1>1, <1>3, SoundKept
<1>5. TypeOK'
  BY <1>1 DEF Inv, TypeOK
<1>6. EnrolledHasStudent'
  BY <1>2 DEF Inv, EnrolledHasStudent, Applied
<1>7. LinksAreOneToOne'
  BY DEF Inv, LinksAreOneToOne, Present, Others
<1>8. QED BY <1>4, <1>5, <1>6, <1>7 DEF Inv

\* A query that writes the row of one student: the link it leaves there is one
\* nobody else has.
LEMMA StudentStep ==
  ASSUME Inv, NEW r \in Reqs, UNCHANGED <<app, made>>, req' \in [Reqs -> Request],
         \A q \in Reqs \ {r} : req'[q] = req[q], Sound(req[r])',
         NEW s \in Students, NEW row \in StudentRow \cup {Deleted},
         student' = [student EXCEPT ![s] = row],
         row # Deleted /\ row.of # "NONE" =>
           s \in made[row.of] /\ \A t \in Others(s) : student[t].of # row.of
  PROVE  Inv'
<1>1. student'[s] = row /\ \A t \in Students \ {s} : student'[t] = student[t]
  BY DEF Inv, TypeOK
<1>2. Grows(r)
  BY DEF Grows, Applied
<1>3. \A q \in Reqs : Sound(req[q])'
  BY <1>2, SoundKept
<1>4. TypeOK'
  BY DEF Inv, TypeOK
<1>5. EnrolledHasStudent'
  BY DEF Inv, EnrolledHasStudent, Applied
<1>6. ASSUME NEW t \in Students, Present(t)', student'[t].of # "NONE"
      PROVE  /\ t \in made[student'[t].of]
             /\ \A u \in Students : Present(u)' /\ u # t => student'[u].of # student'[t].of
  <2>1. CASE t = s
    BY <1>1, <1>6, <2>1 DEF Present, Others
  <2>2. CASE t # s
    <3>1. Present(t) /\ student'[t] = student[t]
      BY <1>1, <1>6, <2>2 DEF Present
    <3>2. t \in made[student[t].of] /\ \A u \in Others(t) : student[u].of # student[t].of
      BY <1>6, <3>1 DEF Inv, LinksAreOneToOne
    <3>3. ASSUME Present(s)' PROVE student'[s].of # student'[t].of
      BY <1>1, <1>6, <2>2, <3>1, <3>3 DEF Present, Others
    <3>4. QED BY <1>1, <2>2, <3>1, <3>2, <3>3 DEF Present, Others
  <2>3. QED BY <2>1, <2>2
<1>7. LinksAreOneToOne'
  BY <1>6 DEF LinksAreOneToOne, Others
<1>8. QED BY <1>3, <1>4, <1>5, <1>7 DEF Inv

LEMMA InitInv == Init => Inv
BY RowKinds
   DEF Init, Inv, TypeOK, Idle, Request, Sound, Checking, EnrolledHasStudent, LinksAreOneToOne,
       Applied, Present

LEMMA BeginInv ==
  ASSUME Inv, NEW r \in Reqs, Begin(r)
  PROVE  Inv'
<1>1. ASSUME NEW e \in Emails, NEW p \in Programs, CreateApplication(r, e, p) PROVE Inv'
  <2> DEFINE x == [pc |-> "insertApp", email |-> e, program |-> p]
  <2>1. x \in Request /\ Sound(x)
    BY DEF Request, Sound, Checking
  <2>2. QED BY <1>1, <2>1, ReadStep DEF CreateApplication
<1>2. ASSUME NEW e \in Emails, NEW p \in Programs, NEW a \in Apps, UpdateApplication(r, a, e, p)
      PROVE  Inv'
  <2> DEFINE x == [pc |-> "updateApp", a |-> a, email |-> e, program |-> p]
  <2>1. x \in Request /\ Sound(x)
    BY <1>2 DEF UpdateApplication, Open, Request, Sound, Checking
  <2>2. QED BY <1>2, <2>1, ReadStep DEF UpdateApplication
<1>3. ASSUME NEW a \in Apps, NEW status \in AdmissionStatus \ {"ENROLLED"}, Open(a),
             Goto(r, [pc |-> "setStatus", a |-> a, status |-> status]),
             UNCHANGED <<app, student, made>>
      PROVE  Inv'
  <2> DEFINE x == [pc |-> "setStatus", a |-> a, status |-> status]
  <2>1. x \in Request /\ Sound(x)
    BY <1>3 DEF Open, Request, Sound, Checking
  <2>2. QED BY <1>3, <2>1, ReadStep
<1>4. ASSUME NEW a \in Apps, AdvanceApplication(r, a) PROVE Inv'
  <2>1. app[a] \in AppRow
    BY <1>4 DEF AdvanceApplication, Advanceable, Open, Applied, Inv, TypeOK
  <2>2. app[a].status \in Stages /\ app[a].status # "ACCEPTED"
    BY <1>4, <2>1 DEF AdvanceApplication, Advanceable, Open, Terminal, AppRow, AdmissionStatus
  <2>3. NextStage(app[a].status) \in AdmissionStatus \ {"ENROLLED"}
    BY <2>2, NextStageType, StageNames DEF AdmissionStatus
  <2>4. QED BY <1>3, <1>4, <2>3 DEF AdvanceApplication, Advanceable
<1>5. ASSUME NEW a \in Apps, RejectApplication(r, a) PROVE Inv'
  BY <1>3, <1>5 DEF RejectApplication, AdmissionStatus, TERMINAL_STATUSES
<1>6. ASSUME NEW a \in Apps, WithdrawApplication(r, a) PROVE Inv'
  BY <1>3, <1>6 DEF WithdrawApplication, AdmissionStatus, TERMINAL_STATUSES
<1>7. ASSUME NEW s \in Students \cup {"NEW"}, NEW a \in Apps \cup {"NONE"}, NEW e \in Emails,
             NEW roll \in Rolls, a = "NONE" \/ Applied(a), UNCHANGED <<app, student, made>>,
             Goto(r, [pc |-> "checkEmail", s |-> s, a |-> a, email |-> e, roll |-> roll])
      PROVE  Inv'
  <2> DEFINE x == [pc |-> "checkEmail", s |-> s, a |-> a, email |-> e, roll |-> roll]
  <2>1. x \in Request /\ Sound(x)
    BY <1>7 DEF Request, Sound, Checking
  <2>2. QED BY <1>7, <2>1, ReadStep
<1>8. ASSUME NEW a \in Apps, NEW roll \in Rolls, EnrollApplication(r, a, roll) PROVE Inv'
  <2>1. Applied(a) /\ app[a].email \in Emails
    BY <1>8 DEF EnrollApplication, Enrollable, Applied, Inv, TypeOK, AppRow
  <2>2. QED BY <1>7, <1>8, <2>1 DEF EnrollApplication
<1>9. ASSUME NEW e \in Emails, NEW roll \in Rolls, CreateStudent(r, e, roll) PROVE Inv'
  BY <1>7, <1>9 DEF CreateStudent
<1>10. ASSUME NEW s \in Students, NEW e \in Emails, NEW roll \in Rolls, UpdateStudent(r, s, e, roll)
       PROVE  Inv'
  BY <1>7, <1>10 DEF UpdateStudent
<1>11. ASSUME NEW s \in Students, DeleteStudent(r, s) PROVE Inv'
  <2>1. req' \in [Reqs -> Request] /\ Sound(req[r])'
    BY <1>11 DEF DeleteStudent, Inv, TypeOK, Sound, Applied
  <2>2. QED BY <1>11, <2>1, StudentStep DEF DeleteStudent
<1>12. QED BY <1>1, <1>2, <1>4, <1>5, <1>6, <1>8, <1>9, <1>10, <1>11 DEF Begin

LEMMA ContinueInv ==
  ASSUME Inv, NEW r \in Reqs, Continue(r) \/ Die(r)
  PROVE  Inv'
<1>0. req[r] \in Request /\ Sound(req[r])
  BY DEF Inv, TypeOK
<1>1. ASSUME Done(r), UNCHANGED <<app, student, made>> PROVE Inv'
  BY <1>1, IdleStep, ReadStep DEF Inv
<1>2. ASSUME Done(r), UNCHANGED <<student, made>>, NEW a \in Apps, NEW row \in AppRow,
             app' = [app EXCEPT ![a] = row], row.status = "ENROLLED" => made[a] # {}
      PROVE  Inv'
  <2>1. Idle \in Request /\ Goto(r, Idle)
    BY <1>2, IdleStep DEF Inv
  <2>2. Sound(Idle)'
    BY DEF Sound, Idle, Checking
  <2>3. QED BY <1>2, <2>1, <2>2, AppStep
<1>3. ASSUME NEW a \in Apps, ApplicationInsert(r, a) PROVE Inv'
  <2>1. req[r].email \in Emails /\ req[r].program \in Programs
    BY <1>0, <1>3, RequestShape DEF ApplicationInsert, At
  <2>2. [status |-> "APPLIED", email |-> req[r].email, program |-> req[r].program] \in AppRow
    BY <2>1, StageNames DEF AppRow, AdmissionStatus
  <2>3. QED BY <1>1, <1>2, <1>3, <2>2 DEF ApplicationInsert
<1>4. CASE ApplicationUpdate(r)
  <2>1. /\ req[r].email \in Emails /\ req[r].program \in Programs
        /\ req[r].a \in Apps /\ Applied(req[r].a)
    BY <1>0, <1>4, RequestShape DEF ApplicationUpdate, At, Sound
  <2>2. app[req[r].a] \in AppRow
    BY <2>1 DEF Inv, TypeOK, Applied
  <2>3. [status |-> app[req[r].a].status, email |-> req[r].email, program |-> req[r].program] \in AppRow
    BY <2>1, <2>2 DEF AppRow
  <2>4. app[req[r].a].status = "ENROLLED" => made[req[r].a] # {}
    BY <2>1 DEF Inv, EnrolledHasStudent
  <2>5. QED BY <1>1, <1>2, <1>4, <2>1, <2>3, <2>4 DEF ApplicationUpdate
<1>5. CASE SetStatus(r)
  <2>1. /\ req[r].a \in Apps /\ Applied(req[r].a)
        /\ req[r].status \in AdmissionStatus /\ req[r].status # "ENROLLED"
    BY <1>0, <1>5, RequestShape DEF SetStatus, At, Sound
  <2>2. app[req[r].a] \in AppRow
    BY <2>1 DEF Inv, TypeOK, Applied
  <2>3. /\ [app[req[r].a] EXCEPT !.status = req[r].status] \in AppRow
        /\ [app[req[r].a] EXCEPT !.status = req[r].status].status = req[r].status
    BY <2>1, <2>2 DEF AppRow
  <2>4. QED BY <1>2, <1>5, <2>1, <2>3 DEF SetStatus
<1>6. CASE CheckEmail(r) \/ CheckRoll(r)
  <2>1. req[r].pc \in Checking
    BY <1>6 DEF CheckEmail, CheckRoll, At, Checking
  <2>2. ASSUME NEW l \in Checking PROVE [req[r] EXCEPT !.pc = l] \in Request /\ Sound([req[r] EXCEPT !.pc = l])
    <3>1. PICK x : x = req[r]
      OBVIOUS
    <3>2. x \in Request /\ Sound(x) /\ x.pc \in Checking
      BY <1>0, <2>1, <3>1
    <3>3. [x EXCEPT !.pc = l] \in Request
      BY <3>2, RequestShape
    <3>4. x.a = "NONE" \/ Applied(x.a)
      BY <3>2 DEF Sound
    <3>5. [x EXCEPT !.pc = l].pc = l /\ [x EXCEPT !.pc = l].a = x.a
      BY <3>2 DEF Request, Idle, Checking
    <3>6. Sound([x EXCEPT !.pc = l])
      BY <3>4, <3>5 DEF Sound, Checking
    <3>7. QED BY <3>1, <3>3, <3>6
  <2>3. QED BY <1>1, <1>6, <2>2, ReadStep DEF CheckEmail, CheckRoll, Checking
<1>7. ASSUME NEW s \in Students, StudentInsert(r, s) PROVE Inv'
  <2>1. /\ req[r].email \in Emails /\ req[r].roll \in Rolls /\ req[r].a \in Apps \cup {"NONE"}
        /\ req[r].a = "NONE" \/ Applied(req[r].a)
    BY <1>0, <1>7, RequestShape DEF StudentInsert, At, Sound, Checking
  <2>2. CASE ~Storable(req[r].email, req[r].roll, s)
    BY <1>1, <1>7, <2>2 DEF StudentInsert
  <2>3. CASE Storable(req[r].email, req[r].roll, s) /\ req[r].a = "NONE"
    <3>1. [email |-> req[r].email, roll |-> req[r].roll, of |-> "NONE"] \in StudentRow
      BY <2>1 DEF StudentRow
    <3>2. Idle \in Request /\ Goto(r, Idle)
      BY <1>7, <2>3, IdleStep DEF Inv, StudentInsert
    <3>3. /\ req' \in [Reqs -> Request] /\ \A q \in Reqs \ {r} : req'[q] = req[q]
          /\ Sound(req[r])'
      BY <3>2, RequestStep DEF Inv, Idle, Sound, Checking
    <3>4. QED BY <1>7, <2>3, <3>1, <3>3, StudentStep DEF StudentInsert
  <2>4. CASE Storable(req[r].email, req[r].roll, s) /\ req[r].a # "NONE"
    <3>1. PICK a \in Apps : a = req[r].a
      BY <2>1, <2>4
    <3> DEFINE x == [pc |-> "setEnrolled", a |-> a, s |-> s]
               row == [email |-> req[r].email, roll |-> req[r].roll, of |-> "NONE"]
    <3>2. /\ Goto(r, x) /\ made' = [made EXCEPT ![a] = @ \cup {s}]
          /\ student' = [student EXCEPT ![s] = row] /\ UNCHANGED app /\ Applied(a)
      BY <1>7, <2>1, <2>4, <3>1 DEF StudentInsert
    <3>3. x \in Request /\ row \in StudentRow
      BY <2>1 DEF Request, StudentRow
    <3>4. /\ req' \in [Reqs -> Request] /\ req'[r] = x
          /\ \A q \in Reqs \ {r} : req'[q] = req[q]
      BY <3>2, <3>3, RequestStep DEF Inv
    <3>5. made'[a] = made[a] \cup {s} /\ \A b \in Apps \ {a} : made'[b] = made[b]
      BY <3>2 DEF Inv, TypeOK
    <3>6. Grows(r)
      BY <3>2, <3>4, <3>5 DEF Grows, Applied
    <3>7. Sound(x)'
      BY <3>2, <3>5 DEF Sound, Applied, Checking
    <3>8. \A q \in Reqs : Sound(req[q])'
      BY <3>4, <3>6, <3>7, SoundKept
    <3>9. TypeOK'
      BY <3>2, <3>3, <3>4 DEF Inv, TypeOK
    <3>10. EnrolledHasStudent'
      BY <3>2, <3>5 DEF Inv, EnrolledHasStudent, Applied
    <3>11. LinksAreOneToOne'
      <4>1. student'[s] = row /\ \A t \in Students \ {s} : student'[t] = student[t]
        BY <3>2 DEF Inv, TypeOK
      <4>2. \A t \in Students : Present(t) /\ student[t].of # "NONE" => student[t].of \in Apps
        BY DEF Inv, TypeOK, Present, StudentRow
      <4>3. QED BY <3>5, <4>1, <4>2 DEF Inv, LinksAreOneToOne, Present, Others
    <3>12. QED BY <3>8, <3>9, <3>10, <3>11 DEF Inv
  <2>5. QED BY <2>2, <2>3, <2>4
<1>8. CASE StudentUpdate(r)
  <2>1. req[r].email \in Emails /\ req[r].roll \in Rolls /\ req[r].s \in Students
    BY <1>0, <1>8, RequestShape DEF StudentUpdate, At, Checking
  <2>2. CASE ~(Present(req[r].s) /\ Storable(req[r].email, req[r].roll, req[r].s))
    BY <1>1, <1>8, <2>2 DEF StudentUpdate
  <2>3. CASE Present(req[r].s) /\ Storable(req[r].email, req[r].roll, req[r].s)
    <3>1. PICK s \in Students : s = req[r].s
      BY <2>1
    <3> DEFINE row == [email |-> req[r].email, roll |-> req[r].roll, of |-> student[s].of]
    <3>2. student' = [student EXCEPT ![s] = row] /\ Done(r) /\ UNCHANGED <<app, made>>
      BY <1>8, <2>3, <3>1 DEF StudentUpdate
    <3>3. student[s] \in StudentRow /\ Present(s)
      BY <2>3, <3>1 DEF Inv, TypeOK, Present
    <3>4. row \in StudentRow
      BY <2>1, <3>3 DEF StudentRow
    <3>5. row.of # "NONE" => s \in made[row.of] /\ \A t \in Others(s) : student[t].of # row.of
      BY <3>3 DEF Inv, LinksAreOneToOne
    <3>6. /\ req' \in [Reqs -> Request] /\ \A q \in Reqs \ {r} : req'[q] = req[q]
          /\ Sound(req[r])'
      BY <3>2, IdleStep, RequestStep DEF Inv, Idle, Sound, Checking
    <3>7. QED BY <3>2, <3>4, <3>5, <3>6, StudentStep
  <2>4. QED BY <2>2, <2>3
<1>9. CASE SetEnrolled(r)
  <2>1. PICK x : x = req[r]
    OBVIOUS
  <2>2. x \in Request /\ Sound(x) /\ x.pc = "setEnrolled"
    BY <1>0, <1>9, <2>1 DEF SetEnrolled, At
  <2>3. /\ x.a \in Apps /\ Applied(x.a) /\ x.s \in made[x.a]
        /\ [x EXCEPT !.pc = "link"] \in Request
    BY <2>2, RequestShape DEF Sound
  <2>4. app[x.a] \in AppRow
    BY <2>3 DEF Inv, TypeOK, Applied
  <2>5. [app[x.a] EXCEPT !.status = "ENROLLED"] \in AppRow
    BY <2>4 DEF AppRow, AdmissionStatus, TERMINAL_STATUSES
  <2>6. /\ app' = [app EXCEPT ![x.a] = [app[x.a] EXCEPT !.status = "ENROLLED"]]
        /\ Goto(r, [x EXCEPT !.pc = "link"]) /\ UNCHANGED <<student, made>>
    BY <1>9, <2>1 DEF SetEnrolled
  <2>7. Sound([x EXCEPT !.pc = "link"])'
    <3>1. app'[x.a] # NoRow
      BY <2>3, <2>5, <2>6, RowKinds DEF Inv, TypeOK
    <3>2. /\ [x EXCEPT !.pc = "link"].pc = "link" /\ [x EXCEPT !.pc = "link"].a = x.a
          /\ [x EXCEPT !.pc = "link"].s = x.s
      BY <2>2 DEF Request, Idle
    <3>3. QED BY <2>3, <2>6, <3>1, <3>2 DEF Sound, Applied, Checking
  <2>8. QED BY <2>3, <2>5, <2>6, <2>7, AppStep
<1>10. CASE LinkStudent(r)
  <2>1. /\ req[r].a \in Apps /\ req[r].s \in Students /\ req[r].s \in made[req[r].a]
    BY <1>0, <1>10, RequestShape DEF LinkStudent, At, Sound
  <2>2. CASE ~Linkable(req[r].a, req[r].s)
    BY <1>1, <1>10, <2>2 DEF LinkStudent
  <2>3. CASE Linkable(req[r].a, req[r].s)
    <3>1. PICK s \in Students, a \in Apps : s = req[r].s /\ a = req[r].a
      BY <2>1
    <3> DEFINE row == [student[s] EXCEPT !.of = a]
    <3>2. student' = [student EXCEPT ![s] = row] /\ Done(r) /\ UNCHANGED <<app, made>>
      BY <1>10, <2>3, <3>1 DEF LinkStudent
    <3>3. student[s] \in StudentRow
      BY <2>3, <3>1 DEF Inv, TypeOK, Present, Linkable
    <3>4. row \in StudentRow /\ row.of = a
      BY <3>3 DEF StudentRow
    <3>5. s \in made[row.of] /\ \A t \in Others(s) : student[t].of # row.of
      BY <2>1, <2>3, <3>1, <3>4 DEF Linkable
    <3>6. /\ req' \in [Reqs -> Request] /\ \A q \in Reqs \ {r} : req'[q] = req[q]
          /\ Sound(req[r])'
      BY <3>2, IdleStep, RequestStep DEF Inv, Idle, Sound, Checking
    <3>7. QED BY <3>2, <3>4, <3>5, <3>6, StudentStep
  <2>4. QED BY <2>2, <2>3
<1>11. CASE Die(r)
  BY <1>1, <1>11 DEF Die
<1>12. QED BY <1>3, <1>4, <1>5, <1>6, <1>7, <1>8, <1>9, <1>10, <1>11 DEF Continue

LEMMA NextInv == Inv /\ [Next]_vars => Inv'
<1> SUFFICES ASSUME Inv, [Next]_vars PROVE Inv'
  OBVIOUS
<1>1. CASE UNCHANGED vars
  BY <1>1
  DEF vars, Inv, TypeOK, Sound, EnrolledHasStudent, LinksAreOneToOne, Applied, Present, Others
<1>2. CASE Next
  BY <1>2, BeginInv, ContinueInv DEF Next
<1>3. QED BY <1>1, <1>2

LEMMA Invariance == Spec => []Inv
BY InitInv, NextInv, PTL DEF Spec

\* Every reachable state is well typed, however requests overlap and die.
THEOREM TypeCorrect == Spec => []TypeOK
<1>1. Inv => TypeOK
  BY DEF Inv
<1>2. QED BY <1>1, Invariance, PTL

\* However requests overlap and die, an ENROLLED application has had a student
\* created for it by an enrolment.
THEOREM EnrolledCreatesStudent == Spec => []EnrolledHasStudent
<1>1. Inv => EnrolledHasStudent
  BY DEF Inv
<1>2. QED BY <1>1, Invariance, PTL

\* However requests overlap and die, a student is linked only to the
\* application it was enrolled from, and no other student is linked to that.
THEOREM LinksCorrect == Spec => []LinksAreOneToOne
<1>1. Inv => LinksAreOneToOne
  BY DEF Inv
<1>2. QED BY <1>1, Invariance, PTL

-----------------------------------------------------------------------------
\* Requests that take turns.

Works(x, a) ==
    x.pc \in {"updateApp", "setStatus", "setEnrolled", "link"} \cup Checking /\ x.a = a

\* One request at a time is at work on an application, and one wants an address
\* or a roll number,
Alone ==
    \A p, q \in Reqs : p # q =>
      /\ \A a \in Apps : ~(Works(req[p], a) /\ Works(req[q], a))
      /\ req[p].pc \in Checking /\ req[q].pc \in Checking =>
           /\ Fold[req[p].email] # Fold[req[q].email]
           /\ Fold[req[p].roll] # Fold[req[q].roll]

\* so what it checked is still true when it writes.
Held(x) ==
    /\ x.pc = "setStatus" => <<app[x.a].status, x.status>> \in Moves
    /\ x.pc = "setEnrolled" => app[x.a].status = "ACCEPTED"
    /\ x.pc = "link" => app[x.a].status = "ENROLLED"
    /\ x.pc \in Checking /\ x.a # "NONE" => app[x.a].status = "ACCEPTED"
    /\ x.pc \in {"checkRoll", "writeStudent"} => EmailFree(x.email, x.s)
    /\ x.pc = "writeStudent" => RollFree(x.roll, x.s)
    /\ ~Faults =>
         /\ x.pc \in {"updateApp", "setStatus"} => made[x.a] = {}
         /\ x.pc \in Checking /\ x.a # "NONE" => made[x.a] = {}
         /\ x.pc \in {"setEnrolled", "link"} => made[x.a] = {x.s}

\* An application is not enrolled, or wholly so, or a request is about to finish.
Whole(a) ==
    \/ made[a] = {}
    \/ /\ Applied(a) /\ app[a].status = "ENROLLED"
       /\ \E s \in Students : made[a] = {s} /\ (Present(s) => student[s].of = a)
    \/ \E q \in Reqs : req[q].pc \in {"setEnrolled", "link"} /\ req[q].a = a

\* A student comes from one enrolment at most.
MadeOnce ==
    \A a \in Apps : \A s \in made[a] :
      student[s] # NoRow /\ \A b \in Apps \ {a} : s \notin made[b]

\* No two students go by one name, whatever the spelling.
Distinct ==
    \A s, t \in Students :
      Present(s) /\ Present(t) /\ s # t =>
        /\ Fold[student[s].email] # Fold[student[t].email]
        /\ Fold[student[s].roll] # Fold[student[t].roll]

SerialInv ==
    /\ Inv
    /\ Alone
    /\ \A q \in Reqs : Held(req[q])
    /\ Distinct
    /\ MadeOnce
    /\ ~Faults => \A a \in Apps : Whole(a)

\* What a step of r does to the requests around it: it starts on something
\* only if nobody is at work on it,
Enters(r) ==
    /\ \A q \in Reqs \ {r} : req'[q] = req[q]
    /\ \A a \in Apps : Works(req'[r], a) => Works(req[r], a) \/ \A q \in Reqs : ~Works(req[q], a)
    /\ req'[r].pc \in Checking =>
         \/ /\ req[r].pc \in Checking
            /\ req'[r].email = req[r].email /\ req'[r].roll = req[r].roll
         \/ \A q \in Reqs : req[q].pc \in Checking =>
              /\ Fold[req[q].email] # Fold[req'[r].email]
              /\ Fold[req[q].roll] # Fold[req'[r].roll]

\* changes the applications it works on,
AppsKept(r) ==
    \A a \in Apps : \/ Works(req[r], a)
                    \/ /\ made'[a] = made[a]
                       /\ Applied(a) => Applied(a)' /\ app'[a].status = app[a].status

\* and one student.
SameName(t)  == Present(t) /\ student'[t].email = student[t].email /\ student'[t].roll = student[t].roll
Named(t, x)  == /\ x.pc = "writeStudent" /\ x.s \in {t, "NEW"}
                /\ student'[t].email = x.email /\ student'[t].roll = x.roll
NamesKept(r) ==
    \/ \A t \in Students : Present(t)' => SameName(t)
    \/ \E s \in Students :
         Named(s, req[r]) /\ \A t \in Students \ {s} : Present(t)' => SameName(t)
LinksKept(r) ==
    \A t \in Students :
      /\ student[t] # NoRow => student'[t] # NoRow
      /\ Present(t)' /\ student[t] # NoRow =>
           \/ Present(t) /\ student'[t].of = student[t].of
           \/ req[r].pc = "link" /\ t = req[r].s

Frame(r) == Enters(r) /\ AppsKept(r) /\ NamesKept(r) /\ LinksKept(r)

Establishes(r) ==
    /\ Held(req[r])'
    /\ MadeOnce'
    /\ ~Faults => \A a \in Apps : Works(req[r], a) => Whole(a)'

LEMMA WorksTouches ==
  ASSUME NEW q \in Reqs, NEW a \in Apps, Works(req[q], a)
  PROVE  a \in Touches(q)
<1>1. a # "NONE" /\ a # "NEW"
  BY AdmissionsAssumption
<1>2. QED BY <1>1 DEF Works, Touches, Checking

LEMMA CheckingTouches ==
  ASSUME NEW q \in Reqs, req[q].pc \in Checking
  PROVE  Fold[req[q].email] \in Touches(q) /\ Fold[req[q].roll] \in Touches(q)
BY DEF Touches, Checking

\* What is free stays free while nobody else names a student alike.
LEMMA FreeKept ==
  ASSUME NEW r \in Reqs, NamesKept(r), NEW e, NEW roll, NEW s
  PROVE  /\ EmailFree(e, s) /\ (req[r].pc = "writeStudent" => Fold[req[r].email] # Fold[e]) =>
              EmailFree(e, s)'
         /\ RollFree(roll, s) /\ (req[r].pc = "writeStudent" => Fold[req[r].roll] # Fold[roll]) =>
              RollFree(roll, s)'
BY DEF NamesKept, SameName, Named, EmailFree, RollFree, Others, Present

LEMMA DistinctKept ==
  ASSUME SerialInv, NEW r \in Reqs, NamesKept(r)
  PROVE  Distinct'
<1>1. CASE \A t \in Students : Present(t)' => SameName(t)
  BY <1>1 DEF SameName, SerialInv, Distinct
<1>2. ASSUME NEW s \in Students, Named(s, req[r]),
             \A t \in Students \ {s} : Present(t)' => SameName(t)
      PROVE  Distinct'
  <2>1. ASSUME NEW t \in Students, t # s, Present(t)'
        PROVE  /\ Fold[student'[t].email] # Fold[student'[s].email]
               /\ Fold[student'[t].roll] # Fold[student'[s].roll]
    <3>1. EmailFree(req[r].email, req[r].s) /\ RollFree(req[r].roll, req[r].s)
      BY <1>2 DEF Named, SerialInv, Held
    <3>2. SameName(t) /\ t \in Others(req[r].s)
      BY <1>2, <2>1, AdmissionsAssumption DEF Named, SameName, Others
    <3>3. QED BY <1>2, <3>1, <3>2 DEF SameName, Named, EmailFree, RollFree
  <2>2. ASSUME NEW t \in Students, NEW u \in Students, t # s, u # s, t # u, Present(t)', Present(u)'
        PROVE  /\ Fold[student'[t].email] # Fold[student'[u].email]
               /\ Fold[student'[t].roll] # Fold[student'[u].roll]
    BY <1>2, <2>2 DEF SameName, SerialInv, Distinct
  <2>3. QED BY <2>1, <2>2 DEF Distinct
<1>3. QED BY <1>1, <1>2 DEF NamesKept

\* Requests that are not answered by the step keep what they checked.
LEMMA HeldKept ==
  ASSUME UNCHANGED Faults, SerialInv, NEW r \in Reqs, Frame(r), NEW q \in Reqs, q # r
  PROVE  Held(req[q])'
<1>1. PICK x : x = req[q]
  OBVIOUS
<1>2. x \in Request /\ Sound(x) /\ Held(x) /\ req'[q] = x
  BY <1>1 DEF SerialInv, Inv, TypeOK, Frame, Enters
<1>3. ASSUME NEW a \in Apps, Works(x, a), Applied(a)
      PROVE  made'[a] = made[a] /\ app'[a].status = app[a].status
  BY <1>1, <1>3 DEF SerialInv, Alone, Frame, AppsKept
<1>4. CASE x.pc \in {"updateApp", "setStatus", "setEnrolled", "link"}
  <2>1. x.a \in Apps /\ Works(x, x.a) /\ Applied(x.a)
    BY <1>2, <1>4, RequestShape DEF Works, Sound
  <2>2. made'[x.a] = made[x.a] /\ app'[x.a].status = app[x.a].status
    BY <1>3, <2>1
  <2>3. QED BY <1>2, <1>4, <2>2 DEF Held, Checking
<1>5. CASE x.pc \in Checking
  <2>1. x.a # "NONE" => made'[x.a] = made[x.a] /\ app'[x.a].status = app[x.a].status
    <3>1. x.a # "NONE" => x.a \in Apps /\ Works(x, x.a) /\ Applied(x.a)
      BY <1>2, <1>5, RequestShape DEF Works, Sound
    <3>2. QED BY <1>3, <3>1
  <2>2. req[r].pc = "writeStudent" =>
          Fold[req[r].email] # Fold[x.email] /\ Fold[req[r].roll] # Fold[x.roll]
    BY <1>1, <1>5 DEF SerialInv, Alone, Checking
  <2>3. /\ EmailFree(x.email, x.s) => EmailFree(x.email, x.s)'
        /\ RollFree(x.roll, x.s) => RollFree(x.roll, x.s)'
    BY <2>2, FreeKept DEF Frame
  <2>4. Held(x)'
    BY <1>2, <1>5, <2>1, <2>3 DEF Held, Checking
  <2>5. QED BY <1>2, <2>4
<1>6. CASE x.pc \in {"idle", "insertApp"}
  BY <1>2, <1>6 DEF Held, Checking
<1>7. QED BY <1>2, <1>4, <1>5, <1>6, RequestShape

LEMMA WholeKept ==
  ASSUME SerialInv, NEW r \in Reqs, Frame(r), NEW a \in Apps, Whole(a), ~Works(req[r], a)
  PROVE  Whole(a)'
<1>1. made'[a] = made[a]
  BY DEF Frame, AppsKept
<1>2. CASE made[a] = {}
  BY <1>1, <1>2 DEF Whole
<1>3. CASE \E q \in Reqs : req[q].pc \in {"setEnrolled", "link"} /\ req[q].a = a
  <2>1. PICK q \in Reqs : req[q].pc \in {"setEnrolled", "link"} /\ req[q].a = a
    BY <1>3
  <2>2. q # r
    BY <2>1 DEF Works
  <2>3. req'[q] = req[q]
    BY <2>2 DEF Frame, Enters
  <2>4. QED BY <2>1, <2>3 DEF Whole
<1>4. ASSUME Applied(a), app[a].status = "ENROLLED", NEW s \in Students, made[a] = {s},
             Present(s) => student[s].of = a
      PROVE  Whole(a)'
  <2>1. Applied(a)'
    BY <1>4 DEF Frame, AppsKept
  <2>2. app'[a].status = "ENROLLED"
    BY <1>4 DEF Frame, AppsKept
  <2>3. ASSUME Present(s)' PROVE student'[s].of = a
    <3>1. student[s] # NoRow /\ \A b \in Apps \ {a} : s \notin made[b]
      BY <1>4 DEF SerialInv, MadeOnce
    <3>2. ~(req[r].pc = "link" /\ s = req[r].s)
      <4>1. ASSUME req[r].pc = "link", s = req[r].s PROVE FALSE
        <5>1. req[r] \in Request /\ Sound(req[r])
          BY DEF SerialInv, Inv, TypeOK
        <5>2. req[r].a \in Apps /\ s \in made[req[r].a]
          BY <4>1, <5>1, RequestShape DEF Sound
        <5>3. req[r].a = a
          BY <3>1, <5>2
        <5>4. QED BY <4>1, <5>3 DEF Works
      <4>2. QED BY <4>1
    <3>3. QED BY <1>4, <2>3, <3>1, <3>2 DEF Frame, LinksKept
  <2>4. QED BY <1>1, <1>4, <2>1, <2>2, <2>3 DEF Whole
<1>5. QED BY <1>2, <1>3, <1>4 DEF Whole

LEMMA SerialStep ==
  ASSUME UNCHANGED Faults, SerialInv, NEW r \in Reqs, Frame(r), Establishes(r), Inv'
  PROVE  SerialInv'
<1>1. Alone'
  <2>1. ASSUME NEW q \in Reqs \ {r}, NEW a \in Apps, Works(req'[r], a), Works(req'[q], a)
        PROVE  FALSE
    BY <2>1 DEF SerialInv, Alone, Frame, Enters
  <2>2. ASSUME NEW q \in Reqs \ {r}, req'[r].pc \in Checking, req'[q].pc \in Checking
        PROVE  Fold[req'[r].email] # Fold[req'[q].email] /\ Fold[req'[r].roll] # Fold[req'[q].roll]
    BY <2>2 DEF SerialInv, Alone, Frame, Enters
  <2>3. \A p, q \in Reqs \ {r} : req'[p] = req[p] /\ req'[q] = req[q]
    BY DEF Frame, Enters
  <2>4. ASSUME NEW p \in Reqs, NEW q \in Reqs, p # q
        PROVE  /\ \A a \in Apps : ~(Works(req'[p], a) /\ Works(req'[q], a))
               /\ req'[p].pc \in Checking /\ req'[q].pc \in Checking =>
                    /\ Fold[req'[p].email] # Fold[req'[q].email]
                    /\ Fold[req'[p].roll] # Fold[req'[q].roll]
    <3>1. CASE p # r /\ q # r
      BY <2>3, <2>4, <3>1 DEF SerialInv, Alone
    <3>2. CASE p = r \/ q = r
      BY <2>1, <2>2, <2>4, <3>2
    <3>3. QED BY <3>1, <3>2
  <2>5. QED BY <2>4 DEF Alone, Works
<1>2. \A q \in Reqs : Held(req[q])'
  BY HeldKept DEF Establishes
<1>3. Distinct' /\ MadeOnce'
  BY DistinctKept DEF Frame, Establishes
<1>4. ~Faults => \A a \in Apps : Whole(a)'
  BY WholeKept DEF SerialInv, Establishes
<1>5. QED BY <1>1, <1>2, <1>3, <1>4 DEF SerialInv

\* A query that writes nothing.
LEMMA SerialRead ==
  ASSUME UNCHANGED Faults, SerialInv, NEW r \in Reqs, UNCHANGED <<app, student, made>>,
         NEW x \in Request, Goto(r, x), Held(x),
         \A a \in Apps : Works(x, a) => Works(req[r], a) \/ \A q \in Reqs : ~Works(req[q], a),
         x.pc \in Checking =>
           \/ req[r].pc \in Checking /\ x.email = req[r].email /\ x.roll = req[r].roll
           \/ \A q \in Reqs : req[q].pc \in Checking =>
                Fold[req[q].email] # Fold[x.email] /\ Fold[req[q].roll] # Fold[x.roll],
         req[r].pc \notin {"setEnrolled", "link"}
  PROVE  Frame(r) /\ Establishes(r)
<1>1. /\ req' \in [Reqs -> Request] /\ req'[r] = x
      /\ \A q \in Reqs \ {r} : req'[q] = req[q]
  BY RequestStep DEF SerialInv, Inv
<1>2. Enters(r)
  BY <1>1 DEF Enters
<1>3. AppsKept(r)
  BY DEF AppsKept, Applied
<1>4. NamesKept(r)
  <2>1. \A t \in Students : Present(t)' => SameName(t)
    BY DEF SameName, Present
  <2>2. QED BY <2>1 DEF NamesKept
<1>5. LinksKept(r)
  BY DEF LinksKept, Present
<1>6. Held(x)'
  BY DEF Held, EmailFree, RollFree, Others, Present
<1>7. MadeOnce'
  BY DEF SerialInv, MadeOnce
<1>8. ASSUME ~Faults, NEW a \in Apps PROVE Whole(a)'
  <2>1. Whole(a)
    BY <1>8 DEF SerialInv
  <2>2. ASSUME NEW q \in Reqs, req[q].pc \in {"setEnrolled", "link"} PROVE req'[q] = req[q]
    BY <1>1, <2>2
  <2>3. QED BY <2>1, <2>2 DEF Whole, Applied, Present
<1>9. QED BY <1>1, <1>2, <1>3, <1>4, <1>5, <1>6, <1>7, <1>8 DEF Frame, Establishes

\* The parts of Frame for the tables and requests a step leaves alone.
LEMMA SameStudents ==
  ASSUME NEW r \in Reqs, UNCHANGED student
  PROVE  NamesKept(r) /\ LinksKept(r)
BY DEF NamesKept, LinksKept, SameName, Present

LEMMA SameApps ==
  ASSUME NEW r \in Reqs, UNCHANGED <<app, made>>
  PROVE  AppsKept(r)
BY DEF AppsKept, Applied

LEMMA Leaves ==
  ASSUME TypeOK, NEW r \in Reqs, NEW x \in Request, Goto(r, x), x.pc \notin Checking,
         \A a \in Apps : Works(x, a) => Works(req[r], a)
  PROVE  Enters(r) /\ req'[r] = x
<1>1. /\ req' \in [Reqs -> Request] /\ req'[r] = x
      /\ \A q \in Reqs \ {r} : req'[q] = req[q]
  BY RequestStep
<1>2. QED BY <1>1 DEF Enters

LEMMA MadeOnceKept ==
  ASSUME SerialInv, NEW r \in Reqs, UNCHANGED made, LinksKept(r)
  PROVE  MadeOnce'
<1>1. ASSUME NEW a \in Apps, NEW s \in made[a] PROVE student'[s] # NoRow
  <2>1. s \in Students /\ student[s] # NoRow
    BY <1>1 DEF SerialInv, MadeOnce, Inv, TypeOK
  <2>2. QED BY <2>1 DEF LinksKept
<1>2. QED BY <1>1 DEF SerialInv, MadeOnce

\* An idle request holds nothing.
LEMMA IdleHeld ==
  /\ Held(Idle) /\ Held(Idle)' /\ Idle.pc = "idle" /\ Idle.pc \notin Checking
  /\ \A a \in Apps : ~Works(Idle, a)
BY DEF Held, Idle, Checking, Works

LEMMA BeginStep ==
  ASSUME UNCHANGED Faults, SerialInv, ~MayOverlap, NEW r \in Reqs, Begin(r)
  PROVE  Frame(r) /\ Establishes(r)
<1>0. req[r] = Idle /\ req[r].pc = "idle"
  <2>1. req[r] = Idle
    BY DEF Begin, CreateApplication, UpdateApplication, AdvanceApplication, RejectApplication,
           WithdrawApplication, EnrollApplication, CreateStudent, UpdateStudent, DeleteStudent,
           MayStart
  <2>2. QED BY <2>1 DEF Idle
\* A request that may start on an application finds nobody else at work on it.
<1>1. ASSUME NEW a \in Apps, NEW things, a \in things, MayStart(r, things),
             Applied(a), app[a].status # "ENROLLED"
      PROVE  (\A q \in Reqs : ~Works(req[q], a)) /\ (~Faults => made[a] = {})
  <2>1. \A q \in Reqs : ~Works(req[q], a)
    BY <1>1, WorksTouches DEF MayStart
  <2>2. ~Faults => Whole(a)
    BY DEF SerialInv
  <2>3. QED BY <1>1, <2>1, <2>2 DEF Whole, Works
<1>2. ASSUME NEW e, NEW roll, NEW things, Fold[e] \in things, Fold[roll] \in things,
             MayStart(r, things)
      PROVE  \A q \in Reqs : req[q].pc \in Checking =>
               Fold[req[q].email] # Fold[e] /\ Fold[req[q].roll] # Fold[roll]
  BY <1>2, CheckingTouches DEF MayStart
<1>3. ASSUME NEW e \in Emails, NEW p \in Programs, CreateApplication(r, e, p)
      PROVE  Frame(r) /\ Establishes(r)
  <2> DEFINE x == [pc |-> "insertApp", email |-> e, program |-> p]
  <2>1. x \in Request /\ Held(x) /\ x.pc \notin Checking /\ \A a \in Apps : ~Works(x, a)
    BY DEF Request, Held, Checking, Works
  <2>2. QED BY <1>0, <1>3, <2>1, SerialRead DEF CreateApplication
<1>4. ASSUME NEW e \in Emails, NEW p \in Programs, NEW a \in Apps, UpdateApplication(r, a, e, p)
      PROVE  Frame(r) /\ Establishes(r)
  <2> DEFINE x == [pc |-> "updateApp", a |-> a, email |-> e, program |-> p]
  <2>1. Applied(a) /\ app[a].status # "ENROLLED" /\ MayStart(r, {a, Fold[e]})
    BY <1>4 DEF UpdateApplication, Open, Terminal, TERMINAL_STATUSES
  <2>2. (\A q \in Reqs : ~Works(req[q], a)) /\ (~Faults => made[a] = {})
    BY <1>1, <2>1
  <2>3. x \in Request /\ x.pc \notin Checking
    BY DEF Request, Checking
  <2>4. Held(x) /\ \A b \in Apps : Works(x, b) => b = a
    BY <2>2 DEF Held, Checking, Works
  <2>5. QED BY <1>0, <1>4, <2>2, <2>3, <2>4, SerialRead DEF UpdateApplication
<1>5. ASSUME NEW a \in Apps, NEW status \in AdmissionStatus, Open(a), MayStart(r, {a}),
             <<app[a].status, status>> \in Moves,
             Goto(r, [pc |-> "setStatus", a |-> a, status |-> status]),
             UNCHANGED <<app, student, made>>
      PROVE  Frame(r) /\ Establishes(r)
  <2> DEFINE x == [pc |-> "setStatus", a |-> a, status |-> status]
  <2>1. Applied(a) /\ app[a].status # "ENROLLED"
    BY <1>5 DEF Open, Terminal, TERMINAL_STATUSES
  <2>2. (\A q \in Reqs : ~Works(req[q], a)) /\ (~Faults => made[a] = {})
    BY <1>1, <1>5, <2>1
  <2>3. x \in Request /\ x.pc \notin Checking
    BY DEF Request, Checking
  <2>4. Held(x) /\ \A b \in Apps : Works(x, b) => b = a
    BY <1>5, <2>2 DEF Held, Checking, Works
  <2>5. QED BY <1>0, <1>5, <2>2, <2>3, <2>4, SerialRead
<1>6. ASSUME NEW a \in Apps, Open(a) PROVE app[a].status \in Stages
  <2>1. app[a] \in AppRow
    BY <1>6 DEF Open, Applied, SerialInv, Inv, TypeOK
  <2>2. QED BY <1>6, <2>1 DEF Open, Terminal, AppRow, AdmissionStatus
<1>7. ASSUME NEW a \in Apps, AdvanceApplication(r, a) PROVE Frame(r) /\ Establishes(r)
  <2>1. Open(a) /\ app[a].status \in Stages /\ app[a].status # "ACCEPTED"
    BY <1>6, <1>7 DEF AdvanceApplication, Advanceable
  <2>2. /\ NextStage(app[a].status) \in AdmissionStatus
        /\ <<app[a].status, NextStage(app[a].status)>> \in Moves
    BY <2>1, NextStageType DEF AdmissionStatus, Moves
  <2>3. QED BY <1>5, <1>7, <2>1, <2>2 DEF AdvanceApplication
<1>8. ASSUME NEW a \in Apps, RejectApplication(r, a) \/ WithdrawApplication(r, a)
      PROVE  Frame(r) /\ Establishes(r)
  <2>1. Open(a) /\ app[a].status \in Stages
    BY <1>6, <1>8 DEF RejectApplication, WithdrawApplication
  <2>2. ASSUME NEW status \in {"REJECTED", "WITHDRAWN"}
        PROVE  status \in AdmissionStatus /\ <<app[a].status, status>> \in Moves
    BY <2>1, <2>2 DEF AdmissionStatus, TERMINAL_STATUSES, Moves
  <2>3. QED BY <1>5, <1>8, <2>1, <2>2 DEF RejectApplication, WithdrawApplication
<1>9. ASSUME NEW s \in Students \cup {"NEW"}, NEW a \in Apps \cup {"NONE"}, NEW e \in Emails,
             NEW roll \in Rolls, NEW things, Fold[e] \in things, Fold[roll] \in things,
             MayStart(r, things), UNCHANGED <<app, student, made>>,
             a # "NONE" => a \in things /\ Applied(a) /\ app[a].status = "ACCEPTED",
             Goto(r, [pc |-> "checkEmail", s |-> s, a |-> a, email |-> e, roll |-> roll])
      PROVE  Frame(r) /\ Establishes(r)
  <2> DEFINE x == [pc |-> "checkEmail", s |-> s, a |-> a, email |-> e, roll |-> roll]
  <2>1. x \in Request
    BY DEF Request
  <2>2. a \in Apps /\ a # "NONE" =>
          (\A q \in Reqs : ~Works(req[q], a)) /\ (~Faults => made[a] = {})
    BY <1>1, <1>9
  <2>3. Held(x)
    BY <1>9, <2>2 DEF Held, Checking
  <2>4. \A b \in Apps : Works(x, b) => b = a /\ a \in Apps /\ a # "NONE"
    BY AdmissionsAssumption DEF Works
  <2>5. \A q \in Reqs : req[q].pc \in Checking =>
          Fold[req[q].email] # Fold[x.email] /\ Fold[req[q].roll] # Fold[x.roll]
    BY <1>2, <1>9
  <2>6. QED BY <1>0, <1>9, <2>1, <2>2, <2>3, <2>4, <2>5, SerialRead
<1>10. ASSUME NEW a \in Apps, NEW roll \in Rolls, EnrollApplication(r, a, roll)
       PROVE  Frame(r) /\ Establishes(r)
  <2>1. Applied(a) /\ app[a].email \in Emails /\ app[a].status = "ACCEPTED"
    BY <1>10 DEF EnrollApplication, Enrollable, Applied, SerialInv, Inv, TypeOK, AppRow
  <2>2. QED BY <1>9, <1>10, <2>1 DEF EnrollApplication
<1>11. ASSUME NEW e \in Emails, NEW roll \in Rolls, CreateStudent(r, e, roll)
       PROVE  Frame(r) /\ Establishes(r)
  BY <1>9, <1>11 DEF CreateStudent
<1>12. ASSUME NEW s \in Students, NEW e \in Emails, NEW roll \in Rolls, UpdateStudent(r, s, e, roll)
       PROVE  Frame(r) /\ Establishes(r)
  BY <1>9, <1>12 DEF UpdateStudent
<1>13. ASSUME NEW s \in Students, DeleteStudent(r, s) PROVE Frame(r) /\ Establishes(r)
  <2>1. /\ student'[s] = Deleted /\ \A t \in Students \ {s} : student'[t] = student[t]
        /\ UNCHANGED <<app, made, req>>
    BY <1>13 DEF DeleteStudent, SerialInv, Inv, TypeOK
  <2>2. NamesKept(r) /\ LinksKept(r)
    BY <2>1, RowKinds DEF NamesKept, LinksKept, SameName, Present
  <2>3. Enters(r)
    BY <1>0, <2>1 DEF Enters, Checking, Works
  <2>4. AppsKept(r) /\ MadeOnce'
    BY <2>1, <2>2, SameApps, MadeOnceKept
  <2>5. Held(req[r])' /\ \A a \in Apps : ~Works(req[r], a)
    BY <1>0, <2>1, IdleHeld
  <2>6. QED BY <2>2, <2>3, <2>4, <2>5 DEF Frame, Establishes
<1>14. QED BY <1>3, <1>4, <1>7, <1>8, <1>10, <1>11, <1>12, <1>13 DEF Begin

LEMMA ContinueStep ==
  ASSUME UNCHANGED Faults, SerialInv, NEW r \in Reqs, Continue(r) \/ Die(r)
  PROVE  Frame(r) /\ Establishes(r)
<1>0. /\ TypeOK /\ req[r] \in Request /\ Sound(req[r]) /\ Held(req[r])
      /\ Idle \in Request
  BY DEF SerialInv, Inv, TypeOK, Request
\* Answering without a write.
<1>1. ASSUME Done(r), UNCHANGED <<app, student, made>>, req[r].pc \notin {"setEnrolled", "link"}
      PROVE  Frame(r) /\ Establishes(r)
  BY <1>0, <1>1, IdleHeld, SerialRead DEF Done
<1>2. ASSUME Done(r)
      PROVE  Enters(r) /\ Held(req[r])'
  <2>1. Enters(r) /\ req'[r] = Idle
    BY <1>0, <1>2, IdleHeld, Leaves DEF Done
  <2>2. QED BY <2>1, IdleHeld
<1>3. ASSUME NEW a \in Apps, ApplicationInsert(r, a) PROVE Frame(r) /\ Establishes(r)
  <2>1. /\ Done(r) /\ UNCHANGED <<student, made>> /\ ~Applied(a)
        /\ req[r].pc = "insertApp" /\ \A b \in Apps \ {a} : app'[b] = app[b]
    BY <1>0, <1>3 DEF ApplicationInsert, At, TypeOK
  <2>2. AppsKept(r)
    BY <2>1 DEF AppsKept, Applied
  <2>3. \A b \in Apps : ~Works(req[r], b)
    BY <2>1 DEF Works, Checking
  <2>4. QED BY <1>2, <2>1, <2>2, <2>3, SameStudents, MadeOnceKept DEF Frame, Establishes
<1>4. CASE ApplicationUpdate(r)
  <2>1. PICK a \in Apps : a = req[r].a
    BY <1>0, <1>4, RequestShape DEF ApplicationUpdate, At
  <2>2. /\ Done(r) /\ UNCHANGED <<student, made>>
        /\ req[r].pc = "updateApp" /\ Works(req[r], a)
        /\ \A b \in Apps \ {a} : app'[b] = app[b]
    BY <1>0, <1>4, <2>1 DEF ApplicationUpdate, At, TypeOK, Works
  <2>3. AppsKept(r)
    BY <2>2 DEF AppsKept, Applied
  <2>4. \A b \in Apps : Works(req[r], b) => b = a
    BY <2>1 DEF Works
  <2>5. ~Faults => made'[a] = {}
    BY <1>0, <2>1, <2>2 DEF Held
  <2>6. QED BY <1>2, <2>2, <2>3, <2>4, <2>5, SameStudents, MadeOnceKept DEF Frame, Establishes, Whole
<1>5. CASE SetStatus(r)
  <2>1. PICK a \in Apps : a = req[r].a
    BY <1>0, <1>5, RequestShape DEF SetStatus, At
  <2>2. /\ Done(r) /\ UNCHANGED <<student, made>>
        /\ req[r].pc = "setStatus" /\ Works(req[r], a)
        /\ \A b \in Apps \ {a} : app'[b] = app[b]
    BY <1>0, <1>5, <2>1 DEF SetStatus, At, TypeOK, Works
  <2>3. AppsKept(r)
    BY <2>2 DEF AppsKept, Applied
  <2>4. \A b \in Apps : Works(req[r], b) => b = a
    BY <2>1 DEF Works
  <2>5. ~Faults => made'[a] = {}
    BY <1>0, <2>1, <2>2 DEF Held
  <2>6. QED BY <1>2, <2>2, <2>3, <2>4, <2>5, SameStudents, MadeOnceKept DEF Frame, Establishes, Whole
<1>6. CASE CheckEmail(r) \/ CheckRoll(r)
  <2>1. PICK x : x = req[r]
    OBVIOUS
  <2>2. x \in Request /\ Held(x) /\ x.pc \in {"checkEmail", "checkRoll"}
    BY <1>0, <1>6, <2>1 DEF CheckEmail, CheckRoll, At
  <2>3. ASSUME NEW l \in Checking, Goto(r, [x EXCEPT !.pc = l]),
               l \in {"checkRoll", "writeStudent"} => EmailFree(x.email, x.s),
               l = "writeStudent" => RollFree(x.roll, x.s)
        PROVE  Frame(r) /\ Establishes(r)
    <3>1. PICK y : y = [x EXCEPT !.pc = l]
      OBVIOUS
    <3>2. /\ y \in Request /\ y.pc = l /\ y.a = x.a /\ y.s = x.s
          /\ y.email = x.email /\ y.roll = x.roll
      BY <2>2, <3>1, RequestShape DEF Request, Idle, Checking
    <3>3. Held(y)
      BY <2>2, <2>3, <3>2 DEF Held, Checking
    <3>4. \A a \in Apps : Works(y, a) => Works(x, a)
      BY <2>2, <3>2 DEF Works, Checking
    <3>5. UNCHANGED <<app, student, made>>
      BY <1>6 DEF CheckEmail, CheckRoll
    <3>6. QED BY <2>1, <2>2, <2>3, <3>1, <3>2, <3>3, <3>4, <3>5, SerialRead DEF Checking
  <2>4. CASE CheckEmail(r)
    <3>1. CASE EmailFree(req[r].email, req[r].s)
      BY <2>1, <2>3, <2>4, <3>1 DEF CheckEmail, Checking
    <3>2. CASE ~EmailFree(req[r].email, req[r].s)
      BY <1>1, <2>4, <3>2 DEF CheckEmail, At
    <3>3. QED BY <3>1, <3>2
  <2>5. CASE CheckRoll(r)
    <3>1. CASE RollFree(req[r].roll, req[r].s)
      <4>1. EmailFree(x.email, x.s)
        BY <2>1, <2>2, <2>5 DEF Held, CheckRoll, At
      <4>2. QED BY <2>1, <2>3, <2>5, <3>1, <4>1 DEF CheckRoll, Checking
    <3>2. CASE ~RollFree(req[r].roll, req[r].s)
      BY <1>1, <2>5, <3>2 DEF CheckRoll, At
    <3>3. QED BY <3>1, <3>2
  <2>6. QED BY <1>6, <2>4, <2>5
<1>7. ASSUME NEW s \in Students, StudentInsert(r, s) PROVE Frame(r) /\ Establishes(r)
  <2>1. /\ req[r].pc = "writeStudent" /\ req[r].pc \in Checking /\ req[r].s = "NEW"
        /\ req[r].a \in Apps \cup {"NONE"} /\ student[s] = NoRow /\ UNCHANGED app
    BY <1>0, <1>7, RequestShape DEF StudentInsert, At, Checking
  <2>2. CASE ~Storable(req[r].email, req[r].roll, s)
    BY <1>1, <1>7, <2>1, <2>2 DEF StudentInsert
  <2>3. CASE Storable(req[r].email, req[r].roll, s)
    <3> DEFINE row == [email |-> req[r].email, roll |-> req[r].roll, of |-> "NONE"]
    <3>1. student'[s] = row /\ \A t \in Students \ {s} : student'[t] = student[t]
      BY <1>0, <1>7, <2>3 DEF StudentInsert, TypeOK
    <3>2. row # NoRow
      BY DEF NoRow
    <3>3. NamesKept(r)
      <4>1. Named(s, req[r])
        BY <2>1, <3>1 DEF Named
      <4>2. QED BY <3>1, <4>1 DEF NamesKept, SameName, Present
    <3>4. LinksKept(r)
      BY <2>1, <3>1, <3>2 DEF LinksKept, Present
    <3>5. CASE req[r].a = "NONE"
      <4>1. Done(r) /\ UNCHANGED made
        BY <1>7, <2>3, <3>5 DEF StudentInsert
      <4>2. \A a \in Apps : ~Works(req[r], a)
        BY <3>5, AdmissionsAssumption DEF Works
      <4>3. QED BY <1>2, <2>1, <3>3, <3>4, <4>1, <4>2, SameApps, MadeOnceKept DEF Frame, Establishes
    <3>6. CASE req[r].a # "NONE"
      <4>1. PICK a \in Apps : a = req[r].a
        BY <2>1, <3>6
      <4> DEFINE x == [pc |-> "setEnrolled", a |-> a, s |-> s]
      <4>2. Goto(r, x) /\ made' = [made EXCEPT ![a] = @ \cup {s}]
        BY <1>7, <2>3, <3>6, <4>1 DEF StudentInsert
      <4>3. made'[a] = made[a] \cup {s} /\ \A b \in Apps \ {a} : made'[b] = made[b]
        BY <1>0, <4>2 DEF TypeOK
      <4>4. x \in Request /\ x.pc \notin Checking /\ Works(req[r], a)
        BY <2>1, <4>1 DEF Request, Checking, Works
      <4>5. \A b \in Apps : Works(x, b) \/ Works(req[r], b) => b = a
        BY <4>1 DEF Works
      <4>6. Enters(r) /\ req'[r] = x
        BY <1>0, <4>2, <4>4, <4>5, Leaves
      <4>7. AppsKept(r)
        BY <2>1, <4>3, <4>4 DEF AppsKept, Applied
      <4>8. Held(x)'
        <5>1. app[a].status = "ACCEPTED" /\ (~Faults => made[a] = {})
          BY <1>0, <2>1, <3>6, <4>1 DEF Held
        <5>2. QED BY <2>1, <4>3, <5>1 DEF Held, Checking
      <4>9. MadeOnce'
        <5>1. \A b \in Apps : s \notin made[b]
          BY <2>1 DEF SerialInv, MadeOnce
        <5>2. ASSUME NEW b \in Apps, NEW t \in made'[b]
              PROVE  student'[t] # NoRow /\ \A c \in Apps \ {b} : t \notin made'[c]
          <6>1. CASE t = s
            BY <3>1, <3>2, <4>3, <5>1, <5>2, <6>1
          <6>2. CASE t # s
            <7>1. t \in made[b] /\ t \in Students
              BY <1>0, <4>3, <5>2, <6>2 DEF TypeOK
            <7>2. student[t] # NoRow /\ \A c \in Apps \ {b} : t \notin made[c]
              BY <7>1 DEF SerialInv, MadeOnce
            <7>3. QED BY <3>1, <4>3, <6>2, <7>1, <7>2
          <6>3. QED BY <6>1, <6>2
        <5>3. QED BY <5>2 DEF MadeOnce
      <4>10. Whole(a)'
        BY <4>6 DEF Whole
      <4>11. QED BY <3>3, <3>4, <4>5, <4>6, <4>7, <4>8, <4>9, <4>10 DEF Frame, Establishes
    <3>7. QED BY <3>5, <3>6
  <2>4. QED BY <2>2, <2>3
<1>8. CASE StudentUpdate(r)
  <2>1. /\ req[r].pc = "writeStudent" /\ req[r].s \in Students
        /\ req[r].a = "NONE" \/ req[r].a \in Apps
        /\ Done(r) /\ UNCHANGED <<app, made>>
    BY <1>0, <1>8, RequestShape DEF StudentUpdate, At, Checking
  <2>2. CASE ~(Present(req[r].s) /\ Storable(req[r].email, req[r].roll, req[r].s))
    BY <1>1, <1>8, <2>1, <2>2 DEF StudentUpdate
  <2>3. CASE Present(req[r].s) /\ Storable(req[r].email, req[r].roll, req[r].s)
    <3>1. PICK s \in Students : s = req[r].s
      BY <2>1
    <3> DEFINE row == [email |-> req[r].email, roll |-> req[r].roll, of |-> student[s].of]
    <3>2. /\ student'[s] = row /\ \A t \in Students \ {s} : student'[t] = student[t]
          /\ Present(s)
      BY <1>0, <1>8, <2>3, <3>1 DEF StudentUpdate, TypeOK
    <3>3. NamesKept(r)
      <4>1. Named(s, req[r])
        BY <2>1, <3>1, <3>2 DEF Named
      <4>2. QED BY <3>2, <4>1 DEF NamesKept, SameName, Present
    <3>4. LinksKept(r)
      BY <3>2 DEF LinksKept, Present, NoRow
    <3>5. ASSUME ~Faults, NEW a \in Apps, Works(req[r], a) PROVE Whole(a)'
      <4>1. made[a] = {}
        BY <1>0, <2>1, <3>5, AdmissionsAssumption DEF Held, Works, Checking
      <4>2. QED BY <2>1, <4>1 DEF Whole
    <3>6. QED BY <1>2, <2>1, <3>3, <3>4, <3>5, SameApps, MadeOnceKept DEF Frame, Establishes
  <2>4. QED BY <2>2, <2>3
<1>9. CASE SetEnrolled(r)
  <2>1. PICK x : x = req[r]
    OBVIOUS
  <2>2. x \in Request /\ Sound(x) /\ Held(x) /\ x.pc = "setEnrolled"
    BY <1>0, <1>9, <2>1 DEF SetEnrolled, At
  <2>3. PICK y : y = [x EXCEPT !.pc = "link"]
    OBVIOUS
  <2>4. /\ x.a \in Apps /\ y \in Request
        /\ y.pc = "link" /\ y.a = x.a /\ y.s = x.s
    BY <2>2, <2>3, RequestShape DEF Request, Idle
  <2>5. PICK a \in Apps : a = x.a
    BY <2>4
  <2>6. Applied(a) /\ app[a] \in AppRow
    BY <1>0, <2>2, <2>5 DEF Sound, Applied, TypeOK
  <2>7. /\ app'[a].status = "ENROLLED" /\ \A b \in Apps \ {a} : app'[b] = app[b]
        /\ Goto(r, y) /\ UNCHANGED <<student, made>>
    BY <1>0, <1>9, <2>1, <2>3, <2>5, <2>6 DEF SetEnrolled, TypeOK, AppRow
  <2>8. Works(x, a) /\ \A b \in Apps : Works(x, b) \/ Works(y, b) => b = a
    BY <2>2, <2>4, <2>5 DEF Works
  <2>9. Enters(r) /\ req'[r] = y
    BY <1>0, <2>1, <2>4, <2>7, <2>8, Leaves DEF Checking
  <2>10. AppsKept(r)
    BY <2>1, <2>7, <2>8 DEF AppsKept, Applied
  <2>11. Held(y)'
    BY <2>2, <2>4, <2>5, <2>7 DEF Held, Checking
  <2>12. Whole(a)'
    BY <2>4, <2>5, <2>9 DEF Whole
  <2>13. QED BY <2>1, <2>7, <2>8, <2>9, <2>10, <2>11, <2>12, SameStudents, MadeOnceKept DEF Frame, Establishes
<1>10. CASE LinkStudent(r)
  <2>1. PICK a \in Apps, s \in Students : a = req[r].a /\ s = req[r].s
    BY <1>0, <1>10, RequestShape DEF LinkStudent, At
  <2>2. /\ req[r].pc = "link" /\ Done(r) /\ UNCHANGED <<app, made>>
        /\ Applied(a) /\ app[a].status = "ENROLLED" /\ (~Faults => made[a] = {s})
    BY <1>0, <1>10, <2>1 DEF LinkStudent, At, Sound, Held
  <2>3. ASSUME Linkable(a, s)
        PROVE  /\ student'[s].of = a /\ student'[s].email = student[s].email
               /\ student'[s].roll = student[s].roll
               /\ student'[s] # NoRow /\ Present(s)
    <3>1. Present(s) /\ student[s] \in StudentRow
      BY <1>0, <2>3 DEF Linkable, Present, TypeOK
    <3>2. student' = [student EXCEPT ![s] = [student[s] EXCEPT !.of = a]]
      BY <1>10, <2>1, <2>3 DEF LinkStudent
    <3>3. [student[s] EXCEPT !.of = a] \in StudentRow
      BY <3>1 DEF StudentRow
    <3>4. QED BY <1>0, <3>1, <3>2, <3>3, RowKinds DEF TypeOK, StudentRow
  <2>4. ~Linkable(a, s) => UNCHANGED student
    BY <1>10, <2>1 DEF LinkStudent
  <2>5. \A t \in Students \ {s} : student'[t] = student[t]
    BY <1>0, <1>10, <2>1 DEF LinkStudent, TypeOK
  <2>6. NamesKept(r) /\ LinksKept(r)
    <3>1. CASE Linkable(a, s)
      BY <2>1, <2>2, <2>3, <2>5, <3>1 DEF NamesKept, LinksKept, SameName, Present
    <3>2. CASE ~Linkable(a, s)
      BY <2>4, <3>2, SameStudents
    <3>3. QED BY <3>1, <3>2
  <2>7. ASSUME ~Faults, Present(s)' PROVE student'[s].of = a
    <3>1. CASE Linkable(a, s)
      BY <2>3, <3>1
    <3>2. CASE ~Linkable(a, s)
      <4>1. Present(s)
        BY <2>4, <2>7, <3>2 DEF Present
      <4>2. PICK t \in Others(s) : student[t].of = a
        BY <3>2, <4>1 DEF Linkable
      <4>3. t \in Students /\ Present(t) /\ t # s /\ a # "NONE"
        BY <4>2, AdmissionsAssumption DEF Others
      <4>4. t \in made[a]
        BY <4>2, <4>3 DEF SerialInv, Inv, LinksAreOneToOne
      <4>5. QED BY <2>2, <2>7, <4>3, <4>4
    <3>3. QED BY <3>1, <3>2
  <2>8. ~Faults => Whole(a)'
    BY <2>2, <2>7 DEF Whole, Applied
  <2>9. \A b \in Apps : Works(req[r], b) => b = a
    BY <2>1 DEF Works
  <2>10. QED BY <1>2, <2>2, <2>6, <2>8, <2>9, SameApps, MadeOnceKept DEF Frame, Establishes
<1>11. CASE Die(r)
  <2>1. Done(r) /\ Faults /\ UNCHANGED <<app, student, made>>
    BY <1>11 DEF Die
  <2>2. QED BY <1>2, <2>1, SameStudents, SameApps, MadeOnceKept DEF Frame, Establishes
<1>12. QED BY <1>3, <1>4, <1>5, <1>6, <1>7, <1>8, <1>9, <1>10, <1>11 DEF Continue

LEMMA InitSerial == Init => SerialInv
BY InitInv
   DEF Init, SerialInv, Alone, Works, Held, Idle, Checking, Distinct, MadeOnce, Whole,
       Present

LEMMA NextSerial == ~MayOverlap => (SerialInv /\ [Next]_vars => SerialInv')
<1> SUFFICES ASSUME ~MayOverlap, SerialInv, [Next]_vars PROVE SerialInv'
  OBVIOUS
<1> UNCHANGED Faults
  BY DEF Next, vars, Faults
<1>1. Inv'
  BY NextInv DEF SerialInv
<1>2. ASSUME NEW r \in Reqs, Begin(r) \/ Continue(r) \/ Die(r) PROVE SerialInv'
  BY <1>1, <1>2, BeginStep, ContinueStep, SerialStep
<1>3. CASE UNCHANGED vars
  BY <1>1, <1>3
  DEF vars, SerialInv, Alone, Works, Held, Distinct, MadeOnce, Whole, Applied, Present,
      EmailFree, RollFree, Others
<1>4. QED BY <1>2, <1>3 DEF Next

\* Requests take turns in every state or in none: the invariant holds throughout.
LEMMA SerialInvariance == Spec => [](~MayOverlap => SerialInv)
<1>1. [Next]_vars => MayOverlap' = MayOverlap
  BY DEF Next, vars, MayOverlap
<1>2. (~MayOverlap => SerialInv) /\ [Next]_vars => (~MayOverlap => SerialInv)'
  BY <1>1, NextSerial
<1>3. Init => (~MayOverlap => SerialInv)
  BY InitSerial
<1>4. QED BY <1>2, <1>3, PTL DEF Spec

\* If requests that want the same address or number take turns, no two students
\* share one, whatever the spelling, even if requests die half-way.
THEOREM StudentsDistinct == Spec => []StudentsAreDistinct
<1>1. (~MayOverlap => SerialInv) => StudentsAreDistinct
  BY DEF SerialInv, Distinct, StudentsAreDistinct
<1>2. QED BY <1>1, SerialInvariance, PTL

\* If requests on one application take turns and none dies, an enrolment is
\* whole once nobody is at work on the application.
THEOREM EnrolmentWhole == Spec => []EnrolmentIsWhole
<1>1. (~MayOverlap => SerialInv) => EnrolmentIsWhole
  <2> SUFFICES ASSUME SerialInv, ~Faults, NEW a \in Apps, NEW s \in made[a], Untouched(a)
               PROVE  app[a].status = "ENROLLED" /\ (Present(s) => student[s].of = a)
    BY DEF EnrolmentIsWhole
  <2>1. Whole(a)
    BY DEF SerialInv
  <2>2. ASSUME NEW q \in Reqs, req[q].pc \in {"setEnrolled", "link"}, req[q].a = a PROVE FALSE
    <3>1. Works(req[q], a)
      BY <2>2 DEF Works
    <3>2. QED BY <3>1, WorksTouches DEF Untouched
  <2>3. QED BY <2>1, <2>2 DEF Whole
<1>2. QED BY <1>1, SerialInvariance, PTL

\* If requests on one application take turns and none dies, an application is
\* enrolled once.
THEOREM EnrolledAtMostOnce == Spec => []OneStudentPerApplication
<1>1. (~MayOverlap => SerialInv) => OneStudentPerApplication
  <2> SUFFICES ASSUME SerialInv, ~Faults, NEW a \in Apps PROVE Cardinality(made[a]) <= 1
    BY DEF OneStudentPerApplication, EnrolledOnce
  <2>1. made[a] = {} \/ \E s : made[a] = {s}
    <3>1. Whole(a)
      BY DEF SerialInv
    <3>2. ASSUME NEW q \in Reqs, req[q].pc \in {"setEnrolled", "link"}, req[q].a = a
          PROVE  made[a] = {req[q].s}
      BY <3>2 DEF SerialInv, Held
    <3>3. QED BY <3>1, <3>2 DEF Whole
  <2>2. CASE made[a] = {}
    BY <2>2, FS_EmptySet
  <2>3. CASE \E s : made[a] = {s}
    <3>1. PICK s : made[a] = {s}
      BY <2>3
    <3>2. Cardinality({s}) = 1
      BY FS_Singleton
    <3>3. QED BY <3>1, <3>2
  <2>4. QED BY <2>1, <2>2, <2>3
<1>2. QED BY <1>1, SerialInvariance, PTL

-----------------------------------------------------------------------------
\* The life cycle.

\* A step that writes the row of one application moves one status.
LEMMA StatusStep ==
  ASSUME ~MayOverlap, ~MayOverlap', NEW a \in Apps, \A b \in Apps \ {a} : app'[b] = app[b],
         NEW to, Applied(a)', app'[a].status = to
  PROVE  AppStatus' = [AppStatus EXCEPT ![a] = to]
<1>1. ASSUME NEW b \in Apps \ {a} PROVE AppStatus'[b] = AppStatus[b]
  BY <1>1 DEF AppStatus, Applied
<1>2. AppStatus'[a] = to
  BY DEF AppStatus
<1>3. QED BY <1>1, <1>2 DEF AppStatus

\* Such a step is one of the life cycle if its move is.
LEMMA MoveAllowed ==
  ASSUME NEW a \in Apps, NEW to, AppStatus' = [AppStatus EXCEPT ![a] = to],
         <<AppStatus[a], to>> \in Moves \cup {<<"NONE", "APPLIED">>}
  PROVE  Lifecycle!Next
<1>1. DOMAIN AppStatus = Apps
  BY DEF AppStatus
<1>2. AppStatus'[a] = to /\ \A b \in Apps \ {a} : AppStatus'[b] = AppStatus[b]
  BY <1>1
<1>3. AppStatus' = [b \in Apps |-> AppStatus'[b]]
  BY <1>1
<1>4. QED BY <1>2, <1>3 DEF Lifecycle!Next, Lifecycle!Allowed

LEMMA LifecycleStep ==
  ASSUME ~MayOverlap, ~MayOverlap', SerialInv, [Next]_vars
  PROVE  Lifecycle!Next \/ UNCHANGED AppStatus
<1>0. TypeOK
  BY DEF SerialInv, Inv
<1>1. CASE UNCHANGED app
  BY <1>1 DEF AppStatus, Applied
<1>2. ASSUME NEW r \in Reqs, Begin(r) \/ Die(r) PROVE UNCHANGED app
  BY <1>2
  DEF Begin, CreateApplication, UpdateApplication, AdvanceApplication, RejectApplication,
      WithdrawApplication, EnrollApplication, CreateStudent, UpdateStudent, DeleteStudent, Die
<1>3. ASSUME NEW r \in Reqs, CheckEmail(r) \/ CheckRoll(r) \/ StudentUpdate(r) \/ LinkStudent(r)
      PROVE  UNCHANGED app
  BY <1>3 DEF CheckEmail, CheckRoll, StudentUpdate, LinkStudent
<1>4. ASSUME NEW r \in Reqs, NEW s \in Students, StudentInsert(r, s) PROVE UNCHANGED app
  BY <1>4 DEF StudentInsert
<1>5. ASSUME NEW r \in Reqs, NEW a \in Apps, ApplicationInsert(r, a), ~UNCHANGED app
      PROVE  Lifecycle!Next
  <2>1. /\ app'[a].status = "APPLIED" /\ app'[a] # NoRow /\ ~Applied(a)
        /\ \A b \in Apps \ {a} : app'[b] = app[b]
    BY <1>0, <1>5 DEF ApplicationInsert, TypeOK, NoRow
  <2>2. AppStatus' = [AppStatus EXCEPT ![a] = "APPLIED"] /\ AppStatus[a] = "NONE"
    BY <2>1, StatusStep DEF Applied, AppStatus
  <2>3. QED BY <2>2, MoveAllowed
\* The three queries that write the row of an application that exists.
<1>6. ASSUME NEW r \in Reqs, ApplicationUpdate(r) \/ SetStatus(r) \/ SetEnrolled(r)
      PROVE  /\ req[r].a \in Apps /\ Applied(req[r].a) /\ app[req[r].a] \in AppRow
             /\ Held(req[r]) /\ req[r] \in Request
  <2>1. req[r] \in Request /\ Sound(req[r]) /\ Held(req[r])
    BY <1>0 DEF SerialInv, Inv, TypeOK
  <2>2. req[r].a \in Apps /\ Applied(req[r].a)
    BY <1>6, <2>1, RequestShape DEF ApplicationUpdate, SetStatus, SetEnrolled, At, Sound
  <2>3. QED BY <1>0, <2>1, <2>2 DEF TypeOK, Applied
<1>7. ASSUME NEW r \in Reqs, ApplicationUpdate(r), ~UNCHANGED app PROVE UNCHANGED AppStatus
  <2>1. PICK a \in Apps : a = req[r].a
    BY <1>6, <1>7
  <2> DEFINE row == [status |-> app[a].status, email |-> req[r].email, program |-> req[r].program]
  <2>2. /\ app'[a].status = app[a].status /\ app'[a] # NoRow /\ Applied(a)
        /\ \A b \in Apps \ {a} : app'[b] = app[b]
    <3>1. app' = [app EXCEPT ![a] = row]
      BY <1>7, <2>1 DEF ApplicationUpdate
    <3>2. row # NoRow /\ row.status = app[a].status
      BY DEF NoRow
    <3>3. QED BY <1>0, <1>6, <1>7, <2>1, <3>1, <3>2 DEF TypeOK
  <2>3. AppStatus' = [AppStatus EXCEPT ![a] = app[a].status] /\ AppStatus[a] = app[a].status
    BY <2>2, StatusStep DEF Applied, AppStatus
  <2>4. QED BY <2>3 DEF AppStatus
<1>8. ASSUME NEW r \in Reqs, SetStatus(r) PROVE Lifecycle!Next
  <2>1. PICK a \in Apps, to \in AdmissionStatus : a = req[r].a /\ to = req[r].status
    BY <1>6, <1>8, RequestShape DEF SetStatus, At
  <2>2. [app[a] EXCEPT !.status = to] \in AppRow /\ [app[a] EXCEPT !.status = to].status = to
    BY <1>6, <1>8, <2>1 DEF AppRow
  <2>3. /\ app'[a].status = to /\ app'[a] # NoRow /\ Applied(a)
        /\ \A b \in Apps \ {a} : app'[b] = app[b]
    BY <1>0, <1>6, <1>8, <2>1, <2>2, RowKinds DEF SetStatus, TypeOK
  <2>4. AppStatus' = [AppStatus EXCEPT ![a] = to] /\ AppStatus[a] = app[a].status
    BY <2>3, StatusStep DEF Applied, AppStatus
  <2>5. <<app[a].status, to>> \in Moves
    BY <1>6, <1>8, <2>1 DEF SetStatus, At, Held
  <2>6. QED BY <2>4, <2>5, MoveAllowed
<1>9. ASSUME NEW r \in Reqs, SetEnrolled(r) PROVE Lifecycle!Next
  <2>1. PICK a \in Apps : a = req[r].a
    BY <1>6, <1>9
  <2>2. /\ [app[a] EXCEPT !.status = "ENROLLED"] \in AppRow
        /\ [app[a] EXCEPT !.status = "ENROLLED"].status = "ENROLLED"
    BY <1>6, <1>9, <2>1 DEF AppRow, AdmissionStatus, TERMINAL_STATUSES
  <2>3. /\ app'[a].status = "ENROLLED" /\ app'[a] # NoRow /\ Applied(a)
        /\ \A b \in Apps \ {a} : app'[b] = app[b]
    BY <1>0, <1>6, <1>9, <2>1, <2>2, RowKinds DEF SetEnrolled, TypeOK
  <2>4. AppStatus' = [AppStatus EXCEPT ![a] = "ENROLLED"] /\ AppStatus[a] = app[a].status
    BY <2>3, StatusStep DEF Applied, AppStatus
  <2>5. app[a].status = "ACCEPTED" /\ <<"ACCEPTED", "ENROLLED">> \in Moves
    BY <1>6, <1>9, <2>1 DEF SetEnrolled, At, Held, Moves
  <2>6. QED BY <2>4, <2>5, MoveAllowed
<1>10. QED BY <1>1, <1>2, <1>3, <1>4, <1>5, <1>7, <1>8, <1>9 DEF Next, Continue, vars

\* If requests on one application take turns, its status follows the life cycle
\* and stops at a terminal status, even if requests die half-way: the
\* application table implements Workflow.
THEOREM StatusFollowsLifecycle == Spec => FollowsLifecycle
<1>1. Init => Lifecycle!Init
  BY DEF Init, Lifecycle!Init, AppStatus, Applied
<1>2. (~MayOverlap => SerialInv) /\ [Next]_vars => [Lifecycle!Next]_AppStatus
  <2> SUFFICES ASSUME ~MayOverlap => SerialInv, [Next]_vars
               PROVE  Lifecycle!Next \/ UNCHANGED AppStatus
    OBVIOUS
  <2>1. MayOverlap' = MayOverlap
    BY DEF Next, vars, MayOverlap
  <2>2. CASE MayOverlap
    BY <2>1, <2>2 DEF AppStatus
  <2>3. CASE ~MayOverlap
    BY <2>1, <2>3, LifecycleStep
  <2>4. QED BY <2>2, <2>3
<1>3. QED BY <1>1, <1>2, SerialInvariance, PTL DEF Spec, FollowsLifecycle, Lifecycle!Spec

-----------------------------------------------------------------------------
(***************************************************************************)
(* The applicant's address.  createStudent copies it from the application  *)
(* three queries before the application is marked, and both rows stay with *)
(* the enrolment until then.                                               *)
(***************************************************************************)
Copied(x) ==
    /\ x.pc \in Checking /\ x.s # "NEW"  => student[x.s] # NoRow
    /\ x.pc \in Checking /\ x.a # "NONE" => x.email = app[x.a].email
    /\ x.pc = "setEnrolled" => Present(x.s) /\ student[x.s].email = app[x.a].email

\* Nobody is about to rewrite a student whose enrolment is not finished.
Owned ==
    \A p, q \in Reqs :
      req[p].pc \in Checking /\ req[q].pc = "setEnrolled" => req[p].s # req[q].s

CopyInv == SerialInv /\ Owned /\ \A q \in Reqs : Copied(req[q])

\* A step of r rewrites the address of an application it works on, or of a
\* student it was asked to update, and deletes a student nobody holds.
AddressKept(r) ==
    /\ \A a \in Apps : Applied(a) /\ ~Works(req[r], a) => app'[a].email = app[a].email
    /\ \A s \in Students : Present(s) =>
         \/ Present(s)' /\ student'[s].email = student[s].email
         \/ req[r].pc = "writeStudent" /\ req[r].s = s
         \/ \A q \in Reqs : s \notin Touches(q)

\* r starts on a student nobody holds, and creates one nobody knows.
StartsAlone(r) ==
    /\ req'[r].pc \in Checking =>
         \/ req[r].pc \in Checking /\ req'[r].s = req[r].s
         \/ req'[r].s = "NEW"
         \/ \A q \in Reqs : req'[r].s \notin Touches(q)
    /\ req'[r].pc = "setEnrolled" =>
         \A q \in Reqs : req[q].pc \in Checking => req[q].s # req'[r].s

Copies(r) == Copied(req[r])' /\ AddressKept(r) /\ StartsAlone(r)

LEMMA CopiedKept ==
  ASSUME CopyInv, NEW r \in Reqs, Frame(r), AddressKept(r), NEW q \in Reqs, q # r
  PROVE  Copied(req[q])'
<1>1. PICK x : x = req[q]
  OBVIOUS
<1>2. x \in Request /\ Sound(x) /\ Copied(x) /\ req'[q] = x
  BY <1>1 DEF CopyInv, SerialInv, Inv, TypeOK, Frame, Enters
<1>3. ASSUME x.pc \in Checking \cup {"setEnrolled"}, x.a # "NONE"
      PROVE  app'[x.a].email = app[x.a].email
  <2>1. x.a \in Apps /\ Works(x, x.a) /\ Applied(x.a)
    BY <1>2, <1>3, RequestShape DEF Works, Sound, Checking
  <2>2. ~Works(req[r], x.a)
    BY <1>1, <2>1 DEF CopyInv, SerialInv, Alone
  <2>3. QED BY <2>1, <2>2 DEF AddressKept
<1>4. ASSUME x.pc \in Checking, x.s # "NEW" PROVE student'[x.s] # NoRow
  <2>1. x.s \in Students /\ student[x.s] # NoRow
    BY <1>2, <1>4, RequestShape DEF Copied
  <2>2. QED BY <2>1 DEF Frame, LinksKept
<1>5. ASSUME x.pc = "setEnrolled"
      PROVE  Present(x.s)' /\ student'[x.s].email = app'[x.a].email
  <2>1. x.s \in Students /\ Present(x.s) /\ student[x.s].email = app[x.a].email /\ x.a # "NONE"
    BY <1>2, <1>5, RequestShape, AdmissionsAssumption DEF Copied
  <2>2. x.s \in Touches(q)
    BY <1>1, <1>5 DEF Touches
  <2>3. ~(req[r].pc = "writeStudent" /\ req[r].s = x.s)
    BY <1>1, <1>5 DEF CopyInv, Owned, Checking
  <2>4. Present(x.s)' /\ student'[x.s].email = student[x.s].email
    BY <2>1, <2>2, <2>3 DEF AddressKept
  <2>5. QED BY <1>3, <1>5, <2>1, <2>4
<1>6. Copied(x)'
  BY <1>2, <1>3, <1>4, <1>5 DEF Copied, Checking
<1>7. QED BY <1>2, <1>6

LEMMA OwnedKept ==
  ASSUME CopyInv, NEW r \in Reqs, Frame(r), StartsAlone(r), Copied(req[r])', Inv'
  PROVE  Owned'
<1>1. \A q \in Reqs \ {r} : req'[q] = req[q]
  BY DEF Frame, Enters
<1>2. ASSUME NEW q \in Reqs \ {r}, req'[r].pc \in Checking, req[q].pc = "setEnrolled"
      PROVE  req'[r].s # req[q].s
  <2>1. req[q].s \in Students /\ req[q].s \in Touches(q) /\ req[q].s # "NEW"
    BY <1>2, RequestShape, AdmissionsAssumption DEF CopyInv, SerialInv, Inv, TypeOK, Touches
  <2>2. QED BY <1>2, <2>1 DEF StartsAlone, CopyInv, Owned
<1>3. ASSUME NEW p \in Reqs \ {r}, req[p].pc \in Checking, req'[r].pc = "setEnrolled"
      PROVE  req[p].s # req'[r].s
  BY <1>3 DEF StartsAlone
<1>4. ASSUME NEW p \in Reqs, NEW q \in Reqs, req'[p].pc \in Checking, req'[q].pc = "setEnrolled"
      PROVE  req'[p].s # req'[q].s
  <2>1. p # q
    BY <1>4 DEF Checking
  <2>2. CASE p = r
    BY <1>1, <1>2, <1>4, <2>1, <2>2
  <2>3. CASE q = r
    BY <1>1, <1>3, <1>4, <2>1, <2>3
  <2>4. CASE p # r /\ q # r
    BY <1>1, <1>4, <2>4 DEF CopyInv, Owned
  <2>5. QED BY <2>2, <2>3, <2>4
<1>5. QED BY <1>4 DEF Owned

\* A query that writes no address.
LEMMA CopyRead ==
  ASSUME TypeOK, NEW r \in Reqs, UNCHANGED <<app, student>>, NEW x \in Request, Goto(r, x),
         Copied(x), x.pc # "setEnrolled",
         x.pc \in Checking =>
           \/ req[r].pc \in Checking /\ x.s = req[r].s
           \/ x.s = "NEW"
           \/ \A q \in Reqs : x.s \notin Touches(q)
  PROVE  Copies(r)
<1>1. req'[r] = x
  BY RequestStep
<1>2. Copied(x)'
  BY DEF Copied, Present
<1>3. AddressKept(r)
  BY DEF AddressKept, Present
<1>4. StartsAlone(r)
  BY <1>1 DEF StartsAlone
<1>5. QED BY <1>1, <1>2, <1>3, <1>4 DEF Copies

\* The answer to a query that kept the addresses of others.
LEMMA CopyDone ==
  ASSUME TypeOK, NEW r \in Reqs, Done(r), AddressKept(r)
  PROVE  Copies(r)
<1>1. Idle \in Request /\ req'[r] = Idle
  BY IdleStep, RequestStep
<1>2. Idle.pc = "idle" /\ Idle.pc \notin Checking
  BY DEF Idle, Checking
<1>3. Copied(Idle)' /\ StartsAlone(r)
  BY <1>1, <1>2 DEF Copied, StartsAlone
<1>4. QED BY <1>1, <1>3 DEF Copies

LEMMA CopyBegin ==
  ASSUME CopyInv, ~MayOverlap, NEW r \in Reqs, Begin(r)
  PROVE  Copies(r)
<1>0. TypeOK
  BY DEF CopyInv, SerialInv, Inv
<1>1. ASSUME NEW e \in Emails, NEW p \in Programs, CreateApplication(r, e, p) PROVE Copies(r)
  <2> DEFINE x == [pc |-> "insertApp", email |-> e, program |-> p]
  <2>1. x \in Request /\ x.pc = "insertApp" /\ x.pc \notin Checking
    BY DEF Request, Checking
  <2>2. Copied(x)
    BY <2>1 DEF Copied
  <2>3. QED BY <1>0, <1>1, <2>1, <2>2, CopyRead DEF CreateApplication
<1>2. ASSUME NEW e \in Emails, NEW p \in Programs, NEW a \in Apps, UpdateApplication(r, a, e, p)
      PROVE  Copies(r)
  <2> DEFINE x == [pc |-> "updateApp", a |-> a, email |-> e, program |-> p]
  <2>1. x \in Request /\ x.pc = "updateApp" /\ x.pc \notin Checking
    BY DEF Request, Checking
  <2>2. Copied(x)
    BY <2>1 DEF Copied
  <2>3. QED BY <1>0, <1>2, <2>1, <2>2, CopyRead DEF UpdateApplication
<1>3. ASSUME NEW a \in Apps, NEW status \in AdmissionStatus, UNCHANGED <<app, student>>,
             Goto(r, [pc |-> "setStatus", a |-> a, status |-> status])
      PROVE  Copies(r)
  <2> DEFINE x == [pc |-> "setStatus", a |-> a, status |-> status]
  <2>1. x \in Request /\ x.pc = "setStatus" /\ x.pc \notin Checking
    BY DEF Request, Checking
  <2>2. Copied(x)
    BY <2>1 DEF Copied
  <2>3. QED BY <1>0, <1>3, <2>1, <2>2, CopyRead
<1>4. ASSUME NEW a \in Apps, AdvanceApplication(r, a) PROVE Copies(r)
  <2>1. app[a] \in AppRow /\ app[a].status \in Stages /\ app[a].status # "ACCEPTED"
    BY <1>0, <1>4 DEF AdvanceApplication, Advanceable, Open, Applied, Terminal, TypeOK, AppRow,
                      AdmissionStatus
  <2>2. NextStage(app[a].status) \in AdmissionStatus
    BY <2>1, NextStageType DEF AdmissionStatus
  <2>3. QED BY <1>3, <1>4, <2>2 DEF AdvanceApplication
<1>5. ASSUME NEW a \in Apps, RejectApplication(r, a) \/ WithdrawApplication(r, a) PROVE Copies(r)
  <2>1. {"REJECTED", "WITHDRAWN"} \subseteq AdmissionStatus
    BY DEF AdmissionStatus, TERMINAL_STATUSES
  <2>2. QED BY <1>3, <1>5, <2>1 DEF RejectApplication, WithdrawApplication
<1>6. ASSUME NEW s \in Students \cup {"NEW"}, NEW a \in Apps \cup {"NONE"}, NEW e \in Emails,
             NEW roll \in Rolls, UNCHANGED <<app, student>>,
             s # "NEW" => Present(s) /\ \A q \in Reqs : s \notin Touches(q),
             a # "NONE" => e = app[a].email,
             Goto(r, [pc |-> "checkEmail", s |-> s, a |-> a, email |-> e, roll |-> roll])
      PROVE  Copies(r)
  <2> DEFINE x == [pc |-> "checkEmail", s |-> s, a |-> a, email |-> e, roll |-> roll]
  <2>1. x \in Request
    BY DEF Request
  <2>2. Copied(x)
    BY <1>6 DEF Copied, Present
  <2>3. QED BY <1>0, <1>6, <2>1, <2>2, CopyRead
<1>7. ASSUME NEW a \in Apps, NEW roll \in Rolls, EnrollApplication(r, a, roll) PROVE Copies(r)
  <2>1. app[a].email \in Emails
    BY <1>0, <1>7 DEF EnrollApplication, Enrollable, Applied, TypeOK, AppRow
  <2>2. QED BY <1>6, <1>7, <2>1 DEF EnrollApplication
<1>8. ASSUME NEW e \in Emails, NEW roll \in Rolls, CreateStudent(r, e, roll) PROVE Copies(r)
  BY <1>6, <1>8 DEF CreateStudent
<1>9. ASSUME NEW s \in Students, NEW e \in Emails, NEW roll \in Rolls, UpdateStudent(r, s, e, roll)
      PROVE  Copies(r)
  BY <1>6, <1>9 DEF UpdateStudent, MayStart
<1>10. ASSUME NEW s \in Students, DeleteStudent(r, s) PROVE Copies(r)
  <2>1. /\ \A t \in Students \ {s} : student'[t] = student[t]
        /\ UNCHANGED <<app, req>> /\ req[r] = Idle
        /\ \A q \in Reqs : s \notin Touches(q)
    BY <1>0, <1>10 DEF DeleteStudent, MayStart, TypeOK
  <2>2. AddressKept(r)
    BY <2>1 DEF AddressKept, Present
  <2>3. req'[r] = Idle /\ Idle.pc = "idle" /\ Idle.pc \notin Checking
    BY <2>1 DEF Idle, Checking
  <2>4. Copied(Idle)' /\ StartsAlone(r)
    BY <2>3 DEF Copied, StartsAlone
  <2>5. QED BY <2>2, <2>3, <2>4 DEF Copies
<1>11. QED BY <1>1, <1>2, <1>4, <1>5, <1>7, <1>8, <1>9, <1>10 DEF Begin

LEMMA CopyContinue ==
  ASSUME CopyInv, NEW r \in Reqs, Continue(r) \/ Die(r)
  PROVE  Copies(r)
<1>0. TypeOK /\ req[r] \in Request /\ Sound(req[r]) /\ Copied(req[r])
  BY DEF CopyInv, SerialInv, Inv, TypeOK
<1>1. ASSUME Done(r), UNCHANGED <<app, student>> PROVE Copies(r)
  <2>1. AddressKept(r)
    BY <1>1 DEF AddressKept, Present
  <2>2. QED BY <1>0, <1>1, <2>1, CopyDone
\* A query that writes the row of an application r works on, or a new one.
<1>2. ASSUME NEW a \in Apps, Works(req[r], a) \/ ~Applied(a), UNCHANGED student,
             \A b \in Apps \ {a} : app'[b] = app[b]
      PROVE  AddressKept(r)
  BY <1>2 DEF AddressKept, Present
<1>3. ASSUME NEW a \in Apps, ApplicationInsert(r, a) PROVE Copies(r)
  <2>1. /\ ~Applied(a) /\ UNCHANGED student /\ Done(r)
        /\ \A b \in Apps \ {a} : app'[b] = app[b]
    BY <1>0, <1>3 DEF ApplicationInsert, TypeOK
  <2>2. QED BY <1>0, <1>2, <2>1, CopyDone
<1>4. CASE ApplicationUpdate(r)
  <2>1. PICK a \in Apps : a = req[r].a
    BY <1>0, <1>4, RequestShape DEF ApplicationUpdate, At
  <2>2. /\ Works(req[r], a) /\ UNCHANGED student /\ Done(r)
        /\ \A b \in Apps \ {a} : app'[b] = app[b]
    BY <1>0, <1>4, <2>1 DEF ApplicationUpdate, At, Works, TypeOK
  <2>3. QED BY <1>0, <1>2, <2>2, CopyDone
<1>5. CASE SetStatus(r)
  <2>1. PICK a \in Apps : a = req[r].a
    BY <1>0, <1>5, RequestShape DEF SetStatus, At
  <2>2. /\ Works(req[r], a) /\ UNCHANGED student /\ Done(r)
        /\ \A b \in Apps \ {a} : app'[b] = app[b]
    BY <1>0, <1>5, <2>1 DEF SetStatus, At, Works, TypeOK
  <2>3. QED BY <1>0, <1>2, <2>2, CopyDone
<1>6. CASE CheckEmail(r) \/ CheckRoll(r)
  <2>1. req[r].pc \in Checking /\ UNCHANGED <<app, student>>
    BY <1>6 DEF CheckEmail, CheckRoll, At, Checking
  <2>2. Done(r) \/ \E l \in {"checkRoll", "writeStudent"} : Goto(r, [req[r] EXCEPT !.pc = l])
    BY <1>6 DEF CheckEmail, CheckRoll
  <2>3. ASSUME NEW l \in {"checkRoll", "writeStudent"}, Goto(r, [req[r] EXCEPT !.pc = l])
        PROVE  Copies(r)
    <3>1. l \in Checking
      BY DEF Checking
    <3>2. PICK x : x = [req[r] EXCEPT !.pc = l]
      OBVIOUS
    <3>3. x \in Request /\ x.pc = l /\ x.s = req[r].s /\ x.a = req[r].a /\ x.email = req[r].email
      <4>1. x \in Request
        BY <1>0, <2>1, <3>1, <3>2, RequestShape
      <4>2. x.pc = l /\ x.s = req[r].s /\ x.a = req[r].a /\ x.email = req[r].email
        BY <1>0, <2>1, <3>2 DEF Request, Checking, Idle
      <4>3. QED BY <4>1, <4>2
    <3>4. Copied(x)
      BY <1>0, <2>1, <3>1, <3>3 DEF Copied, Checking
    <3>5. x.pc # "setEnrolled"
      BY <3>3
    <3>6. QED BY <1>0, <2>1, <2>3, <3>2, <3>3, <3>4, <3>5, CopyRead
  <2>4. QED BY <1>1, <2>1, <2>2, <2>3
<1>7. ASSUME NEW s \in Students, StudentInsert(r, s) PROVE Copies(r)
  <2>1. /\ req[r].pc = "writeStudent" /\ req[r].pc \in Checking /\ student[s] = NoRow
        /\ UNCHANGED app /\ \A t \in Students \ {s} : student'[t] = student[t]
    BY <1>0, <1>7 DEF StudentInsert, At, Checking, TypeOK
  <2>2. AddressKept(r)
    BY <2>1 DEF AddressKept, Present
  <2>3. CASE Done(r)
    BY <1>0, <2>2, <2>3, CopyDone
  <2>4. CASE ~Done(r)
    <3>1. PICK a \in Apps : a = req[r].a
      BY <1>0, <1>7, <2>1, <2>4, RequestShape DEF StudentInsert
    <3>2. PICK row : row = [email |-> req[r].email, roll |-> req[r].roll, of |-> "NONE"]
      OBVIOUS
    <3>3. a # "NONE" /\ student' = [student EXCEPT ![s] = row]
      BY <1>7, <2>4, <3>1, <3>2 DEF StudentInsert
    <3>4. req'[r] = [pc |-> "setEnrolled", a |-> a, s |-> s]
      BY <1>0, <1>7, <2>4, <3>1 DEF StudentInsert, Goto, TypeOK
    <3>5. row \in StudentRow /\ row.email = app[a].email
      BY <1>0, <2>1, <3>1, <3>2, <3>3, RequestShape DEF StudentRow, Copied
    <3>6. student'[s] = row /\ row \notin {NoRow, Deleted}
      BY <1>0, <3>3, <3>5, RowKinds DEF TypeOK
    <3>7. Copied(req[r])'
      BY <2>1, <3>4, <3>5, <3>6 DEF Copied, Present, Checking
    <3>8. ASSUME NEW q \in Reqs, req[q].pc \in Checking PROVE req[q].s # s
      BY <2>1, <3>8, AdmissionsAssumption DEF CopyInv, Copied
    <3>9. StartsAlone(r)
      BY <3>4, <3>8 DEF StartsAlone, Checking
    <3>10. QED BY <2>2, <3>7, <3>9 DEF Copies
  <2>5. QED BY <2>3, <2>4
<1>8. CASE StudentUpdate(r)
  <2>1. PICK s : s = req[r].s
    OBVIOUS
  <2>2. /\ req[r].pc = "writeStudent" /\ UNCHANGED app /\ Done(r)
        /\ \A t \in Students \ {s} : student'[t] = student[t]
    BY <1>0, <1>8, <2>1 DEF StudentUpdate, At, TypeOK
  <2>3. AddressKept(r)
    BY <2>1, <2>2 DEF AddressKept, Present
  <2>4. QED BY <1>0, <2>2, <2>3, CopyDone
<1>9. CASE SetEnrolled(r)
  <2>1. PICK a \in Apps : a = req[r].a
    BY <1>0, <1>9, RequestShape DEF SetEnrolled, At
  <2>2. /\ Works(req[r], a) /\ UNCHANGED student
        /\ \A b \in Apps \ {a} : app'[b] = app[b]
    BY <1>0, <1>9, <2>1 DEF SetEnrolled, At, Works, TypeOK
  <2>3. PICK x \in Request : x = [req[r] EXCEPT !.pc = "link"]
    BY <1>0, <1>9, RequestShape DEF SetEnrolled, At
  <2>4. req'[r] = x /\ x.pc = "link"
    <3>1. req'[r] = x
      BY <1>0, <1>9, <2>3, RequestStep DEF SetEnrolled
    <3>2. x.pc = "link"
      BY <1>0, <1>9, <2>3 DEF SetEnrolled, At, Request, Idle
    <3>3. QED BY <3>1, <3>2
  <2>5. Copied(req[r])' /\ StartsAlone(r)
    BY <2>4 DEF Copied, StartsAlone, Checking
  <2>6. QED BY <1>2, <2>2, <2>5 DEF Copies
<1>10. CASE LinkStudent(r)
  <2>1. PICK s \in Students : s = req[r].s
    BY <1>0, <1>10, RequestShape DEF LinkStudent, At
  <2>2. /\ UNCHANGED app /\ Done(r)
        /\ \A t \in Students \ {s} : student'[t] = student[t]
    BY <1>0, <1>10, <2>1 DEF LinkStudent, TypeOK
  <2>3. Present(s) => Present(s)' /\ student'[s].email = student[s].email
    <3>1. CASE student' = student
      BY <3>1 DEF Present
    <3>2. CASE Present(s) /\ student' = [student EXCEPT ![s].of = req[r].a]
      <4>1. student[s] \in StudentRow /\ req[r].a \in Apps
        BY <1>0, <1>10, <3>2, RequestShape DEF LinkStudent, At, TypeOK, Present
      <4>2. PICK row : row = [student[s] EXCEPT !.of = req[r].a]
        OBVIOUS
      <4>3. row \in StudentRow /\ row.email = student[s].email
        BY <4>1, <4>2 DEF StudentRow
      <4>4. student'[s] = row
        BY <1>0, <3>2, <4>2 DEF TypeOK
      <4>5. QED BY <4>3, <4>4, RowKinds DEF Present
    <3>3. QED BY <1>10, <2>1, <3>1, <3>2 DEF LinkStudent, Linkable
  <2>4. AddressKept(r)
    BY <2>2, <2>3 DEF AddressKept, Present
  <2>5. QED BY <1>0, <2>2, <2>4, CopyDone
<1>11. CASE Die(r)
  BY <1>1, <1>11 DEF Die
<1>12. QED BY <1>3, <1>4, <1>5, <1>6, <1>7, <1>8, <1>9, <1>10, <1>11 DEF Continue

LEMMA NextCopy == ~MayOverlap => (CopyInv /\ [Next]_vars => CopyInv')
<1> SUFFICES ASSUME ~MayOverlap, CopyInv, [Next]_vars PROVE CopyInv'
  OBVIOUS
<1>1. SerialInv'
  BY NextSerial DEF CopyInv
<1>2. ASSUME NEW r \in Reqs, Begin(r) \/ Continue(r) \/ Die(r), UNCHANGED mode PROVE CopyInv'
  <2>1. Frame(r)
    BY <1>2, BeginStep, ContinueStep DEF CopyInv, Faults
  <2>2. Copies(r)
    BY <1>2, CopyBegin, CopyContinue
  <2>3. Owned'
    BY <1>1, <2>1, <2>2, OwnedKept DEF Copies, SerialInv
  <2>4. \A q \in Reqs : Copied(req[q])'
    BY <2>1, <2>2, CopiedKept DEF Copies
  <2>5. QED BY <1>1, <2>3, <2>4 DEF CopyInv
<1>3. CASE UNCHANGED vars
  <2>1. Owned'
    BY <1>3 DEF vars, CopyInv, Owned
  <2>2. \A q \in Reqs : Copied(req[q])'
    BY <1>3 DEF vars, CopyInv, Copied, Present
  <2>3. QED BY <1>1, <2>1, <2>2 DEF CopyInv
<1>4. QED BY <1>2, <1>3 DEF Next

LEMMA CopyInvariance == Spec => [](~MayOverlap => CopyInv)
<1>1. [Next]_vars => MayOverlap' = MayOverlap
  BY DEF Next, vars, MayOverlap
<1>2. (~MayOverlap => CopyInv) /\ [Next]_vars => (~MayOverlap => CopyInv)'
  BY <1>1, NextCopy
<1>3. Init => (~MayOverlap => CopyInv)
  BY InitSerial DEF Init, CopyInv, Owned, Copied, Idle, Checking
<1>4. QED BY <1>2, <1>3, PTL DEF Spec

\* If requests on one application or one student take turns, an application
\* becomes ENROLLED only while a student created for it is there under the
\* address the application shows, even if requests die half-way.
THEOREM AddressCopied == Spec => EnrolledAsApplied
<1> DEFINE Becomes(a) ==
      Applied(a) /\ app[a].status # "ENROLLED" /\ app'[a].status = "ENROLLED"
<1> DEFINE AsApplied ==
      \A a \in Apps :
        Becomes(a) => \E s \in made[a] : Present(s) /\ student[s].email = app[a].email
<1>1. (~MayOverlap => CopyInv) /\ [Next]_vars => [~MayOverlap => AsApplied]_vars
  <2> SUFFICES ASSUME CopyInv, Next, NEW a \in Apps, Becomes(a)
               PROVE  \E s \in made[a] : Present(s) /\ student[s].email = app[a].email
    OBVIOUS
  <2>1. PICK r \in Reqs : Begin(r) \/ Continue(r) \/ Die(r)
    BY DEF Next
  <2>2. TypeOK /\ req[r] \in Request /\ Sound(req[r]) /\ Copied(req[r])
    BY DEF CopyInv, SerialInv, Inv, TypeOK
  <2>3. app'[a] # app[a]
    OBVIOUS
  <2>4. ~ApplicationUpdate(r)
    <3>1. SUFFICES ASSUME ApplicationUpdate(r) PROVE app'[a].status = app[a].status
      OBVIOUS
    <3>2. QED BY <2>2, <3>1 DEF ApplicationUpdate, TypeOK
  <2>5. ~SetStatus(r)
    <3>1. SUFFICES ASSUME SetStatus(r) PROVE FALSE
      OBVIOUS
    <3>2. req[r].pc = "setStatus" /\ req[r].status # "ENROLLED" /\ app[a] \in AppRow
      BY <2>2, <3>1 DEF SetStatus, At, Sound, TypeOK, Applied
    <3>3. QED BY <2>2, <2>3, <3>1, <3>2 DEF SetStatus, TypeOK, AppRow
  <2>6. \A b \in Apps : ~ApplicationInsert(r, b)
    <3>1. SUFFICES ASSUME NEW b \in Apps, ApplicationInsert(r, b) PROVE app'[a] = app[a]
      BY <2>3
    <3>2. QED BY <2>2, <3>1 DEF ApplicationInsert, TypeOK
  <2>7. SetEnrolled(r)
    BY <2>1, <2>3, <2>4, <2>5, <2>6
    DEF Begin, Continue, Die, CreateApplication, UpdateApplication, AdvanceApplication,
        RejectApplication, WithdrawApplication, EnrollApplication, CreateStudent, UpdateStudent,
        DeleteStudent, CheckEmail, CheckRoll, StudentInsert, StudentUpdate, LinkStudent
  <2>8. req[r].pc = "setEnrolled" /\ req[r].a = a
    BY <2>2, <2>3, <2>7 DEF SetEnrolled, At, TypeOK
  <2>9. req[r].s \in made[a] /\ Present(req[r].s) /\ student[req[r].s].email = app[a].email
    BY <2>2, <2>8 DEF Sound, Copied
  <2>10. QED BY <2>9
<1>2. QED BY <1>1, CopyInvariance, PTL DEF Spec, EnrolledAsApplied

-----------------------------------------------------------------------------
\* Together: however requests overlap and die, ENROLLED comes from a student
\* created and links are one to one.
THEOREM LinksAndStatusCorrect == Spec => []LinksSound
BY TypeCorrect, EnrolledCreatesStudent, LinksCorrect, PTL DEF LinksSound

\* Together: what enrolments leave behind, under the condition each part names.
THEOREM EnrolmentCorrect == Spec => []EnrolmentSound
BY StudentsDistinct, EnrolmentWhole, EnrolledAtMostOnce, PTL DEF EnrolmentSound

=============================================================================
