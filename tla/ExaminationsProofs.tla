-------------------------- MODULE ExaminationsProofs --------------------------
(***************************************************************************)
(* Proofs about Examinations, for any sets of requests, exams, schedules,  *)
(* subjects, students and values; and, in the section on audiences, about  *)
(* Audience, for any college.                                              *)
(***************************************************************************)
EXTENDS Examinations, MCResults, TLAPS

OnExam     == {"insertSchedule", "deleteExam"}
OnSchedule == {"updateSchedule", "deleteSchedule", "enter", "upsert", "move", "edit", "revise",
               "logRevision"}
OnEntry    == {"upsert", "edit", "revise", "logRevision"}

LEMMA RequestShape ==
  ASSUME NEW x \in Request
  PROVE  /\ x.pc \in {"idle"} \cup OnExam \cup OnSchedule
         /\ x.pc \in OnExam => x.e \in Exams
         /\ x.pc \in OnSchedule => x.s \in Schedules
         /\ x.pc \in OnEntry => x.st \in Students /\ x.value \in Values
         /\ x.pc \in {"insertSchedule", "updateSchedule"} => x.subject \in Subjects
         /\ x.pc \in {"enter", "upsert"} => x.todo \in SUBSET Students
         /\ x.pc = "move" => x.from \in MarksStatus \ {"PUBLISHED"}
         /\ x.pc = "revise" => [x EXCEPT !.pc = "logRevision"] \in Request
BY DEF Request, Idle, OnExam, OnSchedule, OnEntry

LEMMA RequestStep ==
  ASSUME TypeOK, NEW r \in Reqs, NEW x \in Request, Goto(r, x)
  PROVE  /\ req' \in [Reqs -> Request]
         /\ req'[r] = x
         /\ \A q \in Reqs \ {r} : req'[q] = req[q]
BY DEF TypeOK, Goto

LEMMA IdleStep ==
  ASSUME TypeOK, NEW r \in Reqs, Done(r)
  PROVE  Idle \in Request /\ Goto(r, Idle)
BY DEF Done, Request, Idle

LEMMA RowKinds ==
  /\ \A row \in MarksRow : row # NoRow
  /\ \A row \in ScheduleRow : row # NoRow /\ row # Deleted
  /\ NoRow # Deleted
BY DEF MarksRow, ScheduleRow, NoRow, Deleted

LEMMA EntryPair ==
  /\ \A s \in Schedules, st \in Students : <<s, st>> \in Entries /\ <<s, st>>[1] = s
  /\ \A m \in Entries : m[1] \in Schedules /\ m[2] \in Students /\ m = <<m[1], m[2]>>
BY DEF Entries

\* The exam or schedule a request is about.
Rows(x) == IF x.pc \in OnExam THEN {x.e} ELSE IF x.pc \in OnSchedule THEN {x.s} ELSE {}

LEMMA TouchesRows == \A q \in Reqs : Touches(q) = Rows(req[q])
BY DEF Touches, Rows, OnExam, OnSchedule

Published(m) == Entered(m) /\ marks[m].status = "PUBLISHED"

\* What a request has found out and nobody else changes while requests on one
\* exam or schedule take turns.
Held(x) ==
    /\ x.pc = "deleteExam" => OfExam(x.e) = {}
    /\ x.pc = "deleteSchedule" => Unmarked(x.s)
    /\ x.pc = "upsert" => Enterable(<<x.s, x.st>>)
    /\ x.pc = "edit" => Editable(<<x.s, x.st>>)
    /\ x.pc \in {"revise", "logRevision"} => Published(<<x.s, x.st>>)
    /\ x.pc = "logRevision" => marks[<<x.s, x.st>>].value = x.value

-----------------------------------------------------------------------------
\* Requests that overlap and die as they like: types and foreign keys.

Inv == TypeOK /\ NoOrphans

\* A query that writes nothing.
LEMMA ReadStep ==
  ASSUME Inv, NEW r \in Reqs, UNCHANGED <<exam, schedule, marks, trail>>,
         req' \in [Reqs -> Request]
  PROVE  Inv'
BY DEF Inv, TypeOK, NoOrphans, Present, Entered

\* A query that writes marks: new entries hang under a schedule that is there.
LEMMA MarksStep ==
  ASSUME Inv, UNCHANGED <<exam, schedule>>, req' \in [Reqs -> Request],
         marks' \in [Entries -> MarksRow \cup {NoRow}], trail' \in [Entries -> Values \cup {"NONE"}],
         \A m \in Entries : Entered(m)' => Entered(m) \/ Present(m[1])
  PROVE  Inv'
<1>1. TypeOK'
  BY DEF Inv, TypeOK
<1>2. NoOrphans'
  BY DEF Inv, NoOrphans, Present
<1>3. QED BY <1>1, <1>2 DEF Inv

\* A query that writes one schedule row under an exam that is there.
LEMMA ScheduleStep ==
  ASSUME Inv, UNCHANGED <<exam, marks, trail>>, req' \in [Reqs -> Request],
         NEW s \in Schedules, NEW row \in ScheduleRow, schedule' = [schedule EXCEPT ![s] = row],
         exam[row.exam] = "present"
  PROVE  Inv'
<1>1. schedule'[s] = row /\ \A t \in Schedules \ {s} : schedule'[t] = schedule[t]
  BY DEF Inv, TypeOK
<1>2. TypeOK'
  BY DEF Inv, TypeOK
<1>3. \A t \in Schedules : Present(t) => Present(t)'
  BY <1>1, RowKinds DEF Present
<1>4. \A t \in Schedules : Present(t)' => exam'[schedule'[t].exam] = "present"
  BY <1>1 DEF Inv, NoOrphans, Present
<1>5. \A m \in Entries : Entered(m)' => Present(m[1])'
  BY <1>3, EntryPair DEF Inv, NoOrphans, Entered
<1>6. QED BY <1>2, <1>4, <1>5 DEF Inv, NoOrphans

\* A delete that cascades to every schedule of an exam that goes.
LEMMA CascadeStep ==
  ASSUME Inv, req' \in [Reqs -> Request], NEW gone \in SUBSET Schedules, Cascade(gone),
         exam' \in [Exams -> {"absent", "present", "deleted"}],
         \A s \in Schedules \ gone : Present(s) => exam'[schedule[s].exam] = "present"
  PROVE  Inv'
<1>1. TypeOK'
  <2>1. schedule' \in [Schedules -> ScheduleRow \cup {NoRow, Deleted}]
    BY DEF Cascade, Inv, TypeOK
  <2>2. marks' \in [Entries -> MarksRow \cup {NoRow}]
    BY DEF Cascade, Inv, TypeOK
  <2>3. trail' \in [Entries -> Values \cup {"NONE"}]
    BY DEF Cascade, Inv, TypeOK
  <2>4. QED BY <2>1, <2>2, <2>3 DEF TypeOK
<1>2. ASSUME NEW s \in Schedules
      PROVE  /\ s \in gone => ~Present(s)'
             /\ s \notin gone => schedule'[s] = schedule[s]
  BY DEF Cascade, Present
<1>3. \A s \in Schedules : Present(s)' => exam'[schedule'[s].exam] = "present"
  BY <1>2 DEF Present
<1>4. ASSUME NEW m \in Entries, Entered(m)' PROVE Present(m[1])'
  <2>1. m[1] \notin gone /\ Entered(m)
    BY <1>4 DEF Cascade, Entered
  <2>2. Present(m[1])
    BY <2>1 DEF Inv, NoOrphans
  <2>3. QED BY <1>2, <2>1, <2>2, EntryPair DEF Present
<1>5. QED BY <1>1, <1>3, <1>4 DEF Inv, NoOrphans

LEMMA InitInv == Init => Inv
BY RowKinds, EntryPair DEF Init, Inv, TypeOK, NoOrphans, Request, Idle, Present, Entered

\* Every handler but createExam starts with a read that lets it go on.
Starts(r, x) ==
    /\ req[r] = Idle
    /\ Goto(r, x)
    /\ UNCHANGED <<exam, schedule, marks, trail>>
    /\ \E k : Rows(x) = {k} /\ MayStart(r, k)
    /\ Held(x)

LEMMA BeginCases ==
  ASSUME NEW r \in Reqs, Begin(r)
  PROVE  (\E e \in Exams : CreateExam(r, e)) \/ (\E x \in Request : Starts(r, x))
<1>1. ASSUME NEW e \in Exams, DeleteExam(r, e) PROVE \E x \in Request : Starts(r, x)
  <2> DEFINE x == [pc |-> "deleteExam", e |-> e]
  <2>1. x \in Request /\ Rows(x) = {e}
    BY DEF Request, Rows, OnExam
  <2>2. QED BY <1>1, <2>1 DEF DeleteExam, MayStart, Starts, Held
<1>2. ASSUME NEW e \in Exams, NEW u \in Subjects, CreateSchedule(r, e, u)
      PROVE  \E x \in Request : Starts(r, x)
  <2> DEFINE x == [pc |-> "insertSchedule", e |-> e, subject |-> u]
  <2>1. x \in Request /\ Rows(x) = {e}
    BY DEF Request, Rows, OnExam
  <2>2. QED BY <1>2, <2>1 DEF CreateSchedule, MayStart, Starts, Held
<1>3. ASSUME NEW s \in Schedules, DeleteSchedule(r, s) PROVE \E x \in Request : Starts(r, x)
  <2> DEFINE x == [pc |-> "deleteSchedule", s |-> s]
  <2>1. x \in Request /\ Rows(x) = {s}
    BY DEF Request, Rows, OnExam, OnSchedule
  <2>2. QED BY <1>3, <2>1 DEF DeleteSchedule, MayStart, Starts, Held
<1>4. ASSUME NEW s \in Schedules, NEW u \in Subjects, UpdateSchedule(r, s, u)
      PROVE  \E x \in Request : Starts(r, x)
  <2> DEFINE x == [pc |-> "updateSchedule", s |-> s, subject |-> u]
  <2>1. x \in Request /\ Rows(x) = {s}
    BY DEF Request, Rows, OnExam, OnSchedule
  <2>2. QED BY <1>4, <2>1 DEF UpdateSchedule, MayStart, Starts, Held
<1>5. ASSUME NEW s \in Schedules, NEW sts \in SUBSET Students, EnterMarks(r, s, sts)
      PROVE  \E x \in Request : Starts(r, x)
  <2> DEFINE x == [pc |-> "enter", s |-> s, todo |-> sts]
  <2>1. x \in Request /\ Rows(x) = {s}
    BY DEF Request, Rows, OnExam, OnSchedule
  <2>2. QED BY <1>5, <2>1 DEF EnterMarks, MayStart, Starts, Held
<1>6. ASSUME NEW s \in Schedules, NEW from \in MarksStatus \ {"PUBLISHED"}, TransitionScheduleMarks(r, s, from)
      PROVE  \E x \in Request : Starts(r, x)
  <2> DEFINE x == [pc |-> "move", s |-> s, from |-> from]
  <2>1. x \in Request /\ Rows(x) = {s}
    BY DEF Request, Rows, OnExam, OnSchedule
  <2>2. QED BY <1>6, <2>1 DEF TransitionScheduleMarks, MayStart, Starts, Held
<1>7. ASSUME NEW s \in Schedules, NEW st \in Students, NEW v \in Values, EditMarks(r, s, st, v)
      PROVE  \E x \in Request : Starts(r, x)
  <2> DEFINE x == [pc |-> "edit", s |-> s, st |-> st, value |-> v]
  <2>1. x \in Request /\ Rows(x) = {s}
    BY DEF Request, Rows, OnExam, OnSchedule
  <2>2. QED BY <1>7, <2>1 DEF EditMarks, MayStart, Starts, Held
<1>8. ASSUME NEW s \in Schedules, NEW st \in Students, NEW v \in Values, ReviseMarks(r, s, st, v)
      PROVE  \E x \in Request : Starts(r, x)
  <2> DEFINE x == [pc |-> "revise", s |-> s, st |-> st, value |-> v]
  <2>1. x \in Request /\ Rows(x) = {s}
    BY DEF Request, Rows, OnExam, OnSchedule
  <2>2. QED BY <1>8, <2>1 DEF ReviseMarks, MayStart, Starts, Held, Published
<1>9. QED BY <1>1, <1>2, <1>3, <1>4, <1>5, <1>6, <1>7, <1>8 DEF Begin

\* A read of enterMarks that lets it go on, and one that refuses.
LEMMA EnterReadNext ==
  ASSUME TypeOK, NEW r \in Reqs, NEW st \in Students, NEW v \in Values, EnterRead(r, st, v)
  PROVE  \/ Done(r)
         \/ \E x \in Request : /\ Goto(r, x) /\ Rows(x) = Rows(req[r]) /\ Held(x)
                                /\ x.pc = "upsert"
<1> DEFINE x == [pc |-> "upsert", s |-> req[r].s, todo |-> req[r].todo \ {st}, st |-> st, value |-> v]
<1>1. PICK y : y = req[r]
  OBVIOUS
<1>2. y \in Request /\ y.pc = "enter" /\ y.s \in Schedules /\ y.todo \in SUBSET Students
  BY <1>1, RequestShape DEF EnterRead, At, TypeOK, OnSchedule
<1>3. x \in Request
  BY <1>1, <1>2 DEF Request
<1>4. Rows(x) = Rows(req[r])
  BY <1>1, <1>2 DEF Rows, OnExam, OnSchedule
<1>5. Enterable(<<req[r].s, st>>) => Held(x)
  BY DEF Held
<1>6. QED BY <1>3, <1>4, <1>5 DEF EnterRead

\* What an upsert goes on with.
LEMMA UpsertNext ==
  ASSUME TypeOK, NEW r \in Reqs, MarksUpsert(r)
  PROVE  \/ Done(r)
         \/ \E x \in Request : Goto(r, x) /\ Rows(x) = Rows(req[r]) /\ x.pc = "enter"
<1> DEFINE x == [pc |-> "enter", s |-> req[r].s, todo |-> req[r].todo]
<1>1. PICK y : y = req[r]
  OBVIOUS
<1>2. y \in Request /\ y.pc = "upsert" /\ y.s \in Schedules /\ y.todo \in SUBSET Students
  BY <1>1, RequestShape DEF MarksUpsert, At, TypeOK, OnSchedule
<1>3. x \in Request
  BY <1>1, <1>2 DEF Request
<1>4. Rows(x) = Rows(req[r])
  BY <1>1, <1>2 DEF Rows, OnExam, OnSchedule
<1>5. QED BY <1>3, <1>4 DEF MarksUpsert

\* What a revision goes on with.
LEMMA ReviseNext ==
  ASSUME TypeOK, NEW r \in Reqs, MarksRevise(r)
  PROVE  \/ Done(r)
         \/ \E x \in Request : /\ Goto(r, x) /\ Rows(x) = Rows(req[r]) /\ x.pc = "logRevision"
                                /\ x.s = req[r].s /\ x.st = req[r].st /\ x.value = req[r].value
<1>1. PICK y : y = req[r]
  OBVIOUS
<1>2. y \in Request /\ y.pc = "revise"
  BY <1>1 DEF MarksRevise, At, TypeOK
<1>3. PICK x : x = [y EXCEPT !.pc = "logRevision"]
  OBVIOUS
<1>4. x \in Request
  BY <1>2, <1>3, RequestShape
<1>5. x.pc = "logRevision" /\ x.s = y.s /\ x.st = y.st /\ x.value = y.value
  BY <1>2, <1>3 DEF Request, Idle
<1>6. Rows(x) = Rows(y)
  BY <1>2, <1>5 DEF Rows, OnExam, OnSchedule
<1>7. QED BY <1>1, <1>3, <1>4, <1>5, <1>6 DEF MarksRevise

LEMMA BeginInv ==
  ASSUME Inv, NEW r \in Reqs, Begin(r)
  PROVE  Inv'
<1>1. ASSUME NEW e \in Exams, CreateExam(r, e) PROVE Inv'
  <2>1. Cascade({})
    BY <1>1 DEF CreateExam, Cascade, Inv, TypeOK
  <2>2. /\ exam' \in [Exams -> {"absent", "present", "deleted"}]
        /\ \A f \in Exams : exam[f] = "present" => exam'[f] = "present"
    BY <1>1 DEF CreateExam, Inv, TypeOK
  <2>3. \A s \in Schedules : Present(s) => schedule[s].exam \in Exams /\ exam[schedule[s].exam] = "present"
    BY DEF Inv, TypeOK, NoOrphans, Present, ScheduleRow
  <2>4. req' \in [Reqs -> Request]
    BY <1>1 DEF CreateExam, Inv, TypeOK
  <2>5. QED BY <2>1, <2>2, <2>3, <2>4, CascadeStep
<1>2. ASSUME NEW x \in Request, Starts(r, x) PROVE Inv'
  BY <1>2, RequestStep, ReadStep DEF Starts, Inv
<1>3. QED BY <1>1, <1>2, BeginCases

\* The rows a continued request writes.
LEMMA UpsertRows ==
  ASSUME Inv, NEW r \in Reqs, MarksUpsert(r), NEW m, m = <<req[r].s, req[r].st>>
  PROVE  /\ m \in Entries /\ m[1] = req[r].s
         /\ marks' \in [Entries -> MarksRow \cup {NoRow}]
         /\ \A n \in Entries \ {m} : marks'[n] = marks[n]
         /\ \/ UNCHANGED marks
            \/ /\ Present(m[1]) /\ Entered(m)'
               /\ marks'[m].status = IF Entered(m) THEN marks[m].status ELSE "DRAFT"
<1>1. PICK y : y = req[r]
  OBVIOUS
<1>2. y \in Request /\ y.pc = "upsert"
  BY <1>1 DEF MarksUpsert, At, Inv, TypeOK
<1>3. m = <<y.s, y.st>> /\ m[1] = y.s
  BY <1>1
<1>4. m \in Entries /\ y.value \in Values
  BY <1>2, <1>3, RequestShape, EntryPair DEF OnEntry, OnSchedule
<1>5. CASE Present(y.s)
  <2>1. PICK row : row = [status |-> IF Entered(m) THEN marks[m].status ELSE "DRAFT", value |-> y.value]
    OBVIOUS
  <2>2. row \in MarksRow
    BY <1>4, <2>1 DEF Inv, TypeOK, Entered, MarksRow, MarksStatus
  <2>3. marks' = [marks EXCEPT ![m] = row]
    BY <1>1, <1>3, <1>5, <2>1 DEF MarksUpsert
  <2>4. marks'[m] = row /\ Entered(m)' /\ marks' \in [Entries -> MarksRow \cup {NoRow}]
    BY <1>4, <2>2, <2>3, RowKinds DEF Inv, TypeOK, Entered
  <2>5. marks'[m].status = IF Entered(m) THEN marks[m].status ELSE "DRAFT"
    BY <2>1, <2>4
  <2>6. \A n \in Entries \ {m} : marks'[n] = marks[n]
    BY <2>3 DEF Inv, TypeOK
  <2>7. QED BY <1>1, <1>3, <1>4, <1>5, <2>4, <2>5, <2>6
<1>6. CASE ~Present(y.s)
  BY <1>1, <1>3, <1>4, <1>6 DEF MarksUpsert, Inv, TypeOK
<1>7. QED BY <1>5, <1>6

\* A value written by id leaves the status, and every other row, alone.
LEMMA WrittenRows ==
  ASSUME TypeOK, NEW m \in Entries, NEW v \in Values, Written(m, v)
  PROVE  /\ marks' \in [Entries -> MarksRow \cup {NoRow}]
         /\ \A n \in Entries : Entered(n)' <=> Entered(n)
         /\ \A n \in Entries : Entered(n) => marks'[n].status = marks[n].status
         /\ \A n \in Entries \ {m} : marks'[n] = marks[n]
         /\ Entered(m) => marks'[m].value = v
<1>1. CASE Entered(m)
  <2>1. marks[m] \in MarksRow
    BY <1>1 DEF TypeOK, Entered
  <2>2. PICK row : row = [marks[m] EXCEPT !.value = v]
    OBVIOUS
  <2>3. row \in MarksRow /\ row.status = marks[m].status /\ row.value = v
    BY <2>1, <2>2 DEF MarksRow
  <2>4. marks' = [marks EXCEPT ![m] = row]
    BY <1>1, <2>2 DEF Written
  <2>5. marks'[m] = row /\ \A n \in Entries \ {m} : marks'[n] = marks[n]
    BY <2>4 DEF TypeOK
  <2>6. marks' \in [Entries -> MarksRow \cup {NoRow}]
    BY <2>3, <2>4 DEF TypeOK
  <2>7. QED BY <1>1, <2>3, <2>5, <2>6, RowKinds DEF Entered
<1>2. CASE ~Entered(m)
  BY <1>2 DEF Written, TypeOK, Entered
<1>3. QED BY <1>1, <1>2

\* A bulk move takes the rows it covers from one status to the next.
LEMMA MoveRows ==
  ASSUME TypeOK, NEW r \in Reqs, MarksMove(r),
         NEW s, NEW from, s = req[r].s, from = req[r].from
  PROVE  /\ s \in Schedules /\ from \in MarksStatus \ {"PUBLISHED"} /\ To(from) \in MarksStatus
         /\ marks' \in [Entries -> MarksRow \cup {NoRow}]
         /\ trail' \in [Entries -> Values \cup {"NONE"}]
         /\ \A m \in Entries : Entered(m)' <=> Entered(m)
         /\ \A m \in Entries \ Moving(s, from) : marks'[m] = marks[m] /\ trail'[m] = trail[m]
         /\ \A m \in Moving(s, from) :
              /\ Entered(m) /\ m[1] = s /\ marks[m].status = from
              /\ marks'[m].status = To(from) /\ marks'[m].value = marks[m].value
              /\ trail'[m] = IF To(from) = "PUBLISHED" THEN marks[m].value ELSE trail[m]
<1>1. PICK y : y = req[r]
  OBVIOUS
<1>2. y \in Request /\ y.pc = "move"
  BY <1>1 DEF MarksMove, At, TypeOK
<1>3. s \in Schedules /\ from \in MarksStatus \ {"PUBLISHED"}
  BY <1>1, <1>2, RequestShape DEF OnSchedule
<1>4. To(from) \in MarksStatus
  BY <1>3 DEF To, MarksStatus
<1>5. PICK to : to = To(from)
  OBVIOUS
<1>6. /\ marks' = [m \in Entries |-> IF m \in Moving(s, from)
                                   THEN [status |-> to, value |-> marks[m].value] ELSE marks[m]]
      /\ trail' = [m \in Entries |-> IF m \in Moving(s, from) /\ to = "PUBLISHED"
                                   THEN marks[m].value ELSE trail[m]]
  BY <1>5 DEF MarksMove
<1>7. ASSUME NEW m \in Moving(s, from)
      PROVE  /\ m \in Entries /\ Entered(m) /\ m[1] = s /\ marks[m].status = from
             /\ marks[m].value \in Values
             /\ [status |-> to, value |-> marks[m].value] \in MarksRow
  BY <1>4, <1>5 DEF Moving, TypeOK, Entered, MarksRow
<1>8. marks' \in [Entries -> MarksRow \cup {NoRow}]
  BY <1>6, <1>7 DEF TypeOK
<1>9. trail' \in [Entries -> Values \cup {"NONE"}]
  BY <1>6, <1>7 DEF TypeOK
<1>10. \A m \in Entries \ Moving(s, from) : marks'[m] = marks[m] /\ trail'[m] = trail[m]
  BY <1>6
<1>11. \A m \in Moving(s, from) :
         /\ marks'[m] = [status |-> to, value |-> marks[m].value]
         /\ trail'[m] = IF to = "PUBLISHED" THEN marks[m].value ELSE trail[m]
  BY <1>6, <1>7
<1>12. ASSUME NEW m \in Entries PROVE Entered(m)' <=> Entered(m)
  <2>1. CASE m \in Moving(s, from)
    <3>1. marks'[m] \in MarksRow /\ Entered(m)
      BY <1>7, <1>11, <2>1
    <3>2. QED BY <3>1, RowKinds DEF Entered
  <2>2. CASE m \notin Moving(s, from)
    BY <1>10, <2>2 DEF Entered
  <2>3. QED BY <2>1, <2>2
<1>13. ASSUME NEW m \in Moving(s, from)
       PROVE  /\ marks'[m].status = To(from) /\ marks'[m].value = marks[m].value
              /\ trail'[m] = IF To(from) = "PUBLISHED" THEN marks[m].value ELSE trail[m]
  <2>1. PICK x : x = [status |-> to, value |-> marks[m].value]
    OBVIOUS
  <2>2. marks'[m] = x /\ x.status = to /\ x.value = marks[m].value
    BY <1>11, <2>1
  <2>3. trail'[m] = IF to = "PUBLISHED" THEN marks[m].value ELSE trail[m]
    BY <1>11
  <2>4. QED BY <1>5, <2>2, <2>3
<1>14. QED BY <1>3, <1>4, <1>7, <1>8, <1>9, <1>10, <1>12, <1>13

\* The two queries that name one entry and write its value.
LEMMA EntryOf ==
  ASSUME TypeOK, NEW r \in Reqs, req[r].pc \in OnEntry
  PROVE  <<req[r].s, req[r].st>> \in Entries /\ req[r].value \in Values
<1>1. PICK y : y = req[r]
  OBVIOUS
<1>2. y \in Request /\ y.pc \in OnEntry
  BY <1>1 DEF TypeOK
<1>3. QED BY <1>1, <1>2, RequestShape, EntryPair DEF OnEntry, OnSchedule

LEMMA ContinueInv ==
  ASSUME Inv, NEW r \in Reqs, Continue(r) \/ Die(r)
  PROVE  Inv'
<1>0. TypeOK /\ req[r] \in Request
  BY DEF Inv, TypeOK
<1>1. Done(r) => req' \in [Reqs -> Request]
  BY <1>0, IdleStep, RequestStep
<1>2. ASSUME Done(r), UNCHANGED <<exam, schedule, marks, trail>> PROVE Inv'
  BY <1>1, <1>2, ReadStep
<1>3. CASE ExamDelete(r)
  <2>1. PICK e : e = req[r].e
    OBVIOUS
  <2>2. e \in Exams
    BY <1>0, <1>3, <2>1, RequestShape DEF ExamDelete, At, OnExam
  <2>3. /\ exam' \in [Exams -> {"absent", "present", "deleted"}]
        /\ \A f \in Exams \ {e} : exam'[f] = exam[f]
    BY <1>0, <1>3, <2>1 DEF ExamDelete, TypeOK
  <2>4. OfExam(e) \in SUBSET Schedules /\ Cascade(OfExam(e))
    BY <1>3, <2>1 DEF ExamDelete, OfExam
  <2>5. ASSUME NEW s \in Schedules \ OfExam(e), Present(s)
        PROVE  exam'[schedule[s].exam] = "present"
    <3>1. schedule[s].exam # e /\ schedule[s].exam \in Exams
      BY <2>5 DEF OfExam, Inv, TypeOK, Present, ScheduleRow
    <3>2. exam[schedule[s].exam] = "present"
      BY <2>5 DEF Inv, NoOrphans
    <3>3. QED BY <2>3, <3>1, <3>2
  <2>6. QED BY <1>1, <1>3, <2>3, <2>4, <2>5, CascadeStep DEF ExamDelete
<1>4. ASSUME NEW s \in Schedules, ScheduleInsert(r, s) PROVE Inv'
  <2>1. PICK y : y = req[r]
    OBVIOUS
  <2>2. y \in Request /\ y.pc = "insertSchedule"
    BY <1>0, <1>4, <2>1 DEF ScheduleInsert, At
  <2>3. PICK row : row = [exam |-> y.e, subject |-> y.subject]
    OBVIOUS
  <2>4. row \in ScheduleRow /\ row.exam = y.e
    BY <2>2, <2>3, RequestShape DEF ScheduleRow, OnExam
  <2>5. CASE Insertable(y.e, y.subject)
    <3>1. schedule' = [schedule EXCEPT ![s] = row]
      BY <1>4, <2>1, <2>3, <2>5 DEF ScheduleInsert
    <3>2. exam[row.exam] = "present"
      BY <2>4, <2>5 DEF Insertable
    <3>3. UNCHANGED <<exam, marks, trail>> /\ req' \in [Reqs -> Request]
      BY <1>1, <1>4 DEF ScheduleInsert
    <3>4. QED BY <2>4, <3>1, <3>2, <3>3, ScheduleStep
  <2>6. CASE ~Insertable(y.e, y.subject)
    BY <1>2, <1>4, <2>1, <2>6 DEF ScheduleInsert
  <2>7. QED BY <2>5, <2>6
<1>5. CASE ScheduleUpdate(r)
  <2>1. PICK y, s, u : y = req[r] /\ s = y.s /\ u = y.subject
    OBVIOUS
  <2>2. s \in Schedules /\ u \in Subjects
    <3>1. y \in Request /\ y.pc = "updateSchedule"
      BY <1>0, <1>5, <2>1 DEF ScheduleUpdate, At
    <3>2. QED BY <2>1, <3>1, RequestShape DEF OnSchedule
  <2>3. CASE UNCHANGED schedule
    BY <1>2, <1>5, <2>3 DEF ScheduleUpdate
  <2>4. CASE ~UNCHANGED schedule
    <3>1. Present(s) /\ schedule' = [schedule EXCEPT ![s].subject = u]
      BY <1>5, <2>1, <2>4 DEF ScheduleUpdate
    <3>2. schedule[s] \in ScheduleRow
      BY <1>0, <2>2, <3>1 DEF TypeOK, Present
    <3>3. PICK row : row = [schedule[s] EXCEPT !.subject = u]
      OBVIOUS
    <3>4. row \in ScheduleRow /\ row.exam = schedule[s].exam
      BY <2>2, <3>2, <3>3 DEF ScheduleRow
    <3>5. schedule' = [schedule EXCEPT ![s] = row]
      BY <3>1, <3>3
    <3>6. exam[row.exam] = "present"
      BY <2>2, <3>1, <3>4 DEF Inv, NoOrphans
    <3>7. UNCHANGED <<exam, marks, trail>> /\ req' \in [Reqs -> Request]
      BY <1>1, <1>5 DEF ScheduleUpdate
    <3>8. QED BY <2>2, <3>4, <3>5, <3>6, <3>7, ScheduleStep
  <2>5. QED BY <2>3, <2>4
<1>6. CASE ScheduleDelete(r)
  <2>1. PICK y, s : y = req[r] /\ s = y.s
    OBVIOUS
  <2>2. s \in Schedules
    BY <1>0, <1>6, <2>1, RequestShape DEF ScheduleDelete, At, OnSchedule
  <2>3. CASE Present(s)
    <3>1. Cascade({s}) /\ UNCHANGED exam /\ req' \in [Reqs -> Request]
      BY <1>1, <1>6, <2>1, <2>3 DEF ScheduleDelete
    <3>2. \A t \in Schedules : Present(t) => exam'[schedule[t].exam] = "present"
      BY <3>1 DEF Inv, NoOrphans
    <3>3. exam' \in [Exams -> {"absent", "present", "deleted"}] /\ {s} \in SUBSET Schedules
      BY <1>0, <2>2, <3>1 DEF TypeOK
    <3>4. QED BY <3>1, <3>2, <3>3, CascadeStep
  <2>4. CASE ~Present(s)
    BY <1>2, <1>6, <2>1, <2>4 DEF ScheduleDelete
  <2>5. QED BY <2>3, <2>4
<1>7. ASSUME NEW st \in Students, NEW v \in Values, EnterRead(r, st, v) PROVE Inv'
  BY <1>0, <1>1, <1>7, EnterReadNext, RequestStep, ReadStep DEF EnterRead
<1>8. CASE MarksUpsert(r)
  <2>1. req' \in [Reqs -> Request]
    BY <1>0, <1>1, <1>8, UpsertNext, RequestStep
  <2>2. PICK m : m = <<req[r].s, req[r].st>>
    OBVIOUS
  <2>3. /\ m \in Entries /\ marks' \in [Entries -> MarksRow \cup {NoRow}]
        /\ \A n \in Entries \ {m} : marks'[n] = marks[n]
        /\ UNCHANGED marks \/ Present(m[1])
    BY <1>8, <2>2, UpsertRows
  <2>4. \A n \in Entries : Entered(n)' => Entered(n) \/ Present(n[1])
    BY <2>3 DEF Entered
  <2>5. trail' \in [Entries -> Values \cup {"NONE"}] /\ UNCHANGED <<exam, schedule>>
    BY <1>0, <1>8 DEF MarksUpsert, TypeOK
  <2>6. QED BY <2>1, <2>3, <2>4, <2>5, MarksStep
<1>9. CASE MarksMove(r)
  <2>1. PICK s, from : s = req[r].s /\ from = req[r].from
    OBVIOUS
  <2>2. /\ marks' \in [Entries -> MarksRow \cup {NoRow}]
        /\ trail' \in [Entries -> Values \cup {"NONE"}]
        /\ \A m \in Entries : Entered(m)' <=> Entered(m)
    BY <1>0, <1>9, <2>1, MoveRows
  <2>3. QED BY <1>1, <1>9, <2>2, MarksStep DEF MarksMove
<1>10. CASE MarksEdit(r) \/ MarksRevise(r)
  <2>1. PICK m : m = <<req[r].s, req[r].st>>
    OBVIOUS
  <2>2. m \in Entries /\ req[r].value \in Values
    BY <1>0, <1>10, <2>1, EntryOf DEF MarksEdit, MarksRevise, At, OnEntry
  <2>3. Written(m, req[r].value) /\ UNCHANGED <<exam, schedule, trail>>
    BY <1>10, <2>1 DEF MarksEdit, MarksRevise
  <2>4. marks' \in [Entries -> MarksRow \cup {NoRow}] /\ \A n \in Entries : Entered(n)' <=> Entered(n)
    BY <1>0, <2>2, <2>3, WrittenRows
  <2>5. req' \in [Reqs -> Request]
    BY <1>0, <1>1, <1>10, ReviseNext, RequestStep DEF MarksEdit
  <2>6. trail' \in [Entries -> Values \cup {"NONE"}]
    BY <1>0, <2>3 DEF TypeOK
  <2>7. QED BY <2>3, <2>4, <2>5, <2>6, MarksStep
<1>11. CASE LogRevision(r)
  <2>1. PICK m : m = <<req[r].s, req[r].st>>
    OBVIOUS
  <2>2. m \in Entries /\ req[r].value \in Values
    BY <1>0, <1>11, <2>1, EntryOf DEF LogRevision, At, OnEntry
  <2>3. trail' = IF Entered(m) THEN [trail EXCEPT ![m] = req[r].value] ELSE trail
    BY <1>11, <2>1 DEF LogRevision
  <2>4. trail' \in [Entries -> Values \cup {"NONE"}]
    BY <1>0, <2>2, <2>3 DEF TypeOK
  <2>5. marks' \in [Entries -> MarksRow \cup {NoRow}] /\ \A n \in Entries : Entered(n)' <=> Entered(n)
    BY <1>0, <1>11 DEF LogRevision, TypeOK, Entered
  <2>6. QED BY <1>1, <1>11, <2>4, <2>5, MarksStep DEF LogRevision
<1>12. CASE Die(r)
  BY <1>2, <1>12 DEF Die
<1>13. QED BY <1>3, <1>4, <1>5, <1>6, <1>7, <1>8, <1>9, <1>10, <1>11, <1>12 DEF Continue

LEMMA NextInv == Inv /\ [Next]_vars => Inv'
<1> SUFFICES ASSUME Inv, [Next]_vars PROVE Inv'
  OBVIOUS
<1>1. ASSUME NEW r \in Reqs, Begin(r) \/ Continue(r) \/ Die(r) PROVE Inv'
  BY <1>1, BeginInv, ContinueInv
<1>2. CASE UNCHANGED vars
  BY <1>2, ReadStep DEF vars, Inv, TypeOK, NoOrphans, Present, Entered
<1>3. QED BY <1>1, <1>2 DEF Next

LEMMA Invariance == Spec => []Inv
BY InitInv, NextInv, PTL DEF Spec

\* Rows and requests stay well typed, however requests overlap and die.
THEOREM TypeCorrect == Spec => []TypeOK
<1>1. Inv => TypeOK
  BY DEF Inv
<1>2. QED BY <1>1, Invariance, PTL

\* However inserts, upserts and cascading deletes overlap, no entry is left
\* without its schedule and no schedule without its exam.
THEOREM ReferencesHold == Spec => []NoOrphans
<1>1. Inv => NoOrphans
  BY DEF Inv
<1>2. QED BY <1>1, Invariance, PTL

-----------------------------------------------------------------------------
\* The marks workflow, however requests overlap and die.

\* A step is one of the workflow if every entry it moves is.
LEMMA WorkflowMove ==
  ASSUME \A m \in Entries :
           \/ StatusOf'[m] = StatusOf[m]
           \/ <<StatusOf[m], StatusOf'[m]>> \in Moves \cup {<<"NONE", "DRAFT">>}
  PROVE  MarksWorkflow!Next
<1>1. StatusOf' = [m \in Entries |-> StatusOf'[m]]
  BY DEF StatusOf
<1>2. QED BY <1>1 DEF MarksWorkflow!Next, MarksWorkflow!Allowed

\* The statuses of entries a step leaves alone.
LEMMA SameStatus ==
  ASSUME NEW m \in Entries, \/ marks'[m] = marks[m]
                            \/ Entered(m) /\ Entered(m)' /\ marks'[m].status = marks[m].status
                            \/ ~Entered(m) /\ ~Entered(m)'
  PROVE  StatusOf'[m] = StatusOf[m]
BY DEF StatusOf, Entered

LEMMA WorkflowStep ==
  ASSUME Inv, [Next]_vars
  PROVE  MarksWorkflow!Next
<1>0. TypeOK
  BY DEF Inv
<1>1. CASE UNCHANGED marks
  BY <1>1, SameStatus, WorkflowMove
<1>2. ASSUME NEW r \in Reqs, Begin(r) \/ Die(r) PROVE UNCHANGED marks
  BY <1>2, BeginCases DEF CreateExam, Starts, Die
<1>3. ASSUME NEW r \in Reqs, \E s \in Schedules : ScheduleInsert(r, s) PROVE UNCHANGED marks
  BY <1>3 DEF ScheduleInsert
<1>4. ASSUME NEW r \in Reqs, \E st \in Students, v \in Values : EnterRead(r, st, v)
      PROVE  UNCHANGED marks
  BY <1>4 DEF EnterRead
<1>5. ASSUME NEW r \in Reqs, ScheduleUpdate(r) \/ LogRevision(r) PROVE UNCHANGED marks
  BY <1>5 DEF ScheduleUpdate, LogRevision
<1>6. ASSUME NEW gone, Cascade(gone) PROVE MarksWorkflow!Next
  <2>1. ASSUME NEW m \in Entries, m[1] \in gone, Entered(m)
        PROVE  <<StatusOf[m], StatusOf'[m]>> \in Moves
    <3>1. StatusOf[m] \in MarksStatus
      BY <1>0, <2>1 DEF StatusOf, Entered, TypeOK, MarksRow
    <3>2. StatusOf'[m] = "NONE"
      BY <1>6, <2>1 DEF Cascade, StatusOf, Entered
    <3>3. QED BY <3>1, <3>2 DEF Moves
  <2>2. ASSUME NEW m \in Entries, m[1] \notin gone PROVE marks'[m] = marks[m]
    BY <1>6, <2>2 DEF Cascade
  <2>3. ASSUME NEW m \in Entries, m[1] \in gone, ~Entered(m) PROVE ~Entered(m)'
    BY <1>6, <2>3 DEF Cascade, Entered
  <2>4. QED BY <2>1, <2>2, <2>3, SameStatus, WorkflowMove
<1>7. ASSUME NEW r \in Reqs, ExamDelete(r) \/ ScheduleDelete(r) PROVE MarksWorkflow!Next
  BY <1>1, <1>6, <1>7 DEF ExamDelete, ScheduleDelete
<1>8. ASSUME NEW r \in Reqs, MarksUpsert(r) PROVE MarksWorkflow!Next
  <2>1. PICK m : m = <<req[r].s, req[r].st>>
    OBVIOUS
  <2>2. /\ m \in Entries
        /\ \A n \in Entries \ {m} : marks'[n] = marks[n]
        /\ UNCHANGED marks \/ (Entered(m)' /\ marks'[m].status = IF Entered(m) THEN marks[m].status ELSE "DRAFT")
    BY <1>8, <2>1, UpsertRows
  <2>3. CASE ~Entered(m) /\ Entered(m)' /\ marks'[m].status = "DRAFT"
    <3>1. <<StatusOf[m], StatusOf'[m]>> = <<"NONE", "DRAFT">>
      BY <2>2, <2>3 DEF StatusOf, Entered
    <3>2. QED BY <2>2, <3>1, SameStatus, WorkflowMove
  <2>4. QED BY <1>1, <2>2, <2>3, SameStatus, WorkflowMove
<1>9. ASSUME NEW r \in Reqs, MarksMove(r) PROVE MarksWorkflow!Next
  <2>1. PICK s, from : s = req[r].s /\ from = req[r].from
    OBVIOUS
  <2>2. ASSUME NEW m \in Moving(s, from) PROVE <<StatusOf[m], StatusOf'[m]>> \in Moves
    <3>1. /\ m \in Entries /\ Entered(m) /\ Entered(m)'
          /\ marks[m].status = from /\ marks'[m].status = To(from)
          /\ from \in MarksStatus \ {"PUBLISHED"}
      BY <1>0, <1>9, <2>1, MoveRows DEF Moving
    <3>2. StatusOf[m] = from /\ StatusOf'[m] = To(from)
      BY <3>1 DEF StatusOf, Entered
    <3>3. <<from, To(from)>> \in Moves
      BY <3>1 DEF Moves, To, MarksStatus
    <3>4. QED BY <3>2, <3>3
  <2>3. \A m \in Entries \ Moving(s, from) : marks'[m] = marks[m]
    BY <1>0, <1>9, <2>1, MoveRows
  <2>4. QED BY <2>2, <2>3, SameStatus, WorkflowMove
<1>10. ASSUME NEW r \in Reqs, MarksEdit(r) \/ MarksRevise(r) PROVE MarksWorkflow!Next
  <2>1. PICK m : m = <<req[r].s, req[r].st>>
    OBVIOUS
  <2>2. m \in Entries /\ req[r].value \in Values
    BY <1>0, <1>10, <2>1, EntryOf DEF MarksEdit, MarksRevise, At, OnEntry
  <2>3. Written(m, req[r].value)
    BY <1>10, <2>1 DEF MarksEdit, MarksRevise
  <2>4. /\ \A n \in Entries : Entered(n)' <=> Entered(n)
        /\ \A n \in Entries : Entered(n) => marks'[n].status = marks[n].status
    BY <1>0, <2>2, <2>3, WrittenRows
  <2>5. QED BY <2>4, SameStatus, WorkflowMove
<1>11. QED
  BY <1>1, <1>2, <1>3, <1>4, <1>5, <1>7, <1>8, <1>9, <1>10 DEF Next, Continue, vars

\* However requests overlap and die, no entry skips a stage of the workflow or
\* goes back: the marks table implements Workflow.
THEOREM MarksFollowWorkflow == Spec => FollowsWorkflow
<1>1. Init => MarksWorkflow!Init
  BY DEF Init, MarksWorkflow!Init, StatusOf, Entered
<1>2. Inv /\ [Next]_vars => [MarksWorkflow!Next]_StatusOf
  BY WorkflowStep
<1>3. QED BY <1>1, <1>2, Invariance, PTL DEF Spec, FollowsWorkflow, MarksWorkflow!Spec

-----------------------------------------------------------------------------
\* Requests on one exam or schedule take turns.

Alone == \A p, q \in Reqs : p # q => Rows(req[p]) \cap Rows(req[q]) = {}

\* r has written a revision of m and has yet to log it.
Logging(m) == \E q \in Reqs : req[q].pc = "logRevision" /\ m = <<req[q].s, req[q].st>>

Explained(m) == Published(m) => marks[m].value = trail[m] \/ Logging(m)

SerialInv ==
    /\ Inv
    /\ Alone
    /\ \A q \in Reqs : Held(req[q])
    /\ ~Faults => \A m \in Entries : Explained(m)

\* What a step of r leaves to the others.
Frame(r) ==
    /\ \A q \in Reqs \ {r} : req'[q] = req[q]
    /\ \/ Rows(req'[r]) \subseteq Rows(req[r])
       \/ \A q \in Reqs \ {r} : Rows(req[q]) \cap Rows(req'[r]) = {}
    /\ \A m \in Entries : m[1] \notin Rows(req[r]) => marks'[m] = marks[m] /\ trail'[m] = trail[m]
    /\ \A e \in Exams : e \notin Rows(req[r]) /\ OfExam(e) = {} => OfExam(e)' = {}

LEMMA HeldKept ==
  ASSUME SerialInv, NEW r \in Reqs, Frame(r), NEW q \in Reqs, q # r
  PROVE  Held(req[q])'
<1>1. PICK x : x = req[q]
  OBVIOUS
<1>2. x \in Request /\ Held(x) /\ Rows(x) \cap Rows(req[r]) = {} /\ req'[q] = x
  BY <1>1 DEF SerialInv, Inv, TypeOK, Alone, Frame
<1>3. ASSUME x.pc \in OnSchedule
      PROVE  /\ x.s \in Schedules
             /\ \A st \in Students : marks'[<<x.s, st>>] = marks[<<x.s, st>>]
  <2>1. x.s \in Schedules /\ x.s \notin Rows(req[r])
    BY <1>2, <1>3, RequestShape DEF Rows, OnExam, OnSchedule
  <2>2. QED BY <2>1, EntryPair DEF Frame
<1>4. x.pc \in OnEntry => marks'[<<x.s, x.st>>] = marks[<<x.s, x.st>>]
  BY <1>2, <1>3, RequestShape DEF OnEntry, OnSchedule
<1>5. x.pc = "deleteExam" => x.e \in Exams /\ x.e \notin Rows(req[r])
  BY <1>2, RequestShape DEF Rows, OnExam
<1>6. x.pc = "deleteExam" => OfExam(x.e)' = {}
  BY <1>2, <1>5 DEF Frame, Held
<1>7. x.pc = "deleteSchedule" => Unmarked(x.s)'
  BY <1>2, <1>3 DEF Held, Unmarked, Entered, OnSchedule
<1>8. Held(x)'
  BY <1>2, <1>4, <1>6, <1>7 DEF Held, OnEntry, Enterable, Editable, Published, Entered
<1>9. QED BY <1>2, <1>8

LEMMA ExplainedKept ==
  ASSUME SerialInv, NEW r \in Reqs, Frame(r), ~Faults,
         NEW m \in Entries, m[1] \notin Rows(req[r])
  PROVE  Explained(m)'
<1>1. marks'[m] = marks[m] /\ trail'[m] = trail[m] /\ Explained(m)
  BY DEF SerialInv, Frame
<1>2. ASSUME Logging(m) PROVE Logging(m)'
  <2>1. PICK q \in Reqs : req[q].pc = "logRevision" /\ m = <<req[q].s, req[q].st>>
    BY <1>2 DEF Logging
  <2>2. m[1] \in Rows(req[q])
    BY <2>1 DEF Rows, OnExam, OnSchedule
  <2>3. q # r
    BY <2>2
  <2>4. QED BY <2>1, <2>3 DEF Logging, Frame
<1>3. QED BY <1>1, <1>2 DEF Explained, Published, Entered

LEMMA SerialStep ==
  ASSUME UNCHANGED Faults, SerialInv, Inv', NEW r \in Reqs, Frame(r), Held(req[r])',
         ~Faults => \A m \in Entries : m[1] \in Rows(req[r]) => Explained(m)'
  PROVE  SerialInv'
<1>1. Alone'
  BY DEF SerialInv, Alone, Frame
<1>2. \A q \in Reqs : Held(req[q])'
  BY HeldKept
<1>3. ~Faults => \A m \in Entries : Explained(m)'
  BY ExplainedKept
<1>4. QED BY <1>1, <1>2, <1>3 DEF SerialInv

\* Steps that write nothing a request in turn relies on.
LEMMA QuietStep ==
  ASSUME UNCHANGED Faults, SerialInv, Inv', NEW r \in Reqs, NEW x, req'[r] = x,
         \A q \in Reqs \ {r} : req'[q] = req[q], Held(x)',
         \/ Rows(x) \subseteq Rows(req[r])
         \/ \A q \in Reqs \ {r} : Rows(req[q]) \cap Rows(x) = {},
         \A e \in Exams : e \notin Rows(req[r]) /\ OfExam(e) = {} => OfExam(e)' = {},
         UNCHANGED <<marks, trail>>, req[r].pc # "logRevision" \/ Faults
  PROVE  SerialInv'
<1>1. Frame(r)
  BY DEF Frame
<1>2. ASSUME ~Faults, NEW m \in Entries PROVE Explained(m)'
  <2>1. Explained(m)
    BY <1>2 DEF SerialInv
  <2>2. ASSUME NEW q \in Reqs, req[q].pc = "logRevision" PROVE req'[q] = req[q]
    BY <1>2, <2>2
  <2>3. Logging(m) => Logging(m)'
    BY <2>2 DEF Logging
  <2>4. QED BY <2>1, <2>3 DEF Explained, Published, Entered
<1>3. QED BY <1>1, <1>2, SerialStep

LEMMA IdleHeld == Held(Idle)' /\ Held(Idle) /\ Rows(Idle) = {}
BY DEF Held, Idle, Rows, OnExam, OnSchedule

LEMMA BeginSerial ==
  ASSUME UNCHANGED Faults, ~MayOverlap, SerialInv, NEW r \in Reqs, Begin(r)
  PROVE  SerialInv'
<1>0. TypeOK /\ Inv'
  BY BeginInv DEF SerialInv, Inv
<1>1. ASSUME NEW e \in Exams, CreateExam(r, e) PROVE SerialInv'
  <2>1. /\ UNCHANGED <<schedule, marks, trail, req>>
        /\ req[r] = Idle
    BY <1>1 DEF CreateExam, MayStart
  <2>2. \A f \in Exams : OfExam(f)' = OfExam(f)
    BY <2>1 DEF OfExam, Present
  <2>3. req[r].pc # "logRevision"
    BY <2>1 DEF Idle
  <2>4. QED BY <1>0, <2>1, <2>2, <2>3, IdleHeld, QuietStep
<1>2. ASSUME NEW x \in Request, Starts(r, x) PROVE SerialInv'
  <2>1. /\ req'[r] = x /\ \A q \in Reqs \ {r} : req'[q] = req[q]
        /\ UNCHANGED <<exam, schedule, marks, trail>> /\ req[r].pc # "logRevision"
    BY <1>0, <1>2, RequestStep DEF Starts, Idle
  <2>2. Held(x)'
    BY <1>2, <2>1 DEF Starts, Held, OfExam, Present, Unmarked, Enterable, Editable, Published, Entered
  <2>3. \A q \in Reqs \ {r} : Rows(req[q]) \cap Rows(x) = {}
    BY <1>2, TouchesRows DEF Starts, MayStart
  <2>4. \A e \in Exams : OfExam(e)' = OfExam(e)
    BY <2>1 DEF OfExam, Present
  <2>5. QED BY <1>0, <2>1, <2>2, <2>3, <2>4, QuietStep
<1>3. QED BY <1>1, <1>2, BeginCases

\* What a query about one entry does when the others' rows stay.
LEMMA EntryStep ==
  ASSUME UNCHANGED Faults, SerialInv, Inv', NEW r \in Reqs, UNCHANGED <<exam, schedule>>,
         NEW m \in Entries, Rows(req[r]) = {m[1]}, NEW x, req'[r] = x,
         \A q \in Reqs \ {r} : req'[q] = req[q], Held(x)', Rows(x) \subseteq {m[1]},
         \A n \in Entries \ {m} : marks'[n] = marks[n] /\ trail'[n] = trail[n],
         ~Faults => Explained(m)',
         req[r].pc = "logRevision" => m = <<req[r].s, req[r].st>>
  PROVE  SerialInv'
<1>1. Frame(r)
  BY DEF Frame, OfExam, Present
<1>2. ASSUME ~Faults, NEW n \in Entries, n # m PROVE Explained(n)'
  <2>1. Explained(n) /\ marks'[n] = marks[n] /\ trail'[n] = trail[n]
    BY <1>2 DEF SerialInv
  <2>2. Logging(n) => Logging(n)'
    BY <1>2 DEF Logging
  <2>3. QED BY <2>1, <2>2 DEF Explained, Published, Entered
<1>3. QED BY <1>1, <1>2, SerialStep

LEMMA ContinueSerial ==
  ASSUME UNCHANGED Faults, SerialInv, NEW r \in Reqs, Continue(r) \/ Die(r)
  PROVE  SerialInv'
<1>0. /\ TypeOK /\ Inv /\ Inv' /\ req[r] \in Request /\ Held(req[r])
  BY ContinueInv DEF SerialInv, Inv, TypeOK
<1>1. ASSUME NEW x \in Request, Goto(r, x)
      PROVE  req'[r] = x /\ \A q \in Reqs \ {r} : req'[q] = req[q]
  BY <1>0, <1>1, RequestStep
<1>2. ASSUME Done(r)
      PROVE  /\ req'[r] = Idle /\ \A q \in Reqs \ {r} : req'[q] = req[q]
  BY <1>0, <1>1, <1>2, IdleStep
<1>3. ASSUME Done(r), UNCHANGED <<marks, trail>>, req[r].pc # "logRevision" \/ Faults,
             \A e \in Exams : e \notin Rows(req[r]) /\ OfExam(e) = {} => OfExam(e)' = {}
      PROVE  SerialInv'
  <2>1. Held(Idle)' /\ Rows(Idle) \subseteq Rows(req[r])
    BY IdleHeld
  <2>2. QED BY <1>0, <1>2, <1>3, <2>1, QuietStep
<1>4. CASE ExamDelete(r)
  <2>1. OfExam(req[r].e) = {} /\ req[r].pc = "deleteExam"
    BY <1>0, <1>4 DEF ExamDelete, At, Held
  <2>2. Cascade({})
    BY <1>4, <2>1 DEF ExamDelete
  <2>3. UNCHANGED <<schedule, marks, trail>>
    BY <1>0, <2>2 DEF Cascade, TypeOK
  <2>4. \A e \in Exams : OfExam(e)' = OfExam(e)
    BY <2>3 DEF OfExam, Present
  <2>5. QED BY <1>3, <1>4, <2>1, <2>3, <2>4 DEF ExamDelete
<1>5. ASSUME NEW s \in Schedules, ScheduleInsert(r, s) PROVE SerialInv'
  <2>1. PICK y : y = req[r]
    OBVIOUS
  <2>2. y.pc = "insertSchedule" /\ Rows(y) = {y.e}
    BY <1>5, <2>1 DEF ScheduleInsert, At, Rows, OnExam
  <2>3. PICK row : row = [exam |-> y.e, subject |-> y.subject]
    OBVIOUS
  <2>4. UNCHANGED schedule \/ schedule' = [schedule EXCEPT ![s] = row]
    BY <1>5, <2>1, <2>3 DEF ScheduleInsert
  <2>5. row.exam = y.e
    BY <2>3
  <2>6. \A t \in Schedules : schedule'[t] = schedule[t] \/ schedule'[t] = row
    BY <1>0, <2>4 DEF TypeOK
  <2>7. \A e \in Exams : e # y.e /\ OfExam(e) = {} => OfExam(e)' = {}
    BY <2>5, <2>6 DEF OfExam, Present
  <2>8. QED BY <1>3, <1>5, <2>1, <2>2, <2>7 DEF ScheduleInsert
<1>6. CASE ScheduleUpdate(r)
  <2>1. PICK y, s, u : y = req[r] /\ s = y.s /\ u = y.subject
    OBVIOUS
  <2>2. y.pc = "updateSchedule" /\ s \in Schedules
    BY <1>0, <1>6, <2>1, RequestShape DEF ScheduleUpdate, At, OnSchedule
  <2>3. UNCHANGED schedule \/ (Present(s) /\ schedule' = [schedule EXCEPT ![s].subject = u])
    BY <1>6, <2>1 DEF ScheduleUpdate
  <2>4. ASSUME Present(s), schedule' = [schedule EXCEPT ![s].subject = u]
        PROVE  schedule'[s].exam = schedule[s].exam
    <3>1. schedule[s] \in ScheduleRow
      BY <1>0, <2>2, <2>4 DEF TypeOK, Present
    <3>2. PICK row : row = [schedule[s] EXCEPT !.subject = u]
      OBVIOUS
    <3>3. row.exam = schedule[s].exam
      BY <3>1, <3>2 DEF ScheduleRow
    <3>4. schedule'[s] = row
      BY <1>0, <2>2, <2>4, <3>2 DEF TypeOK
    <3>5. QED BY <3>3, <3>4
  <2>5. \A t \in Schedules \ {s} : schedule'[t] = schedule[t]
    BY <1>0, <2>3 DEF TypeOK
  <2>6. ASSUME NEW e \in Exams, OfExam(e) = {} PROVE OfExam(e)' = {}
    <3>1. CASE UNCHANGED schedule
      BY <2>6, <3>1 DEF OfExam, Present
    <3>2. CASE ~UNCHANGED schedule
      BY <2>3, <2>4, <2>5, <2>6, <3>2 DEF OfExam, Present
    <3>3. QED BY <3>1, <3>2
  <2>7. QED BY <1>3, <1>6, <2>1, <2>2, <2>6 DEF ScheduleUpdate
<1>7. CASE ScheduleDelete(r)
  <2>1. PICK y, s : y = req[r] /\ s = y.s
    OBVIOUS
  <2>2. y.pc = "deleteSchedule" /\ s \in Schedules /\ Unmarked(s) /\ Rows(y) = {s}
    BY <1>0, <1>7, <2>1, RequestShape DEF ScheduleDelete, At, OnSchedule, OnExam, Held, Rows
  <2>3. CASE UNCHANGED <<schedule, marks, trail>>
    BY <1>3, <1>7, <2>1, <2>2, <2>3 DEF ScheduleDelete, OfExam, Present
  <2>4. CASE Cascade({s})
    <3>1. \A m \in Entries : m[1] # s => marks'[m] = marks[m] /\ trail'[m] = trail[m]
      BY <2>4 DEF Cascade
    <3>2. \A t \in Schedules : schedule'[t] = schedule[t] \/ schedule'[t] = Deleted
      BY <2>4 DEF Cascade
    <3>3. \A e \in Exams : OfExam(e) = {} => OfExam(e)' = {}
      BY <3>2 DEF OfExam, Present
    <3>4. req'[r] = Idle /\ \A q \in Reqs \ {r} : req'[q] = req[q]
      BY <1>2, <1>7 DEF ScheduleDelete
    <3>5. Frame(r)
      BY <2>1, <2>2, <3>1, <3>3, <3>4, IdleHeld DEF Frame
    <3>6. \A m \in Entries : m[1] = s => ~Entered(m)'
      BY <2>4 DEF Cascade, Entered
    <3>7. \A m \in Entries : m[1] \in Rows(req[r]) => Explained(m)'
      BY <2>1, <2>2, <3>6 DEF Explained, Published
    <3>8. Held(req[r])'
      BY <3>4, IdleHeld
    <3>9. QED BY <1>0, <3>5, <3>7, <3>8, SerialStep
  <2>5. QED BY <1>7, <2>1, <2>3, <2>4 DEF ScheduleDelete
<1>8. ASSUME NEW st \in Students, NEW v \in Values, EnterRead(r, st, v) PROVE SerialInv'
  <2>1. /\ UNCHANGED <<exam, schedule, marks, trail>> /\ req[r].pc = "enter"
        /\ \A e \in Exams : OfExam(e)' = OfExam(e)
    BY <1>8 DEF EnterRead, At, OfExam, Present
  <2>2. ASSUME NEW x \in Request, Goto(r, x), Rows(x) = Rows(req[r]), Held(x), x.pc = "upsert"
        PROVE  SerialInv'
    <3>1. Held(x)'
      BY <2>1, <2>2 DEF Held, Enterable, Entered
    <3>2. QED BY <1>0, <1>1, <2>1, <2>2, <3>1, QuietStep
  <2>3. QED BY <1>0, <1>3, <1>8, <2>1, <2>2, EnterReadNext
\* The queries about one entry.
<1>9. ASSUME req[r].pc \in OnEntry
      PROVE  /\ <<req[r].s, req[r].st>> \in Entries /\ req[r].value \in Values
             /\ Rows(req[r]) = {<<req[r].s, req[r].st>>[1]}
  BY <1>0, <1>9, EntryOf DEF Rows, OnEntry, OnExam, OnSchedule
<1>10. CASE MarksUpsert(r)
  <2>1. PICK m : m = <<req[r].s, req[r].st>>
    OBVIOUS
  <2>2. /\ req[r].pc = "upsert" /\ Enterable(m) /\ m \in Entries /\ Rows(req[r]) = {m[1]}
    BY <1>0, <1>9, <1>10, <2>1 DEF MarksUpsert, At, OnEntry, Held
  <2>3. /\ \A n \in Entries \ {m} : marks'[n] = marks[n]
        /\ UNCHANGED marks \/ (Entered(m)' /\ marks'[m].status = IF Entered(m) THEN marks[m].status ELSE "DRAFT")
        /\ UNCHANGED <<exam, schedule, trail>>
    BY <1>0, <1>10, <2>1, UpsertRows DEF MarksUpsert
  <2>4. Explained(m)'
    <3>1. ~Published(m)'
      BY <2>2, <2>3 DEF Published, Entered, Enterable
    <3>2. QED BY <3>1 DEF Explained
  <2>5. CASE Done(r)
    BY <1>0, <1>2, <2>2, <2>3, <2>4, <2>5, IdleHeld, EntryStep
  <2>6. ASSUME NEW x \in Request, Goto(r, x), Rows(x) = Rows(req[r]), x.pc = "enter"
        PROVE  SerialInv'
    <3>1. Held(x)'
      BY <2>6 DEF Held
    <3>2. QED BY <1>0, <1>1, <2>2, <2>3, <2>4, <2>6, <3>1, EntryStep
  <2>7. QED BY <1>0, <1>10, <2>5, <2>6, UpsertNext
<1>11. CASE MarksMove(r)
  <2>1. PICK s, from : s = req[r].s /\ from = req[r].from
    OBVIOUS
  <2>2. req[r].pc = "move" /\ Rows(req[r]) = {s}
    BY <1>11, <2>1 DEF MarksMove, At, Rows, OnExam, OnSchedule
  <2>3. /\ req'[r] = Idle /\ \A q \in Reqs \ {r} : req'[q] = req[q]
        /\ UNCHANGED <<exam, schedule>>
    BY <1>2, <1>11 DEF MarksMove
  <2>4. /\ \A m \in Entries \ Moving(s, from) : marks'[m] = marks[m] /\ trail'[m] = trail[m]
        /\ \A m \in Moving(s, from) :
             /\ m[1] = s /\ marks'[m].status = To(from) /\ marks'[m].value = marks[m].value
             /\ trail'[m] = IF To(from) = "PUBLISHED" THEN marks[m].value ELSE trail[m]
    BY <1>0, <1>11, <2>1, MoveRows
  <2>5. Frame(r)
    <3>1. \A m \in Entries : m[1] \notin Rows(req[r]) => marks'[m] = marks[m] /\ trail'[m] = trail[m]
      BY <2>2, <2>4
    <3>2. \A e \in Exams : OfExam(e)' = OfExam(e)
      BY <2>3 DEF OfExam, Present
    <3>3. QED BY <2>3, <3>1, <3>2, IdleHeld DEF Frame
  <2>6. ASSUME ~Faults, NEW m \in Entries PROVE Explained(m)'
    <3>1. CASE m \in Moving(s, from)
      BY <2>4, <3>1 DEF Explained, Published
    <3>2. CASE m \notin Moving(s, from)
      <4>1. Explained(m) /\ marks'[m] = marks[m] /\ trail'[m] = trail[m]
        BY <2>4, <2>6, <3>2 DEF SerialInv
      <4>2. Logging(m) => Logging(m)'
        BY <2>2, <2>3 DEF Logging
      <4>3. QED BY <4>1, <4>2 DEF Explained, Published, Entered
    <3>3. QED BY <3>1, <3>2
  <2>7. Held(req[r])'
    BY <2>3, IdleHeld
  <2>8. QED BY <1>0, <2>5, <2>6, <2>7, SerialStep
<1>12. CASE MarksEdit(r)
  <2>1. PICK m : m = <<req[r].s, req[r].st>>
    OBVIOUS
  <2>2. /\ req[r].pc = "edit" /\ Editable(m) /\ m \in Entries /\ Rows(req[r]) = {m[1]}
        /\ req[r].value \in Values /\ Written(m, req[r].value)
        /\ UNCHANGED <<exam, schedule, trail>> /\ Done(r)
    BY <1>0, <1>9, <1>12, <2>1 DEF MarksEdit, At, OnEntry, Held
  <2>3. /\ \A n \in Entries \ {m} : marks'[n] = marks[n]
        /\ marks'[m].status = marks[m].status
    BY <1>0, <2>2, WrittenRows DEF Editable
  <2>4. Explained(m)'
    BY <2>2, <2>3 DEF Explained, Published, Editable
  <2>5. QED BY <1>0, <1>2, <2>2, <2>3, <2>4, IdleHeld, EntryStep
<1>13. CASE MarksRevise(r)
  <2>1. PICK m : m = <<req[r].s, req[r].st>>
    OBVIOUS
  <2>2. /\ req[r].pc = "revise" /\ Published(m) /\ m \in Entries /\ Rows(req[r]) = {m[1]}
        /\ req[r].value \in Values /\ Written(m, req[r].value) /\ UNCHANGED <<exam, schedule, trail>>
    BY <1>0, <1>9, <1>13, <2>1 DEF MarksRevise, At, OnEntry, Held
  <2>3. /\ \A n \in Entries \ {m} : marks'[n] = marks[n]
        /\ marks'[m].value = req[r].value /\ Published(m)'
    BY <1>0, <2>2, WrittenRows DEF Published
  <2>4. PICK x \in Request : /\ Goto(r, x) /\ Rows(x) = Rows(req[r]) /\ x.pc = "logRevision"
                            /\ x.s = req[r].s /\ x.st = req[r].st /\ x.value = req[r].value
    <3>1. ~Done(r)
      <4>1. Goto(r, [req[r] EXCEPT !.pc = "logRevision"])
        BY <1>13, <2>1, <2>2 DEF MarksRevise, Published
      <4>2. [req[r] EXCEPT !.pc = "logRevision"] \in Request
        BY <1>0, <2>2, RequestShape
      <4>3. [req[r] EXCEPT !.pc = "logRevision"].pc = "logRevision"
        BY <1>0, <2>2 DEF Request, Idle
      <4>4. req'[r].pc = "logRevision"
        BY <1>1, <4>1, <4>2, <4>3
      <4>5. QED BY <1>2, <4>4 DEF Idle
    <3>2. QED BY <1>0, <1>13, <3>1, ReviseNext
  <2>5. m = <<x.s, x.st>> /\ req'[r] = x
    BY <1>1, <2>1, <2>4
  <2>6. Held(x)'
    BY <2>3, <2>4, <2>5 DEF Held
  <2>7. Explained(m)'
    BY <2>4, <2>5 DEF Explained, Logging
  <2>8. QED BY <1>0, <1>1, <2>2, <2>3, <2>4, <2>6, <2>7, EntryStep
<1>14. CASE LogRevision(r)
  <2>1. PICK m : m = <<req[r].s, req[r].st>>
    OBVIOUS
  <2>2. /\ Published(m) /\ marks[m].value = req[r].value /\ m \in Entries /\ Rows(req[r]) = {m[1]}
        /\ UNCHANGED <<exam, schedule, marks>> /\ Done(r)
    BY <1>0, <1>9, <1>14, <2>1 DEF LogRevision, At, OnEntry, Held
  <2>3. trail' = [trail EXCEPT ![m] = req[r].value]
    BY <1>14, <2>1, <2>2 DEF LogRevision, Published
  <2>4. trail'[m] = marks'[m].value /\ \A n \in Entries \ {m} : trail'[n] = trail[n]
    BY <1>0, <2>2, <2>3 DEF TypeOK
  <2>5. Explained(m)'
    BY <2>4 DEF Explained
  <2>6. QED BY <1>0, <1>2, <2>1, <2>2, <2>4, <2>5, IdleHeld, EntryStep
<1>15. CASE Die(r)
  <2>1. UNCHANGED <<schedule, marks, trail>> /\ Done(r) /\ Faults
    BY <1>15 DEF Die
  <2>2. QED BY <1>3, <2>1 DEF OfExam, Present
<1>16. QED
  BY <1>4, <1>5, <1>6, <1>7, <1>8, <1>10, <1>11, <1>12, <1>13, <1>14, <1>15 DEF Continue

LEMMA InitSerial == Init => SerialInv
BY InitInv, EntryPair
   DEF Init, SerialInv, Alone, Held, Idle, Rows, OnExam, OnSchedule, Explained, Published, Entered

LEMMA NextSerial == ~MayOverlap => (SerialInv /\ [Next]_vars => SerialInv')
<1> SUFFICES ASSUME ~MayOverlap, SerialInv, [Next]_vars PROVE SerialInv'
  OBVIOUS
<1> UNCHANGED Faults
  BY DEF Next, vars, Faults
<1>1. ASSUME NEW r \in Reqs, Begin(r) \/ Continue(r) \/ Die(r) PROVE SerialInv'
  BY <1>1, BeginSerial, ContinueSerial
<1>2. CASE UNCHANGED vars
  <2>1. Inv'
    BY <1>2, NextInv DEF SerialInv
  <2>2. QED
    BY <1>2, <2>1
    DEF vars, SerialInv, Alone, Held, OfExam, Present, Unmarked, Enterable, Editable, Published,
        Entered, Explained, Logging
<1>3. QED BY <1>1, <1>2 DEF Next

\* Requests take turns in every state or in none: the invariant holds throughout.
LEMMA SerialInvariance == Spec => [](~MayOverlap => SerialInv)
<1>1. [Next]_vars => MayOverlap' = MayOverlap
  BY DEF Next, vars, MayOverlap
<1>2. (~MayOverlap => SerialInv) /\ [Next]_vars => (~MayOverlap => SerialInv)'
  BY <1>1, NextSerial
<1>3. Init => (~MayOverlap => SerialInv)
  BY InitSerial
<1>4. QED BY <1>2, <1>3, PTL DEF Spec

\* If requests on one schedule take turns and none dies, the audit log explains
\* every published mark.
THEOREM AuditExplainsMarks == Spec => []RevisionsAudited
<1>1. (~MayOverlap => SerialInv) => RevisionsAudited
  <2> SUFFICES ASSUME SerialInv, ~Faults, NEW m \in Entries, Published(m), Untouched(m[1])
               PROVE  marks[m].value = trail[m]
    BY DEF RevisionsAudited, Published
  <2>1. ~Logging(m)
    <3> SUFFICES ASSUME NEW q \in Reqs, req[q].pc = "logRevision", m = <<req[q].s, req[q].st>>
                 PROVE  FALSE
      BY DEF Logging
    <3>1. m[1] \in Rows(req[q])
      BY DEF Rows, OnExam, OnSchedule
    <3>2. QED BY <3>1, TouchesRows DEF Untouched
  <2>2. QED BY <2>1 DEF SerialInv, Explained
<1>2. QED BY <1>1, SerialInvariance, PTL

\* The deletes of such requests find nothing to cascade to.
LEMMA SurviveStep ==
  ASSUME SerialInv, [Next]_vars, NEW m \in Entries, Entered(m)
  PROVE  Entered(m)'
<1>0. Inv /\ TypeOK
  BY DEF SerialInv, Inv
<1>1. CASE UNCHANGED marks
  BY <1>1 DEF Entered
<1>2. ASSUME NEW r \in Reqs, Begin(r) \/ Die(r) PROVE UNCHANGED marks
  BY <1>2, BeginCases DEF CreateExam, Starts, Die
<1>3. ASSUME NEW r \in Reqs, \/ \E s \in Schedules : ScheduleInsert(r, s)
                             \/ \E st \in Students, v \in Values : EnterRead(r, st, v)
                             \/ ScheduleUpdate(r) \/ LogRevision(r)
      PROVE  UNCHANGED marks
  BY <1>3 DEF ScheduleInsert, EnterRead, ScheduleUpdate, LogRevision
<1>4. ASSUME NEW r \in Reqs, ExamDelete(r) PROVE Entered(m)'
  <2>1. OfExam(req[r].e) = {}
    BY <1>4 DEF ExamDelete, At, SerialInv, Held
  <2>2. QED BY <1>4, <2>1 DEF ExamDelete, Cascade, Entered
<1>5. ASSUME NEW r \in Reqs, ScheduleDelete(r) PROVE Entered(m)'
  <2>1. Unmarked(req[r].s)
    BY <1>5 DEF ScheduleDelete, At, SerialInv, Held
  <2>2. m[1] # req[r].s
    <3>1. m = <<m[1], m[2]>> /\ m[2] \in Students
      BY EntryPair
    <3>2. QED BY <2>1, <3>1 DEF Unmarked
  <2>3. QED BY <1>5, <2>2 DEF ScheduleDelete, Cascade, Entered
<1>6. ASSUME NEW r \in Reqs, MarksUpsert(r) PROVE Entered(m)'
  <2>1. PICK n : n = <<req[r].s, req[r].st>>
    OBVIOUS
  <2>2. \A k \in Entries \ {n} : marks'[k] = marks[k]
    BY <1>0, <1>6, <2>1, UpsertRows
  <2>3. UNCHANGED marks \/ Entered(n)'
    BY <1>0, <1>6, <2>1, UpsertRows
  <2>4. QED BY <2>2, <2>3 DEF Entered
<1>7. ASSUME NEW r \in Reqs, MarksMove(r) PROVE Entered(m)'
  <2>1. PICK s, from : s = req[r].s /\ from = req[r].from
    OBVIOUS
  <2>2. QED BY <1>0, <1>7, <2>1, MoveRows
<1>8. ASSUME NEW r \in Reqs, MarksEdit(r) \/ MarksRevise(r) PROVE Entered(m)'
  <2>1. PICK n : n = <<req[r].s, req[r].st>>
    OBVIOUS
  <2>2. n \in Entries /\ req[r].value \in Values
    BY <1>0, <1>8, <2>1, EntryOf DEF MarksEdit, MarksRevise, At, OnEntry
  <2>3. Written(n, req[r].value)
    BY <1>8, <2>1 DEF MarksEdit, MarksRevise
  <2>4. QED BY <1>0, <2>2, <2>3, WrittenRows
<1>9. QED BY <1>1, <1>2, <1>3, <1>4, <1>5, <1>6, <1>7, <1>8 DEF Next, Continue, vars

LEMMA EmptyStep ==
  ASSUME SerialInv, [Next]_vars, NEW e \in Exams, exam[e] = "present", exam'[e] = "deleted"
  PROVE  OfExam(e) = {}
<1>1. TypeOK
  BY DEF SerialInv, Inv
<1>2. exam'[e] # exam[e]
  OBVIOUS
<1>3. ASSUME NEW r \in Reqs, ExamDelete(r) PROVE OfExam(e) = {}
  <2>1. req[r].e = e /\ req[r].pc = "deleteExam"
    BY <1>1, <1>2, <1>3 DEF ExamDelete, At, TypeOK
  <2>2. QED BY <2>1 DEF SerialInv, Held
<1>4. ASSUME NEW r \in Reqs, Begin(r) \/ Die(r)
      PROVE  UNCHANGED exam \/ \E f \in Exams : CreateExam(r, f)
  BY <1>4, BeginCases DEF Starts, Die
<1>5. ASSUME NEW r \in Reqs, NEW f \in Exams, CreateExam(r, f) PROVE exam'[e] # "deleted"
  BY <1>1, <1>5 DEF CreateExam, TypeOK
<1>6. QED
  BY <1>2, <1>3, <1>4, <1>5
  DEF Next, Continue, vars, ScheduleUpdate, ScheduleDelete, ScheduleInsert, EnterRead, MarksUpsert,
      MarksMove, MarksEdit, MarksRevise, LogRevision

\* If requests on one exam or schedule take turns, marks that were entered stay
\* and an exam is deleted with no schedule under it, even if requests die half-way.
THEOREM CascadesFindNothing == Spec => NothingTakenAlong
<1>1. (~MayOverlap => SerialInv) /\ [Next]_vars =>
        [~MayOverlap =>
           /\ \A m \in Entries : Entered(m) => Entered(m)'
           /\ \A e \in Exams : exam[e] = "present" /\ exam'[e] = "deleted" => OfExam(e) = {}]_vars
  BY SurviveStep, EmptyStep
<1>2. QED BY <1>1, SerialInvariance, PTL DEF Spec, NothingTakenAlong

LEMMA FixedStep ==
  ASSUME SerialInv, [Next]_vars, NEW m \in Entries, Final(m), marks'[m].value # marks[m].value,
         Entered(m)'
  PROVE  /\ marks[m].status = "PUBLISHED"
         /\ \E r \in Reqs : At(r, "revise") /\ m = <<req[r].s, req[r].st>>
<1>0. Inv /\ TypeOK
  BY DEF SerialInv, Inv
<1>1. marks'[m] # marks[m]
  OBVIOUS
<1>2. ASSUME NEW r \in Reqs, Begin(r) \/ Die(r) PROVE UNCHANGED marks
  BY <1>2, BeginCases DEF CreateExam, Starts, Die
<1>3. ASSUME NEW r \in Reqs, \/ \E s \in Schedules : ScheduleInsert(r, s)
                             \/ \E st \in Students, v \in Values : EnterRead(r, st, v)
                             \/ ScheduleUpdate(r) \/ LogRevision(r)
      PROVE  UNCHANGED marks
  BY <1>3 DEF ScheduleInsert, EnterRead, ScheduleUpdate, LogRevision
<1>4. ASSUME NEW gone, Cascade(gone) PROVE FALSE
  BY <1>1, <1>4 DEF Cascade, Entered
<1>5. ASSUME NEW r \in Reqs, ExamDelete(r) \/ ScheduleDelete(r) PROVE FALSE
  BY <1>1, <1>4, <1>5 DEF ExamDelete, ScheduleDelete
<1>6. ASSUME NEW r \in Reqs, MarksUpsert(r) PROVE FALSE
  <2>1. PICK n : n = <<req[r].s, req[r].st>>
    OBVIOUS
  <2>2. \A k \in Entries \ {n} : marks'[k] = marks[k]
    BY <1>0, <1>6, <2>1, UpsertRows
  <2>3. Enterable(n)
    BY <1>6, <2>1 DEF MarksUpsert, At, SerialInv, Held
  <2>4. QED BY <1>1, <2>2, <2>3 DEF Final, Enterable
<1>7. ASSUME NEW r \in Reqs, MarksMove(r) PROVE FALSE
  <2>1. PICK s, from : s = req[r].s /\ from = req[r].from
    OBVIOUS
  <2>2. QED BY <1>0, <1>1, <1>7, <2>1, MoveRows
<1>8. ASSUME NEW r \in Reqs, MarksEdit(r) PROVE FALSE
  <2>1. PICK n : n = <<req[r].s, req[r].st>>
    OBVIOUS
  <2>2. n \in Entries /\ req[r].value \in Values
    BY <1>0, <1>8, <2>1, EntryOf DEF MarksEdit, At, OnEntry
  <2>3. Written(n, req[r].value) /\ Editable(n)
    BY <1>8, <2>1 DEF MarksEdit, At, SerialInv, Held
  <2>4. \A k \in Entries \ {n} : marks'[k] = marks[k]
    BY <1>0, <2>2, <2>3, WrittenRows
  <2>5. QED BY <1>1, <2>3, <2>4 DEF Final, Editable
<1>9. ASSUME NEW r \in Reqs, MarksRevise(r)
      PROVE  marks[m].status = "PUBLISHED" /\ At(r, "revise") /\ m = <<req[r].s, req[r].st>>
  <2>1. PICK n : n = <<req[r].s, req[r].st>>
    OBVIOUS
  <2>2. n \in Entries /\ req[r].value \in Values
    BY <1>0, <1>9, <2>1, EntryOf DEF MarksRevise, At, OnEntry
  <2>3. Written(n, req[r].value) /\ At(r, "revise") /\ Published(n)
    BY <1>9, <2>1 DEF MarksRevise, At, SerialInv, Held
  <2>4. \A k \in Entries \ {n} : marks'[k] = marks[k]
    BY <1>0, <2>2, <2>3, WrittenRows
  <2>5. QED BY <1>1, <2>1, <2>3, <2>4 DEF Published
<1>10. QED BY <1>1, <1>2, <1>3, <1>5, <1>6, <1>7, <1>8, <1>9 DEF Next, Continue, vars

\* If requests on one schedule take turns, a verified or published value changes
\* by a revision of the published mark alone, even if requests die half-way.
THEOREM VerifiedFixed == Spec => VerifiedIsFixed
<1>1. (~MayOverlap => SerialInv) /\ [Next]_vars =>
        [~MayOverlap => \A m \in Entries : OnlyRevised(m)]_vars
  BY FixedStep DEF OnlyRevised
<1>2. QED BY <1>1, SerialInvariance, PTL DEF Spec, VerifiedIsFixed

-----------------------------------------------------------------------------
\* Together: no entry is orphaned and the audit log explains the published marks,
\* under the condition each part names.
THEOREM MarksCorrect == Spec => []MarksSound
BY TypeCorrect, ReferencesHold, AuditExplainsMarks, PTL DEF MarksSound

-----------------------------------------------------------------------------
(***************************************************************************)
(* Audiences: who is notified, and who finds it in the feed.               *)
(***************************************************************************)

\* What a user's row says of an audience is what the feed says of it.
LEMMA StudentFeed ==
  ASSUME NEW college \in Colleges, NEW scope \in Scope, Valid(scope), NEW u \in Users,
         IsStudent(college, u)
  PROVE  InFeed(college, u, scope) <=> StudentInScope(college, college.student[u], scope)
<1>1. PICK row : row = college.student[u]
  OBVIOUS
<1>2. row \in StudentRow
  BY <1>1 DEF Colleges, IsStudent
<1>3. /\ row.department \in Departments /\ row.department # NoId
      /\ row.section = NoId \/ row.section \in Sections
  BY <1>2, AudienceAssumption DEF StudentRow
<1>4. scope.audience \in Audiences
  BY DEF Scope
<1>5. row.section # NoId =>
        /\ college.batchOf[row.section] # NoId
        /\ college.programOf[college.batchOf[row.section]] # NoId
  BY <1>3, AudienceAssumption DEF Colleges
<1>6. /\ FeedDepartment(college, u) = row.department
      /\ FeedSection(college, u) = row.section
      /\ FeedBatch(college, u) =
           IF row.section = NoId THEN NoId ELSE college.batchOf[row.section]
      /\ FeedProgram(college, u) =
           IF row.section = NoId THEN NoId ELSE college.programOf[college.batchOf[row.section]]
  <2>1. FeedDepartment(college, u) = row.department /\ FeedSection(college, u) = row.section
    BY <1>1 DEF FeedDepartment, FeedSection
  <2>2. FeedBatch(college, u) = IF row.section = NoId THEN NoId ELSE college.batchOf[row.section]
    BY <2>1 DEF FeedBatch
  <2>3. QED BY <2>1, <2>2, <1>5 DEF FeedProgram
<1>7. CASE scope.audience = "COLLEGE"
  BY <1>7 DEF InFeed, StudentInScope
<1>8. CASE scope.audience = "DEPARTMENT"
  BY <1>1, <1>3, <1>6, <1>8 DEF InFeed, StudentInScope, Matches, Valid
<1>9. CASE scope.audience = "PROGRAM"
  BY <1>1, <1>5, <1>6, <1>9 DEF InFeed, StudentInScope, Matches, Valid
<1>10. CASE scope.audience = "BATCH"
  BY <1>1, <1>5, <1>6, <1>10 DEF InFeed, StudentInScope, Matches, Valid
<1>11. CASE scope.audience = "SECTION"
  BY <1>1, <1>6, <1>11 DEF InFeed, StudentInScope, Matches, Valid
<1>12. QED BY <1>4, <1>7, <1>8, <1>9, <1>10, <1>11 DEF Audiences

LEMMA FacultyFeed ==
  ASSUME NEW college \in Colleges, NEW scope \in Scope, Valid(scope), NEW u \in Users,
         ~IsStudent(college, u), IsFaculty(college, u)
  PROVE  InFeed(college, u, scope) <=> FacultyInScope(college.faculty[u], scope)
<1>1. PICK row : row = college.faculty[u]
  OBVIOUS
<1>2. row \in FacultyRow
  BY <1>1 DEF Colleges, IsFaculty
<1>3. row.department # NoId
  BY <1>2, AudienceAssumption DEF FacultyRow
<1>4. scope.audience \in Audiences
  BY DEF Scope
<1>5. FeedSection(college, u) = NoId /\ FeedBatch(college, u) = NoId /\ FeedProgram(college, u) = NoId
  BY DEF FeedSection, FeedBatch, FeedProgram
<1>6. FeedDepartment(college, u) = row.department
  BY <1>1 DEF FeedDepartment
<1>7. CASE scope.audience = "COLLEGE"
  BY <1>7 DEF InFeed, FacultyInScope
<1>8. CASE scope.audience = "DEPARTMENT"
  BY <1>1, <1>3, <1>6, <1>8 DEF InFeed, FacultyInScope, Matches, Valid
<1>9. CASE scope.audience = "PROGRAM"
  BY <1>5, <1>9 DEF InFeed, FacultyInScope
<1>10. CASE scope.audience = "BATCH"
  BY <1>5, <1>10 DEF InFeed, FacultyInScope
<1>11. CASE scope.audience = "SECTION"
  BY <1>5, <1>11 DEF InFeed, FacultyInScope
<1>12. QED BY <1>4, <1>7, <1>8, <1>9, <1>10, <1>11 DEF Audiences

\* An account linked to nobody reads what is for the whole college.
LEMMA NobodysFeed ==
  ASSUME NEW college \in Colleges, NEW scope \in Scope, NEW u \in Users,
         ~IsStudent(college, u), ~IsFaculty(college, u), InFeed(college, u, scope)
  PROVE  scope.audience = "COLLEGE"
<1>1. scope.audience \in Audiences
  BY DEF Scope
<1>2. /\ FeedDepartment(college, u) = NoId /\ FeedSection(college, u) = NoId
      /\ FeedBatch(college, u) = NoId /\ FeedProgram(college, u) = NoId
  BY DEF FeedDepartment, FeedSection, FeedBatch, FeedProgram
<1>3. QED BY <1>1, <1>2 DEF Audiences, InFeed

LEMMA FeedMatches == \A college \in Colleges : FeedMatchesAudience(college)
<1> SUFFICES ASSUME NEW college \in Colleges, NEW scope \in Scope, NEW u \in Users, Valid(scope),
                    ~(IsStudent(college, u) /\ IsFaculty(college, u))
             PROVE  /\ u \in Recipients(college, scope) => InFeed(college, u, scope)
                    /\ InFeed(college, u, scope) =>
                         \/ u \in Recipients(college, scope)
                         \/ IsStudent(college, u) /\ ~college.student[u].active
                         \/ IsFaculty(college, u) /\ ~college.faculty[u].active
                         \/ scope.audience = "COLLEGE" /\ ~IsStudent(college, u) /\ ~IsFaculty(college, u)
  BY DEF FeedMatchesAudience
<1>1. CASE IsStudent(college, u)
  BY <1>1, StudentFeed DEF Recipients
<1>2. CASE ~IsStudent(college, u) /\ IsFaculty(college, u)
  BY <1>2, FacultyFeed DEF Recipients
<1>3. CASE ~IsStudent(college, u) /\ ~IsFaculty(college, u)
  BY <1>3, NobodysFeed DEF Recipients
<1>4. QED BY <1>1, <1>2, <1>3

LEMMA GroupMatches == \A college \in Colleges : GroupMatchesMembers(college)
BY DEF GroupMatchesMembers, GroupRecipients, IsMember

\* The table of the computation "college" is a college.
CollegeRead == area = "college" => table = <<>> \/ table \in Colleges

\* For every college, every valid announcement and every account that is not both a
\* student's and a faculty member's: who is notified finds it in the feed, and who
\* finds it there was notified, unless inactive or linked to nobody; and whom a class
\* group notifies is a member.
THEOREM AudienceReads == TablesSpec => []AudienceReadsIt
<1>1. TablesInit => CollegeRead
  <2>1. \A e \in Empty : e[1] = "college" => e[2] = <<>>
    BY DEF Empty
  <2>2. QED BY <2>1 DEF TablesInit, CollegeRead
<1>2. CollegeRead /\ [TablesNext]_<<area, table>> => CollegeRead'
  BY DEF CollegeRead, TablesNext, PublishMark, Bill, Attend, Leave, Found, Write, WriteLine, Add
<1>3. CollegeRead => AudienceReadsIt
  BY FeedMatches, GroupMatches DEF CollegeRead, AudienceReadsIt
<1>4. QED BY <1>1, <1>2, <1>3, PTL DEF TablesSpec

=============================================================================
