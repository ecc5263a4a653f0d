-------------------------------- MODULE Results --------------------------------
(***************************************************************************)
(* Figures computed on read: grades, SGPA and CGPA                         *)
(* (src/src/modules/examinations/examination.service.ts), the reports      *)
(* (src/src/modules/reports/report.service.ts), what a student's page says *)
(* of attendance and dues (getStudent360) and the leave balance.  Nothing  *)
(* here is stored; several handlers compute the same figure their own way. *)
(*                                                                         *)
(* Operators of the rows they read.  A ratio that the code rounds to two   *)
(* places is a number of hundredths, one place a number of tenths; the     *)
(* comparisons the code makes before rounding are made on the exact ratio. *)
(***************************************************************************)
EXTENDS Integers, FiniteSets, FiniteSetsExt, Functions

CONSTANTS
    Credits,     \* Credits[s]: the credits of subject s
    Semester,    \* Semester[s]: its semesterNumber
    DaysPerYear, \* bound: length of a year, in days
    TicksPerDay  \* bound: the times of day told apart

ASSUME ResultsAssumption ==
    /\ DOMAIN Credits = DOMAIN Semester
    /\ \A s \in DOMAIN Credits : Credits[s] \in 1..10 /\ Semester[s] \in 1..12
    /\ DaysPerYear \in Nat \ {0} /\ TicksPerDay \in Nat \ {0}

Total(f(_), S) == MapThenSumSet(f, S)
\* Math.round(n / d), for n >= 0 and d > 0.
Rounded(n, d)  == (2 * n + d) \div (2 * d)

-----------------------------------------------------------------------------
\* Examination results.  marks[<<exam, subject>>] is the Marks row of one
\* student; counts: it is PUBLISHED and marksObtained is not null.

Scale == {<<90, 10>>, <<80, 9>>, <<70, 8>>, <<60, 7>>, <<50, 6>>, <<40, 5>>}

GradePoints(obtained, max) ==
    Max({0} \cup {g[2] : g \in {g \in Scale : 100 * obtained >= g[1] * max}})

Counted(marks) == {k \in DOMAIN marks : marks[k].counts}

\* aggregatePublishedMarksBySubject: one row per subject, over all its exams.
Aggregate(marks, s) ==
    LET rows == {k \in Counted(marks) : k[2] = s} IN
      [obtained |-> Total(LAMBDA k : marks[k].obtained, rows),
       max      |-> Total(LAMBDA k : marks[k].max, rows)]

SubjectsOf(marks) == {k[2] : k \in Counted(marks)}

Points(marks, s) == LET a == Aggregate(marks, s) IN GradePoints(a.obtained, a.max)

\* Grade points weighted by credits.
Mean(marks, subjects) ==
    LET credits == Total(LAMBDA s : Credits[s], subjects) IN
      IF credits > 0
        THEN Rounded(100 * Total(LAMBDA s : Points(marks, s) * Credits[s], subjects), credits)
        ELSE 0

Sgpa(marks, semester) == Mean(marks, {s \in SubjectsOf(marks) : Semester[s] = semester})
Cgpa(marks)           == Mean(marks, SubjectsOf(marks))

-----------------------------------------------------------------------------
\* Reports on marks.

\* average(percentages).  The code adds the quotients; here they are added
\* over a common denominator.
Average(marks, rows) ==
    LET common   == FoldFunctionOnSet(LAMBDA m, n : m * n, 1, [k \in rows |-> marks[k].max], rows)
        share(k) == marks[k].obtained * (common \div marks[k].max)
    IN IF rows = {} THEN 0 ELSE Rounded(10000 * Total(share, rows), common * Cardinality(rows))

PassPercentage == 40

ExamResults(marks, exam) ==
    LET rows   == {k \in Counted(marks) : k[1] = exam}
        passed == {k \in rows : 100 * marks[k].obtained >= PassPercentage * marks[k].max}
    IN [totalAssessed |-> Cardinality(rows),
        passCount     |-> Cardinality(passed),
        failCount     |-> Cardinality(rows) - Cardinality(passed),
        average       |-> Average(marks, rows)]

SubjectPerformance(marks, s) ==
    LET rows == {k \in Counted(marks) : k[2] = s}
    IN [studentsAssessed |-> Cardinality(rows), average |-> Average(marks, rows)]

\* departmentPerformance of an active department whose one student this is.
\* studentsAssessed counts marks, so a student counts once for every exam.
DepartmentPerformance(marks) ==
    [studentsAssessed |-> Cardinality(Counted(marks)), average |-> Average(marks, Counted(marks))]

-----------------------------------------------------------------------------
\* Money.  invoices[i] is a FeeInvoice row with its ledger summed: delta is
\* fines less waivers and scholarships, net is payments less refunds.  status is
\* the stored column, which need not be what the ledger says: a recompute may
\* have died or been overtaken (FeeLedger).

Owed(row) == Max({0, row.amount + row.delta})

\* recomputeInvoiceStatus, with a due date ahead; a WAIVED invoice is left alone.
RecomputedStatus(row) ==
    LET settled == Owed(row) = 0 \/ row.net >= Owed(row) IN
      CASE row.status = "WAIVED"                              -> "WAIVED"
        [] row.status # "WAIVED" /\ settled                   -> "PAID"
        [] row.status # "WAIVED" /\ ~settled /\ row.net > 0   -> "PARTIAL"
        [] row.status # "WAIVED" /\ ~settled /\ row.net <= 0  -> "PENDING"

Outstanding(invoiced, collected) == Max({0, invoiced - collected})

\* financialSummary of the invoices in S, the whole table or one category.
\* A waived invoice would be reported at its face amount.
Mutant_Payable(row) == Owed(row)
Payable(row) == IF row.status = "WAIVED" THEN row.net ELSE Owed(row)

SummaryOf(invoices, S) ==
    LET invoiced  == Total(LAMBDA i : Payable(invoices[i]), S)
        collected == Total(LAMBDA i : invoices[i].net, S)
    IN [invoiced |-> invoiced, collected |-> collected,
        outstanding |-> Outstanding(invoiced, collected)]

FinancialSummary(invoices) ==
    [total      |-> SummaryOf(invoices, DOMAIN invoices),
     byCategory |-> [c \in {invoices[i].category : i \in DOMAIN invoices} |->
                       SummaryOf(invoices, {i \in DOMAIN invoices : invoices[i].category = c})]]

\* fees.totalOutstanding of getStudent360, which goes by the stored status.
StudentOutstanding(invoices, student) ==
    Total(LAMBDA i : Outstanding(Owed(invoices[i]), invoices[i].net),
          {i \in DOMAIN invoices :
             /\ invoices[i].student = student
             /\ invoices[i].status \in {"PENDING", "PARTIAL", "OVERDUE"}})

-----------------------------------------------------------------------------
\* Attendance and leave.  records[status]: how many AttendanceRecord rows.

Statuses == {"PRESENT", "ABSENT", "LATE", "EXCUSED", "ON_LEAVE"}

\* attendanceReport: hundredths of a percent, coming late is being present.
AttendanceReport(records) ==
    LET totalRecords == Total(LAMBDA s : records[s], Statuses)
        presentCount == records["PRESENT"] + records["LATE"]
    IN [presentCount |-> presentCount,
        percentage   |-> IF totalRecords > 0 THEN Rounded(10000 * presentCount, totalRecords) ELSE 0]

\* attendance of getStudent360: tenths, coming late is a figure of its own.
StudentAttendance(records) ==
    LET totalRecords == Total(LAMBDA s : records[s], Statuses)
    IN [presentCount |-> records["PRESENT"],
        lateCount    |-> records["LATE"],
        percentage   |-> IF totalRecords > 0 THEN Rounded(1000 * records["PRESENT"], totalRecords) ELSE 0]

Year(y) == ((y - 1) * DaysPerYear + 1)..(y * DaysPerYear)

\* A leave begins and ends at a time, in ticks from the first day on.
DayOf(t) == t \div TicksPerDay + 1

\* getLeaveBalance; leaves[i]: the APPROVED LeaveRequest rows of a student.
CountedLeaves(leaves, type, y) ==
    {i \in DOMAIN leaves :
       leaves[i].type = type /\ DayOf(leaves[i].from) <= Max(Year(y)) /\ DayOf(leaves[i].to) >= Min(Year(y))}

UsedDays(leaves, type, y) ==
    Total(LAMBDA i : Rounded(leaves[i].to - leaves[i].from, TicksPerDay) + 1, CountedLeaves(leaves, type, y))

RemainingDays(leaves, type, y, quota) == Max({0, quota - UsedDays(leaves, type, y)})

-----------------------------------------------------------------------------
\* What the figures must say of each other.

Percentages(marks, rows) == {Rounded(10000 * marks[k].obtained, marks[k].max) : k \in rows}
Within(x, S) == S = {} \/ x \in Min(S)..Max(S)

\* The CGPA lies between the lowest and the highest SGPA, and the grade of a
\* subject between the worst and the best exam in it: who passed every exam has
\* not failed the subject.  The reports count as failed exactly the marks that
\* would be graded F, and their averages lie among the percentages averaged: the
\* department's between those of its subjects, and between those of its exams.
ResultsAgreeOn(marks) ==
    /\ Within(Cgpa(marks), {Sgpa(marks, Semester[s]) : s \in SubjectsOf(marks)})
    /\ \A s \in SubjectsOf(marks) :
         LET rows == {k \in Counted(marks) : k[2] = s} IN
           /\ Within(Points(marks, s), {GradePoints(marks[k].obtained, marks[k].max) : k \in rows})
           /\ Within(SubjectPerformance(marks, s).average, Percentages(marks, rows))
    /\ LET average == DepartmentPerformance(marks).average
           counted == Counted(marks)
       IN /\ Within(average, {SubjectPerformance(marks, s).average : s \in SubjectsOf(marks)})
          /\ Within(average, {ExamResults(marks, k[1]).average : k \in counted})
    /\ \A e \in {k[1] : k \in DOMAIN marks} :
         LET rows == {k \in Counted(marks) : k[1] = e} IN
           /\ ExamResults(marks, e).failCount =
                Cardinality({k \in rows : GradePoints(marks[k].obtained, marks[k].max) = 0})
           /\ Within(ExamResults(marks, e).average, Percentages(marks, rows))

\* The dues of the college are what its students' pages add up to and what
\* invoices wrongly stored as PAID hide from these pages, unless an invoice is
\* overpaid: the surplus then hides what others owe, within a category and, in the
\* total, across categories.  Where every stored status is the one a recompute
\* would store and nobody was refunded more than was paid, nothing is hidden and a
\* page shows dues exactly while an invoice is neither PAID nor WAIVED.
DuesAgreeOn(invoices) ==
    LET students == {invoices[i].student : i \in DOMAIN invoices}
        due      == Total(LAMBDA s : StudentOutstanding(invoices, s), students)
        missed   == Total(LAMBDA i : Outstanding(Owed(invoices[i]), invoices[i].net),
                          {i \in DOMAIN invoices : invoices[i].status = "PAID"})
        report   == FinancialSummary(invoices)
        listed   == Total(LAMBDA c : report.byCategory[c].outstanding, DOMAIN report.byCategory)
        overpaid == \E i \in DOMAIN invoices : invoices[i].net > Payable(invoices[i])
        current(row) == \/ row.status = RecomputedStatus(row)
                        \/ row.status = "OVERDUE" /\ RecomputedStatus(row) = "PENDING"
        kept     == \A i \in DOMAIN invoices : current(invoices[i]) /\ invoices[i].net >= 0
    IN /\ report.total.outstanding <= listed /\ listed <= due + missed
       /\ ~overpaid => report.total.outstanding = due + missed
       /\ kept => /\ missed = 0
                  /\ \A s \in students :
                       StudentOutstanding(invoices, s) = 0 <=>
                         \A i \in DOMAIN invoices :
                           invoices[i].student = s => invoices[i].status \in {"PAID", "WAIVED"}

\* The page and the report differ by those who came late and by rounding.
AttendanceAgreesOn(records) ==
    LET page == StudentAttendance(records) report == AttendanceReport(records) IN
      /\ page.presentCount + page.lateCount = report.presentCount
      /\ 10 * page.percentage <= report.percentage + 5
      /\ page.lateCount = 0 => report.percentage <= 10 * page.percentage + 5

\* A leave balance never counts fewer days than the student was away in the year,
\* and exactly those when no leave goes on into another year or overlaps another:
\* for leaves from midnight to midnight, as dates without a time are.  Any other
\* may be counted a day short or a day long.
LeaveIsCountedIn(leaves, type, y, quota) ==
    LET mine    == {i \in DOMAIN leaves : leaves[i].type = type}
        days(i) == DayOf(leaves[i].from)..DayOf(leaves[i].to)
        away    == Cardinality({d \in Year(y) : \E i \in mine : d \in days(i)})
        whole   == \A i \in mine : days(i) \subseteq Year(y) \/ days(i) \cap Year(y) = {}
        apart   == \A i, j \in mine : i # j => days(i) \cap days(j) = {}
        slack   == Cardinality({i \in CountedLeaves(leaves, type, y) :
                                  \E t \in {leaves[i].from, leaves[i].to} : t % TicksPerDay # 0})
        used    == UsedDays(leaves, type, y)
    IN /\ used + slack >= away
       /\ whole /\ apart => used <= away + slack
       /\ away >= quota + slack => RemainingDays(leaves, type, y, quota) = 0

=============================================================================
