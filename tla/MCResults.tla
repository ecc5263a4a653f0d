------------------------------- MODULE MCResults -------------------------------
\* What is computed on read, on small tables: the table one computation reads is
\* filled row by row, and every table on the way is read.
EXTENDS Results, Audience, Interchange, TLC

VARIABLES
    area,   \* which computation is considered
    table   \* what it reads

Papers == {"e1", "e2"} \X {"s1", "s2"}
\* <<marksObtained, maxMarks>> on, next to and beyond the bounds of the grades.
Scores    == {<<2, 5>>, <<5, 5>>, <<3, 10>>, <<4, 10>>, <<9, 10>>, <<11, 10>>}
TwoCredits   == [s1 |-> 3, s2 |-> 4]
TwoSemesters == [s1 |-> 1, s2 |-> 2]

Invoices == [student : {"ana", "bob"}, category : {"TUITION", "HOSTEL"}, amount : {1},
             delta : {-2, 0, 1}, net : -1..2, status : {"PENDING", "PARTIAL", "PAID", "OVERDUE", "WAIVED"}]
\* Midnight and 18:00 of six days.
Times    == {TicksPerDay * d + t : d \in 0..5, t \in {0, 3}}
Leaves   == {l \in [type : {"SICK", "CASUAL"}, from : Times, to : Times] : l.from <= l.to}
Colleges == [student : [Users -> StudentRow \cup {NoRow}], faculty : [Users -> FacultyRow \cup {NoRow}],
             batchOf : [Sections -> Batches], programOf : [Batches -> Programs],
             teaches : SUBSET (Users \X Sections)]

Characters == {"a", "A", Quote, Comma, Newline, Return}
FoldCase == [c \in {"a", "A", "b", "1", "2", "d", "e", Quote, Comma, Newline, Return, "space"} |->
               IF c = "A" THEN "a" ELSE c]
\* E-mail and roll number: none, one, the same e-mail again, another with either number.
Names == {<< <<>>, <<"1">> >>, << <<"a">>, <<"1">> >>, << <<"A", "space">>, <<"2">> >>,
          << <<"b">>, <<"1">> >>, << <<"b">>, <<"2">> >>}
\* The department is inactive, or the section is one that is there or one that is not.
References == {<< <<"e">>, <<>> >>, << <<"d">>, <<"1">> >>, << <<"d">>, <<"2">> >>}
Lines == {n \o r \o << <<Quote, Newline, "a", Return, Newline>> >> : n \in Names, r \in References}
Accepting == {<<"d">>}
OneSection == {<<"1">>}
Headers == {Columns, <<"email", "rollNumber", "departmentId">>,
            <<"rollNumber", "email", "departmentId", "sectionId", "address">>}
Ana == [email |-> <<"a">>, rollNumber |-> <<"1">>, departmentId |-> <<"d">>, sectionId |-> <<>>, address |-> <<>>]

Empty ==
    {<<"marks", [k \in Papers |-> [obtained |-> 0, max |-> 1, counts |-> FALSE]]>>,
     <<"dues", <<>> >>, <<"leave", <<>> >>, <<"college", <<>> >>,
     <<"attendance", [s \in Statuses |-> 0]>>,
     <<"csv", << <<(<<>>)>> >> >>}
      \cup {<<"import", [header |-> h, rows |-> <<>>, students |-> s]>> :
              h \in Headers, s \in {<<>>, <<Ana>>}}

TablesInit == \E e \in Empty : area = e[1] /\ table = e[2]

Add(a, value) == area = a /\ table' = value /\ UNCHANGED area

PublishMark ==
    \E k \in Papers, s \in Scores :
      Add("marks", [table EXCEPT ![k] = [obtained |-> s[1], max |-> s[2], counts |-> TRUE]])
Bill   == \E row \in Invoices : area = "dues" /\ Len(table) < 2 /\ Add("dues", Append(table, row))
Attend ==
    \E s \in Statuses :
      /\ area = "attendance" /\ Total(LAMBDA t : table[t], Statuses) < 6
      /\ Add("attendance", [table EXCEPT ![s] = @ + 1])
Leave  == \E l \in Leaves : area = "leave" /\ Len(table) < 2 /\ Add("leave", Append(table, l))
Found  == \E c \in Colleges : area = "college" /\ table = <<>> /\ Add("college", c)

\* A cell goes on, or the next cell or row begins: at most 5 of these.
Size == FoldLeft(LAMBDA n, row : n + 1 + FoldLeft(LAMBDA m, cell : m + 1 + Len(cell), 0, row), 0, table)
LastRow == table[Len(table)]
Write ==
    /\ area = "csv" /\ Size < 7
    /\ \/ \E c \in Characters :
            Add("csv", [table EXCEPT ![Len(table)][Len(LastRow)] = Append(@, c)])
       \/ Add("csv", [table EXCEPT ![Len(table)] = Append(@, <<>>)])
       \/ Add("csv", Append(table, <<(<<>>)>>))
WriteLine ==
    \E line \in Lines :
      /\ area = "import" /\ Len(table.rows) < 3
      /\ Add("import", [table EXCEPT !.rows = Append(@, line)])

TablesNext == PublishMark \/ Bill \/ Attend \/ Leave \/ Found \/ Write \/ WriteLine
TablesSpec == TablesInit /\ [][TablesNext]_<<area, table>>

-----------------------------------------------------------------------------
\* The grades, the student's page, the reports and the leave balance do not
\* contradict each other or the rows they are computed from.
FiguresAgree ==
    /\ area = "marks" => ResultsAgreeOn(table)
    /\ area = "dues" => DuesAgreeOn(table)
    /\ area = "attendance" => AttendanceAgreesOn(table)
    /\ area = "leave" =>
         \A type \in {"SICK", "CASUAL"}, y \in 1..2, quota \in 0..DaysPerYear :
           LeaveIsCountedIn(table, type, y, quota)

\* Who is notified is who finds it in the feed, and who is a member of the class group.
AudienceReadsIt ==
    area = "college" /\ table # <<>> => FeedMatchesAudience(table) /\ GroupMatchesMembers(table)

\* Files survive writing and reading, and an interrupted import can be repeated.
ImportRestarts ==
    /\ area = "csv" => RoundTrip(table)
    /\ area = "import" =>
         LET file    == [header |-> table.header, text |-> StringifyCsv(table.rows)]
             records == Records(file)
         IN /\ Restarts(records, table.students)
            /\ \A troubles \in OneTrouble(records) : Accounts(records, table.students, troubles)
            /\ ExportRestores(Commit(records, table.students, Smoothly(records)).students)

=============================================================================
