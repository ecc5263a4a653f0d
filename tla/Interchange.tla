------------------------------ MODULE Interchange ------------------------------
(***************************************************************************)
(* CSV files of students: reading and writing them (src/src/utils/csv.ts), *)
(* and the import, its preview and the export                              *)
(* (src/src/modules/import-export/importExport.service.ts).                *)
(*                                                                         *)
(* Nothing records how far an import got: it creates student after student *)
(* and, if the server stops, those created stay.  The office's only remedy *)
(* is to upload the file again.  A text is a sequence of characters.  Of   *)
(* the fifteen columns there are five: two that must be unique, two that   *)
(* refer to another row, and one that may be empty.                        *)
(***************************************************************************)
EXTENDS Integers, Sequences, SequencesExt

CONSTANTS
    LowerCase,         \* LowerCase[c]: the lower case of a character
    ActiveDepartments, \* the ids of departments that are ACTIVE
    KnownSections      \* the ids of sections

Quote    == "quote"      \* the character "
Comma    == "comma"
Newline  == "LF"
Return   == "CR"
Space    == {Newline, Return, "space"}

Columns  == <<"email", "rollNumber", "departmentId", "sectionId", "address">>
Required == {"email", "rollNumber", "departmentId"}

-----------------------------------------------------------------------------
\* stringifyCsv.

ToCsvField(value) ==
    LET escaped == FoldLeft(LAMBDA s, c : s \o IF c = Quote THEN <<Quote, Quote>> ELSE <<c>>, <<>>, value)
    IN IF {Quote, Comma, Newline} \cap ToSet(value) = {} THEN value
       ELSE <<Quote>> \o escaped \o <<Quote>>

Joined(parts, separator) ==
    FoldLeftDomain(LAMBDA s, i : (IF i = 1 THEN s ELSE Append(s, separator)) \o parts[i], <<>>, parts)

StringifyCsv(rows) ==
    Joined([i \in DOMAIN rows |-> Joined([j \in DOMAIN rows[i] |-> ToCsvField(rows[i][j])], Comma)],
           Newline)

-----------------------------------------------------------------------------
\* parseCsv.

\* Carriage returns go where a line feed follows.
LineFeeds(input) ==
    FoldLeftDomain(LAMBDA s, i : IF input[i] = Return /\ i < Len(input) /\ input[i + 1] = Newline
                                   THEN s ELSE Append(s, input[i]), <<>>, input)

\* One turn of the loop at character i of text; skip: the last turn took two.
Scan(st, text, i) ==
    LET c == text[i]
        doubled == i < Len(text) /\ text[i + 1] = Quote
    IN CASE st.skip -> [st EXCEPT !.skip = FALSE]
         [] ~st.skip /\ st.inQuotes /\ c = Quote /\ doubled ->
              [st EXCEPT !.field = Append(@, Quote), !.skip = TRUE]
         [] ~st.skip /\ st.inQuotes /\ c = Quote /\ ~doubled -> [st EXCEPT !.inQuotes = FALSE]
         [] ~st.skip /\ ~st.inQuotes /\ c = Quote -> [st EXCEPT !.inQuotes = TRUE]
         [] ~st.skip /\ ~st.inQuotes /\ c = Comma ->
              [st EXCEPT !.row = Append(@, st.field), !.field = <<>>]
         [] ~st.skip /\ ~st.inQuotes /\ c = Newline ->
              [st EXCEPT !.rows = Append(@, Append(st.row, st.field)), !.row = <<>>, !.field = <<>>]
         [] OTHER -> [st EXCEPT !.field = Append(@, c)]

IsBlank(row) == row = <<(<<>>)>>

ParseCsv(input) ==
    LET text  == LineFeeds(input)
        start == [rows |-> <<>>, row |-> <<>>, field |-> <<>>, inQuotes |-> FALSE, skip |-> FALSE]
        after[i \in 0..Len(text)] == IF i = 0 THEN start ELSE Scan(after[i - 1], text, i)
        last  == after[Len(text)]
        rows  == IF last.field # <<>> \/ last.row # <<>>
                   THEN Append(last.rows, Append(last.row, last.field)) ELSE last.rows
    IN SelectSeq(rows, LAMBDA row : ~IsBlank(row))

-----------------------------------------------------------------------------
\* From rows to students.

Trim(value) ==
    LET kept == {i \in DOMAIN value : value[i] \notin Space} IN
      IF kept = {} THEN <<>> ELSE SubSeq(value, Min(kept), Max(kept))

Lower(value) == [i \in DOMAIN value |-> LowerCase[value[i]]]

\* A column that is not in the header reads like an empty one; of two columns of
\* one name the last counts.  Header cells are the names of columns.
Field(header, row, column) ==
    LET at == {i \in DOMAIN header : header[i] = column} IN
      IF at = {} \/ Max(at) > Len(row) THEN <<>> ELSE row[Max(at)]

\* recordToStudentInput and studentInputSchema, which trims all but ids.
Record(header, row) ==
    [c \in ToSet(Columns) |->
       IF c \in {"departmentId", "sectionId"} THEN Field(header, row, c) ELSE Trim(Field(header, row, c))]
Parses(record)      == \A c \in Required : record[c] # <<>>

\* createStudent: what it inserts, or that it refuses.
Taken(students, record) ==
    \E i \in DOMAIN students :
      \/ Lower(students[i]["email"]) = Lower(record["email"])
      \/ Lower(students[i]["rollNumber"]) = Lower(record["rollNumber"])

Refers(record) ==
    record["departmentId"] \in ActiveDepartments /\ record["sectionId"] \in KnownSections \cup {<<>>}

Creates(students, record) == Refers(record) /\ ~Taken(students, record)

-----------------------------------------------------------------------------
\* Preview, commit and export.

\* csvToRecords: a file is its header and the text of the rows below it.
Records(file) ==
    LET rows == ParseCsv(file.text) IN [i \in DOMAIN rows |-> Record(file.header, rows[i])]

\* index + 2, with index counted from 0.
RowNumber(i) == i + 1

Preview(records) ==
    [totalRows |-> Len(records),
     invalid   |-> {RowNumber(i) : i \in {i \in DOMAIN records : ~Parses(records[i])}}]

\* A row may fail for another reason than createStudent's own, before its student
\* is inserted or after it: 'Unknown error'.
Troubles == {"none", "before", "after"}

\* commitStudentImport: one turn of the loop.
\* The first row refused would end the import.
Mutant_CommitRow(st, record, row, trouble) ==
    IF Parses(record) /\ Creates(st.students, record) /\ trouble # "before" /\ st.failed = {}
      THEN [st EXCEPT !.students = Append(@, record), !.created = @ + 1]
      ELSE [st EXCEPT !.failed = @ \cup {row}]

CommitRow(st, record, row, trouble) ==
    LET inserts == Parses(record) /\ Creates(st.students, record) /\ trouble # "before"
        answers == inserts /\ trouble # "after"
    IN [students |-> IF inserts THEN Append(st.students, record) ELSE st.students,
        created  |-> IF answers THEN st.created + 1 ELSE st.created,
        failed   |-> IF answers THEN st.failed ELSE st.failed \cup {row}]

\* The first n rows, after which the server may have stopped.
CommitFirst(n, records, students, troubles) ==
    LET after[i \in 0..n] ==
          IF i = 0 THEN [students |-> students, created |-> 0, failed |-> {}]
          ELSE CommitRow(after[i - 1], records[i], RowNumber(i), troubles[i])
    IN after[n]

Commit(records, students, troubles) == CommitFirst(Len(records), records, students, troubles)

\* exportStudentsCsv, of all students, oldest first.
Export(students) ==
    [header |-> Columns,
     text   |-> StringifyCsv([i \in DOMAIN students |->
                               [j \in DOMAIN Columns |-> students[i][Columns[j]]]])]

-----------------------------------------------------------------------------

\* What is written is what is read back, whatever a cell contains, but for rows
\* that are one empty cell and for carriage returns.
RoundTrip(rows) ==
    (\A i \in DOMAIN rows : \A j \in DOMAIN rows[i] : Return \notin ToSet(rows[i][j])) =>
      ParseCsv(StringifyCsv(rows)) = SelectSeq(rows, LAMBDA row : ~IsBlank(row))

\* What may happen to an import: no row, or one, has trouble.
Smoothly(records)   == [i \in DOMAIN records |-> "none"]
OneTrouble(records) ==
    {Smoothly(records)}
      \cup {[Smoothly(records) EXCEPT ![i] = t] : i \in DOMAIN records, t \in Troubles}

\* An import that was cut short anywhere and is done again ends as if it had run
\* once, and a third upload creates nobody.  One in which a row had trouble, done
\* again, leaves no row without a student that could have one, and no student twice.
Restarts(records, students) ==
    LET run(before, troubles) == Commit(records, before, troubles)
        smoothly == Smoothly(records)
        once     == run(students, smoothly).students
    IN /\ \A n \in 0..Len(records) :
            run(CommitFirst(n, records, students, smoothly).students, smoothly).students = once
       /\ run(once, smoothly).created = 0
       /\ \A troubles \in OneTrouble(records) :
            LET again == run(run(students, troubles).students, smoothly).students IN
              /\ \A i \in DOMAIN records :
                   Parses(records[i]) /\ Refers(records[i]) => Taken(again, records[i])
              /\ \A i, j \in DOMAIN again :
                   Lower(again[i]["email"]) = Lower(again[j]["email"]) => i = j

\* Every row is created or reported; the rows the preview finds invalid are
\* reported, and a row it finds valid is refused only where another student, met
\* before or in the file, its department or its section stands in the way, or
\* where it had trouble.  A student is inserted for every row created, and for a
\* reported one only where it had trouble after that.
Accounts(records, students, troubles) ==
    LET answer  == Commit(records, students, troubles)
        preview == Preview(records)
        behind  == Cardinality({i \in DOMAIN records : troubles[i] = "after"})
    IN /\ answer.created + Cardinality(answer.failed) = preview.totalRows
       /\ preview.invalid \subseteq answer.failed
       /\ Len(answer.students) - Len(students) \in answer.created..(answer.created + behind)
       /\ \A i \in DOMAIN records :
            RowNumber(i) \in answer.failed \ preview.invalid =>
              ~Refers(records[i]) \/ Taken(answer.students, records[i]) \/ troubles[i] = "before"

\* The export of a college, imported by an empty one, makes the same students.
ExportRestores(students) ==
    Commit(Records(Export(students)), <<>>, [i \in DOMAIN students |-> "none"]).students = students

=============================================================================
