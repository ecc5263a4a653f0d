------------------------------- MODULE Library -------------------------------
(***************************************************************************)
(* Library books and their issues:                                         *)
(* src/src/modules/library/library.service.ts.                             *)
(*                                                                         *)
(* A book carries the number of its available copies, which every issue    *)
(* and return changes beside the issue row: Promise.all starts the two     *)
(* queries together, each is a transaction of its own, and neither waits   *)
(* for the other.  Whom a book is issued to plays no part in this.         *)
(***************************************************************************)
EXTENDS Integers, FiniteSets, FiniteSetsExt, Requests, Rows

CONSTANTS
    Books,     \* ids of books, never reused (cuid)
    Issues,    \* ids of issues
    Totals,    \* values of totalCopies in a request
    MaxLate,   \* bound: days an issue may be late
    MaxCopies  \* bound: available copies, which requests that die could raise for ever

ASSUME LibraryAssumption ==
    /\ Totals \subseteq Nat \ {0}
    /\ MaxLate \in Nat /\ MaxCopies \in Nat

VARIABLES
    book,   \* book[b]: the book row
    issue,  \* issue[i]: the issue row
    cut     \* history: books whose total was set below the copies then out

libraryVars == <<mode, book, issue, req, cut>>

FINE_PER_DAY_LATE == 10

BookRow == [total : Totals, available : Int]
\* <<>> stands for a fineAmount of NULL
Fine    == {<<>>} \cup {<<FINE_PER_DAY_LATE * d>> : d \in 1..MaxLate}
\* late: days since the due date, by the clock
IssueRow == [b : Books, returned : BOOLEAN, fine : Fine, late : 0..MaxLate]

Pair    == {"row", "count"}  \* the two queries of a Promise.all
LibraryRequest ==
    {Idle}
      \cup [pc : {"issue"}, b : Books, todo : SUBSET Pair]
      \cup [pc : {"return"}, i : Issues, fine : Fine, todo : SUBSET Pair]
      \cup [pc : {"update"}, b : Books, total : Totals, available : Nat]
      \cup [pc : {"delete"}, b : Books]

Present(b) == book[b] \notin {NoRow, Deleted}
Issued(i)  == issue[i] # NoRow
IssuesOf(b) == {i \in Issues : Issued(i) /\ issue[i].b = b}
Out(b)      == {i \in IssuesOf(b) : ~issue[i].returned}

LibraryTypeOK ==
    /\ book \in [Books -> BookRow \cup {NoRow, Deleted}]
    /\ issue \in [Issues -> IssueRow \cup {NoRow}]
    /\ req \in [Reqs -> LibraryRequest]
    /\ cut \subseteq Books

LibraryInit ==
    /\ mode \in Modes
    /\ book = [b \in Books |-> NoRow]
    /\ issue = [i \in Issues |-> NoRow]
    /\ req = [r \in Reqs |-> Idle]
    /\ cut = {}

-----------------------------------------------------------------------------
\* Request bookkeeping.

\* The book whose rows request q still works on.
AtWorkOn(q) ==
    CASE req[q].pc \in {"issue", "update", "delete"} -> {req[q].b}
      [] req[q].pc = "return" -> {issue[req[q].i].b}
      [] OTHER -> {}

\* The code serialises nothing (MayOverlap); otherwise requests about one book
\* take turns.
MayStartOn(r, b) ==
    /\ req[r] = Idle
    /\ MayOverlap \/ \A q \in Reqs : b \notin AtWorkOn(q)

\* One query of a Promise.all is answered; the request ends with the last.
Pending(r, query) == query \in req[r].todo
Answered(r, query) ==
    IF req[r].todo = {query} THEN Done(r) ELSE Goto(r, [req[r] EXCEPT !.todo = @ \ {query}])

\* The server stops, or a query fails: earlier queries of r stay committed.
LibraryDie(r) ==
    /\ Faults /\ req[r] # Idle
    /\ Done(r)
    /\ UNCHANGED <<book, issue, cut>>

-----------------------------------------------------------------------------
\* The catalogue.

CreateBook(r, b, total) ==
    /\ MayStartOn(r, b)
    /\ book[b] = NoRow
    /\ book' = [book EXCEPT ![b] = [total |-> total, available |-> total]]
    /\ UNCHANGED <<issue, req, cut>>

\* How many copies are out is computed from the two numbers of the row.
CopiesOut(row) == row.total - row.available
Remaining(row, total) == Max({0, total - CopiesOut(row)})

UpdateBook(r, b, total) ==
    /\ MayStartOn(r, b)
    /\ Present(b)                                 \* else 404
    /\ Remaining(book[b], total) <= MaxCopies
    /\ Goto(r, [pc |-> "update", b |-> b, total |-> total,
                available |-> Remaining(book[b], total)])
    /\ UNCHANGED <<book, issue, cut>>

\* The query overwrites both numbers; it fails if the row is gone.
BookUpdate(r) ==
    /\ At(r, "update")
    /\ LET b == req[r].b  total == req[r].total IN
         IF Present(b)
         THEN /\ book' = [book EXCEPT ![b] = [total |-> total, available |-> req[r].available]]
              /\ cut' = IF total < Cardinality(Out(b)) THEN cut \cup {b} ELSE cut
         ELSE UNCHANGED <<book, cut>>
    /\ Done(r)
    /\ UNCHANGED issue

\* Issues refer to a book, returned or not.
Referenced(b) == IssuesOf(b) # {}

DeleteBook(r, b) ==
    /\ MayStartOn(r, b)
    /\ Present(b)                                 \* else 404
    /\ ~Referenced(b)                             \* else BOOK_IN_USE
    /\ Goto(r, [pc |-> "delete", b |-> b])
    /\ UNCHANGED <<book, issue, cut>>

\* bookId is required, so its foreign key is ON DELETE RESTRICT.
BookDelete(r) ==
    /\ At(r, "delete")
    /\ LET b == req[r].b IN
         book' = IF Present(b) /\ ~Referenced(b) THEN [book EXCEPT ![b] = Deleted] ELSE book
    /\ Done(r)
    /\ UNCHANGED <<issue, cut>>

-----------------------------------------------------------------------------
\* issueBook: look at the count, then insert the row and lower the count.

Available(b) == book[b].available > 0

IssueBook(r, b) ==
    /\ MayStartOn(r, b)
    /\ Present(b)                                 \* else 400
    /\ Available(b)                               \* else NO_COPIES_AVAILABLE
    /\ Goto(r, [pc |-> "issue", b |-> b, todo |-> Pair])
    /\ UNCHANGED <<book, issue, cut>>

\* The foreign key refuses a book deleted since.
IssueInsert(r, i, late) ==
    /\ At(r, "issue") /\ Pending(r, "row")
    /\ ~Issued(i)
    /\ LET b == req[r].b IN
         issue' = IF Present(b)
                  THEN [issue EXCEPT ![i] = [b |-> b, returned |-> FALSE, fine |-> <<>>,
                                             late |-> late]]
                  ELSE issue
    /\ Answered(r, "row")
    /\ UNCHANGED <<book, cut>>

\* An increment or decrement works on the number of the moment.
Count(b, change) ==
    book' = IF Present(b) THEN [book EXCEPT ![b].available = @ + change] ELSE book

IssueCount(r) ==
    /\ At(r, "issue") /\ Pending(r, "count")
    /\ Count(req[r].b, -1)
    /\ Answered(r, "count")
    /\ UNCHANGED <<issue, cut>>

-----------------------------------------------------------------------------
\* returnBook: look at the issue, then write it and raise the count.

FineFor(late) == IF late > 0 THEN <<FINE_PER_DAY_LATE * late>> ELSE <<>>

Mutant_Returnable(i) == Issued(i)
Returnable(i) == Issued(i) /\ ~issue[i].returned

ReturnBook(r, i) ==
    /\ Returnable(i)                              \* else 404 or ALREADY_RETURNED
    /\ MayStartOn(r, issue[i].b)
    /\ Goto(r, [pc |-> "return", i |-> i, fine |-> FineFor(issue[i].late), todo |-> Pair])
    /\ UNCHANGED <<book, issue, cut>>

ReturnWrite(r) ==
    /\ At(r, "return") /\ Pending(r, "row")
    /\ LET i == req[r].i IN
         issue' = [issue EXCEPT ![i].returned = TRUE, ![i].fine = req[r].fine]
    /\ Answered(r, "row")
    /\ UNCHANGED <<book, cut>>

\* In the mutant the copy is not counted again.
Mutant_ReturnCount(r) ==
    /\ At(r, "return") /\ Pending(r, "count")
    /\ Answered(r, "count")
    /\ UNCHANGED <<book, issue, cut>>

ReturnCount(r) ==
    /\ At(r, "return") /\ Pending(r, "count")
    /\ book[issue[req[r].i].b].available < MaxCopies
    /\ Count(issue[req[r].i].b, 1)
    /\ Answered(r, "count")
    /\ UNCHANGED <<issue, cut>>

\* A day passes for an issue whose due date has come.
DayPasses(i) ==
    /\ Issued(i) /\ issue[i].late < MaxLate
    /\ issue' = [issue EXCEPT ![i].late = @ + 1]
    /\ UNCHANGED <<book, req, cut>>

-----------------------------------------------------------------------------
LibraryBegin(r) ==
    \/ \E b \in Books :
         \/ DeleteBook(r, b) \/ IssueBook(r, b)
         \/ \E total \in Totals : CreateBook(r, b, total) \/ UpdateBook(r, b, total)
    \/ \E i \in Issues : ReturnBook(r, i)

LibraryContinue(r) ==
    \/ BookUpdate(r) \/ BookDelete(r)
    \/ \E i \in Issues, late \in 0..MaxLate : IssueInsert(r, i, late)
    \/ IssueCount(r) \/ ReturnWrite(r) \/ ReturnCount(r)

LibraryNext ==
    /\ \/ \E r \in Reqs : LibraryBegin(r) \/ LibraryContinue(r) \/ LibraryDie(r)
       \/ \E i \in Issues : DayPasses(i)
    /\ UNCHANGED mode

LibrarySpec == LibraryInit /\ [][LibraryNext]_libraryVars

-----------------------------------------------------------------------------
\* Properties.

Untouched(b) == \A r \in Reqs : b \notin AtWorkOn(r)

\* The count on a book that nobody is working on is its total less its issues
\* that are out, through every catalogue update: what a stored copy of derived
\* data has to be.  This takes requests that take turns and do not die, and a
\* total that was never set below the copies out.
StockMatches ==
    ~MayOverlap /\ ~Faults =>
      \A b \in Books :
        Present(b) /\ Untouched(b) /\ b \notin cut =>
          book[b].available = book[b].total - Cardinality(Out(b))

\* No issue takes a count below zero, as long as requests take turns: also
\* after requests that died between the row and the count.
NeverNegative ==
    ~MayOverlap => \A b \in Books : Present(b) => book[b].available >= 0

\* returnBook takes a book back once: the fine of a return is never replaced, as
\* long as requests take turns.
ReturnIsFinal ==
    [][~MayOverlap =>
         \A i \in Issues :
           Issued(i) /\ issue[i].returned =>
             issue'[i].returned /\ issue'[i].fine = issue[i].fine]_libraryVars

\* However requests overlap and die, a book with issue history is never deleted,
\* though deleteBook counts and deletes in two transactions.
HistoryKeepsBook ==
    \A i \in Issues : Issued(i) => Present(issue[i].b)

\* The count of available copies agrees with the issues, is never negative, and
\* issues are of books that are there.
StockSound == LibraryTypeOK /\ StockMatches /\ NeverNegative /\ HistoryKeepsBook

=============================================================================
