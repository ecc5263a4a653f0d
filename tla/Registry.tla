------------------------------ MODULE Registry ------------------------------
(***************************************************************************)
(* The tables the rest of the system refers to: departments, programs,     *)
(* batches, sections, subjects, rooms, academic years, period slots,       *)
(* timetable entries, leave and certificate types, companies, and faculty  *)
(* members with their accounts (src/src/modules/departments, programs,     *)
(* batches, sections, subjects, rooms, academic-years, timetable, leave,   *)
(* certificates, placements, faculty); and of the rows that refer to them  *)
(* only the reference.                                                     *)
(*                                                                         *)
(* The services are built alike.  A row may not conflict with another of   *)
(* its kind (same name or code ignoring case, overlapping times), which is *)
(* checked before it is written; it refers to rows of other kinds, which   *)
(* are checked too; and it is deleted only after the rows that refer to it *)
(* were counted.  mode.scope says which kinds an instance follows: those   *)
(* outside it are given and stay.                                          *)
(***************************************************************************)
EXTENDS Naturals, FiniteSets, Requests

CONSTANTS
    Ids,     \* ids of rows of any kind, never reused (cuid)
    Given,   \* Given[k]: ids of the rows of kind k outside the scope
    Names,   \* spellings of names, codes and e-mail addresses
    Fold,    \* Fold[n]: the name n without its case
    Slots,   \* times a period or a timetable entry may be put at
    Asked(_) \* whether requests carry this row: the inputs considered

Named  == {"department", "program", "batch", "section", "subject", "room", "year", "faculty", "user",
           "leaveType", "certificateType", "company"}
Booked == {"period", "entry"}
\* Rows that have a life of their own in other modules; attendance sessions stand
\* for every row that holds others and is counted by no service.
Outer  == {"student", "session", "activity", "message", "leave", "certificate", "opening"}
Kinds  == Named \cup Booked \cup Outer

ASSUME RegistryAssumption ==
    /\ \A m \in Modes : m.scope \subseteq Kinds /\ ("faculty" \in m.scope <=> "user" \in m.scope)
    /\ Slots \subseteq [day : Nat, start : Nat, end : Nat]
    /\ \A t \in Slots : t.start < t.end            \* refused by the schemas otherwise
    /\ Fold \in [Names -> Names]
    /\ \A k \in Kinds : Given[k] \cap Ids = {}
    /\ "NONE" \notin Ids \cup UNION {Given[k] : k \in Kinds}
    /\ Ids \cap Kinds = {}                          \* no cuid is a word

VARIABLES
    row,      \* row[x]: the row x
    teacher   \* accounts that were given the role FACULTY

vars == <<mode, row, teacher, req>>

\* The kinds that a row refers to.
Refs(k) ==
    CASE k = "program" -> {"department"}
      [] k = "batch"   -> {"program", "year"}
      [] k = "section" -> {"batch"}
      [] k = "subject" -> {"program", "faculty"}
      [] k = "faculty" -> {"department", "user"}
      [] k = "entry"   -> {"section", "subject", "faculty", "room"}
      [] k = "student" -> {"department", "section"}
      [] k = "session" -> {"section", "subject", "faculty"}
      [] k = "activity"    -> {"student"}
      [] k = "message"     -> {"section"}
      [] k = "leave"       -> {"leaveType"}
      [] k = "certificate" -> {"certificateType"}
      [] k = "opening"     -> {"company"}
      [] OTHER         -> {}

\* Optional references, which the database sets to NULL when their row goes, and
\* those whose rows go along; the others are ON DELETE RESTRICT (no account is
\* ever deleted).
Optional(k) == IF k = "subject" THEN {"faculty"} ELSE IF k = "student" THEN {"section"} ELSE {}
Cascades(k) == IF k = "message" THEN {"section"} ELSE {}

NoRow   == [kind |-> "absent"]
Deleted == [kind |-> "deleted"]
Keys(k) == IF k \in Named THEN Names ELSE IF k \in Booked THEN Slots ELSE {"NONE"}
Targets(k, f, scope) ==
    (IF f \in scope THEN Ids ELSE Given[f])
      \cup (IF f \in Optional(k) \cup {"user"} THEN {"NONE"} ELSE {})
\* on: isCurrent of a year, isActive of an account; TRUE elsewhere
Flags(k) == IF k \in {"year", "user"} THEN BOOLEAN ELSE {TRUE}
Rows(k, scope) ==
    {[kind |-> k, key |-> key, on |-> on, refs |-> refs] :
       key \in Keys(k), on \in Flags(k),
       refs \in {g \in [Refs(k) -> UNION {Targets(k, f, scope) : f \in Refs(k)}] :
                   \A f \in Refs(k) : g[f] \in Targets(k, f, scope)}}
RowsOf  == [m \in Modes |-> UNION {Rows(k, m.scope) : k \in m.scope}]
AllRows == RowsOf[mode]
Inputs  == {d \in AllRows : Asked(d)}

Request ==
    {Idle}
      \cup [pc : {"insert"}, d : AllRows]
      \cup [pc : {"update"}, x : Ids, d : AllRows]
      \cup [pc : {"clearOthers", "delete"}, x : Ids]
      \cup [pc : {"insertUser"}, d : AllRows, email : Names]
      \cup [pc : {"insertRole"}, d : AllRows, u : Ids]
      \cup [pc : {"deactivate"}, x : Ids, u : Ids]

Is(x, k)    == row[x].kind = k
Exists(x)   == row[x].kind \in Kinds
Of(k)       == {x \in Ids : Is(x, k)}
\* x refers to y
RefersTo(x, y) == Exists(x) /\ \E f \in Refs(row[x].kind) : row[x].refs[f] = y

TypeOK ==
    /\ row \in [Ids -> AllRows \cup {NoRow, Deleted}]
    /\ teacher \subseteq Ids
    /\ req \in [Reqs -> Request]

Init ==
    /\ mode \in Modes
    /\ row = [x \in Ids |-> NoRow]
    /\ teacher = {}
    /\ req = [r \in Reqs |-> Idle]

-----------------------------------------------------------------------------
\* Request bookkeeping.

\* What a row speaks for: its kind (names and times are compared within it, and
\* one year is current) and the rows it refers to.
Involves(d) ==
    ({d.kind} \cup {d.refs[f] : f \in Refs(d.kind)} \cup (IF d.kind = "faculty" THEN {"user"} ELSE {}))
      \ {"NONE"}
Touches(q) ==
    CASE req[q].pc \in {"insert", "insertUser", "insertRole"} -> Involves(req[q].d)
      [] req[q].pc = "update" -> {req[q].x} \cup Involves(req[q].d)
      [] req[q].pc \in {"clearOthers", "deactivate", "delete"} ->
           {req[q].x} \cup (IF Exists(req[q].x) THEN Involves(row[req[q].x]) ELSE {})
      [] OTHER -> {}

\* The code serialises nothing (MayOverlap); otherwise requests
\* that touch the same thing take turns.
MayStart(r, things) ==
    /\ req[r] = Idle
    /\ MayOverlap \/ \A q \in Reqs : Touches(q) \cap things = {}

\* The server stops, or a query fails: earlier queries of r stay committed.
Die(r) ==
    /\ Faults /\ req[r] # Idle
    /\ Done(r)
    /\ UNCHANGED <<row, teacher>>

-----------------------------------------------------------------------------
\* The checks.

TimesOverlap(s, t) == s.start < t.end /\ t.start < s.end

\* A name is unique within the rows that this reference agrees on: a batch's
\* within its program, a section's within its batch, any other's in its tenant.
SameOwner(d, e) ==
    CASE d.kind = "batch"   -> d.refs["program"] = e.refs["program"]
      [] d.kind = "section" -> d.refs["batch"] = e.refs["batch"]
      [] OTHER -> TRUE

\* Two entries share the faculty member, the room or the section.
ShareResource(d, e) == \E f \in {"faculty", "room", "section"} : d.refs[f] = e.refs[f]

\* The lookup is insensitive to case, except by a user's e-mail.
SameName(d, e) == IF d.kind = "user" THEN d.key = e.key ELSE Fold[d.key] = Fold[e.key]

Conflict(d, e) ==
    /\ d.kind = e.kind
    /\ CASE d.kind \in Named -> SameName(d, e) /\ SameOwner(d, e)
         [] d.kind = "period" -> TimesOverlap(d.key, e.key)
         [] d.kind = "entry" -> /\ d.key.day = e.key.day
                                /\ TimesOverlap(d.key, e.key)
                                /\ ShareResource(d, e)
         [] OTHER -> FALSE

\* assertUniqueCode, assertUniqueName, assertNoConflicts, assertNoOverlap; x is
\* excluded: the row being updated, which the mutant would not check at all.
Mutant_NoRival(d, x) == x = "NONE" => \A y \in Ids : Exists(y) => ~Conflict(row[y], d)
NoRival(d, x) == \A y \in Ids \ {x} : Exists(y) => ~Conflict(row[y], d)

\* The rows d refers to exist; the account of a faculty member is yet to come.
RefsExist(d) ==
    \A f \in (Refs(d.kind) \cap mode.scope) \ {"user"} :
      \/ f \in Optional(d.kind) /\ d.refs[f] = "NONE"
      \/ d.refs[f] # "NONE" /\ Is(d.refs[f], f)

\* The unique index compares spellings; times have none.
Collides(d, e) ==
    d.kind \in Named /\ d.kind = e.kind /\ d.key = e.key /\ SameOwner(d, e)
NoCollision(d, x) == \A y \in Ids \ {x} : Exists(y) => ~Collides(row[y], d)

\* Foreign keys and unique indexes at the moment of the write, without the
\* foreign keys in the mutant.
Mutant_Writable(d, x) == NoCollision(d, x)
Writable(d, x) == RefsExist(d) /\ NoCollision(d, x)

-----------------------------------------------------------------------------
\* The handlers of all kinds.

Create(r, d) ==
    /\ MayStart(r, Involves(d))
    /\ RefsExist(d)                               \* else 400
    /\ NoRival(d, "NONE")                         \* else 409
    /\ Goto(r, [pc |-> "insert", d |-> d])
    /\ UNCHANGED <<row, teacher>>

\* A year that is current goes on to clear the others.
AfterWrite(r, x, d) ==
    IF d.kind = "year" /\ d.on THEN Goto(r, [pc |-> "clearOthers", x |-> x]) ELSE Done(r)

Insert(r, x) ==
    /\ At(r, "insert")
    /\ row[x] = NoRow
    /\ LET d == req[r].d IN
         IF Writable(d, x)
         THEN row' = [row EXCEPT ![x] = d] /\ AfterWrite(r, x, d)
         ELSE UNCHANGED row /\ Done(r)
    /\ UNCHANGED teacher

Update(r, x, d) ==
    /\ Is(x, d.kind)                              \* else 404
    /\ MayStart(r, {x} \cup Involves(d) \cup Involves(row[x]))
    /\ RefsExist(d)
    /\ NoRival(d, x)
    /\ Goto(r, [pc |-> "update", x |-> x, d |-> d])
    /\ UNCHANGED <<row, teacher>>

\* A row deleted since is not found (P2025).
UpdateWrite(r) ==
    /\ At(r, "update")
    /\ LET x == req[r].x  d == req[r].d IN
         IF Exists(x) /\ Writable(d, x)
         THEN row' = [row EXCEPT ![x] = d] /\ AfterWrite(r, x, d)
         ELSE UNCHANGED row /\ Done(r)
    /\ UNCHANGED teacher

\* Nothing of these kinds refers to x.
NoneOf(kinds, x) == \A y \in Ids : RefersTo(y, x) => row[y].kind \notin kinds

Delete(r, x, counted) ==
    /\ MayStart(r, {x} \cup Involves(row[x]))
    /\ NoneOf(counted, x)                         \* else ..._IN_USE
    /\ Goto(r, IF Is(x, "faculty") THEN [pc |-> "deactivate", x |-> x, u |-> row[x].refs["user"]]
                                   ELSE [pc |-> "delete", x |-> x])
    /\ UNCHANGED <<row, teacher>>

\* Required references to x refuse the delete, optional ones become NULL.
Held(x) ==
    \E y \in Ids : /\ Exists(y)
                   /\ \E f \in Refs(row[y].kind) \ (Optional(row[y].kind) \cup Cascades(row[y].kind)) :
                        row[y].refs[f] = x
GoesAlong(y, x) == Exists(y) /\ \E f \in Cascades(row[y].kind) : row[y].refs[f] = x
Unlinked(d, x) == [d EXCEPT !.refs = [f \in DOMAIN @ |-> IF @[f] = x THEN "NONE" ELSE @[f]]]

DeleteWrite(r) ==
    /\ At(r, "delete")
    /\ LET x == req[r].x IN
         row' = IF Exists(x) /\ ~Held(x)
                THEN [y \in Ids |-> IF y = x \/ GoesAlong(y, x) THEN Deleted
                                    ELSE IF RefersTo(y, x) THEN Unlinked(row[y], x) ELSE row[y]]
                ELSE row
    /\ Done(r)
    /\ UNCHANGED teacher

-----------------------------------------------------------------------------
\* Departments, programs, batches, sections, subjects, rooms.

CreateDepartment(r, d) == d.kind = "department" /\ Create(r, d)
UpdateDepartment(r, x, d) == d.kind = "department" /\ Update(r, x, d)
DeleteDepartment(r, x) == Is(x, "department") /\ Delete(r, x, {"student"})

CreateProgram(r, d) == d.kind = "program" /\ Create(r, d)
UpdateProgram(r, x, d) == d.kind = "program" /\ Update(r, x, d)
DeleteProgram(r, x) == Is(x, "program") /\ Delete(r, x, {"batch", "subject"})

CreateBatch(r, d) == d.kind = "batch" /\ Create(r, d)
UpdateBatch(r, x, d) == d.kind = "batch" /\ Update(r, x, d)
DeleteBatch(r, x) == Is(x, "batch") /\ Delete(r, x, {"section"})

CreateSection(r, d) == d.kind = "section" /\ Create(r, d)
UpdateSection(r, x, d) == d.kind = "section" /\ Update(r, x, d)
\* The students would not be counted: their reference is optional, and refuses
\* nothing.
Mutant_DeleteSection(r, x) == Is(x, "section") /\ Delete(r, x, {"entry"})
DeleteSection(r, x) == Is(x, "section") /\ Delete(r, x, {"student", "entry"})

CreateSubject(r, d) == d.kind = "subject" /\ Create(r, d)
UpdateSubject(r, x, d) == d.kind = "subject" /\ Update(r, x, d)
DeleteSubject(r, x) == Is(x, "subject") /\ Delete(r, x, {"entry"})

CreateRoom(r, d) == d.kind = "room" /\ Create(r, d)
UpdateRoom(r, x, d) == d.kind = "room" /\ Update(r, x, d)
DeleteRoom(r, x) == Is(x, "room") /\ Delete(r, x, {"entry"})

-----------------------------------------------------------------------------
\* Academic years.

CreateAcademicYear(r, d) == d.kind = "year" /\ Create(r, d)
UpdateAcademicYear(r, x, d) == d.kind = "year" /\ Update(r, x, d)
DeleteAcademicYear(r, x) == Is(x, "year") /\ Delete(r, x, {"batch"})

\* One UPDATE statement, which the mutant would have only clear other years
\* that no batch refers to.
Mutant_ClearOtherCurrentYears(r) ==
    /\ At(r, "clearOthers")
    /\ row' = [y \in Ids |-> IF Is(y, "year") /\ y # req[r].x /\ \A z \in Ids : ~RefersTo(z, y)
                             THEN [row[y] EXCEPT !.on = FALSE] ELSE row[y]]
    /\ Done(r)
    /\ UNCHANGED teacher
ClearOtherCurrentYears(r) ==
    /\ At(r, "clearOthers")
    /\ row' = [y \in Ids |-> IF Is(y, "year") /\ y # req[r].x
                             THEN [row[y] EXCEPT !.on = FALSE] ELSE row[y]]
    /\ Done(r)
    /\ UNCHANGED teacher

-----------------------------------------------------------------------------
\* Period slots and timetable entries.

CreatePeriodSlot(r, d) == d.kind = "period" /\ Create(r, d)
UpdatePeriodSlot(r, x, d) == d.kind = "period" /\ Update(r, x, d)
DeletePeriodSlot(r, x) == Is(x, "period") /\ Delete(r, x, {})

CreateTimetableEntry(r, d) == d.kind = "entry" /\ Create(r, d)
UpdateTimetableEntry(r, x, d) == d.kind = "entry" /\ Update(r, x, d)
DeleteTimetableEntry(r, x) == Is(x, "entry") /\ Delete(r, x, {})

-----------------------------------------------------------------------------
\* Faculty members: account, role and member are three inserts.

\* No code of another member (ignoring case) and no account with this address.
CreateFaculty(r, d, email) ==
    /\ d.kind = "faculty" /\ d.refs["user"] = "NONE"
    /\ MayStart(r, Involves(d))
    /\ RefsExist(d)
    /\ NoRival(d, "NONE")                         \* else DUPLICATE_EMPLOYEE_CODE
    /\ \A u \in Of("user") : row[u].key # email   \* else DUPLICATE_EMAIL
    /\ Goto(r, [pc |-> "insertUser", d |-> d, email |-> email])
    /\ UNCHANGED <<row, teacher>>

\* The index on the address refuses a duplicate.
UserInsert(r, u) ==
    /\ At(r, "insertUser")
    /\ row[u] = NoRow
    /\ IF \A v \in Of("user") : row[v].key # req[r].email
       THEN /\ row' = [row EXCEPT ![u] = [kind |-> "user", key |-> req[r].email,
                                          on |-> TRUE, refs |-> [f \in {} |-> "NONE"]]]
            /\ Goto(r, [pc |-> "insertRole", d |-> req[r].d, u |-> u])
       ELSE UNCHANGED row /\ Done(r)
    /\ UNCHANGED teacher

\* The member is inserted last.
RoleInsert(r) ==
    /\ At(r, "insertRole")
    /\ teacher' = teacher \cup {req[r].u}
    /\ Goto(r, [pc |-> "insert", d |-> [req[r].d EXCEPT !.refs["user"] = req[r].u]])
    /\ UNCHANGED row

\* The account keeps its name only, and stays the member's.
UpdateFaculty(r, x, d) ==
    /\ Is(x, "faculty") /\ d.kind = "faculty"
    /\ Update(r, x, [d EXCEPT !.refs["user"] = row[x].refs["user"]])

DeleteFaculty(r, x) == Is(x, "faculty") /\ Delete(r, x, {"entry"})

\* The account is deactivated, never deleted; then the member is deleted, unless
\* the database refuses.
Deactivate(r) ==
    /\ At(r, "deactivate")
    /\ row' = [row EXCEPT ![req[r].u].on = FALSE]
    /\ Goto(r, [pc |-> "delete", x |-> req[r].x])
    /\ UNCHANGED teacher

-----------------------------------------------------------------------------
\* Leave types, certificate types and companies.

CreateLeaveType(r, d) == d.kind = "leaveType" /\ Create(r, d)
UpdateLeaveType(r, x, d) == d.kind = "leaveType" /\ Update(r, x, d)
DeleteLeaveType(r, x) == Is(x, "leaveType") /\ Delete(r, x, {"leave"})

CreateCertificateType(r, d) == d.kind = "certificateType" /\ Create(r, d)
DeleteCertificateType(r, x) == Is(x, "certificateType") /\ Delete(r, x, {"certificate"})

CreateCompany(r, d) == d.kind = "company" /\ Create(r, d)
DeleteCompany(r, x) == Is(x, "company") /\ Delete(r, x, {"opening"})

-----------------------------------------------------------------------------
\* Rows of other modules.

CreateStudent(r, d) == d.kind = "student" /\ Create(r, d)
UpdateStudent(r, x, d) == d.kind = "student" /\ Update(r, x, d)
DeleteStudent(r, x) == Is(x, "student") /\ Delete(r, x, {})
CreateSession(r, d) == d.kind = "session" /\ Create(r, d)

\* A class group message, which is never updated or deleted on its own.
PostMessage(r, d) == d.kind = "message" /\ Create(r, d)

\* Requests for a leave or a certificate are never deleted; an opening is if nobody
\* applied (Decisions).
CreateLeaveRequest(r, d) == d.kind = "leave" /\ Create(r, d)
CreateRequest(r, d) == d.kind = "certificate" /\ Create(r, d)
CreateJobOpening(r, d) == d.kind = "opening" /\ Create(r, d)
DeleteJobOpening(r, x) == Is(x, "opening") /\ Delete(r, x, {})

\* The student an activity is recorded of does not change.
CreateActivity(r, d) == d.kind = "activity" /\ Create(r, d)
UpdateActivity(r, x, d) ==
    /\ Is(x, "activity") /\ d.kind = "activity"
    /\ Update(r, x, row[x])
DeleteActivity(r, x) == Is(x, "activity") /\ Delete(r, x, {})

-----------------------------------------------------------------------------
BeginCreate(r, d) ==
    \/ CreateDepartment(r, d) \/ CreateProgram(r, d) \/ CreateBatch(r, d)
    \/ CreateSection(r, d) \/ CreateSubject(r, d) \/ CreateRoom(r, d)
    \/ CreateAcademicYear(r, d) \/ CreatePeriodSlot(r, d) \/ CreateTimetableEntry(r, d)
    \/ CreateLeaveType(r, d) \/ CreateCertificateType(r, d) \/ CreateCompany(r, d)
    \/ CreateStudent(r, d) \/ CreateSession(r, d) \/ CreateActivity(r, d) \/ PostMessage(r, d)
    \/ CreateLeaveRequest(r, d) \/ CreateRequest(r, d) \/ CreateJobOpening(r, d)
    \/ \E email \in Names : CreateFaculty(r, d, email)

BeginUpdate(r, x, d) ==
    \/ UpdateDepartment(r, x, d) \/ UpdateProgram(r, x, d) \/ UpdateBatch(r, x, d)
    \/ UpdateSection(r, x, d) \/ UpdateSubject(r, x, d) \/ UpdateRoom(r, x, d)
    \/ UpdateAcademicYear(r, x, d) \/ UpdatePeriodSlot(r, x, d) \/ UpdateTimetableEntry(r, x, d)
    \/ UpdateStudent(r, x, d) \/ UpdateFaculty(r, x, d) \/ UpdateLeaveType(r, x, d) \/ UpdateActivity(r, x, d)

BeginDelete(r, x) ==
    \/ DeleteDepartment(r, x) \/ DeleteProgram(r, x) \/ DeleteBatch(r, x)
    \/ DeleteSection(r, x) \/ DeleteSubject(r, x) \/ DeleteRoom(r, x)
    \/ DeleteAcademicYear(r, x) \/ DeletePeriodSlot(r, x) \/ DeleteTimetableEntry(r, x)
    \/ DeleteStudent(r, x) \/ DeleteFaculty(r, x) \/ DeleteLeaveType(r, x)
    \/ DeleteCertificateType(r, x) \/ DeleteCompany(r, x) \/ DeleteJobOpening(r, x) \/ DeleteActivity(r, x)

Begin(r) ==
    \/ \E d \in Inputs : BeginCreate(r, d) \/ \E x \in Ids : BeginUpdate(r, x, d)
    \/ \E x \in Ids : BeginDelete(r, x)

Continue(r) ==
    \/ \E x \in Ids : Insert(r, x) \/ UserInsert(r, x)
    \/ UpdateWrite(r) \/ DeleteWrite(r) \/ ClearOtherCurrentYears(r)
    \/ RoleInsert(r) \/ Deactivate(r)

Next ==
    /\ \E r \in Reqs : Begin(r) \/ Continue(r) \/ Die(r)
    /\ UNCHANGED mode

Spec == Init /\ [][Next]_vars

-----------------------------------------------------------------------------
\* Properties.

\* However requests overlap and die, no two rows of a kind have the same spelling
\* of a name within their owner.  As long as requests take turns they do not
\* conflict at all: no two names differ in case only (DUPLICATE_...), no two
\* periods overlap (PERIOD_OVERLAP), and no faculty member, room or section has
\* two entries at a time (FACULTY_CONFLICT, ROOM_CONFLICT, SECTION_CONFLICT).
NoConflicts ==
    \A x, y \in Ids :
      x # y /\ Exists(x) /\ Exists(y) =>
        /\ ~Collides(row[x], row[y])
        /\ ~MayOverlap => ~Conflict(row[x], row[y])

\* However requests overlap and die, every reference is to a row of its kind that
\* exists, and an optional one may be empty; every faculty member has an account
\* of their own with the role FACULTY.
ReferencesHold ==
    /\ \A x \in Ids :
         Exists(x) =>
           \A f \in Refs(row[x].kind) \cap mode.scope :
             \/ f \in Optional(row[x].kind) /\ row[x].refs[f] = "NONE"
             \/ row[x].refs[f] # "NONE" /\ Is(row[x].refs[f], f)
    /\ \A x, y \in Of("faculty") :
         /\ row[x].refs["user"] \in teacher
         /\ row[x].refs["user"] = row[y].refs["user"] => x = y

\* deleteSection never takes the section from a student (SECTION_IN_USE), as long
\* as requests take turns: the database alone would set the reference to NULL.
SectionsStayAssigned ==
    [][~MayOverlap =>
         \A x \in Of("section") : row'[x] = Deleted => NoneOf({"student"}, x)]_vars

\* However requests overlap, as long as none dies, at most one academic year is
\* current once the requests that made one so are answered.
OneCurrentYear ==
    ~Faults =>
      \/ \E r \in Reqs : At(r, "clearOthers")
      \/ \A x, y \in Of("year") : row[x].on /\ row[y].on => x = y

\* As long as requests take turns and none dies, accounts and members come and go
\* together: an account with the role FACULTY is one of a member, or of one being
\* made, or inactive; and a member's account is inactive only while the member is
\* being removed, or because rows no service counts refused the removal.
AccountsFollowFaculty ==
    ~MayOverlap /\ ~Faults =>
      /\ \A u \in teacher :
           \/ \E x \in Of("faculty") : row[x].refs["user"] = u
           \/ \E r \in Reqs : At(r, "insert") /\ req[r].d.kind = "faculty" /\ req[r].d.refs["user"] = u
           \/ ~row[u].on
      /\ \A x \in Of("faculty") :
           \/ row[row[x].refs["user"]].on
           \/ Held(x)
           \/ \E r \in Reqs : At(r, "delete") /\ req[r].x = x

\* The rows that follow other rows: other years when one is made current, accounts
\* when members are.
FollowersFollow == TypeOK /\ OneCurrentYear /\ AccountsFollowFaculty

=============================================================================
