------------------------------ MODULE Decisions ------------------------------
(***************************************************************************)
(* Requests somebody decides: generic approvals, certificates, documents,  *)
(* applications to job openings, submissions to assignments and the        *)
(* invoices of a tenant's subscription (src/src/modules/approvals,         *)
(* certificates, documents, placements, assignments, billing).             *)
(*                                                                         *)
(* In each service a row is created in a first status and later decided by *)
(* a handler that reads the row, checks its status and writes the decision *)
(* in a second query.  mode.service says which service an instance         *)
(* follows.  Applications and submissions answer to an opening or an       *)
(* assignment, their parent; every student has at most one for each.       *)
(***************************************************************************)
EXTENDS Naturals, FiniteSets, Requests, Rows

CONSTANTS
    Items,      \* ids of the rows to decide, never reused (cuid)
    Parents,    \* ids of openings or assignments, never reused
    Students,
    Eligible,   \* students whose CGPA meets the minimum of the openings
    Codes,      \* verification codes: 16 random bytes, taken as never drawn twice
    Marks,      \* marks, and maximum marks of an assignment
    MaxVersion  \* bound on the versions of a document

Services == {"approval", "certificate", "document", "placement", "assignment", "billing"}

ASSUME DecisionsAssumption ==
    /\ \A m \in Modes : m.service \in Services
    /\ Marks \subseteq Nat \ {0}                    \* 0: not marked
    /\ MaxVersion \in Nat \ {0}
    /\ "NONE" \notin Codes \cup Students \cup Parents \cup Items

VARIABLES
    parent,    \* parent[p]: the opening or assignment row
    item,      \* item[i]: the row to decide
    answered,  \* history: <<code, item>> of the certificates clients were handed
    sub        \* the subscription of the tenant

vars == <<mode, parent, item, answered, sub, req>>

Service    == mode.service

\* The status a row is created with, those still open, and what may be decided.
FirstOf(s) ==
    CASE s = "certificate" -> "REQUESTED" [] s = "placement" -> "APPLIED"
      [] s = "assignment" -> "SUBMITTED" [] OTHER -> "PENDING"
Outcomes(s) ==
    CASE s = "approval"    -> {"APPROVED", "REJECTED"}
      [] s = "certificate" -> {"ISSUED", "REJECTED"}
      [] s = "document"    -> {"VERIFIED", "REJECTED"}
      [] s = "placement"   -> {"SHORTLISTED", "INTERVIEW", "SELECTED", "REJECTED"}
      [] s = "assignment"  -> {"EVALUATED"}
      [] s = "billing"     -> {"PAID"}
\* An application goes on until it is SELECTED or REJECTED; marks are given again.
Open(s) ==
    CASE s = "placement" -> {FirstOf(s), "SHORTLISTED", "INTERVIEW"}
      [] s = "assignment" -> {FirstOf(s), "EVALUATED"}
      [] OTHER -> {FirstOf(s)}

\* status: of an assignment; an opening is PUBLISHED until its deadline passes.
ParentRow == [status : {"DRAFT", "PUBLISHED", "CLOSED"}, max : Marks]
\* by: history, the request that decided; version: of a document; seen: history,
\* the version its decider read; of: the parent.
ItemRow ==
    [status : {FirstOf(Service)} \cup Outcomes(Service), by : Reqs \cup {"NONE"},
     version : 1..MaxVersion, seen : 0..MaxVersion, code : Codes \cup {"NONE"},
     marks : Marks \cup {0}, st : Students \cup {"NONE"}, of : Parents \cup {"NONE"}]

Request ==
    {Idle}
      \cup [pc : {"insert"}, st : Students, of : Parents]
      \cup [pc : {"decide"}, i : Items, to : Outcomes(Service), seen : 0..MaxVersion,
            code : Codes \cup {"NONE"}, marks : Marks \cup {0}]
      \cup [pc : {"renew", "delete"}, i : Items]
      \cup [pc : {"edit"}, p : Parents, max : Marks]
      \cup [pc : {"move"}, p : Parents, to : {"PUBLISHED", "CLOSED"}]
      \cup [pc : {"deleteParent"}, p : Parents]
      \cup [pc : {"cancel"}]

ItemsOf(p)   == {i \in Items : Exists(item[i]) /\ item[i].of = p}
Final(i)     == Exists(item[i]) /\ item[i].status \notin Open(Service)

TypeOK ==
    /\ parent \in [Parents -> ParentRow \cup {NoRow, Deleted}]
    /\ item \in [Items -> ItemRow \cup {NoRow, Deleted}]
    /\ answered \subseteq Codes \X Items
    /\ sub \in {NoRow} \cup [status : {"TRIALING", "ACTIVE"}, cancel : BOOLEAN]
    /\ req \in [Reqs -> Request]

Init ==
    /\ mode \in Modes
    /\ parent = [p \in Parents |-> NoRow]
    /\ item = [i \in Items |-> NoRow]
    /\ answered = {}
    /\ sub = NoRow
    /\ req = [r \in Reqs |-> Idle]

-----------------------------------------------------------------------------
\* Request bookkeeping.

Touches(q) ==
    CASE req[q].pc = "insert" -> {req[q].st, req[q].of}
      [] req[q].pc \in {"decide", "renew", "delete"} ->
           {req[q].i} \cup (IF Exists(item[req[q].i]) THEN {item[req[q].i].of} ELSE {})
      [] req[q].pc \in {"edit", "move", "deleteParent"} -> {req[q].p}
      [] req[q].pc = "cancel" -> {"sub"}
      [] OTHER -> {}

\* The code serialises nothing (MayOverlap); otherwise requests
\* that touch the same thing take turns.
MayStart(r, things) ==
    /\ req[r] = Idle
    /\ MayOverlap \/ \A q \in Reqs : (Touches(q) \ {"NONE"}) \cap things = {}

\* The server stops, or a query fails: earlier queries of r stay committed.
Die(r) ==
    /\ Faults /\ req[r] # Idle
    /\ Done(r)
    /\ UNCHANGED <<parent, item, answered, sub>>

-----------------------------------------------------------------------------
\* A row is created by one query, decided by two.

NewRow(st, p) ==
    [status |-> FirstOf(Service), by |-> "NONE", version |-> 1, seen |-> 0, code |-> "NONE",
     marks |-> 0, st |-> st, of |-> p]

Create(r, i) ==
    /\ MayStart(r, {})
    /\ item[i] = NoRow
    /\ item' = [item EXCEPT ![i] = NewRow("NONE", "NONE")]
    /\ UNCHANGED <<parent, answered, sub, req>>

\* assertPending and its like; the mutant's payInvoice would not check.
Mutant_Undecided(i) == Service = "billing" \/ item[i].status \in Open(Service)
Undecided(i) == item[i].status \in Open(Service)

Decide(r, i, to, code, marks) ==
    /\ Exists(item[i])                            \* else 404
    /\ MayStart(r, {i, item[i].of})
    /\ Undecided(i)                               \* else 409
    /\ Goto(r, [pc |-> "decide", i |-> i, to |-> to, seen |-> item[i].version,
                code |-> code, marks |-> marks])
    /\ UNCHANGED <<parent, item, answered, sub>>

\* The update does not look at the status again; columns the decision does not
\* mention keep their value, and a row deleted since is not found.
Decided(row, r) ==
    [row EXCEPT !.status = req[r].to, !.by = r, !.seen = req[r].seen,
                !.code = IF req[r].code = "NONE" THEN @ ELSE req[r].code,
                !.marks = IF req[r].marks = 0 THEN @ ELSE req[r].marks]

DecideWrite(r) ==
    /\ At(r, "decide")
    /\ LET i == req[r].i IN
         IF Exists(item[i])
         THEN /\ item' = [item EXCEPT ![i] = Decided(item[i], r)]
              /\ answered' = IF req[r].code = "NONE" THEN answered
                             ELSE answered \cup {<<req[r].code, i>>}
         ELSE UNCHANGED <<item, answered>>
    /\ Done(r)
    /\ UNCHANGED <<parent, sub>>

-----------------------------------------------------------------------------
\* Approvals and certificates.

CreateApprovalRequest(r, i) == Service = "approval" /\ Create(r, i)
ApproveRequest(r, i) == Service = "approval" /\ Decide(r, i, "APPROVED", "NONE", 0)
RejectApproval(r, i) == Service = "approval" /\ Decide(r, i, "REJECTED", "NONE", 0)

CreateRequest(r, i) == Service = "certificate" /\ Create(r, i)
\* The code is drawn before it is stored.
Drawn(c) == c \in {req[q].code : q \in {p \in Reqs : At(p, "decide")}} \cup {e[1] : e \in answered}
IssueRequest(r, i, c) ==
    Service = "certificate" /\ ~Drawn(c) /\ Decide(r, i, "ISSUED", c, 0)
RejectRequest(r, i) == Service = "certificate" /\ Decide(r, i, "REJECTED", "NONE", 0)

\* verifyCertificate: what the public page answers for a code.
Verifies(c, i) == Exists(item[i]) /\ item[i].code = c /\ item[i].status = "ISSUED"

-----------------------------------------------------------------------------
\* Documents: a new version is pending again.

CreateDocument(r, i) == Service = "document" /\ Create(r, i)
ReviewDocument(r, i, decision) == Service = "document" /\ Decide(r, i, decision, "NONE", 0)

UpdateDocument(r, i) ==
    /\ Service = "document" /\ Exists(item[i])
    /\ MayStart(r, {i})
    /\ item[i].version < MaxVersion               \* bound of the model
    /\ Goto(r, [pc |-> "renew", i |-> i])
    /\ UNCHANGED <<parent, item, answered, sub>>

\* The mutant's update would leave the status alone.
Mutant_Renewed(row) == [row EXCEPT !.version = @ + 1]
Renewed(row) == [row EXCEPT !.version = @ + 1, !.status = "PENDING", !.by = "NONE"]

DocumentUpdate(r) ==
    /\ At(r, "renew")
    /\ LET i == req[r].i IN
         item' = IF Exists(item[i]) /\ item[i].version < MaxVersion
                 THEN [item EXCEPT ![i] = Renewed(item[i])] ELSE item
    /\ Done(r)
    /\ UNCHANGED <<parent, answered, sub>>

DeleteDocument(r, i) ==
    /\ Service = "document" /\ Exists(item[i])
    /\ MayStart(r, {i})
    /\ Goto(r, [pc |-> "delete", i |-> i])
    /\ UNCHANGED <<parent, item, answered, sub>>

DocumentDelete(r) ==
    /\ At(r, "delete")
    /\ item' = [item EXCEPT ![req[r].i] = Deleted]
    /\ Done(r)
    /\ UNCHANGED <<parent, answered, sub>>

-----------------------------------------------------------------------------
\* Openings and assignments.

\* createJobOpening; its company is checked in Registry.
CreateJobOpening(r, p) ==
    /\ MayStart(r, {})
    /\ Service = "placement" /\ parent[p] = NoRow
    /\ \E max \in Marks : parent' = [parent EXCEPT ![p] = [status |-> "PUBLISHED", max |-> max]]
    /\ UNCHANGED <<item, answered, sub, req>>

\* An opening may have a deadline.
DeadlinePasses(p) ==
    /\ Service = "placement" /\ Exists(parent[p])
    /\ parent' = [parent EXCEPT ![p].status = "CLOSED"]
    /\ UNCHANGED <<item, answered, sub, req>>

\* Subject, section and faculty member are checked; Registry says what keeps them.
CreateAssignment(r, p, max) ==
    /\ MayStart(r, {})
    /\ Service = "assignment" /\ parent[p] = NoRow
    /\ parent' = [parent EXCEPT ![p] = [status |-> "DRAFT", max |-> max]]
    /\ UNCHANGED <<item, answered, sub, req>>

\* assertEditable
Editable(p) == Service = "assignment" /\ Exists(parent[p]) /\ parent[p].status # "CLOSED"

UpdateAssignment(r, p, max) ==
    /\ MayStart(r, {p})
    /\ Editable(p)                                \* else ASSIGNMENT_CLOSED
    /\ Goto(r, [pc |-> "edit", p |-> p, max |-> max])
    /\ UNCHANGED <<parent, item, answered, sub>>

AssignmentUpdate(r) ==
    /\ At(r, "edit")
    /\ LET p == req[r].p IN
         parent' = IF Exists(parent[p]) THEN [parent EXCEPT ![p].max = req[r].max] ELSE parent
    /\ Done(r)
    /\ UNCHANGED <<item, answered, sub>>

\* The mutant's handlers only call assertEditable.
Mutant_Movable(p, from) == Editable(p)
Movable(p, from) == Editable(p) /\ parent[p].status = from

PublishAssignment(r, p) ==
    /\ MayStart(r, {p})
    /\ Movable(p, "DRAFT")                        \* else INVALID_ASSIGNMENT_STATUS
    /\ Goto(r, [pc |-> "move", p |-> p, to |-> "PUBLISHED"])
    /\ UNCHANGED <<parent, item, answered, sub>>

CloseAssignment(r, p) ==
    /\ MayStart(r, {p})
    /\ Movable(p, "PUBLISHED")                    \* else INVALID_ASSIGNMENT_STATUS
    /\ Goto(r, [pc |-> "move", p |-> p, to |-> "CLOSED"])
    /\ UNCHANGED <<parent, item, answered, sub>>

StatusWrite(r) ==
    /\ At(r, "move")
    /\ LET p == req[r].p IN
         parent' = IF Exists(parent[p]) THEN [parent EXCEPT ![p].status = req[r].to] ELSE parent
    /\ Done(r)
    /\ UNCHANGED <<item, answered, sub>>

\* Any submission or application counts.
Unused(p) == ItemsOf(p) = {}

DeleteJobOpening(r, p) ==
    /\ MayStart(r, {p})
    /\ Service = "placement" /\ Exists(parent[p])
    /\ Unused(p)                                  \* else OPENING_IN_USE
    /\ Goto(r, [pc |-> "deleteParent", p |-> p])
    /\ UNCHANGED <<parent, item, answered, sub>>

DeleteAssignment(r, p) ==
    /\ MayStart(r, {p})
    /\ Service = "assignment" /\ Exists(parent[p])
    /\ Unused(p)                                  \* else ASSIGNMENT_IN_USE
    /\ Goto(r, [pc |-> "deleteParent", p |-> p])
    /\ UNCHANGED <<parent, item, answered, sub>>

\* Submissions go with their assignment (CASCADE), applications hold their opening
\* (RESTRICT).
ParentDelete(r) ==
    /\ At(r, "deleteParent")
    /\ LET p == req[r].p IN
         IF Exists(parent[p]) /\ (Service = "placement" => ItemsOf(p) = {})
         THEN /\ parent' = [parent EXCEPT ![p] = Deleted]
              /\ item' = [i \in Items |-> IF i \in ItemsOf(p) THEN Deleted ELSE item[i]]
         ELSE UNCHANGED <<parent, item>>
    /\ Done(r)
    /\ UNCHANGED <<answered, sub>>

-----------------------------------------------------------------------------
\* Applications and submissions.

Filed(st, p) == \E i \in ItemsOf(p) : item[i].st = st

ApplyToJob(r, st, p) ==
    /\ MayStart(r, {st, p})
    /\ Service = "placement" /\ Exists(parent[p])
    /\ parent[p].status = "PUBLISHED"             \* else DEADLINE_PASSED
    /\ st \in Eligible                            \* else CGPA_NOT_MET
    /\ ~Filed(st, p)                              \* else ALREADY_APPLIED
    /\ Goto(r, [pc |-> "insert", st |-> st, of |-> p])
    /\ UNCHANGED <<parent, item, answered, sub>>

\* The mutant would refuse drafts only.
Mutant_Accepts(p) == Exists(parent[p]) /\ parent[p].status # "DRAFT"
Accepts(p) == Exists(parent[p]) /\ parent[p].status = "PUBLISHED"

CreateSubmission(r, st, p) ==
    /\ MayStart(r, {st, p})
    /\ Service = "assignment"
    /\ Accepts(p)                                 \* else 404 or ASSIGNMENT_NOT_PUBLISHED
    /\ ~Filed(st, p)                              \* else ALREADY_SUBMITTED
    /\ Goto(r, [pc |-> "insert", st |-> st, of |-> p])
    /\ UNCHANGED <<parent, item, answered, sub>>

\* Unique index and foreign key.
Insertable(st, p) == Exists(parent[p]) /\ ~Filed(st, p)

ItemInsert(r, i) ==
    /\ At(r, "insert")
    /\ item[i] = NoRow
    /\ LET st == req[r].st  p == req[r].of IN
         item' = IF Insertable(st, p) THEN [item EXCEPT ![i] = NewRow(st, p)] ELSE item
    /\ Done(r)
    /\ UNCHANGED <<parent, answered, sub>>

UpdateApplicationStatus(r, i, to) ==
    Service = "placement" /\ Decide(r, i, to, "NONE", 0)  \* else APPLICATION_FINALIZED

\* The maximum is read with the submission.
EvaluateSubmission(r, i, marks) ==
    /\ Service = "assignment" /\ Exists(item[i])
    /\ marks <= parent[item[i].of].max            \* else 400
    /\ Decide(r, i, "EVALUATED", "NONE", marks)

-----------------------------------------------------------------------------
\* The tenant's subscription and its invoices.

\* One upsert on the tenant's unique key.
SetSubscription(r) ==
    /\ MayStart(r, {"sub"}) /\ Service = "billing"
    /\ sub' = [status |-> IF sub = NoRow THEN "TRIALING" ELSE "ACTIVE", cancel |-> FALSE]
    /\ UNCHANGED <<parent, item, answered, req>>

CancelSubscription(r) ==
    /\ MayStart(r, {"sub"}) /\ Service = "billing"
    /\ sub # NoRow                                \* else 404
    /\ Goto(r, [pc |-> "cancel"])
    /\ UNCHANGED <<parent, item, answered, sub>>

CancelWrite(r) ==
    /\ At(r, "cancel")
    /\ sub' = [sub EXCEPT !.cancel = TRUE]
    /\ Done(r)
    /\ UNCHANGED <<parent, item, answered>>

CreateInvoice(r, i) == Service = "billing" /\ sub # NoRow /\ Create(r, i)
PayInvoice(r, i) == Service = "billing" /\ Decide(r, i, "PAID", "NONE", 0)

-----------------------------------------------------------------------------
BeginItem(r, i) ==
    \/ CreateApprovalRequest(r, i) \/ ApproveRequest(r, i) \/ RejectApproval(r, i)
    \/ CreateRequest(r, i) \/ RejectRequest(r, i) \/ \E c \in Codes : IssueRequest(r, i, c)
    \/ CreateDocument(r, i) \/ UpdateDocument(r, i) \/ DeleteDocument(r, i)
    \/ CreateInvoice(r, i) \/ PayInvoice(r, i)
    \/ \E to \in Outcomes(Service) : ReviewDocument(r, i, to) \/ UpdateApplicationStatus(r, i, to)
    \/ \E marks \in Marks : EvaluateSubmission(r, i, marks)

BeginParent(r, p) ==
    \/ CreateJobOpening(r, p) \/ DeleteJobOpening(r, p)
    \/ PublishAssignment(r, p) \/ CloseAssignment(r, p) \/ DeleteAssignment(r, p)
    \/ \E max \in Marks : CreateAssignment(r, p, max) \/ UpdateAssignment(r, p, max)
    \/ \E st \in Students : ApplyToJob(r, st, p) \/ CreateSubmission(r, st, p)

Begin(r) ==
    \/ \E i \in Items : BeginItem(r, i)
    \/ \E p \in Parents : BeginParent(r, p)
    \/ SetSubscription(r) \/ CancelSubscription(r)

Continue(r) ==
    \/ DecideWrite(r) \/ DocumentUpdate(r) \/ DocumentDelete(r)
    \/ AssignmentUpdate(r) \/ StatusWrite(r) \/ ParentDelete(r) \/ CancelWrite(r)
    \/ \E i \in Items : ItemInsert(r, i)

Next ==
    /\ \/ \E r \in Reqs : Begin(r) \/ Continue(r) \/ Die(r)
       \/ \E p \in Parents : DeadlinePasses(p)
    /\ UNCHANGED mode

Spec == Init /\ [][Next]_vars

-----------------------------------------------------------------------------
\* Properties.

Absent == <<"row", "ABSENT">>
Fresh  == <<"row", "FIRST">>

\* The status columns of the rows to decide and of assignments, as long as
\* requests take turns.
Column ==
    [x \in Items \cup Parents |->
       IF MayOverlap THEN Absent
       ELSE IF x \in Items
       THEN IF ~Exists(item[x]) THEN Absent
            ELSE IF item[x].status = FirstOf(Service) THEN Fresh ELSE <<Service, item[x].status>>
       ELSE IF ~Exists(parent[x]) \/ Service # "assignment" THEN Absent
            ELSE IF parent[x].status = "DRAFT" THEN Fresh ELSE <<"parent", parent[x].status>>]

\* As statuses are by service, so are the moves.
Of(s, statuses) == {s} \X statuses
Moves ==
    ({Fresh} \X (UNION {Of(s, Outcomes(s)) : s \in Services}))
      \cup (Of("placement", {"SHORTLISTED", "INTERVIEW"}) \X Of("placement", Outcomes("placement")))
      \cup (Of("document", Outcomes("document")) \X {Fresh, Absent})
      \cup {<<Fresh, Absent>>, <<Fresh, <<"parent", "PUBLISHED">>>>,
            <<<<"parent", "PUBLISHED">>, <<"parent", "CLOSED">>>>}
      \cup (Of("parent", {"PUBLISHED", "CLOSED"}) \X {Absent})

\* As long as requests take turns, every row is decided from its first status and
\* stays decided (ALREADY_DECIDED, ALREADY_REVIEWED, ALREADY_PAID): applications
\* move until SELECTED or REJECTED (APPLICATION_FINALIZED), documents start again
\* with a new version, assignments are published, then closed.
Lifecycle == INSTANCE Workflow WITH
    Items <- Items \cup Parents, Absent <- Absent, First <- Fresh, Moves <- Moves, status <- Column

FollowsLifecycle == Lifecycle!Spec

\* As long as requests take turns, a decision is never written over another: who
\* decided, and the code of an issued certificate, stand, except where the row
\* starts again (documents) or is graded again (submissions).
DecisionsStand ==
    [][~MayOverlap /\ Service \notin {"document", "assignment"} =>
         \A i \in Items : Final(i) => item'[i] = item[i]]_vars

\* As long as requests take turns, VERIFIED speaks of the version that is stored,
\* and every certificate handed to a client verifies and goes on to do so.
DecisionsSpeakTrue ==
    ~MayOverlap =>
      /\ \A i \in Items :
           Service = "document" /\ Final(i) => item[i].seen = item[i].version
      /\ \A e \in answered : Verifies(e[1], e[2])

\* However requests overlap and die, a student has at most one application or
\* submission for an opening or assignment, and it exists; and a code that
\* verifies is that of one certificate.
OneEntryPerStudent ==
    /\ \A p \in Parents : \A i, j \in ItemsOf(p) :
         Exists(parent[p]) /\ (item[i].st = item[j].st => i = j)
    /\ \A c \in Codes : \A i, j \in Items : Verifies(c, i) /\ Verifies(c, j) => i = j

\* As long as requests take turns, a submission is filed while its assignment is
\* published, is marked within the maximum of that moment, and neither it nor an
\* application is taken along when its assignment or opening is deleted.
EntriesFollowParent ==
    [][~MayOverlap =>
         \A i \in Items :
           /\ item[i] = NoRow /\ item'[i] # NoRow /\ Service = "assignment" =>
                parent[item'[i].of].status = "PUBLISHED"
           /\ Exists(item[i]) /\ item'[i] # item[i] /\ Service \in {"assignment", "placement"} =>
                /\ Exists(item'[i])
                /\ Service = "assignment" => item'[i].marks <= parent[item[i].of].max]_vars

\* What is recorded as decided is true, once for each student and code.
RecordsSound == TypeOK /\ DecisionsSpeakTrue /\ OneEntryPerStudent

=============================================================================
