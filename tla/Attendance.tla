----------------------------- MODULE Attendance -----------------------------
(***************************************************************************)
(* Attendance sessions, their records, correction requests and leave      *)
(* requests: src/src/modules/attendance/attendance.service.ts and          *)
(* src/src/modules/leave/leave.service.ts.                                 *)
(*                                                                         *)
(* Every Prisma query runs in a transaction of its own                     *)
(* (src/src/prisma/client.ts), so a handler is a chain of atomic steps:    *)
(* what it read in one step may be stale in the next.  A request is a      *)
(* record whose pc names the query it is about to issue and whose other    *)
(* fields are the values its handler still holds.  The first read of a     *)
(* handler and the check that follows it are one step; a failed check     *)
(* answers 4xx and changes nothing, so it is no step at all.               *)
(***************************************************************************)
EXTENDS Naturals, FiniteSets, Requests

CONSTANTS
    Sessions,     \* (section, subject, date) slots, the unique key of a session
    Students,     \* students a record may be about
    Active,       \* ACTIVE students of the section (createSession's findMany)
    Corrections,  \* ids of correction requests
    MaxMarks,     \* bound: entries in the body of one mark request
    Leaves        \* ids of leave requests

ASSUME AttendanceAssumption ==
    /\ Active \subseteq Students
    /\ MaxMarks \in Nat

VARIABLES
    sess,       \* sess[s]: status of the session row, "NONE" before it exists
    rec,        \* rec[s][st]: status of the record row, "NONE" if there is none
    corr,       \* corr[c]: correction request row
    leave,      \* leave[l]: leave request row
    audit,      \* CORRECTION_APPROVED audit rows <<correction, before, after>>
    wasLocked,  \* history: sessions that have been LOCKED
    overwrote   \* history: the record status a correction's approval replaced

vars == <<mode, sess, rec, corr, leave, audit, req, wasLocked, overwrote>>

SessionStatus == {"NONE", "DRAFT", "SUBMITTED", "LOCKED"}
\* ABSENT stands for LATE and EXCUSED too: no handler tells them apart.
RecordStatus  == {"PRESENT", "ABSENT", "ON_LEAVE"}
Decision      == {"APPROVED", "REJECTED"}
ReviewStatus  == Decision \cup {"PENDING"}

NoRow         == [state |-> "NONE"]
CorrectionRow == [state : ReviewStatus, s : Sessions, st : Students, want : RecordStatus]
LeaveRow      == [state : ReviewStatus, st : Students, days : SUBSET Sessions]

AuditRow      == Corrections \X RecordStatus \X RecordStatus

Request ==
    {Idle}
      \cup [pc : {"createInsert", "createRecords", "submit", "lock"}, s : Sessions]
      \cup [pc : {"mark"}, s : Sessions, todo : SUBSET (Students \X RecordStatus)]
      \cup [pc : {"correct"}, s : Sessions, st : Students, want : RecordStatus]
      \cup [pc : {"decide"}, c : Corrections, before : RecordStatus, decision : Decision]
      \cup [pc : {"apply"}, c : Corrections, before : RecordStatus]
      \cup [pc : {"decideLeave"}, l : Leaves, decision : Decision]
      \cup [pc : {"applyLeave"}, l : Leaves]
      \cup [pc : {"log"}, entry : AuditRow]

TypeOK ==
    /\ sess  \in [Sessions -> SessionStatus]
    /\ rec   \in [Sessions -> [Students -> RecordStatus \cup {"NONE"}]]
    /\ corr  \in [Corrections -> CorrectionRow \cup {NoRow}]
    /\ leave \in [Leaves -> LeaveRow \cup {NoRow}]
    /\ req   \in [Reqs -> Request]
    /\ audit \subseteq AuditRow
    /\ wasLocked \subseteq Sessions
    /\ overwrote \in [Corrections -> RecordStatus \cup {"NONE"}]

Init ==
    /\ mode \in Modes
    /\ sess  = [s \in Sessions |-> "NONE"]
    /\ rec   = [s \in Sessions |-> [st \in Students |-> "NONE"]]
    /\ corr  = [c \in Corrections |-> NoRow]
    /\ leave = [l \in Leaves |-> NoRow]
    /\ audit = {}
    /\ req   = [r \in Reqs |-> Idle]
    /\ wasLocked = {}
    /\ overwrote = [c \in Corrections |-> "NONE"]

-----------------------------------------------------------------------------
\* Request bookkeeping.

\* The rows request q still works on; its final log step touches none.
Touches(q) ==
    CASE req[q].pc \in {"createInsert", "createRecords", "submit", "lock", "mark", "correct"} -> {req[q].s}
      [] req[q].pc \in {"decide", "apply"} -> {corr[req[q].c].s}
      [] req[q].pc \in {"decideLeave", "applyLeave"} -> {req[q].l} \cup leave[req[q].l].days
      [] OTHER -> {}

\* An idle request may start on the given rows.  The code serialises nothing
\* (MayOverlap); otherwise requests on one row take turns.
MayStart(r, rows) ==
    /\ req[r] = Idle
    /\ MayOverlap \/ \A q \in Reqs : Touches(q) \cap rows = {}

\* logActivity's audit row, the last query of every mutation, is modelled where it
\* carries data: an approved correction.
CorrectionAudit(r) ==
    /\ At(r, "log")
    /\ audit' = audit \cup {req[r].entry}
    /\ Goto(r, Idle)
    /\ UNCHANGED <<sess, rec, corr, leave, wasLocked, overwrote>>

\* The server stops, or a query fails: earlier queries of r stay committed.
Die(r) ==
    /\ Faults /\ req[r] # Idle
    /\ Goto(r, Idle)
    /\ UNCHANGED <<sess, rec, corr, leave, audit, wasLocked, overwrote>>

-----------------------------------------------------------------------------
\* createSession: look for the slot's session, insert it, insert the records.

CreateSession(r, s) ==
    /\ MayStart(r, {s})
    /\ sess[s] = "NONE"                                 \* else DUPLICATE_SESSION
    /\ Goto(r, [pc |-> "createInsert", s |-> s])
    /\ UNCHANGED <<sess, rec, corr, leave, audit, wasLocked, overwrote>>

\* The unique index refuses a second row for the slot.
CreateInsert(r) ==
    /\ At(r, "createInsert")
    /\ LET s == req[r].s IN
         \/ /\ sess[s] = "NONE"
            /\ sess' = [sess EXCEPT ![s] = "DRAFT"]
            /\ Goto(r, [pc |-> "createRecords", s |-> s])
         \/ /\ sess[s] # "NONE"
            /\ Goto(r, Idle)
            /\ UNCHANGED sess
    /\ UNCHANGED <<rec, corr, leave, audit, wasLocked, overwrote>>

\* createMany is one statement: one existing (session, student) row fails it all.
Mutant_Roster == {}
Roster == Active

CreateRecords(r) ==
    /\ At(r, "createRecords")
    /\ LET s == req[r].s IN
         \/ /\ \A st \in Roster : rec[s][st] = "NONE"
            /\ rec' = [rec EXCEPT ![s] =
                         [st \in Students |-> IF st \in Roster THEN "PRESENT" ELSE rec[s][st]]]
            /\ Done(r)
         \/ /\ \E st \in Roster : rec[s][st] # "NONE"
            /\ Goto(r, Idle)
            /\ UNCHANGED rec
    /\ UNCHANGED <<sess, corr, leave, audit, wasLocked, overwrote>>

-----------------------------------------------------------------------------
\* markRecords: the lock is checked once, then one upsert per listed record.

Mutant_AssertNotLocked(s) == sess[s] # "NONE"
AssertNotLocked(s) == sess[s] \notin {"NONE", "LOCKED"}

MarkRecords(r, s, records) ==
    /\ MayStart(r, {s})
    /\ AssertNotLocked(s)
    /\ Goto(r, [pc |-> "mark", s |-> s, todo |-> records])
    /\ UNCHANGED <<sess, rec, corr, leave, audit, wasLocked, overwrote>>

\* The body lists records in any order, so any one may be written next.
MarkUpsert(r) ==
    /\ At(r, "mark")
    /\ LET s == req[r].s IN
       \E entry \in req[r].todo :
         /\ rec' = [rec EXCEPT ![s][entry[1]] = entry[2]]
         /\ IF req[r].todo = {entry}
            THEN Done(r)
            ELSE Goto(r, [req[r] EXCEPT !.todo = @ \ {entry}])
    /\ UNCHANGED <<sess, corr, leave, audit, wasLocked, overwrote>>

-----------------------------------------------------------------------------
\* submitSession and lockSession: check the status, then write the next one.

MaySubmit(s) == sess[s] = "DRAFT"
MayLock(s)   == sess[s] = "SUBMITTED"

SubmitSession(r, s) ==
    /\ MayStart(r, {s})
    /\ MaySubmit(s)                                     \* else INVALID_SESSION_STATUS
    /\ Goto(r, [pc |-> "submit", s |-> s])
    /\ UNCHANGED <<sess, rec, corr, leave, audit, wasLocked, overwrote>>

SubmitWrite(r) ==
    /\ At(r, "submit")
    /\ sess' = [sess EXCEPT ![req[r].s] = "SUBMITTED"]
    /\ Done(r)
    /\ UNCHANGED <<rec, corr, leave, audit, wasLocked, overwrote>>

LockSession(r, s) ==
    /\ MayStart(r, {s})
    /\ MayLock(s)                                       \* else INVALID_SESSION_STATUS
    /\ Goto(r, [pc |-> "lock", s |-> s])
    /\ UNCHANGED <<sess, rec, corr, leave, audit, wasLocked, overwrote>>

LockWrite(r) ==
    /\ At(r, "lock")
    /\ sess' = [sess EXCEPT ![req[r].s] = "LOCKED"]
    /\ wasLocked' = wasLocked \cup {req[r].s}
    /\ Done(r)
    /\ UNCHANGED <<rec, corr, leave, audit, overwrote>>

-----------------------------------------------------------------------------
\* requestCorrection: only for a record of a LOCKED session.

RecordExists(s, st) == rec[s][st] # "NONE"
NeedsCorrection(s) == sess[s] = "LOCKED"

RequestCorrection(r, s, st, want) ==
    /\ MayStart(r, {s})
    /\ NeedsCorrection(s)                               \* else SESSION_NOT_LOCKED
    /\ RecordExists(s, st)                              \* else 404
    /\ Goto(r, [pc |-> "correct", s |-> s, st |-> st, want |-> want])
    /\ UNCHANGED <<sess, rec, corr, leave, audit, wasLocked, overwrote>>

CorrectionCreate(r, c) ==
    /\ At(r, "correct")
    /\ corr[c] = NoRow
    /\ corr' = [corr EXCEPT ![c] = [state |-> "PENDING", s |-> req[r].s,
                                    st |-> req[r].st, want |-> req[r].want]]
    /\ Done(r)
    /\ UNCHANGED <<sess, rec, leave, audit, wasLocked, overwrote>>

\* reviewCorrection: the row and its record are read together, then the
\* decision is written, then (APPROVED) the record, then the audit row.
Mutant_Reviewable(row) == row # NoRow
Reviewable(row) == row # NoRow /\ row.state = "PENDING"

ReviewCorrection(r, c, decision) ==
    /\ Reviewable(corr[c])                              \* else ALREADY_REVIEWED
    /\ MayStart(r, {corr[c].s})
    /\ Goto(r, [pc |-> "decide", c |-> c, decision |-> decision,
                before |-> rec[corr[c].s][corr[c].st]])
    /\ UNCHANGED <<sess, rec, corr, leave, audit, wasLocked, overwrote>>

CorrectionDecide(r) ==
    /\ At(r, "decide")
    /\ corr' = [corr EXCEPT ![req[r].c].state = req[r].decision]
    /\ IF req[r].decision = "APPROVED"
       THEN Goto(r, [pc |-> "apply", c |-> req[r].c, before |-> req[r].before])
       ELSE Done(r)
    /\ UNCHANGED <<sess, rec, leave, audit, wasLocked, overwrote>>

\* The audit row would show the value read back after the update.
Mutant_CorrectionApply(r) ==
    /\ At(r, "apply")
    /\ LET row == corr[req[r].c] IN
         /\ rec' = [rec EXCEPT ![row.s][row.st] = row.want]
         /\ Goto(r, [pc |-> "log", entry |-> <<req[r].c, row.want, row.want>>])
    /\ overwrote' = [overwrote EXCEPT ![req[r].c] = rec[corr[req[r].c].s][corr[req[r].c].st]]
    /\ UNCHANGED <<sess, corr, leave, audit, wasLocked>>

CorrectionApply(r) ==
    /\ At(r, "apply")
    /\ LET row == corr[req[r].c] IN
         /\ rec' = [rec EXCEPT ![row.s][row.st] = row.want]
         /\ Goto(r, [pc |-> "log", entry |-> <<req[r].c, req[r].before, row.want>>])
    /\ overwrote' = [overwrote EXCEPT ![req[r].c] = rec[corr[req[r].c].s][corr[req[r].c].st]]
    /\ UNCHANGED <<sess, corr, leave, audit, wasLocked>>

-----------------------------------------------------------------------------
\* Leave requests: approval rewrites the student's records in the date range.

CreateLeaveRequest(r, l, st, days) ==
    /\ MayStart(r, {l})
    /\ leave[l] = NoRow
    /\ leave' = [leave EXCEPT ![l] = [state |-> "PENDING", st |-> st, days |-> days]]
    /\ Done(r)
    /\ UNCHANGED <<sess, rec, corr, audit, wasLocked, overwrote>>

ReviewLeaveRequest(r, l, decision) ==
    /\ Reviewable(leave[l])                             \* else ALREADY_REVIEWED
    /\ MayStart(r, {l} \cup leave[l].days)
    /\ Goto(r, [pc |-> "decideLeave", l |-> l, decision |-> decision])
    /\ UNCHANGED <<sess, rec, corr, leave, audit, wasLocked, overwrote>>

LeaveDecide(r) ==
    /\ At(r, "decideLeave")
    /\ leave' = [leave EXCEPT ![req[r].l].state = req[r].decision]
    /\ IF req[r].decision = "APPROVED"
       THEN Goto(r, [pc |-> "applyLeave", l |-> req[r].l])
       ELSE Done(r)
    /\ UNCHANGED <<sess, rec, corr, audit, wasLocked, overwrote>>

\* updateMany over existing records only, whatever the session's status.
LeaveApply(r) ==
    /\ At(r, "applyLeave")
    /\ LET row == leave[req[r].l] IN
         rec' = [s \in Sessions |-> [st \in Students |->
                   IF s \in row.days /\ st = row.st /\ rec[s][st] # "NONE"
                   THEN "ON_LEAVE" ELSE rec[s][st]]]
    /\ Done(r)
    /\ UNCHANGED <<sess, corr, leave, audit, wasLocked, overwrote>>

-----------------------------------------------------------------------------
\* The body of a mark request; nothing stops it from listing a student twice.
MarkInputs == {m \in SUBSET (Students \X RecordStatus) : m # {} /\ Cardinality(m) <= MaxMarks}

Begin(r) ==
    \/ \E s \in Sessions :
         \/ CreateSession(r, s) \/ SubmitSession(r, s) \/ LockSession(r, s)
         \/ \E m \in MarkInputs : MarkRecords(r, s, m)
         \/ \E st \in Students, want \in RecordStatus : RequestCorrection(r, s, st, want)
    \/ \E c \in Corrections, d \in Decision : ReviewCorrection(r, c, d)
    \/ \E l \in Leaves :
         \/ \E st \in Students, days \in SUBSET Sessions : CreateLeaveRequest(r, l, st, days)
         \/ \E d \in Decision : ReviewLeaveRequest(r, l, d)

Continue(r) ==
    \/ CreateInsert(r) \/ CreateRecords(r) \/ MarkUpsert(r)
    \/ SubmitWrite(r) \/ LockWrite(r)
    \/ \E c \in Corrections : CorrectionCreate(r, c)
    \/ CorrectionDecide(r) \/ CorrectionApply(r)
    \/ LeaveDecide(r) \/ LeaveApply(r)
    \/ CorrectionAudit(r)

Next ==
    /\ \E r \in Reqs : Begin(r) \/ Continue(r) \/ Die(r)
    /\ UNCHANGED mode

Spec == Init /\ [][Next]_vars

-----------------------------------------------------------------------------
\* Properties.

Rank(status) == CASE status = "NONE" -> 0 [] status = "DRAFT" -> 1
                  [] status = "SUBMITTED" -> 2 [] status = "LOCKED" -> 3

\* DRAFT -> SUBMITTED -> LOCKED never runs backwards: what submitSession and
\* lockSession write is still ahead of the row they overwrite, although they
\* checked it one query earlier, as long as requests take turns.
StatusForward ==
    [][~MayOverlap => \A s \in Sessions : Rank(sess[s]) <= Rank(sess'[s])]_vars

\* A step rewrites a record of a LOCKED session.
RewritesLocked(s, st) == sess[s] = "LOCKED" /\ rec[s][st] \notin {"NONE", rec'[s][st]}

ByCorrection(s, st) ==
    \E c \in Corrections :
      corr[c] = [state |-> "APPROVED", s |-> s, st |-> st, want |-> rec'[s][st]]

ByLeave(s, st) ==
    /\ rec'[s][st] = "ON_LEAVE"
    /\ \E l \in Leaves : /\ leave[l] # NoRow /\ leave[l].state = "APPROVED"
                         /\ leave[l].st = st /\ s \in leave[l].days

\* As long as requests take turns, a record of a LOCKED session changes only to
\* what an APPROVED correction of that record asked for, or to ON_LEAVE under an
\* APPROVED leave request.
LockedRecordsFrozen ==
    [][~MayOverlap =>
         \A s \in Sessions, st \in Students :
           RewritesLocked(s, st) => ByCorrection(s, st) \/ ByLeave(s, st)]_vars

\* reviewCorrection and reviewLeaveRequest decide a request once: a decision is
\* never replaced by the decision of a second reviewer, as long as requests take
\* turns.
DecisionIsFinal ==
    [][~MayOverlap =>
         /\ \A c \in Corrections : corr[c] # NoRow /\ corr[c].state \in Decision => corr'[c] = corr[c]
         /\ \A l \in Leaves : leave[l] # NoRow /\ leave[l].state \in Decision => leave'[l] = leave[l]]_vars

\* A correction request that ends REJECTED never changed its record, and the
\* before value on the audit row of an approved one is the status the approval
\* really replaced, although it was read three queries earlier, as long as
\* requests take turns.
AuditTellsTheTruth ==
    ~MayOverlap =>
      /\ \A c \in Corrections : corr[c] # NoRow /\ corr[c].state = "REJECTED" => overwrote[c] = "NONE"
      /\ \A e \in audit : e[2] = overwrote[e[1]]

\* Correction requests exist only against sessions that reached LOCKED, and
\* only a session that was created and submitted does.
CorrectionsOfLockedOnly ==
    \A c \in Corrections : corr[c] # NoRow => corr[c].s \in wasLocked

\* Once createSession is past its createMany, every ACTIVE student has a record,
\* as long as requests take turns and none dies.
Prepopulated ==
    ~MayOverlap /\ ~Faults =>
      \A s \in Sessions :
        sess[s] # "NONE" /\ (\A r \in Reqs : ~(At(r, "createRecords") /\ req[r].s = s)) =>
          \A st \in Active : rec[s][st] # "NONE"

\* Correction requests are made of locked sessions and leave a true trail.
CorrectionsSound == TypeOK /\ CorrectionsOfLockedOnly /\ AuditTellsTheTruth

\* As long as requests take turns, neither a session's status nor a decision is
\* ever taken back.
NothingTakenBack == StatusForward /\ DecisionIsFinal

=============================================================================
