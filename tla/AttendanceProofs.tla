-------------------------- MODULE AttendanceProofs --------------------------
(***************************************************************************)
(* Proofs about Attendance, for any sets of requests, sessions, students,  *)
(* corrections and leave requests.                                         *)
(***************************************************************************)
EXTENDS Attendance, TLAPS

\* A reviewer past its first read holds the id of a row that exists: rows are
\* never deleted.  TypeOK is not inductive without it, since a decision updates
\* one column of the row.
RowsExist ==
    \A q \in Reqs :
      /\ req[q].pc \in {"decide", "apply"} => corr[req[q].c] # NoRow
      /\ req[q].pc \in {"decideLeave", "applyLeave"} => leave[req[q].l] # NoRow
      /\ req[q].pc = "correct" => rec[req[q].s][req[q].st] # "NONE"

\* A correction is about a record that exists: records are never deleted.
RecordsExist ==
    \A c \in Corrections : corr[c] # NoRow => rec[corr[c].s][corr[c].st] # "NONE"

TypeInv == TypeOK /\ RowsExist /\ RecordsExist

\* What a request holds at each pc, read off the Request union.
LEMMA RequestShape ==
  ASSUME NEW x \in Request
  PROVE  /\ x.pc \in {"createInsert", "createRecords", "submit", "lock", "mark", "correct"} => x.s \in Sessions
         /\ x.pc = "mark" => x.todo \subseteq Students \X RecordStatus
         /\ x.pc = "mark" => x = [pc |-> "mark", s |-> x.s, todo |-> x.todo]
         /\ x.pc = "correct" => x.st \in Students /\ x.want \in RecordStatus
         /\ x.pc = "decide" => x.decision \in Decision
         /\ x.pc \in {"decide", "apply"} => x.c \in Corrections /\ x.before \in RecordStatus
         /\ x.pc = "decideLeave" => x.decision \in Decision
         /\ x.pc \in {"decideLeave", "applyLeave"} => x.l \in Leaves
         /\ x.pc = "log" => x.entry \in AuditRow
BY DEF Request, Idle

LEMMA RequestStep ==
  ASSUME TypeOK, NEW r \in Reqs, NEW x \in Request, Goto(r, x)
  PROVE  req' \in [Reqs -> Request]
BY DEF TypeOK, Goto
LEMMA IdleStep ==
  ASSUME TypeOK, NEW r \in Reqs, Done(r)
  PROVE  req' \in [Reqs -> Request]
BY RequestStep DEF Done, Request, Idle

\* A step that writes records, deletes none and touches no other row keeps
\* every held id pointing at an existing row.
LEMMA RecordsKept ==
  ASSUME TypeInv, NEW r \in Reqs, UNCHANGED <<corr, leave>>,
         \A s \in Sessions, st \in Students : rec[s][st] # "NONE" => rec'[s][st] # "NONE",
         \A q \in Reqs \ {r} : req'[q] = req[q],
         req'[r].pc \in {"idle", "log", "mark"}
  PROVE  RowsExist' /\ RecordsExist'
<1>1. RecordsExist'
  BY DEF TypeInv, TypeOK, RecordsExist, CorrectionRow
<1>2. ASSUME NEW q \in Reqs
      PROVE  /\ req'[q].pc \in {"decide", "apply"} => corr'[req'[q].c] # NoRow
             /\ req'[q].pc \in {"decideLeave", "applyLeave"} => leave'[req'[q].l] # NoRow
             /\ req'[q].pc = "correct" => rec'[req'[q].s][req'[q].st] # "NONE"
  <2>1. CASE q = r
    BY <2>1
  <2>2. CASE q # r
    <3>1. req'[q] = req[q] /\ req[q] \in Request
      BY <2>2 DEF TypeInv, TypeOK
    <3>2. QED BY <3>1, RequestShape DEF TypeInv, RowsExist
  <2>3. QED BY <2>1, <2>2
<1>3. QED BY <1>1, <1>2 DEF RowsExist

\* Writing columns of existing rows keeps the tables typed.
LEMMA NextTypeInv == TypeInv /\ [Next]_vars => TypeInv'
<1> SUFFICES ASSUME TypeInv, [Next]_vars PROVE TypeInv'
  OBVIOUS
<1> USE DEF TypeInv
<1>1. ASSUME NEW r \in Reqs, Begin(r) PROVE TypeInv'
  <2>1. ASSUME NEW s \in Sessions, CreateSession(r, s) PROVE TypeInv'
    <3>1. req' \in [Reqs -> Request]
      BY <2>1, RequestStep DEF CreateSession, Request
    <3>2. QED BY <2>1, <3>1 DEF CreateSession, Goto, TypeOK, RowsExist, RecordsExist
  <2>2. ASSUME NEW s \in Sessions, SubmitSession(r, s) PROVE TypeInv'
    <3>1. req' \in [Reqs -> Request]
      BY <2>2, RequestStep DEF SubmitSession, Request
    <3>2. QED BY <2>2, <3>1 DEF SubmitSession, Goto, TypeOK, RowsExist, RecordsExist
  <2>3. ASSUME NEW s \in Sessions, LockSession(r, s) PROVE TypeInv'
    <3>1. req' \in [Reqs -> Request]
      BY <2>3, RequestStep DEF LockSession, Request
    <3>2. QED BY <2>3, <3>1 DEF LockSession, Goto, TypeOK, RowsExist, RecordsExist
  <2>4. ASSUME NEW s \in Sessions, NEW m \in MarkInputs, MarkRecords(r, s, m) PROVE TypeInv'
    <3>1. req' \in [Reqs -> Request]
      BY <2>4, RequestStep DEF MarkRecords, Request, MarkInputs
    <3>2. QED BY <2>4, <3>1 DEF MarkRecords, Goto, TypeOK, RowsExist, RecordsExist
  <2>5. ASSUME NEW s \in Sessions, NEW st \in Students, NEW want \in RecordStatus,
               RequestCorrection(r, s, st, want)
        PROVE  TypeInv'
    <3>1. req' \in [Reqs -> Request]
      BY <2>5, RequestStep DEF RequestCorrection, Request
    <3>2. QED BY <2>5, <3>1 DEF RequestCorrection, RecordExists, Goto, TypeOK, RowsExist, RecordsExist
  <2>6. ASSUME NEW c \in Corrections, NEW d \in Decision, ReviewCorrection(r, c, d) PROVE TypeInv'
    <3>1. /\ corr[c] \in CorrectionRow
          /\ rec[corr[c].s][corr[c].st] \in RecordStatus
      BY <2>6 DEF ReviewCorrection, Reviewable, TypeOK, RecordsExist, CorrectionRow
    <3>2. req' \in [Reqs -> Request]
      BY <2>6, <3>1, RequestStep DEF ReviewCorrection, Request
    <3>3. QED BY <2>6, <3>2 DEF ReviewCorrection, Reviewable, Goto, TypeOK, RowsExist, RecordsExist
  <2>7. ASSUME NEW l \in Leaves, NEW st \in Students, NEW days \in SUBSET Sessions,
               CreateLeaveRequest(r, l, st, days)
        PROVE  TypeInv'
    <3>1. req' \in [Reqs -> Request]
      BY <2>7, IdleStep DEF CreateLeaveRequest
    <3>2. QED
      BY <2>7, <3>1 DEF CreateLeaveRequest, Done, Goto, TypeOK, RowsExist, RecordsExist, NoRow, LeaveRow, ReviewStatus, Idle
  <2>8. ASSUME NEW l \in Leaves, NEW d \in Decision, ReviewLeaveRequest(r, l, d) PROVE TypeInv'
    <3>1. req' \in [Reqs -> Request]
      BY <2>8, RequestStep DEF ReviewLeaveRequest, Request
    <3>2. QED BY <2>8, <3>1 DEF ReviewLeaveRequest, Reviewable, Goto, TypeOK, RowsExist, RecordsExist
  <2>9. QED BY <1>1, <2>1, <2>2, <2>3, <2>4, <2>5, <2>6, <2>7, <2>8 DEF Begin
<1>2. ASSUME NEW r \in Reqs, Continue(r) PROVE TypeInv'
  <2> req[r] \in Request
    BY DEF TypeOK
  <2> USE RequestShape
  <2>1. CASE CreateInsert(r)
    <3>1. req' \in [Reqs -> Request]
      BY <2>1, RequestStep, IdleStep DEF CreateInsert, At, Request, Done
    <3>2. QED
      BY <2>1, <3>1 DEF CreateInsert, At, Goto, TypeOK, RowsExist, RecordsExist, SessionStatus, Idle, Done
  <2>2. CASE CreateRecords(r)
    <3>1. req' \in [Reqs -> Request]
      <4>1. Done(r) BY <2>2 DEF CreateRecords, Done, Goto
      <4>2. QED BY <4>1, IdleStep
    <3>2. rec' \in [Sessions -> [Students -> RecordStatus \cup {"NONE"}]]
      BY <2>2 DEF CreateRecords, At, TypeOK, RecordStatus
    <3>3. \A s \in Sessions, st \in Students : rec[s][st] # "NONE" => rec'[s][st] # "NONE"
      BY <2>2 DEF CreateRecords, At, TypeOK
    <3>4. QED
      <4>1. RowsExist' /\ RecordsExist'
        BY <2>2, <3>3, RecordsKept DEF CreateRecords, Goto, Done, Idle, TypeOK
      <4>2. QED BY <2>2, <3>1, <3>2, <4>1 DEF CreateRecords, TypeOK
  <2>3. CASE MarkUpsert(r)
    <3>1. PICK e \in req[r].todo :
            /\ rec' = [rec EXCEPT ![req[r].s][e[1]] = e[2]]
            /\ IF req[r].todo = {e} THEN Done(r) ELSE Goto(r, [req[r] EXCEPT !.todo = @ \ {e}])
      BY <2>3 DEF MarkUpsert
    <3>2. e \in Students \X RecordStatus /\ req[r].s \in Sessions /\ req[r].pc = "mark"
      BY <2>3, <3>1 DEF MarkUpsert, At
    <3>3. rec' \in [Sessions -> [Students -> RecordStatus \cup {"NONE"}]]
      BY <3>1, <3>2 DEF TypeOK
    <3>4. \A s \in Sessions, st \in Students : rec[s][st] # "NONE" => rec'[s][st] # "NONE"
      BY <3>1, <3>2 DEF TypeOK, RecordStatus
    <3>5. [req[r] EXCEPT !.todo = @ \ {e}] \in Request
      <4>1. [req[r] EXCEPT !.todo = @ \ {e}] = [pc |-> "mark", s |-> req[r].s, todo |-> req[r].todo \ {e}]
        BY <3>2
      <4>2. QED BY <4>1, <3>2 DEF Request
    <3>6. req' \in [Reqs -> Request]
      BY <3>1, <3>5, RequestStep, IdleStep
    <3>7. QED
      <4>1. RowsExist' /\ RecordsExist'
        BY <2>3, <3>1, <3>2, <3>4, RecordsKept DEF MarkUpsert, Goto, Done, Idle, TypeOK
      <4>2. QED BY <2>3, <3>3, <3>6, <4>1 DEF MarkUpsert, TypeOK
  <2>4. CASE SubmitWrite(r)
    <3>1. req' \in [Reqs -> Request]
      BY <2>4, IdleStep DEF SubmitWrite
    <3>2. QED
      BY <2>4, <3>1 DEF SubmitWrite, At, Goto, Done, Idle, TypeOK, RowsExist, RecordsExist, SessionStatus
  <2>5. CASE LockWrite(r)
    <3>1. req' \in [Reqs -> Request]
      BY <2>5, IdleStep DEF LockWrite
    <3>2. QED
      BY <2>5, <3>1 DEF LockWrite, At, Goto, Done, Idle, TypeOK, RowsExist, RecordsExist, SessionStatus
  <2>6. ASSUME NEW c \in Corrections, CorrectionCreate(r, c) PROVE TypeInv'
    <3>1. req' \in [Reqs -> Request]
      BY <2>6, IdleStep DEF CorrectionCreate
    <3>2. corr' \in [Corrections -> CorrectionRow \cup {NoRow}]
      BY <2>6 DEF CorrectionCreate, At, TypeOK, CorrectionRow, ReviewStatus
    <3>3. QED
      BY <2>6, <3>1, <3>2 DEF CorrectionCreate, At, Goto, Done, Idle, TypeOK, RowsExist, RecordsExist, NoRow
  <2>7. CASE CorrectionDecide(r)
    <3>1. corr[req[r].c] \in CorrectionRow
      BY <2>7 DEF CorrectionDecide, At, TypeOK, RowsExist
    <3>2. /\ corr' \in [Corrections -> CorrectionRow \cup {NoRow}]
          /\ \A c \in Corrections : /\ corr'[c] = NoRow <=> corr[c] = NoRow
                                    /\ corr[c] # NoRow => corr'[c].s = corr[c].s /\ corr'[c].st = corr[c].st
      BY <2>7, <3>1 DEF CorrectionDecide, At, TypeOK, CorrectionRow, ReviewStatus, NoRow, Decision
    <3>3. req' \in [Reqs -> Request]
      BY <2>7, IdleStep, RequestStep DEF CorrectionDecide, At, Request
    <3>4. QED
      BY <2>7, <3>1, <3>2, <3>3, SMTT(30)
      DEF CorrectionDecide, At, Goto, Done, Idle, TypeOK, RowsExist, RecordsExist
  <2>8. CASE CorrectionApply(r)
    <3>1. corr[req[r].c] \in CorrectionRow
      BY <2>8 DEF CorrectionApply, At, TypeOK, RowsExist
    <3>2. /\ rec' \in [Sessions -> [Students -> RecordStatus \cup {"NONE"}]]
          /\ \A s \in Sessions, st \in Students : rec[s][st] # "NONE" => rec'[s][st] # "NONE"
      BY <2>8, <3>1 DEF CorrectionApply, At, TypeOK, CorrectionRow, RecordStatus
    <3>3. overwrote' \in [Corrections -> RecordStatus \cup {"NONE"}]
      BY <2>8, <3>1 DEF CorrectionApply, At, TypeOK, CorrectionRow
    <3>4. req' \in [Reqs -> Request]
      BY <2>8, <3>1, RequestStep DEF CorrectionApply, At, Request, AuditRow, CorrectionRow
    <3>5. QED
      <4>1. RowsExist' /\ RecordsExist'
        BY <2>8, <3>2, RecordsKept DEF CorrectionApply, Goto, TypeOK
      <4>2. QED BY <2>8, <3>2, <3>3, <3>4, <4>1 DEF CorrectionApply, TypeOK
  <2>9. CASE LeaveDecide(r)
    <3>1. leave[req[r].l] \in LeaveRow
      BY <2>9 DEF LeaveDecide, At, TypeOK, RowsExist
    <3>2. /\ leave' \in [Leaves -> LeaveRow \cup {NoRow}]
          /\ \A l \in Leaves : leave'[l] = NoRow <=> leave[l] = NoRow
      BY <2>9, <3>1 DEF LeaveDecide, At, TypeOK, LeaveRow, ReviewStatus, NoRow, Decision
    <3>3. req' \in [Reqs -> Request]
      BY <2>9, IdleStep, RequestStep DEF LeaveDecide, At, Request
    <3>4. QED
      BY <2>9, <3>1, <3>2, <3>3 DEF LeaveDecide, At, Goto, Done, Idle, TypeOK, RowsExist, RecordsExist
  <2>10. CASE LeaveApply(r)
    <3>1. req' \in [Reqs -> Request]
      BY <2>10, IdleStep DEF LeaveApply
    <3>2. /\ rec' \in [Sessions -> [Students -> RecordStatus \cup {"NONE"}]]
          /\ \A s \in Sessions, st \in Students : rec[s][st] # "NONE" => rec'[s][st] # "NONE"
      BY <2>10 DEF LeaveApply, At, TypeOK, RecordStatus
    <3>3. QED
      <4>1. RowsExist' /\ RecordsExist'
        BY <2>10, <3>2, RecordsKept DEF LeaveApply, Goto, Done, Idle, TypeOK
      <4>2. QED BY <2>10, <3>1, <3>2, <4>1 DEF LeaveApply, TypeOK
  <2>11. CASE CorrectionAudit(r)
    <3>1. req' \in [Reqs -> Request]
      BY <2>11, IdleStep DEF CorrectionAudit, Done
    <3>2. QED
      BY <2>11, <3>1 DEF CorrectionAudit, At, Goto, Idle, TypeOK, RowsExist, RecordsExist
  <2>12. QED
    BY <1>2, <2>1, <2>2, <2>3, <2>4, <2>5, <2>6, <2>7, <2>8, <2>9, <2>10, <2>11 DEF Continue
<1>3. ASSUME NEW r \in Reqs, Die(r) PROVE TypeInv'
  <2>1. req' \in [Reqs -> Request]
    BY <1>3, IdleStep DEF Die, Done
  <2>2. QED
    BY <1>3, <2>1 DEF Die, Goto, Idle, TypeOK, RowsExist, RecordsExist
<1>4. CASE UNCHANGED vars
  BY <1>4 DEF vars, TypeOK, RowsExist, RecordsExist
<1>5. QED
  BY <1>1, <1>2, <1>3, <1>4 DEF Next

LEMMA InitTypeInv == Init => TypeInv
BY DEF Init, TypeInv, TypeOK, RowsExist, RecordsExist, SessionStatus, Request, Idle, NoRow

\* Every reachable state is well typed, and no request ever holds the id of a
\* row that does not exist.
THEOREM TypeCorrect == Spec => [](TypeOK /\ RowsExist /\ RecordsExist)
BY InitTypeInv, NextTypeInv, PTL DEF Spec, TypeInv

-----------------------------------------------------------------------------
(***************************************************************************)
(* The serial reading.  When requests about one session take turns, a      *)
(* request owns the rows it touches from its check to its last write, so   *)
(* what it checked still holds when it writes.                             *)
(***************************************************************************)

\* What a step of r leaves alone: other requests, rows r does not touch, and
\* the identity of every row.  r grows what it touches only when it starts.
Frame(r) ==
    /\ \A q \in Reqs \ {r} : req'[q] = req[q]
    /\ \A s \in Sessions \ Touches(r) : sess'[s] = sess[s] /\ rec'[s] = rec[s]
    /\ \A c \in Corrections : corr[c] # NoRow =>
         /\ corr'[c] # NoRow
         /\ corr'[c].s = corr[c].s /\ corr'[c].st = corr[c].st
         /\ corr[c].s \notin Touches(r) => corr'[c] = corr[c] /\ overwrote'[c] = overwrote[c]
    /\ \A l \in Leaves : leave[l] # NoRow =>
         /\ leave'[l] # NoRow
         /\ leave'[l].days = leave[l].days
         /\ l \notin Touches(r) => leave'[l] = leave[l]
    /\ Touches(r)' \subseteq Touches(r) \/ MayStart(r, Touches(r)')

LEMMA BeginFrame ==
  ASSUME TypeInv, NEW r \in Reqs, Begin(r)
  PROVE  Frame(r)
<1> USE DEF TypeInv, TypeOK, Frame, Goto, MayStart
<1>1. ASSUME NEW s \in Sessions, CreateSession(r, s) PROVE Frame(r)
  BY <1>1 DEF CreateSession, Touches
<1>2. ASSUME NEW s \in Sessions, SubmitSession(r, s) PROVE Frame(r)
  BY <1>2 DEF SubmitSession, Touches
<1>3. ASSUME NEW s \in Sessions, LockSession(r, s) PROVE Frame(r)
  BY <1>3 DEF LockSession, Touches
<1>4. ASSUME NEW s \in Sessions, NEW m \in MarkInputs, MarkRecords(r, s, m) PROVE Frame(r)
  BY <1>4 DEF MarkRecords, Touches
<1>5. ASSUME NEW s \in Sessions, NEW st \in Students, NEW want \in RecordStatus,
             RequestCorrection(r, s, st, want)
      PROVE  Frame(r)
  BY <1>5 DEF RequestCorrection, Touches
<1>6. ASSUME NEW c \in Corrections, NEW d \in Decision, ReviewCorrection(r, c, d) PROVE Frame(r)
  BY <1>6 DEF ReviewCorrection, Touches
<1>7. ASSUME NEW l \in Leaves, NEW st \in Students, NEW days \in SUBSET Sessions,
             CreateLeaveRequest(r, l, st, days)
      PROVE  Frame(r)
  BY <1>7 DEF CreateLeaveRequest, Done, Touches, Idle
<1>8. ASSUME NEW l \in Leaves, NEW d \in Decision, ReviewLeaveRequest(r, l, d) PROVE Frame(r)
  BY <1>8 DEF ReviewLeaveRequest, Touches
<1>9. QED BY <1>1, <1>2, <1>3, <1>4, <1>5, <1>6, <1>7, <1>8 DEF Begin

LEMMA ContinueFrame ==
  ASSUME TypeInv, NEW r \in Reqs, Continue(r) \/ Die(r)
  PROVE  Frame(r)
<1> USE DEF TypeInv, TypeOK, Frame, Goto, At, Done, Idle
<1> req[r] \in Request
  OBVIOUS
<1> USE RequestShape
<1>1. CASE CreateInsert(r)
  BY <1>1 DEF CreateInsert, Touches
<1>2. CASE CreateRecords(r)
  BY <1>2 DEF CreateRecords, Touches
<1>3. CASE MarkUpsert(r)
  <2>1. \/ req'[r] = Idle
        \/ req'[r].pc = "mark" /\ req'[r].s = req[r].s
    BY <1>3 DEF MarkUpsert
  <2>2. \A q \in Reqs \ {r} : req'[q] = req[q]
    BY <1>3 DEF MarkUpsert
  <2>3. QED BY <1>3, <2>1, <2>2 DEF MarkUpsert, Touches
<1>4. CASE SubmitWrite(r)
  BY <1>4 DEF SubmitWrite, Touches
<1>5. CASE LockWrite(r)
  BY <1>5 DEF LockWrite, Touches
<1>6. ASSUME NEW c \in Corrections, CorrectionCreate(r, c) PROVE Frame(r)
  BY <1>6 DEF CorrectionCreate, Touches
<1>7. CASE CorrectionDecide(r)
  <2>1. corr[req[r].c] \in CorrectionRow /\ req[r].c \in Corrections
    BY <1>7 DEF CorrectionDecide, RowsExist
  <2>2. Touches(r) = {corr[req[r].c].s}
    BY <1>7 DEF CorrectionDecide, Touches
  <2>3. /\ corr'[req[r].c].s = corr[req[r].c].s
        /\ corr'[req[r].c] # NoRow
        /\ \A c \in Corrections \ {req[r].c} : corr'[c] = corr[c]
    BY <1>7, <2>1 DEF CorrectionDecide, CorrectionRow, NoRow, Decision
  <2>4. req'[r] = Idle \/ (req'[r].pc = "apply" /\ req'[r].c = req[r].c)
    <3>1. CASE req[r].decision = "APPROVED"
      BY <1>7, <3>1 DEF CorrectionDecide
    <3>2. CASE req[r].decision # "APPROVED"
      BY <1>7, <3>2 DEF CorrectionDecide
    <3>3. QED BY <3>1, <3>2
  <2>5. Touches(r)' \subseteq Touches(r)
    <3>1. CASE req'[r] = Idle
      <4>1. Touches(r)' = {} BY <3>1 DEF Touches
      <4>2. QED BY <4>1
    <3>2. CASE req'[r].pc = "apply" /\ req'[r].c = req[r].c
      <4>1. Touches(r)' = {corr'[req[r].c].s} BY <3>2 DEF Touches
      <4>2. QED BY <4>1, <2>2, <2>3
    <3>3. QED BY <2>4, <3>1, <3>2
  <2>6. QED BY <1>7, <2>1, <2>2, <2>3, <2>5 DEF CorrectionDecide
<1>8. CASE CorrectionApply(r)
  BY <1>8 DEF CorrectionApply, Touches, RowsExist, CorrectionRow
<1>9. CASE LeaveDecide(r)
  <2>1. leave[req[r].l] \in LeaveRow /\ req[r].l \in Leaves
    BY <1>9 DEF LeaveDecide, RowsExist
  <2>2. Touches(r) = {req[r].l} \cup leave[req[r].l].days
    BY <1>9 DEF LeaveDecide, Touches
  <2>3. /\ leave'[req[r].l].days = leave[req[r].l].days
        /\ leave'[req[r].l] # NoRow
        /\ \A l \in Leaves \ {req[r].l} : leave'[l] = leave[l]
    BY <1>9, <2>1 DEF LeaveDecide, LeaveRow, NoRow, Decision
  <2>4. req'[r] = Idle \/ (req'[r].pc = "applyLeave" /\ req'[r].l = req[r].l)
    <3>1. CASE req[r].decision = "APPROVED"
      BY <1>9, <3>1 DEF LeaveDecide
    <3>2. CASE req[r].decision # "APPROVED"
      BY <1>9, <3>2 DEF LeaveDecide
    <3>3. QED BY <3>1, <3>2
  <2>5. Touches(r)' \subseteq Touches(r)
    <3>1. CASE req'[r] = Idle
      <4>1. Touches(r)' = {} BY <3>1 DEF Touches
      <4>2. QED BY <4>1
    <3>2. CASE req'[r].pc = "applyLeave" /\ req'[r].l = req[r].l
      <4>1. Touches(r)' = {req[r].l} \cup leave'[req[r].l].days BY <3>2 DEF Touches
      <4>2. QED BY <4>1, <2>2, <2>3
    <3>3. QED BY <2>4, <3>1, <3>2
  <2>6. QED BY <1>9, <2>1, <2>2, <2>3, <2>5 DEF LeaveDecide
<1>10. CASE LeaveApply(r)
  BY <1>10 DEF LeaveApply, Touches
<1>11. CASE CorrectionAudit(r)
  BY <1>11 DEF CorrectionAudit, Touches
<1>12. CASE Die(r)
  BY <1>12 DEF Die, Touches
<1>13. QED
  BY <1>1, <1>2, <1>3, <1>4, <1>5, <1>6, <1>7, <1>8, <1>9, <1>10, <1>11, <1>12 DEF Continue

-----------------------------------------------------------------------------
\* Requests own disjoint sets of rows,
Exclusive == \A p, q \in Reqs : p # q => Touches(p) \cap Touches(q) = {}

\* so what request q checked and read is still true when it writes,
Held(q) ==
    /\ req[q].pc \in {"createRecords", "mark"} => sess[req[q].s] # "LOCKED"
    /\ req[q].pc = "submit" => sess[req[q].s] = "DRAFT"
    /\ req[q].pc = "lock"   => sess[req[q].s] = "SUBMITTED"
    /\ req[q].pc = "decide" => corr[req[q].c].state = "PENDING"
    /\ req[q].pc = "apply"  => corr[req[q].c].state = "APPROVED" /\ overwrote[req[q].c] = "NONE"
    /\ req[q].pc \in {"decide", "apply"} =>
         req[q].before = rec[corr[req[q].c].s][corr[req[q].c].st]
    /\ req[q].pc = "decideLeave" => leave[req[q].l].state = "PENDING"
    /\ req[q].pc = "applyLeave"  => leave[req[q].l].state = "APPROVED"
    /\ req[q].pc = "log" => overwrote[req[q].entry[1]] = req[q].entry[2]

\* and a correction touches its record only after its approval.
Undecided ==
    \A c \in Corrections :
      corr[c] = NoRow \/ corr[c].state \in {"PENDING", "REJECTED"} => overwrote[c] = "NONE"

\* The audit rows written so far are right.
AuditExact == \A e \in audit : e[2] = overwrote[e[1]]

SerialInv ==
    /\ TypeInv
    /\ Exclusive
    /\ \A q \in Reqs : Held(q)
    /\ Undecided
    /\ AuditExact

LEMMA InitSerialInv == Init => SerialInv
BY InitTypeInv
   DEF Init, SerialInv, Exclusive, Held, Undecided, AuditExact, Touches, Idle, NoRow

\* Taking turns keeps ownership disjoint.
LEMMA ExclusiveKept ==
  ASSUME TypeInv, Exclusive, ~MayOverlap, NEW r \in Reqs, Frame(r)
  PROVE  Exclusive'
<1>1. ASSUME NEW q \in Reqs \ {r} PROVE Touches(q)' = Touches(q)
  <2>1. req'[q] = req[q] /\ req[q] \in Request
    BY DEF Frame, TypeInv, TypeOK
  <2>2. /\ req[q].pc \in {"decide", "apply"} => corr'[req[q].c].s = corr[req[q].c].s
        /\ req[q].pc \in {"decideLeave", "applyLeave"} => leave'[req[q].l].days = leave[req[q].l].days
    BY <2>1, RequestShape DEF Frame, TypeInv, RowsExist
  <2>3. QED BY <2>1, <2>2 DEF Touches
<1>2. ASSUME NEW q \in Reqs \ {r} PROVE Touches(r)' \cap Touches(q)' = {}
  <2>1. CASE Touches(r)' \subseteq Touches(r)
    BY <1>1, <2>1 DEF Exclusive
  <2>2. CASE MayStart(r, Touches(r)')
    BY <1>1, <2>2 DEF MayStart
  <2>3. QED BY <2>1, <2>2 DEF Frame
<1>3. SUFFICES ASSUME NEW p \in Reqs, NEW q \in Reqs, p # q
               PROVE  Touches(p)' \cap Touches(q)' = {}
  BY DEF Exclusive
<1>4. CASE p = r
  BY <1>2, <1>3, <1>4
<1>5. CASE q = r
  <2>1. Touches(r)' \cap Touches(p)' = {}
    BY <1>2, <1>3, <1>5
  <2>2. QED BY <2>1, <1>5
<1>6. CASE p # r /\ q # r
  BY <1>1, <1>3, <1>6 DEF Exclusive
<1>7. QED BY <1>4, <1>5, <1>6

\* What another request holds survives a step of r.
LEMMA OthersHeld ==
  ASSUME SerialInv, NEW r \in Reqs, Frame(r), NEW q \in Reqs \ {r},
         \A c \in Corrections : overwrote[c] # "NONE" => overwrote'[c] = overwrote[c]
  PROVE  Held(q)'
<1>1. req'[q] = req[q] /\ req[q] \in Request /\ Held(q) /\ Touches(q) \cap Touches(r) = {}
  BY DEF Frame, SerialInv, TypeInv, TypeOK, Exclusive
<1>2. /\ req[q].pc \in {"createRecords", "mark", "submit", "lock"} => sess'[req[q].s] = sess[req[q].s]
      /\ req[q].pc \in {"decideLeave", "applyLeave"} => leave'[req[q].l] = leave[req[q].l]
  <2>1. CASE req[q].pc \in {"createRecords", "mark", "submit", "lock"}
    <3>1. req[q].s \in Touches(q) /\ req[q].s \in Sessions
      BY <1>1, <2>1, RequestShape DEF Touches
    <3>2. QED BY <1>1, <2>1, <3>1 DEF Frame
  <2>2. CASE req[q].pc \in {"decideLeave", "applyLeave"}
    <3>1. req[q].l \in Touches(q) /\ req[q].l \in Leaves
      BY <1>1, <2>2, RequestShape DEF Touches
    <3>2. leave[req[q].l] # NoRow
      BY <2>2 DEF SerialInv, TypeInv, RowsExist
    <3>3. QED BY <1>1, <2>2, <3>1, <3>2 DEF Frame
  <2>3. QED BY <2>1, <2>2
<1>3. ASSUME req[q].pc \in {"decide", "apply"}
      PROVE  /\ corr'[req[q].c] = corr[req[q].c]
             /\ overwrote'[req[q].c] = overwrote[req[q].c]
             /\ rec'[corr[req[q].c].s] = rec[corr[req[q].c].s]
  <2>1. corr[req[q].c] # NoRow /\ req[q].c \in Corrections
    BY <1>1, <1>3, RequestShape DEF SerialInv, TypeInv, RowsExist
  <2>2. corr[req[q].c].s \in Touches(q)
    BY <1>3 DEF Touches
  <2>3. corr[req[q].c].s \in Sessions
    BY <2>1 DEF SerialInv, TypeInv, TypeOK, CorrectionRow
  <2>4. QED BY <1>1, <2>1, <2>2, <2>3 DEF Frame
<1>4. req[q].pc = "log" => overwrote'[req[q].entry[1]] = overwrote[req[q].entry[1]]
  <2>1. SUFFICES ASSUME req[q].pc = "log"
                 PROVE  overwrote'[req[q].entry[1]] = overwrote[req[q].entry[1]]
    OBVIOUS
  <2>2. req[q].entry \in AuditRow
    BY <1>1, <2>1, RequestShape
  <2>3. req[q].entry[1] \in Corrections /\ overwrote[req[q].entry[1]] # "NONE"
    BY <1>1, <2>1, <2>2 DEF Held, AuditRow, RecordStatus
  <2>4. QED BY <2>3
<1>5. QED BY <1>1, <1>2, <1>3, <1>4 DEF Held

\* What a step of r establishes itself.
Establishes(r) ==
    /\ Held(r)'
    /\ Undecided'
    /\ AuditExact'
    /\ \A c \in Corrections : overwrote[c] # "NONE" => overwrote'[c] = overwrote[c]

LEMMA BeginEstablishes ==
  ASSUME SerialInv, NEW r \in Reqs, Begin(r)
  PROVE  Establishes(r)
<1> USE DEF SerialInv, TypeInv, TypeOK, Establishes, Held, Goto, Undecided, AuditExact
<1>1. ASSUME NEW s \in Sessions, CreateSession(r, s) PROVE Establishes(r)
  BY <1>1 DEF CreateSession
<1>2. ASSUME NEW s \in Sessions, SubmitSession(r, s) PROVE Establishes(r)
  BY <1>2 DEF SubmitSession, MaySubmit
<1>3. ASSUME NEW s \in Sessions, LockSession(r, s) PROVE Establishes(r)
  BY <1>3 DEF LockSession, MayLock
<1>4. ASSUME NEW s \in Sessions, NEW m \in MarkInputs, MarkRecords(r, s, m) PROVE Establishes(r)
  BY <1>4 DEF MarkRecords, AssertNotLocked
<1>5. ASSUME NEW s \in Sessions, NEW st \in Students, NEW want \in RecordStatus,
             RequestCorrection(r, s, st, want)
      PROVE  Establishes(r)
  BY <1>5 DEF RequestCorrection
<1>6. ASSUME NEW c \in Corrections, NEW d \in Decision, ReviewCorrection(r, c, d) PROVE Establishes(r)
  BY <1>6 DEF ReviewCorrection, Reviewable
<1>7. ASSUME NEW l \in Leaves, NEW st \in Students, NEW days \in SUBSET Sessions,
             CreateLeaveRequest(r, l, st, days)
      PROVE  Establishes(r)
  BY <1>7 DEF CreateLeaveRequest, Done, Idle
<1>8. ASSUME NEW l \in Leaves, NEW d \in Decision, ReviewLeaveRequest(r, l, d) PROVE Establishes(r)
  BY <1>8 DEF ReviewLeaveRequest, Reviewable
<1>9. QED BY <1>1, <1>2, <1>3, <1>4, <1>5, <1>6, <1>7, <1>8 DEF Begin

LEMMA ContinueEstablishes ==
  ASSUME SerialInv, NEW r \in Reqs, Continue(r) \/ Die(r)
  PROVE  Establishes(r)
<1> USE DEF SerialInv, TypeInv, TypeOK, Establishes, Held, Goto, At, Done, Idle,
            Undecided, AuditExact
<1> req[r] \in Request
  OBVIOUS
<1> USE RequestShape
<1>1. CASE CreateInsert(r)
  BY <1>1 DEF CreateInsert
<1>2. CASE CreateRecords(r)
  BY <1>2 DEF CreateRecords
<1>3. CASE MarkUpsert(r)
  <2>1. \/ req'[r] = Idle
        \/ req'[r].pc = "mark" /\ req'[r].s = req[r].s
    BY <1>3 DEF MarkUpsert
  <2>2. UNCHANGED <<sess, corr, leave, audit, wasLocked, overwrote>> /\ req[r].pc = "mark"
    BY <1>3 DEF MarkUpsert
  <2>3. QED BY <2>1, <2>2
<1>4. CASE SubmitWrite(r)
  BY <1>4 DEF SubmitWrite
<1>5. CASE LockWrite(r)
  BY <1>5 DEF LockWrite
<1>6. ASSUME NEW c \in Corrections, CorrectionCreate(r, c) PROVE Establishes(r)
  BY <1>6 DEF CorrectionCreate, NoRow
<1>7. CASE CorrectionDecide(r)
  <2>1. /\ corr[req[r].c] \in CorrectionRow /\ req[r].c \in Corrections
        /\ corr[req[r].c].state = "PENDING" /\ overwrote[req[r].c] = "NONE"
    BY <1>7 DEF CorrectionDecide, RowsExist
  <2>2. /\ corr'[req[r].c].s = corr[req[r].c].s /\ corr'[req[r].c].st = corr[req[r].c].st
        /\ corr'[req[r].c].state = req[r].decision
        /\ \A c \in Corrections \ {req[r].c} : corr'[c] = corr[c]
    BY <1>7, <2>1 DEF CorrectionDecide, CorrectionRow
  <2>3. Undecided'
    BY <1>7, <2>1, <2>2 DEF CorrectionDecide
  <2>4. \/ req'[r] = Idle
        \/ req'[r].pc = "apply" /\ req'[r].c = req[r].c /\ req'[r].before = req[r].before
                                /\ req[r].decision = "APPROVED"
    <3>1. CASE req[r].decision = "APPROVED"
      BY <1>7, <3>1 DEF CorrectionDecide
    <3>2. CASE req[r].decision # "APPROVED"
      BY <1>7, <3>2 DEF CorrectionDecide
    <3>3. QED BY <3>1, <3>2
  <2>5. Held(r)'
    BY <1>7, <2>1, <2>2, <2>4 DEF CorrectionDecide
  <2>6. QED BY <1>7, <2>3, <2>5 DEF CorrectionDecide
<1>8. CASE CorrectionApply(r)
  <2>1. /\ corr[req[r].c] \in CorrectionRow /\ req[r].c \in Corrections
        /\ corr[req[r].c].state = "APPROVED" /\ overwrote[req[r].c] = "NONE"
        /\ req[r].before = rec[corr[req[r].c].s][corr[req[r].c].st]
    BY <1>8 DEF CorrectionApply, RowsExist
  <2>2. overwrote' = [overwrote EXCEPT ![req[r].c] = req[r].before] /\ UNCHANGED <<corr, audit>>
    BY <1>8, <2>1 DEF CorrectionApply
  <2>3. req'[r] = [pc |-> "log", entry |-> <<req[r].c, req[r].before, corr[req[r].c].want>>]
    BY <1>8 DEF CorrectionApply
  <2>4. Held(r)'
    <3>1. req'[r].pc = "log" /\ req'[r].entry[1] = req[r].c /\ req'[r].entry[2] = req[r].before
      BY <2>3
    <3>2. overwrote'[req[r].c] = req[r].before
      BY <2>1, <2>2
    <3>3. QED BY <3>1, <3>2
  <2>5. AuditExact' /\ Undecided'
    <3>1. \A e \in audit : e[1] # req[r].c
      BY <2>1 DEF AuditRow, RecordStatus
    <3>2. \A e \in audit : e[1] \in Corrections
      BY DEF AuditRow
    <3>3. AuditExact'
      BY <3>1, <3>2, <2>2
    <3>4. \A c \in Corrections : c # req[r].c => overwrote'[c] = overwrote[c]
      BY <2>2
    <3>5. corr[req[r].c] # NoRow /\ corr[req[r].c].state \notin {"PENDING", "REJECTED"}
      BY <2>1 DEF NoRow, CorrectionRow
    <3>6. Undecided'
      BY <2>2, <3>4, <3>5
    <3>7. QED BY <3>3, <3>6
  <2>6. QED BY <2>1, <2>2, <2>4, <2>5
<1>9. CASE LeaveDecide(r)
  <2>1. leave[req[r].l] \in LeaveRow /\ req[r].l \in Leaves
    BY <1>9 DEF LeaveDecide, RowsExist
  <2>2. leave'[req[r].l].state = req[r].decision
    BY <1>9, <2>1 DEF LeaveDecide, LeaveRow
  <2>3. \/ req'[r] = Idle
        \/ req'[r].pc = "applyLeave" /\ req'[r].l = req[r].l /\ req[r].decision = "APPROVED"
    <3>1. CASE req[r].decision = "APPROVED"
      BY <1>9, <3>1 DEF LeaveDecide
    <3>2. CASE req[r].decision # "APPROVED"
      BY <1>9, <3>2 DEF LeaveDecide
    <3>3. QED BY <3>1, <3>2
  <2>4. QED BY <1>9, <2>1, <2>2, <2>3 DEF LeaveDecide
<1>10. CASE LeaveApply(r)
  BY <1>10 DEF LeaveApply
<1>11. CASE CorrectionAudit(r)
  BY <1>11 DEF CorrectionAudit
<1>12. CASE Die(r)
  BY <1>12 DEF Die
<1>13. QED
  BY <1>1, <1>2, <1>3, <1>4, <1>5, <1>6, <1>7, <1>8, <1>9, <1>10, <1>11, <1>12 DEF Continue

LEMMA NextSerialInv == ~MayOverlap /\ SerialInv /\ [Next]_vars => SerialInv'
<1> SUFFICES ASSUME ~MayOverlap, SerialInv, [Next]_vars PROVE SerialInv'
  OBVIOUS
<1>1. TypeInv'
  BY NextTypeInv DEF SerialInv
<1>2. ASSUME NEW r \in Reqs, Begin(r) \/ Continue(r) \/ Die(r) PROVE SerialInv'
  <2>1. Frame(r)
    BY <1>2, BeginFrame, ContinueFrame DEF SerialInv
  <2>2. Establishes(r)
    BY <1>2, BeginEstablishes, ContinueEstablishes
  <2>3. Exclusive'
    BY <2>1, ExclusiveKept DEF SerialInv
  <2>4. ASSUME NEW q \in Reqs PROVE Held(q)'
    BY <2>1, <2>2, OthersHeld DEF Establishes
  <2>5. QED BY <1>1, <2>2, <2>3, <2>4 DEF SerialInv, Establishes
<1>3. CASE UNCHANGED vars
  <2>1. UNCHANGED <<sess, rec, corr, leave, audit, req, overwrote>>
    BY <1>3 DEF vars
  <2>2. Exclusive'
    BY <2>1 DEF SerialInv, Exclusive, Touches
  <2>3. \A q \in Reqs : Held(q)'
    BY <2>1 DEF SerialInv, Held
  <2>4. Undecided' /\ AuditExact'
    BY <2>1 DEF SerialInv, Undecided, AuditExact
  <2>5. QED BY <1>1, <2>2, <2>3, <2>4 DEF SerialInv
<1>4. QED BY <1>2, <1>3 DEF Next

LEMMA SerialInvariant == Spec => [](~MayOverlap => SerialInv)
<1>1. (~MayOverlap => SerialInv) /\ [Next]_vars => (~MayOverlap => SerialInv)'
  <2>1. [Next]_vars => MayOverlap' = MayOverlap
    BY DEF Next, vars, MayOverlap
  <2>2. QED BY <2>1, NextSerialInv
<1>2. Init => (~MayOverlap => SerialInv)
  BY InitSerialInv
<1>3. QED BY <1>1, <1>2, PTL DEF Spec

\* With requests about one session taking turns (and any of them dying between
\* two queries), a rejected correction never touched its record and the audit
\* trail of the approved ones is exact.
THEOREM ReviewsSound == Spec => []AuditTellsTheTruth
<1>1. (~MayOverlap => SerialInv) => AuditTellsTheTruth
  BY DEF SerialInv, Undecided, AuditExact, AuditTellsTheTruth
<1>2. QED BY <1>1, SerialInvariant, PTL

\* Under the same assumption a session's status never runs backwards: the
\* status submitSession or lockSession checked is the one it overwrites.
THEOREM StatusOnlyForward == Spec => StatusForward
<1> DEFINE Forward == ~MayOverlap => \A s \in Sessions : Rank(sess[s]) <= Rank(sess'[s])
<1>1. (~MayOverlap => SerialInv) /\ [Next]_vars => [Forward]_vars
  <2> SUFFICES ASSUME SerialInv, Next
               PROVE  \A s \in Sessions : Rank(sess[s]) <= Rank(sess'[s])
    OBVIOUS
  <2>1. \A s \in Sessions : Rank(sess[s]) \in Nat
    BY DEF SerialInv, TypeInv, TypeOK, SessionStatus, Rank
  <2>2. PICK r \in Reqs : Begin(r) \/ Continue(r) \/ Die(r)
    BY DEF Next
  <2>3. req[r] \in Request /\ Held(r)
    BY DEF SerialInv, TypeInv, TypeOK
  <2> USE DEF SerialInv, TypeInv, TypeOK, At
  <2>4. CASE CreateInsert(r)
    <3>1. \A s \in Sessions : sess'[s] = sess[s] \/ (sess[s] = "NONE" /\ sess'[s] = "DRAFT")
      BY <2>3, <2>4, RequestShape DEF CreateInsert
    <3>2. Rank("NONE") <= Rank("DRAFT")
      BY DEF Rank
    <3>3. QED BY <2>1, <3>1, <3>2
  <2>5. CASE SubmitWrite(r)
    <3>1. \A s \in Sessions : sess'[s] = sess[s] \/ (sess[s] = "DRAFT" /\ sess'[s] = "SUBMITTED")
      BY <2>3, <2>5, RequestShape DEF SubmitWrite, Held
    <3>2. Rank("DRAFT") <= Rank("SUBMITTED")
      BY DEF Rank
    <3>3. QED BY <2>1, <3>1, <3>2
  <2>6. CASE LockWrite(r)
    <3>1. \A s \in Sessions : sess'[s] = sess[s] \/ (sess[s] = "SUBMITTED" /\ sess'[s] = "LOCKED")
      BY <2>3, <2>6, RequestShape DEF LockWrite, Held
    <3>2. Rank("SUBMITTED") <= Rank("LOCKED")
      BY DEF Rank
    <3>3. QED BY <2>1, <3>1, <3>2
  <2>7. CASE ~(CreateInsert(r) \/ SubmitWrite(r) \/ LockWrite(r))
    <3>1. sess' = sess
      BY <2>2, <2>7
      DEF Begin, Continue, Die, CreateSession, SubmitSession, LockSession, MarkRecords,
          RequestCorrection, ReviewCorrection, CreateLeaveRequest, ReviewLeaveRequest,
          CreateRecords, MarkUpsert, CorrectionCreate, CorrectionDecide, CorrectionApply,
          LeaveDecide, LeaveApply, CorrectionAudit
    <3>2. QED BY <2>1, <3>1
  <2>8. QED BY <2>4, <2>5, <2>6, <2>7
<1>2. QED BY <1>1, SerialInvariant, PTL DEF Spec, StatusForward

\* Under the same assumption nobody's decision on a correction or on a leave
\* request is replaced by a second reviewer's.
THEOREM DecisionsFinal == Spec => DecisionIsFinal
<1> DEFINE Final ==
      /\ \A c \in Corrections : corr[c] # NoRow /\ corr[c].state \in Decision => corr'[c] = corr[c]
      /\ \A l \in Leaves : leave[l] # NoRow /\ leave[l].state \in Decision => leave'[l] = leave[l]
<1>1. (~MayOverlap => SerialInv) /\ [Next]_vars => [~MayOverlap => Final]_vars
  <2> SUFFICES ASSUME SerialInv, Next PROVE Final
    OBVIOUS
  <2>1. PICK r \in Reqs : Begin(r) \/ Continue(r) \/ Die(r)
    BY DEF Next
  <2>2. req[r] \in Request /\ Held(r)
    BY DEF SerialInv, TypeInv, TypeOK
  <2> USE DEF SerialInv, TypeInv, TypeOK, At, Decision
  <2>3. ASSUME NEW c \in Corrections, CorrectionCreate(r, c) PROVE Final
    BY <2>3 DEF CorrectionCreate
  <2>4. CASE CorrectionDecide(r)
    BY <2>2, <2>4, RequestShape DEF CorrectionDecide, Held
  <2>5. ASSUME NEW l \in Leaves, NEW st \in Students, NEW days \in SUBSET Sessions,
               CreateLeaveRequest(r, l, st, days)
        PROVE  Final
    BY <2>5 DEF CreateLeaveRequest
  <2>6. CASE LeaveDecide(r)
    BY <2>2, <2>6, RequestShape DEF LeaveDecide, Held
  <2>7. CASE UNCHANGED <<corr, leave>>
    BY <2>7
  <2>8. QED
    BY <2>1, <2>3, <2>4, <2>5, <2>6, <2>7
    DEF Begin, Continue, Die, CreateSession, SubmitSession, LockSession, MarkRecords,
        RequestCorrection, ReviewCorrection, ReviewLeaveRequest, CreateInsert, CreateRecords,
        MarkUpsert, SubmitWrite, LockWrite, CorrectionApply, LeaveApply, CorrectionAudit
<1>2. QED BY <1>1, SerialInvariant, PTL DEF Spec, DecisionIsFinal

\* Under the same assumption a record of a LOCKED session changes only through
\* an approved correction or an approved leave request: the flagship rule.
THEOREM LockedFrozen == Spec => LockedRecordsFrozen
<1> DEFINE Frozen ==
      \A s \in Sessions, st \in Students :
        RewritesLocked(s, st) => ByCorrection(s, st) \/ ByLeave(s, st)
<1>1. (~MayOverlap => SerialInv) /\ [Next]_vars => [~MayOverlap => Frozen]_vars
  <2> SUFFICES ASSUME SerialInv, Next PROVE Frozen
    OBVIOUS
  <2>1. PICK r \in Reqs : Begin(r) \/ Continue(r) \/ Die(r)
    BY DEF Next
  <2>2. req[r] \in Request /\ Held(r)
    BY DEF SerialInv, TypeInv, TypeOK
  <2> USE DEF SerialInv, TypeInv, TypeOK, At, RewritesLocked, ByCorrection, ByLeave
  <2>3. CASE CreateRecords(r)
    BY <2>2, <2>3, RequestShape DEF CreateRecords, Held
  <2>4. CASE MarkUpsert(r)
    BY <2>2, <2>4, RequestShape DEF MarkUpsert, Held
  <2>5. CASE CorrectionApply(r)
    <3>1. /\ corr[req[r].c] \in CorrectionRow /\ req[r].c \in Corrections
          /\ corr[req[r].c].state = "APPROVED"
      BY <2>2, <2>5, RequestShape DEF CorrectionApply, Held, RowsExist
    <3> DEFINE row == corr[req[r].c]
    <3>2. rec' = [rec EXCEPT ![row.s][row.st] = row.want]
      BY <2>5 DEF CorrectionApply
    <3>3. row = [state |-> "APPROVED", s |-> row.s, st |-> row.st, want |-> row.want]
      BY <3>1 DEF CorrectionRow
    <3>4. \A s \in Sessions, st \in Students :
            rec'[s][st] # rec[s][st] => s = row.s /\ st = row.st /\ rec'[s][st] = row.want
      BY <3>1, <3>2 DEF CorrectionRow
    <3>5. QED BY <3>1, <3>3, <3>4
  <2>6. CASE LeaveApply(r)
    <3>1. /\ leave[req[r].l] # NoRow /\ req[r].l \in Leaves
          /\ leave[req[r].l].state = "APPROVED"
      BY <2>2, <2>6, RequestShape DEF LeaveApply, Held, RowsExist
    <3>2. \A s \in Sessions, st \in Students :
            rec'[s][st] # rec[s][st] =>
              s \in leave[req[r].l].days /\ st = leave[req[r].l].st /\ rec'[s][st] = "ON_LEAVE"
      BY <2>6 DEF LeaveApply
    <3>3. QED BY <3>1, <3>2
  <2>7. CASE rec' = rec
    BY <2>7
  <2>8. QED
    BY <2>1, <2>3, <2>4, <2>5, <2>6, <2>7
    DEF Begin, Continue, Die, CreateSession, SubmitSession, LockSession, MarkRecords,
        RequestCorrection, ReviewCorrection, CreateLeaveRequest, ReviewLeaveRequest,
        CreateInsert, SubmitWrite, LockWrite, CorrectionCreate, CorrectionDecide,
        LeaveDecide, CorrectionAudit
<1>2. QED BY <1>1, SerialInvariant, PTL DEF Spec, LockedRecordsFrozen

\* However requests overlap or die, a correction request exists only against a
\* session that has been LOCKED.
THEOREM CorrectionsNeedLock == Spec => []CorrectionsOfLockedOnly
<1> DEFINE Inv ==
      /\ TypeInv
      /\ CorrectionsOfLockedOnly
      /\ \A s \in Sessions : sess[s] = "LOCKED" => s \in wasLocked
      /\ \A q \in Reqs : req[q].pc = "correct" => req[q].s \in wasLocked
<1>1. Init => Inv
  BY InitTypeInv DEF Init, CorrectionsOfLockedOnly, NoRow, Idle
<1>2. Inv /\ [Next]_vars => Inv'
  <2> SUFFICES ASSUME Inv, [Next]_vars PROVE Inv'
    OBVIOUS
  <2>1. TypeInv'
    BY NextTypeInv
  <2>2. ASSUME NEW r \in Reqs, Begin(r) PROVE Inv'
    <3>1. UNCHANGED <<sess, corr, wasLocked>> /\ \A q \in Reqs \ {r} : req'[q] = req[q]
      BY <2>2, BeginFrame
      DEF Frame, Begin, CreateSession, SubmitSession, LockSession, MarkRecords, RequestCorrection,
          ReviewCorrection, CreateLeaveRequest, ReviewLeaveRequest
    <3>2. req'[r].pc = "correct" => req'[r].s \in wasLocked
      <4>1. ASSUME NEW s \in Sessions, NEW st \in Students, NEW want \in RecordStatus,
                   RequestCorrection(r, s, st, want)
            PROVE  req'[r].s \in wasLocked
        BY <4>1 DEF RequestCorrection, NeedsCorrection, Goto, TypeInv, TypeOK
      <4> USE DEF Goto, Done, Idle, TypeInv, TypeOK
      <4>2. ASSUME NEW s \in Sessions,
                   \/ CreateSession(r, s) \/ SubmitSession(r, s) \/ LockSession(r, s)
                   \/ \E m \in MarkInputs : MarkRecords(r, s, m)
            PROVE  req'[r].pc # "correct"
        BY <4>2 DEF CreateSession, SubmitSession, LockSession, MarkRecords
      <4>3. ASSUME NEW c \in Corrections, NEW d \in Decision, ReviewCorrection(r, c, d)
            PROVE  req'[r].pc # "correct"
        BY <4>3 DEF ReviewCorrection
      <4>4. ASSUME NEW l \in Leaves, NEW st \in Students, NEW days \in SUBSET Sessions,
                   CreateLeaveRequest(r, l, st, days)
            PROVE  req'[r].pc # "correct"
        BY <4>4 DEF CreateLeaveRequest
      <4>5. ASSUME NEW l \in Leaves, NEW d \in Decision, ReviewLeaveRequest(r, l, d)
            PROVE  req'[r].pc # "correct"
        BY <4>5 DEF ReviewLeaveRequest
      <4>6. QED BY <2>2, <4>1, <4>2, <4>3, <4>4, <4>5 DEF Begin
    <3>3. QED BY <2>1, <3>1, <3>2 DEF CorrectionsOfLockedOnly
  <2>3. ASSUME NEW r \in Reqs, Continue(r) PROVE Inv'
    <3> req[r] \in Request
      BY DEF TypeInv, TypeOK
    <3>1. (\A q \in Reqs \ {r} : req'[q] = req[q]) /\ req'[r].pc # "correct"
      <4> USE DEF At, Goto, Done, Idle, TypeInv, TypeOK
      <4>1. \A q \in Reqs \ {r} : req'[q] = req[q]
        BY <2>3, ContinueFrame DEF Frame
      <4>2. CASE MarkUpsert(r)
        <5>1. req'[r] = Idle \/ req'[r].pc = "mark"
          BY <4>2, RequestShape DEF MarkUpsert
        <5>2. QED BY <4>1, <4>2, <5>1 DEF MarkUpsert
      <4>3. CASE CreateInsert(r) \/ CreateRecords(r) \/ SubmitWrite(r) \/ LockWrite(r)
        BY <4>1, <4>3 DEF CreateInsert, CreateRecords, SubmitWrite, LockWrite
      <4>4. CASE CorrectionDecide(r) \/ LeaveDecide(r)
        BY <4>1, <4>4 DEF CorrectionDecide, LeaveDecide
      <4>5. CASE CorrectionApply(r) \/ LeaveApply(r) \/ CorrectionAudit(r)
        BY <4>1, <4>5 DEF CorrectionApply, LeaveApply, CorrectionAudit
      <4>6. ASSUME NEW c \in Corrections, CorrectionCreate(r, c) PROVE req'[r].pc # "correct"
        BY <4>6 DEF CorrectionCreate
      <4>7. QED BY <2>3, <4>1, <4>2, <4>3, <4>4, <4>5, <4>6 DEF Continue
    <3>2. (\A s \in Sessions : sess'[s] = "LOCKED" => s \in wasLocked') /\ wasLocked \subseteq wasLocked'
      BY <2>3, RequestShape
      DEF Continue, CreateInsert, CreateRecords, MarkUpsert, SubmitWrite, LockWrite, CorrectionCreate,
          CorrectionDecide, CorrectionApply, LeaveDecide, LeaveApply, CorrectionAudit,
          At, TypeInv, TypeOK
    <3>3. CASE UNCHANGED corr
      BY <2>1, <3>1, <3>2, <3>3 DEF CorrectionsOfLockedOnly
    <3>4. ASSUME NEW c \in Corrections, CorrectionCreate(r, c) PROVE Inv'
      BY <2>1, <3>1, <3>2, <3>4 DEF CorrectionCreate, At, CorrectionsOfLockedOnly, TypeInv, TypeOK
    <3>5. CASE CorrectionDecide(r)
      BY <2>1, <2>3, <3>1, <3>2, <3>5, ContinueFrame
      DEF Frame, CorrectionDecide, At, RowsExist, CorrectionsOfLockedOnly, TypeInv, TypeOK
    <3>6. QED
      BY <2>3, <3>3, <3>4, <3>5
      DEF Continue, CreateInsert, CreateRecords, MarkUpsert, SubmitWrite, LockWrite,
          CorrectionApply, LeaveDecide, LeaveApply, CorrectionAudit
  <2>4. ASSUME NEW r \in Reqs, Die(r) PROVE Inv'
    BY <2>1, <2>4 DEF Die, Goto, Idle, CorrectionsOfLockedOnly, TypeInv, TypeOK
  <2>5. CASE UNCHANGED vars
    BY <2>1, <2>5 DEF vars, CorrectionsOfLockedOnly
  <2>6. QED BY <2>2, <2>3, <2>4, <2>5 DEF Next
<1>3. Inv => CorrectionsOfLockedOnly
  OBVIOUS
<1>4. QED BY <1>1, <1>2, <1>3, PTL DEF Spec

-----------------------------------------------------------------------------
\* Together: corrections are requested of locked sessions only, and what their
\* review leaves behind is true, under the condition each part names.
THEOREM CorrectionTrailSound == Spec => []CorrectionsSound
BY TypeCorrect, CorrectionsNeedLock, ReviewsSound, PTL DEF CorrectionsSound

\* Together: if requests take turns, neither a session's status nor a decision is
\* taken back.
THEOREM OutcomesStand == Spec => NothingTakenBack
BY StatusOnlyForward, DecisionsFinal, PTL DEF NothingTakenBack

-----------------------------------------------------------------------------
(***************************************************************************)
(* The roster.  Between createSession's insert and its createMany the      *)
(* session is visible without records, and the request that made it owns   *)
(* it; nothing else ever puts a first record into a session.               *)
(***************************************************************************)
Creating(s) == \E q \in Reqs : At(q, "createRecords") /\ req[q].s = s

\* A session nobody has filled has no record at all, a filled one has them all;
Rosters ==
    \A s \in Sessions :
      IF sess[s] = "NONE" \/ Creating(s)
      THEN \A st \in Students : rec[s][st] = "NONE"
      ELSE \A st \in Active : rec[s][st] # "NONE"

\* and who is about to write a session's records found it created.
Opened == \A q \in Reqs : req[q].pc \in {"createRecords", "mark"} => sess[req[q].s] # "NONE"

PrepInv == SerialInv /\ Opened /\ Rosters

\* Most steps create no session, add no record and leave createMany alone.
LEMMA RostersKept ==
  ASSUME PrepInv, NEW r \in Reqs,
         \A q \in Reqs \ {r} : req'[q] = req[q],
         req[r].pc # "createRecords", req'[r].pc # "createRecords",
         \A s \in Sessions : sess'[s] = "NONE" <=> sess[s] = "NONE",
         \A s \in Sessions, st \in Students : rec'[s][st] = "NONE" <=> rec[s][st] = "NONE",
         req'[r].pc = "mark" => req'[r].s \in Sessions /\ sess[req'[r].s] # "NONE"
  PROVE  Opened' /\ Rosters'
<1>1. ASSUME NEW s \in Sessions PROVE Creating(s)' <=> Creating(s)
  BY DEF Creating, At
<1>2. Rosters'
  BY <1>1, AttendanceAssumption DEF PrepInv, Rosters
<1>3. ASSUME NEW q \in Reqs, req'[q].pc \in {"createRecords", "mark"}
      PROVE  sess'[req'[q].s] # "NONE"
  <2>1. CASE q = r
    BY <1>3, <2>1
  <2>2. CASE q # r
    <3>1. req'[q] = req[q] /\ req[q] \in Request
      BY <2>2 DEF PrepInv, SerialInv, TypeInv, TypeOK
    <3>2. req[q].s \in Sessions
      BY <1>3, <3>1, RequestShape
    <3>3. QED BY <1>3, <3>1, <3>2 DEF PrepInv, Opened
  <2>3. QED BY <2>1, <2>2
<1>4. QED BY <1>2, <1>3 DEF Opened

LEMMA BeginRosters ==
  ASSUME PrepInv, NEW r \in Reqs, Begin(r)
  PROVE  Opened' /\ Rosters'
<1> USE DEF PrepInv, SerialInv, TypeInv, TypeOK, Goto, MayStart, Idle
<1>1. ASSUME NEW s \in Sessions, CreateSession(r, s) PROVE Opened' /\ Rosters'
  BY <1>1, RostersKept DEF CreateSession
<1>2. ASSUME NEW s \in Sessions, SubmitSession(r, s) PROVE Opened' /\ Rosters'
  BY <1>2, RostersKept DEF SubmitSession
<1>3. ASSUME NEW s \in Sessions, LockSession(r, s) PROVE Opened' /\ Rosters'
  BY <1>3, RostersKept DEF LockSession
<1>4. ASSUME NEW s \in Sessions, NEW m \in MarkInputs, MarkRecords(r, s, m)
      PROVE  Opened' /\ Rosters'
  BY <1>4, RostersKept DEF MarkRecords, AssertNotLocked
<1>5. ASSUME NEW s \in Sessions, NEW st \in Students, NEW want \in RecordStatus,
             RequestCorrection(r, s, st, want)
      PROVE  Opened' /\ Rosters'
  BY <1>5, RostersKept DEF RequestCorrection
<1>6. ASSUME NEW c \in Corrections, NEW d \in Decision, ReviewCorrection(r, c, d)
      PROVE  Opened' /\ Rosters'
  BY <1>6, RostersKept DEF ReviewCorrection
<1>7. ASSUME NEW l \in Leaves, NEW st \in Students, NEW days \in SUBSET Sessions,
             CreateLeaveRequest(r, l, st, days)
      PROVE  Opened' /\ Rosters'
  BY <1>7, RostersKept DEF CreateLeaveRequest, Done
<1>8. ASSUME NEW l \in Leaves, NEW d \in Decision, ReviewLeaveRequest(r, l, d)
      PROVE  Opened' /\ Rosters'
  BY <1>8, RostersKept DEF ReviewLeaveRequest
<1>9. QED BY <1>1, <1>2, <1>3, <1>4, <1>5, <1>6, <1>7, <1>8 DEF Begin

\* createSession's own two steps: the insert opens an empty session, createMany
\* fills it, and its owner is the only one to do either.
LEMMA CreateRosters ==
  ASSUME PrepInv, NEW r \in Reqs, CreateInsert(r) \/ CreateRecords(r)
  PROVE  Opened' /\ Rosters'
<1> USE DEF PrepInv, SerialInv, TypeInv, TypeOK
<1> req[r] \in Request
  OBVIOUS
<1> PICK s : s = req[r].s
  OBVIOUS
<1>1. s \in Sessions /\ s \in Touches(r)
  BY RequestShape DEF CreateInsert, CreateRecords, At, Touches
<1>2. ASSUME NEW q \in Reqs \ {r}, req[q].pc \in {"createRecords", "mark"}
      PROVE  req[q].s # s /\ req[q].s \in Sessions
  <2>1. req[q].s \in Touches(q)
    BY <1>2 DEF Touches
  <2>2. req[q] \in Request
    OBVIOUS
  <2>3. QED BY <1>1, <1>2, <2>1, <2>2, RequestShape DEF Exclusive
<1>3. CASE CreateInsert(r) /\ sess[s] = "NONE"
  <2>1. /\ sess' = [sess EXCEPT ![s] = "DRAFT"] /\ rec' = rec
        /\ req' = [req EXCEPT ![r] = [pc |-> "createRecords", s |-> s]]
        /\ req[r].pc = "createInsert"
    BY <1>3 DEF CreateInsert, At, Goto
  <2>2. Opened'
    BY <1>1, <1>2, <2>1 DEF Opened
  <2>3. Creating(s)'
    BY <2>1 DEF Creating, At
  <2>4. ASSUME NEW t \in Sessions \ {s} PROVE Creating(t)' <=> Creating(t)
    BY <2>1 DEF Creating, At
  <2>5. ASSUME NEW t \in Sessions
        PROVE  (IF sess[t] = "NONE" \/ Creating(t)
                THEN \A st \in Students : rec[t][st] = "NONE"
                ELSE \A st \in Active : rec[t][st] # "NONE")'
    <3>1. CASE t = s
      BY <1>1, <1>3, <2>1, <2>3, <3>1 DEF Rosters
    <3>2. CASE t # s
      BY <1>1, <2>1, <2>4, <3>2 DEF Rosters
    <3>3. QED BY <3>1, <3>2
  <2>6. QED BY <2>2, <2>5 DEF Rosters
<1>4. CASE CreateInsert(r) /\ sess[s] # "NONE"
  BY <1>4, RostersKept DEF CreateInsert, At, Goto, Idle
<1>5. CASE CreateRecords(r)
  <2>1. req[r].pc = "createRecords" /\ Creating(s) /\ sess[s] # "NONE"
    BY <1>5 DEF CreateRecords, At, Creating, Opened
  <2>2. \A st \in Students : rec[s][st] = "NONE"
    BY <1>1, <2>1 DEF Rosters
  <2>3. /\ rec' = [rec EXCEPT ![s] =
                     [st \in Students |-> IF st \in Roster THEN "PRESENT" ELSE rec[s][st]]]
        /\ req' = [req EXCEPT ![r] = Idle] /\ sess' = sess
    BY <1>5, <2>2, AttendanceAssumption DEF CreateRecords, Roster, Done, Goto
  <2>4. Opened'
    BY <2>3 DEF Opened, Idle
  <2>5. ~Creating(s)'
    <3>1. ASSUME NEW q \in Reqs, req'[q].pc = "createRecords" PROVE req'[q].s # s
      BY <1>2, <2>3, <3>1 DEF Idle
    <3>2. QED BY <3>1 DEF Creating, At
  <2>6. ASSUME NEW t \in Sessions \ {s} PROVE Creating(t)' <=> Creating(t)
    BY <2>3 DEF Creating, At, Idle
  <2>7. ASSUME NEW t \in Sessions
        PROVE  (IF sess[t] = "NONE" \/ Creating(t)
                THEN \A st \in Students : rec[t][st] = "NONE"
                ELSE \A st \in Active : rec[t][st] # "NONE")'
    <3>1. CASE t = s
      BY <1>1, <2>1, <2>3, <2>5, <3>1, AttendanceAssumption DEF Roster
    <3>2. CASE t # s
      BY <1>1, <2>3, <2>6, <3>2 DEF Rosters
    <3>3. QED BY <3>1, <3>2
  <2>8. QED BY <2>4, <2>7 DEF Rosters
<1>6. QED BY <1>3, <1>4, <1>5

\* A mark request adds records, to a session it owns and found filled.
LEMMA MarkRosters ==
  ASSUME PrepInv, NEW r \in Reqs, MarkUpsert(r)
  PROVE  Opened' /\ Rosters'
<1> USE DEF PrepInv, SerialInv, TypeInv, TypeOK
<1> req[r] \in Request
  OBVIOUS
<1> PICK s : s = req[r].s
  OBVIOUS
<1>1. s \in Sessions /\ s \in Touches(r) /\ sess[s] # "NONE" /\ req[r].pc = "mark"
  BY RequestShape DEF MarkUpsert, At, Touches, Opened
<1>2. ~Creating(s)
  <2>1. ASSUME NEW q \in Reqs, req[q].pc = "createRecords" PROVE req[q].s # s
    <3>1. req[q].s \in Touches(q) /\ q # r
      BY <1>1, <2>1 DEF Touches
    <3>2. QED BY <1>1, <3>1 DEF Exclusive
  <2>2. QED BY <2>1 DEF Creating, At
<1>3. PICK e \in req[r].todo :
        /\ rec' = [rec EXCEPT ![s][e[1]] = e[2]]
        /\ IF req[r].todo = {e} THEN Done(r) ELSE Goto(r, [req[r] EXCEPT !.todo = @ \ {e}])
  BY DEF MarkUpsert
<1>4. e[1] \in Students /\ e[2] \in RecordStatus /\ sess' = sess
  BY <1>1, <1>3, RequestShape DEF MarkUpsert
<1>5. /\ \A q \in Reqs \ {r} : req'[q] = req[q]
      /\ req'[r] = Idle \/ (req'[r].pc = "mark" /\ req'[r].s = s)
  BY <1>1, <1>3, RequestShape DEF Done, Goto
<1>6. Opened'
  BY <1>1, <1>4, <1>5 DEF Opened, Idle
<1>7. ASSUME NEW t \in Sessions PROVE Creating(t)' <=> Creating(t)
  <2>1. req[r].pc # "createRecords" /\ req'[r].pc # "createRecords"
    BY <1>1, <1>5 DEF Idle
  <2>2. QED BY <1>5, <2>1 DEF Creating, At
<1>8. ASSUME NEW t \in Sessions
      PROVE  (IF sess[t] = "NONE" \/ Creating(t)
              THEN \A st \in Students : rec[t][st] = "NONE"
              ELSE \A st \in Active : rec[t][st] # "NONE")'
  <2>1. CASE t = s
    <3>1. \A st \in Active : rec[s][st] # "NONE"
      BY <1>1, <1>2 DEF Rosters
    <3>2. \A st \in Active : rec'[s][st] # "NONE"
      BY <1>1, <1>3, <1>4, <3>1, AttendanceAssumption DEF RecordStatus
    <3>3. QED BY <1>1, <1>2, <1>4, <1>7, <2>1, <3>2
  <2>2. CASE t # s
    BY <1>1, <1>3, <1>4, <1>7, <2>2 DEF Rosters
  <2>3. QED BY <2>1, <2>2
<1>9. QED BY <1>6, <1>8 DEF Rosters

LEMMA ContinueRosters ==
  ASSUME PrepInv, NEW r \in Reqs, Continue(r)
  PROVE  Opened' /\ Rosters'
<1> USE DEF PrepInv, SerialInv, TypeInv, TypeOK, Goto, At, Done, Idle
<1> req[r] \in Request /\ Held(r)
  OBVIOUS
<1>1. CASE CreateInsert(r) \/ CreateRecords(r)
  BY <1>1, CreateRosters
<1>2. CASE MarkUpsert(r)
  BY <1>2, MarkRosters
<1>3. CASE SubmitWrite(r)
  <2>1. req[r].pc = "submit" /\ req[r].s \in Sessions /\ sess[req[r].s] = "DRAFT"
    BY <1>3, RequestShape DEF SubmitWrite, Held
  <2>2. QED BY <1>3, <2>1, RostersKept DEF SubmitWrite
<1>4. CASE LockWrite(r)
  <2>1. req[r].pc = "lock" /\ req[r].s \in Sessions /\ sess[req[r].s] = "SUBMITTED"
    BY <1>4, RequestShape DEF LockWrite, Held
  <2>2. QED BY <1>4, <2>1, RostersKept DEF LockWrite
<1>5. ASSUME NEW c \in Corrections, CorrectionCreate(r, c) PROVE Opened' /\ Rosters'
  BY <1>5, RostersKept DEF CorrectionCreate
<1>6. CASE CorrectionDecide(r)
  <2>1. req[r].pc = "decide" /\ UNCHANGED <<sess, rec>>
    BY <1>6 DEF CorrectionDecide
  <2>2. (\A q \in Reqs \ {r} : req'[q] = req[q]) /\ req'[r].pc \in {"apply", "idle"}
    <3>1. CASE req[r].decision = "APPROVED"
      BY <1>6, <3>1 DEF CorrectionDecide
    <3>2. CASE req[r].decision # "APPROVED"
      BY <1>6, <3>2 DEF CorrectionDecide
    <3>3. QED BY <3>1, <3>2
  <2>3. QED BY <2>1, <2>2, RostersKept
<1>7. CASE CorrectionApply(r)
  <2>1. /\ req[r].pc = "apply" /\ req[r].c \in Corrections
        /\ corr[req[r].c] \in CorrectionRow
        /\ rec[corr[req[r].c].s][corr[req[r].c].st] # "NONE"
    BY <1>7, RequestShape DEF CorrectionApply, RowsExist, RecordsExist
  <2>2. \A s \in Sessions, st \in Students : rec'[s][st] = "NONE" <=> rec[s][st] = "NONE"
    BY <1>7, <2>1 DEF CorrectionApply, CorrectionRow, RecordStatus
  <2>3. /\ sess' = sess /\ req'[r].pc = "log"
        /\ \A q \in Reqs \ {r} : req'[q] = req[q]
    BY <1>7 DEF CorrectionApply
  <2>4. QED BY <2>1, <2>2, <2>3, RostersKept
<1>8. CASE LeaveDecide(r)
  <2>1. req[r].pc = "decideLeave" /\ UNCHANGED <<sess, rec>>
    BY <1>8 DEF LeaveDecide
  <2>2. (\A q \in Reqs \ {r} : req'[q] = req[q]) /\ req'[r].pc \in {"applyLeave", "idle"}
    <3>1. CASE req[r].decision = "APPROVED"
      BY <1>8, <3>1 DEF LeaveDecide
    <3>2. CASE req[r].decision # "APPROVED"
      BY <1>8, <3>2 DEF LeaveDecide
    <3>3. QED BY <3>1, <3>2
  <2>3. QED BY <2>1, <2>2, RostersKept
<1>9. CASE LeaveApply(r)
  <2>1. \A s \in Sessions, st \in Students : rec'[s][st] = "NONE" <=> rec[s][st] = "NONE"
    BY <1>9 DEF LeaveApply
  <2>2. /\ sess' = sess /\ req[r].pc = "applyLeave" /\ req'[r].pc = "idle"
        /\ \A q \in Reqs \ {r} : req'[q] = req[q]
    BY <1>9 DEF LeaveApply
  <2>3. QED BY <2>1, <2>2, RostersKept
<1>10. CASE CorrectionAudit(r)
  BY <1>10, RostersKept DEF CorrectionAudit
<1>11. QED
  BY <1>1, <1>2, <1>3, <1>4, <1>5, <1>6, <1>7, <1>8, <1>9, <1>10 DEF Continue

LEMMA NextPrepInv == ~MayOverlap /\ ~Faults /\ PrepInv /\ [Next]_vars => PrepInv'
<1> SUFFICES ASSUME ~MayOverlap, ~Faults, PrepInv, [Next]_vars PROVE PrepInv'
  OBVIOUS
<1>1. SerialInv'
  BY NextSerialInv DEF PrepInv
<1>2. ASSUME NEW r \in Reqs, Begin(r) \/ Continue(r) \/ Die(r) PROVE PrepInv'
  BY <1>1, <1>2, BeginRosters, ContinueRosters DEF Die, PrepInv
<1>3. CASE UNCHANGED vars
  BY <1>1, <1>3 DEF vars, PrepInv, Opened, Rosters, Creating, At
<1>4. QED BY <1>2, <1>3 DEF Next

\* With requests about one session taking turns and none dying, a session whose
\* createMany is over has a record of every ACTIVE student of the section, and
\* no later step of anyone takes one away.
THEOREM RosterComplete == Spec => []Prepopulated
<1> DEFINE Inv == ~MayOverlap /\ ~Faults => PrepInv
<1>1. Init => Inv
  BY InitSerialInv DEF Init, PrepInv, Opened, Rosters, Idle
<1>2. Inv /\ [Next]_vars => Inv'
  <2>1. [Next]_vars => MayOverlap' = MayOverlap /\ Faults' = Faults
    BY DEF Next, vars, MayOverlap, Faults
  <2>2. QED BY <2>1, NextPrepInv
<1>3. Inv => Prepopulated
  BY DEF PrepInv, Rosters, Creating, Prepopulated
<1>4. QED BY <1>1, <1>2, <1>3, PTL DEF Spec

=============================================================================
