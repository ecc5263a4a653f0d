# Formal verification of the CampusOne API

CampusOne is a multi-tenant college administration API: Express and TypeScript handlers over
Prisma and PostgreSQL, and one BullMQ worker. This directory holds TLA+ models of its core
workflows, TLC configurations that check them on small instances, and theorems TLAPS proves for
all instances. Paths below are relative to the repository (`src/` stands for its root; the code is
in `src/src`). `PROJECT.json` lists every run, mutant, hazard, theorem and, definition by
definition, the lines each model translates.

## 1. What makes this system hard

Three facts shape every model.

1. **Every query is a transaction of its own.** The Prisma extension in
   `src/src/prisma/client.ts:36-53` wraps each query, not each request, in a transaction that sets
   the tenant. No service opens a transaction around several queries. A handler is therefore a chain
   of atomic steps, and the steps of all requests in flight interleave: *check, then write* is two
   transactions.
2. **Nothing is rolled back.** A crash of the process or a failing query leaves the earlier queries
   of the request committed. No job repairs them; retries come from clients.
3. **The only atomic guards are in the schema**: unique indexes, foreign keys (RESTRICT for required
   relations, SET NULL for optional ones, CASCADE where declared), upserts on a unique key, and
   single UPDATE statements with a WHERE or an increment. Business rules ("only DRAFT marks are
   edited", "a settled invoice takes no payment") live in service code, above the queries.

So each component is asked the same questions. Which of its documented rules hold however requests
overlap and die? Which hold if requests about one row take turns? Which do not even hold then,
because the process may stop half-way?

## 2. Inventory

Every component is a folder of `src/src/modules` unless stated otherwise. *State* means tables.
"Log" below is `shared/activityLog.ts`: the last query of almost every mutation writes an audit row.

| Component | State | Operations that change state | Interacts with | Hard behaviour | Correct when |
|---|---|---|---|---|---|
| Attendance | sessions, records, correction requests | create session (+ roster), mark, submit, lock, request/review correction | leave rewrites its records; log carries before/after | check-then-write on session status; several queries per request | status only moves forward; locked records change by approved corrections; decisions stand |
| Leave | types, requests | create, review | rewrites attendance records | approval is decide, then rewrite | decided once; approval reaches the records |
| Fees | structures, invoices, adjustments, payments | create/delete structure, invoice, adjust, waive, pay, refund | webhooks (`fee.invoice.paid`); program, student | status is a cache of the ledger, recomputed from a stale read | status agrees with ledger; WAIVED sticks; settled invoices take no payment |
| Admissions | applications | create, update, advance, reject, withdraw, enrol | creates students (and webhooks) | enrolment is three writes | README life cycle; enrolment whole and once |
| Students | students | create, update, delete | called by admissions and CSV import | uniqueness ignoring case, checked before writing | no two students share an address or roll number |
| Examinations | exams, schedules, marks | exam/schedule CRUD, enter, submit, verify, publish, edit, revise | audit log for revisions; results read it | cascading deletes; bulk status moves | workflow order; verified values fixed; revisions audited |
| Library | books, issues | book CRUD, issue, return | owner is a student or faculty | counter next to the rows it counts, `Promise.all` of two transactions | available = total - out; no negative stock; one return per issue |
| Hostel | hostels, rooms, allocations | CRUD, allocate, vacate | students | capacity and lowest free bed chosen from a stale read, no constraint | one active allocation per student, one student per bed, room not over capacity |
| Transport | vehicles, routes, stops, allocations | CRUD, allocate, remove | students | stop belongs to route, guarded deletes | one active allocation per student; stop is on the route |
| Timetable | entries, period slots | CRUD | sections, faculty, rooms | interval conflicts checked before writing | no double booking |
| Assignments | assignments, submissions | CRUD, publish, close, submit, evaluate | students, faculty | status read before the write | submissions to open assignments only; marks within maximum |
| Placements | companies, openings, applications | CRUD, apply, update status | results (CGPA) | finality checked before the write | SELECTED and REJECTED are final |
| Certificates | types, requests | request, issue, reject, public verify | students | issue and reject race | a verification code verifies an issued request |
| Documents | documents | create, update (new version), review | owners | a review of one version lands on the next | VERIFIED speaks of the current version |
| Approvals | approval requests | create, approve, reject | - | two deciders | decided once |
| Academic years | years | CRUD, set current | batches | clear-others after set | at most one current year |
| Academic structure (departments, programs, batches, sections, subjects, rooms, activities) | one table each | CRUD, guarded deletes | referenced by all the above | count-then-delete, name-then-insert | no orphans, names unique |
| Faculty | faculty, users, roles | create, update, delete | auth, rbac, timetable | three inserts without a transaction | a faculty member has an account with the role |
| Auth | users, refresh and reset tokens, recovery codes, login history | login, refresh, logout, change/reset password, MFA | rbac (role), notifications | rotation, lockout counters, one-time codes | tokens used once; five failed logins in a row lock; password change ends sessions |
| RBAC | roles, user roles, in-process permission cache (60 s) | assign role | every route (`requirePermission`) | load racing `clear` | one role per user; revoked grants gone within the TTL |
| Tenant isolation (`prisma/client.ts`, `tenantContext.ts`) | session variable per transaction, AsyncLocalStorage | wrap each query | every query | context lost across callbacks | a query sees one tenant |
| Notifications | notifications, deliveries, preferences | dispatch, read, preferences | announcements, class groups, auth, reminder job | one insert per recipient and delivery rows after it | every notification has deliveries |
| Announcements | announcements | CRUD | notifications | create, then fan out | published ones notify the audience |
| Reminder job (`queue/`, `notifications/reminderJob.ts`) | `reminderSentAt` | scan every 15 minutes | notifications | send, then mark as sent; repeated job | each announcement reminded, once |
| Class groups | messages | post | notifications | fan-out after insert | members notified |
| Webhooks | endpoints, deliveries | CRUD, trigger | students, fees | one attempt, PENDING before it | outcome recorded |
| API keys | keys | create, revoke | `requireAuth` | - | revoked keys are refused |
| Billing | plans, subscriptions, invoices | subscribe, cancel, invoice, pay | - | last write wins | one subscription per tenant |
| Integrations | provider configuration | configure | notifications | - | - |
| CSV import/export | - | import | students | row by row, no transaction; a row fails after its insert | no student twice, none left out, however often it is uploaded |
| Audit and activity log | audit rows | append | all | written after the effect | - |
| Institution, reports, search, dashboard | institution profile | update profile | read everything | read only | - |
| HTTP shell | - | routing, errors, request ids | - | no state | - |

The interactions that are modelled: leave requests rewrite attendance records and corrections rewrite
them too (one module, since they share the rows); recording a payment recomputes the invoice and
sends a webhook; enrolment calls `createStudent` and then writes both rows; cascading foreign keys
tie exams, schedules and marks; issues and returns of books change the count kept on the book; rooms and
stops hold their hostels and routes, and allocations hold rooms and stops, through foreign keys; what one
table keeps or loses when another's row is deleted (`Registry`); entries answer to an opening or an
assignment (`Decisions`); a role's grants pass through the cache to every request (`Identity`);
announcements, class messages and the reminder scan share one dispatch, which reads preferences and
integrations (`Delivery`), and the same audience is walked twice (`Audience`); an import creates students
by the rules of the student service (`Interchange`).

## 3. Modules

| Module | Models | State | Actions |
|---|---|---|---|
| `Attendance` | `attendance.service.ts`, `leave.service.ts` | `sess`, `rec`, `corr`, `leave`, `audit` | `CreateSession`, `CreateInsert`, `CreateRecords`, `MarkRecords`, `MarkUpsert`, `SubmitSession`, `SubmitWrite`, `LockSession`, `LockWrite`, `RequestCorrection`, `CorrectionCreate`, `ReviewCorrection`, `CorrectionDecide`, `CorrectionApply`, `CorrectionAudit`, `CreateLeaveRequest`, `ReviewLeaveRequest`, `LeaveDecide`, `LeaveApply` |
| `FeeLedger` | `fee.service.ts` | `structures`, `invoice`, `payment` | structure and invoice creation and deletion, `AddFine`, `AddDiscount`, `WaiveInvoice`, `RecordPayment`, `RefundPayment`, `Recompute`, `SetStatus`, `TriggerPaid`, `DueDatePasses` |
| `Admissions` | `admission.service.ts`, `student.service.ts` | `app`, `student` | application create, update, advance, reject, withdraw; enrolment as `CheckEmail`, `CheckRoll`, `StudentInsert`, `SetEnrolled`, `LinkStudent`; student create, update, delete |
| `Examinations` | `examination.service.ts` | `exam`, `schedule`, `marks` | exam create and delete, schedule create, update and delete with cascades; `EnterMarks`/`EnterRead`/`MarksUpsert`, `TransitionScheduleMarks`/`MarksMove`, `EditMarks`/`MarksEdit`, `ReviseMarks`/`MarksRevise`/`LogRevision` |
| `Library` | `library.service.ts` | `book`, `issue` | `CreateBook`, `UpdateBook`/`BookUpdate`, `DeleteBook`/`BookDelete`, `IssueBook`/`IssueInsert`/`IssueCount`, `ReturnBook`/`ReturnWrite`/`ReturnCount`, `DayPasses` |
| `Allocations` | `hostel.service.ts`, `transport.service.ts` | `house` (hostel or route), `place` (room or stop), `vehicle`, `alloc` | creation and deletion of vehicles, houses and places (`CreateRouteWith`/`RouteInsert` with a vehicle), `CreateAllocation`/`CountRoom`/`AllocationInsert`, `VacateAllocation`/`Vacate` |
| `Registry` | the services of the academic structure, `academicYear.service.ts`, `periodSlot.service.ts`, `timetable.service.ts`, `faculty.service.ts`; leave types, certificate types, companies; the references of students, activities, openings, messages | `row`, `teacher` | one `Create...`, `Update...`, `Delete...` per kind over `Insert`, `UpdateWrite`, `DeleteWrite`; `ClearOtherCurrentYears`; faculty as `UserInsert`, `RoleInsert`, `Insert` and `Deactivate`, `DeleteWrite` |
| `Decisions` | `approval`, `certificate`, `document`, `placement`, `assignment` and `billing.service.ts` | `parent` (opening or assignment), `item`, `sub` | creation, decision and deletion of each service, each decision as read (`ApproveRequest`, `IssueRequest`, `ReviewDocument`, `UpdateApplicationStatus`, `EvaluateSubmission`, `PayInvoice`, ...) and `DecideWrite`; publish, close and update of assignments; subscription |
| `Identity` | `auth.service.ts`, `requireAuth.ts`, `rbac/`, `apiKey.service.ts` | `user`, `session`, `reset`, `code`, `holds`, `grants`, `cache`, `key` | login (`LoginWrong`, `RecordFailure`, `LoginRight`, `FindCode`, `UseCode`, `Resolve`, `ClearFailures`, `IssueTokenPair`), `Refresh`/`Rotate`, logout and revocation, change (`ChangePassword`, `CompareCurrent`) and reset of passwords, MFA set-up, enabling and disabling, role assignment and seeding, `RequirePermission`/`LoadPermissions`/`StorePermissions`, `ClearPermissionCache`, API keys |
| `Delivery` | `announcement.service.ts`, posting in `classGroup.service.ts`, `notification.service.ts`, `reminderJob.ts`, `queue/`, `webhook.service.ts`, `webhookDispatcher.ts`, `integration.service.ts` | `ann`, `posted`, `muted`, `mail`, `notes`, `endpoint`, `hook` | `CreateAnnouncement`, `UpdateAnnouncement`, `DeleteAnnouncement`, `PostMessage`, `Resolve`, `ReadPreferences`, `CreateNotification`, `CreateDeliveries`, `StartScan`, `StampReminder`, `SetPreference`, `UpsertIntegration`, endpoints, `TriggerWebhooks`, `HookInsert`, `Post`, `HookWrite`, `AnswerLost` |
| `Results` | grades, SGPA, CGPA, `report.service.ts`, the attendance and dues of `getStudent360`, the leave balance | operators | - |
| `Audience` | `resolveAudienceUserIds`, `getFeed`, members and recipients of class groups | operators | - |
| `Interchange` | `csv.ts`, `importExport.service.ts` | operators | - |
| `Requests` | what all of them share: the requests at work, `mode`, `MayOverlap`, `Faults` | `req`, `mode` | `Goto`, `Done` |
| `Rows` | a row that was never there, is there, or is gone | | - |
| `Workflow` | abstract: a status column whose rows move along given pairs only | `status` | - |
| `MCConditions` | the conditions of service below | | - |
| `MC*` | TLC instances of the above | | symmetry sets, spellings; `MCResults` fills the tables the last three read |
| `*Proofs` | the theorems of a component; `AllocationsProofs` also has those of `Library`, `DecisionsProofs` those of `Delivery`, `ExaminationsProofs` that of `Audience` (through `MCResults`), whose specifications are named `LibrarySpec`, `DeliverySpec` and `TablesSpec` | | |

**How handlers become actions.** A request is a record `req[r]` whose `pc` names the query it issues
next and whose other fields are the values its handler still holds. The first read of a handler and
the check after it are one step (`CreateSession`, `RecordPayment`, ...); each later query is another
(`CreateInsert`, `PaymentInsert`, `SetStatus`, ...). A check that fails answers 4xx and changes
nothing, so it is no step. A later query that a unique index or a foreign key refuses ends the
request. Reads whose answer no modelled request can change are folded into the step after them.
`logActivity` is the last query of a mutation and is modelled where its content matters (approved
corrections, mark revisions). The queries of a `Promise.all` that write are two steps in either order
(`IssueInsert` and `IssueCount`); the request ends with the later one.

**Services built alike share a module.** The services behind the academic structure differ in which kinds
a row refers to, how a conflict is found and which rows a deletion counts. `Registry` has these as
functions of the kind (`Refs`, `Optional`, `Conflict`, `Collides`, `Cascades`), one action per
handler and the common steps below. `mode.scope` names the kinds an instance follows; the rows of the
others are given and stay. `Decisions` does the same for six services with `mode.service`, `Allocations` for
two. `Delivery` is followed one area at a time (`mode.area`: reminders, notices, webhooks), and so are the runs of
`Identity` (`mode.areas`: password and sessions, second factor, access; the proofs are about any set of areas at
once). What two areas share (the user row, the dispatch) is in both.

**Conditions of service.** The variable `mode`, chosen by `Init` from the constant `Modes` and never
changed, says how requests are served; `MayOverlap` and `Faults` name its two fields. With
`MayOverlap` any idle request may start; without it, requests that touch the same row take turns (as a
lock per row would make them) while every other interleaving stays. With `Faults` a request may die
between two queries (`Die`); what it wrote stays. `MCConditions` names the combinations the runs use:

| Condition | `overlap` | `faults` | Meaning |
|---|---|---|---|
| `Deployed` | yes | yes | what the code is exposed to |
| `InTurn` | no | yes | the system with a lock per row |
| `Untroubled` | no | no | and without crashes between two queries |
| `Overlapping` | yes | no | overlap alone |

The run of a component starts from the first three (`Conditions`; `Delivery`, and `Registry` with years and
batches, also from `Overlapping`), and a property says under which of them it is claimed: `LinksAreOneToOne` has no condition and so holds of the
code as deployed; `StatusForward` is `~MayOverlap => ...`; `EnrolmentIsWhole` needs `~MayOverlap /\ ~Faults`.
Every one of these conditions is needed: section 4 lists what happens without. `mode` is not part of
`TypeOK`: its range is `Modes`, of which `RequestsAssumption` says that each has the two fields, and the ASSUME of
a component what the fields it reads may hold; no action assigns it.

**History variables** never guard an action: `wasLocked`, `overwrote` (Attendance), `unannounced`,
`repeated` (FeeLedger), `made` (Admissions), `trail` (Examinations), `cut` (Library), `teacher` (Registry:
who was given the role), `answered` (Decisions), `guesses`, `proved`, `stored` (Identity), `covered`,
`received` (Delivery).

**Abstractions.** Money is a small set of amounts, and an invoice carries the four sums the code
computes from its rows. E-mail addresses and roll numbers are spellings with a `Fold` that forgets
case. A mark's value stands for marks obtained, maximum and special status together. LATE, EXCUSED
and ABSENT are one status in `Attendance`, where no handler tells them apart, and three in `Results`, where the
figures do. Clocks appear only as moments: an invoice's due date passes, a book is late by a day, a lock or a
session expires, a cache entry's TTL ends, an announcement comes within its last 24 hours. Hostel and
transport are built alike and share no table, so `Allocations` is one module whose `mode.service` says which of
the two it is: a room has a capacity and beds, a stop has neither; routes have a vehicle and cascade to their
stops, hostels do not. Passwords are numbered in the order they are set, tokens, secrets and codes are ids that
are never drawn twice, and the recovery codes drawn with a secret are taken as one. EMAIL stands for every
channel that needs an integration. A CSV text is a sequence of characters and five columns stand for fifteen. In `Results` a leave begins and
ends at a time of day, told apart in `TicksPerDay` steps, and an invoice has the status column it was last given,
whatever its ledger says by now.
Tenants are left out of these modules: every query is confined to one.

## 4. Runs

Small ids are model values; those of a kind that the specification treats alike (two spellings of one
address included) form symmetry sets (in the runs of safety properties). `CHECK_DEADLOCK FALSE` in every
configuration: when ids are used up and every request is answered, the system may rest.

| Run | Bounds | Distinct states | Shows |
|---|---|---|---|
| `attendance` | 2 requests; one session, student, correction, leave request; 2 entries per mark request | 417,544 | as deployed corrections of locked sessions only; in turn statuses only forward, decisions final, locked records frozen, audit rows true; untroubled `Prepopulated` |
| `fees` | 2 requests; one invoice and structure, 3 payment rows, amounts 1 and 2 | 459,745 | as deployed PAID is earned and refunds are of payments; in turn waivers stick, structures stay, the event is sent once; untroubled `StatusMatchesLedger`, `NoPaymentOnceSettled` |
| `admissions` | 2 requests; one application, 2 students, two spellings of one address, 3 roll numbers of which two differ in case | 495,978 | as deployed `LinksSound`; in turn `FollowsLifecycle` (a refinement of `Workflow`), students distinct, `EnrolledAsApplied`; untroubled enrolments whole and once |
| `admissions_completes` | 2 requests, 2 addresses, no faults, `FairSpec` | 18,220 | an enrolment that created its student reaches ENROLLED and the link |
| `exams` | 3 requests; one exam, 2 schedules of one subject, 2 students, 2 values | 497,215 | as deployed no orphans, `FollowsWorkflow` (a refinement of `Workflow`); in turn `VerifiedIsFixed`, `NothingTakenAlong`; untroubled revisions audited |
| `library` | 2 requests; one book, 3 issues, totals 1 and 2, at most one day late | 143,485 | as deployed history keeps the book; in turn never negative, `ReturnIsFinal`; untroubled the count matches |
| `allocations` | 2 requests; 2 hostels or routes, 2 rooms or stops, capacities 1 and 2, one vehicle, 2 students, 3 allocations | 106,270 | as deployed references, beds within the room; in turn one active allocation, rooms hold, `NothingTakenAlong` |
| `registry` | 2 requests, 3 rows, 14 groups of one to three kinds, three spellings of which two differ in case, three times of which one overlaps the others | 115,825 | as deployed `ReferencesHold`, no two equal spellings; in turn `NoConflicts`, `SectionsStayAssigned`; one current year as long as none dies, however requests overlap; untroubled accounts come and go with members |
| `decisions` | 2 requests, 6 services, 2 rows, 2 openings or assignments, 2 students, 3 codes, marks 1 and 2, 3 versions | 317,396 | as deployed one entry per student, a code is one certificate's; in turn `FollowsLifecycle` (a refinement of `Workflow`), `DecisionsStand`, `EntriesFollowParent`, VERIFIED and codes speak true |
| `identity` | 2 requests, one user, 3 sessions, one reset, 2 secrets, one key, 2 roles, 2 failures lock | 300,506 | in turn `SessionsEarned`, one use of codes and refresh tokens, the second factor works, cached grants were granted; untroubled no session outlives its password, `LockoutHolds`, one role per user |
| `delivery` | 2 requests or scans, 2 users, 2 announcements, one message, 2 endpoints, one event, one crash | 94,403 | as deployed everybody resolved is reminded, DELIVERED was received, due announcements are reminded of in the end; in turn `OptOutsRespected`; without faults notices whole and webhooks settled; untroubled nobody told twice |
| `results` | 2 exams of 2 subjects with 6 scores; 2 invoices of any stored status, with fines, discounts and refunds beyond the payments; 6 attendance records; 2 leaves in years of 3 days, from and to midnight or 18:00; every college of one account, 2 departments, programs, batches and sections; CSV tables of 5 steps over 6 characters; imports of 3 lines, of which one may have trouble | 134,767 | `FiguresAgree`, `AudienceReadsIt`, `ImportRestarts`: computations compared with each other and with the rows |

**Why the bounds are enough.** Two requests suffice for a stale read: one reads, the other completes,
the first writes. Correction and leave handlers of one session race in pairs. The exam run has three,
two that race and one that finds what they left. Amounts 1 and 2 make partial,
exact and excess payments; two payments and a refund fit in three rows. Two entries per mark request
let a lock fall between two upserts. In `exams` the one subject makes the second schedule of an exam
possible only after a deletion of the first, or in a race for it (which the unique index decides), so
ids of schedules are compared, not their number. In `admissions` three roll numbers let a second
enrolment of one applicant get past the duplicate checks. In `library` and `allocations` two students or
copies contend for one, and the third row is a second issue or allocation after the first has ended, which
is what frees a bed below one that is taken. In `registry` a conflict takes two rows and a deletion one that
refers to another, in a group that holds both kinds; six timetable entries make every pair share a faculty
member, a room or a section, all or none, at times that overlap, coincide or follow one another. In `identity`
three sessions are one and two that replace it; the lock takes two failures so that one failure does not. In
`delivery` two users put one crash between two recipients. The scores of `results` lie on, next to and beyond the
bounds of the grades and have two denominators, so that averages of quotients and quotients of sums differ.

Named bounds are `MaxMarks` (entries in one mark request), `MaxAdjusted` (fines plus discounts on an
invoice), `MaxLate` (days), `MaxCopies` (available copies, which returns that die before writing their row
would raise for ever), `MaxVersion` (of a document), `MaxPassword` (the last number stands for all later
passwords), `MaxCrashes` (in `Delivery`, so that the system is in the end left alone), `DaysPerYear` and `TicksPerDay`. Ids are
never reused, so the sets of ids bound the histories.

**What each condition excludes.** A property that claims nothing as deployed fails there when its condition is
dropped, and so does what a rule says without the exception its property states. TLC prints the execution for
each; they are what the hazards of `PROJECT.json` stand for.

| Property without its condition | Execution |
|---|---|
| `StatusForward` | two submits pass the DRAFT check; one writes, a lock follows, the other writes SUBMITTED over LOCKED |
| `LockedRecordsFrozen` | a mark request that passed its check goes on upserting after the lock |
| `DecisionIsFinal` | two reviews pass the PENDING check and both write |
| `AuditTellsTheTruth` | another approval rewrites the record between the read of `before` and the update |
| `Prepopulated` | the process dies between the session and its records, or a mark request upserts one in between and `createMany` fails as a whole; the retry is refused as a duplicate |
| `WaivedIsSticky` | a recompute read the invoice before it was waived and writes its status after |
| `StatusMatchesLedger` | recomputes write in the opposite order of their reads; or a request dies before its recompute |
| `NoPaymentOnceSettled`, `AnnouncedOnce` | two payments pass the settled check; both recompute to PAID and send the event |
| `InvoiceKeepsStructure` | an invoice is created between count and delete; the foreign key sets NULL |
| `FollowsLifecycle` (`Admissions`) | an advance or a rejection decided on an older status overwrites a newer or terminal one |
| `EnrolmentIsWhole`, `OneStudentPerApplication` | the process dies after `createStudent`; a retry answers DUPLICATE_EMAIL or, the address edited, makes a second student |
| `StudentsAreDistinct` | two creates with different spellings of one address pass the check; the index compares spellings |
| `VerifiedIsFixed` | a value decided on while the mark was a draft overwrites it after it was verified |
| `NothingTakenAlong` (`Examinations`) | a mark or schedule is created between count and delete and goes with the cascade |
| `RevisionsAudited` | a revision dies before its audit row; or two revisions are logged in the other order |
| `StockMatches` | the process dies between row and count; or `updateBook` writes a count computed before an issue; or, in turn, a total is lowered below the copies out and both come back: the shelf holds 2 of 1 (`cut`) |
| `NeverNegative` | two issues both see the last copy |
| `ReturnIsFinal` | two returns both pass the check, and the later writes its fine |
| `OneActivePerStudent`, `RoomsHold` | two allocations both find none for the student, a free place and the same lowest bed |
| `NothingTakenAlong` (`Allocations`) | a stop is added between the counts and the delete of its route |
| `NoConflicts` | two creations that conflict only with each other both pass the check |
| `SectionsStayAssigned` | a student is assigned between the count and the delete; the foreign key sets NULL |
| `OneCurrentYear` | the process dies after a year is written and before the others are cleared (two requests at once clear each other's year and leave none current, which the property allows) |
| `AccountsFollowFaculty` | the process dies after the account is inserted, or after it is deactivated and before the member is deleted |
| `FollowsLifecycle`, `DecisionsStand` (`Decisions`) | two deciders both see PENDING |
| `DecisionsSpeakTrue` | a review of version 1 lands on version 2; a second issue replaces the code already handed out |
| `EntriesFollowParent` | a submission checked while PUBLISHED is filed after the close; marks are checked against a maximum lowered since |
| `SessionsKnowPassword` | a login that compared the old password stores its token after all were revoked; a reset dies before revoking |
| `OneUse` | two refreshes both see the token unrevoked; two logins both find the recovery code; a reset dies before it is spent |
| `LockoutHolds` | two failures write the same count; a success clears a lock set meanwhile |
| `SecondFactorWorks` | the secret that a code proved is replaced before it is enabled; a set-up dies between dropping and adding codes |
| `SessionsEarned` | MFA is enabled, or the password changed, between the check of a login and its token |
| `AccessIsCurrent` | a load begun before `clearPermissionCache` stores the old grants after it; two assignments both delete, then both create |
| `NoticesWhole` | the process dies between a notification and its deliveries; two scans remind of the same announcement |
| `OptOutsRespected` | the user opts out between the read of preferences and the insert |
| `WebhooksHonest`, `EverythingGoesOut` (PENDING) | the process dies before the answer is recorded: nothing tries again |

Rules that are narrower in the code even with requests in turn, which the properties allow by name:

- Leave approval rewrites records of locked sessions too (`ByLeave` in `LockedRecordsFrozen`), and an approval of a
  correction that dies after APPROVED is written is never applied: the next review finds it decided.
- Two refunds of one payment may exceed it; `RefundsAreOfPayments` says what each refund is of, not how much.
- An applicant rejected under one spelling of an address may apply again under another.
- A schedule moved to another subject takes its marks along, published ones too, into that subject's result.
- The dues of the financial summary are clamped after summing, so an overpaid invoice hides what others owe
  (`DuesAgreeOn`: equal to the students' pages only if nothing is overpaid).
- `departmentPerformance` reports as `studentsAssessed` the number of published marks, so a student with four exams counts four times (`Results!DepartmentPerformance`).
- Coming late is being present in the attendance report and is not on the student's page (`AttendanceAgreesOn`).
- A stored status that is not what the ledger says (`StatusMatchesLedger` has how it comes about) makes a student's
  page and the financial summary differ: an invoice left PAID after a refund or a fine shows 0 on the page, which
  goes by the status (`student.service.ts:132-134`), and the debt in the summary, which goes by the ledger. The
  comment above that code, that the figure "always agrees with what the Fees UI shows", is not true of the code;
  `DuesAgreeOn` counts what is hidden so (`missed`) and claims agreement where every status is current. A current
  PAID hides a debt too if more was refunded than paid.
- A leave across New Year counts in full in both years. The days of a leave are rounded from its length
  (`leave.service.ts:138`), so one with times of day may count a day short (from 18:00 to 00:00 on the next date: 1)
  or long (from 00:00 to 18:00: 2). `LeaveIsCountedIn` has never too few days for leaves from midnight to midnight, and
  one day of slack for each other.
- The lock after failed logins is about logins: `changePassword` compares the current password whether the user is
  locked or not and counts no failure (`auth.service.ts:244-249`), which `LockoutHolds` says and leaves out.
- Holders of `CLASS_GROUP_MANAGE` may read every class group without hearing of its messages;
  `GroupMatchesMembers` is about members.
- A row of an import may fail after its student was inserted (its audit row, say) and is then reported as failed
  although the student is there; the next upload reports it as a duplicate (`Restarts`, `Accounts`: at most one
  row of an upload has such trouble).
- The feed of an account linked to a student and to a faculty member forgets the latter's department
  (`FeedMatchesAudience`).
- Reading a CSV file drops a carriage return before a line feed, inside quotes too, and rows that are one empty
  cell (`RoundTrip`).

**Combined properties.** Several invariants of a module are one conjunction in its configuration
(`CorrectionsSound`, `LedgerSound`, `LinksSound`, `EnrolmentSound`, `MarksSound`, `StockSound`,
`AllocationsSound`, `FollowersFollow`, `RecordsSound`, `CredentialsSound`, `NotificationsSound`; for action
properties `NothingTakenBack`), always with the module's one `TypeOK` in the first. Each part is defined and
commented by itself, and the theorems below are about the parts and the conjunction.

**Mutants.** Each property has a mutant (defined next to the operator it replaces, named `Mutant_...`)
that makes TLC find it violated in the very same run: a dropped guard, a missing check of a count, an
index that is not there, a loop that returns early.

**Fairness.** `FairSpec` (Admissions) adds `WF_vars(Continue(r))`: a request Express has accepted issues
its next query, and the database answers. Nothing forces a client to send a request, so no fairness is
put on `Begin`. It is used without faults only, since a request that dies is not continued by anybody.
`Delivery` has the same for its handlers and scans, of which the webhook request ends at the latest after
`DELIVERY_TIMEOUT_MS`, and `WF` of `StartScan(r)`: BullMQ repeats the job every 15 minutes and a scan that failed
is followed by the next. Crashes are part of its liveness (`MaxCrashes`): a scan that dies is made up for by
a later one, while a webhook left PENDING is not, which is why that half of `EverythingGoesOut` asks for `~Faults`.

## 5. Theorems

All are `THEOREM Spec => ...` for every value of the constants that satisfies the module's ASSUMEs; the
condition, if any, is part of the property. Where one module holds the proofs of two components it extends both,
and a theorem uses the ASSUMEs of its own component only; since each speaks of that component's sets and fields
of a mode, those of two components hold together (a mode with the fields of both satisfies them).

| Module | As deployed | If requests on one row take turns | and none dies |
|---|---|---|---|
| `AttendanceProofs` | `TypeCorrect`, `CorrectionsNeedLock` | `StatusOnlyForward`, `DecisionsFinal`, `LockedFrozen`, `ReviewsSound` | `RosterComplete` |
| `FeeLedgerProofs` | `TypeCorrect`, `PaidEarned`, `RefundsCorrect` | `WaivedSticky`, `KeepsStructure`, `PaidAnnouncedOnce` | `StatusMatches`, `NoOverpayment` |
| `AdmissionsProofs` | `TypeCorrect`, `EnrolledCreatesStudent`, `LinksCorrect` | `StudentsDistinct`, `StatusFollowsLifecycle`, `AddressCopied` | `EnrolmentWhole`, `EnrolledAtMostOnce` |
| `ExaminationsProofs` | `TypeCorrect`, `ReferencesHold`, `MarksFollowWorkflow` | `VerifiedFixed`, `CascadesFindNothing` | `AuditExplainsMarks` |
| `AllocationsProofs` | `TypeCorrect`, `References` | `NothingIsTakenAlong`; one active allocation, one student per bed and rooms within capacity in `AllocationsAreSound` | |
| the same, on `Library` | types and issue history in `StockIsSound` | `ReturnsAreFinal`; no negative count in `StockIsSound` | counts match in `StockIsSound` |
| `DecisionsProofs` | `TypeCorrect`, `OneEntry` | `DecisionsNeverOverwritten`, `EntriesStayWithParent`, `DecisionsFollowLifecycle` | |
| the same, on `Delivery` | reminders never skipped in `NotificationsAreSound`; DELIVERED was received in `WebhooksAreHonest` | `OptOutsAreRespected` | nobody told twice in `NotificationsAreSound`; unless one dies, overlapping or not, notices whole (the same) and PENDING is at work (`WebhooksAreHonest`) |
| the same as `ExaminationsProofs`, on `Audience` | `AudienceReads` | | |
| `RegistryProofs` | `TypeCorrect`, `ReferencesAreGood`, spellings in `NamesAndTimesApart` | `NamesAndTimesApart`, `SectionsKeepStudents` | accounts in `FollowersCorrect` (whose current year needs only that none dies) |
| `IdentityProofs` | `TypeCorrect` | `SessionsAreEarned`; one use of tokens and codes, the second factor and the cache in `CredentialsAreSound` and `AccessStaysCurrent` | `LockoutStands`; sessions know their password, one role per user in the same two |

From these follow, as theorems of their own, the conjunctions the runs check: `CorrectionTrailSound` and
`OutcomesStand`, `LedgerCorrect` and `InvoicesStand`, `LinksAndStatusCorrect` and `EnrolmentCorrect`,
`MarksCorrect`, `AllocationsAreSound`, `StockIsSound`, `RecordsAreSound` (`Decisions`), `CredentialsAreSound` and
`AccessStaysCurrent`, `FollowersCorrect`, `NotificationsAreSound`.

**The argument.** A type invariant alone is not inductive, since a request holds ids of rows: the
invariant says in addition what each request may still rely on (`Held`, `Rows`, `Knows`). For the theorems about
requests taking turns the strengthening `SerialInv` has two parts: *requests at work touch different
rows* (established by the guard of `MayStart`, kept because a request's rows never grow, but by rows it has just
created), and *what a request checked is still true of the rows it touches* - a request at `submit` finds its
session still DRAFT, one at `deleteExam` still finds no schedule - because no other request may change them
meanwhile. `~MayOverlap => SerialInv` is then inductive (`mode` never changes), and overlap breaks exactly the
second part. For the refinement of `Workflow` the step lemma
maps every action to moves along allowed pairs or a stutter. The proofs are laid out alike: lemmas about
the shape of requests, one lemma that collapses the actions that only start a request, one step per
remaining action, then PTL. What is particular to a component:

- `Allocations`: a room holds its students because beds are numbered within its capacity and no two active
  allocations share one. `LowestFreeBed` is the least of one number more than beds are taken, without those taken:
  cardinalities of finite sets show that one is left, and that it is within the capacity when the count was below it.
- `Attendance`: for the roster, a session may lack records only until its createMany is over, and only while
  the request that created it is at work on it: no one else is there to mark, submit or approve leave before it.
- `Admissions`: between the insert of a student and the mark on the application, `AddressCopied` needs that neither
  the address of the application nor that of the student changes: both rows belong to the enrolment at work.
- `Library`: the number on the row and the issues that are out say differently how many copies are out, and the
  difference (`Excess`) is what the request at work on the book still owes (`Owed`): one up or down, depending on
  which half of its `Promise.all` was answered, and nothing when no request is at work. A book with issues stays
  because the foreign key speaks at the delete, a return is final because its request still finds the issue out.
- `Decisions`: entries are unique as deployed by the index alone; in turn a request at `DecideWrite` finds the item
  at the status it read, which gives both the finality of decisions and the step to `Workflow`.
- `Registry`: a step of a request is summed up by `Moves`: a row *stays* (but for its flag and for references the
  database clears), *goes* (the one being deleted, and messages with their section) or *comes* (it is written, and
  speaks only for what the request touches). References hold as deployed because a row keeps its kind until it is
  deleted and the foreign keys speak at the write; `Checked` (the references exist, no rival, none of the counted
  kinds, the account is on) is kept by whatever `Moves` apart. The current year needs no turns: whoever writes one
  is about to clear the others, so either such a request is at work or its clearing was the last word.
- `Identity`: the invariant has a part per theme over the same `Turns`: the lock (`LockInv`), the password
  (`PasswordInv`), resets, tokens and codes used once (`ResetInv`, `UseInv`, `CodesInv`), the second factor
  (`FactorInv`), the cache (`CacheInv`) and roles (`RoleInv`). A login that waits to store its token is still
  entitled to it; a load that waits to store an entry still finds what it read in the database.
- `Delivery`: `DispatchInv` says what a dispatch may rely on: what it tells of exists, and whoever of its recipients it
  no longer has to tell has a row. So a scan that has come to `stamp` has told everybody, however it overlaps, and
  rows are never taken back. That rows and deliveries differ by exactly the requests between the two
  (`RowsCounted`) is one element more or less of the finite set `Underway` at each of the two steps, and none when
  nobody dies in between. In turn only one request tells anybody at a time (`TellsAlone`), so preferences it read
  still hold when it delivers, and `ToldOnce` lists who was not told yet: whoever waits in `left`, whatever a scan has
  not come to, whatever is not created. For webhooks `HooksInv` has the answer before the write: a delivery that
  waits to be recorded as answered was received, two requests never serve one event, and an endpoint deleted
  takes its deliveries along, so that who records finds the row PENDING or none.
- `Audience`: the recipients of an announcement are found from its ids to people, the feed from a person's links
  to the ids. For an account linked to one person the two walks visit the same department, program, batch and
  section, one field at a time; of `TablesSpec` it is enough that a table of the computation is a college
  (`CollegeRead`), from the first row on.

The assumptions on constants are few: finite or numeric sets where the code counts, a case folding that maps
spellings to spellings, ids that are not also the words the code uses (`"NONE"`, names of kinds), and sets of modes
with the fields the module reads. TLC evaluates each in the runs.

**Not proved, only model-checked**: liveness (`EnrolmentCompletes`, `EverythingGoesOut`), since ENABLED and
fairness are out of the prover's reach; and `FiguresAgree` and `ImportRestarts`, the properties of `Results` and
`Interchange`, which compute by folds and recursive functions over rows and characters: a proof would be an
induction over that data, which the prover cannot do.

## 6. Plan

| Stage | Modules | Abstract specification | Theorems |
|---|---|---|---|
| done | `Attendance`, `FeeLedger`, `Admissions`, `Examinations`, `Allocations`, `Decisions`, `Registry`, `Identity`, `Library` | `Workflow` (three of them) | section 5 |
| done | `Delivery`, `Audience` | - | section 5 |
| done | `Results`, `Interchange` | - | none: induction over data, left to TLC |

What would come next is outside today's prover: the two liveness properties, and the sums of `Results` once an
induction over finite sets can be instantiated.

## 7. Not modelled

- `updateExam` rewrites the name, year, dates and semester of an exam, which no other operation reads (a result's
  semester is its subject's). `markRead` and `markAllRead` stamp a column only the list of notifications reads.
  `updateInstitution` rewrites two fields of the tenant nothing else reads. An exam schedule's optional room is
  left out; `Registry` has the references of rooms that a service counts.
- `requireModule` reads a table no handler writes. Audit rows other than those of corrections and revisions are
  written after the effect and read by no operation.
- The policies of row-level security are SQL in the migrations and are taken to hold; the queries that run before
  the tenant is known (by unique hash) are in `Identity`. The context is taken to reach the query, as
  `AsyncLocalStorage` guarantees.
- The dashboard, the search, the head counts and dropout figures and the list endpoints are single queries that
  store nothing. The guard against internal addresses (`ssrfGuard.ts`) and signatures, hashing and the arithmetic of
  TOTP codes are taken as what they promise: an address passes or not (`Post` covers a later change), a code is
  valid or not.
- The HTTP shell, configuration, request ids and error formats keep no state. Validation schemas are modelled where
  they bound an input. Seed data and generated client code are left out.
