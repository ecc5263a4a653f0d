--------------------------- MODULE DecisionsProofs ---------------------------
(***************************************************************************)
(* Proofs about Decisions, for any sets of requests, rows, students, codes *)
(* and marks, and in each of the services; and, from the section on        *)
(* delivery on, about Delivery, for any sets of requests, users,           *)
(* announcements, messages, endpoints and events.                          *)
(***************************************************************************)
EXTENDS Decisions, Delivery, FiniteSetTheorems, TLAPS

OnItem   == {"decide", "renew", "delete"}
OnParent == {"edit", "move", "deleteParent"}

LEMMA RequestShape ==
  ASSUME NEW x \in Request
  PROVE  /\ x.pc \in {"idle", "insert", "cancel"} \cup OnItem \cup OnParent
         /\ x.pc = "insert" => x.st \in Students /\ x.of \in Parents
         /\ x.pc \in OnItem => x.i \in Items
         /\ x.pc \in OnParent => x.p \in Parents
         /\ x.pc = "decide" => /\ x.to \in Outcomes(Service) /\ x.seen \in 0..MaxVersion
                               /\ x.code \in Codes \cup {"NONE"} /\ x.marks \in Marks \cup {0}
         /\ x.pc = "edit" => x.max \in Marks
         /\ x.pc = "move" => x.to \in {"PUBLISHED", "CLOSED"}
BY DEF Request, Idle, OnItem, OnParent

LEMMA RequestStep ==
  ASSUME TypeOK, NEW r \in Reqs, NEW x, Goto(r, x)
  PROVE  req'[r] = x /\ \A q \in Reqs \ {r} : req'[q] = req[q]
BY DEF TypeOK, Goto

LEMMA RowKinds ==
  /\ NoRow # Deleted
  /\ \A row \in ParentRow : row # NoRow /\ row # Deleted
  /\ \A row \in ItemRow : row # NoRow /\ row # Deleted
BY DEF NoRow, Deleted, ParentRow, ItemRow

LEMMA Rows ==
  ASSUME TypeOK
  PROVE  /\ \A p \in Parents : Exists(parent[p]) => parent[p] \in ParentRow
         /\ \A i \in Items : Exists(item[i]) => item[i] \in ItemRow
BY DEF TypeOK, Exists

\* The names of statuses, service by service.
LEMMA Statuses ==
  ASSUME NEW s \in Services
  PROVE  /\ FirstOf(s) \in Open(s) /\ FirstOf(s) \notin Outcomes(s)
         /\ Open(s) \subseteq {FirstOf(s)} \cup Outcomes(s)
         /\ s \notin {"placement", "assignment"} => Open(s) = {FirstOf(s)}
         /\ s = "document" => FirstOf(s) = "PENDING"
         /\ s = "certificate" => "ISSUED" \notin Open(s)
<1>1. CASE s \in {"approval", "billing"}
  BY <1>1 DEF FirstOf, Outcomes, Open
<1>2. CASE s \in {"certificate", "document"}
  BY <1>2 DEF FirstOf, Outcomes, Open
<1>3. CASE s \in {"placement", "assignment"}
  BY <1>3 DEF FirstOf, Outcomes, Open
<1>4. QED BY <1>1, <1>2, <1>3 DEF Services

\* What request x locks while requests take turns.
Locks(x) ==
    (CASE x.pc = "insert" -> {x.st, x.of}
       [] x.pc \in OnItem -> {x.i} \cup (IF Exists(item[x.i]) THEN {item[x.i].of} ELSE {})
       [] x.pc \in OnParent -> {x.p}
       [] x.pc = "cancel" -> {"sub"}
       [] OTHER -> {}) \ {"NONE"}

LEMMA TouchesLocks == \A q \in Reqs : Touches(q) \ {"NONE"} = Locks(req[q])
BY DEF Touches, Locks, OnItem, OnParent

-----------------------------------------------------------------------------
\* Requests that overlap and die as they like.

\* Handlers belong to a service, and a code is drawn for an issue alone.
InService(x) ==
    /\ x.pc \in {"insert", "deleteParent"} => Service \in {"placement", "assignment"}
    /\ x.pc \in {"edit", "move"} => Service = "assignment"
    /\ x.pc \in {"renew", "delete"} => Service = "document"
    /\ x.pc = "decide" /\ x.code # "NONE" => Service = "certificate" /\ x.to = "ISSUED"
    /\ x.pc = "cancel" => sub # NoRow

InServices ==
    /\ \A r \in Reqs : InService(req[r])
    /\ \A p \in Parents : Exists(parent[p]) => Service \in {"placement", "assignment"}
    /\ \A i \in Items :
         Exists(item[i]) /\ Service \in {"placement", "assignment"} => item[i].of \in Parents
    /\ answered # {} => Service = "certificate"

\* Request x is about to store and answer this code.
Draws(x, c) == x.pc = "decide" /\ x.code = c

\* The code of a row was answered for that row, and a code is drawn once.
CodesKnown ==
    /\ \A i \in Items, c \in Codes : Exists(item[i]) /\ item[i].code = c => <<c, i>> \in answered
    /\ \A c \in Codes, i, j \in Items : <<c, i>> \in answered /\ <<c, j>> \in answered => i = j
    /\ \A r \in Reqs, c \in Codes :
         Draws(req[r], c) => /\ \A i \in Items : <<c, i>> \notin answered
                             /\ \A q \in Reqs \ {r} : ~Draws(req[q], c)

\* Rows are filed under a parent that exists, once for each student.
FiledOnce ==
    \A i \in Items : Exists(item[i]) /\ item[i].of \in Parents =>
      /\ Exists(parent[item[i].of])
      /\ \A j \in Items : Exists(item[j]) /\ item[j].of = item[i].of /\ item[j].st = item[i].st => i = j

Inv == mode \in Modes /\ TypeOK /\ InServices /\ CodesKnown /\ FiledOnce

LEMMA ServiceKnown == mode \in Modes => Service \in Services
BY DecisionsAssumption DEF Service

LEMMA InvSound ==
  ASSUME Inv
  PROVE  OneEntryPerStudent
<1>1. ASSUME NEW p \in Parents, NEW i \in ItemsOf(p), NEW j \in ItemsOf(p)
      PROVE  Exists(parent[p]) /\ (item[i].st = item[j].st => i = j)
  BY <1>1 DEF Inv, FiledOnce, ItemsOf
<1>2. ASSUME NEW c \in Codes, NEW i \in Items, NEW j \in Items, Verifies(c, i), Verifies(c, j)
      PROVE  i = j
  BY <1>2 DEF Inv, CodesKnown, Verifies
<1>3. QED BY <1>1, <1>2 DEF OneEntryPerStudent

LEMMA InitInv == Init => Inv
<1> SUFFICES ASSUME Init PROVE Inv
  OBVIOUS
<1>1. TypeOK
  BY DEF Init, TypeOK, Request
<1>2. \A r \in Reqs : req[r].pc = "idle"
  BY DEF Init, Idle
<1>3. InServices
  BY <1>2 DEF Init, InServices, InService, Exists
<1>4. CodesKnown /\ FiledOnce
  BY <1>2 DEF Init, CodesKnown, FiledOnce, Draws, Exists
<1>5. QED BY <1>1, <1>3, <1>4 DEF Init, Inv

\* The codes the others draw stay as they are.
LEMMA DrawsKept ==
  ASSUME Inv, NEW r \in Reqs, NEW x, req'[r] = x, \A q \in Reqs \ {r} : req'[q] = req[q],
         \A c \in Codes : Draws(x, c) =>
            /\ \A i \in Items : <<c, i>> \notin answered'
            /\ \A q \in Reqs \ {r} : ~Draws(req[q], c),
         \A e \in answered' \ answered : Draws(req[r], e[1])
  PROVE  \A s \in Reqs, c \in Codes :
           Draws(req'[s], c) => /\ \A i \in Items : <<c, i>> \notin answered'
                                /\ \A q \in Reqs \ {s} : ~Draws(req'[q], c)
<1> SUFFICES ASSUME NEW s \in Reqs, NEW c \in Codes, Draws(req'[s], c)
             PROVE  /\ \A i \in Items : <<c, i>> \notin answered'
                    /\ \A q \in Reqs \ {s} : ~Draws(req'[q], c)
  OBVIOUS
<1>1. CASE s = r
  BY <1>1
<1>2. CASE s # r
  <2>1. Draws(req[s], c)
    BY <1>2
  <2>2. ~Draws(req[r], c) /\ \A i \in Items : <<c, i>> \notin answered
    BY <1>2, <2>1 DEF Inv, CodesKnown
  <2>3. \A i \in Items : <<c, i>> \notin answered'
    BY <2>2
  <2>4. ~Draws(x, c)
    BY <1>2, <2>1
  <2>5. \A q \in Reqs \ {s} : ~Draws(req'[q], c)
    BY <1>2, <2>1, <2>4 DEF Inv, CodesKnown
  <2>6. QED BY <2>3, <2>5
<1>3. QED BY <1>1, <1>2

\* A query that writes nothing, but goes on as x.
LEMMA ReadStep ==
  ASSUME Inv, UNCHANGED <<mode, parent, item, answered, sub>>, NEW r \in Reqs, NEW x \in Request, Goto(r, x),
         InService(x),
         \A c \in Codes : Draws(x, c) => /\ \A i \in Items : <<c, i>> \notin answered
                                         /\ \A q \in Reqs \ {r} : ~Draws(req[q], c)
  PROVE  Inv'
<1>1. req'[r] = x /\ (\A q \in Reqs \ {r} : req'[q] = req[q]) /\ req' \in [Reqs -> Request]
  BY RequestStep DEF Inv, TypeOK, Goto
<1>2. TypeOK'
  BY <1>1 DEF Inv, TypeOK, Request, Outcomes, FirstOf, Service, ItemRow
<1>3. \A s \in Reqs : InService(req[s])'
  BY <1>1 DEF Inv, InServices, InService, Service
<1>4. InServices'
  BY <1>3 DEF Inv, InServices, Exists, Service
<1>5. \A s \in Reqs, c \in Codes :
        Draws(req'[s], c) => /\ \A i \in Items : <<c, i>> \notin answered'
                             /\ \A q \in Reqs \ {s} : ~Draws(req'[q], c)
  BY <1>1, DrawsKept
<1>6. CodesKnown'
  BY <1>5 DEF Inv, CodesKnown, Exists, Draws
<1>7. FiledOnce'
  BY DEF Inv, FiledOnce, Exists
<1>8. QED BY <1>2, <1>4, <1>6, <1>7 DEF Inv

\* The last query of a request, which writes rows and leaves the others' requests alone.
LEMMA WriteStep ==
  ASSUME Inv, UNCHANGED mode, NEW r,
         (r \in Reqs /\ Done(r)) \/ (UNCHANGED req /\ UNCHANGED answered),
         parent' \in [Parents -> ParentRow \cup {NoRow, Deleted}],
         item' \in [Items -> ItemRow \cup {NoRow, Deleted}],
         answered' \subseteq Codes \X Items,
         sub' \in [status : {"TRIALING", "ACTIVE"}, cancel : BOOLEAN] \/ UNCHANGED sub,
         \A p \in Parents : Exists(parent'[p]) => Service \in {"placement", "assignment"},
         \A i \in Items :
           Exists(item'[i]) /\ Service \in {"placement", "assignment"} => item'[i].of \in Parents,
         answered' # {} => Service = "certificate",
         answered \subseteq answered',
         \A e \in answered' \ answered :
           Draws(req[r], e[1]) /\ \A f \in answered' : f[1] = e[1] => f = e,
         \A i \in Items, c \in Codes : Exists(item'[i]) /\ item'[i].code = c => <<c, i>> \in answered',
         FiledOnce'
  PROVE  Inv'
<1>1. req' \in [Reqs -> Request] /\ \A q \in Reqs : req'[q] \in {req[q], Idle}
  BY DEF Inv, TypeOK, Done, Goto, Request
<1>2. sub # NoRow => sub' # NoRow
  BY DEF NoRow
<1>3. TypeOK'
  <2>1. FirstOf(Service)' = FirstOf(Service) /\ Outcomes(Service)' = Outcomes(Service)
    BY DEF Service, FirstOf, Outcomes
  <2>2. ItemRow' = ItemRow /\ Request' = Request
    BY <2>1 DEF ItemRow, Request
  <2>3. QED BY <1>1, <2>2 DEF Inv, TypeOK
<1>4. \A s \in Reqs : InService(req[s])'
  BY <1>1, <1>2 DEF Inv, InServices, InService, Service, Idle
<1>5. InServices'
  BY <1>4 DEF InServices, Service
<1>6. CodesKnown'
  <2>1. \A s \in Reqs, c \in Codes :
          Draws(req'[s], c) => /\ \A i \in Items : <<c, i>> \notin answered'
                               /\ \A q \in Reqs \ {s} : ~Draws(req'[q], c)
    <3>1. CASE UNCHANGED req /\ UNCHANGED answered
      BY <3>1 DEF Inv, CodesKnown
    <3>2. CASE r \in Reqs /\ Done(r)
      <4>1. req'[r] = Idle /\ \A q \in Reqs \ {r} : req'[q] = req[q]
        BY <3>2, RequestStep DEF Done, Inv
      <4>2. \A c : ~Draws(Idle, c)
        BY DEF Draws, Idle
      <4>3. QED BY <3>2, <4>1, <4>2, DrawsKept
    <3>3. QED BY <3>1, <3>2
  <2>2. \A c \in Codes, i, j \in Items : <<c, i>> \in answered' /\ <<c, j>> \in answered' => i = j
    <3> SUFFICES ASSUME NEW c \in Codes, NEW i \in Items, NEW j \in Items,
                        <<c, i>> \in answered', <<c, j>> \in answered'
                 PROVE  i = j
      OBVIOUS
    <3>1. CASE <<c, i>> \in answered /\ <<c, j>> \in answered
      BY <3>1 DEF Inv, CodesKnown
    <3>2. CASE <<c, i>> \notin answered
      BY <3>2
    <3>3. CASE <<c, j>> \notin answered
      BY <3>3
    <3>4. QED BY <3>1, <3>2, <3>3
  <2>3. QED BY <2>1, <2>2 DEF CodesKnown, Draws
<1>7. QED BY <1>3, <1>5, <1>6 DEF Inv

\* Rows stay filed when no parent goes and no row changes student or parent.
LEMMA FiledKept ==
  ASSUME Inv,
         \A p \in Parents : Exists(parent[p]) => Exists(parent'[p]),
         \A i \in Items : Exists(item'[i]) =>
           Exists(item[i]) /\ item'[i].of = item[i].of /\ item'[i].st = item[i].st
  PROVE  FiledOnce'
BY DEF Inv, FiledOnce

\* A query that writes parents, none of which goes.
LEMMA ParentStep ==
  ASSUME Inv, UNCHANGED <<mode, item, answered, sub>>, NEW r, (r \in Reqs /\ Done(r)) \/ UNCHANGED req,
         NEW p \in Parents, NEW row \in ParentRow, parent' = [parent EXCEPT ![p] = row],
         Service \in {"placement", "assignment"}
  PROVE  Inv'
<1>1. parent'[p] = row /\ (\A q \in Parents \ {p} : parent'[q] = parent[q])
      /\ parent' \in [Parents -> ParentRow \cup {NoRow, Deleted}]
  BY DEF Inv, TypeOK
<1>2. \A q \in Parents : Exists(parent[q]) => Exists(parent'[q])
  BY <1>1, RowKinds DEF Exists
<1>3. FiledOnce'
  BY <1>2, FiledKept
<1>4. QED BY <1>1, <1>3, WriteStep DEF Inv, TypeOK, InServices, CodesKnown

\* A query that writes one row, as another one of the same student and parent.
LEMMA ItemStep ==
  ASSUME Inv, UNCHANGED <<mode, parent, answered, sub>>, NEW r \in Reqs, Done(r) \/ UNCHANGED req,
         NEW i \in Items, NEW row \in ItemRow \cup {Deleted}, item' = [item EXCEPT ![i] = row],
         Exists(row) => /\ Exists(item[i]) /\ row.of = item[i].of /\ row.st = item[i].st
                        /\ row.code = item[i].code
  PROVE  Inv'
<1>1. item'[i] = row /\ (\A j \in Items \ {i} : item'[j] = item[j])
      /\ item' \in [Items -> ItemRow \cup {NoRow, Deleted}]
  BY DEF Inv, TypeOK
<1>2. FiledOnce'
  BY <1>1, FiledKept
<1>3. \A j \in Items, c \in Codes : Exists(item'[j]) /\ item'[j].code = c => <<c, j>> \in answered'
  BY <1>1 DEF Inv, CodesKnown
<1>4. QED BY <1>1, <1>2, <1>3, WriteStep DEF Inv, TypeOK, InServices

\* A query that inserts a row, of no parent or of one that exists and has none such.
LEMMA InsertStep ==
  ASSUME Inv, UNCHANGED <<mode, parent, answered, sub>>, NEW r \in Reqs, Done(r) \/ UNCHANGED req,
         NEW i \in Items, item[i] = NoRow, NEW st, NEW p, item' = [item EXCEPT ![i] = NewRow(st, p)],
         \/ st = "NONE" /\ p = "NONE" /\ Service \notin {"placement", "assignment"}
         \/ st \in Students /\ p \in Parents /\ Insertable(st, p)
  PROVE  Inv'
<1>0. PICK row : row = NewRow(st, p)
  OBVIOUS
<1>1. row \in ItemRow /\ row.st = st /\ row.of = p /\ row.code = "NONE"
  BY <1>0, DecisionsAssumption DEF NewRow, ItemRow
<1>2. item'[i] = row /\ (\A j \in Items \ {i} : item'[j] = item[j])
      /\ item' \in [Items -> ItemRow \cup {NoRow, Deleted}]
  BY <1>0, <1>1 DEF Inv, TypeOK
<1>3. FiledOnce'
  <2>1. CASE p = "NONE"
    BY <1>1, <1>2, <2>1, DecisionsAssumption DEF Inv, FiledOnce
  <2>2. CASE p \in Parents /\ Exists(parent[p]) /\ \A j \in ItemsOf(p) : item[j].st # st
    <3>1. \A j \in Items \ {i} : Exists(item[j]) /\ item[j].of = p => item[j].st # st
      BY <2>2 DEF ItemsOf
    <3>2. QED BY <1>1, <1>2, <2>2, <3>1 DEF Inv, FiledOnce
  <2>3. QED BY <2>1, <2>2 DEF Insertable, Filed
<1>4. \A j \in Items, c \in Codes : Exists(item'[j]) /\ item'[j].code = c => <<c, j>> \in answered'
  BY <1>1, <1>2, DecisionsAssumption DEF Inv, CodesKnown
<1>5. \A j \in Items :
        Exists(item'[j]) /\ Service \in {"placement", "assignment"} => item'[j].of \in Parents
  BY <1>1, <1>2 DEF Inv, InServices
<1>6. QED BY <1>2, <1>3, <1>4, <1>5, WriteStep DEF Inv, TypeOK, InServices

-----------------------------------------------------------------------------
\* The handlers.

\* What a request has found out and nobody else changes while requests take turns.
Held(x) ==
    /\ x.pc \in OnItem => Exists(item[x.i])
    /\ x.pc = "decide" => /\ Undecided(x.i) /\ item[x.i].version = x.seen
                          /\ Service = "assignment" => /\ item[x.i].of \in Parents
                                                       /\ x.marks # 0
                                                       /\ x.marks <= parent[item[x.i].of].max
    /\ x.pc = "insert" /\ Service = "assignment" => Accepts(x.of)
    /\ x.pc = "move" => Movable(x.p, IF x.to = "PUBLISHED" THEN "DRAFT" ELSE "PUBLISHED")
    /\ x.pc \in OnParent => Exists(parent[x.p])
    /\ x.pc = "deleteParent" => Unused(x.p)

\* A handler starts with a read that lets it go on as x.
Starts(r, x) ==
    /\ req[r] = Idle
    /\ Goto(r, x)
    /\ UNCHANGED <<parent, item, answered, sub>>
    /\ MayOverlap \/ \A q \in Reqs : Locks(req[q]) \cap Locks(x) = {}
    /\ InService(x)
    /\ Held(x)
    /\ \A c \in Codes : Draws(x, c) => ~Drawn(c)

\* Rows filed under a parent are of the services that have parents.
LEMMA ParentsOf ==
  ASSUME Inv, NEW i \in Items, Exists(item[i])
  PROVE  /\ item[i].of \in Parents \cup {"NONE"}
         /\ item[i].of \in Parents => Service \in {"placement", "assignment"} /\ Exists(parent[item[i].of])
BY Rows DEF Inv, InServices, FiledOnce, ItemRow

LEMMA StartsWith ==
  ASSUME NEW r \in Reqs, NEW things, NEW x, MayStart(r, things), Locks(x) \subseteq things
  PROVE  /\ req[r] = Idle
         /\ MayOverlap \/ \A q \in Reqs : Locks(req[q]) \cap Locks(x) = {}
BY TouchesLocks DEF MayStart

LEMMA DecideCase ==
  ASSUME Inv, NEW r \in Reqs, NEW i \in Items, NEW to \in Outcomes(Service), NEW code \in Codes \cup {"NONE"},
         NEW marks \in Marks \cup {0}, Decide(r, i, to, code, marks),
         code # "NONE" => Service = "certificate" /\ to = "ISSUED" /\ ~Drawn(code),
         Service = "assignment" => /\ item[i].of \in Parents
                                   /\ marks # 0 /\ marks <= parent[item[i].of].max
  PROVE  \E x \in Request : Starts(r, x)
<1>0. PICK x : x = [pc |-> "decide", i |-> i, to |-> to, seen |-> item[i].version, code |-> code, marks |-> marks]
  OBVIOUS
<1>1. item[i].version \in 0..MaxVersion
  BY Rows DEF Decide, Inv, ItemRow
<1>2. x \in Request
  BY <1>0, <1>1 DEF Request
<1>3. Locks(x) \subseteq {i, item[i].of}
  BY <1>0 DEF Locks, OnItem, OnParent
<1>4. Held(x)
  BY <1>0 DEF Held, OnItem, OnParent, Decide
<1>5. InService(x) /\ \A c \in Codes : Draws(x, c) => ~Drawn(c)
  <2>1. x.pc = "decide" /\ x.code = code /\ x.to = to
    BY <1>0
  <2>2. InService(x)
    BY <2>1 DEF InService
  <2>3. \A c \in Codes : Draws(x, c) => ~Drawn(c)
    BY <2>1, DecisionsAssumption DEF Draws
  <2>4. QED BY <2>2, <2>3
<1>6. req[r] = Idle /\ (MayOverlap \/ \A q \in Reqs : Locks(req[q]) \cap Locks(x) = {})
  BY <1>3, StartsWith DEF Decide
<1>7. Goto(r, x) /\ UNCHANGED <<parent, item, answered, sub>>
  BY <1>0 DEF Decide
<1>8. QED BY <1>2, <1>4, <1>5, <1>6, <1>7 DEF Starts

LEMMA ParentCase ==
  ASSUME Inv, NEW r \in Reqs, NEW p \in Parents, MayStart(r, {p}), NEW x \in Request, Goto(r, x),
         x.pc \in OnParent, x.p = p, UNCHANGED <<parent, item, answered, sub>>, InService(x), Held(x)
  PROVE  \E y \in Request : Starts(r, y)
<1>1. Locks(x) \subseteq {p}
  BY DEF Locks, OnParent, OnItem
<1>2. \A c \in Codes : ~Draws(x, c)
  BY DEF Draws, OnParent
<1>3. QED BY <1>1, <1>2, StartsWith DEF Starts

\* What a handler does that ends with its first query.
Writes(r) ==
    /\ req[r] = Idle /\ UNCHANGED <<answered, req>>
    /\ \/ \E i \in Items :
            /\ item[i] = NoRow /\ Service \notin {"placement", "assignment"}
            /\ item' = [item EXCEPT ![i] = NewRow("NONE", "NONE")]
            /\ UNCHANGED <<parent, sub>>
       \/ \E p \in Parents, max \in Marks :
            /\ parent[p] = NoRow /\ Service \in {"placement", "assignment"}
            /\ parent' = [parent EXCEPT ![p] =
                 [status |-> IF Service = "placement" THEN "PUBLISHED" ELSE "DRAFT", max |-> max]]
            /\ UNCHANGED <<item, sub>>
       \/ /\ sub' \in [status : {"TRIALING", "ACTIVE"}, cancel : BOOLEAN]
          /\ UNCHANGED <<parent, item>>

LEMMA CreateCase ==
  ASSUME NEW r \in Reqs, NEW i \in Items, Create(r, i), Service \notin {"placement", "assignment"}
  PROVE  Writes(r)
BY DEF Create, Writes, MayStart

LEMMA BeginItemCases ==
  ASSUME Inv, NEW r \in Reqs, NEW i \in Items, BeginItem(r, i)
  PROVE  Writes(r) \/ \E x \in Request : Starts(r, x)
<1>1. CASE CreateApprovalRequest(r, i) \/ CreateRequest(r, i) \/ CreateDocument(r, i) \/ CreateInvoice(r, i)
  BY <1>1, CreateCase DEF CreateApprovalRequest, CreateRequest, CreateDocument, CreateInvoice
<1>2. CASE ApproveRequest(r, i) \/ RejectApproval(r, i)
  BY <1>2, DecideCase DEF ApproveRequest, RejectApproval, Outcomes
<1>3. CASE RejectRequest(r, i)
  BY <1>3, DecideCase DEF RejectRequest, Outcomes
<1>4. ASSUME NEW c \in Codes, IssueRequest(r, i, c) PROVE \E x \in Request : Starts(r, x)
  BY <1>4, DecideCase DEF IssueRequest, Outcomes
<1>5. CASE UpdateDocument(r, i) \/ DeleteDocument(r, i)
  <2>1. PICK pc \in {"renew", "delete"} : Goto(r, [pc |-> pc, i |-> i])
    BY <1>5 DEF UpdateDocument, DeleteDocument
  <2> DEFINE x == [pc |-> pc, i |-> i]
  <2>2. /\ Service = "document" /\ Exists(item[i]) /\ MayStart(r, {i})
        /\ UNCHANGED <<parent, item, answered, sub>>
    BY <1>5 DEF UpdateDocument, DeleteDocument
  <2>3. x \in Request /\ InService(x) /\ Held(x) /\ \A c : ~Draws(x, c)
    BY <2>2 DEF Request, InService, Held, OnItem, OnParent, Draws
  <2>4. item[i].of = "NONE"
    BY <2>2, ParentsOf
  <2>5. Locks(x) \subseteq {i}
    BY <2>4 DEF Locks, OnItem, OnParent
  <2>6. QED BY <2>1, <2>2, <2>3, <2>5, StartsWith DEF Starts
<1>6. CASE PayInvoice(r, i)
  BY <1>6, DecideCase DEF PayInvoice, Outcomes
<1>7. ASSUME NEW to \in Outcomes(Service), ReviewDocument(r, i, to) \/ UpdateApplicationStatus(r, i, to)
      PROVE  \E x \in Request : Starts(r, x)
  BY <1>7, DecideCase DEF ReviewDocument, UpdateApplicationStatus
<1>8. ASSUME NEW marks \in Marks, EvaluateSubmission(r, i, marks) PROVE \E x \in Request : Starts(r, x)
  <2>1. marks # 0
    BY DecisionsAssumption
  <2>2. item[i].of \in Parents
    BY <1>8 DEF EvaluateSubmission, Inv, InServices
  <2>3. QED BY <1>8, <2>1, <2>2, DecideCase DEF EvaluateSubmission, Outcomes
<1>9. QED BY <1>1, <1>2, <1>3, <1>4, <1>5, <1>6, <1>7, <1>8 DEF BeginItem

LEMMA BeginParentCases ==
  ASSUME Inv, NEW r \in Reqs, NEW p \in Parents, BeginParent(r, p)
  PROVE  Writes(r) \/ \E x \in Request : Starts(r, x)
<1>1. CASE CreateJobOpening(r, p) \/ \E max \in Marks : CreateAssignment(r, p, max)
  BY <1>1 DEF CreateJobOpening, CreateAssignment, Writes, MayStart
<1>2. CASE DeleteJobOpening(r, p) \/ DeleteAssignment(r, p)
  <2>1. PICK x : x = [pc |-> "deleteParent", p |-> p]
    OBVIOUS
  <2>2. /\ Service \in {"placement", "assignment"} /\ Exists(parent[p]) /\ MayStart(r, {p}) /\ Unused(p)
        /\ Goto(r, x) /\ UNCHANGED <<parent, item, answered, sub>>
    BY <1>2, <2>1 DEF DeleteJobOpening, DeleteAssignment
  <2>3. x \in Request /\ x.pc \in OnParent /\ x.p = p
    BY <2>1 DEF Request, OnParent
  <2>4. InService(x) /\ Held(x)
    BY <2>1, <2>2 DEF InService, Held, OnItem, OnParent
  <2>5. QED BY <2>2, <2>3, <2>4, ParentCase
<1>3. CASE PublishAssignment(r, p) \/ CloseAssignment(r, p)
  <2>1. PICK x \in {[pc |-> "move", p |-> p, to |-> "PUBLISHED"], [pc |-> "move", p |-> p, to |-> "CLOSED"]} :
          /\ MayStart(r, {p}) /\ Movable(p, IF x.to = "PUBLISHED" THEN "DRAFT" ELSE "PUBLISHED")
          /\ Goto(r, x) /\ UNCHANGED <<parent, item, answered, sub>>
    BY <1>3 DEF PublishAssignment, CloseAssignment
  <2>2. x \in Request /\ x.pc \in OnParent /\ x.pc = "move" /\ x.p = p
    BY <2>1 DEF Request, OnParent
  <2>3. InService(x) /\ Held(x)
    BY <2>1, <2>2 DEF InService, Held, OnItem, OnParent, Movable, Editable
  <2>4. QED BY <2>1, <2>2, <2>3, ParentCase
<1>4. ASSUME NEW max \in Marks, UpdateAssignment(r, p, max) PROVE \E x \in Request : Starts(r, x)
  <2>1. PICK x : x = [pc |-> "edit", p |-> p, max |-> max]
    OBVIOUS
  <2>2. /\ Service = "assignment" /\ Exists(parent[p]) /\ MayStart(r, {p})
        /\ Goto(r, x) /\ UNCHANGED <<parent, item, answered, sub>>
    BY <1>4, <2>1 DEF UpdateAssignment, Editable
  <2>3. x \in Request /\ x.pc \in OnParent /\ x.p = p
    BY <2>1 DEF Request, OnParent
  <2>4. InService(x) /\ Held(x)
    BY <2>1, <2>2 DEF InService, Held, OnItem, OnParent
  <2>5. QED BY <2>2, <2>3, <2>4, ParentCase
<1>5. ASSUME NEW st \in Students, ApplyToJob(r, st, p) \/ CreateSubmission(r, st, p)
      PROVE  \E x \in Request : Starts(r, x)
  <2>1. PICK x : x = [pc |-> "insert", st |-> st, of |-> p]
    OBVIOUS
  <2>2. /\ Service \in {"placement", "assignment"} /\ MayStart(r, {st, p})
        /\ Goto(r, x) /\ UNCHANGED <<parent, item, answered, sub>>
    BY <1>5, <2>1 DEF ApplyToJob, CreateSubmission
  <2>3. Service = "assignment" => Accepts(p)
    BY <1>5 DEF ApplyToJob, CreateSubmission
  <2>4. x \in Request /\ InService(x) /\ Held(x) /\ \A c : ~Draws(x, c)
    BY <2>1, <2>2, <2>3 DEF Request, InService, Held, OnItem, OnParent, Draws
  <2>5. Locks(x) \subseteq {st, p}
    BY <2>1 DEF Locks, OnItem, OnParent
  <2>6. QED BY <2>2, <2>4, <2>5, StartsWith DEF Starts
<1>6. QED BY <1>1, <1>2, <1>3, <1>4, <1>5 DEF BeginParent

LEMMA BeginCases ==
  ASSUME Inv, NEW r \in Reqs, Begin(r)
  PROVE  Writes(r) \/ \E x \in Request : Starts(r, x)
<1>1. CASE SetSubscription(r)
  BY <1>1 DEF SetSubscription, MayStart, Writes
<1>2. CASE CancelSubscription(r)
  <2>1. PICK x : x = [pc |-> "cancel"]
    OBVIOUS
  <2>2. sub # NoRow /\ MayStart(r, {"sub"}) /\ Goto(r, x) /\ UNCHANGED <<parent, item, answered, sub>>
    BY <1>2, <2>1 DEF CancelSubscription
  <2>3. x \in Request /\ InService(x) /\ Held(x) /\ \A c : ~Draws(x, c)
    BY <2>1, <2>2 DEF Request, InService, Held, OnItem, OnParent, Draws
  <2>4. Locks(x) \subseteq {"sub"}
    BY <2>1 DEF Locks, OnItem, OnParent
  <2>5. QED BY <2>2, <2>3, <2>4, StartsWith DEF Starts
<1>3. QED BY <1>1, <1>2, BeginItemCases, BeginParentCases DEF Begin

LEMMA WritesInv ==
  ASSUME Inv, UNCHANGED mode, NEW r \in Reqs, Writes(r)
  PROVE  Inv'
<1>1. ASSUME NEW i \in Items, item[i] = NoRow, Service \notin {"placement", "assignment"},
             item' = [item EXCEPT ![i] = NewRow("NONE", "NONE")], UNCHANGED <<parent, sub>>
      PROVE  Inv'
  BY <1>1, InsertStep DEF Writes
<1>2. ASSUME NEW p \in Parents, NEW max \in Marks, Service \in {"placement", "assignment"},
             parent' = [parent EXCEPT ![p] =
               [status |-> IF Service = "placement" THEN "PUBLISHED" ELSE "DRAFT", max |-> max]],
             UNCHANGED <<item, sub>>
      PROVE  Inv'
  <2>1. PICK row : row = [status |-> IF Service = "placement" THEN "PUBLISHED" ELSE "DRAFT", max |-> max]
    OBVIOUS
  <2>2. row \in ParentRow /\ parent' = [parent EXCEPT ![p] = row]
    BY <1>2, <2>1 DEF ParentRow
  <2>3. QED BY <1>2, <2>2, ParentStep DEF Writes
<1>3. ASSUME sub' \in [status : {"TRIALING", "ACTIVE"}, cancel : BOOLEAN], UNCHANGED <<parent, item>>
      PROVE  Inv'
  <2>1. FiledOnce'
    BY <1>3, FiledKept
  <2>2. QED BY <1>3, <2>1, WriteStep DEF Writes, Inv, TypeOK, InServices, CodesKnown
<1>4. QED BY <1>1, <1>2, <1>3 DEF Writes

LEMMA BeginInv ==
  ASSUME Inv, UNCHANGED mode, NEW r \in Reqs, Begin(r)
  PROVE  Inv'
<1>1. ASSUME NEW x \in Request, Starts(r, x) PROVE Inv'
  <2>1. \A q \in Reqs, c \in Codes : Draws(req[q], c) => Drawn(c)
    BY DEF Draws, Drawn, At
  <2>2. \A i \in Items, c \in Codes : <<c, i>> \in answered => Drawn(c)
    BY DEF Drawn
  <2>3. QED BY <1>1, <2>1, <2>2, ReadStep DEF Starts
<1>2. QED BY <1>1, BeginCases, WritesInv

-----------------------------------------------------------------------------
\* The second queries.

LEMMA ServicesSame ==
  ASSUME UNCHANGED mode
  PROVE  /\ Service' = Service /\ MayOverlap' = MayOverlap
         /\ FirstOf(Service)' = FirstOf(Service) /\ Outcomes(Service)' = Outcomes(Service)
         /\ Open(Service)' = Open(Service) /\ ItemRow' = ItemRow /\ Request' = Request
BY DEF Service, MayOverlap, FirstOf, Outcomes, Open, ItemRow, Request

LEMMA IdleStep ==
  ASSUME Inv, UNCHANGED <<mode, parent, item, answered, sub>>, NEW r \in Reqs, Done(r)
  PROVE  Inv'
<1>1. Idle \in Request /\ InService(Idle) /\ \A c : ~Draws(Idle, c)
  BY DEF Request, Idle, InService, Draws
<1>2. QED BY <1>1, ReadStep DEF Done

LEMMA DecidedRow ==
  ASSUME Inv, NEW r \in Reqs, At(r, "decide"), Exists(item[req[r].i]),
         NEW row, row = Decided(item[req[r].i], r)
  PROVE  /\ row \in ItemRow
         /\ row.of = item[req[r].i].of /\ row.st = item[req[r].i].st
         /\ row.version = item[req[r].i].version
         /\ row.status = req[r].to /\ row.by = r /\ row.seen = req[r].seen
         /\ row.code = IF req[r].code = "NONE" THEN item[req[r].i].code ELSE req[r].code
         /\ row.marks = IF req[r].marks = 0 THEN item[req[r].i].marks ELSE req[r].marks
<1>1. PICK y \in Request : y = req[r]
  BY DEF Inv, TypeOK
<1>2. PICK o \in ItemRow : o = item[y.i]
  BY <1>1, Rows, RequestShape DEF At, OnItem, Inv
<1>3. row = [o EXCEPT !.status = y.to, !.by = r, !.seen = y.seen,
                      !.code = IF y.code = "NONE" THEN @ ELSE y.code,
                      !.marks = IF y.marks = 0 THEN @ ELSE y.marks]
  BY <1>1, <1>2 DEF Decided
<1>4. /\ y.to \in Outcomes(Service) /\ y.seen \in 0..MaxVersion
      /\ y.code \in Codes \cup {"NONE"} /\ y.marks \in Marks \cup {0}
  BY <1>1, RequestShape DEF At
<1>5. row \in ItemRow
  BY <1>2, <1>3, <1>4 DEF ItemRow
<1>6. QED BY <1>1, <1>2, <1>3, <1>5 DEF ItemRow

LEMMA DecideWriteInv ==
  ASSUME Inv, UNCHANGED mode, NEW r \in Reqs, DecideWrite(r)
  PROVE  Inv'
<1>1. PICK y \in Request : y = req[r]
  BY DEF Inv, TypeOK
<1>2. y.pc = "decide" /\ y.i \in Items /\ y.code \in Codes \cup {"NONE"}
  BY <1>1, RequestShape DEF DecideWrite, At, OnItem
<1>3. CASE ~Exists(item[y.i])
  BY <1>1, <1>3, IdleStep DEF DecideWrite
<1>4. CASE Exists(item[y.i])
  <2>1. PICK row : row = Decided(item[y.i], r)
    OBVIOUS
  <2>2. /\ item' = [item EXCEPT ![y.i] = row] /\ UNCHANGED <<parent, sub>> /\ Done(r)
        /\ answered' = IF y.code = "NONE" THEN answered ELSE answered \cup {<<y.code, y.i>>}
    BY <1>1, <1>4, <2>1 DEF DecideWrite
  <2>3. /\ row \in ItemRow /\ row.of = item[y.i].of /\ row.st = item[y.i].st
        /\ row.code = IF y.code = "NONE" THEN item[y.i].code ELSE y.code
    BY <1>1, <1>4, <2>1, DecidedRow DEF DecideWrite
  <2>4. item'[y.i] = row /\ (\A j \in Items \ {y.i} : item'[j] = item[j])
        /\ item' \in [Items -> ItemRow \cup {NoRow, Deleted}]
    BY <1>2, <2>2, <2>3 DEF Inv, TypeOK
  <2>5. FiledOnce'
    BY <1>4, <2>2, <2>3, <2>4, FiledKept
  <2>6. answered' \subseteq Codes \X Items /\ answered \subseteq answered'
    BY <1>2, <2>2 DEF Inv, TypeOK
  <2>7. CASE y.code = "NONE"
    <3>1. \A j \in Items, c \in Codes : Exists(item'[j]) /\ item'[j].code = c => <<c, j>> \in answered'
      BY <1>4, <2>2, <2>3, <2>4, <2>7 DEF Inv, CodesKnown
    <3>2. \A j \in Items :
            Exists(item'[j]) /\ Service \in {"placement", "assignment"} => item'[j].of \in Parents
      BY <1>4, <2>3, <2>4 DEF Inv, InServices
    <3>3. QED BY <2>2, <2>4, <2>5, <2>6, <2>7, <3>1, <3>2, WriteStep DEF Inv, TypeOK, InServices
  <2>8. CASE y.code \in Codes
    <3>1. Draws(y, y.code) /\ y.code # "NONE" /\ \A j \in Items : <<y.code, j>> \notin answered
      BY <1>1, <1>2, <2>8, DecisionsAssumption DEF Draws, Inv, CodesKnown
    <3>2. answered' = answered \cup {<<y.code, y.i>>}
      BY <2>2, <3>1
    <3>3. \A e \in answered' \ answered : Draws(req[r], e[1]) /\ \A f \in answered' : f[1] = e[1] => f = e
      <4>1. \A f \in answered : f[1] # y.code
        BY <3>1 DEF Inv, TypeOK
      <4>2. QED BY <1>1, <3>1, <3>2, <4>1
    <3>4. \A j \in Items, c \in Codes : Exists(item'[j]) /\ item'[j].code = c => <<c, j>> \in answered'
      BY <1>4, <2>3, <2>4, <3>1, <3>2 DEF Inv, CodesKnown
    <3>5. Service = "certificate"
      BY <1>1, <1>2, <3>1 DEF Inv, InServices, InService
    <3>6. QED BY <2>2, <2>4, <2>5, <2>6, <3>3, <3>4, <3>5, WriteStep DEF Inv, TypeOK, InServices
  <2>9. QED BY <1>2, <2>7, <2>8
<1>5. QED BY <1>3, <1>4

LEMMA DocumentInv ==
  ASSUME Inv, UNCHANGED mode, NEW r \in Reqs, DocumentUpdate(r) \/ DocumentDelete(r)
  PROVE  Inv'
<1>1. PICK y \in Request : y = req[r]
  BY DEF Inv, TypeOK
<1>2. y.i \in Items
  BY <1>1, RequestShape DEF DocumentUpdate, DocumentDelete, At, OnItem
<1>3. CASE DocumentDelete(r)
  BY <1>1, <1>2, <1>3, ItemStep DEF DocumentDelete, Exists
<1>4. CASE DocumentUpdate(r) /\ Exists(item[y.i]) /\ item[y.i].version < MaxVersion
  <2>1. PICK o \in ItemRow : o = item[y.i]
    BY <1>2, <1>4, Rows DEF Inv
  <2>2. PICK row : row = Renewed(o)
    OBVIOUS
  <2>3. Service = "document" /\ FirstOf(Service) = "PENDING"
    BY <1>1, <1>4 DEF DocumentUpdate, At, Inv, InServices, InService, FirstOf
  <2>4. row = [o EXCEPT !.version = o.version + 1, !.status = FirstOf(Service), !.by = "NONE"]
    BY <2>2, <2>3 DEF Renewed
  <2>5. o.version + 1 \in 1..MaxVersion
    BY <1>4, <2>1, DecisionsAssumption DEF ItemRow
  <2>6. row \in ItemRow /\ row.of = o.of /\ row.st = o.st /\ row.code = o.code
    BY <2>1, <2>4, <2>5 DEF ItemRow
  <2>7. item' = [item EXCEPT ![y.i] = row] /\ UNCHANGED <<parent, answered, sub>> /\ Done(r)
    BY <1>1, <1>4, <2>1, <2>2 DEF DocumentUpdate
  <2>8. QED BY <1>2, <1>4, <2>1, <2>6, <2>7, ItemStep
<1>5. CASE DocumentUpdate(r) /\ ~(Exists(item[y.i]) /\ item[y.i].version < MaxVersion)
  BY <1>1, <1>5, IdleStep DEF DocumentUpdate
<1>6. QED BY <1>3, <1>4, <1>5

LEMMA ParentInv ==
  ASSUME Inv, UNCHANGED mode, NEW r \in Reqs, AssignmentUpdate(r) \/ StatusWrite(r)
  PROVE  Inv'
<1>1. PICK y \in Request : y = req[r]
  BY DEF Inv, TypeOK
<1>2. y.p \in Parents /\ (y.pc = "edit" => y.max \in Marks) /\ (y.pc = "move" => y.to \in {"PUBLISHED", "CLOSED"})
  BY <1>1, RequestShape DEF AssignmentUpdate, StatusWrite, At, OnParent
<1>3. CASE ~Exists(parent[y.p])
  BY <1>1, <1>3, IdleStep DEF AssignmentUpdate, StatusWrite
<1>4. CASE Exists(parent[y.p])
  <2>1. PICK o \in ParentRow : o = parent[y.p]
    BY <1>2, <1>4, Rows DEF Inv
  <2>2. PICK row : row = IF y.pc = "edit" THEN [o EXCEPT !.max = y.max] ELSE [o EXCEPT !.status = y.to]
    OBVIOUS
  <2>3. CASE y.pc = "edit"
    <3>1. row = [o EXCEPT !.max = y.max] /\ row \in ParentRow
      BY <1>2, <2>1, <2>2, <2>3 DEF ParentRow
    <3>2. parent' = [parent EXCEPT ![y.p] = row]
      BY <1>1, <1>4, <2>1, <2>3, <3>1 DEF AssignmentUpdate, StatusWrite, At
    <3>3. QED BY <1>1, <1>2, <2>3, <3>1, <3>2, ParentStep DEF AssignmentUpdate, StatusWrite, At, Inv, InServices, InService
  <2>4. CASE y.pc = "move"
    <3>1. row = [o EXCEPT !.status = y.to] /\ row \in ParentRow
      BY <1>2, <2>1, <2>2, <2>4 DEF ParentRow
    <3>2. parent' = [parent EXCEPT ![y.p] = row]
      BY <1>1, <1>4, <2>1, <2>4, <3>1 DEF AssignmentUpdate, StatusWrite, At
    <3>3. QED BY <1>1, <1>2, <2>4, <3>1, <3>2, ParentStep DEF AssignmentUpdate, StatusWrite, At, Inv, InServices, InService
  <2>5. QED BY <1>1, <2>3, <2>4 DEF AssignmentUpdate, StatusWrite, At
<1>5. QED BY <1>3, <1>4

LEMMA DeadlineInv ==
  ASSUME Inv, UNCHANGED mode, NEW p \in Parents, DeadlinePasses(p)
  PROVE  Inv'
<1>1. PICK o \in ParentRow : o = parent[p]
  BY Rows DEF DeadlinePasses, Inv
<1>2. PICK row : row = [o EXCEPT !.status = "CLOSED"]
  OBVIOUS
<1>3. row \in ParentRow /\ parent' = [parent EXCEPT ![p] = row]
  BY <1>1, <1>2 DEF DeadlinePasses, ParentRow
<1>4. QED BY <1>3, ParentStep DEF DeadlinePasses

LEMMA ParentDeleteInv ==
  ASSUME Inv, UNCHANGED mode, NEW r \in Reqs, ParentDelete(r)
  PROVE  Inv'
<1>1. PICK y \in Request : y = req[r]
  BY DEF Inv, TypeOK
<1>2. y.p \in Parents
  BY <1>1, RequestShape DEF ParentDelete, At, OnParent
<1>3. PICK p \in Parents : p = req[r].p
  BY <1>1, <1>2
<1>4. CASE Exists(parent[p]) /\ (Service = "placement" => ItemsOf(p) = {})
  <2>1. /\ parent' = [parent EXCEPT ![p] = Deleted]
        /\ item' = [i \in Items |-> IF i \in ItemsOf(p) THEN Deleted ELSE item[i]]
    BY <1>3, <1>4 DEF ParentDelete
  <2>2. /\ parent' \in [Parents -> ParentRow \cup {NoRow, Deleted}] /\ parent'[p] = Deleted
        /\ \A q \in Parents \ {p} : parent'[q] = parent[q]
    BY <2>1 DEF Inv, TypeOK
  <2>3. /\ item' \in [Items -> ItemRow \cup {NoRow, Deleted}]
        /\ \A i \in Items : Exists(item'[i]) => item'[i] = item[i] /\ i \notin ItemsOf(p)
    BY <2>1 DEF Inv, TypeOK, Exists
  <2>4. FiledOnce'
    <3>1. \A i \in Items : Exists(item'[i]) => item'[i] = item[i] /\ Exists(item[i]) /\ item[i].of # p
      BY <2>3 DEF ItemsOf
    <3>2. QED BY <2>2, <3>1 DEF Inv, FiledOnce
  <2>5. UNCHANGED <<answered, sub>> /\ Done(r)
    BY DEF ParentDelete
  <2>6. \A q \in Parents : Exists(parent'[q]) => Service \in {"placement", "assignment"}
    BY <2>2 DEF Inv, InServices, Exists
  <2>7. \A i \in Items :
          Exists(item'[i]) /\ Service \in {"placement", "assignment"} => item'[i].of \in Parents
    BY <2>3 DEF Inv, InServices
  <2>8. \A i \in Items, c \in Codes : Exists(item'[i]) /\ item'[i].code = c => <<c, i>> \in answered'
    BY <2>3, <2>5 DEF Inv, CodesKnown
  <2>9. QED BY <2>2, <2>3, <2>4, <2>5, <2>6, <2>7, <2>8, WriteStep DEF Inv, TypeOK, InServices
<1>5. CASE ~(Exists(parent[p]) /\ (Service = "placement" => ItemsOf(p) = {}))
  BY <1>3, <1>5, IdleStep DEF ParentDelete
<1>6. QED BY <1>4, <1>5

LEMMA CancelInv ==
  ASSUME Inv, UNCHANGED mode, NEW r \in Reqs, CancelWrite(r)
  PROVE  Inv'
<1>1. sub # NoRow
  BY DEF CancelWrite, At, Inv, InServices, InService
<1>2. sub' \in [status : {"TRIALING", "ACTIVE"}, cancel : BOOLEAN]
  BY <1>1 DEF CancelWrite, Inv, TypeOK
<1>3. FiledOnce'
  BY FiledKept DEF CancelWrite
<1>4. QED BY <1>2, <1>3, WriteStep DEF CancelWrite, Inv, TypeOK, InServices, CodesKnown

LEMMA ItemInsertInv ==
  ASSUME Inv, UNCHANGED mode, NEW r \in Reqs, NEW i \in Items, ItemInsert(r, i)
  PROVE  Inv'
<1>1. PICK y \in Request : y = req[r]
  BY DEF Inv, TypeOK
<1>2. y.st \in Students /\ y.of \in Parents
  BY <1>1, RequestShape DEF ItemInsert, At
<1>3. CASE Insertable(y.st, y.of)
  BY <1>1, <1>2, <1>3, InsertStep DEF ItemInsert
<1>4. CASE ~Insertable(y.st, y.of)
  BY <1>1, <1>4, IdleStep DEF ItemInsert
<1>5. QED BY <1>3, <1>4

LEMMA ContinueInv ==
  ASSUME Inv, UNCHANGED mode, NEW r \in Reqs, Continue(r)
  PROVE  Inv'
BY DecideWriteInv, DocumentInv, ParentInv, ParentDeleteInv, CancelInv, ItemInsertInv DEF Continue

LEMMA NextInv == Inv /\ [Next]_vars => Inv'
<1> SUFFICES ASSUME Inv, [Next]_vars PROVE Inv'
  OBVIOUS
<1>1. ASSUME UNCHANGED mode, NEW r \in Reqs, Begin(r) \/ Continue(r) PROVE Inv'
  BY <1>1, BeginInv, ContinueInv
<1>2. ASSUME UNCHANGED mode, NEW r \in Reqs, Die(r) PROVE Inv'
  BY <1>2, IdleStep DEF Die
<1>3. ASSUME UNCHANGED mode, NEW p \in Parents, DeadlinePasses(p) PROVE Inv'
  BY <1>3, DeadlineInv
<1>4. CASE UNCHANGED vars
  <2>1. TypeOK'
    BY <1>4, ServicesSame DEF vars, Inv, TypeOK
  <2>2. InServices' /\ CodesKnown' /\ FiledOnce'
    BY <1>4 DEF vars, Inv, InServices, InService, Service, CodesKnown, Draws, FiledOnce, Exists
  <2>3. QED BY <1>4, <2>1, <2>2 DEF vars, Inv
<1>5. QED BY <1>1, <1>2, <1>3, <1>4 DEF Next

LEMMA Invariance == Spec => []Inv
<1>1. QED BY InitInv, NextInv, PTL DEF Spec

\* Types, in every reachable state.
THEOREM TypeCorrect == Spec => []TypeOK
<1>1. Inv => TypeOK
  BY DEF Inv
<1>2. QED BY <1>1, Invariance, PTL

\* However requests overlap and die, a student has one entry for each opening or
\* assignment, and a code that verifies is that of one certificate.
THEOREM OneEntry == Spec => []OneEntryPerStudent
<1>1. Inv => OneEntryPerStudent
  BY InvSound
<1>2. QED BY <1>1, Invariance, PTL

-----------------------------------------------------------------------------
\* Requests that touch the same thing take turns.

Turns   == \A q, s \in Reqs : q # s => Locks(req[q]) \cap Locks(req[s]) = {}
Holding == \A q \in Reqs : Held(req[q])

SerialInv == Inv /\ DecisionsSpeakTrue /\ (~MayOverlap => Turns /\ Holding)

\* What becomes of the row to decide that a query of r writes: it is filed,
\* decided, or a document that starts again or goes.
ItemMove(r, i, row) ==
    \/ /\ item[i] = NoRow
       /\ row \in ItemRow /\ row.status = FirstOf(Service)
       /\ row.of \in Parents =>
            row.of \in Locks(req[r]) /\ (Service = "assignment" => Accepts(row.of))
       /\ row.of = "NONE" => Service \notin {"placement", "assignment"}
       /\ UNCHANGED answered
    \/ /\ Exists(item[i]) /\ i \in Locks(req[r]) /\ Undecided(i)
       /\ row \in ItemRow /\ row.of = item[i].of
       /\ row.status \in Outcomes(Service) /\ row.seen = row.version
       /\ Service = "assignment" => row.marks <= parent[item[i].of].max
       /\ \/ UNCHANGED answered
          \/ /\ Service = "certificate" /\ row.status = "ISSUED"
             /\ answered' = answered \cup {<<row.code, i>>}
    \/ /\ Exists(item[i]) /\ i \in Locks(req[r]) /\ Service = "document"
       /\ row = Deleted \/ (row \in ItemRow /\ row.status = FirstOf(Service) /\ row.of = item[i].of)
       /\ UNCHANGED answered

\* What becomes of an opening or assignment that a query of r writes: it is
\* created, edited or moved on, or it goes with nothing filed under it.
ParentMove(r, p, row) ==
    \/ /\ parent[p] = NoRow /\ row \in ParentRow
       /\ Service = "assignment" => row.status = "DRAFT"
    \/ /\ Exists(parent[p]) /\ p \in Locks(req[r]) /\ row \in ParentRow
       /\ <<parent[p].status, row.status>> \in {<<"DRAFT", "PUBLISHED">>, <<"PUBLISHED", "CLOSED">>}
            \/ row.status = parent[p].status
    \/ Exists(parent[p]) /\ p \in Locks(req[r]) /\ Unused(p) /\ row = Deleted

\* What a query of r does while requests take turns.
Does(r) ==
    \/ UNCHANGED <<parent, item, answered>>
    \/ \E i \in Items : \E row : /\ ItemMove(r, i, row)
                                 /\ item' = [item EXCEPT ![i] = row] /\ UNCHANGED parent
    \/ \E p \in Parents : \E row : /\ ParentMove(r, p, row)
                                   /\ parent' = [parent EXCEPT ![p] = row] /\ UNCHANGED <<item, answered>>

LEMMA NewRowFacts ==
  ASSUME NEW st, NEW p, NEW row, row = NewRow(st, p),
         (st = "NONE" /\ p = "NONE") \/ (st \in Students /\ p \in Parents)
  PROVE  row \in ItemRow /\ row.status = FirstOf(Service) /\ row.of = p
BY DecisionsAssumption DEF NewRow, ItemRow

LEMMA WritesDoes ==
  ASSUME Inv, NEW r \in Reqs, Writes(r)
  PROVE  Does(r)
<1>1. ASSUME NEW i \in Items, item[i] = NoRow, Service \notin {"placement", "assignment"},
             item' = [item EXCEPT ![i] = NewRow("NONE", "NONE")], UNCHANGED <<parent, answered>>
      PROVE  Does(r)
  <2>1. PICK row : row = NewRow("NONE", "NONE")
    OBVIOUS
  <2>2. ItemMove(r, i, row)
    BY <1>1, <2>1, NewRowFacts, DecisionsAssumption DEF ItemMove
  <2>3. QED BY <1>1, <2>1, <2>2 DEF Does
<1>2. ASSUME NEW p \in Parents, NEW max \in Marks, parent[p] = NoRow, UNCHANGED <<item, answered>>,
             parent' = [parent EXCEPT ![p] =
               [status |-> IF Service = "placement" THEN "PUBLISHED" ELSE "DRAFT", max |-> max]]
      PROVE  Does(r)
  <2>1. PICK row : row = [status |-> IF Service = "placement" THEN "PUBLISHED" ELSE "DRAFT", max |-> max]
    OBVIOUS
  <2>2. ParentMove(r, p, row)
    BY <1>2, <2>1 DEF ParentMove, ParentRow
  <2>3. QED BY <1>2, <2>1, <2>2 DEF Does
<1>3. QED BY <1>1, <1>2 DEF Writes, Does

LEMMA DecideWriteDoes ==
  ASSUME SerialInv, ~MayOverlap, NEW r \in Reqs, DecideWrite(r)
  PROVE  Does(r)
<1>1. PICK y \in Request : y = req[r]
  BY DEF SerialInv, Inv, TypeOK
<1>2. /\ y.pc = "decide" /\ y.i \in Items /\ y.to \in Outcomes(Service) /\ Held(y) /\ InService(y)
      /\ y.code \in Codes \cup {"NONE"}
  BY <1>1, RequestShape DEF DecideWrite, At, OnItem, SerialInv, Holding, Inv, InServices
<1>3. Exists(item[y.i]) /\ Undecided(y.i) /\ y.seen = item[y.i].version
  BY <1>2 DEF Held, OnItem
<1>4. y.i \in Locks(y)
  BY <1>2, DecisionsAssumption DEF Locks, OnItem, OnParent
<1>5. PICK row : row = Decided(item[y.i], r)
  OBVIOUS
<1>6. /\ item' = [item EXCEPT ![y.i] = row] /\ UNCHANGED parent
      /\ answered' = IF y.code = "NONE" THEN answered ELSE answered \cup {<<y.code, y.i>>}
  BY <1>1, <1>3, <1>5 DEF DecideWrite
<1>7. /\ row \in ItemRow /\ row.of = item[y.i].of /\ row.status = y.to
      /\ row.seen = y.seen /\ row.version = item[y.i].version
      /\ row.code = IF y.code = "NONE" THEN item[y.i].code ELSE y.code
      /\ row.marks = IF y.marks = 0 THEN item[y.i].marks ELSE y.marks
  BY <1>1, <1>3, <1>5, DecidedRow DEF DecideWrite, SerialInv
<1>8. Service = "assignment" => row.marks <= parent[item[y.i].of].max
  BY <1>2, <1>7 DEF Held
<1>9. \/ UNCHANGED answered
      \/ /\ Service = "certificate" /\ row.status = "ISSUED"
         /\ answered' = answered \cup {<<row.code, y.i>>}
  BY <1>2, <1>6, <1>7 DEF InService
<1>10. ItemMove(r, y.i, row)
  BY <1>1, <1>2, <1>3, <1>4, <1>7, <1>8, <1>9 DEF ItemMove
<1>11. QED BY <1>2, <1>6, <1>10 DEF Does

LEMMA DocumentDoes ==
  ASSUME SerialInv, ~MayOverlap, NEW r \in Reqs, DocumentUpdate(r) \/ DocumentDelete(r)
  PROVE  Does(r)
<1>1. PICK y \in Request : y = req[r]
  BY DEF SerialInv, Inv, TypeOK
<1>2. y.pc \in {"renew", "delete"} /\ y.i \in Items /\ Held(y) /\ InService(y)
  BY <1>1, RequestShape DEF DocumentUpdate, DocumentDelete, At, OnItem, SerialInv, Holding, Inv, InServices
<1>3. Exists(item[y.i]) /\ Service = "document"
  BY <1>2 DEF Held, OnItem, InService
<1>4. y.i \in Locks(y)
  BY <1>2, DecisionsAssumption DEF Locks, OnItem, OnParent
<1>5. CASE DocumentDelete(r)
  <2>1. ItemMove(r, y.i, Deleted)
    BY <1>1, <1>3, <1>4, <1>5 DEF ItemMove, DocumentDelete
  <2>2. QED BY <1>1, <1>2, <1>5, <2>1 DEF Does, DocumentDelete
<1>6. CASE DocumentUpdate(r) /\ item[y.i].version < MaxVersion
  <2>1. PICK o \in ItemRow : o = item[y.i]
    BY <1>2, <1>3, Rows DEF SerialInv, Inv
  <2>2. FirstOf(Service) = "PENDING"
    BY <1>3 DEF FirstOf
  <2>3. PICK row : row = [o EXCEPT !.version = o.version + 1, !.status = FirstOf(Service), !.by = "NONE"]
    OBVIOUS
  <2>4. o.version + 1 \in 1..MaxVersion
    BY <1>6, <2>1, DecisionsAssumption DEF ItemRow
  <2>5. row \in ItemRow /\ row.status = FirstOf(Service) /\ row.of = o.of
    BY <2>1, <2>3, <2>4 DEF ItemRow
  <2>6. item' = [item EXCEPT ![y.i] = row] /\ UNCHANGED <<parent, answered>>
    BY <1>1, <1>3, <1>6, <2>1, <2>2, <2>3 DEF DocumentUpdate, Renewed
  <2>7. ItemMove(r, y.i, row)
    BY <1>1, <1>3, <1>4, <2>1, <2>5, <2>6 DEF ItemMove
  <2>8. QED BY <1>2, <2>6, <2>7 DEF Does
<1>7. CASE DocumentUpdate(r) /\ ~(item[y.i].version < MaxVersion)
  BY <1>1, <1>7 DEF DocumentUpdate, Does
<1>8. QED BY <1>5, <1>6, <1>7

LEMMA ParentDoes ==
  ASSUME SerialInv, ~MayOverlap, NEW r \in Reqs, AssignmentUpdate(r) \/ StatusWrite(r) \/ ParentDelete(r)
  PROVE  Does(r)
<1>1. PICK y \in Request : y = req[r]
  BY DEF SerialInv, Inv, TypeOK
<1>2. y.pc \in OnParent /\ y.p \in Parents /\ Held(y)
  BY <1>1, RequestShape DEF AssignmentUpdate, StatusWrite, ParentDelete, At, OnParent, SerialInv, Holding
<1>3. Exists(parent[y.p])
  BY <1>2 DEF Held
<1>4. y.p \in Locks(y)
  BY <1>2, DecisionsAssumption DEF Locks, OnItem, OnParent
<1>5. PICK o \in ParentRow : o = parent[y.p]
  BY <1>2, <1>3, Rows DEF SerialInv, Inv
<1>6. CASE AssignmentUpdate(r)
  <2>1. PICK row : row = [o EXCEPT !.max = y.max]
    OBVIOUS
  <2>2. y.max \in Marks
    BY <1>1, <1>6, RequestShape DEF AssignmentUpdate, At
  <2>3. row \in ParentRow /\ row.status = o.status
    BY <1>5, <2>1, <2>2 DEF ParentRow
  <2>4. parent' = [parent EXCEPT ![y.p] = row] /\ UNCHANGED <<item, answered>>
    BY <1>1, <1>3, <1>5, <1>6, <2>1 DEF AssignmentUpdate
  <2>5. ParentMove(r, y.p, row)
    BY <1>1, <1>3, <1>4, <1>5, <2>3 DEF ParentMove
  <2>6. QED BY <1>2, <2>4, <2>5 DEF Does
<1>7. CASE StatusWrite(r)
  <2>1. PICK row : row = [o EXCEPT !.status = y.to]
    OBVIOUS
  <2>2. y.pc = "move" /\ y.to \in {"PUBLISHED", "CLOSED"}
    BY <1>1, <1>7, RequestShape DEF StatusWrite, At
  <2>3. row \in ParentRow /\ row.status = y.to
    BY <1>5, <2>1, <2>2 DEF ParentRow
  <2>4. <<o.status, y.to>> \in {<<"DRAFT", "PUBLISHED">>, <<"PUBLISHED", "CLOSED">>}
    BY <1>2, <1>5, <2>2 DEF Held, Movable
  <2>5. parent' = [parent EXCEPT ![y.p] = row] /\ UNCHANGED <<item, answered>>
    BY <1>1, <1>3, <1>5, <1>7, <2>1 DEF StatusWrite
  <2>6. ParentMove(r, y.p, row)
    BY <1>1, <1>3, <1>4, <1>5, <2>3, <2>4 DEF ParentMove
  <2>7. QED BY <1>2, <2>5, <2>6 DEF Does
<1>8. CASE ParentDelete(r)
  <2>1. Unused(y.p)
    BY <1>1, <1>2, <1>8 DEF ParentDelete, At, Held
  <2>2. parent' = [parent EXCEPT ![y.p] = Deleted] /\ UNCHANGED answered
        /\ item' = [i \in Items |-> IF i \in ItemsOf(y.p) THEN Deleted ELSE item[i]]
    BY <1>1, <1>3, <1>8, <2>1 DEF ParentDelete, Unused
  <2>3. item' = [i \in Items |-> item[i]]
    BY <2>1, <2>2 DEF Unused
  <2>4. UNCHANGED item
    BY <2>3 DEF SerialInv, Inv, TypeOK
  <2>5. ParentMove(r, y.p, Deleted)
    BY <1>1, <1>3, <1>4, <2>1 DEF ParentMove
  <2>6. QED BY <1>2, <2>2, <2>4, <2>5 DEF Does
<1>9. QED BY <1>6, <1>7, <1>8

LEMMA ItemInsertDoes ==
  ASSUME SerialInv, ~MayOverlap, NEW r \in Reqs, NEW i \in Items, ItemInsert(r, i)
  PROVE  Does(r)
<1>1. PICK y \in Request : y = req[r]
  BY DEF SerialInv, Inv, TypeOK
<1>2. y.pc = "insert" /\ y.st \in Students /\ y.of \in Parents /\ Held(y)
  BY <1>1, RequestShape DEF ItemInsert, At, SerialInv, Holding
<1>3. CASE Insertable(y.st, y.of)
  <2>1. PICK row : row = NewRow(y.st, y.of)
    OBVIOUS
  <2>2. row \in ItemRow /\ row.status = FirstOf(Service) /\ row.of = y.of /\ row.of # "NONE"
    BY <1>2, <2>1, NewRowFacts, DecisionsAssumption
  <2>3. y.of \in Locks(y) /\ (Service = "assignment" => Accepts(y.of))
    BY <1>2, DecisionsAssumption DEF Locks, OnItem, OnParent, Held
  <2>4. item[i] = NoRow /\ item' = [item EXCEPT ![i] = row] /\ UNCHANGED <<parent, answered>>
    BY <1>1, <1>3, <2>1 DEF ItemInsert
  <2>5. ItemMove(r, i, row)
    BY <1>1, <2>2, <2>3, <2>4 DEF ItemMove
  <2>6. QED BY <2>4, <2>5 DEF Does
<1>4. CASE ~Insertable(y.st, y.of)
  BY <1>1, <1>4 DEF ItemInsert, Does
<1>5. QED BY <1>3, <1>4

LEMMA ContinueDoes ==
  ASSUME SerialInv, ~MayOverlap, NEW r \in Reqs, Continue(r)
  PROVE  Does(r) /\ Done(r)
<1>1. Done(r)
  BY DEF Continue, DecideWrite, DocumentUpdate, DocumentDelete, AssignmentUpdate, StatusWrite,
         ParentDelete, CancelWrite, ItemInsert
<1>2. CASE CancelWrite(r)
  BY <1>2 DEF CancelWrite, Does
<1>3. QED
  BY <1>1, <1>2, DecideWriteDoes, DocumentDoes, ParentDoes, ItemInsertDoes DEF Continue

-----------------------------------------------------------------------------
\* What a step of one request leaves to the others.

\* The opening or assignment that request x relies on.
Under(x) ==
    {p \in Parents : \/ x.pc = "insert" /\ p = x.of
                     \/ x.pc \in OnItem /\ p = item[x.i].of
                     \/ x.pc \in OnParent /\ p = x.p}

LEMMA UnderLocked ==
  ASSUME Inv, NEW x \in Request, Held(x), NEW p \in Under(x)
  PROVE  p \in Locks(x) /\ (Service = "assignment" => Exists(parent[p]))
<1>1. p \in Parents /\ p # "NONE"
  BY DecisionsAssumption DEF Under
<1>2. CASE x.pc = "insert" /\ p = x.of
  BY <1>1, <1>2 DEF Locks, OnItem, OnParent, Held, Accepts
<1>3. CASE x.pc \in OnItem /\ p = item[x.i].of
  <2>1. x.i \in Items /\ Exists(item[x.i])
    BY <1>3, RequestShape DEF Held
  <2>2. Exists(parent[p])
    BY <1>1, <1>3, <2>1 DEF Inv, FiledOnce
  <2>3. p \in Locks(x)
    BY <1>1, <1>3, <2>1 DEF Locks, OnItem, OnParent
  <2>4. QED BY <2>2, <2>3
<1>4. CASE x.pc \in OnParent /\ p = x.p
  BY <1>1, <1>4 DEF Locks, OnItem, OnParent, Held
<1>5. QED BY <1>2, <1>3, <1>4 DEF Under

\* What x has found out still holds when its row and its parent stay.
LEMMA HeldKept ==
  ASSUME Inv, UNCHANGED mode, NEW x \in Request, Held(x), InService(x),
         x.pc \in OnItem => item'[x.i] = item[x.i],
         \A p \in Under(x) :
           /\ Exists(parent[p]) => Exists(parent'[p])
           /\ Service = "assignment" => parent'[p] = parent[p]
           /\ \A i \in Items : Exists(item'[i]) /\ item'[i].of = p => Exists(item[i]) /\ item[i].of = p
  PROVE  Held(x)' /\ Locks(x)' = Locks(x)
<1>1. Locks(x)' = Locks(x)
  BY DEF Locks, OnItem, OnParent, Exists
<1>2. (x.pc \in OnItem => Exists(item[x.i]))'
  BY DEF Held, Exists
<1>3. (x.pc = "decide" => /\ Undecided(x.i) /\ item[x.i].version = x.seen
                          /\ Service = "assignment" => /\ item[x.i].of \in Parents
                                                       /\ x.marks # 0
                                                       /\ x.marks <= parent[item[x.i].of].max)'
  <2>1. x.pc = "decide" /\ Service = "assignment" => item[x.i].of \in Under(x)
    BY DEF Held, Under, OnItem
  <2>2. x.pc = "decide" => item'[x.i] = item[x.i]
    BY DEF OnItem
  <2>3. QED BY <2>1, <2>2, ServicesSame DEF Held, Undecided
<1>4. (x.pc = "insert" /\ Service = "assignment" => Accepts(x.of))'
  <2>1. x.pc = "insert" => x.of \in Under(x)
    BY RequestShape DEF Under
  <2>2. QED BY <2>1, ServicesSame DEF Held, Accepts, Exists
<1>5. x.pc \in OnParent => x.p \in Under(x)
  BY RequestShape DEF Under
<1>6. (x.pc = "move" => Movable(x.p, IF x.to = "PUBLISHED" THEN "DRAFT" ELSE "PUBLISHED"))'
  BY <1>5, ServicesSame DEF Held, Movable, Editable, Exists, OnParent
<1>7. (x.pc \in OnParent => Exists(parent[x.p]))'
  BY <1>5 DEF Held, Exists
<1>8. (x.pc = "deleteParent" => Unused(x.p))'
  BY <1>5 DEF Held, Unused, ItemsOf, OnParent
<1>9. QED BY <1>1, <1>2, <1>3, <1>4, <1>6, <1>7, <1>8 DEF Held, OnItem, OnParent

\* A query of r leaves the row and the parent of every other request alone.
LEMMA OthersKept ==
  ASSUME SerialInv, ~MayOverlap, UNCHANGED mode, NEW r \in Reqs, Does(r), NEW q \in Reqs \ {r},
         req'[q] = req[q]
  PROVE  Held(req[q])' /\ Locks(req[q])' = Locks(req[q])
<1>1. PICK x \in Request : x = req[q]
  BY DEF SerialInv, Inv, TypeOK
<1>2. Held(x) /\ InService(x) /\ Locks(req[r]) \cap Locks(x) = {}
  BY <1>1 DEF SerialInv, Holding, Turns, Inv, InServices
<1>3. x.pc \in OnItem => x.i \in Items /\ Exists(item[x.i]) /\ x.i \in Locks(x)
  BY <1>2, RequestShape, DecisionsAssumption DEF Held, Locks, OnItem, OnParent
<1>4. \A p \in Under(x) : p \in Parents /\ p \in Locks(x) /\ (Service = "assignment" => Exists(parent[p]))
  BY <1>2, UnderLocked DEF SerialInv, Under
<1>5. CASE UNCHANGED <<parent, item>>
  BY <1>1, <1>2, <1>5, HeldKept DEF SerialInv
<1>6. ASSUME NEW i \in Items, NEW row, ItemMove(r, i, row), item' = [item EXCEPT ![i] = row], UNCHANGED parent
      PROVE  Held(x)' /\ Locks(x)' = Locks(x)
  <2>1. item'[i] = row /\ \A j \in Items \ {i} : item'[j] = item[j]
    BY <1>6 DEF SerialInv, Inv, TypeOK
  <2>2. x.pc \in OnItem => item'[x.i] = item[x.i]
    BY <1>2, <1>3, <1>6, <2>1 DEF ItemMove, Exists
  <2>3. Exists(row) => row.of \notin Under(x) \/ (Exists(item[i]) /\ row.of = item[i].of)
    BY <1>2, <1>4, <1>6 DEF ItemMove, Exists
  <2>4. QED BY <1>2, <1>6, <2>1, <2>2, <2>3, HeldKept DEF SerialInv
<1>7. ASSUME NEW p \in Parents, NEW row, ParentMove(r, p, row), parent' = [parent EXCEPT ![p] = row], UNCHANGED item
      PROVE  Held(x)' /\ Locks(x)' = Locks(x)
  <2>1. parent'[p] = row /\ \A k \in Parents \ {p} : parent'[k] = parent[k]
    BY <1>7 DEF SerialInv, Inv, TypeOK
  <2>2. \A k \in Under(x) : (Exists(parent[k]) => Exists(parent'[k])) /\ (Service = "assignment" => parent'[k] = parent[k])
    BY <1>2, <1>4, <1>7, <2>1, RowKinds DEF ParentMove, Exists
  <2>3. QED BY <1>2, <1>7, <2>2, HeldKept DEF SerialInv
<1>8. QED BY <1>1, <1>5, <1>6, <1>7 DEF Does

\* A query writes what is true of the row it writes.
LEMMA TrueKept ==
  ASSUME SerialInv, ~MayOverlap, UNCHANGED mode, NEW r \in Reqs, Does(r)
  PROVE  DecisionsSpeakTrue'
<1>1. Service \in Services /\ FirstOf(Service) \in Open(Service)
  BY ServiceKnown, Statuses DEF SerialInv, Inv
<1>2. CASE UNCHANGED <<item, answered>>
  BY <1>2, ServicesSame DEF SerialInv, DecisionsSpeakTrue, Final, Verifies, Exists
<1>3. ASSUME NEW i \in Items, NEW row, ItemMove(r, i, row), item' = [item EXCEPT ![i] = row]
      PROVE  DecisionsSpeakTrue'
  <2>1. item'[i] = row /\ \A j \in Items \ {i} : item'[j] = item[j]
    BY <1>3 DEF SerialInv, Inv, TypeOK
  <2>2. ASSUME NEW j \in Items, Service = "document", Exists(item'[j]), item'[j].status \notin Open(Service)
        PROVE  item'[j].seen = item'[j].version
    <3>1. CASE j = i
      BY <1>1, <1>3, <2>1, <2>2, <3>1 DEF ItemMove, Exists
    <3>2. CASE j # i
      BY <2>1, <2>2, <3>2 DEF SerialInv, DecisionsSpeakTrue, Final
    <3>3. QED BY <3>1, <3>2
  <2>3. ASSUME NEW e \in answered' PROVE Exists(item'[e[2]]) /\ item'[e[2]].code = e[1] /\ item'[e[2]].status = "ISSUED"
    <3>1. CASE e \in answered
      <4>1. Service = "certificate" /\ e[2] \in Items
        BY <3>1 DEF SerialInv, Inv, InServices, TypeOK
      <4>2. Exists(item[e[2]]) /\ item[e[2]].code = e[1] /\ item[e[2]].status = "ISSUED"
        BY <3>1 DEF SerialInv, DecisionsSpeakTrue, Verifies
      <4>3. "ISSUED" \notin Open(Service)
        BY <4>1, <1>1, Statuses
      <4>4. e[2] # i
        <5> SUFFICES ASSUME e[2] = i PROVE FALSE
          OBVIOUS
        <5>1. Exists(item[i]) /\ ~Undecided(i) /\ Service # "document"
          BY <4>1, <4>2, <4>3 DEF Undecided
        <5>2. item[i] = NoRow \/ Undecided(i) \/ Service = "document"
          BY <1>3 DEF ItemMove
        <5>3. QED BY <5>1, <5>2 DEF Exists
      <4>5. QED BY <2>1, <4>1, <4>2, <4>4
    <3>2. CASE e \notin answered
      <4>1. row \in ItemRow /\ row.status = "ISSUED" /\ e = <<row.code, i>>
        BY <1>3, <3>2 DEF ItemMove
      <4>2. QED BY <2>1, <4>1, RowKinds DEF Exists
    <3>3. QED BY <3>1, <3>2
  <2>4. QED BY <2>2, <2>3, ServicesSame DEF DecisionsSpeakTrue, Final, Verifies
<1>4. QED BY <1>2, <1>3 DEF Does

LEMMA IdleHolds == Held(Idle) /\ Locks(Idle) = {}
BY DEF Held, Locks, Idle, OnItem, OnParent

\* A query of r that ends it, or that ends with the first.
LEMMA SerialWrite ==
  ASSUME SerialInv, Inv', UNCHANGED mode, NEW r \in Reqs, ~MayOverlap => Does(r),
         Done(r) \/ (req[r] = Idle /\ UNCHANGED req)
  PROVE  SerialInv'
<1>1. CASE MayOverlap
  BY <1>1, ServicesSame DEF SerialInv, DecisionsSpeakTrue
<1>2. CASE ~MayOverlap
  <2>1. req'[r] = Idle /\ \A q \in Reqs \ {r} : req'[q] = req[q]
    BY RequestStep DEF Done, SerialInv, Inv
  <2>2. \A q \in Reqs \ {r} : Held(req[q])' /\ Locks(req[q])' = Locks(req[q])
    BY <1>2, <2>1, OthersKept
  <2>3. (Held(Idle) /\ Locks(Idle) = {})'
    BY IdleHolds, PTL
  <2>4. Held(req[r])' /\ Locks(req[r])' = {}
    BY <2>1, <2>3
  <2>5. Turns'
    BY <1>2, <2>2, <2>4 DEF SerialInv, Turns
  <2>6. Holding'
    BY <2>2, <2>4 DEF Holding
  <2>7. QED BY <1>2, <2>5, <2>6, TrueKept DEF SerialInv
<1>3. QED BY <1>1, <1>2

\* A query of r that only reads.
LEMMA SerialStart ==
  ASSUME SerialInv, Inv', UNCHANGED mode, NEW r \in Reqs, NEW x, Starts(r, x)
  PROVE  SerialInv'
<1>1. DecisionsSpeakTrue'
  BY ServicesSame DEF Starts, SerialInv, DecisionsSpeakTrue, Final, Verifies, Exists
<1>2. CASE ~MayOverlap
  <2>1. req'[r] = x /\ \A q \in Reqs \ {r} : req'[q] = req[q]
    BY RequestStep DEF Starts, SerialInv, Inv
  <2>2. ASSUME NEW y PROVE (Held(y) => Held(y)') /\ Locks(y)' = Locks(y)
    BY DEF Starts, Held, Locks, Exists, Undecided, Service, Accepts, Movable, Editable, Unused, ItemsOf, OnItem, OnParent, Open, FirstOf
  <2>3. Holding'
    <3>1. \A q \in Reqs : Held(req'[q])
      BY <1>2, <2>1 DEF SerialInv, Holding, Starts
    <3>2. QED BY <2>2, <3>1 DEF Holding
  <2>4. Turns'
    <3>1. \A q, s \in Reqs : q # s => Locks(req'[q]) \cap Locks(req'[s]) = {}
      BY <1>2, <2>1 DEF SerialInv, Turns, Starts
    <3>2. QED BY <2>2, <3>1 DEF Turns
  <2>5. QED BY <1>1, <2>3, <2>4 DEF SerialInv
<1>3. QED BY <1>1, <1>2, ServicesSame DEF SerialInv

LEMMA SerialDeadline ==
  ASSUME SerialInv, Inv', UNCHANGED mode, NEW p \in Parents, DeadlinePasses(p)
  PROVE  SerialInv'
<1>1. DecisionsSpeakTrue'
  BY ServicesSame DEF DeadlinePasses, SerialInv, DecisionsSpeakTrue, Final, Verifies, Exists
<1>2. CASE ~MayOverlap
  <2>1. PICK row : row = [parent[p] EXCEPT !.status = "CLOSED"]
    OBVIOUS
  <2>2. PICK o \in ParentRow : o = parent[p]
    BY Rows DEF DeadlinePasses, SerialInv, Inv
  <2>3. row \in ParentRow /\ parent' = [parent EXCEPT ![p] = row]
    BY <2>1, <2>2 DEF ParentRow, DeadlinePasses
  <2>4. \A k \in Parents : Exists(parent[k]) => Exists(parent'[k])
    BY <2>3, RowKinds DEF SerialInv, Inv, TypeOK, Exists
  <2>5. ASSUME NEW q \in Reqs PROVE Held(req[q])' /\ Locks(req[q])' = Locks(req[q])
    <3>1. PICK x \in Request : x = req[q]
      BY DEF SerialInv, Inv, TypeOK
    <3>2. Held(x)' /\ Locks(x)' = Locks(x)
      BY <1>2, <2>4, <3>1, HeldKept DEF DeadlinePasses, SerialInv, Holding, Inv, InServices, Under
    <3>3. QED BY <3>1, <3>2 DEF DeadlinePasses
  <2>6. Turns' /\ Holding'
    BY <1>2, <2>5 DEF SerialInv, Turns, Holding, DeadlinePasses
  <2>7. QED BY <1>1, <2>6 DEF SerialInv
<1>3. QED BY <1>1, <1>2, ServicesSame DEF SerialInv

LEMMA DieDoes ==
  ASSUME NEW r, Die(r)
  PROVE  Does(r) /\ Done(r)
BY DEF Die, Does

LEMMA SerialNext == SerialInv /\ [Next]_vars => SerialInv'
<1> SUFFICES ASSUME SerialInv, [Next]_vars PROVE SerialInv'
  OBVIOUS
<1>0. Inv /\ Inv'
  BY NextInv DEF SerialInv
<1>1. ASSUME UNCHANGED mode, NEW r \in Reqs, Begin(r) PROVE SerialInv'
  <2>1. CASE Writes(r)
    BY <1>0, <1>1, <2>1, WritesDoes, SerialWrite DEF Writes
  <2>2. QED BY <1>0, <1>1, <2>1, BeginCases, SerialStart
<1>2. ASSUME UNCHANGED mode, NEW r \in Reqs, Continue(r) PROVE SerialInv'
  <2>1. Done(r)
    BY <1>2 DEF Continue, DecideWrite, DocumentUpdate, DocumentDelete, AssignmentUpdate, StatusWrite,
           ParentDelete, CancelWrite, ItemInsert
  <2>2. QED BY <1>0, <1>2, <2>1, ContinueDoes, SerialWrite
<1>3. ASSUME UNCHANGED mode, NEW r \in Reqs, Die(r) PROVE SerialInv'
  BY <1>0, <1>3, DieDoes, SerialWrite
<1>4. ASSUME UNCHANGED mode, NEW p \in Parents, DeadlinePasses(p) PROVE SerialInv'
  BY <1>0, <1>4, SerialDeadline
<1>5. CASE UNCHANGED vars
  <2>1. DecisionsSpeakTrue'
    BY <1>5, ServicesSame DEF vars, SerialInv, DecisionsSpeakTrue, Final, Verifies, Exists
  <2>2. ASSUME NEW y PROVE (Held(y) => Held(y)') /\ Locks(y)' = Locks(y)
    BY <1>5 DEF vars, Held, Locks, Exists, Undecided, Service, Accepts, Movable, Editable, Unused, ItemsOf,
                OnItem, OnParent, Open, FirstOf
  <2>3. ~MayOverlap => Turns' /\ Holding'
    <3>1. ~MayOverlap => /\ \A q \in Reqs : Held(req'[q])
                         /\ \A q, s \in Reqs : q # s => Locks(req'[q]) \cap Locks(req'[s]) = {}
      BY <1>5 DEF vars, SerialInv, Turns, Holding
    <3>2. QED BY <2>2, <3>1 DEF Turns, Holding
  <2>4. QED BY <1>0, <1>5, <2>1, <2>3, ServicesSame DEF vars, SerialInv
<1>6. QED BY <1>1, <1>2, <1>3, <1>4, <1>5 DEF Next

LEMMA SerialInit == Init => SerialInv
<1> SUFFICES ASSUME Init PROVE SerialInv
  OBVIOUS
<1>1. Inv
  BY InitInv
<1>2. DecisionsSpeakTrue
  BY DEF Init, DecisionsSpeakTrue, Final, Exists
<1>3. \A q \in Reqs : Held(req[q]) /\ Locks(req[q]) = {}
  BY IdleHolds DEF Init
<1>4. QED BY <1>1, <1>2, <1>3 DEF SerialInv, Turns, Holding

LEMMA SerialInvariance == Spec => []SerialInv
<1>1. QED BY SerialInit, SerialNext, PTL DEF Spec

-----------------------------------------------------------------------------
\* What follows for clients.

\* As long as requests take turns, no step changes the rows otherwise.
LEMMA SerialStep ==
  ASSUME SerialInv, ~MayOverlap, [Next]_vars
  PROVE  (UNCHANGED item /\ (Service = "assignment" => UNCHANGED parent)) \/ \E r \in Reqs : Does(r)
<1>1. ASSUME NEW r \in Reqs, Begin(r) PROVE UNCHANGED <<item, parent>> \/ Does(r)
  BY <1>1, BeginCases, WritesDoes DEF SerialInv, Starts
<1>2. ASSUME NEW r \in Reqs, Continue(r) PROVE Does(r)
  BY <1>2, ContinueDoes
<1>3. ASSUME NEW r \in Reqs, Die(r) PROVE UNCHANGED <<item, parent>>
  BY <1>3 DEF Die
<1>4. ASSUME NEW p \in Parents, DeadlinePasses(p) PROVE UNCHANGED item /\ Service = "placement"
  BY <1>4 DEF DeadlinePasses
<1>5. QED BY <1>1, <1>2, <1>3, <1>4 DEF Next, vars

\* What is recorded as decided is true, once for each student and code.
THEOREM RecordsAreSound == Spec => []RecordsSound
<1>1. SerialInv => RecordsSound
  BY InvSound DEF SerialInv, Inv, RecordsSound
<1>2. QED BY <1>1, SerialInvariance, PTL

\* As long as requests take turns, a decision is never written over another.
THEOREM DecisionsNeverOverwritten == Spec => DecisionsStand
<1>1. ASSUME SerialInv, [Next]_vars, ~MayOverlap, Service \notin {"document", "assignment"},
             NEW i \in Items, Final(i)
      PROVE  item'[i] = item[i]
  <2>1. CASE UNCHANGED item
    BY <2>1
  <2>2. ASSUME NEW r \in Reqs, NEW j \in Items, NEW row, ItemMove(r, j, row), item' = [item EXCEPT ![j] = row]
        PROVE  item'[i] = item[i]
    <3>1. j # i
      BY <1>1, <2>2 DEF ItemMove, Undecided, Final, Exists
    <3>2. QED BY <1>1, <2>2, <3>1 DEF SerialInv, Inv, TypeOK
  <2>3. QED BY <1>1, <2>1, <2>2, SerialStep DEF Does
<1>2. SerialInv /\ [Next]_vars =>
        [~MayOverlap /\ Service \notin {"document", "assignment"} =>
           \A i \in Items : Final(i) => item'[i] = item[i]]_vars
  BY <1>1
<1>3. QED BY <1>2, SerialInvariance, PTL DEF Spec, DecisionsStand

\* As long as requests take turns, a submission is filed while its assignment is
\* published and marked within the maximum, and no entry goes with its parent.
THEOREM EntriesStayWithParent == Spec => EntriesFollowParent
<1>1. ASSUME SerialInv, [Next]_vars, ~MayOverlap, NEW i \in Items
      PROVE  /\ item[i] = NoRow /\ item'[i] # NoRow /\ Service = "assignment" =>
                  parent[item'[i].of].status = "PUBLISHED"
             /\ Exists(item[i]) /\ item'[i] # item[i] /\ Service \in {"assignment", "placement"} =>
                  /\ Exists(item'[i])
                  /\ Service = "assignment" => item'[i].marks <= parent[item[i].of].max
  <2>1. CASE UNCHANGED item
    BY <2>1
  <2>2. ASSUME NEW r \in Reqs, NEW j \in Items, NEW row, ItemMove(r, j, row), item' = [item EXCEPT ![j] = row]
        PROVE  /\ item[i] = NoRow /\ item'[i] # NoRow /\ Service = "assignment" =>
                    parent[item'[i].of].status = "PUBLISHED"
               /\ Exists(item[i]) /\ item'[i] # item[i] /\ Service \in {"assignment", "placement"} =>
                    /\ Exists(item'[i])
                    /\ Service = "assignment" => item'[i].marks <= parent[item[i].of].max
    <3>1. item'[j] = row /\ \A k \in Items \ {j} : item'[k] = item[k]
      BY <1>1, <2>2 DEF SerialInv, Inv, TypeOK
    <3>2. CASE i # j
      BY <3>1, <3>2
    <3>3. CASE item[j] = NoRow /\ Service = "assignment"
      <4>1. row.of \in Parents /\ Accepts(row.of)
        BY <2>2, <3>3 DEF ItemMove, ItemRow, Exists
      <4>2. QED BY <3>1, <3>2, <3>3, <4>1 DEF Accepts, Exists
    <3>4. CASE Exists(item[j]) /\ Service \in {"assignment", "placement"}
      <4>1. row \in ItemRow /\ (Service = "assignment" => row.marks <= parent[item[j].of].max)
        BY <2>2, <3>4 DEF ItemMove, Exists
      <4>2. QED BY <3>1, <3>2, <3>4, <4>1, RowKinds DEF Exists
    <3>5. QED BY <3>1, <3>2, <3>3, <3>4
  <2>3. QED BY <1>1, <2>1, <2>2, SerialStep DEF Does
<1>2. SerialInv /\ [Next]_vars =>
        [~MayOverlap =>
         \A i \in Items :
           /\ item[i] = NoRow /\ item'[i] # NoRow /\ Service = "assignment" =>
                parent[item'[i].of].status = "PUBLISHED"
           /\ Exists(item[i]) /\ item'[i] # item[i] /\ Service \in {"assignment", "placement"} =>
                /\ Exists(item'[i])
                /\ Service = "assignment" => item'[i].marks <= parent[item[i].of].max]_vars
  BY <1>1
<1>3. QED BY <1>2, SerialInvariance, PTL DEF Spec, EntriesFollowParent

LEMMA ColumnOf ==
  ASSUME NEW x \in Items \cup Parents, ~MayOverlap
  PROVE  /\ x \in Items /\ ~Exists(item[x]) => Column[x] = Absent
         /\ x \in Items /\ Exists(item[x]) =>
              Column[x] = IF item[x].status = FirstOf(Service) THEN Fresh ELSE <<Service, item[x].status>>
         /\ x \notin Items /\ (~Exists(parent[x]) \/ Service # "assignment") => Column[x] = Absent
         /\ x \notin Items /\ Exists(parent[x]) /\ Service = "assignment" =>
              Column[x] = IF parent[x].status = "DRAFT" THEN Fresh ELSE <<"parent", parent[x].status>>
BY DEF Column

\* Which moves the table of moves has.
LEMMA MovesHave ==
  /\ \A s \in Services : \A to \in Outcomes(s) : <<Fresh, <<s, to>>>> \in Moves
  /\ \A from \in {"SHORTLISTED", "INTERVIEW"} : \A to \in Outcomes("placement") :
       <<<<"placement", from>>, <<"placement", to>>>> \in Moves
  /\ \A from \in Outcomes("document") : \A to \in {Fresh, Absent} : <<<<"document", from>>, to>> \in Moves
  /\ <<Fresh, Absent>> \in Moves
  /\ <<Fresh, <<"parent", "PUBLISHED">>>> \in Moves
  /\ <<<<"parent", "PUBLISHED">>, <<"parent", "CLOSED">>>> \in Moves
  /\ \A from \in {"PUBLISHED", "CLOSED"} : <<<<"parent", from>>, Absent>> \in Moves
<1>1. ASSUME NEW s \in Services, NEW to \in Outcomes(s) PROVE <<Fresh, <<s, to>>>> \in Moves
  <2>1. <<s, to>> \in UNION {Of(u, Outcomes(u)) : u \in Services}
    BY <1>1 DEF Of
  <2>2. <<Fresh, <<s, to>>>> \in {Fresh} \X (UNION {Of(u, Outcomes(u)) : u \in Services})
    BY <2>1
  <2>3. QED BY <2>2 DEF Moves
<1>2. ASSUME NEW from \in {"SHORTLISTED", "INTERVIEW"}, NEW to \in Outcomes("placement")
      PROVE  <<<<"placement", from>>, <<"placement", to>>>> \in Moves
  BY <1>2 DEF Moves, Of
<1>3. ASSUME NEW from \in Outcomes("document"), NEW to \in {Fresh, Absent}
      PROVE  <<<<"document", from>>, to>> \in Moves
  BY <1>3 DEF Moves, Of
<1>4. ASSUME NEW from \in {"PUBLISHED", "CLOSED"} PROVE <<<<"parent", from>>, Absent>> \in Moves
  BY <1>4 DEF Moves, Of
<1>5. /\ <<Fresh, Absent>> \in Moves
      /\ <<Fresh, <<"parent", "PUBLISHED">>>> \in Moves
      /\ <<<<"parent", "PUBLISHED">>, <<"parent", "CLOSED">>>> \in Moves
  BY DEF Moves
<1>6. QED BY <1>1, <1>2, <1>3, <1>4, <1>5

\* The column moves as an item does.
LEMMA ItemAllowed ==
  ASSUME SerialInv, ~MayOverlap, UNCHANGED mode, NEW r \in Reqs, NEW i \in Items, NEW row,
         ItemMove(r, i, row), item'[i] = row
  PROVE  Column'[i] = Column[i] \/ <<Column[i], Column'[i]>> \in Lifecycle!Allowed
<1>0. Service \in Services
  BY ServiceKnown DEF SerialInv, Inv
<1>1. /\ ~Exists(item'[i]) => Column'[i] = Absent
      /\ Exists(item'[i]) =>
           Column'[i] = IF row.status = FirstOf(Service) THEN Fresh ELSE <<Service, row.status>>
  BY ServicesSame DEF Column
<1>2. /\ ~Exists(item[i]) => Column[i] = Absent
      /\ Exists(item[i]) =>
           Column[i] = IF item[i].status = FirstOf(Service) THEN Fresh ELSE <<Service, item[i].status>>
  BY ColumnOf
<1>3. CASE item[i] = NoRow /\ row \in ItemRow /\ row.status = FirstOf(Service)
  <2>1. Column[i] = Absent /\ Column'[i] = Fresh
    BY <1>1, <1>2, <1>3, RowKinds DEF Exists
  <2>2. QED BY <2>1 DEF Lifecycle!Allowed
<1>4. CASE Exists(item[i]) /\ Undecided(i) /\ row \in ItemRow /\ row.status \in Outcomes(Service)
  <2>1. Column'[i] = <<Service, row.status>>
    BY <1>0, <1>1, <1>4, Statuses, RowKinds DEF Exists
  <2>2. CASE item[i].status = FirstOf(Service)
    BY <1>0, <1>2, <1>4, <2>1, <2>2, MovesHave DEF Lifecycle!Allowed
  <2>3. CASE item[i].status # FirstOf(Service)
    <3>1. item[i].status \in Open(Service) /\ Column[i] = <<Service, item[i].status>>
      BY <1>2, <1>4, <2>3 DEF Undecided
    <3>2. \/ Service = "placement" /\ item[i].status \in {"SHORTLISTED", "INTERVIEW"}
          \/ Service = "assignment" /\ item[i].status = "EVALUATED"
      BY <1>0, <2>3, <3>1, Statuses DEF Open
    <3>3. Outcomes("assignment") = {"EVALUATED"}
      BY DEF Outcomes
    <3>4. QED BY <1>4, <2>1, <3>1, <3>2, <3>3, MovesHave DEF Lifecycle!Allowed
  <2>4. QED BY <2>2, <2>3
<1>5. CASE /\ Exists(item[i]) /\ Service = "document"
           /\ row = Deleted \/ (row \in ItemRow /\ row.status = FirstOf(Service))
  <2>1. Column'[i] \in {Fresh, Absent}
    BY <1>1, <1>5, RowKinds DEF Exists
  <2>2. item[i].status = FirstOf(Service) \/ item[i].status \in Outcomes("document")
    BY <1>5, Rows DEF SerialInv, Inv, ItemRow
  <2>3. Column[i] = Fresh \/ (item[i].status \in Outcomes("document") /\ Column[i] = <<"document", item[i].status>>)
    BY <1>2, <1>5, <2>2
  <2>4. QED BY <2>1, <2>3, MovesHave DEF Lifecycle!Allowed
<1>6. QED BY <1>3, <1>4, <1>5 DEF ItemMove

\* The column moves as an assignment does.
LEMMA ParentAllowed ==
  ASSUME SerialInv, ~MayOverlap, UNCHANGED mode, NEW r \in Reqs, NEW p \in Parents \ Items, NEW row,
         ParentMove(r, p, row), parent'[p] = row
  PROVE  Column'[p] = Column[p] \/ <<Column[p], Column'[p]>> \in Lifecycle!Allowed
<1>1. CASE Service # "assignment"
  <2>1. Column[p] = Absent /\ Column'[p] = Absent
    BY <1>1, ServicesSame DEF Column
  <2>2. QED BY <2>1
<1>2. CASE Service = "assignment"
  <2>1. /\ ~Exists(row) => Column'[p] = Absent
        /\ Exists(row) => Column'[p] = IF row.status = "DRAFT" THEN Fresh ELSE <<"parent", row.status>>
    BY <1>2, ServicesSame DEF Column, Exists
  <2>2. /\ ~Exists(parent[p]) => Column[p] = Absent
        /\ Exists(parent[p]) => Column[p] = IF parent[p].status = "DRAFT" THEN Fresh ELSE <<"parent", parent[p].status>>
    BY <1>2, ColumnOf
  <2>3. CASE parent[p] = NoRow /\ row \in ParentRow /\ row.status = "DRAFT"
    <3>1. Column[p] = Absent /\ Column'[p] = Fresh
      BY <2>1, <2>2, <2>3, RowKinds DEF Exists
    <3>2. QED BY <3>1 DEF Lifecycle!Allowed
  <2>4. CASE /\ Exists(parent[p]) /\ row \in ParentRow
             /\ <<parent[p].status, row.status>> \in {<<"DRAFT", "PUBLISHED">>, <<"PUBLISHED", "CLOSED">>}
                  \/ row.status = parent[p].status
    <3>1. Column'[p] = IF row.status = "DRAFT" THEN Fresh ELSE <<"parent", row.status>>
      BY <2>1, <2>4, RowKinds DEF Exists
    <3>2. QED BY <2>2, <2>4, <3>1, MovesHave DEF Lifecycle!Allowed
  <2>5. CASE Exists(parent[p]) /\ row = Deleted
    <3>1. Column'[p] = Absent
      BY <2>1, <2>5 DEF Exists
    <3>2. parent[p].status \in {"DRAFT", "PUBLISHED", "CLOSED"}
      BY <2>5, Rows DEF SerialInv, Inv, ParentRow
    <3>3. QED BY <2>2, <2>5, <3>1, <3>2, MovesHave DEF Lifecycle!Allowed
  <2>6. QED BY <1>2, <2>3, <2>4, <2>5 DEF ParentMove
<1>3. QED BY <1>1, <1>2

\* The column of a row no step touches.
LEMMA ColumnSame ==
  ASSUME UNCHANGED mode, NEW x \in Items \cup Parents,
         x \in Items => item'[x] = item[x],
         x \notin Items => parent'[x] = parent[x] \/ Service # "assignment"
  PROVE  Column'[x] = Column[x]
BY ServicesSame DEF Column, Exists

LEMMA LifecycleStep ==
  ASSUME SerialInv, [Next]_vars
  PROVE  [Lifecycle!Next]_Column
<1>0. UNCHANGED mode
  BY DEF Next, vars
<1>1. SUFFICES ASSUME NEW x \in Items \cup Parents
               PROVE  Column'[x] = Column[x] \/ <<Column[x], Column'[x]>> \in Lifecycle!Allowed
  <2>1. Column' = [x \in Items \cup Parents |-> Column'[x]]
    BY DEF Column
  <2>2. QED BY <1>1, <2>1 DEF Lifecycle!Next
<1>2. CASE MayOverlap
  <2>1. Column[x] = Absent /\ Column'[x] = Absent
    BY <1>0, <1>2, ServicesSame DEF Column
  <2>2. QED BY <2>1
<1>3. CASE ~MayOverlap
  <2>1. CASE UNCHANGED item /\ (Service = "assignment" => UNCHANGED parent)
    BY <1>0, <2>1, ColumnSame
  <2>2. ASSUME NEW r \in Reqs, NEW i \in Items, NEW row, ItemMove(r, i, row),
               item' = [item EXCEPT ![i] = row], UNCHANGED parent
        PROVE  Column'[x] = Column[x] \/ <<Column[x], Column'[x]>> \in Lifecycle!Allowed
    <3>1. item'[i] = row /\ \A j \in Items \ {i} : item'[j] = item[j]
      BY <2>2 DEF SerialInv, Inv, TypeOK
    <3>2. QED BY <1>0, <1>3, <2>2, <3>1, ItemAllowed, ColumnSame
  <2>3. ASSUME NEW r \in Reqs, NEW p \in Parents, NEW row, ParentMove(r, p, row),
               parent' = [parent EXCEPT ![p] = row], UNCHANGED item
        PROVE  Column'[x] = Column[x] \/ <<Column[x], Column'[x]>> \in Lifecycle!Allowed
    <3>1. parent'[p] = row /\ \A k \in Parents \ {p} : parent'[k] = parent[k]
      BY <2>3 DEF SerialInv, Inv, TypeOK
    <3>2. QED BY <1>0, <1>3, <2>3, <3>1, ParentAllowed, ColumnSame
  <2>4. ASSUME NEW r \in Reqs, Does(r)
        PROVE  Column'[x] = Column[x] \/ <<Column[x], Column'[x]>> \in Lifecycle!Allowed
    BY <2>1, <2>2, <2>3, <2>4 DEF Does
  <2>5. QED BY <1>3, <2>1, <2>4, SerialStep
<1>4. QED BY <1>2, <1>3

\* As long as requests take turns, rows are decided from their first status and
\* stay decided, and assignments are published, then closed: the status columns
\* implement Workflow.
THEOREM DecisionsFollowLifecycle == Spec => FollowsLifecycle
<1>1. Init => Lifecycle!Init
  BY DEF Init, Lifecycle!Init, Column, Exists
<1>2. SerialInv /\ [Next]_vars => [Lifecycle!Next]_Column
  BY LifecycleStep
<1>3. QED BY <1>1, <1>2, SerialInvariance, PTL DEF Spec, FollowsLifecycle, Lifecycle!Spec

-----------------------------------------------------------------------------
(***************************************************************************)
(* Delivery.                                                               *)
(***************************************************************************)

Dispatching == {"resolve", "dispatch", "notify", "deliver", "stamp"}
Targets     == ({"published", "reminder"} \X Anns) \cup ({"message"} \X Messages)

DispatchWork ==
    [pc : Dispatching, topic : Topics, of : Anns \cup Messages, but : SUBSET Users,
     rest : SUBSET Anns, to : SUBSET Users, left : SUBSET Users, mail : SUBSET Users,
     now : Users \cup {"NONE"}]
FireWork == [pc : {"fire"}, v : Events, stage : [Endpoints -> Stage]]
Work     == {Idle} \cup DispatchWork \cup FireWork
\* A delivery as far as its type tells: that it is attempted once takes HooksInv.
Hook     == [status : {"PENDING", "DELIVERED", "FAILED"}, attempts : Nat]

DeliveryTypes ==
    /\ mode \in Modes
    /\ crashes \in 0..MaxCrashes
    /\ ann \in [Anns -> AnnRow \cup {NoRow, Deleted}]
    /\ covered \in [Anns -> SUBSET Users]
    /\ posted \in SUBSET Messages
    /\ muted \in SUBSET Users /\ mail \in BOOLEAN
    /\ notes \in [Told -> Notes]
    /\ endpoint \in [Endpoints -> {NoRow, Deleted} \cup [enabled : BOOLEAN]]
    /\ hook \in [Events \X Endpoints -> Hook \cup {NoRow, Deleted}]
    /\ received \in SUBSET (Events \X Endpoints)
    /\ req \in [Reqs -> Work]

Telling(r) == req[r].pc \in Dispatching

\* What x tells its recipients of has been created, and so have the
\* announcements the scan goes on to; whom it no longer has to tell was told.
DispatchFits(x) ==
    /\ <<x.topic, x.of>> \in Targets
    /\ x.topic \in {"published", "reminder"} => ann[x.of] # NoRow
    /\ x.topic = "message" => x.of \in posted
    /\ \A b \in x.rest : ann[b] # NoRow
    /\ x.left \subseteq x.to /\ x.mail \subseteq x.to
    /\ \A u \in x.to \ x.left : notes[x.topic, x.of, u].rows > 0
    /\ x.pc = "resolve" => x.to = {}
    /\ x.pc = "dispatch" => x.mail = {}
    /\ x.pc = "deliver" => x.now \in x.to
    /\ x.pc = "stamp" => x.left = {} /\ x.topic = "reminder"

DispatchInv ==
    /\ DeliveryTypes
    /\ \A r \in Reqs : Telling(r) => DispatchFits(req[r])
    /\ RemindedAtLeastOnce

\* Unless a request dies, a row without its deliveries is one somebody is at.
RowsCounted ==
    \A k \in Told :
      IsFiniteSet(Underway(k)) /\ notes[k].rows = notes[k].in_app + Cardinality(Underway(k))

\* While requests take turns, one at most tells anybody anything, and those it
\* is to reach by EMAIL still agree.
TellsAlone ==
    /\ \A q, r \in Reqs : Telling(q) /\ Telling(r) => q = r
    /\ \A r \in Reqs : Telling(r) => \A u \in req[r].mail : mail /\ u \notin muted

\* Nobody has been told of x on this topic.
Untold(topic, x) == \A u \in Users : notes[topic, x, u].rows = 0

\* While requests take turns and none dies, nobody was told before of what is new,
\* of what a scan has not come to, or of what the request at work has yet to tell.
ToldOnce ==
    /\ \A k \in Told : notes[k].rows <= 1
    /\ \A m \in Messages \ posted : Untold("message", m)
    /\ \A a \in Anns : ann[a] = NoRow => Untold("published", a) /\ Untold("reminder", a)
    /\ \A a \in Anns : Exists(ann[a]) /\ ~ann[a].sent =>
         \/ Untold("reminder", a)
         \/ \E r \in Reqs : Telling(r) /\ req[r].topic = "reminder" /\ req[r].of = a
    /\ \A r \in Reqs : Telling(r) =>
         /\ \A u \in Users \ (req[r].to \ req[r].left) : notes[req[r].topic, req[r].of, u].rows = 0
         /\ \A b \in req[r].rest : Untold("reminder", b) /\ (req[r].topic = "reminder" => b # req[r].of)

\* A webhook whose answer came was received; an endpoint that is gone has no
\* deliveries; and who left a delivery PENDING is still at it.
AnswersReceived ==
    \A r \in Reqs, e \in Endpoints :
      req[r].pc = "fire" /\ req[r].stage[e] \in {"answered", "refused"} => <<req[r].v, e>> \in received

AtIt(r, d) == req[r].pc = "fire" /\ req[r].v = d[1] /\ req[r].stage[d[2]] # "end"

HooksInv ==
    /\ DeliveryTypes
    /\ AnswersReceived
    /\ \A q, r \in Reqs : req[q].pc = "fire" /\ req[r].pc = "fire" /\ req[q].v = req[r].v => q = r
    /\ \A d \in Events \X Endpoints : Exists(hook[d]) =>
         /\ Exists(endpoint[d[2]])
         /\ hook[d].attempts \in 0..1
         /\ \A r \in Reqs : AtIt(r, d) => hook[d].attempts = 0
         /\ hook[d].status = "DELIVERED" => d \in received
         /\ ~Faults /\ hook[d].status = "PENDING" => \E r \in Reqs : AtIt(r, d)

LEMMA DeliveryRows ==
  /\ NoRow # Deleted
  /\ \A x \in AnnRow \cup [enabled : BOOLEAN] \cup Hook : x # NoRow /\ x # Deleted
BY DEF NoRow, Deleted, AnnRow, Hook

LEMMA WorkShape ==
  ASSUME NEW x \in Work
  PROVE  /\ x.pc \in {"idle", "fire"} \cup Dispatching
         /\ x.pc \in Dispatching => x \in DispatchWork
         /\ x.pc = "fire" => x \in FireWork
         /\ x.pc = "idle" => x = Idle
BY DEF Work, DispatchWork, FireWork, Dispatching, Idle

LEMMA IdleWork == Idle \in Work /\ Idle.pc = "idle" /\ Idle.pc \notin Dispatching
BY DEF Work, Idle, Dispatching

LEMMA WorkStep ==
  ASSUME DeliveryTypes, NEW r \in Reqs, NEW x \in Work, Goto(r, x)
  PROVE  req' \in [Reqs -> Work] /\ req'[r] = x /\ \A q \in Reqs \ {r} : req'[q] = req[q]
BY DEF DeliveryTypes, Goto

LEMMA ToldKeys ==
  /\ \A t, x, u : <<t, x>> \in Targets /\ u \in Users => <<t, x, u>> \in Told
  /\ \A k \in Told : k = <<k[1], k[2], k[3]>> /\ <<k[1], k[2]>> \in Targets /\ k[3] \in Users
  /\ \A a \in Anns : <<"published", a>> \in Targets /\ <<"reminder", a>> \in Targets
  /\ \A m \in Messages : <<"message", m>> \in Targets
BY DEF Told, Targets

LEMMA ResolveForWork ==
  ASSUME NEW topic, NEW of, <<topic, of>> \in Targets, NEW but \in SUBSET Users, NEW rest \in SUBSET Anns
  PROVE  ResolveFor(topic, of, but, rest) \in DispatchWork
BY DEF Targets, Topics, ResolveFor, DispatchWork, Dispatching

\* x goes on with what y tells.
SameNotice(x, y) == x.topic = y.topic /\ x.of = y.of /\ x.rest = y.rest

\* Where a handler goes once everyone was told.
LEMMA AllToldWork ==
  ASSUME NEW r \in Reqs, NEW q \in DispatchWork, AllTold(r, q)
  PROVE  \E x \in Work :
           /\ Goto(r, x)
           /\ \/ x = Idle /\ q.topic # "reminder"
              \/ /\ x \in DispatchWork /\ x.pc = "stamp" /\ q.topic = "reminder"
                 /\ SameNotice(x, q) /\ x.to = q.to /\ x.left = q.left /\ x.mail = q.mail
<1>1. CASE q.topic = "reminder"
  <2>1. PICK x : x = [q EXCEPT !.pc = "stamp", !.now = "NONE"]
    OBVIOUS
  <2>2. /\ x \in DispatchWork /\ x.pc = "stamp" /\ SameNotice(x, q)
        /\ x.to = q.to /\ x.left = q.left /\ x.mail = q.mail
    BY <2>1 DEF DispatchWork, Dispatching, SameNotice
  <2>3. Goto(r, x)
    BY <1>1, <2>1 DEF AllTold
  <2>4. QED BY <1>1, <2>2, <2>3 DEF Work
<1>2. CASE q.topic # "reminder"
  BY <1>2, IdleWork DEF AllTold, Done
<1>3. QED BY <1>1, <1>2

LEMMA ResolveEffect ==
  ASSUME DeliveryTypes, NEW r \in Reqs, Resolve(r)
  PROVE  /\ req[r] \in DispatchWork /\ req[r].pc = "resolve"
         /\ \E x \in Work :
              /\ Goto(r, x)
              /\ \/ x = Idle /\ req[r].topic # "reminder"
                 \/ /\ x \in DispatchWork /\ SameNotice(x, req[r])
                    /\ x.left = x.to /\ x.mail = req[r].mail
                    /\ \/ x.pc = "dispatch"
                       \/ x.pc = "stamp" /\ x.to = {} /\ x.topic = "reminder"
<1>1. req[r] \in DispatchWork /\ req[r].pc = "resolve"
  BY WorkShape DEF DeliveryTypes, Resolve, At, Dispatching
<1>2. PICK to \in SUBSET (Users \ req[r].but) :
        LET q == [req[r] EXCEPT !.to = to, !.left = to, !.pc = "dispatch"]
        IN  IF to = {} THEN AllTold(r, q) ELSE Goto(r, q)
  BY DEF Resolve
<1>3. PICK q : q = [req[r] EXCEPT !.to = to, !.left = to, !.pc = "dispatch"]
  OBVIOUS
<1>4. /\ q \in DispatchWork /\ q.pc = "dispatch" /\ SameNotice(q, req[r])
      /\ q.to = to /\ q.left = to /\ q.mail = req[r].mail
  BY <1>1, <1>3 DEF DispatchWork, Dispatching, SameNotice
<1>5. CASE to = {}
  <2>1. AllTold(r, q)
    BY <1>2, <1>3, <1>5
  <2>2. QED BY <1>1, <1>4, <1>5, <2>1, AllToldWork DEF SameNotice
<1>6. CASE to # {}
  <2>1. Goto(r, q)
    BY <1>2, <1>3, <1>6
  <2>2. QED BY <1>1, <1>4, <2>1 DEF Work
<1>7. QED BY <1>5, <1>6

LEMMA ReadEffect ==
  ASSUME DeliveryTypes, NEW r \in Reqs, ReadPreferences(r)
  PROVE  /\ req[r] \in DispatchWork /\ req[r].pc = "dispatch"
         /\ \E x \in DispatchWork :
              /\ Goto(r, x) /\ SameNotice(x, req[r]) /\ x.pc = "notify"
              /\ x.to = req[r].to /\ x.left = req[r].left /\ x.mail = Reachable(req[r].to)
<1>1. req[r] \in DispatchWork /\ req[r].pc = "dispatch"
  BY WorkShape DEF DeliveryTypes, ReadPreferences, At, Dispatching
<1>2. PICK x : x = [req[r] EXCEPT !.pc = "notify", !.mail = Reachable(req[r].to)]
  OBVIOUS
<1>3. Reachable(req[r].to) \in SUBSET Users
  BY <1>1 DEF Reachable, DispatchWork
<1>4. /\ x \in DispatchWork /\ SameNotice(x, req[r]) /\ x.pc = "notify"
      /\ x.to = req[r].to /\ x.left = req[r].left /\ x.mail = Reachable(req[r].to)
  BY <1>1, <1>2, <1>3 DEF DispatchWork, Dispatching, SameNotice
<1>5. QED BY <1>1, <1>2, <1>4 DEF ReadPreferences

LEMMA CreateEffect ==
  ASSUME DeliveryTypes, NEW r \in Reqs, NEW u \in Users, CreateNotification(r, u)
  PROVE  /\ req[r] \in DispatchWork /\ req[r].pc = "notify" /\ u \in req[r].left
         /\ notes' = [notes EXCEPT ![<<req[r].topic, req[r].of, u>>].rows = @ + 1]
         /\ \E x \in DispatchWork :
              /\ Goto(r, x) /\ SameNotice(x, req[r]) /\ x.pc = "deliver" /\ x.now = u
              /\ x.to = req[r].to /\ x.left = req[r].left \ {u} /\ x.mail = req[r].mail
<1>1. req[r] \in DispatchWork /\ req[r].pc = "notify"
  BY WorkShape DEF DeliveryTypes, CreateNotification, At, Dispatching
<1>2. PICK x : x = [req[r] EXCEPT !.pc = "deliver", !.left = @ \ {u}, !.now = u]
  OBVIOUS
<1>3. /\ x \in DispatchWork /\ SameNotice(x, req[r]) /\ x.pc = "deliver" /\ x.now = u
      /\ x.to = req[r].to /\ x.left = req[r].left \ {u} /\ x.mail = req[r].mail
  BY <1>1, <1>2 DEF DispatchWork, Dispatching, SameNotice
<1>4. QED BY <1>1, <1>2, <1>3 DEF CreateNotification

LEMMA DeliverEffect ==
  ASSUME DeliveryTypes, NEW r \in Reqs, CreateDeliveries(r)
  PROVE  /\ req[r] \in DispatchWork /\ req[r].pc = "deliver"
         /\ notes' = [notes EXCEPT ![<<req[r].topic, req[r].of, req[r].now>>] =
                        Delivered(@, req[r].now \in req[r].mail)]
         /\ \E x \in Work :
              /\ Goto(r, x)
              /\ \/ x = Idle /\ req[r].topic # "reminder"
                 \/ /\ x \in DispatchWork /\ SameNotice(x, req[r])
                    /\ x.to = req[r].to /\ x.left = req[r].left /\ x.mail = req[r].mail
                    /\ \/ x.pc = "notify"
                       \/ x.pc = "stamp" /\ x.left = {} /\ x.topic = "reminder"
<1>1. req[r] \in DispatchWork /\ req[r].pc = "deliver"
  BY WorkShape DEF DeliveryTypes, CreateDeliveries, At, Dispatching
<1>2. CASE req[r].left = {}
  <2>1. AllTold(r, req[r])
    BY <1>2 DEF CreateDeliveries, LoopEnds
  <2>2. QED BY <1>1, <1>2, <2>1, AllToldWork DEF SameNotice, CreateDeliveries
<1>3. CASE req[r].left # {}
  <2>1. PICK x : x = [req[r] EXCEPT !.pc = "notify", !.now = "NONE"]
    OBVIOUS
  <2>2. Goto(r, x)
    BY <1>3, <2>1 DEF CreateDeliveries, LoopEnds
  <2>3. /\ x \in DispatchWork /\ SameNotice(x, req[r]) /\ x.pc = "notify"
        /\ x.to = req[r].to /\ x.left = req[r].left /\ x.mail = req[r].mail
    BY <1>1, <2>1 DEF DispatchWork, Dispatching, SameNotice
  <2>4. QED BY <1>1, <2>2, <2>3 DEF CreateDeliveries, Work
<1>4. QED BY <1>2, <1>3

LEMMA StampEffect ==
  ASSUME DeliveryTypes, NEW r \in Reqs, StampReminder(r)
  PROVE  /\ req[r] \in DispatchWork /\ req[r].pc = "stamp"
         /\ \/ /\ ~Exists(ann[req[r].of]) /\ Goto(r, Idle) /\ UNCHANGED <<ann, covered>>
            \/ /\ Exists(ann[req[r].of])
               /\ ann' = [ann EXCEPT ![req[r].of].sent = TRUE]
               /\ covered' = [covered EXCEPT ![req[r].of] = req[r].to]
               /\ \/ Goto(r, Idle)
                  \/ \E a \in req[r].rest :
                       Goto(r, ResolveFor("reminder", a, {}, req[r].rest \ {a}))
<1>1. req[r] \in DispatchWork /\ req[r].pc = "stamp"
  BY WorkShape DEF DeliveryTypes, StampReminder, At, Dispatching
<1>2. QED BY <1>1 DEF StampReminder, Done

LEMMA GoOnEffect ==
  ASSUME DeliveryTypes, NEW r \in Reqs, NEW e \in Endpoints, NEW from, NEW to \in Stage,
         Stands(r, e, from), GoOn(r, e, to)
  PROVE  /\ req[r] \in FireWork /\ req[r].pc = "fire" /\ req[r].stage[e] = from
         /\ \E x \in Work :
              /\ Goto(r, x)
              /\ \/ /\ x = Idle /\ to = "end"
                    /\ \A f \in Endpoints \ {e} : req[r].stage[f] = "end"
                 \/ /\ x \in FireWork /\ x.v = req[r].v /\ x.stage[e] = to
                    /\ \A f \in Endpoints \ {e} : x.stage[f] = req[r].stage[f]
<1>1. req[r] \in FireWork /\ req[r].pc = "fire" /\ req[r].stage[e] = from
  BY WorkShape DEF DeliveryTypes, Stands, At
<1>2. PICK next : next = [req[r].stage EXCEPT ![e] = to]
  OBVIOUS
<1>3. /\ next \in [Endpoints -> Stage] /\ next[e] = to
      /\ \A f \in Endpoints \ {e} : next[f] = req[r].stage[f]
  BY <1>1, <1>2 DEF FireWork
<1>4. CASE \A f \in Endpoints : next[f] = "end"
  <2>1. Goto(r, Idle)
    BY <1>2, <1>4 DEF GoOn, Done
  <2>2. to = "end" /\ \A f \in Endpoints \ {e} : req[r].stage[f] = "end"
    BY <1>3, <1>4
  <2>3. QED BY <1>1, <2>1, <2>2, IdleWork
<1>5. CASE ~ \A f \in Endpoints : next[f] = "end"
  <2>1. PICK x : x = [req[r] EXCEPT !.stage = next]
    OBVIOUS
  <2>2. x \in FireWork /\ x.v = req[r].v /\ x.stage = next
    BY <1>1, <1>3, <2>1 DEF FireWork
  <2>3. Goto(r, x)
    BY <1>2, <1>5, <2>1 DEF GoOn
  <2>4. QED BY <1>1, <1>3, <2>2, <2>3 DEF Work
<1>6. QED BY <1>4, <1>5

-----------------------------------------------------------------------------
\* What steps do to what is told: those of webhooks, preferences and existing
\* announcements nothing.

Quiet ==
    /\ UNCHANGED <<notes, covered, posted>>
    /\ req' \in [Reqs -> Work]
    /\ \A q \in Reqs : req'[q] = req[q] \/ (~Telling(q) /\ ~Telling(q)')
    /\ \A a \in Anns : ann[a] # NoRow => ann'[a] # NoRow

LEMMA QuietReq ==
  ASSUME DeliveryTypes, NEW r \in Reqs, NEW x \in Work, Goto(r, x), ~Telling(r), x.pc \notin Dispatching,
         UNCHANGED <<notes, covered, posted, ann>>
  PROVE  Quiet
<1>1. req' \in [Reqs -> Work] /\ req'[r] = x /\ \A q \in Reqs \ {r} : req'[q] = req[q]
  BY WorkStep
<1>2. ~Telling(r)'
  BY <1>1 DEF Telling
<1>3. ASSUME NEW q \in Reqs PROVE req'[q] = req[q] \/ (~Telling(q) /\ ~Telling(q)')
  <2>1. CASE q = r
    BY <1>2, <2>1 DEF Telling
  <2>2. CASE q # r
    BY <1>1, <2>2
  <2>3. QED BY <2>1, <2>2
<1>4. QED BY <1>1, <1>3 DEF Quiet

LEMMA FireSteps ==
  ASSUME DeliveryTypes, NEW r \in Reqs, NEW e \in Endpoints, NEW to \in Stage, NEW from,
         Stands(r, e, from), GoOn(r, e, to), UNCHANGED <<notes, covered, posted, ann>>
  PROVE  Quiet
<1>1. ~Telling(r)
  BY DEF Stands, At, Telling, Dispatching
<1>2. PICK x \in Work : Goto(r, x) /\ (x = Idle \/ x \in FireWork)
  BY GoOnEffect
<1>3. x.pc \notin Dispatching
  BY <1>2, IdleWork DEF FireWork, Dispatching
<1>4. QED BY <1>1, <1>2, <1>3, QuietReq

LEMMA HookSteps ==
  ASSUME DeliveryTypes, NEW r \in Reqs, NEW e \in Endpoints,
         HookInsert(r, e) \/ Post(r, e) \/ HookWrite(r, e) \/ AnswerLost(r, e)
  PROVE  Quiet
<1>0. \A to \in {"post", "answered", "refused", "error", "end"} : to \in Stage
  BY DEF Stage
<1>1. CASE HookInsert(r, e)
  BY <1>0, <1>1, FireSteps DEF HookInsert
<1>2. CASE Post(r, e)
  BY <1>0, <1>2, FireSteps DEF Post
<1>3. CASE HookWrite(r, e)
  BY <1>0, <1>3, FireSteps DEF HookWrite
<1>4. CASE AnswerLost(r, e)
  BY <1>0, <1>4, FireSteps DEF AnswerLost
<1>5. QED BY <1>1, <1>2, <1>3, <1>4

LEMMA TriggerStep ==
  ASSUME DeliveryTypes, NEW r \in Reqs, NEW v \in Events, TriggerWebhooks(r, v)
  PROVE  /\ Quiet /\ req[r] = Idle
         /\ \E x \in FireWork :
              Goto(r, x) /\ x.v = v /\ \A e \in Endpoints : x.stage[e] \in {"row", "end"}
<1>1. PICK on : Goto(r, [pc |-> "fire", v |-> v,
                         stage |-> [e \in Endpoints |-> IF e \in on THEN "row" ELSE "end"]])
  BY DEF TriggerWebhooks
<1>2. PICK x : x = [pc |-> "fire", v |-> v,
                    stage |-> [e \in Endpoints |-> IF e \in on THEN "row" ELSE "end"]]
  OBVIOUS
<1>3. /\ x \in FireWork /\ x.v = v /\ x.pc = "fire"
      /\ \A e \in Endpoints : x.stage[e] \in {"row", "end"}
  BY <1>2 DEF FireWork, Stage
<1>4. Goto(r, x) /\ x \in Work /\ req[r] = Idle /\ ~Telling(r)
  BY <1>1, <1>2, <1>3, IdleWork DEF TriggerWebhooks, Work, Telling
<1>5. Quiet
  BY <1>3, <1>4, QuietReq DEF TriggerWebhooks, Dispatching
<1>6. QED BY <1>3, <1>4, <1>5

\* Steps in which no request goes anywhere.
Standing(r) ==
    \/ \E a \in Anns, soon \in BOOLEAN : UpdateAnnouncement(r, a, soon)
    \/ \E a \in Anns : DeleteAnnouncement(r, a) \/ TimePasses(a)
    \/ \E u \in Users : SetPreference(r, u)
    \/ \E on \in BOOLEAN : UpsertIntegration(r, on)
    \/ \E e \in Endpoints : CreateEndpoint(r, e) \/ DeleteEndpoint(r, e)
    \/ \E e \in Endpoints, on \in BOOLEAN : UpdateEndpoint(r, e, on)

\* What happens to an announcement that is there.
AnnStep(a) ==
    \/ ann'[a] = ann[a]
    \/ Exists(ann[a]) /\ Exists(ann[a])' /\ ann'[a].sent = ann[a].sent
    \/ Exists(ann[a]) /\ ann'[a] = Deleted

LEMMA AnnUpdate ==
  ASSUME DeliveryTypes, NEW a \in Anns, NEW soon \in BOOLEAN, Exists(ann[a]),
         ann' = [ann EXCEPT ![a].soon = soon]
  PROVE  /\ ann' \in [Anns -> AnnRow \cup {NoRow, Deleted}]
         /\ \A b \in Anns : AnnStep(b)
<1>1. ann[a] \in AnnRow
  BY DEF DeliveryTypes, Exists
<1>2. PICK row : row = [ann[a] EXCEPT !.soon = soon]
  OBVIOUS
<1>3. row \in AnnRow /\ row.sent = ann[a].sent
  BY <1>1, <1>2 DEF AnnRow
<1>4. ann'[a] = row /\ \A b \in Anns \ {a} : ann'[b] = ann[b]
  BY <1>2 DEF DeliveryTypes
<1>5. ann' \in [Anns -> AnnRow \cup {NoRow, Deleted}]
  BY <1>2, <1>3 DEF DeliveryTypes
<1>6. AnnStep(a)
  BY <1>3, <1>4, DeliveryRows DEF AnnStep, Exists
<1>7. QED BY <1>4, <1>5, <1>6 DEF AnnStep

LEMMA StandingStep ==
  ASSUME DeliveryTypes, NEW r, Standing(r), UNCHANGED mode
  PROVE  /\ DeliveryTypes' /\ UNCHANGED req /\ Quiet
         /\ \A a \in Anns : AnnStep(a)
<1>1. ASSUME NEW a \in Anns, NEW soon \in BOOLEAN, UpdateAnnouncement(r, a, soon)
      PROVE  /\ DeliveryTypes' /\ UNCHANGED <<req, notes, covered, posted>>
             /\ \A b \in Anns : AnnStep(b)
  BY <1>1, AnnUpdate DEF UpdateAnnouncement, DeliveryTypes, people, hooks
<1>2. ASSUME NEW a \in Anns, TimePasses(a)
      PROVE  /\ DeliveryTypes' /\ UNCHANGED <<req, notes, covered, posted>>
             /\ \A b \in Anns : AnnStep(b)
  <2>1. Exists(ann[a]) /\ ann' = [ann EXCEPT ![a].soon = ~ann[a].soon] /\ ann[a] \in AnnRow
    BY <1>2 DEF TimePasses, DeliveryTypes, Exists
  <2>2. (~ann[a].soon) \in BOOLEAN
    OBVIOUS
  <2>3. ann' \in [Anns -> AnnRow \cup {NoRow, Deleted}] /\ \A b \in Anns : AnnStep(b)
    BY <2>1, <2>2, AnnUpdate
  <2>4. QED BY <1>2, <2>3 DEF TimePasses, DeliveryTypes, people, hooks
<1>3. ASSUME NEW a \in Anns, DeleteAnnouncement(r, a)
      PROVE  /\ DeliveryTypes' /\ UNCHANGED <<req, notes, covered, posted>>
             /\ \A b \in Anns : AnnStep(b)
  BY <1>3 DEF DeleteAnnouncement, DeliveryTypes, people, hooks, AnnStep
<1>4. ASSUME NEW u \in Users, SetPreference(r, u)
      PROVE  DeliveryTypes' /\ UNCHANGED <<req, notes, covered, posted, ann>>
  BY <1>4 DEF SetPreference, DeliveryTypes, hooks
<1>5. ASSUME NEW on \in BOOLEAN, UpsertIntegration(r, on)
      PROVE  DeliveryTypes' /\ UNCHANGED <<req, notes, covered, posted, ann>>
  BY <1>5 DEF UpsertIntegration, DeliveryTypes, hooks
<1>6. ASSUME NEW e \in Endpoints, CreateEndpoint(r, e)
      PROVE  DeliveryTypes' /\ UNCHANGED <<req, notes, covered, posted, ann>>
  BY <1>6 DEF CreateEndpoint, DeliveryTypes, people
<1>7. ASSUME NEW e \in Endpoints, DeleteEndpoint(r, e)
      PROVE  DeliveryTypes' /\ UNCHANGED <<req, notes, covered, posted, ann>>
  BY <1>7 DEF DeleteEndpoint, DeliveryTypes, people
<1>8. ASSUME NEW e \in Endpoints, NEW on \in BOOLEAN, UpdateEndpoint(r, e, on)
      PROVE  DeliveryTypes' /\ UNCHANGED <<req, notes, covered, posted, ann>>
  <2>1. endpoint[e] \in [enabled : BOOLEAN]
    BY <1>8 DEF UpdateEndpoint, Exists, DeliveryTypes
  <2>2. endpoint' \in [Endpoints -> {NoRow, Deleted} \cup [enabled : BOOLEAN]]
    BY <1>8, <2>1 DEF UpdateEndpoint, DeliveryTypes
  <2>3. QED BY <1>8, <2>2 DEF UpdateEndpoint, DeliveryTypes, people
<1>9. /\ DeliveryTypes' /\ UNCHANGED <<req, notes, covered, posted>>
      /\ \A b \in Anns : AnnStep(b)
  BY <1>1, <1>2, <1>3, <1>4, <1>5, <1>6, <1>7, <1>8 DEF Standing, AnnStep
<1>10. Quiet
  <2>1. \A a \in Anns : ann[a] # NoRow => ann'[a] # NoRow
    BY <1>9, DeliveryRows DEF AnnStep, Exists
  <2>2. req' \in [Reqs -> Work] /\ \A q \in Reqs : req'[q] = req[q]
    BY <1>9 DEF DeliveryTypes
  <2>3. UNCHANGED <<notes, covered, posted>>
    BY <1>9
  <2>4. QED BY <2>1, <2>2, <2>3 DEF Quiet
<1>11. QED BY <1>9, <1>10

\* Rows of notifications are only added.
LEMMA NotesStep ==
  ASSUME DeliveryTypes, NEW k \in Told
  PROVE  /\ notes' = [notes EXCEPT ![k].rows = @ + 1] =>
              /\ notes' \in [Told -> Notes]
              /\ \A l \in Told \ {k} : notes'[l] = notes[l]
              /\ notes'[k].rows = notes[k].rows + 1
              /\ notes'[k].in_app = notes[k].in_app
              /\ notes'[k].email = notes[k].email
         /\ \A byMail \in BOOLEAN :
              notes' = [notes EXCEPT ![k] = Delivered(@, byMail)] =>
                /\ notes' \in [Told -> Notes]
                /\ \A l \in Told \ {k} : notes'[l] = notes[l]
                /\ notes'[k].rows = notes[k].rows
                /\ notes'[k].in_app = notes[k].in_app + 1
                /\ notes'[k].email > notes[k].email => byMail
<1>1. PICK row \in Notes : row = notes[k]
  BY DEF DeliveryTypes
<1>2. PICK one : one = [row EXCEPT !.rows = @ + 1]
  OBVIOUS
<1>3. one \in Notes /\ one.rows = row.rows + 1 /\ one.in_app = row.in_app /\ one.email = row.email
  BY <1>2 DEF Notes
<1>4. ASSUME notes' = [notes EXCEPT ![k].rows = @ + 1]
      PROVE  /\ notes' \in [Told -> Notes] /\ notes'[k] = one
             /\ \A l \in Told \ {k} : notes'[l] = notes[l]
  <2>1. notes' = [notes EXCEPT ![k] = one]
    BY <1>1, <1>2, <1>4
  <2>2. QED BY <1>3, <2>1 DEF DeliveryTypes
<1>5. ASSUME NEW byMail \in BOOLEAN, notes' = [notes EXCEPT ![k] = Delivered(@, byMail)]
      PROVE  /\ notes' \in [Told -> Notes]
             /\ \A l \in Told \ {k} : notes'[l] = notes[l]
             /\ notes'[k].rows = row.rows
             /\ notes'[k].in_app = row.in_app + 1
             /\ notes'[k].email > row.email => byMail
  <2>1. PICK two : two = Delivered(row, byMail)
    OBVIOUS
  <2>2. /\ two \in Notes /\ two.rows = row.rows /\ two.in_app = row.in_app + 1
        /\ two.email = IF byMail THEN row.email + 1 ELSE row.email
    <3>1. row.rows \in Nat /\ row.in_app \in Nat /\ row.email \in Nat
      BY DEF Notes
    <3>2. PICK m \in Nat : m = row.in_app + 1
      BY <3>1
    <3>3. PICK n \in Nat : n = IF byMail THEN row.email + 1 ELSE row.email
      BY <3>1
    <3>4. two = [row EXCEPT !.in_app = m, !.email = n]
      BY <2>1, <3>2, <3>3 DEF Delivered
    <3>5. two \in Notes /\ two.rows = row.rows /\ two.in_app = m /\ two.email = n
      BY <3>4 DEF Notes
    <3>6. QED BY <3>2, <3>3, <3>5
  <2>3. notes' = [notes EXCEPT ![k] = two]
    BY <1>1, <1>5, <2>1
  <2>4. notes'[k] = two /\ notes' \in [Told -> Notes] /\ \A l \in Told \ {k} : notes'[l] = notes[l]
    BY <2>2, <2>3 DEF DeliveryTypes
  <2>5. two.email > row.email => byMail
    BY <2>2 DEF Notes
  <2>6. QED BY <2>2, <2>4, <2>5
<1>6. QED BY <1>1, <1>3, <1>4, <1>5

\* A handler that dispatches nothing yet begins to: of what was just created, or,
\* the scan, of what is due.
Created(topic, of) ==
    \/ /\ topic = "published" /\ of \in Anns /\ ann[of] = NoRow
       /\ \E soon \in BOOLEAN : ann' = [ann EXCEPT ![of] = [soon |-> soon, sent |-> FALSE]]
       /\ UNCHANGED posted
    \/ /\ topic = "message" /\ of \in Messages \ posted
       /\ posted' = posted \cup {of} /\ UNCHANGED ann

Starting(r, x) ==
    /\ MayStartOn(r, Anns \cup Users) /\ Anns \cup Users # {}
    /\ x \in DispatchWork /\ Goto(r, x) /\ x.pc = "resolve"
    /\ x.to = {} /\ x.left = {} /\ x.mail = {}
    /\ UNCHANGED <<crashes, covered, people, notes, hooks>>
    /\ \/ Created(x.topic, x.of) /\ x.rest = {}
       \/ /\ x.topic = "reminder" /\ x.of \in Anns /\ Due(x.of)
          /\ \A b \in x.rest : Due(b) /\ b # x.of
          /\ UNCHANGED <<ann, posted>>

LEMMA StartingSteps ==
  ASSUME DeliveryTypes, NEW r \in Reqs
  PROVE  /\ \A u \in Users, a \in Anns, soon \in BOOLEAN :
              CreateAnnouncement(r, u, a, soon, TRUE) => \E x \in DispatchWork : Starting(r, x)
         /\ \A u \in Users, m \in Messages :
              PostMessage(r, u, m) => \E x \in DispatchWork : Starting(r, x)
         /\ StartScan(r) => \E x \in DispatchWork : Starting(r, x)
<1>1. ASSUME NEW u \in Users, NEW a \in Anns, NEW soon \in BOOLEAN,
             CreateAnnouncement(r, u, a, soon, TRUE)
      PROVE  \E x \in DispatchWork : Starting(r, x)
  <2>1. PICK x : x = ResolveFor("published", a, {u}, {})
    OBVIOUS
  <2>2. /\ x \in DispatchWork /\ x.pc = "resolve" /\ x.to = {} /\ x.left = {} /\ x.mail = {}
        /\ x.topic = "published" /\ x.of = a /\ x.rest = {}
    <3>1. x \in DispatchWork
      BY <2>1, ResolveForWork, ToldKeys
    <3>2. QED BY <2>1, <3>1 DEF ResolveFor
  <2>3. Goto(r, x)
    BY <1>1, <2>1 DEF CreateAnnouncement
  <2>4. QED BY <1>1, <2>2, <2>3 DEF CreateAnnouncement, Starting, Created
<1>2. ASSUME NEW u \in Users, NEW m \in Messages, PostMessage(r, u, m)
      PROVE  \E x \in DispatchWork : Starting(r, x)
  <2>1. PICK x : x = ResolveFor("message", m, {u}, {})
    OBVIOUS
  <2>2. /\ x \in DispatchWork /\ x.pc = "resolve" /\ x.to = {} /\ x.left = {} /\ x.mail = {}
        /\ x.topic = "message" /\ x.of = m /\ x.rest = {}
    <3>1. x \in DispatchWork
      BY <2>1, ResolveForWork, ToldKeys
    <3>2. QED BY <2>1, <3>1 DEF ResolveFor
  <2>3. Goto(r, x)
    BY <1>2, <2>1 DEF PostMessage
  <2>4. QED BY <1>2, <2>2, <2>3 DEF PostMessage, Starting, Created
<1>3. ASSUME StartScan(r) PROVE \E x \in DispatchWork : Starting(r, x)
  <2>1. PICK a \in Anns : /\ Due(a)
                          /\ Goto(r, ResolveFor("reminder", a, {}, {b \in Anns : Due(b)} \ {a}))
    BY <1>3 DEF StartScan
  <2>2. PICK rest : rest = {b \in Anns : Due(b)} \ {a}
    OBVIOUS
  <2>3. rest \in SUBSET Anns /\ \A b \in rest : Due(b) /\ b # a
    BY <2>2
  <2>4. PICK x : x = ResolveFor("reminder", a, {}, rest)
    OBVIOUS
  <2>5. /\ x \in DispatchWork /\ x.pc = "resolve" /\ x.to = {} /\ x.left = {} /\ x.mail = {}
        /\ x.topic = "reminder" /\ x.of = a /\ x.rest = rest
    <3>1. x \in DispatchWork
      BY <2>3, <2>4, ResolveForWork, ToldKeys
    <3>2. QED BY <2>4, <3>1 DEF ResolveFor
  <2>6. Goto(r, x)
    BY <2>1, <2>2, <2>4
  <2>7. QED BY <1>3, <2>1, <2>3, <2>5, <2>6 DEF StartScan, Starting
<1>4. QED BY <1>1, <1>2, <1>3

-----------------------------------------------------------------------------
\* However requests overlap and die.

\* What was created stays so, and who was told stays told.
Grown ==
    /\ \A a \in Anns : ann[a] # NoRow => ann'[a] # NoRow
    /\ posted \subseteq posted'
    /\ \A k \in Told : notes[k].rows > 0 => notes'[k].rows > 0

LEMMA FitsKept ==
  ASSUME DeliveryTypes, Grown, NEW x \in DispatchWork, DispatchFits(x)
  PROVE  DispatchFits(x)'
<1>1. \A u \in Users : <<x.topic, x.of, u>> \in Told
  BY ToldKeys DEF DispatchFits
<1>2. x.to \subseteq Users /\ x.rest \subseteq Anns
  BY DEF DispatchWork
<1>3. x.topic \in {"published", "reminder"} => x.of \in Anns
  BY DEF DispatchFits, Targets
<1>4. \A u \in x.to \ x.left : notes'[x.topic, x.of, u].rows > 0
  BY <1>1, <1>2 DEF DispatchFits, Grown
<1>5. /\ x.topic \in {"published", "reminder"} => ann'[x.of] # NoRow
      /\ x.topic = "message" => x.of \in posted'
      /\ \A b \in x.rest : ann'[b] # NoRow
  BY <1>2, <1>3 DEF DispatchFits, Grown
<1>6. QED BY <1>4, <1>5 DEF DispatchFits

LEMMA FitsOthers ==
  ASSUME DispatchInv, Grown, NEW q \in Reqs, req'[q] = req[q], Telling(q)'
  PROVE  DispatchFits(req[q])'
<1>1. PICK x : x = req[q]
  OBVIOUS
<1>2. Telling(q) /\ x \in DispatchWork
  BY <1>1, WorkShape DEF DispatchInv, DeliveryTypes, Telling
<1>3. DispatchFits(x)
  BY <1>1, <1>2 DEF DispatchInv
<1>4. DispatchFits(x)'
  BY <1>2, <1>3, FitsKept DEF DispatchInv
<1>5. x = req'[q]
  BY <1>1
<1>6. QED BY <1>4, <1>5 DEF DispatchFits

\* r goes on with x, and nothing is taken back.
LEMMA FitsStep ==
  ASSUME DispatchInv, DeliveryTypes', Grown, NEW r \in Reqs, NEW x \in Work, Goto(r, x),
         x.pc \in Dispatching => DispatchFits(x)',
         RemindedAtLeastOnce'
  PROVE  DispatchInv'
<1>1. req'[r] = x /\ \A q \in Reqs \ {r} : req'[q] = req[q]
  BY WorkStep DEF DispatchInv
<1>2. ASSUME Telling(r)' PROVE DispatchFits(req[r])'
  <2>1. DispatchFits(x)'
    BY <1>1, <1>2 DEF Telling
  <2>2. QED BY <1>1, <2>1 DEF DispatchFits
<1>3. ASSUME NEW q \in Reqs, Telling(q)' PROVE DispatchFits(req[q])'
  <2>1. CASE q = r
    BY <1>2, <1>3, <2>1
  <2>2. CASE q # r
    BY <1>1, <1>3, <2>2, FitsOthers
  <2>3. QED BY <2>1, <2>2
<1>4. QED BY <1>3 DEF DispatchInv

LEMMA RemindedKept ==
  ASSUME DispatchInv, Grown, UNCHANGED covered
  PROVE  RemindedAtLeastOnce'
<1>1. ASSUME NEW a \in Anns, NEW u \in covered[a] PROVE notes'["reminder", a, u].rows > 0
  <2>1. u \in Users /\ notes["reminder", a, u].rows > 0
    BY DEF DispatchInv, DeliveryTypes, RemindedAtLeastOnce
  <2>2. <<"reminder", a, u>> \in Told
    BY <2>1, ToldKeys
  <2>3. QED BY <2>1, <2>2 DEF Grown
<1>2. QED BY <1>1 DEF RemindedAtLeastOnce

LEMMA QuietInv ==
  ASSUME DispatchInv, DeliveryTypes', Quiet
  PROVE  DispatchInv'
<1>1. Grown
  BY DEF Quiet, Grown
<1>2. RemindedAtLeastOnce'
  BY <1>1, RemindedKept DEF Quiet
<1>3. ASSUME NEW q \in Reqs, Telling(q)' PROVE DispatchFits(req[q])'
  BY <1>1, <1>3, FitsOthers DEF Quiet
<1>4. QED BY <1>2, <1>3 DEF DispatchInv

LEMMA StartingInv ==
  ASSUME DispatchInv, NEW r \in Reqs, NEW x \in DispatchWork, Starting(r, x), UNCHANGED mode
  PROVE  DispatchInv' /\ Grown
<1>0. DeliveryTypes /\ x \in Work
  BY DEF DispatchInv, Work
<1>1. CASE Created(x.topic, x.of) /\ x.rest = {}
  <2>1. ann' \in [Anns -> AnnRow \cup {NoRow, Deleted}] /\ posted' \in SUBSET Messages
    <3>1. \A soon \in BOOLEAN : [soon |-> soon, sent |-> FALSE] \in AnnRow
      BY DEF AnnRow
    <3>2. CASE x.topic = "published"
      BY <1>0, <1>1, <3>1, <3>2 DEF DeliveryTypes, Created
    <3>3. CASE x.topic = "message"
      BY <1>0, <1>1, <3>3 DEF DeliveryTypes, Created
    <3>4. QED BY <1>1, <3>2, <3>3 DEF Created
  <2>2. Grown
    BY <1>0, <1>1, DeliveryRows DEF DeliveryTypes, Created, Grown, Starting, AnnRow
  <2>3. /\ <<x.topic, x.of>> \in Targets
        /\ x.topic \in {"published", "reminder"} => ann'[x.of] # NoRow
        /\ x.topic = "message" => x.of \in posted'
    <3>1. CASE x.topic = "published"
      <4>1. PICK soon \in BOOLEAN : ann' = [ann EXCEPT ![x.of] = [soon |-> soon, sent |-> FALSE]]
        BY <1>1, <3>1 DEF Created
      <4>2. x.of \in Anns /\ [soon |-> soon, sent |-> FALSE] \in AnnRow
        BY <1>1, <3>1 DEF Created, AnnRow
      <4>3. ann'[x.of] # NoRow
        BY <1>0, <4>1, <4>2, DeliveryRows DEF DeliveryTypes
      <4>4. QED BY <3>1, <4>2, <4>3, ToldKeys
    <3>2. CASE x.topic = "message"
      BY <1>1, <3>2, ToldKeys DEF Created
    <3>3. QED BY <1>1, <3>1, <3>2 DEF Created
  <2>4. DispatchFits(x)'
    BY <1>1, <2>3 DEF DispatchFits, Starting
  <2>5. DeliveryTypes'
    BY <1>0, <2>1, WorkStep DEF DeliveryTypes, Starting, people, hooks
  <2>6. RemindedAtLeastOnce'
    BY <2>2, RemindedKept DEF Starting
  <2>7. QED BY <1>0, <2>2, <2>4, <2>5, <2>6, FitsStep DEF Starting
<1>2. CASE /\ x.topic = "reminder" /\ x.of \in Anns /\ Due(x.of)
           /\ \A b \in x.rest : Due(b) /\ b # x.of
           /\ UNCHANGED <<ann, posted>>
  <2>1. Grown
    BY <1>2 DEF Grown, Starting
  <2>2. ann'[x.of] # NoRow /\ \A b \in x.rest : ann'[b] # NoRow
    BY <1>2 DEF Due, Exists
  <2>3. DispatchFits(x)'
    BY <1>2, <2>2, ToldKeys DEF DispatchFits, Starting
  <2>4. DeliveryTypes'
    BY <1>0, <1>2, WorkStep DEF DeliveryTypes, Starting, people, hooks
  <2>5. RemindedAtLeastOnce'
    BY <2>1, RemindedKept DEF Starting
  <2>6. QED BY <1>0, <2>1, <2>3, <2>4, <2>5, FitsStep DEF Starting
<1>3. QED BY <1>1, <1>2 DEF Starting

LEMMA DieInv ==
  ASSUME DispatchInv, NEW r \in Reqs, DeliveryDie(r), UNCHANGED mode
  PROVE  DispatchInv' /\ Goto(r, Idle) /\ Faults
<1>0. Goto(r, Idle) /\ Faults
  BY DEF DeliveryDie, Done
<1>1. DeliveryTypes'
  <2>1. crashes' \in 0..MaxCrashes
    BY DeliveryAssumption DEF DispatchInv, DeliveryTypes, DeliveryDie
  <2>2. req' \in [Reqs -> Work]
    BY <1>0, IdleWork, WorkStep DEF DispatchInv
  <2>3. QED BY <2>1, <2>2 DEF DispatchInv, DeliveryTypes, DeliveryDie, people, hooks
<1>2. Grown
  BY DEF DeliveryDie, Grown
<1>3. RemindedAtLeastOnce'
  BY <1>2, RemindedKept DEF DeliveryDie
<1>4. QED BY <1>0, <1>1, <1>2, <1>3, IdleWork, FitsStep

LEMMA ResolveInv ==
  ASSUME DispatchInv, NEW r \in Reqs, Resolve(r) \/ ReadPreferences(r), UNCHANGED mode
  PROVE  DispatchInv'
<1>0. DeliveryTypes
  BY DEF DispatchInv
<1>1. Grown /\ UNCHANGED <<crashes, ann, covered, posted, people, notes, hooks>>
  BY DEF Resolve, ReadPreferences, Grown
<1>2. RemindedAtLeastOnce'
  BY <1>1, RemindedKept
<1>3. PICK x \in Work :
        /\ Goto(r, x)
        /\ x.pc \in Dispatching => x \in DispatchWork /\ DispatchFits(x)
  <2>1. CASE Resolve(r)
    <3>1. PICK x \in Work :
            /\ req[r] \in DispatchWork /\ req[r].pc = "resolve"
            /\ Goto(r, x)
            /\ \/ x = Idle /\ req[r].topic # "reminder"
               \/ /\ x \in DispatchWork /\ SameNotice(x, req[r])
                  /\ x.left = x.to /\ x.mail = req[r].mail
                  /\ \/ x.pc = "dispatch"
                     \/ x.pc = "stamp" /\ x.to = {} /\ x.topic = "reminder"
      BY <1>0, <2>1, ResolveEffect
    <3>2. DispatchFits(req[r])
      BY <3>1 DEF DispatchInv, Telling, Dispatching
    <3>3. req[r].mail = {}
      BY <3>1, <3>2 DEF DispatchFits
    <3>4. x.pc \in Dispatching => x \in DispatchWork /\ DispatchFits(x)
      BY <3>1, <3>2, <3>3, IdleWork DEF DispatchFits, SameNotice
    <3>5. QED BY <3>1, <3>4
  <2>2. CASE ReadPreferences(r)
    <3>1. PICK x \in DispatchWork :
            /\ req[r] \in DispatchWork /\ req[r].pc = "dispatch"
            /\ Goto(r, x) /\ SameNotice(x, req[r]) /\ x.pc = "notify"
            /\ x.to = req[r].to /\ x.left = req[r].left /\ x.mail = Reachable(req[r].to)
      BY <1>0, <2>2, ReadEffect
    <3>2. DispatchFits(req[r])
      BY <3>1 DEF DispatchInv, Telling, Dispatching
    <3>3. DispatchFits(x)
      BY <3>1, <3>2 DEF DispatchFits, SameNotice, Reachable
    <3>4. QED BY <3>1, <3>3 DEF Work
  <2>3. QED BY <2>1, <2>2
<1>4. x.pc \in Dispatching => DispatchFits(x)'
  BY <1>0, <1>1, <1>3, FitsKept
<1>5. DeliveryTypes'
  BY <1>0, <1>1, <1>3, WorkStep DEF DeliveryTypes, people, hooks
<1>6. QED BY <1>1, <1>2, <1>3, <1>4, <1>5, FitsStep

LEMMA CreateInv ==
  ASSUME DispatchInv, NEW r \in Reqs, NEW u \in Users, CreateNotification(r, u), UNCHANGED mode
  PROVE  DispatchInv'
<1>0. DeliveryTypes
  BY DEF DispatchInv
<1>1. PICK x \in DispatchWork :
        /\ req[r] \in DispatchWork /\ req[r].pc = "notify" /\ u \in req[r].left
        /\ notes' = [notes EXCEPT ![<<req[r].topic, req[r].of, u>>].rows = @ + 1]
        /\ Goto(r, x) /\ SameNotice(x, req[r]) /\ x.pc = "deliver" /\ x.now = u
        /\ x.to = req[r].to /\ x.left = req[r].left \ {u} /\ x.mail = req[r].mail
  BY <1>0, CreateEffect
<1>2. DispatchFits(req[r])
  BY <1>1 DEF DispatchInv, Telling, Dispatching
<1>3. PICK k \in Told : k = <<x.topic, x.of, u>>
  BY <1>1, <1>2, ToldKeys DEF DispatchFits, SameNotice
<1>4. /\ notes' \in [Told -> Notes]
      /\ \A l \in Told \ {k} : notes'[l] = notes[l]
      /\ notes'[k].rows = notes[k].rows + 1
  <2>1. notes' = [notes EXCEPT ![k].rows = @ + 1]
    BY <1>1, <1>3 DEF SameNotice
  <2>2. QED BY <1>0, <2>1, NotesStep
<1>5. notes'[k].rows > 0
  BY <1>0, <1>4 DEF DeliveryTypes, Notes
<1>6. Grown
  BY <1>4, <1>5 DEF Grown, CreateNotification
<1>7. RemindedAtLeastOnce'
  BY <1>6, RemindedKept DEF CreateNotification
<1>8. DispatchFits(x)'
  <2>1. PICK y : y = req[r]
    OBVIOUS
  <2>2. y \in DispatchWork /\ DispatchFits(y)'
    BY <1>0, <1>1, <1>2, <1>6, <2>1, FitsKept
  <2>3. \A w \in x.to \ x.left : notes'[x.topic, x.of, w].rows > 0
    BY <1>1, <1>3, <1>5, <2>1, <2>2 DEF DispatchFits, SameNotice
  <2>4. x.left \subseteq x.to /\ x.mail \subseteq x.to /\ x.now \in x.to
    BY <1>1, <1>2 DEF DispatchFits
  <2>5. QED BY <1>1, <2>1, <2>2, <2>3, <2>4 DEF DispatchFits, SameNotice
<1>9. DeliveryTypes'
  BY <1>0, <1>1, <1>4, WorkStep DEF DeliveryTypes, CreateNotification, people, hooks, Work
<1>10. QED BY <1>1, <1>6, <1>7, <1>8, <1>9, FitsStep DEF Work

LEMMA DeliverInv ==
  ASSUME DispatchInv, NEW r \in Reqs, CreateDeliveries(r), UNCHANGED mode
  PROVE  DispatchInv'
<1>0. DeliveryTypes
  BY DEF DispatchInv
<1>1. PICK x \in Work :
        /\ req[r] \in DispatchWork /\ req[r].pc = "deliver"
        /\ notes' = [notes EXCEPT ![<<req[r].topic, req[r].of, req[r].now>>] =
                       Delivered(@, req[r].now \in req[r].mail)]
        /\ Goto(r, x)
        /\ \/ x = Idle /\ req[r].topic # "reminder"
           \/ /\ x \in DispatchWork /\ SameNotice(x, req[r])
              /\ x.to = req[r].to /\ x.left = req[r].left /\ x.mail = req[r].mail
              /\ \/ x.pc = "notify"
                 \/ x.pc = "stamp" /\ x.left = {} /\ x.topic = "reminder"
  BY <1>0, DeliverEffect
<1>2. DispatchFits(req[r])
  BY <1>1 DEF DispatchInv, Telling, Dispatching
<1>3. req[r].now \in Users /\ <<req[r].topic, req[r].of>> \in Targets
  BY <1>1, <1>2 DEF DispatchFits, DispatchWork
<1>4. PICK k \in Told : k = <<req[r].topic, req[r].of, req[r].now>>
  BY <1>3, ToldKeys
<1>5. /\ notes' \in [Told -> Notes]
      /\ \A l \in Told \ {k} : notes'[l] = notes[l]
      /\ notes'[k].rows = notes[k].rows
  <2>1. (req[r].now \in req[r].mail) \in BOOLEAN
    OBVIOUS
  <2>2. notes' = [notes EXCEPT ![k] = Delivered(@, req[r].now \in req[r].mail)]
    BY <1>1, <1>4
  <2>3. QED BY <1>0, <2>1, <2>2, NotesStep
<1>6. Grown
  BY <1>5 DEF Grown, CreateDeliveries
<1>7. RemindedAtLeastOnce'
  BY <1>6, RemindedKept DEF CreateDeliveries
<1>8. ASSUME x.pc \in Dispatching PROVE DispatchFits(x)'
  <2>1. x \in DispatchWork /\ DispatchFits(x)
    BY <1>1, <1>2, <1>8, IdleWork DEF DispatchFits, SameNotice
  <2>2. QED BY <1>0, <1>6, <2>1, FitsKept
<1>9. DeliveryTypes'
  BY <1>0, <1>1, <1>5, WorkStep DEF DeliveryTypes, CreateDeliveries, people, hooks
<1>10. QED BY <1>1, <1>6, <1>7, <1>8, <1>9, FitsStep

LEMMA StampInv ==
  ASSUME DispatchInv, NEW r \in Reqs, StampReminder(r), UNCHANGED mode
  PROVE  DispatchInv'
<1>0. DeliveryTypes /\ Idle \in Work
  BY IdleWork DEF DispatchInv
<1>1. /\ req[r] \in DispatchWork /\ req[r].pc = "stamp"
      /\ \/ /\ ~Exists(ann[req[r].of]) /\ Goto(r, Idle) /\ UNCHANGED <<ann, covered>>
         \/ /\ Exists(ann[req[r].of])
            /\ ann' = [ann EXCEPT ![req[r].of].sent = TRUE]
            /\ covered' = [covered EXCEPT ![req[r].of] = req[r].to]
            /\ \/ Goto(r, Idle)
               \/ \E a \in req[r].rest :
                    Goto(r, ResolveFor("reminder", a, {}, req[r].rest \ {a}))
  BY <1>0, StampEffect
<1>2. PICK y \in DispatchWork : y = req[r]
  BY <1>1
<1>3. DispatchFits(y) /\ y.topic = "reminder" /\ y.left = {} /\ y.of \in Anns /\ y.rest \subseteq Anns
  BY <1>1, <1>2 DEF DispatchInv, Telling, Dispatching, DispatchFits, Targets, DispatchWork
<1>4. CASE ~Exists(ann[y.of]) /\ Goto(r, Idle) /\ UNCHANGED <<ann, covered>>
  <2>1. Grown
    BY <1>4 DEF Grown, StampReminder
  <2>2. RemindedAtLeastOnce'
    BY <1>4, <2>1, RemindedKept
  <2>3. DeliveryTypes'
    BY <1>0, <1>4, WorkStep DEF DeliveryTypes, StampReminder, people, hooks
  <2>4. QED BY <1>0, <1>4, <2>1, <2>2, <2>3, IdleWork, FitsStep
<1>5. CASE /\ Exists(ann[y.of])
           /\ ann' = [ann EXCEPT ![y.of].sent = TRUE]
           /\ covered' = [covered EXCEPT ![y.of] = y.to]
           /\ \/ Goto(r, Idle)
              \/ \E a \in y.rest : Goto(r, ResolveFor("reminder", a, {}, y.rest \ {a}))
  <2>1. PICK row : row = [ann[y.of] EXCEPT !.sent = TRUE]
    OBVIOUS
  <2>2. row \in AnnRow
    <3>1. ann[y.of] \in AnnRow
      BY <1>0, <1>3, <1>5 DEF DeliveryTypes, Exists
    <3>2. QED BY <2>1, <3>1 DEF AnnRow
  <2>3. /\ ann' \in [Anns -> AnnRow \cup {NoRow, Deleted}]
        /\ ann'[y.of] = row /\ \A a \in Anns \ {y.of} : ann'[a] = ann[a]
    BY <1>0, <1>3, <1>5, <2>1, <2>2 DEF DeliveryTypes
  <2>4. Grown
    BY <2>2, <2>3, DeliveryRows DEF Grown, StampReminder
  <2>5. /\ covered' \in [Anns -> SUBSET Users]
        /\ covered'[y.of] = y.to /\ \A a \in Anns \ {y.of} : covered'[a] = covered[a]
    BY <1>0, <1>3, <1>5 DEF DeliveryTypes, DispatchWork
  <2>6. RemindedAtLeastOnce'
    <3>1. notes' = notes
      BY DEF StampReminder
    <3>2. \A u \in y.to : notes["reminder", y.of, u].rows > 0
      BY <1>3 DEF DispatchFits
    <3>3. QED BY <2>5, <3>1, <3>2 DEF RemindedAtLeastOnce, DispatchInv
  <2>7. PICK x \in Work : Goto(r, x) /\ (x.pc \in Dispatching => DispatchFits(x)')
    <3>1. CASE Goto(r, Idle)
      BY <1>0, <3>1, IdleWork
    <3>2. CASE \E a \in y.rest : Goto(r, ResolveFor("reminder", a, {}, y.rest \ {a}))
      <4>1. PICK a \in y.rest : Goto(r, ResolveFor("reminder", a, {}, y.rest \ {a}))
        BY <3>2
      <4>2. PICK x : x = ResolveFor("reminder", a, {}, y.rest \ {a})
        OBVIOUS
      <4>3. /\ x \in DispatchWork /\ x.topic = "reminder" /\ x.of = a /\ x.rest = y.rest \ {a}
            /\ x.to = {} /\ x.left = {} /\ x.mail = {} /\ x.pc = "resolve"
        <5>1. a \in Anns /\ y.rest \ {a} \in SUBSET Anns
          BY <1>3
        <5>2. x \in DispatchWork
          BY <4>2, <5>1, ResolveForWork, ToldKeys
        <5>3. QED BY <4>2, <5>2 DEF ResolveFor
      <4>4. \A b \in y.rest : ann'[b] # NoRow
        BY <1>3, <2>4 DEF DispatchFits, Grown
      <4>5. DispatchFits(x)'
        BY <1>3, <4>3, <4>4, ToldKeys DEF DispatchFits
      <4>6. QED BY <4>1, <4>2, <4>3, <4>5 DEF Work
    <3>3. QED BY <1>5, <3>1, <3>2
  <2>8. DeliveryTypes'
    BY <1>0, <2>3, <2>5, <2>7, WorkStep DEF DeliveryTypes, StampReminder, people, hooks
  <2>9. QED BY <2>4, <2>6, <2>7, <2>8, FitsStep
<1>6. QED BY <1>1, <1>2, <1>4, <1>5

LEMMA HookTypes ==
  ASSUME DeliveryTypes, NEW r \in Reqs, NEW e \in Endpoints, UNCHANGED mode,
         HookInsert(r, e) \/ Post(r, e) \/ HookWrite(r, e) \/ AnswerLost(r, e)
  PROVE  DeliveryTypes'
<1>1. req' \in [Reqs -> Work]
  BY HookSteps DEF Quiet
<1>2. req[r].v \in Events
  <2>1. req[r] \in Work /\ req[r].pc = "fire"
    BY DEF DeliveryTypes, HookInsert, Post, HookWrite, AnswerLost, Stands, At
  <2>2. QED BY <2>1, WorkShape DEF FireWork
<1>3. PICK d \in Events \X Endpoints : d = <<req[r].v, e>>
  BY <1>2
<1>4. CASE HookInsert(r, e)
  <2>1. NewHook \in Hook
    BY DEF NewHook, Hook
  <2>2. hook' = [hook EXCEPT ![d] = NewHook] \/ hook' = hook
    BY <1>3, <1>4 DEF HookInsert
  <2>3. hook' \in [Events \X Endpoints -> Hook \cup {NoRow, Deleted}]
    BY <2>1, <2>2 DEF DeliveryTypes
  <2>4. QED BY <1>1, <1>4, <2>3 DEF HookInsert, DeliveryTypes, people
<1>5. CASE Post(r, e)
  <2>1. received' = received \cup {d} \/ received' = received
    BY <1>3, <1>5 DEF Post
  <2>2. received' \in SUBSET (Events \X Endpoints)
    BY <2>1 DEF DeliveryTypes
  <2>3. QED BY <1>1, <1>5, <2>2 DEF Post, DeliveryTypes, people
<1>6. CASE HookWrite(r, e)
  <2>1. PICK stage \in {"answered", "refused", "error"} :
          hook' = IF Exists(hook[d]) THEN [hook EXCEPT ![d] = Settled(@, stage)] ELSE hook
    BY <1>3, <1>6 DEF HookWrite
  <2>2. ASSUME Exists(hook[d]) PROVE Settled(hook[d], stage) \in Hook
    BY <2>2 DEF DeliveryTypes, Exists, Settled, Verdict, Hook
  <2>3. hook' \in [Events \X Endpoints -> Hook \cup {NoRow, Deleted}]
    BY <2>1, <2>2 DEF DeliveryTypes
  <2>4. QED BY <1>1, <1>6, <2>3 DEF HookWrite, DeliveryTypes, people
<1>7. CASE AnswerLost(r, e)
  <2>1. crashes' \in 0..MaxCrashes
    BY <1>7, DeliveryAssumption DEF AnswerLost, DeliveryTypes
  <2>2. QED BY <1>1, <1>7, <2>1 DEF AnswerLost, DeliveryTypes, people, hooks
<1>8. QED BY <1>4, <1>5, <1>6, <1>7

\* The steps of webhooks.
Webhooks(r) ==
    \/ \E v \in Events : TriggerWebhooks(r, v)
    \/ \E e \in Endpoints : HookInsert(r, e) \/ Post(r, e) \/ HookWrite(r, e) \/ AnswerLost(r, e)

\* An announcement that is not live yet.
Scheduled(r) ==
    \E u \in Users, a \in Anns, soon \in BOOLEAN : CreateAnnouncement(r, u, a, soon, FALSE)

LEMMA DeliverySteps ==
  ASSUME DeliveryTypes, DeliveryNext
  PROVE  /\ UNCHANGED mode
         /\ \/ \E r : Standing(r)
            \/ \E r \in Reqs :
                 \/ \E x \in DispatchWork : Starting(r, x)
                 \/ Scheduled(r) \/ Webhooks(r)
                 \/ Resolve(r) \/ ReadPreferences(r)
                 \/ \E u \in Users : CreateNotification(r, u)
                 \/ CreateDeliveries(r) \/ StampReminder(r) \/ DeliveryDie(r)
<1>1. UNCHANGED mode
  BY DEF DeliveryNext
<1>2. CASE \E a \in Anns : TimePasses(a)
  BY <1>1, <1>2 DEF Standing
<1>3. ASSUME NEW r \in Reqs, DeliveryBegin(r)
      PROVE  Standing(r) \/ (\E x \in DispatchWork : Starting(r, x)) \/ Scheduled(r) \/ Webhooks(r)
  <2>1. ASSUME NEW u \in Users, NEW a \in Anns, NEW soon \in BOOLEAN, NEW live \in BOOLEAN,
               CreateAnnouncement(r, u, a, soon, live)
        PROVE  (\E x \in DispatchWork : Starting(r, x)) \/ Scheduled(r)
    <3>1. CASE live
      <4>1. CreateAnnouncement(r, u, a, soon, TRUE)
        BY <2>1, <3>1
      <4>2. QED BY <4>1, StartingSteps
    <3>2. CASE ~live
      <4>1. CreateAnnouncement(r, u, a, soon, FALSE)
        BY <2>1, <3>2
      <4>2. QED BY <4>1 DEF Scheduled
    <3>3. QED BY <3>1, <3>2
  <2>2. ASSUME NEW u \in Users, NEW m \in Messages, PostMessage(r, u, m)
        PROVE  \E x \in DispatchWork : Starting(r, x)
    BY <2>2, StartingSteps
  <2>3. QED BY <1>3, <2>1, <2>2 DEF DeliveryBegin, Standing, Webhooks
<1>4. ASSUME NEW r \in Reqs, StartScan(r) PROVE \E x \in DispatchWork : Starting(r, x)
  BY <1>4, StartingSteps
<1>5. QED
  BY <1>1, <1>2, <1>3, <1>4 DEF DeliveryNext, DeliveryContinue, Webhooks

LEMMA ScheduledStep ==
  ASSUME DeliveryTypes, NEW r \in Reqs, Scheduled(r), UNCHANGED mode
  PROVE  /\ DeliveryTypes' /\ UNCHANGED req /\ Quiet
         /\ \E a \in Anns : /\ ann[a] = NoRow /\ Exists(ann[a])'
                            /\ \A b \in Anns \ {a} : ann'[b] = ann[b]
<1>1. PICK u \in Users, a \in Anns, soon \in BOOLEAN : CreateAnnouncement(r, u, a, soon, FALSE)
  BY DEF Scheduled
<1>2. PICK row \in AnnRow : row = [soon |-> soon, sent |-> FALSE]
  BY DEF AnnRow
<1>3. ann[a] = NoRow /\ ann' = [ann EXCEPT ![a] = row] /\ UNCHANGED req
  BY <1>1, <1>2 DEF CreateAnnouncement
<1>4. /\ ann' \in [Anns -> AnnRow \cup {NoRow, Deleted}]
      /\ ann'[a] = row /\ \A b \in Anns \ {a} : ann'[b] = ann[b]
  BY <1>3 DEF DeliveryTypes
<1>5. DeliveryTypes'
  BY <1>1, <1>3, <1>4 DEF CreateAnnouncement, DeliveryTypes, people, hooks
<1>6. Exists(ann[a])'
  BY <1>4, DeliveryRows DEF Exists
<1>7. Quiet
  <2>1. req' \in [Reqs -> Work] /\ \A q \in Reqs : req'[q] = req[q]
    BY <1>3 DEF DeliveryTypes
  <2>2. \A b \in Anns : ann[b] # NoRow => ann'[b] # NoRow
    BY <1>3, <1>4
  <2>3. UNCHANGED <<notes, covered, posted>>
    BY <1>1 DEF CreateAnnouncement
  <2>4. QED BY <2>1, <2>2, <2>3 DEF Quiet
<1>8. QED BY <1>3, <1>4, <1>5, <1>6, <1>7

LEMMA WebhooksStep ==
  ASSUME DeliveryTypes, NEW r \in Reqs, Webhooks(r), UNCHANGED mode
  PROVE  DeliveryTypes' /\ Quiet /\ UNCHANGED <<ann, muted, mail>>
<1>1. ASSUME NEW v \in Events, TriggerWebhooks(r, v)
      PROVE  DeliveryTypes' /\ Quiet /\ UNCHANGED <<ann, muted, mail>>
  <2>1. Quiet
    BY <1>1, TriggerStep
  <2>2. QED BY <1>1, <2>1 DEF TriggerWebhooks, Quiet, DeliveryTypes, people, hooks
<1>2. ASSUME NEW e \in Endpoints,
             HookInsert(r, e) \/ Post(r, e) \/ HookWrite(r, e) \/ AnswerLost(r, e)
      PROVE  DeliveryTypes' /\ Quiet /\ UNCHANGED <<ann, muted, mail>>
  <2>1. DeliveryTypes' /\ Quiet
    BY <1>2, HookTypes, HookSteps
  <2>2. UNCHANGED <<ann, muted, mail>>
    BY <1>2 DEF HookInsert, Post, HookWrite, AnswerLost, people
  <2>3. QED BY <2>1, <2>2
<1>3. QED BY <1>1, <1>2 DEF Webhooks

LEMMA DispatchNext == DispatchInv /\ [DeliveryNext]_deliveryVars => DispatchInv'
<1> SUFFICES ASSUME DispatchInv, [DeliveryNext]_deliveryVars PROVE DispatchInv'
  OBVIOUS
<1>0. DeliveryTypes
  BY DEF DispatchInv
<1>1. CASE UNCHANGED deliveryVars
  BY <1>1 DEF deliveryVars, people, hooks, DispatchInv, DeliveryTypes, Telling, DispatchFits, RemindedAtLeastOnce
<1>2. CASE DeliveryNext
  <2>1. UNCHANGED mode
    BY <1>0, <1>2, DeliverySteps
  <2>2. CASE \E r : Standing(r)
    BY <1>0, <2>1, <2>2, StandingStep, QuietInv
  <2>3. ASSUME NEW r \in Reqs, Scheduled(r) \/ Webhooks(r) PROVE DispatchInv'
    BY <1>0, <2>1, <2>3, ScheduledStep, WebhooksStep, QuietInv
  <2>4. ASSUME NEW r \in Reqs, NEW x \in DispatchWork, Starting(r, x) PROVE DispatchInv'
    BY <2>1, <2>4, StartingInv
  <2>5. ASSUME NEW r \in Reqs, NEW u \in Users, CreateNotification(r, u) PROVE DispatchInv'
    BY <2>1, <2>5, CreateInv
  <2>6. ASSUME NEW r \in Reqs,
               Resolve(r) \/ ReadPreferences(r) \/ CreateDeliveries(r) \/ StampReminder(r) \/ DeliveryDie(r)
        PROVE  DispatchInv'
    BY <2>1, <2>6, ResolveInv, DeliverInv, StampInv, DieInv
  <2>7. QED BY <1>0, <1>2, <2>2, <2>3, <2>4, <2>5, <2>6, DeliverySteps
<1>3. QED BY <1>1, <1>2

LEMMA DispatchInit == DeliveryInit => DispatchInv
<1> SUFFICES ASSUME DeliveryInit PROVE DispatchInv
  OBVIOUS
<1>1. DeliveryTypes
  BY DeliveryAssumption, IdleWork DEF DeliveryInit, DeliveryTypes, Notes
<1>2. \A r \in Reqs : ~Telling(r)
  BY IdleWork DEF DeliveryInit, Telling
<1>3. RemindedAtLeastOnce
  BY DEF DeliveryInit, RemindedAtLeastOnce
<1>4. QED BY <1>1, <1>2, <1>3 DEF DispatchInv

LEMMA DispatchInvariance == DeliverySpec => []DispatchInv
BY DispatchInit, DispatchNext, PTL DEF DeliverySpec

-----------------------------------------------------------------------------
\* Webhooks, however requests overlap and die.

LEMMA AtItShape ==
  ASSUME DeliveryTypes, NEW q \in Reqs, req[q].pc = "fire"
  PROVE  req[q].v \in Events /\ req[q].stage \in [Endpoints -> Stage]
<1>1. req[q] \in FireWork
  BY WorkShape DEF DeliveryTypes
<1>2. QED BY <1>1 DEF FireWork

\* The webhooks requests are at, when none of them takes a step.
LEMMA HooksFrame ==
  ASSUME HooksInv, DeliveryTypes', UNCHANGED <<mode, received>>,
         \A q \in Reqs : req'[q] = req[q] \/ (req[q].pc # "fire" /\ req'[q].pc # "fire"),
         \A d \in Events \X Endpoints : Exists(hook[d])' => hook'[d] = hook[d] /\ Exists(endpoint[d[2]])'
  PROVE  HooksInv'
<1>1. \A q \in Reqs, d \in Events \X Endpoints : AtIt(q, d)' <=> AtIt(q, d)
  BY DEF AtIt
<1>2. AnswersReceived'
  BY DEF HooksInv, AnswersReceived
<1>3. \A q, r \in Reqs : req'[q].pc = "fire" /\ req'[r].pc = "fire" /\ req'[q].v = req'[r].v => q = r
  BY DEF HooksInv
<1>4. ASSUME NEW d \in Events \X Endpoints, Exists(hook[d])'
      PROVE  /\ Exists(endpoint[d[2]])'
             /\ hook'[d].attempts \in 0..1
             /\ \A r \in Reqs : AtIt(r, d)' => hook'[d].attempts = 0
             /\ hook'[d].status = "DELIVERED" => d \in received'
             /\ ~Faults' /\ hook'[d].status = "PENDING" => \E r \in Reqs : AtIt(r, d)'
  <2>1. hook'[d] = hook[d] /\ Exists(hook[d]) /\ Faults' = Faults
    BY <1>4 DEF Exists, Faults
  <2>2. QED BY <1>1, <1>4, <2>1 DEF HooksInv
<1>5. QED BY <1>2, <1>3, <1>4 DEF HooksInv

LEMMA HooksDie ==
  ASSUME HooksInv, NEW r \in Reqs, DeliveryDie(r), UNCHANGED mode, DeliveryTypes'
  PROVE  HooksInv'
<1>1. /\ req'[r] = Idle /\ \A q \in Reqs \ {r} : req'[q] = req[q]
      /\ Faults /\ Faults' /\ UNCHANGED <<endpoint, hook, received>>
  BY IdleWork, WorkStep DEF HooksInv, DeliveryDie, Done, hooks, Faults
<1>2. Idle.pc # "fire"
  BY DEF Idle
<1>3. \A q \in Reqs, d \in Events \X Endpoints : AtIt(q, d)' => AtIt(q, d)
  BY <1>1, <1>2 DEF AtIt
<1>4. AnswersReceived'
  BY <1>1, <1>2 DEF HooksInv, AnswersReceived
<1>5. \A p, q \in Reqs : req'[p].pc = "fire" /\ req'[q].pc = "fire" /\ req'[p].v = req'[q].v => p = q
  BY <1>1, <1>2 DEF HooksInv
<1>6. QED BY <1>1, <1>3, <1>4, <1>5 DEF HooksInv, Exists

\* A request of which an answer waits to be recorded is r with that of e, or had it
\* before: it was received.
LEMMA FireAnswers ==
  ASSUME HooksInv, NEW r \in Reqs, NEW e \in Endpoints, NEW from, NEW to \in Stage,
         Stands(r, e, from), from # "end", GoOn(r, e, to),
         NEW p \in Reqs, NEW g \in Endpoints,
         req'[p].pc = "fire", req'[p].stage[g] \in {"answered", "refused"}
  PROVE  \/ req'[p].v = req[r].v /\ g = e /\ to \in {"answered", "refused"}
         \/ <<req'[p].v, g>> \in received
<1>0. DeliveryTypes /\ Idle.pc # "fire"
  BY DEF HooksInv, Idle
<1>1. PICK x \in Work :
        /\ req[r] \in FireWork /\ req[r].pc = "fire" /\ req[r].stage[e] = from
        /\ Goto(r, x)
        /\ \/ /\ x = Idle /\ to = "end"
              /\ \A f \in Endpoints \ {e} : req[r].stage[f] = "end"
           \/ /\ x \in FireWork /\ x.v = req[r].v /\ x.stage[e] = to
              /\ \A f \in Endpoints \ {e} : x.stage[f] = req[r].stage[f]
  BY <1>0, GoOnEffect
<1>2. req'[r] = x /\ \A q \in Reqs \ {r} : req'[q] = req[q]
  BY <1>0, <1>1, WorkStep
<1>3. CASE p # r
  BY <1>2, <1>3 DEF HooksInv, AnswersReceived
<1>4. CASE p = r /\ g = e
  BY <1>0, <1>1, <1>2, <1>4
<1>5. CASE p = r /\ g # e
  <2>1. req[r].stage[g] \in {"answered", "refused"} /\ req'[p].v = req[r].v
    BY <1>0, <1>1, <1>2, <1>5
  <2>2. QED BY <1>1, <2>1 DEF HooksInv, AnswersReceived
<1>6. QED BY <1>3, <1>4, <1>5

\* Request r goes on with the webhook at e.
LEMMA FireMove ==
  ASSUME HooksInv, NEW r \in Reqs, NEW e \in Endpoints, NEW from, NEW to \in Stage,
         Stands(r, e, from), from # "end", GoOn(r, e, to), NEW v, v = req[r].v
  PROVE  /\ <<v, e>> \in Events \X Endpoints /\ AtIt(r, <<v, e>>)
         /\ \A q \in Reqs, d \in (Events \X Endpoints) \ {<<v, e>>} : AtIt(q, d)' <=> AtIt(q, d)
         /\ \A q \in Reqs : AtIt(q, <<v, e>>)' <=> q = r /\ to # "end"
         /\ \A p, q \in Reqs :
              req'[p].pc = "fire" /\ req'[q].pc = "fire" /\ req'[p].v = req'[q].v => p = q
         /\ \A q \in Reqs, f \in Endpoints :
              req'[q].pc = "fire" /\ req'[q].stage[f] \in {"answered", "refused"} =>
                \/ <<req'[q].v, f>> = <<v, e>> /\ to \in {"answered", "refused"}
                \/ <<req'[q].v, f>> \in received
<1>0. DeliveryTypes /\ Idle.pc # "fire"
  BY DEF HooksInv, Idle
<1>1. PICK x \in Work :
        /\ req[r] \in FireWork /\ req[r].pc = "fire" /\ req[r].stage[e] = from
        /\ Goto(r, x)
        /\ \/ /\ x = Idle /\ to = "end"
              /\ \A f \in Endpoints \ {e} : req[r].stage[f] = "end"
           \/ /\ x \in FireWork /\ x.v = req[r].v /\ x.stage[e] = to
              /\ \A f \in Endpoints \ {e} : x.stage[f] = req[r].stage[f]
  BY <1>0, GoOnEffect
<1>2. req'[r] = x /\ \A q \in Reqs \ {r} : req'[q] = req[q]
  BY <1>0, <1>1, WorkStep
<1>3. v \in Events
  BY <1>1 DEF FireWork
<1>4. \A q \in Reqs : req[q].pc = "fire" /\ req[q].v = v => q = r
  BY <1>1, <1>3 DEF HooksInv
<1>5. x \in FireWork => x.pc = "fire"
  BY DEF FireWork
<1>6. \A q \in Reqs, d \in (Events \X Endpoints) \ {<<v, e>>} : AtIt(q, d)' <=> AtIt(q, d)
  <2> SUFFICES ASSUME NEW q \in Reqs, NEW d \in (Events \X Endpoints) \ {<<v, e>>}
               PROVE  AtIt(q, d)' <=> AtIt(q, d)
    OBVIOUS
  <2>1. CASE q # r
    BY <1>2, <2>1 DEF AtIt
  <2>2. CASE q = r /\ d[1] # v
    BY <1>0, <1>1, <1>2, <1>3, <2>2 DEF AtIt
  <2>3. CASE q = r /\ d[1] = v
    <3>1. d[2] \in Endpoints \ {e}
      BY <2>3
    <3>2. QED BY <1>0, <1>1, <1>2, <1>3, <1>5, <2>3, <3>1 DEF AtIt
  <2>4. QED BY <2>1, <2>2, <2>3
<1>7. \A q \in Reqs : AtIt(q, <<v, e>>)' <=> q = r /\ to # "end"
  <2> SUFFICES ASSUME NEW q \in Reqs PROVE AtIt(q, <<v, e>>)' <=> q = r /\ to # "end"
    OBVIOUS
  <2>1. CASE q # r
    BY <1>2, <1>4, <2>1 DEF AtIt
  <2>2. CASE q = r
    BY <1>0, <1>1, <1>2, <1>3, <1>5, <2>2 DEF AtIt
  <2>3. QED BY <2>1, <2>2
<1>8. AtIt(r, <<v, e>>)
  BY <1>1, <1>3 DEF AtIt
<1>9. \A p, q \in Reqs : req'[p].pc = "fire" /\ req'[q].pc = "fire" /\ req'[p].v = req'[q].v => p = q
  <2>1. \A q \in Reqs : req'[q].pc = "fire" => req[q].pc = "fire" /\ req'[q].v = req[q].v
    BY <1>0, <1>1, <1>2
  <2>2. QED BY <2>1 DEF HooksInv
<1>10. ASSUME NEW q \in Reqs, NEW f \in Endpoints,
              req'[q].pc = "fire", req'[q].stage[f] \in {"answered", "refused"}
       PROVE  \/ <<req'[q].v, f>> = <<v, e>> /\ to \in {"answered", "refused"}
              \/ <<req'[q].v, f>> \in received
  BY <1>10, FireAnswers
<1>11. QED BY <1>3, <1>6, <1>7, <1>8, <1>9, <1>10

LEMMA HookInsertInv ==
  ASSUME HooksInv, NEW r \in Reqs, NEW e \in Endpoints, HookInsert(r, e), UNCHANGED mode, DeliveryTypes'
  PROVE  HooksInv'
<1>0. DeliveryTypes /\ "post" \in Stage /\ "end" \in Stage /\ Faults' = Faults
  BY DEF HooksInv, Stage, Faults
<1>1. PICK v : v = req[r].v
  OBVIOUS
<1>2. CASE Exists(endpoint[e])
  <2>1. /\ Stands(r, e, "row") /\ GoOn(r, e, "post")
        /\ hook' = [hook EXCEPT ![<<v, e>>] = NewHook]
        /\ UNCHANGED <<endpoint, received>>
    BY <1>1, <1>2 DEF HookInsert
  <2>2. /\ <<v, e>> \in Events \X Endpoints
        /\ \A q \in Reqs, d \in (Events \X Endpoints) \ {<<v, e>>} : AtIt(q, d)' <=> AtIt(q, d)
        /\ AtIt(r, <<v, e>>)'
        /\ \A p, q \in Reqs :
             req'[p].pc = "fire" /\ req'[q].pc = "fire" /\ req'[p].v = req'[q].v => p = q
        /\ AnswersReceived'
    BY <1>0, <1>1, <2>1, FireMove DEF AnswersReceived
  <2>3. /\ hook'[<<v, e>>].status = "PENDING" /\ hook'[<<v, e>>].attempts = 0
        /\ \A d \in (Events \X Endpoints) \ {<<v, e>>} : hook'[d] = hook[d]
    BY <1>0, <2>1, <2>2 DEF DeliveryTypes, NewHook
  <2>4. ASSUME NEW d \in Events \X Endpoints, Exists(hook[d])'
        PROVE  /\ Exists(endpoint[d[2]])'
               /\ hook'[d].attempts \in 0..1
               /\ \A q \in Reqs : AtIt(q, d)' => hook'[d].attempts = 0
               /\ hook'[d].status = "DELIVERED" => d \in received'
               /\ ~Faults' /\ hook'[d].status = "PENDING" => \E q \in Reqs : AtIt(q, d)'
    <3>1. CASE d = <<v, e>>
      <4>1. hook'[d].status = "PENDING" /\ hook'[d].attempts = 0
        BY <2>3, <3>1
      <4>2. AtIt(r, d)'
        BY <2>2, <3>1 DEF AtIt
      <4>3. d[2] = e /\ Exists(endpoint[e])'
        BY <1>2, <2>1, <3>1 DEF Exists
      <4>4. QED BY <4>1, <4>2, <4>3
    <3>2. CASE d # <<v, e>>
      <4>1. Exists(hook[d]) /\ hook'[d] = hook[d]
        BY <2>3, <2>4, <3>2 DEF Exists
      <4>2. \A q \in Reqs : AtIt(q, d)' <=> AtIt(q, d)
        BY <2>2, <3>2
      <4>3. Exists(endpoint[d[2]])' /\ received' = received
        BY <2>1, <4>1 DEF HooksInv, Exists
      <4>4. QED BY <1>0, <4>1, <4>2, <4>3 DEF HooksInv
    <3>3. QED BY <3>1, <3>2
  <2>5. QED BY <2>2, <2>4 DEF HooksInv
<1>3. CASE ~Exists(endpoint[e])
  <2>1. /\ Stands(r, e, "row") /\ GoOn(r, e, "end")
        /\ UNCHANGED <<hook, endpoint, received>>
    BY <1>3 DEF HookInsert
  <2>2. /\ <<v, e>> \in Events \X Endpoints
        /\ \A q \in Reqs, d \in (Events \X Endpoints) \ {<<v, e>>} : AtIt(q, d)' <=> AtIt(q, d)
        /\ \A p, q \in Reqs :
             req'[p].pc = "fire" /\ req'[q].pc = "fire" /\ req'[p].v = req'[q].v => p = q
        /\ AnswersReceived'
    BY <1>0, <1>1, <2>1, FireMove DEF AnswersReceived
  <2>3. \A d \in Events \X Endpoints : Exists(hook[d]) => d # <<v, e>>
    BY <1>3 DEF HooksInv
  <2>4. QED BY <1>0, <2>1, <2>2, <2>3 DEF HooksInv, Exists
<1>4. QED BY <1>2, <1>3

LEMMA PostInv ==
  ASSUME HooksInv, NEW r \in Reqs, NEW e \in Endpoints, Post(r, e), UNCHANGED mode, DeliveryTypes'
  PROVE  HooksInv'
<1>0. DeliveryTypes /\ Faults' = Faults
  BY DEF HooksInv, Faults
<1>1. PICK v : v = req[r].v
  OBVIOUS
<1>2. PICK outcome \in {"answered", "refused", "error"}, arrives \in BOOLEAN :
        /\ outcome # "error" => arrives
        /\ received' = IF arrives THEN received \cup {<<v, e>>} ELSE received
        /\ GoOn(r, e, outcome)
  BY <1>1 DEF Post
<1>3. Stands(r, e, "post") /\ outcome \in Stage /\ outcome # "end" /\ UNCHANGED <<endpoint, hook>>
  BY DEF Post, Stage
<1>4. /\ <<v, e>> \in Events \X Endpoints
      /\ AtIt(r, <<v, e>>)
      /\ \A q \in Reqs, d \in (Events \X Endpoints) \ {<<v, e>>} : AtIt(q, d)' <=> AtIt(q, d)
      /\ \A q \in Reqs : AtIt(q, <<v, e>>)' <=> q = r
      /\ \A p, q \in Reqs :
           req'[p].pc = "fire" /\ req'[q].pc = "fire" /\ req'[p].v = req'[q].v => p = q
  BY <1>1, <1>2, <1>3, FireMove
<1>5. AnswersReceived'
  <2>1. \A q \in Reqs, f \in Endpoints :
          req'[q].pc = "fire" /\ req'[q].stage[f] \in {"answered", "refused"} =>
            \/ <<req'[q].v, f>> = <<v, e>> /\ outcome \in {"answered", "refused"}
            \/ <<req'[q].v, f>> \in received
    <3>1. Stands(r, e, "post") /\ "post" # "end" /\ GoOn(r, e, outcome) /\ outcome \in Stage
      BY <1>2, <1>3
    <3>2. ASSUME NEW q \in Reqs, NEW f \in Endpoints,
                 req'[q].pc = "fire", req'[q].stage[f] \in {"answered", "refused"}
          PROVE  \/ <<req'[q].v, f>> = <<v, e>> /\ outcome \in {"answered", "refused"}
                 \/ <<req'[q].v, f>> \in received
      BY <1>1, <3>1, <3>2, FireAnswers
    <3>3. QED BY <3>2
  <2>2. outcome \in {"answered", "refused"} => <<v, e>> \in received'
    BY <1>2
  <2>3. received \subseteq received'
    BY <1>2
  <2>4. QED BY <2>1, <2>2, <2>3 DEF AnswersReceived
<1>6. received \subseteq received'
  BY <1>2
<1>7. \A q \in Reqs, d \in Events \X Endpoints : AtIt(q, d)' => AtIt(q, d)
  BY <1>4
<1>8. \A d \in Events \X Endpoints :
        (\E q \in Reqs : AtIt(q, d)) => \E q \in Reqs : AtIt(q, d)'
  BY <1>4
<1>9. QED BY <1>0, <1>3, <1>4, <1>5, <1>6, <1>7, <1>8 DEF HooksInv, Exists

LEMMA AnswerLostInv ==
  ASSUME HooksInv, NEW r \in Reqs, NEW e \in Endpoints, AnswerLost(r, e), UNCHANGED mode, DeliveryTypes'
  PROVE  HooksInv'
<1>0. DeliveryTypes /\ Faults' = Faults /\ "error" \in Stage
  BY DEF HooksInv, Faults, Stage
<1>1. PICK v : v = req[r].v
  OBVIOUS
<1>2. PICK from : Stands(r, e, from) /\ from # "end"
  BY DEF AnswerLost
<1>3. GoOn(r, e, "error") /\ UNCHANGED <<endpoint, hook, received>>
  BY DEF AnswerLost, hooks
<1>4. /\ <<v, e>> \in Events \X Endpoints
      /\ AtIt(r, <<v, e>>)
      /\ \A q \in Reqs, d \in (Events \X Endpoints) \ {<<v, e>>} : AtIt(q, d)' <=> AtIt(q, d)
      /\ \A q \in Reqs : AtIt(q, <<v, e>>)' <=> q = r
      /\ \A p, q \in Reqs :
           req'[p].pc = "fire" /\ req'[q].pc = "fire" /\ req'[p].v = req'[q].v => p = q
      /\ AnswersReceived'
  BY <1>0, <1>1, <1>2, <1>3, FireMove DEF AnswersReceived
<1>5. \A q \in Reqs, d \in Events \X Endpoints : AtIt(q, d)' => AtIt(q, d)
  BY <1>4
<1>6. \A d \in Events \X Endpoints :
        (\E q \in Reqs : AtIt(q, d)) => \E q \in Reqs : AtIt(q, d)'
  BY <1>4
<1>7. QED BY <1>0, <1>3, <1>4, <1>5, <1>6 DEF HooksInv, Exists

LEMMA HookWriteInv ==
  ASSUME HooksInv, NEW r \in Reqs, NEW e \in Endpoints, HookWrite(r, e), UNCHANGED mode, DeliveryTypes'
  PROVE  HooksInv'
<1>0. DeliveryTypes /\ Faults' = Faults /\ "end" \in Stage
  BY DEF HooksInv, Faults, Stage
<1>1. PICK v : v = req[r].v
  OBVIOUS
<1>2. PICK stage \in {"answered", "refused", "error"} :
        /\ Stands(r, e, stage)
        /\ hook' = IF Exists(hook[<<v, e>>])
                   THEN [hook EXCEPT ![<<v, e>>] = Settled(@, stage)] ELSE hook
  BY <1>1 DEF HookWrite
<1>3. GoOn(r, e, "end") /\ stage # "end" /\ UNCHANGED <<endpoint, received>>
  BY <1>2 DEF HookWrite
<1>4. /\ <<v, e>> \in Events \X Endpoints
      /\ AtIt(r, <<v, e>>)
      /\ \A q \in Reqs, d \in (Events \X Endpoints) \ {<<v, e>>} : AtIt(q, d)' <=> AtIt(q, d)
      /\ \A q \in Reqs : ~AtIt(q, <<v, e>>)'
      /\ \A p, q \in Reqs :
           req'[p].pc = "fire" /\ req'[q].pc = "fire" /\ req'[p].v = req'[q].v => p = q
      /\ AnswersReceived'
  BY <1>0, <1>1, <1>2, <1>3, FireMove DEF AnswersReceived
<1>5. stage = "answered" => <<v, e>> \in received
  BY <1>1, <1>2 DEF HooksInv, AnswersReceived, Stands, At
<1>6. ASSUME Exists(hook[<<v, e>>])
      PROVE  /\ hook'[<<v, e>>].attempts = 1
             /\ hook'[<<v, e>>].status = IF stage = "answered" THEN "DELIVERED" ELSE "FAILED"
  <2>1. hook[<<v, e>>].attempts = 0
    BY <1>4, <1>6 DEF HooksInv
  <2>2. hook'[<<v, e>>] = Settled(hook[<<v, e>>], stage)
    BY <1>0, <1>2, <1>4, <1>6 DEF DeliveryTypes
  <2>3. QED BY <2>1, <2>2 DEF Settled, Verdict
<1>7. \A d \in (Events \X Endpoints) \ {<<v, e>>} : hook'[d] = hook[d]
  BY <1>0, <1>2, <1>4 DEF DeliveryTypes
<1>8. ASSUME NEW d \in Events \X Endpoints, Exists(hook[d])'
      PROVE  /\ Exists(endpoint[d[2]])'
             /\ hook'[d].attempts \in 0..1
             /\ \A q \in Reqs : AtIt(q, d)' => hook'[d].attempts = 0
             /\ hook'[d].status = "DELIVERED" => d \in received'
             /\ ~Faults' /\ hook'[d].status = "PENDING" => \E q \in Reqs : AtIt(q, d)'
  <2>1. CASE d = <<v, e>>
    <3>1. Exists(hook[d])
      BY <1>2, <1>8, <2>1 DEF Exists
    <3>2. Exists(endpoint[d[2]])'
      BY <1>3, <3>1 DEF HooksInv
    <3>3. QED BY <1>3, <1>4, <1>5, <1>6, <2>1, <3>1, <3>2
  <2>2. CASE d # <<v, e>>
    <3>1. Exists(hook[d])
      BY <1>7, <1>8, <2>2 DEF Exists
    <3>2. QED BY <1>0, <1>3, <1>4, <1>7, <2>2, <3>1 DEF HooksInv
  <2>3. QED BY <2>1, <2>2
<1>9. QED BY <1>4, <1>8 DEF HooksInv

LEMMA TriggerInv ==
  ASSUME HooksInv, NEW r \in Reqs, NEW v \in Events, TriggerWebhooks(r, v), UNCHANGED mode, DeliveryTypes'
  PROVE  HooksInv'
<1>0. DeliveryTypes /\ Faults' = Faults /\ UNCHANGED <<endpoint, hook, received>>
  BY DEF HooksInv, Faults, TriggerWebhooks, hooks
<1>1. PICK x \in FireWork : Goto(r, x) /\ x.v = v /\ \A e \in Endpoints : x.stage[e] \in {"row", "end"}
  BY <1>0, TriggerStep
<1>2. x.pc = "fire" /\ x \in Work /\ req[r].pc = "idle"
  BY <1>0, <1>1, TriggerStep, IdleWork DEF FireWork, Work
<1>3. req'[r] = x /\ \A q \in Reqs \ {r} : req'[q] = req[q]
  BY <1>0, <1>1, <1>2, WorkStep
<1>4. /\ \A q \in Reqs : req[q].pc = "fire" => req[q].v # v
      /\ \A e \in Endpoints : hook[v, e] = NoRow
  BY DEF TriggerWebhooks, Fired
<1>5. \A p, q \in Reqs : req'[p].pc = "fire" /\ req'[q].pc = "fire" /\ req'[p].v = req'[q].v => p = q
  <2>1. \A q \in Reqs \ {r} : req'[q].pc = "fire" => req[q].pc = "fire" /\ req'[q].v = req[q].v /\ req'[q].v # v
    BY <1>3, <1>4
  <2>2. req'[r].v = v
    BY <1>1, <1>3
  <2>3. QED BY <2>1, <2>2 DEF HooksInv
<1>6. AnswersReceived'
  BY <1>0, <1>1, <1>3 DEF HooksInv, AnswersReceived
<1>7. ASSUME NEW d \in Events \X Endpoints, Exists(hook[d])
      PROVE  \A q \in Reqs : AtIt(q, d)' <=> AtIt(q, d)
  <2>1. d[1] # v
    <3>1. d = <<d[1], d[2]>> /\ d[2] \in Endpoints
      OBVIOUS
    <3>2. QED BY <1>4, <1>7, <3>1 DEF Exists
  <2>2. QED BY <1>1, <1>2, <1>3, <2>1 DEF AtIt
<1>8. QED BY <1>0, <1>5, <1>6, <1>7 DEF HooksInv, Exists

LEMMA EndpointSteps ==
  ASSUME HooksInv, NEW r, Standing(r), UNCHANGED mode
  PROVE  HooksInv'
<1>0. DeliveryTypes /\ DeliveryTypes' /\ UNCHANGED req
  BY StandingStep DEF HooksInv
<1>1. /\ UNCHANGED received
      /\ \A d \in Events \X Endpoints : Exists(hook[d])' => hook'[d] = hook[d] /\ Exists(endpoint[d[2]])'
  <2>1. CASE UNCHANGED hooks
    BY <2>1 DEF hooks, HooksInv, Exists
  <2>2. ASSUME NEW e \in Endpoints, CreateEndpoint(r, e) \/ \E on \in BOOLEAN : UpdateEndpoint(r, e, on)
        PROVE  <1>1
    <3>1. UNCHANGED <<hook, received>>
      BY <2>2 DEF CreateEndpoint, UpdateEndpoint
    <3>2. \A f \in Endpoints : Exists(endpoint[f]) => Exists(endpoint[f])'
      <4>1. Exists(endpoint[e])'
        <5>1. endpoint'[e] \in [enabled : BOOLEAN]
          <6>1. CASE CreateEndpoint(r, e)
            BY <1>0, <6>1 DEF CreateEndpoint, DeliveryTypes
          <6>2. ASSUME NEW on \in BOOLEAN, UpdateEndpoint(r, e, on)
                PROVE  endpoint'[e] \in [enabled : BOOLEAN]
            <7>1. endpoint[e] \in [enabled : BOOLEAN]
              BY <1>0, <6>2 DEF UpdateEndpoint, DeliveryTypes, Exists
            <7>2. endpoint'[e] = [endpoint[e] EXCEPT !.enabled = on]
              BY <1>0, <6>2 DEF UpdateEndpoint, DeliveryTypes
            <7>3. QED BY <7>1, <7>2
          <6>3. QED BY <2>2, <6>1, <6>2
        <5>2. QED BY <5>1, DeliveryRows DEF Exists
      <4>2. \A f \in Endpoints \ {e} : endpoint'[f] = endpoint[f]
        BY <1>0, <2>2 DEF CreateEndpoint, UpdateEndpoint, DeliveryTypes
      <4>3. QED BY <4>1, <4>2 DEF Exists
    <3>3. QED BY <3>1, <3>2 DEF HooksInv, Exists
  <2>3. ASSUME NEW e \in Endpoints, DeleteEndpoint(r, e)
        PROVE  <1>1
    <3>1. /\ UNCHANGED received
          /\ \A f \in Endpoints \ {e} : endpoint'[f] = endpoint[f]
      BY <1>0, <2>3 DEF DeleteEndpoint, DeliveryTypes
    <3>2. \A d \in Events \X Endpoints :
            hook'[d] = IF d[2] = e /\ Exists(hook[d]) THEN Deleted ELSE hook[d]
      BY <2>3 DEF DeleteEndpoint
    <3>3. ASSUME NEW d \in Events \X Endpoints, Exists(hook[d])'
          PROVE  hook'[d] = hook[d] /\ Exists(endpoint[d[2]])'
      <4>1. d[2] # e /\ hook'[d] = hook[d]
        BY <3>2, <3>3 DEF Exists
      <4>2. Exists(hook[d]) /\ d[2] \in Endpoints
        BY <3>3, <4>1 DEF Exists
      <4>3. QED BY <3>1, <4>1, <4>2 DEF HooksInv, Exists
    <3>4. QED BY <3>1, <3>3
  <2>4. QED
    BY <2>1, <2>2, <2>3
    DEF Standing, UpdateAnnouncement, DeleteAnnouncement, TimePasses, SetPreference, UpsertIntegration
<1>2. QED BY <1>0, <1>1, HooksFrame

LEMMA DispatchSteps ==
  ASSUME HooksInv, NEW r \in Reqs, DeliveryTypes', UNCHANGED mode,
         \/ \E x \in DispatchWork : Starting(r, x)
         \/ Scheduled(r) \/ Resolve(r) \/ ReadPreferences(r)
         \/ \E u \in Users : CreateNotification(r, u)
         \/ CreateDeliveries(r) \/ StampReminder(r)
  PROVE  HooksInv'
<1>0. DeliveryTypes
  BY DEF HooksInv
<1>1. UNCHANGED <<endpoint, hook, received>>
  BY DEF Starting, Scheduled, CreateAnnouncement, Resolve, ReadPreferences, CreateNotification,
         CreateDeliveries, StampReminder, hooks
<1>2. \A q \in Reqs : req'[q] = req[q] \/ (req[q].pc # "fire" /\ req'[q].pc # "fire")
  <2>1. CASE Scheduled(r)
    BY <2>1 DEF Scheduled, CreateAnnouncement
  <2>2. ASSUME NEW x \in Work, Goto(r, x), x.pc # "fire", req[r].pc # "fire"
        PROVE  \A q \in Reqs : req'[q] = req[q] \/ (req[q].pc # "fire" /\ req'[q].pc # "fire")
    BY <1>0, <2>2, WorkStep
  <2>3. \A x \in DispatchWork : x \in Work /\ x.pc # "fire"
    BY DEF DispatchWork, Dispatching, Work
  <2>4. Idle \in Work /\ Idle.pc # "fire"
    BY IdleWork
  <2>5. CASE \E x \in DispatchWork : Starting(r, x)
    BY <2>2, <2>3, <2>4, <2>5 DEF Starting, MayStartOn
  <2>6. CASE Resolve(r)
    BY <1>0, <2>2, <2>3, <2>4, <2>6, ResolveEffect
  <2>7. CASE ReadPreferences(r)
    BY <1>0, <2>2, <2>3, <2>7, ReadEffect
  <2>8. CASE \E u \in Users : CreateNotification(r, u)
    BY <1>0, <2>2, <2>3, <2>8, CreateEffect
  <2>9. CASE CreateDeliveries(r)
    BY <1>0, <2>2, <2>3, <2>4, <2>9, DeliverEffect
  <2>10. CASE StampReminder(r)
    <3>1. req[r] \in DispatchWork /\ req[r].pc = "stamp"
      BY <1>0, <2>10, StampEffect
    <3>2. PICK x : Goto(r, x) /\ x.pc # "fire"
      <4>1. CASE Goto(r, Idle)
        BY <2>4, <4>1
      <4>2. ASSUME NEW a, Goto(r, ResolveFor("reminder", a, {}, req[r].rest \ {a}))
            PROVE  \E x : Goto(r, x) /\ x.pc # "fire"
        <5>1. ResolveFor("reminder", a, {}, req[r].rest \ {a}).pc # "fire"
          BY DEF ResolveFor
        <5>2. QED BY <4>2, <5>1
      <4>3. QED BY <1>0, <2>10, <4>1, <4>2, StampEffect
    <3>3. \A q \in Reqs \ {r} : req'[q] = req[q]
      BY <1>0, <3>2 DEF Goto, DeliveryTypes
    <3>4. req'[r] = x
      BY <1>0, <3>2 DEF Goto, DeliveryTypes
    <3>5. QED BY <3>1, <3>2, <3>3, <3>4
  <2>11. QED BY <2>1, <2>5, <2>6, <2>7, <2>8, <2>9, <2>10
<1>3. QED BY <1>0, <1>1, <1>2, HooksFrame DEF HooksInv, Exists

LEMMA HooksNext == HooksInv /\ DispatchInv /\ [DeliveryNext]_deliveryVars => HooksInv'
<1> SUFFICES ASSUME HooksInv, DispatchInv, [DeliveryNext]_deliveryVars PROVE HooksInv'
  OBVIOUS
<1>0. DeliveryTypes /\ DeliveryTypes'
  BY DispatchNext DEF DispatchInv
<1>1. CASE UNCHANGED deliveryVars
  <2>1. UNCHANGED <<mode, req, endpoint, hook, received>>
    BY <1>1 DEF deliveryVars, hooks
  <2>2. QED BY <1>0, <2>1, HooksFrame DEF HooksInv, Exists
<1>2. CASE DeliveryNext
  <2>1. UNCHANGED mode
    BY <1>0, <1>2, DeliverySteps
  <2>2. CASE \E r : Standing(r)
    BY <2>1, <2>2, EndpointSteps
  <2>3. ASSUME NEW r \in Reqs, Webhooks(r) PROVE HooksInv'
    BY <1>0, <2>1, <2>3, TriggerInv, HookInsertInv, PostInv, HookWriteInv, AnswerLostInv DEF Webhooks
  <2>4. ASSUME NEW r \in Reqs, DeliveryDie(r) PROVE HooksInv'
    BY <1>0, <2>1, <2>4, HooksDie
  <2>5. QED BY <1>0, <1>2, <2>1, <2>2, <2>3, <2>4, DeliverySteps, DispatchSteps
<1>3. QED BY <1>1, <1>2

LEMMA HooksInit == DeliveryInit => HooksInv
<1> SUFFICES ASSUME DeliveryInit PROVE HooksInv
  OBVIOUS
<1>1. \A r \in Reqs : req[r].pc # "fire"
  BY IdleWork DEF DeliveryInit, Idle
<1>2. DeliveryTypes
  BY DispatchInit DEF DispatchInv
<1>3. \A d \in Events \X Endpoints : ~Exists(hook[d])
  BY DEF DeliveryInit, Exists
<1>4. QED BY <1>1, <1>2, <1>3 DEF HooksInv, AnswersReceived

LEMMA HooksInvariance == DeliverySpec => []HooksInv
BY HooksInit, HooksNext, DispatchInvariance, PTL DEF DeliverySpec

\* However requests overlap and die, DELIVERED is written of what the endpoint
\* received, and PENDING stays behind only where a request died.
THEOREM WebhooksAreHonest == DeliverySpec => []WebhooksHonest
<1>1. HooksInv => WebhooksHonest
  BY DEF HooksInv, WebhooksHonest, AtIt
<1>2. QED BY <1>1, HooksInvariance, PTL

-----------------------------------------------------------------------------
\* The scan writes reminderSentAt and goes on to the next announcement, or ends.

LEMMA StampMove ==
  ASSUME DispatchInv, NEW r \in Reqs, StampReminder(r)
  PROVE  /\ req[r] \in DispatchWork /\ req[r].pc = "stamp" /\ req[r].topic = "reminder"
         /\ req[r].of \in Anns /\ req[r].rest \subseteq Anns
         /\ \/ ~Exists(ann[req[r].of]) /\ UNCHANGED ann
            \/ Exists(ann[req[r].of]) /\ ann' = [ann EXCEPT ![req[r].of].sent = TRUE]
         /\ \E x \in Work :
              /\ Goto(r, x) /\ x.pc # "deliver" /\ x.pc # "notify"
              /\ \/ x = Idle
                 \/ /\ Exists(ann[req[r].of])
                    /\ x \in DispatchWork /\ x.topic = "reminder" /\ x.of \in req[r].rest
                    /\ x.rest = req[r].rest \ {x.of} /\ x.to = {} /\ x.left = {} /\ x.mail = {}
<1>0. DeliveryTypes /\ Idle \in Work /\ Idle.pc = "idle"
  BY IdleWork DEF DispatchInv
<1>1. /\ req[r] \in DispatchWork /\ req[r].pc = "stamp"
      /\ \/ /\ ~Exists(ann[req[r].of]) /\ Goto(r, Idle) /\ UNCHANGED <<ann, covered>>
         \/ /\ Exists(ann[req[r].of])
            /\ ann' = [ann EXCEPT ![req[r].of].sent = TRUE]
            /\ \/ Goto(r, Idle)
               \/ \E a \in req[r].rest :
                    Goto(r, ResolveFor("reminder", a, {}, req[r].rest \ {a}))
  BY <1>0, StampEffect
<1>2. /\ DispatchFits(req[r]) /\ req[r].topic = "reminder"
      /\ req[r].of \in Anns /\ req[r].rest \subseteq Anns
  BY <1>1 DEF DispatchInv, Telling, Dispatching, DispatchFits, Targets, DispatchWork
<1>3. ASSUME NEW a \in req[r].rest
      PROVE  \E x \in DispatchWork :
               /\ x = ResolveFor("reminder", a, {}, req[r].rest \ {a})
               /\ x.pc = "resolve" /\ x.topic = "reminder" /\ x.of = a
               /\ x.rest = req[r].rest \ {a} /\ x.to = {} /\ x.left = {} /\ x.mail = {}
  <2>1. PICK x : x = ResolveFor("reminder", a, {}, req[r].rest \ {a})
    OBVIOUS
  <2>2. x \in DispatchWork
    BY <1>2, <2>1, ResolveForWork, ToldKeys
  <2>3. QED BY <2>1, <2>2 DEF ResolveFor
<1>4. QED
  <2>1. CASE Goto(r, Idle)
    BY <1>0, <1>1, <1>2, <2>1
  <2>2. CASE ~Goto(r, Idle)
    <3>1. PICK a \in req[r].rest : /\ Exists(ann[req[r].of])
                                   /\ ann' = [ann EXCEPT ![req[r].of].sent = TRUE]
                                   /\ Goto(r, ResolveFor("reminder", a, {}, req[r].rest \ {a}))
      BY <1>1, <2>2
    <3>2. QED BY <1>1, <1>2, <1>3, <3>1 DEF Work
  <2>3. QED BY <2>1, <2>2

-----------------------------------------------------------------------------
\* Unless a request dies, the rows without deliveries are those somebody is at.

CountedInv == ~Faults => RowsCounted

LEMMA UnderwayStep ==
  ASSUME DeliveryTypes, NEW r \in Reqs, NEW x \in Work, Goto(r, x), NEW k \in Told
  PROVE  Underway(k)' = IF x.pc = "deliver" /\ <<x.topic, x.of, x.now>> = k
                        THEN Underway(k) \cup {r} ELSE Underway(k) \ {r}
<1>1. req'[r] = x /\ \A q \in Reqs \ {r} : req'[q] = req[q]
  BY WorkStep
<1>2. Underway(k)' = {q \in Reqs : req'[q].pc = "deliver" /\ <<req'[q].topic, req'[q].of, req'[q].now>> = k}
  BY DEF Underway, At
<1>3. Underway(k) = {q \in Reqs : req[q].pc = "deliver" /\ <<req[q].topic, req[q].of, req[q].now>> = k}
  BY DEF Underway, At
<1>4. CASE x.pc = "deliver" /\ <<x.topic, x.of, x.now>> = k
  <2>1. \A q \in Reqs : q \in Underway(k)' <=> q \in Underway(k) \cup {r}
    BY <1>1, <1>2, <1>3, <1>4
  <2>2. QED BY <1>2, <1>3, <1>4, <2>1
<1>5. CASE ~(x.pc = "deliver" /\ <<x.topic, x.of, x.now>> = k)
  <2>1. \A q \in Reqs : q \in Underway(k)' <=> q \in Underway(k) \ {r}
    BY <1>1, <1>2, <1>3, <1>5
  <2>2. QED BY <1>2, <1>3, <1>5, <2>1
<1>6. QED BY <1>4, <1>5

LEMMA CountedFrame ==
  ASSUME RowsCounted, UNCHANGED notes, \A k \in Told : Underway(k)' = Underway(k)
  PROVE  RowsCounted'
<1>1. \A k \in Told : /\ IsFiniteSet(Underway(k)')
                      /\ notes'[k].rows = notes'[k].in_app + Cardinality(Underway(k)')
  BY DEF RowsCounted
<1>2. QED BY <1>1 DEF RowsCounted

LEMMA CountedQuiet ==
  ASSUME RowsCounted, Quiet
  PROVE  RowsCounted'
<1>1. ASSUME NEW k \in Told PROVE Underway(k)' = Underway(k)
  <2>1. \A q \in Reqs : req'[q] = req[q] \/ (req[q].pc # "deliver" /\ req'[q].pc # "deliver")
    BY DEF Quiet, Telling, Dispatching
  <2>2. QED BY <2>1 DEF Underway, At
<1>2. QED BY <1>1, CountedFrame DEF Quiet

\* A step before or after the rows are written.
LEMMA CountedMove ==
  ASSUME DeliveryTypes, RowsCounted, NEW r \in Reqs, NEW x \in Work, Goto(r, x),
         req[r].pc # "deliver", x.pc # "deliver", UNCHANGED notes
  PROVE  RowsCounted'
<1>1. ASSUME NEW k \in Told PROVE Underway(k)' = Underway(k)
  <2>1. Underway(k)' = Underway(k) \ {r}
    BY UnderwayStep
  <2>2. r \notin Underway(k)
    BY DEF Underway, At
  <2>3. QED BY <2>1, <2>2
<1>2. QED BY <1>1, CountedFrame

LEMMA CountedCreate ==
  ASSUME DispatchInv, RowsCounted, NEW r \in Reqs, NEW u \in Users, CreateNotification(r, u)
  PROVE  RowsCounted'
<1>0. DeliveryTypes
  BY DEF DispatchInv
<1>1. PICK x \in DispatchWork :
        /\ req[r] \in DispatchWork /\ req[r].pc = "notify" /\ u \in req[r].left
        /\ notes' = [notes EXCEPT ![<<req[r].topic, req[r].of, u>>].rows = @ + 1]
        /\ Goto(r, x) /\ SameNotice(x, req[r]) /\ x.pc = "deliver" /\ x.now = u
        /\ x.to = req[r].to /\ x.left = req[r].left \ {u} /\ x.mail = req[r].mail
  BY <1>0, CreateEffect
<1>2. DispatchFits(req[r])
  BY <1>1 DEF DispatchInv, Telling, Dispatching
<1>3. PICK k \in Told : k = <<x.topic, x.of, u>>
  BY <1>1, <1>2, ToldKeys DEF DispatchFits, SameNotice
<1>4. /\ \A l \in Told \ {k} : notes'[l] = notes[l]
      /\ notes'[k].rows = notes[k].rows + 1 /\ notes'[k].in_app = notes[k].in_app
  <2>1. notes' = [notes EXCEPT ![k].rows = @ + 1]
    BY <1>1, <1>3 DEF SameNotice
  <2>2. QED BY <1>0, <2>1, NotesStep
<1>5. \A l \in Told : r \notin Underway(l)
  BY <1>1 DEF Underway, At
<1>6. ASSUME NEW l \in Told
      PROVE  IsFiniteSet(Underway(l)') /\ notes'[l].rows = notes'[l].in_app + Cardinality(Underway(l)')
  <2>0. IsFiniteSet(Underway(l)) /\ notes[l].rows = notes[l].in_app + Cardinality(Underway(l))
    BY DEF RowsCounted
  <2>1. CASE l = k
    <3>1. Underway(l)' = Underway(l) \cup {r}
      BY <1>0, <1>1, <1>3, <2>1, UnderwayStep DEF Work
    <3>2. /\ IsFiniteSet(Underway(l) \cup {r})
          /\ Cardinality(Underway(l) \cup {r}) = Cardinality(Underway(l)) + 1
      BY <1>5, <2>0, FS_AddElement
    <3>3. Cardinality(Underway(l)) \in Nat /\ notes[l].in_app \in Nat
      BY <1>0, <2>0, FS_CardinalityType DEF DeliveryTypes, Notes
    <3>4. QED BY <1>4, <2>0, <2>1, <3>1, <3>2, <3>3
  <2>2. CASE l # k
    <3>1. Underway(l)' = Underway(l) \ {r}
      BY <1>0, <1>1, <1>3, <2>2, UnderwayStep DEF Work
    <3>2. Underway(l)' = Underway(l)
      BY <1>5, <3>1
    <3>3. QED BY <1>4, <2>0, <2>2, <3>2
  <2>3. QED BY <2>1, <2>2
<1>7. QED BY <1>6 DEF RowsCounted

LEMMA CountedDeliver ==
  ASSUME DispatchInv, RowsCounted, NEW r \in Reqs, CreateDeliveries(r)
  PROVE  RowsCounted'
<1>0. DeliveryTypes
  BY DEF DispatchInv
<1>1. PICK x \in Work :
        /\ req[r] \in DispatchWork /\ req[r].pc = "deliver"
        /\ notes' = [notes EXCEPT ![<<req[r].topic, req[r].of, req[r].now>>] =
                       Delivered(@, req[r].now \in req[r].mail)]
        /\ Goto(r, x)
        /\ x = Idle \/ x.pc \in {"notify", "stamp"}
  BY <1>0, DeliverEffect
<1>2. DispatchFits(req[r]) /\ x.pc # "deliver"
  BY <1>1, IdleWork DEF DispatchInv, Telling, Dispatching
<1>3. req[r].now \in Users /\ <<req[r].topic, req[r].of>> \in Targets
  BY <1>1, <1>2 DEF DispatchFits, DispatchWork
<1>4. PICK k \in Told : k = <<req[r].topic, req[r].of, req[r].now>>
  BY <1>3, ToldKeys
<1>5. /\ \A l \in Told \ {k} : notes'[l] = notes[l]
      /\ notes'[k].rows = notes[k].rows /\ notes'[k].in_app = notes[k].in_app + 1
  <2>1. (req[r].now \in req[r].mail) \in BOOLEAN
    OBVIOUS
  <2>2. notes' = [notes EXCEPT ![k] = Delivered(@, req[r].now \in req[r].mail)]
    BY <1>1, <1>4
  <2>3. QED BY <1>0, <2>1, <2>2, NotesStep
<1>6. \A l \in Told : r \in Underway(l) <=> l = k
  BY <1>1, <1>4 DEF Underway, At
<1>7. ASSUME NEW l \in Told
      PROVE  IsFiniteSet(Underway(l)') /\ notes'[l].rows = notes'[l].in_app + Cardinality(Underway(l)')
  <2>0. IsFiniteSet(Underway(l)) /\ notes[l].rows = notes[l].in_app + Cardinality(Underway(l))
    BY DEF RowsCounted
  <2>1. Underway(l)' = Underway(l) \ {r}
    BY <1>0, <1>1, <1>2, UnderwayStep
  <2>2. /\ IsFiniteSet(Underway(l) \ {r})
        /\ Cardinality(Underway(l) \ {r}) =
             IF l = k THEN Cardinality(Underway(l)) - 1 ELSE Cardinality(Underway(l))
    BY <1>6, <2>0, FS_RemoveElement
  <2>3. Cardinality(Underway(l)) \in Nat /\ notes[l].in_app \in Nat
    BY <1>0, <2>0, FS_CardinalityType DEF DeliveryTypes, Notes
  <2>4. QED BY <1>5, <2>0, <2>1, <2>2, <2>3
<1>8. QED BY <1>7 DEF RowsCounted

LEMMA CountedNext == DispatchInv /\ CountedInv /\ [DeliveryNext]_deliveryVars => CountedInv'
<1> SUFFICES ASSUME DispatchInv, CountedInv, [DeliveryNext]_deliveryVars, ~Faults' PROVE RowsCounted'
  BY DEF CountedInv
<1>0. DeliveryTypes
  BY DEF DispatchInv
<1>1. CASE UNCHANGED deliveryVars
  <2>1. UNCHANGED <<mode, req, notes>>
    BY <1>1 DEF deliveryVars
  <2>2. RowsCounted /\ \A k \in Told : Underway(k)' = Underway(k)
    BY <2>1 DEF Faults, CountedInv, Underway, At
  <2>3. QED BY <2>1, <2>2, CountedFrame
<1>2. CASE DeliveryNext
  <2>1. UNCHANGED mode
    BY <1>0, <1>2, DeliverySteps
  <2>2. RowsCounted /\ ~Faults
    BY <2>1 DEF CountedInv, Faults
  <2>3. CASE \E r : Standing(r)
    BY <1>0, <2>1, <2>2, <2>3, StandingStep, CountedQuiet
  <2>4. ASSUME NEW r \in Reqs, Scheduled(r) \/ Webhooks(r) PROVE RowsCounted'
    BY <1>0, <2>1, <2>2, <2>4, ScheduledStep, WebhooksStep, CountedQuiet
  <2>5. ASSUME NEW r \in Reqs, NEW x \in DispatchWork, Starting(r, x) PROVE RowsCounted'
    BY <1>0, <2>2, <2>5, CountedMove, IdleWork DEF Starting, MayStartOn, Work
  <2>6. ASSUME NEW r \in Reqs, Resolve(r) \/ ReadPreferences(r) PROVE RowsCounted'
    <3>1. UNCHANGED notes
      BY <2>6 DEF Resolve, ReadPreferences
    <3>2. PICK x \in Work : Goto(r, x) /\ x.pc # "deliver" /\ req[r].pc # "deliver"
      <4>1. CASE Resolve(r)
        BY <1>0, <4>1, ResolveEffect, IdleWork
      <4>2. CASE ReadPreferences(r)
        BY <1>0, <4>2, ReadEffect DEF Work
      <4>3. QED BY <2>6, <4>1, <4>2
    <3>3. QED BY <1>0, <2>2, <3>1, <3>2, CountedMove
  <2>7. ASSUME NEW r \in Reqs, NEW u \in Users, CreateNotification(r, u) PROVE RowsCounted'
    BY <2>2, <2>7, CountedCreate
  <2>8. ASSUME NEW r \in Reqs, CreateDeliveries(r) PROVE RowsCounted'
    BY <2>2, <2>8, CountedDeliver
  <2>9. ASSUME NEW r \in Reqs, StampReminder(r) PROVE RowsCounted'
    <3>1. PICK x \in Work : Goto(r, x) /\ x.pc # "deliver" /\ req[r].pc # "deliver"
      BY <2>9, StampMove
    <3>2. UNCHANGED notes
      BY <2>9 DEF StampReminder
    <3>3. QED BY <1>0, <2>2, <3>1, <3>2, CountedMove
  <2>10. ASSUME NEW r \in Reqs, DeliveryDie(r) PROVE RowsCounted'
    BY <2>2, <2>10 DEF DeliveryDie
  <2>11. QED
    BY <1>0, <1>2, <2>3, <2>4, <2>5, <2>6, <2>7, <2>8, <2>9, <2>10, DeliverySteps
<1>3. QED BY <1>1, <1>2

LEMMA CountedInit == DeliveryInit => CountedInv
<1> SUFFICES ASSUME DeliveryInit PROVE RowsCounted
  BY DEF CountedInv
<1>1. ASSUME NEW k \in Told PROVE Underway(k) = {}
  BY DEF DeliveryInit, Underway, At, Idle
<1>2. \A k \in Told : notes[k].rows = 0 /\ notes[k].in_app = 0
  BY DEF DeliveryInit
<1>3. IsFiniteSet({}) /\ Cardinality({}) = 0
  BY FS_EmptySet
<1>4. QED BY <1>1, <1>2, <1>3 DEF RowsCounted

-----------------------------------------------------------------------------
\* While requests take turns, one at most tells anybody anything.

AloneInv == ~MayOverlap => TellsAlone

LEMMA NobodyTells ==
  ASSUME ~MayOverlap, NEW r, NEW things, MayStartOn(r, things), things \cap (Anns \cup Users) # {}
  PROVE  \A q \in Reqs : ~Telling(q)
<1>1. ASSUME NEW q \in Reqs, Telling(q) PROVE AtWorkOn(q) = Anns \cup Users
  BY <1>1 DEF Telling, Dispatching, AtWorkOn
<1>2. \A q \in Reqs : AtWorkOn(q) \cap things = {}
  BY DEF MayStartOn
<1>3. QED BY <1>1, <1>2

LEMMA AloneMove ==
  ASSUME DeliveryTypes, TellsAlone, NEW r \in Reqs, NEW x \in Work, Goto(r, x),
         Telling(r) \/ \A q \in Reqs : ~Telling(q),
         UNCHANGED people,
         x.pc \in Dispatching => \A u \in x.mail : mail /\ u \notin muted
  PROVE  TellsAlone'
<1>1. req'[r] = x /\ \A q \in Reqs \ {r} : req'[q] = req[q]
  BY WorkStep
<1>2. \A q \in Reqs : Telling(q)' => q = r
  BY <1>1 DEF TellsAlone, Telling
<1>3. ASSUME Telling(r)', NEW u \in req'[r].mail PROVE mail' /\ u \notin muted'
  <2>1. x.pc \in Dispatching /\ u \in x.mail
    BY <1>1, <1>3 DEF Telling
  <2>2. UNCHANGED <<mail, muted>>
    BY DEF people
  <2>3. QED BY <2>1, <2>2
<1>4. QED BY <1>2, <1>3 DEF TellsAlone

LEMMA AloneQuiet ==
  ASSUME TellsAlone, Quiet, UNCHANGED <<mail, muted>> \/ \A q \in Reqs : ~Telling(q)
  PROVE  TellsAlone'
<1>1. ASSUME NEW q \in Reqs, Telling(q)' PROVE Telling(q) /\ req'[q] = req[q]
  BY <1>1 DEF Quiet, Telling
<1>2. \A q, r \in Reqs : Telling(q)' /\ Telling(r)' => q = r
  BY <1>1 DEF TellsAlone
<1>3. ASSUME NEW r \in Reqs, Telling(r)', NEW u \in req'[r].mail PROVE mail' /\ u \notin muted'
  BY <1>1, <1>3 DEF TellsAlone
<1>4. QED BY <1>2, <1>3 DEF TellsAlone

\* Preferences and integrations change while nobody is told.
LEMMA AloneStanding ==
  ASSUME DispatchInv, TellsAlone, ~MayOverlap, NEW r, Standing(r), UNCHANGED mode
  PROVE  TellsAlone'
<1>0. DeliveryTypes /\ Quiet
  BY StandingStep DEF DispatchInv
<1>1. CASE UNCHANGED <<mail, muted>> \/ \A q \in Reqs : ~Telling(q)
  BY <1>0, <1>1, AloneQuiet
<1>2. ASSUME NEW u \in Users, SetPreference(r, u)
      PROVE  \A q \in Reqs : ~Telling(q)
  BY <1>2, NobodyTells DEF SetPreference
<1>3. ASSUME NEW on \in BOOLEAN, UpsertIntegration(r, on), Users # {}
      PROVE  \A q \in Reqs : ~Telling(q)
  <2>1. Users \cap (Anns \cup Users) # {}
    BY <1>3
  <2>2. QED BY <1>3, <2>1, NobodyTells DEF UpsertIntegration
<1>4. CASE Users = {}
  <2>1. ASSUME NEW q \in Reqs, Telling(q)' PROVE Telling(q) /\ req'[q] = req[q] /\ req'[q].mail = {}
    <3>1. Telling(q) /\ req'[q] = req[q]
      BY <1>0, <2>1 DEF Quiet, Telling
    <3>2. req[q] \in DispatchWork
      BY <1>0, <3>1, WorkShape DEF DeliveryTypes, Telling
    <3>3. QED BY <1>4, <3>1, <3>2 DEF DispatchWork
  <2>2. QED BY <2>1 DEF TellsAlone
<1>5. QED
  <2>1. CASE \/ \E a \in Anns, soon \in BOOLEAN : UpdateAnnouncement(r, a, soon)
             \/ \E a \in Anns : DeleteAnnouncement(r, a) \/ TimePasses(a)
             \/ \E e \in Endpoints : CreateEndpoint(r, e) \/ DeleteEndpoint(r, e)
             \/ \E e \in Endpoints, on \in BOOLEAN : UpdateEndpoint(r, e, on)
    <3>1. UNCHANGED <<mail, muted>>
      BY <2>1
      DEF UpdateAnnouncement, DeleteAnnouncement, TimePasses, CreateEndpoint, DeleteEndpoint, UpdateEndpoint,
          people
    <3>2. QED BY <1>1, <3>1
  <2>2. QED BY <1>1, <1>2, <1>3, <1>4, <2>1 DEF Standing

LEMMA AloneNext == DispatchInv /\ AloneInv /\ [DeliveryNext]_deliveryVars => AloneInv'
<1> SUFFICES ASSUME DispatchInv, AloneInv, [DeliveryNext]_deliveryVars, ~MayOverlap' PROVE TellsAlone'
  BY DEF AloneInv
<1>0. DeliveryTypes
  BY DEF DispatchInv
<1>1. CASE UNCHANGED deliveryVars
  <2>1. UNCHANGED <<mode, req, mail, muted>>
    BY <1>1 DEF deliveryVars, people
  <2>2. TellsAlone
    BY <2>1 DEF AloneInv, MayOverlap
  <2>3. QED BY <2>1, <2>2 DEF TellsAlone, Telling
<1>2. CASE DeliveryNext
  <2>1. UNCHANGED mode
    BY <1>0, <1>2, DeliverySteps
  <2>2. TellsAlone /\ ~MayOverlap
    BY <2>1 DEF AloneInv, MayOverlap
  <2>3. CASE \E r : Standing(r)
    BY <2>1, <2>2, <2>3, AloneStanding
  <2>4. ASSUME NEW r \in Reqs, Scheduled(r) \/ Webhooks(r) PROVE TellsAlone'
    <3>1. CASE Scheduled(r)
      <4>1. UNCHANGED <<mail, muted>>
        BY <3>1 DEF Scheduled, CreateAnnouncement, people
      <4>2. QED BY <1>0, <2>1, <2>2, <3>1, <4>1, ScheduledStep, AloneQuiet
    <3>2. CASE Webhooks(r)
      BY <1>0, <2>1, <2>2, <3>2, WebhooksStep, AloneQuiet
    <3>3. QED BY <2>4, <3>1, <3>2
  <2>5. ASSUME NEW r \in Reqs, NEW x \in DispatchWork, Starting(r, x) PROVE TellsAlone'
    <3>1. (Anns \cup Users) \cap (Anns \cup Users) # {} /\ MayStartOn(r, Anns \cup Users)
      BY <2>5 DEF Starting
    <3>2. \A q \in Reqs : ~Telling(q)
      BY <2>2, <3>1, NobodyTells
    <3>3. x \in Work /\ Goto(r, x) /\ UNCHANGED people /\ x.mail = {}
      BY <2>5 DEF Starting, Work
    <3>4. QED BY <1>0, <2>2, <3>2, <3>3, AloneMove
  <2>6. ASSUME NEW r \in Reqs, Resolve(r) \/ ReadPreferences(r) \/ CreateDeliveries(r) \/ StampReminder(r)
                                \/ \E u \in Users : CreateNotification(r, u)
        PROVE  TellsAlone'
    <3>1. UNCHANGED people
      BY <2>6 DEF Resolve, ReadPreferences, CreateDeliveries, StampReminder, CreateNotification
    <3>2. PICK x \in Work :
            /\ Goto(r, x) /\ Telling(r)
            /\ x.pc \in Dispatching =>
                 x.mail = {} \/ x.mail = req[r].mail \/ x.mail = Reachable(req[r].to)
      <4>1. CASE Resolve(r)
        BY <1>0, <4>1, ResolveEffect, IdleWork DEF Telling, Dispatching
      <4>2. CASE ReadPreferences(r)
        BY <1>0, <4>2, ReadEffect DEF Telling, Dispatching, Work
      <4>3. CASE CreateDeliveries(r)
        BY <1>0, <4>3, DeliverEffect, IdleWork DEF Telling, Dispatching
      <4>4. CASE StampReminder(r)
        BY <4>4, StampMove, IdleWork DEF Telling, Dispatching
      <4>5. ASSUME NEW u \in Users, CreateNotification(r, u)
            PROVE  \E x \in Work :
                     /\ Goto(r, x) /\ Telling(r)
                     /\ x.pc \in Dispatching =>
                          x.mail = {} \/ x.mail = req[r].mail \/ x.mail = Reachable(req[r].to)
        BY <1>0, <4>5, CreateEffect DEF Telling, Dispatching, Work
      <4>6. QED BY <2>6, <4>1, <4>2, <4>3, <4>4, <4>5
    <3>3. \A u \in Reachable(req[r].to) \cup req[r].mail : mail /\ u \notin muted
      BY <2>2, <3>2 DEF Reachable, TellsAlone
    <3>4. x.pc \in Dispatching => \A u \in x.mail : mail /\ u \notin muted
      BY <3>2, <3>3
    <3>5. QED BY <1>0, <2>2, <3>1, <3>2, <3>4, AloneMove
  <2>7. ASSUME NEW r \in Reqs, DeliveryDie(r) PROVE TellsAlone'
    <3>1. req' = [req EXCEPT ![r] = Idle] /\ UNCHANGED <<mail, muted>>
      BY <2>7 DEF DeliveryDie, Done, Goto, people
    <3>2. \A q \in Reqs : Telling(q)' => Telling(q) /\ req'[q] = req[q]
      BY <1>0, <3>1, IdleWork DEF Telling, DeliveryTypes
    <3>3. QED BY <2>2, <3>1, <3>2 DEF TellsAlone
  <2>8. QED BY <1>0, <1>2, <2>3, <2>4, <2>5, <2>6, <2>7, DeliverySteps
<1>3. QED BY <1>1, <1>2

LEMMA AloneInit == DeliveryInit => AloneInv
<1> SUFFICES ASSUME DeliveryInit PROVE TellsAlone
  BY DEF AloneInv
<1>1. \A r \in Reqs : ~Telling(r)
  BY IdleWork DEF DeliveryInit, Telling
<1>2. QED BY <1>1 DEF TellsAlone

LEMMA AloneInvariance == DeliverySpec => []AloneInv
BY AloneInit, AloneNext, DispatchInvariance, PTL DEF DeliverySpec

\* EMAIL is attempted with the deliveries of a row, and of whom the request at it
\* found reachable.
LEMMA EmailSteps ==
  ASSUME DispatchInv, [DeliveryNext]_deliveryVars, NEW k \in Told, notes'[k].email > notes[k].email
  PROVE  \E r \in Reqs : Telling(r) /\ k[3] \in req[r].mail
<1>0. DeliveryTypes
  BY DEF DispatchInv
<1>1. ~(notes[k].email > notes[k].email)
  BY <1>0 DEF DeliveryTypes, Notes
<1>2. notes' # notes
  BY <1>1
<1>3. DeliveryNext
  BY <1>2 DEF deliveryVars
<1>4. UNCHANGED mode
  BY <1>0, <1>3, DeliverySteps
<1>5. \A r : ~Standing(r)
  BY <1>0, <1>2, <1>4, StandingStep DEF Quiet
<1>6. \A r \in Reqs : ~Scheduled(r) /\ ~Webhooks(r)
  BY <1>0, <1>2, <1>4, ScheduledStep, WebhooksStep DEF Quiet
<1>7. \A r \in Reqs : /\ \A x \in DispatchWork : ~Starting(r, x)
                      /\ ~Resolve(r) /\ ~ReadPreferences(r) /\ ~StampReminder(r) /\ ~DeliveryDie(r)
  BY <1>2 DEF Starting, Resolve, ReadPreferences, StampReminder, DeliveryDie
<1>8. ASSUME NEW r \in Reqs, NEW u \in Users, CreateNotification(r, u) PROVE FALSE
  <2>1. PICK x \in DispatchWork :
          /\ req[r] \in DispatchWork /\ req[r].pc = "notify"
          /\ notes' = [notes EXCEPT ![<<req[r].topic, req[r].of, u>>].rows = @ + 1]
    BY <1>0, <1>8, CreateEffect
  <2>2. DispatchFits(req[r])
    BY <2>1 DEF DispatchInv, Telling, Dispatching
  <2>3. PICK l \in Told : l = <<req[r].topic, req[r].of, u>>
    BY <2>2, ToldKeys DEF DispatchFits
  <2>4. notes' = [notes EXCEPT ![l].rows = @ + 1]
    BY <2>1, <2>3
  <2>5. notes'[k].email = notes[k].email
    BY <1>0, <2>4, NotesStep
  <2>6. QED BY <1>1, <2>5
<1>9. PICK r \in Reqs : CreateDeliveries(r)
  BY <1>0, <1>3, <1>5, <1>6, <1>7, <1>8, DeliverySteps
<1>10. PICK x \in Work :
         /\ req[r] \in DispatchWork /\ req[r].pc = "deliver"
         /\ notes' = [notes EXCEPT ![<<req[r].topic, req[r].of, req[r].now>>] =
                        Delivered(@, req[r].now \in req[r].mail)]
  BY <1>0, <1>9, DeliverEffect
<1>11. DispatchFits(req[r]) /\ Telling(r)
  BY <1>10 DEF DispatchInv, Telling, Dispatching
<1>12. req[r].now \in Users /\ <<req[r].topic, req[r].of>> \in Targets
  BY <1>10, <1>11 DEF DispatchFits, DispatchWork
<1>13. PICK l \in Told : l = <<req[r].topic, req[r].of, req[r].now>>
  BY <1>12, ToldKeys
<1>14. (req[r].now \in req[r].mail) \in BOOLEAN
  OBVIOUS
<1>15. notes' = [notes EXCEPT ![l] = Delivered(@, req[r].now \in req[r].mail)]
  BY <1>10, <1>13
<1>16. /\ \A j \in Told \ {l} : notes'[j] = notes[j]
       /\ notes'[l].email > notes[l].email => req[r].now \in req[r].mail
  BY <1>0, <1>14, <1>15, NotesStep
<1>17. k = l
  BY <1>1, <1>16
<1>18. notes'[l].email > notes[l].email
  BY <1>17
<1>19. QED BY <1>11, <1>13, <1>16, <1>17, <1>18

\* While requests take turns, nobody is written an EMAIL of a notification who has
\* opted out by then, nor after the integration was switched off.
THEOREM OptOutsAreRespected == DeliverySpec => OptOutsRespected
<1>1. DispatchInv /\ AloneInv /\ [DeliveryNext]_deliveryVars =>
        [~MayOverlap =>
           \A k \in Told : notes'[k].email > notes[k].email => mail /\ k[3] \notin muted]_deliveryVars
  <2> SUFFICES ASSUME DispatchInv, AloneInv, [DeliveryNext]_deliveryVars, ~MayOverlap,
                      NEW k \in Told, notes'[k].email > notes[k].email
               PROVE  mail /\ k[3] \notin muted
    OBVIOUS
  <2>1. PICK r \in Reqs : Telling(r) /\ k[3] \in req[r].mail
    BY EmailSteps
  <2>2. QED BY <2>1 DEF AloneInv, TellsAlone
<1>2. QED BY <1>1, DispatchInvariance, AloneInvariance, PTL DEF DeliverySpec, OptOutsRespected

-----------------------------------------------------------------------------
\* While requests take turns and none dies, nobody is told twice.

OnceInv == ~MayOverlap /\ ~Faults => ToldOnce

LEMMA UntoldStep ==
  ASSUME NEW topic, NEW x, <<topic, x>> \in Targets, Untold(topic, x),
         \A k \in Told : k[1] = topic /\ k[2] = x => notes'[k].rows = notes[k].rows
  PROVE  Untold(topic, x)'
<1>1. ASSUME NEW u \in Users PROVE notes'[topic, x, u].rows = 0
  <2>1. PICK k \in Told : k = <<topic, x, u>>
    BY ToldKeys
  <2>2. notes[k].rows = 0
    BY <2>1 DEF Untold
  <2>3. k[1] = topic /\ k[2] = x
    BY <2>1
  <2>4. QED BY <2>1, <2>2, <2>3
<1>2. QED BY <1>1 DEF Untold

\* The handler at work goes on with what it tells, and adds no row.
LEMMA OnceGoesOn ==
  ASSUME DispatchInv, TellsAlone, ToldOnce, NEW r \in Reqs, NEW x \in Work, Goto(r, x), Telling(r),
         UNCHANGED <<ann, posted>>, \A k \in Told : notes'[k].rows = notes[k].rows,
         \/ x = Idle /\ req[r].topic # "reminder"
         \/ /\ x \in DispatchWork /\ SameNotice(x, req[r])
            /\ x.to \ x.left = req[r].to \ req[r].left
  PROVE  ToldOnce'
<1>0. DeliveryTypes
  BY DEF DispatchInv
<1>1. req'[r] = x /\ \A q \in Reqs \ {r} : req'[q] = req[q]
  BY <1>0, WorkStep
<1>2. \A q \in Reqs : Telling(q) => q = r
  BY DEF TellsAlone
<1>3. ASSUME NEW q \in Reqs, Telling(q)'
      PROVE  q = r /\ x \in DispatchWork /\ SameNotice(x, req[r]) /\ x.to \ x.left = req[r].to \ req[r].left
  <2>1. q = r
    BY <1>1, <1>2, <1>3 DEF Telling
  <2>2. x # Idle
    BY <1>1, <1>3, <2>1, IdleWork DEF Telling
  <2>3. QED BY <2>1, <2>2
<1>4. \A k \in Told : notes'[k].rows <= 1
  BY DEF ToldOnce
<1>5. \A m \in Messages \ posted : Untold("message", m)'
  BY UntoldStep, ToldKeys DEF ToldOnce
<1>6. \A a \in Anns : ann[a] = NoRow => Untold("published", a)' /\ Untold("reminder", a)'
  BY UntoldStep, ToldKeys DEF ToldOnce
<1>7. ASSUME NEW a \in Anns, Exists(ann[a]), ~ann[a].sent
      PROVE  \/ Untold("reminder", a)'
             \/ \E q \in Reqs : Telling(q)' /\ req'[q].topic = "reminder" /\ req'[q].of = a
  <2>1. CASE Untold("reminder", a)
    BY <2>1, UntoldStep, ToldKeys
  <2>2. CASE ~Untold("reminder", a)
    <3>1. req[r].topic = "reminder" /\ req[r].of = a
      BY <1>2, <1>7, <2>2 DEF ToldOnce
    <3>2. x \in DispatchWork /\ SameNotice(x, req[r])
      BY <3>1
    <3>3. Telling(r)' /\ req'[r].topic = "reminder" /\ req'[r].of = a
      BY <1>1, <3>1, <3>2 DEF Telling, SameNotice, DispatchWork
    <3>4. QED BY <3>3
  <2>3. QED BY <2>1, <2>2
<1>8. ASSUME NEW q \in Reqs, Telling(q)'
      PROVE  /\ \A u \in Users \ (req'[q].to \ req'[q].left) :
                  notes'[req'[q].topic, req'[q].of, u].rows = 0
             /\ \A b \in req'[q].rest :
                  Untold("reminder", b)' /\ (req'[q].topic = "reminder" => b # req'[q].of)
  <2>1. /\ req'[q] = x /\ x.topic = req[r].topic /\ x.of = req[r].of /\ x.rest = req[r].rest
        /\ x.to \ x.left = req[r].to \ req[r].left
    BY <1>1, <1>3, <1>8 DEF SameNotice
  <2>2. <<x.topic, x.of>> \in Targets /\ x.rest \subseteq Anns
    <3>1. DispatchFits(req[r])
      BY DEF DispatchInv
    <3>2. x \in DispatchWork
      BY <1>3, <1>8
    <3>3. QED BY <2>1, <3>1, <3>2 DEF DispatchFits, DispatchWork
  <2>3. ASSUME NEW u \in Users \ (x.to \ x.left) PROVE notes'[x.topic, x.of, u].rows = 0
    <3>1. notes[x.topic, x.of, u].rows = 0
      <4>1. u \in Users \ (req[r].to \ req[r].left)
        BY <2>1, <2>3
      <4>2. notes[req[r].topic, req[r].of, u].rows = 0
        BY <4>1 DEF ToldOnce
      <4>3. QED BY <2>1, <4>2
    <3>2. <<x.topic, x.of, u>> \in Told
      BY <2>2, ToldKeys
    <3>3. QED BY <3>1, <3>2
  <2>4. ASSUME NEW b \in x.rest PROVE Untold("reminder", b)' /\ (x.topic = "reminder" => b # x.of)
    <3>1. Untold("reminder", b) /\ (x.topic = "reminder" => b # x.of)
      BY <2>1 DEF ToldOnce
    <3>2. QED BY <2>2, <3>1, UntoldStep, ToldKeys
  <2>5. QED BY <2>1, <2>3, <2>4
<1>9. QED BY <1>4, <1>5, <1>6, <1>7, <1>8 DEF ToldOnce

\* Nobody is told, and announcements keep what was sent of them.
LEMMA OnceQuiet ==
  ASSUME DeliveryTypes, ToldOnce, Quiet,
         \A a \in Anns : \/ AnnStep(a)
                         \/ ann[a] = NoRow
  PROVE  ToldOnce'
<1>1. ASSUME NEW q \in Reqs PROVE Telling(q)' => Telling(q) /\ req'[q] = req[q]
  BY DEF Quiet, Telling
<1>2. ASSUME NEW q \in Reqs PROVE Telling(q) => Telling(q)' /\ req'[q] = req[q]
  BY DEF Quiet, Telling
<1>3. \A topic, x : Untold(topic, x) => Untold(topic, x)'
  BY DEF Untold, Quiet
<1>4. \A m \in Messages \ posted' : Untold("message", m)'
  BY <1>3 DEF Quiet, ToldOnce
<1>5. \A a \in Anns : ann'[a] = NoRow => Untold("published", a)' /\ Untold("reminder", a)'
  BY <1>3 DEF Quiet, ToldOnce
<1>6. ASSUME NEW a \in Anns, Exists(ann[a])', ~ann'[a].sent
      PROVE  \/ Untold("reminder", a)'
             \/ \E r \in Reqs : Telling(r)' /\ req'[r].topic = "reminder" /\ req'[r].of = a
  <2>1. CASE ann[a] = NoRow
    BY <1>3, <2>1 DEF ToldOnce
  <2>2. CASE ann[a] # NoRow
    <3>1. Exists(ann[a]) /\ ~ann[a].sent
      BY <1>6, <2>2 DEF AnnStep, Exists
    <3>2. \/ Untold("reminder", a)
          \/ \E r \in Reqs : Telling(r) /\ req[r].topic = "reminder" /\ req[r].of = a
      BY <3>1 DEF ToldOnce
    <3>3. QED BY <1>2, <1>3, <3>2
  <2>3. QED BY <2>1, <2>2
<1>7. ASSUME NEW r \in Reqs, Telling(r)'
      PROVE  /\ \A u \in Users \ (req'[r].to \ req'[r].left) :
                  notes'[req'[r].topic, req'[r].of, u].rows = 0
             /\ \A b \in req'[r].rest :
                  Untold("reminder", b)' /\ (req'[r].topic = "reminder" => b # req'[r].of)
  <2>1. Telling(r) /\ req'[r] = req[r] /\ notes' = notes
    BY <1>1, <1>7 DEF Quiet
  <2>2. \A u \in Users \ (req[r].to \ req[r].left) : notes[req[r].topic, req[r].of, u].rows = 0
    BY <2>1 DEF ToldOnce
  <2>3. \A b \in req[r].rest : Untold("reminder", b)' /\ (req[r].topic = "reminder" => b # req[r].of)
    BY <1>3, <2>1 DEF ToldOnce
  <2>4. QED BY <2>1, <2>2, <2>3
<1>8. \A k \in Told : notes'[k].rows <= 1
  BY DEF Quiet, ToldOnce
<1>9. QED BY <1>4, <1>5, <1>6, <1>7, <1>8 DEF ToldOnce

LEMMA OnceCreate ==
  ASSUME DispatchInv, TellsAlone, ToldOnce, NEW r \in Reqs, NEW u \in Users, CreateNotification(r, u)
  PROVE  ToldOnce'
<1>0. DeliveryTypes /\ UNCHANGED <<ann, posted>>
  BY DEF DispatchInv, CreateNotification
<1>1. PICK x \in DispatchWork :
        /\ req[r] \in DispatchWork /\ req[r].pc = "notify" /\ u \in req[r].left
        /\ notes' = [notes EXCEPT ![<<req[r].topic, req[r].of, u>>].rows = @ + 1]
        /\ Goto(r, x) /\ SameNotice(x, req[r]) /\ x.pc = "deliver" /\ x.now = u
        /\ x.to = req[r].to /\ x.left = req[r].left \ {u} /\ x.mail = req[r].mail
  BY <1>0, CreateEffect
<1>2. Telling(r) /\ DispatchFits(req[r])
  BY <1>1 DEF DispatchInv, Telling, Dispatching
<1>3. PICK k \in Told : k = <<x.topic, x.of, u>>
  BY <1>1, <1>2, ToldKeys DEF DispatchFits, SameNotice
<1>4. (\A l \in Told \ {k} : notes'[l] = notes[l]) /\ notes'[k].rows = notes[k].rows + 1
  <2>1. notes' = [notes EXCEPT ![k].rows = @ + 1]
    BY <1>1, <1>3 DEF SameNotice
  <2>2. QED BY <1>0, <2>1, NotesStep
<1>5. /\ req'[r] = x /\ \A q \in Reqs \ {r} : req'[q] = req[q]
      /\ \A q \in Reqs : Telling(q) => q = r
  BY <1>0, <1>1, <1>2, WorkStep DEF TellsAlone, Work
<1>6. Telling(r)' /\ \A q \in Reqs : Telling(q)' => q = r
  BY <1>1, <1>5 DEF Telling, Dispatching
<1>7. notes[k].rows = 0
  <2>1. u \in Users \ (req[r].to \ req[r].left)
    BY <1>1
  <2>2. notes[req[r].topic, req[r].of, u].rows = 0
    BY <1>2, <2>1 DEF ToldOnce
  <2>3. QED BY <1>1, <1>3, <2>2 DEF SameNotice
<1>8. ASSUME NEW topic, NEW y, <<topic, y>> \in Targets, Untold(topic, y), <<topic, y>> # <<x.topic, x.of>>
      PROVE  Untold(topic, y)'
  <2>1. \A l \in Told : l[1] = topic /\ l[2] = y => notes'[l].rows = notes[l].rows
    BY <1>3, <1>4, <1>8
  <2>2. QED BY <1>8, <2>1, UntoldStep
<1>9. /\ x.topic \in {"published", "reminder"} => ann[x.of] # NoRow
      /\ x.topic = "message" => x.of \in posted
      /\ <<x.topic, x.of>> \in Targets
  BY <1>1, <1>2 DEF DispatchFits, SameNotice
<1>10. ASSUME NEW l \in Told PROVE notes'[l].rows <= 1
  <2>1. CASE l = k
    BY <1>4, <1>7, <2>1
  <2>2. CASE l # k
    BY <1>4, <2>2 DEF ToldOnce
  <2>3. QED BY <2>1, <2>2
<1>11. \A m \in Messages \ posted' : Untold("message", m)'
  BY <1>0, <1>8, <1>9, ToldKeys DEF ToldOnce
<1>12. \A a \in Anns : ann'[a] = NoRow => Untold("published", a)' /\ Untold("reminder", a)'
  BY <1>0, <1>8, <1>9, ToldKeys DEF ToldOnce
<1>13. ASSUME NEW a \in Anns, Exists(ann[a]), ~ann[a].sent
       PROVE  \/ Untold("reminder", a)'
              \/ \E q \in Reqs : Telling(q)' /\ req'[q].topic = "reminder" /\ req'[q].of = a
  <2>1. CASE x.topic = "reminder" /\ x.of = a
    BY <1>5, <1>6, <2>1
  <2>2. CASE ~(x.topic = "reminder" /\ x.of = a)
    <3>1. Untold("reminder", a)
      BY <1>1, <1>5, <1>13, <2>2 DEF ToldOnce, SameNotice
    <3>2. QED BY <1>8, <2>2, <3>1, ToldKeys
  <2>3. QED BY <2>1, <2>2
<1>14. /\ \A w \in Users \ (x.to \ x.left) : notes'[x.topic, x.of, w].rows = 0
       /\ \A b \in x.rest : Untold("reminder", b)' /\ (x.topic = "reminder" => b # x.of)
  <2>1. x.topic = req[r].topic /\ x.of = req[r].of /\ x.rest = req[r].rest /\ x.rest \subseteq Anns
    BY <1>1 DEF SameNotice, DispatchWork
  <2>2. ASSUME NEW w \in Users \ (x.to \ x.left) PROVE notes'[x.topic, x.of, w].rows = 0
    <3>1. w # u /\ w \in Users \ (req[r].to \ req[r].left)
      BY <1>1, <1>2, <2>2 DEF DispatchFits
    <3>2. PICK l \in Told : l = <<x.topic, x.of, w>>
      BY <1>9, ToldKeys
    <3>3. l # k /\ notes[l].rows = 0
      BY <1>2, <1>3, <2>1, <3>1, <3>2 DEF ToldOnce
    <3>4. QED BY <1>4, <3>2, <3>3
  <2>3. ASSUME NEW b \in x.rest PROVE Untold("reminder", b)' /\ (x.topic = "reminder" => b # x.of)
    <3>1. Untold("reminder", b) /\ (x.topic = "reminder" => b # x.of)
      BY <1>2, <2>1 DEF ToldOnce
    <3>2. QED BY <1>8, <2>1, <3>1, ToldKeys
  <2>4. QED BY <2>2, <2>3
<1>15. ASSUME NEW q \in Reqs, Telling(q)'
       PROVE  /\ \A w \in Users \ (req'[q].to \ req'[q].left) :
                   notes'[req'[q].topic, req'[q].of, w].rows = 0
              /\ \A b \in req'[q].rest :
                   Untold("reminder", b)' /\ (req'[q].topic = "reminder" => b # req'[q].of)
  BY <1>5, <1>6, <1>14, <1>15
<1>16. QED BY <1>0, <1>10, <1>11, <1>12, <1>13, <1>15 DEF ToldOnce, Exists

LEMMA OnceStarting ==
  ASSUME DispatchInv, ToldOnce, ~MayOverlap, NEW r \in Reqs, NEW x \in DispatchWork, Starting(r, x)
  PROVE  ToldOnce'
<1>0. DeliveryTypes /\ UNCHANGED notes
  BY DEF DispatchInv, Starting
<1>1. \A q \in Reqs : ~Telling(q)
  BY NobodyTells DEF Starting
<1>2. req'[r] = x /\ \A q \in Reqs \ {r} : req'[q] = req[q]
  BY <1>0, WorkStep DEF Starting, Work
<1>3. \A q \in Reqs : Telling(q)' => q = r
  BY <1>1, <1>2 DEF Telling
<1>4. \A topic, y : Untold(topic, y) => Untold(topic, y)'
  BY <1>0 DEF Untold
<1>5. x.to = {} /\ x.left = {}
  BY DEF Starting
<1>6. /\ Untold(x.topic, x.of)
      /\ \A b \in x.rest : Untold("reminder", b) /\ (x.topic = "reminder" => b # x.of)
      /\ posted \subseteq posted'
      /\ \A a \in Anns : ann'[a] = ann[a] \/ ann[a] = NoRow
  <2>1. CASE Created(x.topic, x.of) /\ x.rest = {}
    <3>1. Untold(x.topic, x.of)
      BY <2>1 DEF Created, ToldOnce
    <3>2. \A a \in Anns : ann'[a] = ann[a] \/ ann[a] = NoRow
      BY <1>0, <2>1 DEF Created, DeliveryTypes
    <3>3. QED BY <2>1, <3>1, <3>2 DEF Created
  <2>2. CASE /\ x.topic = "reminder" /\ x.of \in Anns /\ Due(x.of)
             /\ \A b \in x.rest : Due(b) /\ b # x.of
             /\ UNCHANGED <<ann, posted>>
    <3>1. \A a \in Anns : Due(a) => Untold("reminder", a)
      BY <1>1 DEF Due, ToldOnce
    <3>2. x.rest \subseteq Anns
      BY DEF DispatchWork
    <3>3. QED BY <2>2, <3>1, <3>2
  <2>3. QED BY <2>1, <2>2 DEF Starting
<1>7. ASSUME NEW q \in Reqs, Telling(q)'
      PROVE  /\ \A u \in Users \ (req'[q].to \ req'[q].left) :
                  notes'[req'[q].topic, req'[q].of, u].rows = 0
             /\ \A b \in req'[q].rest :
                  Untold("reminder", b)' /\ (req'[q].topic = "reminder" => b # req'[q].of)
  <2>1. req'[q] = x
    BY <1>2, <1>3, <1>7
  <2>2. \A u \in Users : notes'[x.topic, x.of, u].rows = 0
    BY <1>4, <1>6 DEF Untold
  <2>3. QED BY <1>4, <1>6, <2>1, <2>2
<1>8. \A a \in Anns : Exists(ann[a])' /\ ~ann'[a].sent => Untold("reminder", a)'
  <2>1. \A a \in Anns : ann[a] = NoRow => Untold("reminder", a)
    BY DEF ToldOnce
  <2>2. \A a \in Anns : Exists(ann[a]) /\ ~ann[a].sent => Untold("reminder", a)
    BY <1>1 DEF ToldOnce
  <2>3. QED BY <1>4, <1>6, <2>1, <2>2 DEF Exists
<1>9. \A a \in Anns : ann'[a] = NoRow => Untold("published", a)' /\ Untold("reminder", a)'
  <2>1. \A a \in Anns : ann'[a] = NoRow => ann[a] = NoRow
    BY <1>6
  <2>2. QED BY <1>4, <2>1 DEF ToldOnce
<1>10. \A m \in Messages \ posted' : Untold("message", m)'
  BY <1>4, <1>6 DEF ToldOnce
<1>11. QED BY <1>0, <1>7, <1>8, <1>9, <1>10 DEF ToldOnce

LEMMA OnceStamp ==
  ASSUME DispatchInv, TellsAlone, ToldOnce, NEW r \in Reqs, StampReminder(r)
  PROVE  ToldOnce'
<1>0. DeliveryTypes /\ UNCHANGED <<notes, posted>>
  BY DEF DispatchInv, StampReminder
<1>1. PICK x \in Work :
        /\ req[r] \in DispatchWork /\ req[r].pc = "stamp" /\ req[r].topic = "reminder"
        /\ req[r].of \in Anns /\ req[r].rest \subseteq Anns
        /\ \/ ~Exists(ann[req[r].of]) /\ UNCHANGED ann
           \/ Exists(ann[req[r].of]) /\ ann' = [ann EXCEPT ![req[r].of].sent = TRUE]
        /\ Goto(r, x)
        /\ \/ x = Idle
           \/ /\ Exists(ann[req[r].of])
              /\ x \in DispatchWork /\ x.topic = "reminder" /\ x.of \in req[r].rest
              /\ x.rest = req[r].rest \ {x.of} /\ x.to = {} /\ x.left = {} /\ x.mail = {}
  BY StampMove
<1>2. Telling(r) /\ DispatchFits(req[r])
  BY <1>1 DEF DispatchInv, Telling, Dispatching
<1>3. /\ req'[r] = x /\ \A q \in Reqs \ {r} : req'[q] = req[q]
      /\ \A q \in Reqs : Telling(q) => q = r
  BY <1>0, <1>1, <1>2, WorkStep DEF TellsAlone
<1>4. \A topic, y : Untold(topic, y) => Untold(topic, y)'
  BY <1>0 DEF Untold
<1>5. \A a \in Anns \ {req[r].of} : ann'[a] = ann[a]
  BY <1>0, <1>1 DEF DeliveryTypes
<1>6. \A a \in Anns : ann'[a] = NoRow => ann[a] = NoRow
  <2>1. CASE UNCHANGED ann
    BY <2>1
  <2>2. CASE Exists(ann[req[r].of]) /\ ann' = [ann EXCEPT ![req[r].of].sent = TRUE]
    <3>1. PICK row : row = [ann[req[r].of] EXCEPT !.sent = TRUE]
      OBVIOUS
    <3>2. ann[req[r].of] \in AnnRow
      BY <1>0, <1>1, <2>2 DEF DeliveryTypes, Exists
    <3>3. row \in AnnRow /\ ann'[req[r].of] = row
      BY <1>0, <1>1, <2>2, <3>1, <3>2 DEF AnnRow, DeliveryTypes
    <3>4. ann'[req[r].of] # NoRow
      BY <3>3, DeliveryRows
    <3>5. QED BY <1>5, <3>4
  <2>3. QED BY <1>1, <2>1, <2>2
<1>7. ASSUME NEW a \in Anns, Exists(ann[a])', ~ann'[a].sent
      PROVE  Untold("reminder", a)'
  <2>1. a # req[r].of
    <3>1. CASE ~Exists(ann[req[r].of]) /\ UNCHANGED ann
      BY <1>7, <3>1 DEF Exists
    <3>2. CASE Exists(ann[req[r].of]) /\ ann' = [ann EXCEPT ![req[r].of].sent = TRUE]
      <4>1. ann[req[r].of] \in AnnRow
        BY <1>0, <1>1, <3>2 DEF DeliveryTypes, Exists
      <4>2. ann'[req[r].of].sent
        BY <1>0, <1>1, <3>2, <4>1 DEF DeliveryTypes, AnnRow
      <4>3. QED BY <1>7, <4>2
    <3>3. QED BY <1>0, <1>2, <3>1, <3>2, <1>1, StampEffect
  <2>2. Exists(ann[a]) /\ ~ann[a].sent
    BY <1>5, <1>7, <2>1 DEF Exists
  <2>3. Untold("reminder", a)
    BY <1>3, <2>1, <2>2 DEF ToldOnce
  <2>4. QED BY <1>4, <2>3
<1>8. ASSUME NEW q \in Reqs, Telling(q)'
      PROVE  /\ \A u \in Users \ (req'[q].to \ req'[q].left) :
                  notes'[req'[q].topic, req'[q].of, u].rows = 0
             /\ \A b \in req'[q].rest :
                  Untold("reminder", b)' /\ (req'[q].topic = "reminder" => b # req'[q].of)
  <2>1. q = r /\ req'[q] = x
    BY <1>3, <1>8 DEF Telling
  <2>2. /\ x.topic = "reminder" /\ x.of \in req[r].rest
        /\ x.rest = req[r].rest \ {x.of}
    BY <1>1, <1>8, <2>1, IdleWork DEF Telling
  <2>3. \A b \in req[r].rest : Untold("reminder", b)
    BY <1>2 DEF ToldOnce
  <2>4. \A u \in Users : notes'[x.topic, x.of, u].rows = 0
    <3>1. PICK b : b = x.of
      OBVIOUS
    <3>2. \A u \in Users : notes'["reminder", b, u].rows = 0
      BY <1>4, <2>2, <2>3, <3>1 DEF Untold
    <3>3. QED BY <2>2, <3>1, <3>2
  <2>5. QED BY <1>4, <2>1, <2>2, <2>3, <2>4
<1>9. \A m \in Messages \ posted' : Untold("message", m)'
  BY <1>0, <1>4 DEF ToldOnce
<1>10. \A a \in Anns : ann'[a] = NoRow => Untold("published", a)' /\ Untold("reminder", a)'
  BY <1>4, <1>6 DEF ToldOnce
<1>11. QED BY <1>0, <1>7, <1>8, <1>9, <1>10 DEF ToldOnce

LEMMA OnceNext ==
  DispatchInv /\ AloneInv /\ OnceInv /\ [DeliveryNext]_deliveryVars => OnceInv'
<1> SUFFICES ASSUME DispatchInv, AloneInv, OnceInv, [DeliveryNext]_deliveryVars,
                    ~MayOverlap', ~Faults'
             PROVE  ToldOnce'
  BY DEF OnceInv
<1>0. DeliveryTypes
  BY DEF DispatchInv
<1>1. CASE UNCHANGED deliveryVars
  <2>1. UNCHANGED <<mode, req, ann, posted, notes, covered>>
    BY <1>1 DEF deliveryVars
  <2>2. ToldOnce
    BY <2>1 DEF OnceInv, MayOverlap, Faults
  <2>3. Quiet /\ \A a \in Anns : AnnStep(a)
    BY <1>0, <2>1 DEF Quiet, AnnStep, DeliveryTypes
  <2>4. QED BY <1>0, <2>2, <2>3, OnceQuiet
<1>2. CASE DeliveryNext
  <2>1. UNCHANGED mode
    BY <1>0, <1>2, DeliverySteps
  <2>2. TellsAlone /\ ToldOnce /\ ~MayOverlap /\ ~Faults
    BY <2>1 DEF AloneInv, OnceInv, MayOverlap, Faults
  <2>3. ASSUME NEW r, Standing(r) PROVE ToldOnce'
    <3>1. Quiet /\ \A a \in Anns : AnnStep(a)
      BY <1>0, <2>1, <2>3, StandingStep
    <3>2. QED BY <1>0, <2>2, <3>1, OnceQuiet
  <2>4. ASSUME NEW r \in Reqs, Scheduled(r) PROVE ToldOnce'
    <3>1. Quiet /\ \A a \in Anns : ann'[a] = ann[a] \/ ann[a] = NoRow
      BY <1>0, <2>1, <2>4, ScheduledStep
    <3>2. QED BY <1>0, <2>2, <3>1, OnceQuiet DEF AnnStep
  <2>5. ASSUME NEW r \in Reqs, Webhooks(r) PROVE ToldOnce'
    <3>1. Quiet /\ UNCHANGED ann
      BY <1>0, <2>1, <2>5, WebhooksStep
    <3>2. QED BY <1>0, <2>2, <3>1, OnceQuiet DEF AnnStep
  <2>6. ASSUME NEW r \in Reqs, NEW x \in DispatchWork, Starting(r, x) PROVE ToldOnce'
    BY <2>2, <2>6, OnceStarting
  <2>7. ASSUME NEW r \in Reqs, Resolve(r) PROVE ToldOnce'
    <3>1. PICK x \in Work :
            /\ req[r] \in DispatchWork /\ req[r].pc = "resolve" /\ Goto(r, x)
            /\ \/ x = Idle /\ req[r].topic # "reminder"
               \/ x \in DispatchWork /\ SameNotice(x, req[r]) /\ x.left = x.to
      BY <1>0, <2>7, ResolveEffect
    <3>2. Telling(r) /\ DispatchFits(req[r])
      BY <3>1 DEF DispatchInv, Telling, Dispatching
    <3>3. req[r].to = {}
      BY <3>1, <3>2 DEF DispatchFits
    <3>4. UNCHANGED <<ann, posted, notes>>
      BY <2>7 DEF Resolve
    <3>5. QED BY <2>2, <3>1, <3>2, <3>3, <3>4, OnceGoesOn
  <2>8. ASSUME NEW r \in Reqs, ReadPreferences(r) PROVE ToldOnce'
    <3>1. PICK x \in DispatchWork :
            /\ req[r].pc = "dispatch" /\ Goto(r, x) /\ SameNotice(x, req[r])
            /\ x.to = req[r].to /\ x.left = req[r].left
      BY <1>0, <2>8, ReadEffect
    <3>2. Telling(r) /\ x \in Work
      BY <3>1 DEF Telling, Dispatching, Work
    <3>3. UNCHANGED <<ann, posted, notes>>
      BY <2>8 DEF ReadPreferences
    <3>4. QED BY <2>2, <3>1, <3>2, <3>3, OnceGoesOn
  <2>9. ASSUME NEW r \in Reqs, NEW u \in Users, CreateNotification(r, u) PROVE ToldOnce'
    BY <2>2, <2>9, OnceCreate
  <2>10. ASSUME NEW r \in Reqs, CreateDeliveries(r) PROVE ToldOnce'
    <3>1. PICK x \in Work :
            /\ req[r] \in DispatchWork /\ req[r].pc = "deliver" /\ Goto(r, x)
            /\ notes' = [notes EXCEPT ![<<req[r].topic, req[r].of, req[r].now>>] =
                           Delivered(@, req[r].now \in req[r].mail)]
            /\ \/ x = Idle /\ req[r].topic # "reminder"
               \/ /\ x \in DispatchWork /\ SameNotice(x, req[r])
                  /\ x.to = req[r].to /\ x.left = req[r].left
      BY <1>0, <2>10, DeliverEffect
    <3>2. Telling(r) /\ DispatchFits(req[r])
      BY <3>1 DEF DispatchInv, Telling, Dispatching
    <3>3. req[r].now \in Users /\ <<req[r].topic, req[r].of>> \in Targets
      BY <3>1, <3>2 DEF DispatchFits, DispatchWork
    <3>4. PICK k \in Told : k = <<req[r].topic, req[r].of, req[r].now>>
      BY <3>3, ToldKeys
    <3>5. \A l \in Told : notes'[l].rows = notes[l].rows
      <4>1. (req[r].now \in req[r].mail) \in BOOLEAN
        OBVIOUS
      <4>2. notes' = [notes EXCEPT ![k] = Delivered(@, req[r].now \in req[r].mail)]
        BY <3>1, <3>4
      <4>3. QED BY <1>0, <4>1, <4>2, NotesStep
    <3>6. UNCHANGED <<ann, posted>>
      BY <2>10 DEF CreateDeliveries
    <3>7. QED BY <2>2, <3>1, <3>2, <3>5, <3>6, OnceGoesOn
  <2>11. ASSUME NEW r \in Reqs, StampReminder(r) PROVE ToldOnce'
    BY <2>2, <2>11, OnceStamp
  <2>12. ASSUME NEW r \in Reqs, DeliveryDie(r) PROVE ToldOnce'
    BY <2>2, <2>12 DEF DeliveryDie
  <2>13. QED
    BY <1>0, <1>2, <2>3, <2>4, <2>5, <2>6, <2>7, <2>8, <2>9, <2>10, <2>11, <2>12, DeliverySteps
<1>3. QED BY <1>1, <1>2

LEMMA OnceInit == DeliveryInit => OnceInv
<1> SUFFICES ASSUME DeliveryInit PROVE ToldOnce
  BY DEF OnceInv
<1>1. \A k \in Told : notes[k].rows = 0
  BY DEF DeliveryInit
<1>2. \A t, x : <<t, x>> \in Targets => Untold(t, x)
  BY <1>1, ToldKeys DEF Untold
<1>3. \A r \in Reqs : ~Telling(r)
  BY IdleWork DEF DeliveryInit, Telling
<1>4. \A k \in Told : notes[k].rows <= 1
  BY <1>1
<1>5. \A m \in Messages : Untold("message", m)
  BY <1>2, ToldKeys
<1>6. \A a \in Anns : Untold("published", a) /\ Untold("reminder", a)
  BY <1>2, ToldKeys
<1>7. QED BY <1>3, <1>4, <1>5, <1>6 DEF ToldOnce

\* The types are read off the work requests do, and deliveries are attempted once.
LEMMA DeliveryTyped == DispatchInv /\ HooksInv => DeliveryTypeOK
<1> SUFFICES ASSUME DispatchInv, HooksInv PROVE DeliveryTypeOK
  OBVIOUS
<1>1. hook \in [Events \X Endpoints -> HookRow \cup {NoRow, Deleted}]
  <2>1. hook \in [Events \X Endpoints -> Hook \cup {NoRow, Deleted}]
    BY DEF HooksInv, DeliveryTypes
  <2>2. ASSUME NEW d \in Events \X Endpoints, hook[d] \in Hook PROVE hook[d] \in HookRow
    <3>1. Exists(hook[d])
      BY <2>2, DeliveryRows DEF Exists
    <3>2. hook[d].attempts \in 0..1
      BY <3>1 DEF HooksInv
    <3>3. QED BY <2>2, <3>2 DEF Hook, HookRow
  <2>3. QED BY <2>1, <2>2
<1>2. ASSUME NEW r \in Reqs
      PROVE  \/ req[r] = Idle
             \/ req[r].pc \in {"resolve", "dispatch", "notify", "deliver", "stamp"} /\ Dispatch(req[r])
             \/ req[r].pc = "fire" /\ req[r].v \in Events /\ req[r].stage \in [Endpoints -> Stage]
  <2>1. req[r] \in Work
    BY DEF DispatchInv, DeliveryTypes
  <2>2. CASE req[r] \in DispatchWork
    <3>1. Telling(r) /\ DispatchFits(req[r])
      BY <2>2 DEF DispatchInv, Telling, DispatchWork
    <3>2. Dispatch(req[r])
      BY <2>2, <3>1 DEF DispatchFits, DispatchWork, Dispatch
    <3>3. QED BY <3>1, <3>2 DEF Telling, Dispatching
  <2>3. CASE req[r] \in FireWork
    BY <2>3 DEF FireWork
  <2>4. QED BY <2>1, <2>2, <2>3 DEF Work
<1>3. QED BY <1>1, <1>2 DEF DispatchInv, DeliveryTypes, DeliveryTypeOK

\* Reminders are repeated and never skipped; unless a request dies every notification
\* has its deliveries but for those somebody is at; and while requests take turns
\* nobody is told the same thing twice: whatever the audiences, scans and requests.
THEOREM NotificationsAreSound == DeliverySpec => []NotificationsSound
<1>1. CountedInv /\ OnceInv => NoticesWhole
  BY DEF CountedInv, OnceInv, RowsCounted, ToldOnce, NoticesWhole
<1>2. DispatchInv /\ HooksInv /\ CountedInv /\ OnceInv => NotificationsSound
  BY <1>1, DeliveryTyped DEF DispatchInv, NotificationsSound
<1>3. DeliverySpec => []CountedInv
  BY CountedInit, CountedNext, DispatchInvariance, PTL DEF DeliverySpec
<1>4. DeliverySpec => []OnceInv
  BY OnceInit, OnceNext, DispatchInvariance, AloneInvariance, PTL DEF DeliverySpec
<1>5. QED BY <1>2, <1>3, <1>4, DispatchInvariance, HooksInvariance, PTL

=============================================================================
