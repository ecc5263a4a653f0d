---------------------------- MODULE RegistryProofs ----------------------------
(***************************************************************************)
(* Proofs about Registry, for any sets of requests, ids, names and times   *)
(* and any group of kinds.                                                 *)
(***************************************************************************)
EXTENDS Registry, TLAPS

-----------------------------------------------------------------------------
\* Kinds of rows and what they refer to.

LEMMA KindFacts ==
  /\ \A k \in {"department", "room", "year", "user", "leaveType", "certificateType", "company", "period"} : Refs(k) = {}
  /\ \A k \in Kinds : Refs(k) \subseteq Kinds /\ "message" \notin Refs(k)
  /\ \A k \in Kinds : "user" \in Refs(k) <=> k = "faculty"
  /\ \A k \in Kinds : "faculty" \in Refs(k) => k \in {"subject", "entry", "session"}
  /\ {"user", "faculty"} \subseteq Kinds
  /\ Booked \cap Named = {} /\ Booked \cup Named \subseteq Kinds
  /\ "absent" \notin Kinds /\ "deleted" \notin Kinds
BY DEF Refs, Kinds, Named, Booked, Outer

LEMMA RefsOfKind ==
  /\ Refs("faculty") = {"department", "user"}
  /\ Refs("batch") = {"program", "year"}
  /\ Refs("section") = {"batch"}
  /\ Refs("session") = {"section", "subject", "faculty"}
  /\ Refs("student") = {"department", "section"}
  /\ Refs("subject") = {"program", "faculty"}
  /\ Refs("entry") = {"section", "subject", "faculty", "room"}
BY DEF Refs

LEMMA OptionalFacts ==
  /\ \A k : Optional(k) # {} => k \in {"subject", "student"}
  /\ \A k : Cascades(k) # {} => k = "message"
  /\ \A k : Optional(k) \subseteq Refs(k) \ {"user"}
  /\ Optional("student") = {"section"} /\ Optional("subject") = {"faculty"}
  /\ Cascades("message") = {"section"}
BY DEF Optional, Cascades, Refs

\* The rows of an instance are those of the kinds it follows.
LEMMA RowShape ==
  ASSUME mode \in Modes, NEW d \in AllRows
  PROVE  /\ d.kind \in mode.scope /\ d.kind \in Kinds
         /\ d = [kind |-> d.kind, key |-> d.key, on |-> d.on, refs |-> d.refs]
         /\ d.key \in Keys(d.kind) /\ d.on \in Flags(d.kind)
         /\ DOMAIN d.refs = Refs(d.kind)
         /\ d.refs = [f \in Refs(d.kind) |-> d.refs[f]]
         /\ \A f \in Refs(d.kind) : d.refs[f] \in Targets(d.kind, f, mode.scope)
<1>1. PICK k \in mode.scope : d \in Rows(k, mode.scope)
  BY DEF AllRows, RowsOf
<1>2. k \in Kinds
  BY RegistryAssumption
<1>3. PICK key \in Keys(k), on \in Flags(k),
           refs \in {g \in [Refs(k) -> UNION {Targets(k, f, mode.scope) : f \in Refs(k)}] :
                       \A f \in Refs(k) : g[f] \in Targets(k, f, mode.scope)} :
        d = [kind |-> k, key |-> key, on |-> on, refs |-> refs]
  BY <1>1 DEF Rows
<1>4. d.kind = k /\ d.key = key /\ d.on = on /\ d.refs = refs
  BY <1>3
<1>5. /\ DOMAIN refs = Refs(k) /\ refs = [f \in Refs(k) |-> refs[f]]
      /\ \A f \in Refs(k) : refs[f] \in Targets(k, f, mode.scope)
  OBVIOUS
<1>6. d \in AllRows /\ d = [kind |-> k, key |-> key, on |-> on, refs |-> refs]
  BY <1>3
<1>7. d.kind \in mode.scope /\ d.kind \in Kinds
  BY <1>2, <1>4
<1>8. d = [kind |-> d.kind, key |-> d.key, on |-> d.on, refs |-> d.refs]
  BY <1>4, <1>6
<1>9. d.key \in Keys(d.kind) /\ d.on \in Flags(d.kind)
  BY <1>4
<1>10. /\ DOMAIN d.refs = Refs(d.kind) /\ d.refs = [f \in Refs(d.kind) |-> d.refs[f]]
       /\ \A f \in Refs(d.kind) : d.refs[f] \in Targets(d.kind, f, mode.scope)
  BY <1>4, <1>5
<1>11. QED BY <1>7, <1>8, <1>9, <1>10, Zenon

LEMMA RowIn ==
  ASSUME mode \in Modes, NEW k \in mode.scope, NEW key \in Keys(k), NEW on \in Flags(k), NEW refs,
         refs = [f \in Refs(k) |-> refs[f]],
         \A f \in Refs(k) : refs[f] \in Targets(k, f, mode.scope)
  PROVE  [kind |-> k, key |-> key, on |-> on, refs |-> refs] \in AllRows
<1> DEFINE S == {g \in [Refs(k) -> UNION {Targets(k, f, mode.scope) : f \in Refs(k)}] :
                   \A f \in Refs(k) : g[f] \in Targets(k, f, mode.scope)}
<1>1. refs \in S
  <2>1. \A f \in Refs(k) : refs[f] \in UNION {Targets(k, g, mode.scope) : g \in Refs(k)}
    OBVIOUS
  <2>2. refs \in [Refs(k) -> UNION {Targets(k, f, mode.scope) : f \in Refs(k)}]
    BY <2>1
  <2>3. QED BY <2>2
<1>2. Rows(k, mode.scope) = {[kind |-> k, key |-> a, on |-> b, refs |-> g] : a \in Keys(k), b \in Flags(k), g \in S}
  BY DEF Rows
<1>3. [kind |-> k, key |-> key, on |-> on, refs |-> refs] \in Rows(k, mode.scope)
  <2> HIDE DEF S
  <2>1. QED BY <1>1, <1>2
<1>4. QED BY <1>3 DEF AllRows, RowsOf

\* References within the group are to ids, others are not.
LEMMA ScopedRef ==
  ASSUME mode \in Modes, NEW d \in AllRows, NEW f \in Refs(d.kind)
  PROVE  /\ f \in Kinds
         /\ f \in mode.scope /\ d.refs[f] # "NONE" => d.refs[f] \in Ids
         /\ d.refs[f] \in Ids => f \in mode.scope
<1>1. d.kind \in Kinds /\ d.refs[f] \in Targets(d.kind, f, mode.scope)
  BY RowShape
<1>2. f \in Kinds
  BY <1>1, KindFacts
<1>3. Given[f] \cap Ids = {} /\ "NONE" \notin Ids
  BY <1>2, RegistryAssumption
<1>4. QED BY <1>1, <1>2, <1>3 DEF Targets

LEMMA RowKinds ==
  ASSUME mode \in Modes, TypeOK, NEW x \in Ids
  PROVE  /\ Exists(x) => row[x] \in AllRows
         /\ Exists(x) \/ row[x] = NoRow \/ row[x] = Deleted
         /\ ~Exists(x) => row[x].kind \in {"absent", "deleted"}
         /\ row[x].kind = "absent" => row[x] = NoRow
         /\ row[x].kind = "deleted" => row[x] = Deleted
<1>1. \A d \in AllRows : d.kind \in Kinds
  BY RowShape
<1>2. NoRow.kind = "absent" /\ Deleted.kind = "deleted"
  BY DEF NoRow, Deleted
<1>3. row[x] \in AllRows \cup {NoRow, Deleted}
  BY DEF TypeOK
<1>4. QED BY <1>1, <1>2, <1>3, KindFacts DEF Exists

LEMMA RequestShape ==
  ASSUME NEW q \in Request
  PROVE  /\ q.pc \in {"idle", "insert", "update", "clearOthers", "delete", "insertUser", "insertRole", "deactivate"}
         /\ q.pc = "idle" <=> q = Idle
         /\ q.pc \in {"insert", "update", "insertUser", "insertRole"} => q.d \in AllRows
         /\ q.pc \in {"update", "clearOthers", "delete", "deactivate"} => q.x \in Ids
         /\ q.pc = "insertUser" => q.email \in Names
         /\ q.pc \in {"insertRole", "deactivate"} => q.u \in Ids
BY DEF Request, Idle

LEMMA ModeSame ==
  ASSUME UNCHANGED mode
  PROVE  /\ AllRows' = AllRows /\ Request' = Request
         /\ MayOverlap' = MayOverlap /\ Faults' = Faults
BY DEF AllRows, RowsOf, Request, MayOverlap, Faults

LEMMA RequestStep ==
  ASSUME TypeOK, NEW r \in Reqs, NEW y, Goto(r, y)
  PROVE  req'[r] = y /\ \A q \in Reqs \ {r} : req'[q] = req[q]
BY DEF TypeOK, Goto

-----------------------------------------------------------------------------
\* The invariant of the system as deployed.

Fixed == {"user", "session", "message"}    \* rows never updated or deleted on their own

\* Every reference of d is to a row of its kind.
Linked(d) ==
    \A f \in Refs(d.kind) \cap mode.scope :
      \/ f \in Optional(d.kind) /\ d.refs[f] = "NONE"
      \/ d.refs[f] # "NONE" /\ Is(d.refs[f], f)

\* The account that a request is to give to the member it creates.
Account(q) ==
    IF q.pc = "insertRole" THEN {q.u}
    ELSE IF q.pc = "insert" /\ q.d.kind = "faculty" THEN {q.d.refs["user"]}
    ELSE {}

\* What a request may rely on, whatever the others do: rows keep their kind until
\* they are deleted, accounts stay.
Knows(q) ==
    /\ q.pc = "insert" =>
         q.d.kind # "user" /\ (q.d.kind = "faculty" => q.d.refs["user"] \in teacher)
    /\ q.pc = "update" =>
         /\ q.d.kind \notin Fixed /\ row[q.x].kind \in {q.d.kind, "deleted"}
         /\ q.d.kind = "faculty" =>
              /\ q.d.refs["user"] \in Ids /\ Is(q.d.refs["user"], "user")
              /\ Exists(q.x) => q.d.refs["user"] = row[q.x].refs["user"]
    /\ q.pc = "clearOthers" => row[q.x].kind \in {"year", "deleted"}
    /\ q.pc \in {"insertUser", "insertRole"} => q.d.kind = "faculty" /\ q.d.refs["user"] = "NONE"
    /\ q.pc = "deactivate" => row[q.x].kind \in {"faculty", "deleted"} /\ Is(q.u, "user")
    /\ q.pc = "delete" => row[q.x].kind \notin Fixed \cup {"absent"}
    /\ \A u \in Account(q) :
         u \in Ids /\ Is(u, "user") /\ \A x \in Of("faculty") : row[x].refs["user"] # u

Accounts ==
    \A x, y \in Of("faculty") :
      /\ row[x].refs["user"] \in teacher
      /\ row[x].refs["user"] = row[y].refs["user"] => x = y

RowsSound ==
    /\ row \in [Ids -> AllRows \cup {NoRow, Deleted}]
    /\ \A x \in Ids : Exists(x) => Linked(row[x])
    /\ \A x, y \in Ids : x # y /\ Exists(x) /\ Exists(y) => ~Collides(row[x], row[y])
    /\ Accounts

Inv ==
    /\ mode \in Modes
    /\ TypeOK
    /\ RowsSound
    /\ \A q \in Reqs : Knows(req[q])
    /\ \A q, r \in Reqs : q # r => Account(req[q]) \cap Account(req[r]) = {}

\* What a step of r does to the row y: it stays, but for its flag and for optional
\* references; it goes; or it is written.
Stays(y) ==
    /\ row'[y].kind = row[y].kind
    /\ Exists(y) =>
         /\ row'[y].key = row[y].key
         /\ \A f \in Refs(row[y].kind) :
              row'[y].refs[f] = row[y].refs[f] \/ (row'[y].refs[f] = "NONE" /\ f \in Optional(row[y].kind))
Goes(r, y) ==
    /\ row'[y] = Deleted /\ Exists(y)
    /\ row[y].kind \notin {"user", "session"}
    /\ (At(r, "delete") /\ y = req[r].x) \/ Is(y, "message")
Comes(r, y) ==
    /\ row'[y].kind \in Kinds
    /\ Involves(row'[y]) \subseteq Touches(r)
    /\ \/ /\ row[y] = NoRow
          /\ row'[y].kind = "faculty" => row'[y].refs["user"] \in Account(req[r])
       \/ /\ Is(y, row'[y].kind) /\ row[y].kind \notin Fixed /\ y \in Touches(r)
          /\ row[y].kind = "faculty" => row'[y].refs["user"] = row[y].refs["user"]
Moves(r) == \A y \in Ids : Stays(y) \/ Goes(r, y) \/ Comes(r, y)

LEMMA CollidesBack ==
  ASSUME mode \in Modes, TypeOK, NEW x \in Ids, NEW y \in Ids, Exists(x), Exists(y), Stays(x), Stays(y)
  PROVE  Collides(row'[x], row'[y]) => Collides(row[x], row[y])
<1>1. row[x] \in AllRows /\ row[y] \in AllRows /\ row[x].kind \in Kinds /\ row[y].kind \in Kinds
  BY RowKinds, RowShape
<1>2. ASSUME NEW z \in {x, y}, row[z].kind \in {"batch", "section"}
      PROVE  \A f \in Refs(row[z].kind) : row'[z].refs[f] = row[z].refs[f]
  BY <1>2, OptionalFacts DEF Stays
<1>3. row[x].kind = "batch" => "program" \in Refs(row[x].kind)
  BY RefsOfKind
<1>4. row[x].kind = "section" => "batch" \in Refs(row[x].kind)
  BY RefsOfKind
<1>5. row'[x].kind = row[x].kind /\ row'[y].kind = row[y].kind /\ row'[x].key = row[x].key /\ row'[y].key = row[y].key
  BY DEF Stays
<1>6. ASSUME row[x].kind = row[y].kind PROVE SameOwner(row'[x], row'[y]) => SameOwner(row[x], row[y])
  BY <1>2, <1>3, <1>4, <1>5, <1>6 DEF SameOwner
<1>7. QED BY <1>5, <1>6 DEF Collides

\* An account is the member's as long as the member is there.
LEMMA UserKept ==
  ASSUME mode \in Modes, NEW y \in Ids, Is(y, "faculty"), Stays(y)
  PROVE  row'[y].refs["user"] = row[y].refs["user"] /\ row'[y].kind = "faculty"
<1>1. Exists(y) /\ "user" \in Refs("faculty") /\ "user" \notin Optional("faculty")
  BY KindFacts, OptionalFacts DEF Is, Exists
<1>2. QED BY <1>1 DEF Stays, Is

\* Rows that keep their kind keep their references good.
LEMMA LinksKept ==
  ASSUME mode \in Modes, UNCHANGED mode, NEW d, Linked(d),
         \A f \in Refs(d.kind) \cap mode.scope : d.refs[f] = "NONE" \/ (Is(d.refs[f], f) => Is(d.refs[f], f)')
  PROVE  Linked(d)'
BY DEF Linked

LEMMA PutStep ==
  ASSUME Inv, NEW r \in Reqs, NEW x \in Ids, NEW d \in AllRows,
         row' = [row EXCEPT ![x] = d], UNCHANGED <<mode, teacher>>,
         NoCollision(d, x), Linked(d), Involves(d) \subseteq Touches(r),
         d.kind = "faculty" => d.refs["user"] \in teacher,
         \/ row[x] = NoRow /\ (d.kind = "faculty" => d.refs["user"] \in Account(req[r]))
         \/ /\ Is(x, d.kind) /\ d.kind \notin Fixed /\ x \in Touches(r)
            /\ d.kind = "faculty" => d.refs["user"] = row[x].refs["user"]
  PROVE  RowsSound' /\ Moves(r)
<1>1. /\ row'[x] = d /\ \A y \in Ids \ {x} : row'[y] = row[y]
      /\ row \in [Ids -> AllRows \cup {NoRow, Deleted}] /\ mode \in Modes /\ AllRows' = AllRows
  BY ModeSame DEF Inv, TypeOK
<1>2. d.kind \in Kinds /\ DOMAIN d.refs = Refs(d.kind)
  BY <1>1, RowShape
<1>3. NoRow.kind \notin Kinds
  BY KindFacts DEF NoRow
<1>4. Moves(r)
  BY <1>1, <1>2 DEF Moves, Stays, Comes, Is
<1>5. \A y \in Ids : Exists(y) => row'[y].kind = row[y].kind
  BY <1>1, <1>3 DEF Exists, Is
<1>6. (row \in [Ids -> AllRows \cup {NoRow, Deleted}])'
  BY <1>1
<1>7. ASSUME NEW y \in Ids, Exists(y)' PROVE Linked(row[y])'
  <2>1. Linked(row'[y]) /\ row'[y] \in AllRows
    <3>1. CASE y = x
      BY <1>1, <3>1
    <3>2. CASE y # x
      BY <1>1, <1>7, <3>2, RowKinds DEF Exists, Inv, RowsSound
    <3>3. QED BY <3>1, <3>2
  <2>2. ASSUME NEW f \in Refs(row'[y].kind) \cap mode.scope, row'[y].refs[f] # "NONE" PROVE row'[row'[y].refs[f]].kind = f
    <3>1. f \in Kinds /\ row'[y].refs[f] \in Ids
      BY <1>1, <2>1, <2>2, ScopedRef
    <3>2. Is(row'[y].refs[f], f)
      BY <2>1, <2>2 DEF Linked
    <3>3. QED BY <1>5, <3>1, <3>2 DEF Is, Exists
  <2>3. mode' = mode
    OBVIOUS
  <2>4. QED BY <2>1, <2>2, <2>3 DEF Linked, Is
<1>8. ASSUME NEW y \in Ids, NEW z \in Ids, y # z, Exists(y)', Exists(z)' PROVE ~Collides(row[y], row[z])'
  <2>1. \A a, b : Collides(a, b) <=> Collides(b, a)
    BY DEF Collides, SameOwner
  <2>2. Collides(row[y], row[z])' <=> Collides(row'[y], row'[z])
    BY DEF Collides, SameOwner
  <2>3. CASE y # x /\ z # x
    BY <1>1, <1>8, <2>2, <2>3 DEF Inv, RowsSound, Exists
  <2>4. CASE y = x
    BY <1>1, <1>8, <2>1, <2>2, <2>4 DEF NoCollision, Exists
  <2>5. CASE z = x
    BY <1>1, <1>8, <2>2, <2>5 DEF NoCollision, Exists
  <2>6. QED BY <2>3, <2>4, <2>5
<1>9. Accounts'
  <2>1. SUFFICES ASSUME NEW y \in Ids, NEW z \in Ids, row'[y].kind = "faculty", row'[z].kind = "faculty"
                 PROVE  /\ row'[y].refs["user"] \in teacher
                        /\ row'[y].refs["user"] = row'[z].refs["user"] => y = z
    BY DEF Accounts, Of, Is
  <2>2. \A v \in Ids \ {x} : row'[v].kind = "faculty" => v \in Of("faculty") /\ row'[v].refs["user"] = row[v].refs["user"]
    BY <1>1 DEF Of, Is
  <2>3. d.kind = "faculty" => \A v \in Of("faculty") \ {x} : row[v].refs["user"] # d.refs["user"]
    <3>1. CASE row[x] = NoRow /\ (d.kind = "faculty" => d.refs["user"] \in Account(req[r]))
      <4>1. Knows(req[r])
        BY DEF Inv
      <4>2. QED BY <3>1, <4>1 DEF Knows
    <3>2. CASE Is(x, d.kind) /\ (d.kind = "faculty" => d.refs["user"] = row[x].refs["user"])
      BY <3>2 DEF Inv, RowsSound, Accounts, Of, Is
    <3>3. QED BY <3>1, <3>2
  <2>4. QED BY <1>1, <2>1, <2>2, <2>3 DEF Inv, RowsSound, Accounts
<1>10. QED BY <1>4, <1>6, <1>7, <1>8, <1>9 DEF RowsSound

\* What a row becomes when the row x, which it refers to, is deleted.
LEMMA UnlinkedRow ==
  ASSUME mode \in Modes, NEW x \in Ids, NEW d \in AllRows,
         \A f \in Refs(d.kind) : d.refs[f] = x => f \in Optional(d.kind)
  PROVE  /\ Unlinked(d, x) \in AllRows
         /\ Unlinked(d, x).kind = d.kind /\ Unlinked(d, x).key = d.key
         /\ \A f \in Refs(d.kind) : Unlinked(d, x).refs[f] = IF d.refs[f] = x THEN "NONE" ELSE d.refs[f]
<1> DEFINE g == [f \in Refs(d.kind) |-> IF d.refs[f] = x THEN "NONE" ELSE d.refs[f]]
<1>1. /\ d.kind \in mode.scope /\ d.key \in Keys(d.kind) /\ d.on \in Flags(d.kind)
      /\ d = [kind |-> d.kind, key |-> d.key, on |-> d.on, refs |-> d.refs]
      /\ DOMAIN d.refs = Refs(d.kind)
      /\ \A f \in Refs(d.kind) : d.refs[f] \in Targets(d.kind, f, mode.scope)
  BY RowShape
<1>2. Unlinked(d, x) = [d EXCEPT !.refs = g]
  BY <1>1 DEF Unlinked
<1>3. Unlinked(d, x) = [kind |-> d.kind, key |-> d.key, on |-> d.on, refs |-> g]
  <2> HIDE DEF g
  <2>1. QED BY <1>1, <1>2
<1>4. /\ \A f \in Refs(d.kind) : g[f] = IF d.refs[f] = x THEN "NONE" ELSE d.refs[f]
      /\ g = [f \in Refs(d.kind) |-> g[f]]
  OBVIOUS
<1> HIDE DEF g
<1>5. \A f \in Refs(d.kind) : g[f] \in Targets(d.kind, f, mode.scope)
  BY <1>1, <1>4 DEF Targets
<1>6. [kind |-> d.kind, key |-> d.key, on |-> d.on, refs |-> g] \in AllRows
  BY <1>1, <1>4, <1>5, RowIn
<1>7. QED BY <1>3, <1>4, <1>6

LEMMA DropStep ==
  ASSUME Inv, NEW r \in Reqs, NEW x \in Ids, Exists(x), ~Held(x), row[x].kind \notin Fixed, At(r, "delete"), x = req[r].x,
         UNCHANGED <<mode, teacher>>,
         row' = [y \in Ids |-> IF y = x \/ GoesAlong(y, x) THEN Deleted
                               ELSE IF RefersTo(y, x) THEN Unlinked(row[y], x) ELSE row[y]]
  PROVE  RowsSound' /\ Moves(r) /\ \A y \in Ids : Stays(y) \/ Goes(r, y)
<1>1. mode \in Modes /\ TypeOK /\ row \in [Ids -> AllRows \cup {NoRow, Deleted}] /\ AllRows' = AllRows
  BY ModeSame DEF Inv, TypeOK
<1>2. Deleted.kind \notin Kinds
  BY KindFacts DEF Deleted
<1>3. ASSUME NEW y \in Ids, GoesAlong(y, x) PROVE Is(y, "message") /\ Goes(r, y)
  <2>1. Is(y, "message")
    BY <1>3, OptionalFacts DEF GoesAlong, Is
  <2>2. QED BY <1>3, <2>1 DEF Goes, GoesAlong, Is
<1>4. Goes(r, x)
  BY DEF Goes, Fixed
<1>5. ASSUME NEW y \in Ids, y # x, ~GoesAlong(y, x), RefersTo(y, x)
      PROVE  /\ row'[y] \in AllRows /\ Stays(y)
             /\ \A f \in Refs(row[y].kind) : row'[y].refs[f] = IF row[y].refs[f] = x THEN "NONE" ELSE row[y].refs[f]
  <2>1. Exists(y) /\ row[y] \in AllRows /\ row'[y] = Unlinked(row[y], x)
    BY <1>1, <1>5, RowKinds DEF RefersTo
  <2>2. \A f \in Refs(row[y].kind) : row[y].refs[f] = x => f \in Optional(row[y].kind)
    BY <1>5, <2>1 DEF Held, GoesAlong
  <2>3. QED BY <1>1, <2>1, <2>2, UnlinkedRow DEF Stays
<1>6. ASSUME NEW y \in Ids, y # x, ~GoesAlong(y, x), ~RefersTo(y, x)
      PROVE  row'[y] = row[y] /\ Stays(y)
  BY <1>6 DEF Stays
<1>7. Moves(r) /\ \A y \in Ids : Stays(y) \/ Goes(r, y)
  BY <1>3, <1>4, <1>5, <1>6 DEF Moves
<1>8. \A y \in Ids : Exists(y)' => Stays(y) /\ Exists(y) /\ y # x /\ ~GoesAlong(y, x)
  <2>1. \A y \in Ids : y = x \/ GoesAlong(y, x) => row'[y] = Deleted
    OBVIOUS
  <2>2. QED BY <1>2, <1>5, <1>6, <2>1 DEF Exists, Stays
<1>9. (row \in [Ids -> AllRows \cup {NoRow, Deleted}])'
  <2>1. \A y \in Ids : row'[y] \in AllRows \cup {NoRow, Deleted}
    <3>1. SUFFICES ASSUME NEW y \in Ids PROVE row'[y] \in AllRows \cup {NoRow, Deleted}
      OBVIOUS
    <3>2. CASE y = x \/ GoesAlong(y, x)
      BY <3>2
    <3>3. CASE y # x /\ ~GoesAlong(y, x)
      BY <1>1, <1>5, <1>6, <3>3
    <3>4. QED BY <3>2, <3>3
  <2>2. QED BY <1>1, <2>1
<1>10. ASSUME NEW y \in Ids, Exists(y)' PROVE Linked(row[y])'
  <2>1. Stays(y) /\ Exists(y) /\ y # x /\ ~GoesAlong(y, x) /\ Linked(row[y]) /\ row[y] \in AllRows
    BY <1>1, <1>8, <1>10, RowKinds DEF Inv, RowsSound
  <2>2. row'[y].kind = row[y].kind
    BY <2>1 DEF Stays
  <2>3. ASSUME NEW f \in Refs(row[y].kind) \cap mode.scope
        PROVE  \/ f \in Optional(row[y].kind) /\ row'[y].refs[f] = "NONE"
               \/ row'[y].refs[f] # "NONE" /\ row'[row'[y].refs[f]].kind = f
    <3>1. CASE row'[y].refs[f] # row[y].refs[f]
      BY <2>1, <2>3, <3>1 DEF Stays
    <3>2. CASE row'[y].refs[f] = row[y].refs[f] /\ row[y].refs[f] = "NONE"
      BY <2>1, <2>3, <3>2 DEF Linked
    <3>3. CASE row'[y].refs[f] = row[y].refs[f] /\ row[y].refs[f] # "NONE"
      <4> DEFINE z == row[y].refs[f]
      <4>1. z \in Ids /\ f \in Kinds /\ f # "message" /\ row[z].kind = f
        <5>1. z \in Ids /\ f \in Kinds
          BY <1>1, <2>1, <2>3, <3>3, ScopedRef
        <5>2. f # "message"
          BY <2>1, <2>3, KindFacts DEF Exists
        <5>3. row[z].kind = f
          BY <2>1, <2>3, <3>3 DEF Linked, Is
        <5>4. QED BY <5>1, <5>2, <5>3
      <4>2. z # x
        <5>1. SUFFICES ASSUME z = x PROVE FALSE
          OBVIOUS
        <5>2. RefersTo(y, x)
          BY <2>1, <2>3, <5>1 DEF RefersTo
        <5>3. row'[y].refs[f] = "NONE"
          BY <1>5, <2>1, <2>3, <5>1, <5>2
        <5>4. QED BY <3>3, <5>3
      <4>3. ~GoesAlong(z, x)
        BY <1>3, <4>1 DEF Is
      <4>4. row'[z].kind = f
        BY <1>5, <1>6, <4>1, <4>2, <4>3 DEF Stays
      <4>5. QED BY <3>3, <4>4
    <3>4. QED BY <3>1, <3>2, <3>3
  <2>4. mode' = mode
    OBVIOUS
  <2>5. QED BY <2>2, <2>3, <2>4 DEF Linked, Is
<1>11. ASSUME NEW y \in Ids, NEW z \in Ids, y # z, Exists(y)', Exists(z)' PROVE ~Collides(row[y], row[z])'
  <2>1. Collides(row[y], row[z])' <=> Collides(row'[y], row'[z])
    BY DEF Collides, SameOwner
  <2>2. QED BY <1>1, <1>8, <1>11, <2>1, CollidesBack DEF Inv, RowsSound
<1>12. Accounts'
  <2>1. \A y \in Ids : row'[y].kind = "faculty" => y \in Of("faculty") /\ row'[y].refs["user"] = row[y].refs["user"]
    BY <1>1, <1>8, UserKept, KindFacts DEF Of, Is, Stays, Exists
  <2>2. QED BY <2>1 DEF Accounts, Of, Is, Inv, RowsSound
<1>13. QED BY <1>7, <1>9, <1>10, <1>11, <1>12 DEF RowsSound

LEMMA FlagRow ==
  ASSUME mode \in Modes, NEW d \in AllRows, NEW b \in Flags(d.kind)
  PROVE  /\ [d EXCEPT !.on = b] \in AllRows
         /\ [d EXCEPT !.on = b].kind = d.kind /\ [d EXCEPT !.on = b].key = d.key
         /\ [d EXCEPT !.on = b].refs = d.refs
<1>1. PICK k, key, g : k = d.kind /\ key = d.key /\ g = d.refs
  OBVIOUS
<1>2. /\ d = [kind |-> k, key |-> key, on |-> d.on, refs |-> g]
      /\ k \in mode.scope /\ key \in Keys(k) /\ b \in Flags(k)
      /\ g = [f \in Refs(k) |-> g[f]]
      /\ \A f \in Refs(k) : g[f] \in Targets(k, f, mode.scope)
  BY <1>1, RowShape
<1>3. [d EXCEPT !.on = b] = [kind |-> k, key |-> key, on |-> b, refs |-> g]
  BY <1>2
<1>4. [kind |-> k, key |-> key, on |-> b, refs |-> g] \in AllRows
  BY <1>2, RowIn
<1>5. QED BY <1>1, <1>3, <1>4

\* A flag is cleared, or nothing is written.
LEMMA FlagStep ==
  ASSUME Inv, NEW r \in Reqs, UNCHANGED mode, teacher \subseteq teacher',
         row' = [y \in Ids |-> row'[y]],
         \A y \in Ids : \/ row'[y] = row[y]
                        \/ row[y].kind \in {"year", "user"} /\ row'[y] = [row[y] EXCEPT !.on = FALSE]
  PROVE  RowsSound' /\ Moves(r) /\ \A y \in Ids : Stays(y)
<1>1. mode \in Modes /\ TypeOK /\ row \in [Ids -> AllRows \cup {NoRow, Deleted}] /\ AllRows' = AllRows
  BY ModeSame DEF Inv, TypeOK
<1>2. ASSUME NEW y \in Ids
      PROVE  /\ row'[y].kind = row[y].kind /\ row'[y] \in AllRows \cup {NoRow, Deleted}
             /\ Exists(y) => row'[y].key = row[y].key /\ row'[y].refs = row[y].refs
  <2>1. CASE row'[y] = row[y]
    BY <1>1, <2>1
  <2>2. CASE row[y].kind \in {"year", "user"} /\ row'[y] = [row[y] EXCEPT !.on = FALSE]
    <3>1. row[y].kind \in Kinds /\ FALSE \in Flags(row[y].kind)
      BY <2>2 DEF Kinds, Named, Flags
    <3>2. row[y] \in AllRows
      BY <1>1, <3>1, RowKinds DEF Exists
    <3>3. PICK b \in Flags(row[y].kind) : row'[y] = [row[y] EXCEPT !.on = b]
      BY <2>2, <3>1
    <3>4. PICK d \in AllRows : d = row[y]
      BY <3>2
    <3>5. /\ [d EXCEPT !.on = b] \in AllRows
          /\ [d EXCEPT !.on = b].kind = d.kind /\ [d EXCEPT !.on = b].key = d.key
          /\ [d EXCEPT !.on = b].refs = d.refs
      BY <1>1, <3>3, <3>4, FlagRow
    <3>6. row'[y] = [d EXCEPT !.on = b]
      BY <3>3, <3>4
    <3>7. QED BY <3>4, <3>5, <3>6
  <2>3. QED BY <2>1, <2>2
<1>3. \A y \in Ids : Stays(y)
  BY <1>2 DEF Stays
<1>4. (row \in [Ids -> AllRows \cup {NoRow, Deleted}])'
  BY <1>1, <1>2
<1>5. ASSUME NEW y \in Ids, Exists(y)' PROVE Linked(row[y])'
  <2>1. Exists(y) /\ Linked(row[y]) /\ row[y] \in AllRows /\ row'[y].kind = row[y].kind /\ row'[y].refs = row[y].refs
    BY <1>1, <1>2, <1>5, RowKinds DEF Inv, RowsSound, Exists
  <2>2. \A f \in Refs(row[y].kind) \cap mode.scope : row[y].refs[f] # "NONE" => row[y].refs[f] \in Ids
    BY <1>1, <2>1, ScopedRef
  <2>3. QED BY <1>2, <2>1, <2>2 DEF Linked, Is
<1>6. ASSUME NEW y \in Ids, NEW z \in Ids, y # z, Exists(y)', Exists(z)' PROVE ~Collides(row[y], row[z])'
  <2>1. Collides(row[y], row[z])' <=> Collides(row'[y], row'[z])
    BY DEF Collides, SameOwner
  <2>2. Exists(y) /\ Exists(z)
    BY <1>2, <1>6 DEF Exists
  <2>3. QED BY <1>1, <1>3, <1>6, <2>1, <2>2, CollidesBack DEF Inv, RowsSound
<1>7. Accounts'
  <2>1. \A y \in Ids : row'[y].kind = "faculty" => y \in Of("faculty") /\ row'[y].refs["user"] = row[y].refs["user"]
    BY <1>1, <1>3, UserKept DEF Of, Is, Stays
  <2>2. QED BY <2>1 DEF Accounts, Of, Is, Inv, RowsSound
<1>8. QED BY <1>3, <1>4, <1>5, <1>6, <1>7 DEF RowsSound, Moves

LEMMA KindKept ==
  ASSUME mode \in Modes, TypeOK, NEW r \in Reqs, Moves(r), NEW y \in Ids, row[y].kind # "absent"
  PROVE  \/ row'[y].kind = row[y].kind
         \/ row'[y] = Deleted /\ row'[y].kind = "deleted" /\ row[y].kind \notin {"user", "session"}
<1>1. NoRow.kind = "absent" /\ Deleted.kind = "deleted"
  BY DEF NoRow, Deleted
<1>2. QED BY <1>1 DEF Moves, Stays, Goes, Comes, Is

\* Members keep their account, and new ones get that of the request.
LEMMA MembersKept ==
  ASSUME mode \in Modes, TypeOK, NEW r \in Reqs, Moves(r), NEW y \in Ids, row'[y].kind = "faculty"
  PROVE  \/ Is(y, "faculty") /\ row'[y].refs["user"] = row[y].refs["user"]
         \/ row[y] = NoRow /\ row'[y].refs["user"] \in Account(req[r])
<1>1. Deleted.kind = "deleted"
  BY DEF Deleted
<1>2. CASE Stays(y)
  BY <1>2, UserKept DEF Stays, Is
<1>3. CASE Goes(r, y)
  BY <1>1, <1>3 DEF Goes
<1>4. CASE Comes(r, y)
  BY <1>4 DEF Comes, Is
<1>5. QED BY <1>2, <1>3, <1>4 DEF Moves

LEMMA KnowsKept ==
  ASSUME Inv, NEW r \in Reqs, NEW s \in Reqs, s # r, req'[s] = req[s], UNCHANGED mode, teacher \subseteq teacher', Moves(r)
  PROVE  Knows(req[s])'
<1>1. mode \in Modes /\ TypeOK /\ Knows(req[s]) /\ req[s] \in Request /\ Account(req[s]) \cap Account(req[r]) = {}
  BY DEF Inv, TypeOK
<1>2. PICK q : q = req[s]
  OBVIOUS
<1>3. Knows(req[s])' <=> Knows(q)'
  BY <1>2 DEF Knows, Account
<1>4. /\ q.pc \in {"update", "clearOthers", "delete", "deactivate"} => q.x \in Ids
      /\ q.pc \in {"insertRole", "deactivate"} => q.u \in Ids
      /\ q.pc \in {"insert", "update"} => q.d.kind \in Kinds
  BY <1>1, <1>2, RequestShape, RowShape
<1>5. Knows(q)
  BY <1>1, <1>2
<1>6. ASSUME q.pc = "update"
      PROVE  /\ q.d.kind \notin Fixed /\ row'[q.x].kind \in {q.d.kind, "deleted"}
             /\ q.d.kind = "faculty" =>
                  /\ q.d.refs["user"] \in Ids /\ row'[q.d.refs["user"]].kind = "user"
                  /\ row'[q.x].kind \in Kinds => q.d.refs["user"] = row'[q.x].refs["user"]
  <2>1. /\ q.d.kind \notin Fixed /\ row[q.x].kind \in {q.d.kind, "deleted"}
        /\ q.d.kind = "faculty" =>
             /\ q.d.refs["user"] \in Ids /\ row[q.d.refs["user"]].kind = "user"
             /\ Exists(q.x) => q.d.refs["user"] = row[q.x].refs["user"]
    BY <1>5, <1>6 DEF Knows, Is
  <2>2. row[q.x].kind # "absent" /\ "deleted" \notin Kinds
    BY <1>4, <1>6, <2>1, KindFacts
  <2>3. row'[q.x].kind \in {row[q.x].kind, "deleted"}
    BY <1>1, <1>4, <1>6, <2>2, KindKept
  <2>4. q.d.kind = "faculty" => row'[q.d.refs["user"]].kind = "user"
    BY <1>1, <2>1, KindKept
  <2>5. q.d.kind = "faculty" /\ row'[q.x].kind \in Kinds => q.d.refs["user"] = row'[q.x].refs["user"]
    <3>1. SUFFICES ASSUME q.d.kind = "faculty", row'[q.x].kind \in Kinds PROVE q.d.refs["user"] = row'[q.x].refs["user"]
      OBVIOUS
    <3>2. row[q.x].kind = "faculty" /\ row'[q.x].kind = "faculty" /\ row[q.x] # NoRow
      BY <2>1, <2>2, <2>3, <3>1 DEF NoRow
    <3>3. row'[q.x].refs["user"] = row[q.x].refs["user"]
      BY <1>1, <1>4, <1>6, <3>2, MembersKept
    <3>4. QED BY <1>4, <2>1, <3>1, <3>2, <3>3 DEF Exists
  <2>6. QED BY <2>1, <2>3, <2>4, <2>5
<1>7. q.pc = "clearOthers" => row'[q.x].kind \in {"year", "deleted"}
  BY <1>1, <1>4, <1>5, KindKept DEF Knows
<1>8. q.pc = "deactivate" => row'[q.x].kind \in {"faculty", "deleted"} /\ row'[q.u].kind = "user"
  BY <1>1, <1>4, <1>5, KindKept DEF Knows, Is
<1>9. q.pc = "delete" => row'[q.x].kind \notin Fixed \cup {"absent"}
  BY <1>1, <1>4, <1>5, KindKept DEF Knows, Fixed
<1>10. ASSUME NEW u \in Account(q)
       PROVE  u \in Ids /\ row'[u].kind = "user" /\ \A x \in Ids : row'[x].kind = "faculty" => row'[x].refs["user"] # u
  <2>1. u \in Ids /\ row[u].kind = "user" /\ \A x \in Of("faculty") : row[x].refs["user"] # u
    BY <1>5, <1>10 DEF Knows, Is
  <2>2. row'[u].kind = "user"
    BY <1>1, <2>1, KindKept
  <2>3. u \notin Account(req[r])
    BY <1>1, <1>2, <1>10
  <2>4. QED BY <1>1, <2>1, <2>2, <2>3, MembersKept DEF Of
<1>11. Knows(q)'
  BY <1>5, <1>6, <1>7, <1>8, <1>9, <1>10 DEF Knows, Is, Of, Exists, Account
<1>12. QED BY <1>3, <1>11

\* A step of r that keeps the rows sound keeps the invariant if r still knows what
\* it goes on with.
LEMMA StepInv ==
  ASSUME Inv, NEW r \in Reqs, NEW y, Goto(r, y), UNCHANGED mode,
         teacher \subseteq teacher', teacher' \subseteq Ids,
         RowsSound', Moves(r), y \in Request, Knows(y)',
         \A u \in Account(y) : u \in Account(req[r]) \/ row[u] = NoRow
  PROVE  Inv' /\ Moves(r)
<1>1. /\ mode \in Modes /\ TypeOK /\ Request' = Request /\ AllRows' = AllRows
      /\ req'[r] = y /\ \A q \in Reqs \ {r} : req'[q] = req[q]
  BY RequestStep, ModeSame DEF Inv
<1>2. TypeOK'
  BY <1>1 DEF TypeOK, Goto, RowsSound
<1>3. ASSUME NEW s \in Reqs PROVE Knows(req[s])'
  <2>1. CASE s # r
    BY <1>1, <2>1, KnowsKept
  <2>2. CASE s = r
    <3>1. Knows(req[r])' <=> Knows(y)'
      BY <1>1 DEF Knows, Account
    <3>2. QED BY <2>2, <3>1
  <2>3. QED BY <2>1, <2>2
<1>4. ASSUME NEW s \in Reqs, s # r PROVE Account(y) \cap Account(req[s]) = {}
  <2>1. \A u \in Account(req[s]) : row[u].kind = "user"
    BY DEF Inv, Knows, Is
  <2>2. NoRow.kind # "user"
    BY DEF NoRow
  <2>3. Account(req[r]) \cap Account(req[s]) = {}
    BY <1>4 DEF Inv
  <2>4. QED BY <2>1, <2>2, <2>3
<1>5. ASSUME NEW q \in Reqs, NEW s \in Reqs, q # s PROVE Account(req'[q]) \cap Account(req'[s]) = {}
  BY <1>1, <1>4, <1>5 DEF Inv
<1>6. (\A q, s \in Reqs : q # s => Account(req[q]) \cap Account(req[s]) = {})'
  BY <1>5 DEF Account
<1>7. QED BY <1>1, <1>2, <1>3, <1>6 DEF Inv

-----------------------------------------------------------------------------
\* The steps.

\* The row of a member with this account.
LEMMA WithUser ==
  ASSUME mode \in Modes, NEW d \in AllRows, d.kind = "faculty", NEW u \in Ids \cup Given["user"] \cup {"NONE"},
         u \in Targets("faculty", "user", mode.scope)
  PROVE  /\ [d EXCEPT !.refs["user"] = u] \in AllRows
         /\ [d EXCEPT !.refs["user"] = u].kind = "faculty" /\ [d EXCEPT !.refs["user"] = u].key = d.key
         /\ [d EXCEPT !.refs["user"] = u].refs["user"] = u
         /\ [d EXCEPT !.refs["user"] = u].refs["department"] = d.refs["department"]
<1> DEFINE g == [d.refs EXCEPT !["user"] = u]
<1>1. /\ "faculty" \in mode.scope /\ d.key \in Keys("faculty") /\ d.on \in Flags("faculty")
      /\ d = [kind |-> "faculty", key |-> d.key, on |-> d.on, refs |-> d.refs]
      /\ DOMAIN d.refs = {"department", "user"}
      /\ d.refs = [f \in {"department", "user"} |-> d.refs[f]]
      /\ d.refs["department"] \in Targets("faculty", "department", mode.scope)
  <2>1. /\ d.kind \in mode.scope /\ d.key \in Keys(d.kind) /\ d.on \in Flags(d.kind)
        /\ d = [kind |-> d.kind, key |-> d.key, on |-> d.on, refs |-> d.refs]
    BY RowShape
  <2>2. /\ DOMAIN d.refs = Refs(d.kind) /\ d.refs = [f \in Refs(d.kind) |-> d.refs[f]]
        /\ \A f \in Refs(d.kind) : d.refs[f] \in Targets(d.kind, f, mode.scope)
    BY RowShape
  <2>3. Refs(d.kind) = {"department", "user"}
    BY RefsOfKind
  <2>4. /\ DOMAIN d.refs = {"department", "user"} /\ d.refs = [f \in {"department", "user"} |-> d.refs[f]]
        /\ d.refs["department"] \in Targets("faculty", "department", mode.scope)
    BY <2>2, <2>3
  <2>5. QED BY <2>1, <2>4
<1>2. /\ g["user"] = u /\ g["department"] = d.refs["department"]
      /\ g = [f \in {"department", "user"} |-> g[f]]
  BY <1>1
<1>3. [d EXCEPT !.refs["user"] = u] = [d EXCEPT !.refs = g]
  OBVIOUS
<1> HIDE DEF g
<1>4. [d EXCEPT !.refs["user"] = u] = [kind |-> "faculty", key |-> d.key, on |-> d.on, refs |-> g]
  BY <1>1, <1>3
<1>5. \A f \in {"department", "user"} : g[f] \in Targets("faculty", f, mode.scope)
  BY <1>1, <1>2
<1>6. [kind |-> "faculty", key |-> d.key, on |-> d.on, refs |-> g] \in AllRows
  BY <1>1, <1>2, <1>5, RefsOfKind, RowIn
<1>7. QED BY <1>2, <1>4, <1>6

BeginsCreate(r) == \E d \in AllRows : Create(r, d) /\ d.kind \notin {"faculty", "user"}
BeginsUpdate(r) ==
    \E d \in AllRows, x \in Ids :
      /\ Update(r, x, d) /\ d.kind \notin Fixed
      /\ d.kind = "faculty" => d.refs["user"] = row[x].refs["user"]
BeginsDelete(r) ==
    \E x \in Ids, counted \in SUBSET Kinds :
      /\ Delete(r, x, counted) /\ Exists(x) /\ row[x].kind \notin Fixed
      /\ Is(x, "section") => "student" \in counted
      /\ Is(x, "faculty") => "entry" \in counted
BeginsFaculty(r) == \E d \in AllRows, email \in Names : CreateFaculty(r, d, email)

LEMMA BeginCases ==
  ASSUME mode \in Modes, TypeOK, NEW r \in Reqs, Begin(r)
  PROVE  BeginsCreate(r) \/ BeginsUpdate(r) \/ BeginsDelete(r) \/ BeginsFaculty(r)
<1>1. ASSUME NEW d \in Inputs, BeginCreate(r, d) PROVE BeginsCreate(r) \/ BeginsFaculty(r)
  <2>1. d \in AllRows
    BY DEF Inputs
  <2>2. (Create(r, d) /\ d.kind \notin {"faculty", "user"}) \/ \E email \in Names : CreateFaculty(r, d, email)
    BY <1>1 DEF BeginCreate, CreateDepartment, CreateProgram, CreateBatch, CreateSection, CreateSubject, CreateRoom,
                CreateAcademicYear, CreatePeriodSlot, CreateTimetableEntry, CreateLeaveType, CreateCertificateType,
                CreateCompany, CreateStudent, CreateSession, CreateActivity, PostMessage, CreateLeaveRequest,
                CreateRequest, CreateJobOpening
  <2>3. QED BY <2>1, <2>2 DEF BeginsCreate, BeginsFaculty
<1>2. ASSUME NEW d \in Inputs, NEW x \in Ids, BeginUpdate(r, x, d) PROVE BeginsUpdate(r)
  <2>1. d \in AllRows
    BY DEF Inputs
  <2>2. \/ Update(r, x, d) /\ d.kind \notin Fixed \cup {"faculty"}
        \/ UpdateFaculty(r, x, d)
        \/ UpdateActivity(r, x, d)
    BY <1>2 DEF BeginUpdate, UpdateDepartment, UpdateProgram, UpdateBatch, UpdateSection, UpdateSubject, UpdateRoom,
                UpdateAcademicYear, UpdatePeriodSlot, UpdateTimetableEntry, UpdateLeaveType, UpdateStudent, Fixed
  <2>3. CASE Update(r, x, d) /\ d.kind \notin Fixed \cup {"faculty"}
    BY <2>1, <2>3 DEF BeginsUpdate
  <2>4. CASE UpdateFaculty(r, x, d)
    <3> DEFINE e == [d EXCEPT !.refs["user"] = row[x].refs["user"]]
    <3>1. row[x].kind = "faculty" /\ d.kind = "faculty" /\ Update(r, x, e)
      BY <2>4 DEF UpdateFaculty, Is
    <3>2. row[x] \in AllRows
      BY <3>1, RowKinds, KindFacts DEF Exists
    <3>3. row[x].refs["user"] \in Targets("faculty", "user", mode.scope)
      BY <3>1, <3>2, RowShape, RefsOfKind
    <3>4. row[x].refs["user"] \in Ids \cup Given["user"] \cup {"NONE"}
      BY <3>3 DEF Targets
    <3>5. e \in AllRows /\ e.kind = "faculty" /\ e.refs["user"] = row[x].refs["user"]
      BY <2>1, <3>1, <3>3, <3>4, WithUser
    <3>6. QED BY <3>1, <3>5 DEF BeginsUpdate, Fixed
  <2>5. CASE UpdateActivity(r, x, d)
    <3>1. row[x].kind = "activity" /\ Update(r, x, row[x])
      BY <2>5 DEF UpdateActivity, Is
    <3>2. row[x] \in AllRows
      BY <3>1, RowKinds DEF Exists, Kinds, Outer
    <3>3. QED BY <3>1, <3>2 DEF BeginsUpdate, Fixed
  <2>6. QED BY <2>2, <2>3, <2>4, <2>5
<1>3. ASSUME NEW x \in Ids, BeginDelete(r, x) PROVE BeginsDelete(r)
  <2>1. \E counted \in SUBSET Kinds :
          /\ Delete(r, x, counted) /\ row[x].kind \in Kinds /\ row[x].kind \notin Fixed
          /\ Is(x, "section") => "student" \in counted
          /\ Is(x, "faculty") => "entry" \in counted
    BY <1>3 DEF BeginDelete, DeleteDepartment, DeleteProgram, DeleteBatch, DeleteSection, DeleteSubject, DeleteRoom,
                DeleteAcademicYear, DeletePeriodSlot, DeleteTimetableEntry, DeleteStudent, DeleteFaculty, DeleteLeaveType,
                DeleteCertificateType, DeleteCompany, DeleteJobOpening, DeleteActivity, Is, Fixed, Kinds, Named, Booked, Outer
  <2>2. QED BY <2>1 DEF BeginsDelete, Exists
<1>4. QED BY <1>1, <1>2, <1>3 DEF Begin

LEMMA Unwritten ==
  ASSUME Inv, NEW r \in Reqs, UNCHANGED <<mode, row>>, teacher \subseteq teacher'
  PROVE  RowsSound' /\ Moves(r)
<1>1. row' = [y \in Ids |-> row'[y]]
  BY DEF Inv, TypeOK
<1>2. QED BY <1>1, FlagStep

LEMMA IdleKnows == Knows(Idle)' /\ Account(Idle) = {} /\ Idle \in Request
BY DEF Knows, Account, Idle, Request

LEMMA LinkedIf ==
  ASSUME mode \in Modes, NEW d \in AllRows, RefsExist(d),
         d.kind = "faculty" => d.refs["user"] # "NONE" /\ Is(d.refs["user"], "user")
  PROVE  Linked(d)
<1>1. \A f \in Refs(d.kind) : f = "user" => d.kind = "faculty"
  BY RowShape, KindFacts
<1>2. QED BY <1>1 DEF Linked, RefsExist

\* A member's account is a row of the group.
LEMMA MemberHasAccount ==
  ASSUME Inv, NEW x \in Ids, Is(x, "faculty")
  PROVE  /\ row[x] \in AllRows /\ row[x].refs["user"] \in Ids /\ Is(row[x].refs["user"], "user")
         /\ "user" \in mode.scope /\ row[x].refs["user"] \in teacher
<1>1. mode \in Modes /\ TypeOK /\ Exists(x) /\ Linked(row[x]) /\ row[x].kind = "faculty"
  BY KindFacts DEF Inv, RowsSound, Exists, Is
<1>2. row[x] \in AllRows
  BY <1>1, RowKinds
<1>3. "user" \in mode.scope /\ "user" \in Refs("faculty") /\ "user" \notin Optional("faculty")
  <2>1. "faculty" \in mode.scope
    BY <1>1, <1>2, RowShape
  <2>2. "user" \in mode.scope
    BY <1>1, <2>1, RegistryAssumption
  <2>3. QED BY <2>2, RefsOfKind, OptionalFacts
<1>4. row[x].refs["user"] # "NONE" /\ Is(row[x].refs["user"], "user")
  BY <1>1, <1>3 DEF Linked
<1>5. row[x].refs["user"] \in Ids
  BY <1>1, <1>2, <1>3, <1>4, ScopedRef
<1>6. QED BY <1>1, <1>2, <1>3, <1>4, <1>5 DEF Inv, RowsSound, Accounts, Of

LEMMA BeginInv ==
  ASSUME Inv, NEW r \in Reqs, Begin(r), UNCHANGED mode
  PROVE  Inv' /\ Moves(r)
<1>1. mode \in Modes /\ TypeOK
  BY DEF Inv
<1>2. SUFFICES ASSUME NEW y \in Request, Goto(r, y), UNCHANGED <<row, teacher>>, Knows(y), Account(y) = {}
               PROVE  Inv' /\ Moves(r)
  <2>1. ASSUME NEW d \in AllRows, Create(r, d), d.kind \notin {"faculty", "user"} PROVE Inv' /\ Moves(r)
    <3> DEFINE y == [pc |-> "insert", d |-> d]
    <3>1. y \in Request /\ Knows(y) /\ Account(y) = {}
      BY <2>1 DEF Request, Knows, Account
    <3>2. QED BY <1>2, <2>1, <3>1 DEF Create
  <2>2. ASSUME NEW d \in AllRows, NEW x \in Ids, Update(r, x, d), d.kind \notin Fixed,
               d.kind = "faculty" => d.refs["user"] = row[x].refs["user"]
        PROVE  Inv' /\ Moves(r)
    <3> DEFINE y == [pc |-> "update", x |-> x, d |-> d]
    <3>1. row[x].kind = d.kind /\ Goto(r, y) /\ UNCHANGED <<row, teacher>>
      BY <2>2 DEF Update, Is
    <3>2. d.kind = "faculty" => d.refs["user"] \in Ids /\ Is(d.refs["user"], "user")
      BY <2>2, <3>1, MemberHasAccount DEF Is
    <3>3. y \in Request /\ Knows(y) /\ Account(y) = {}
      BY <2>2, <3>1, <3>2 DEF Request, Knows, Account
    <3>4. QED BY <1>2, <3>1, <3>3
  <2>3. ASSUME NEW x \in Ids, NEW counted, Delete(r, x, counted), Exists(x), row[x].kind \notin Fixed PROVE Inv' /\ Moves(r)
    <3>1. "absent" \notin Kinds /\ UNCHANGED <<row, teacher>>
      BY <2>3, KindFacts DEF Delete
    <3>2. CASE Is(x, "faculty")
      <4> DEFINE y == [pc |-> "deactivate", x |-> x, u |-> row[x].refs["user"]]
      <4>1. row[x].refs["user"] \in Ids /\ Is(row[x].refs["user"], "user")
        BY <3>2, MemberHasAccount
      <4>2. y \in Request /\ Knows(y) /\ Account(y) = {}
        BY <3>2, <4>1 DEF Request, Knows, Account, Is
      <4>3. QED BY <1>2, <2>3, <3>1, <3>2, <4>2 DEF Delete
    <3>3. CASE ~Is(x, "faculty")
      <4> DEFINE y == [pc |-> "delete", x |-> x]
      <4>1. y \in Request /\ Knows(y) /\ Account(y) = {}
        BY <2>3, <3>1 DEF Request, Knows, Account, Exists
      <4>2. QED BY <1>2, <2>3, <3>1, <3>3, <4>1 DEF Delete
    <3>4. QED BY <3>2, <3>3
  <2>4. ASSUME NEW d \in AllRows, NEW email \in Names, CreateFaculty(r, d, email) PROVE Inv' /\ Moves(r)
    <3> DEFINE y == [pc |-> "insertUser", d |-> d, email |-> email]
    <3>1. y \in Request /\ Knows(y) /\ Account(y) = {}
      BY <2>4 DEF Request, Knows, Account, CreateFaculty
    <3>2. QED BY <1>2, <2>4, <3>1 DEF CreateFaculty
  <2>5. QED BY <1>1, <2>1, <2>2, <2>3, <2>4, BeginCases DEF BeginsCreate, BeginsUpdate, BeginsDelete, BeginsFaculty
<1>3. RowsSound' /\ Moves(r)
  BY <1>2, Unwritten
<1>4. Knows(y)'
  BY <1>2 DEF Knows, Is, Of, Exists, Account
<1>5. teacher \subseteq teacher' /\ teacher' \subseteq Ids
  BY <1>1, <1>2 DEF TypeOK
<1>6. QED BY <1>2, <1>3, <1>4, <1>5, StepInv

LEMMA InsertInv ==
  ASSUME Inv, NEW r \in Reqs, NEW x \in Ids, Insert(r, x), UNCHANGED mode
  PROVE  Inv' /\ Moves(r)
<1> DEFINE d == req[r].d
<1>1. mode \in Modes /\ TypeOK /\ req[r] \in Request /\ Knows(req[r])
  BY DEF Inv, TypeOK
<1>2. /\ req[r].pc = "insert" /\ row[x] = NoRow /\ UNCHANGED teacher /\ d \in AllRows
      /\ IF Writable(d, x) THEN row' = [row EXCEPT ![x] = d] /\ AfterWrite(r, x, d) ELSE UNCHANGED row /\ Done(r)
  BY <1>1, RequestShape DEF Insert, At
<1>3. teacher \subseteq teacher' /\ teacher' \subseteq Ids
  BY <1>1, <1>2 DEF TypeOK
<1>4. CASE Writable(d, x)
  <2>1. RefsExist(d) /\ NoCollision(d, x)
    BY <1>4 DEF Writable
  <2>2. d.kind = "faculty" => /\ Account(req[r]) = {d.refs["user"]} /\ d.refs["user"] \in Ids
                              /\ Is(d.refs["user"], "user") /\ d.refs["user"] \in teacher
    BY <1>1, <1>2 DEF Knows, Account
  <2>3. "NONE" \notin Ids
    BY RegistryAssumption
  <2>4. Linked(d)
    BY <1>1, <1>2, <2>1, <2>2, <2>3, LinkedIf
  <2>5. Touches(r) = Involves(d)
    BY <1>2 DEF Touches
  <2>6. row' = [row EXCEPT ![x] = d]
    BY <1>2, <1>4
  <2>7. RowsSound' /\ Moves(r)
    BY <1>2, <2>1, <2>2, <2>4, <2>5, <2>6, PutStep
  <2>8. CASE d.kind = "year" /\ d.on
    <3> DEFINE y == [pc |-> "clearOthers", x |-> x]
    <3>1. Goto(r, y) /\ row'[x].kind = "year"
      BY <1>1, <1>2, <1>4, <2>6, <2>8 DEF AfterWrite, TypeOK
    <3>2. y \in Request /\ Account(y) = {} /\ Knows(y)'
      BY <3>1 DEF Request, Knows, Account
    <3>3. QED BY <1>3, <2>7, <3>1, <3>2, StepInv
  <2>9. CASE ~(d.kind = "year" /\ d.on)
    <3>1. Goto(r, Idle)
      BY <1>2, <1>4, <2>9 DEF AfterWrite, Done
    <3>2. QED BY <1>3, <2>7, <3>1, IdleKnows, StepInv
  <2>10. QED BY <2>8, <2>9
<1>5. CASE ~Writable(d, x)
  <2>1. UNCHANGED row /\ Goto(r, Idle)
    BY <1>2, <1>5 DEF Done
  <2>2. RowsSound' /\ Moves(r)
    BY <1>3, <2>1, Unwritten
  <2>3. QED BY <1>3, <2>1, <2>2, IdleKnows, StepInv
<1>6. QED BY <1>4, <1>5

LEMMA UpdateInv ==
  ASSUME Inv, NEW r \in Reqs, UpdateWrite(r), UNCHANGED mode
  PROVE  Inv' /\ Moves(r)
<1>0. PICK d, x : d = req[r].d /\ x = req[r].x
  OBVIOUS
<1>1. mode \in Modes /\ TypeOK /\ req[r] \in Request /\ Knows(req[r])
  BY DEF Inv, TypeOK
<1>2. /\ req[r].pc = "update" /\ UNCHANGED teacher /\ d \in AllRows /\ x \in Ids
      /\ IF Exists(x) /\ Writable(d, x) THEN row' = [row EXCEPT ![x] = d] /\ AfterWrite(r, x, d) ELSE UNCHANGED row /\ Done(r)
  BY <1>0, <1>1, RequestShape DEF UpdateWrite, At
<1>3. teacher \subseteq teacher' /\ teacher' \subseteq Ids
  BY <1>1, <1>2 DEF TypeOK
<1>4. CASE Exists(x) /\ Writable(d, x)
  <2>1. RefsExist(d) /\ NoCollision(d, x)
    BY <1>4 DEF Writable
  <2>2. /\ d.kind \notin Fixed /\ Is(x, d.kind)
        /\ d.kind = "faculty" => /\ d.refs["user"] \in Ids /\ Is(d.refs["user"], "user")
                                 /\ d.refs["user"] = row[x].refs["user"]
    BY <1>0, <1>1, <1>2, <1>4, KindFacts DEF Knows, Exists, Is
  <2>3. "NONE" \notin Ids
    BY RegistryAssumption
  <2>4. Linked(d)
    BY <1>1, <1>2, <2>1, <2>2, <2>3, LinkedIf
  <2>5. Touches(r) = {x} \cup Involves(d)
    BY <1>0, <1>2 DEF Touches
  <2>6. row' = [row EXCEPT ![x] = d]
    BY <1>2, <1>4
  <2>7. d.kind = "faculty" => d.refs["user"] \in teacher
    BY <1>2, <2>2, MemberHasAccount
  <2>8. RowsSound' /\ Moves(r)
    BY <1>2, <2>1, <2>2, <2>4, <2>5, <2>6, <2>7, PutStep
  <2>9. CASE d.kind = "year" /\ d.on
    <3> DEFINE y == [pc |-> "clearOthers", x |-> x]
    <3>1. Goto(r, y) /\ row'[x].kind = "year"
      BY <1>1, <1>2, <1>4, <2>6, <2>9 DEF AfterWrite, TypeOK
    <3>2. y \in Request /\ Account(y) = {} /\ Knows(y)'
      BY <1>2, <3>1 DEF Request, Knows, Account
    <3>3. QED BY <1>3, <2>8, <3>1, <3>2, StepInv
  <2>10. CASE ~(d.kind = "year" /\ d.on)
    <3>1. Goto(r, Idle)
      BY <1>2, <1>4, <2>10 DEF AfterWrite, Done
    <3>2. QED BY <1>3, <2>8, <3>1, IdleKnows, StepInv
  <2>11. QED BY <2>9, <2>10
<1>5. CASE ~(Exists(x) /\ Writable(d, x))
  <2>1. UNCHANGED row /\ Goto(r, Idle)
    BY <1>2, <1>5 DEF Done
  <2>2. RowsSound' /\ Moves(r)
    BY <1>3, <2>1, Unwritten
  <2>3. QED BY <1>3, <2>1, <2>2, IdleKnows, StepInv
<1>6. QED BY <1>4, <1>5

LEMMA DeleteInv ==
  ASSUME Inv, NEW r \in Reqs, DeleteWrite(r), UNCHANGED mode
  PROVE  Inv' /\ Moves(r)
<1> DEFINE x == req[r].x
<1>1. mode \in Modes /\ TypeOK /\ req[r] \in Request /\ Knows(req[r])
  BY DEF Inv, TypeOK
<1>2. req[r].pc = "delete" /\ x \in Ids /\ UNCHANGED teacher /\ Goto(r, Idle)
  BY <1>1, RequestShape DEF DeleteWrite, At, Done
<1>3. teacher \subseteq teacher' /\ teacher' \subseteq Ids
  BY <1>1, <1>2 DEF TypeOK
<1>4. RowsSound' /\ Moves(r)
  <2>1. CASE Exists(x) /\ ~Held(x)
    <3>1. row[x].kind \notin Fixed /\ At(r, "delete")
      BY <1>1, <1>2 DEF Knows, At
    <3>2. row' = [y \in Ids |-> IF y = x \/ GoesAlong(y, x) THEN Deleted
                                ELSE IF RefersTo(y, x) THEN Unlinked(row[y], x) ELSE row[y]]
      BY <2>1 DEF DeleteWrite
    <3>3. QED BY <1>2, <2>1, <3>1, <3>2, DropStep
  <2>2. CASE ~(Exists(x) /\ ~Held(x))
    <3>1. UNCHANGED row
      BY <2>2 DEF DeleteWrite
    <3>2. QED BY <1>3, <3>1, Unwritten
  <2>3. QED BY <2>1, <2>2
<1>5. QED BY <1>2, <1>3, <1>4, IdleKnows, StepInv

LEMMA ClearInv ==
  ASSUME Inv, NEW r \in Reqs, ClearOtherCurrentYears(r), UNCHANGED mode
  PROVE  Inv' /\ Moves(r)
<1>1. UNCHANGED teacher /\ Goto(r, Idle)
  BY DEF ClearOtherCurrentYears, Done
<1>2. teacher \subseteq teacher' /\ teacher' \subseteq Ids
  BY <1>1 DEF Inv, TypeOK
<1>3. row' = [y \in Ids |-> IF Is(y, "year") /\ y # req[r].x THEN [row[y] EXCEPT !.on = FALSE] ELSE row[y]]
  BY DEF ClearOtherCurrentYears
<1>4. /\ row' = [y \in Ids |-> row'[y]]
      /\ \A y \in Ids : \/ row'[y] = row[y]
                        \/ row[y].kind \in {"year", "user"} /\ row'[y] = [row[y] EXCEPT !.on = FALSE]
  BY <1>3 DEF Is
<1>5. RowsSound' /\ Moves(r)
  BY <1>2, <1>4, FlagStep
<1>6. QED BY <1>1, <1>2, <1>5, IdleKnows, StepInv

LEMMA DeactivateInv ==
  ASSUME Inv, NEW r \in Reqs, Deactivate(r), UNCHANGED mode
  PROVE  Inv' /\ Moves(r)
<1>1. mode \in Modes /\ TypeOK /\ req[r] \in Request /\ Knows(req[r])
  BY DEF Inv, TypeOK
<1>2. PICK x, u : x = req[r].x /\ u = req[r].u
  OBVIOUS
<1>3. /\ req[r].pc = "deactivate" /\ x \in Ids /\ u \in Ids /\ UNCHANGED teacher
      /\ row' = [row EXCEPT ![u].on = FALSE]
      /\ Goto(r, [pc |-> "delete", x |-> x])
  BY <1>1, <1>2, RequestShape DEF Deactivate, At
<1>4. row[x].kind \in {"faculty", "deleted"} /\ row[u].kind = "user"
  BY <1>1, <1>2, <1>3 DEF Knows, Is
<1>5. teacher \subseteq teacher' /\ teacher' \subseteq Ids
  BY <1>1, <1>3 DEF TypeOK
<1>6. /\ row' = [y \in Ids |-> row'[y]]
      /\ \A y \in Ids : row'[y] = IF y = u THEN [row[y] EXCEPT !.on = FALSE] ELSE row[y]
  BY <1>1, <1>3 DEF TypeOK
<1>7. RowsSound' /\ Moves(r)
  BY <1>4, <1>5, <1>6, FlagStep
<1>8. row'[x].kind = row[x].kind
  BY <1>3, <1>4, <1>6
<1>9. [pc |-> "delete", x |-> x] \in Request /\ Account([pc |-> "delete", x |-> x]) = {} /\ Knows([pc |-> "delete", x |-> x])'
  BY <1>3, <1>4, <1>8 DEF Request, Knows, Account, Fixed
<1>10. QED BY <1>3, <1>5, <1>7, <1>9, StepInv

\* The row of a new account.
NewUser(email) == [kind |-> "user", key |-> email, on |-> TRUE, refs |-> [f \in {} |-> "NONE"]]

LEMMA UserInv ==
  ASSUME Inv, NEW r \in Reqs, NEW u \in Ids, UserInsert(r, u), UNCHANGED mode
  PROVE  Inv' /\ Moves(r)
<1>1. mode \in Modes /\ TypeOK /\ req[r] \in Request /\ Knows(req[r])
  BY DEF Inv, TypeOK
<1>2. PICK d, email, w : d = req[r].d /\ email = req[r].email /\ w = NewUser(email)
  OBVIOUS
<1>3. /\ req[r].pc = "insertUser" /\ row[u] = NoRow /\ UNCHANGED teacher /\ d \in AllRows /\ email \in Names
      /\ IF \A v \in Of("user") : row[v].key # email
         THEN row' = [row EXCEPT ![u] = w] /\ Goto(r, [pc |-> "insertRole", d |-> d, u |-> u])
         ELSE UNCHANGED row /\ Goto(r, Idle)
  BY <1>1, <1>2, RequestShape DEF UserInsert, At, Done, NewUser
<1>4. d.kind = "faculty" /\ d.refs["user"] = "NONE"
  BY <1>1, <1>2, <1>3 DEF Knows
<1>5. teacher \subseteq teacher' /\ teacher' \subseteq Ids
  BY <1>1, <1>3 DEF TypeOK
<1>6. CASE \A v \in Of("user") : row[v].key # email
  <2>1. w \in AllRows /\ w.kind = "user" /\ w.key = email
    <3>1. "faculty" \in mode.scope
      BY <1>1, <1>3, <1>4, RowShape
    <3>2. "user" \in mode.scope
      BY <1>1, <3>1, RegistryAssumption
    <3>3. Refs("user") = {} /\ email \in Keys("user") /\ TRUE \in Flags("user")
      BY <1>3, KindFacts DEF Keys, Named, Flags
    <3>4. PICK g, b : g = [f \in {} |-> "NONE"] /\ b = TRUE
      OBVIOUS
    <3>5. g = [f \in {} |-> g[f]] /\ w = [kind |-> "user", key |-> email, on |-> b, refs |-> g] /\ b \in Flags("user")
      BY <1>2, <3>3, <3>4 DEF NewUser
    <3>6. [kind |-> "user", key |-> email, on |-> b, refs |-> g] \in AllRows
      BY <1>1, <3>2, <3>3, <3>5, RowIn
    <3>7. QED BY <3>5, <3>6
  <2>2. NoCollision(w, u)
    BY <1>6, <2>1 DEF NoCollision, Collides, Of, Is, Exists
  <2>3. Linked(w)
    BY <2>1, KindFacts DEF Linked
  <2>4. Involves(w) \subseteq Touches(r)
    <3>1. "user" \in Involves(d) /\ Involves(w) \subseteq {"user"}
      BY <1>4, <2>1, KindFacts DEF Involves
    <3>2. QED BY <1>2, <1>3, <3>1 DEF Touches
  <2>5. RowsSound' /\ Moves(r)
    BY <1>3, <1>6, <2>1, <2>2, <2>3, <2>4, PutStep
  <2>6. row'[u].kind = "user" /\ \A y \in Ids : row'[y].kind = "faculty" => y \in Of("faculty") /\ row'[y].refs = row[y].refs
    BY <1>1, <1>3, <1>6, <2>1 DEF TypeOK, Of, Is
  <2>7. \A y \in Of("faculty") : row[y].refs["user"] # u
    <3>1. \A y \in Of("faculty") : Is(row[y].refs["user"], "user")
      BY MemberHasAccount DEF Of
    <3>2. ~Is(u, "user")
      BY <1>3 DEF Is, NoRow
    <3>3. QED BY <3>1, <3>2
  <2> DEFINE y == [pc |-> "insertRole", d |-> d, u |-> u]
  <2>8. y \in Request
    BY <1>3 DEF Request
  <2>9. Knows(y)'
    BY <1>4, <2>6, <2>7 DEF Knows, Account, Of, Is
  <2>10. \A v \in Account(y) : row[v] = NoRow
    BY <1>3 DEF Account
  <2>11. QED BY <1>3, <1>5, <1>6, <2>5, <2>8, <2>9, <2>10, StepInv
<1>7. CASE ~(\A v \in Of("user") : row[v].key # email)
  <2>1. UNCHANGED row /\ Goto(r, Idle)
    BY <1>3, <1>7
  <2>2. RowsSound' /\ Moves(r)
    BY <1>5, <2>1, Unwritten
  <2>3. QED BY <1>5, <2>1, <2>2, IdleKnows, StepInv
<1>8. QED BY <1>6, <1>7

LEMMA RoleInv ==
  ASSUME Inv, NEW r \in Reqs, RoleInsert(r), UNCHANGED mode
  PROVE  Inv' /\ Moves(r)
<1>1. mode \in Modes /\ TypeOK /\ req[r] \in Request /\ Knows(req[r])
  BY DEF Inv, TypeOK
<1>2. PICK u, e : u = req[r].u /\ e = [req[r].d EXCEPT !.refs["user"] = req[r].u]
  OBVIOUS
<1>3. /\ req[r].pc = "insertRole" /\ u \in Ids /\ UNCHANGED row /\ teacher' = teacher \cup {u}
      /\ Goto(r, [pc |-> "insert", d |-> e]) /\ req[r].d \in AllRows
  BY <1>1, <1>2, RequestShape DEF RoleInsert, At
<1>4. req[r].d.kind = "faculty" /\ Account(req[r]) = {u}
  BY <1>1, <1>2, <1>3 DEF Knows, Account
<1>5. Is(u, "user") /\ \A x \in Of("faculty") : row[x].refs["user"] # u
  BY <1>1, <1>4 DEF Knows
<1>6. u \in Targets("faculty", "user", mode.scope)
  <2>1. "faculty" \in mode.scope
    BY <1>1, <1>3, <1>4, RowShape
  <2>2. "user" \in mode.scope
    BY <1>1, <2>1, RegistryAssumption
  <2>3. QED BY <1>3, <2>2 DEF Targets
<1>7. e \in AllRows /\ e.kind = "faculty" /\ e.refs["user"] = u
  BY <1>1, <1>2, <1>3, <1>4, <1>6, WithUser
<1>8. teacher \subseteq teacher' /\ teacher' \subseteq Ids /\ u \in teacher'
  BY <1>1, <1>3 DEF TypeOK
<1>9. RowsSound' /\ Moves(r)
  BY <1>3, <1>8, Unwritten
<1> DEFINE y == [pc |-> "insert", d |-> e]
<1>10. y \in Request
  BY <1>7 DEF Request
<1>11. Account(y) = {u}
  BY <1>7 DEF Account
<1>12. Knows(y)'
  BY <1>3, <1>5, <1>7, <1>8, <1>11 DEF Knows, Account, Of, Is
<1>13. QED BY <1>3, <1>4, <1>8, <1>9, <1>10, <1>11, <1>12, StepInv

LEMMA DieInv ==
  ASSUME Inv, NEW r \in Reqs, Die(r), UNCHANGED mode
  PROVE  Inv' /\ Moves(r)
<1>1. UNCHANGED <<row, teacher>> /\ Goto(r, Idle)
  BY DEF Die, Done
<1>2. teacher \subseteq teacher' /\ teacher' \subseteq Ids
  BY <1>1 DEF Inv, TypeOK
<1>3. QED BY <1>1, <1>2, Unwritten, IdleKnows, StepInv

LEMMA StepMoves ==
  ASSUME Inv, NEW r \in Reqs, Begin(r) \/ Continue(r) \/ Die(r), UNCHANGED mode
  PROVE  Inv' /\ Moves(r)
BY BeginInv, InsertInv, UpdateInv, DeleteInv, ClearInv, DeactivateInv, UserInv, RoleInv, DieInv DEF Continue

LEMMA InitInv == Init => Inv
<1>1. SUFFICES ASSUME Init PROVE Inv
  OBVIOUS
<1>2. \A x \in Ids : row[x].kind = "absent" /\ ~Exists(x)
  BY <1>1, KindFacts DEF Init, NoRow, Exists
<1>3. TypeOK
  BY <1>1 DEF Init, TypeOK, Request
<1>4. RowsSound
  BY <1>2, <1>3 DEF RowsSound, Accounts, Of, Is, TypeOK
<1>5. \A q \in Reqs : Knows(req[q]) /\ Account(req[q]) = {}
  BY <1>1 DEF Init, Knows, Account, Idle
<1>6. QED BY <1>1, <1>3, <1>4, <1>5 DEF Init, Inv

LEMMA NextInv == Inv /\ [Next]_vars => Inv'
<1>1. ASSUME Inv, NEW r \in Reqs, Begin(r) \/ Continue(r) \/ Die(r), UNCHANGED mode PROVE Inv'
  BY <1>1, StepMoves
<1>2. ASSUME Inv, UNCHANGED vars PROVE Inv'
  <2>1. /\ mode \in Modes /\ TypeOK /\ RowsSound /\ AllRows' = AllRows /\ Request' = Request
        /\ UNCHANGED <<mode, row, teacher, req>>
    BY <1>2, ModeSame DEF vars, Inv
  <2>2. TypeOK'
    BY <2>1 DEF TypeOK
  <2>3. RowsSound'
    BY <2>1 DEF RowsSound, Accounts, Of, Is, Exists, Linked, Collides, SameOwner
  <2>4. (\A q \in Reqs : Knows(req[q]))'
    BY <1>2, <2>1 DEF Inv, Knows, Account, Of, Is, Exists
  <2>5. (\A q, r \in Reqs : q # r => Account(req[q]) \cap Account(req[r]) = {})'
    BY <1>2, <2>1 DEF Inv, Account
  <2>6. QED BY <2>1, <2>2, <2>3, <2>4, <2>5 DEF Inv
<1>3. QED BY <1>1, <1>2 DEF Next

LEMMA Invariance == Spec => []Inv
BY InitInv, NextInv, PTL DEF Spec

\* Types, in every reachable state.
THEOREM TypeCorrect == Spec => []TypeOK
<1>1. Inv => TypeOK
  BY DEF Inv
<1>2. QED BY <1>1, Invariance, PTL

\* However requests overlap and die, every reference is to a row of its kind that
\* exists (the foreign keys), and every member has an account of their own with the
\* role FACULTY (createFaculty, deleteFaculty).
THEOREM ReferencesAreGood == Spec => []ReferencesHold
<1>1. Inv => ReferencesHold
  BY DEF Inv, RowsSound, Linked, Accounts, ReferencesHold
<1>2. QED BY <1>1, Invariance, PTL

-----------------------------------------------------------------------------
\* Requests that take turns.

Turns == \A q, s \in Reqs : q # s => Touches(q) \cap Touches(s) = {}

\* What a request that takes turns has checked and may still rely on.
Checked(q) ==
    /\ q.pc \in {"insert", "insertUser", "insertRole"} => RefsExist(q.d) /\ NoRival(q.d, "NONE")
    /\ q.pc = "update" => Exists(q.x) /\ RefsExist(q.d) /\ NoRival(q.d, q.x)
    /\ q.pc = "deactivate" => /\ Exists(q.x) /\ q.u = row[q.x].refs["user"]
                              /\ NoneOf({"entry"}, q.x)
    /\ q.pc = "delete" =>
         /\ Exists(q.x)
         /\ Is(q.x, "section") => NoneOf({"student"}, q.x)
         /\ Is(q.x, "faculty") => NoneOf({"entry"}, q.x) /\ ~row[row[q.x].refs["user"]].on
    /\ \A u \in Account(q) : row[u].on

NoClash == \A x, y \in Ids : x # y /\ Exists(x) /\ Exists(y) => ~Conflict(row[x], row[y])

InTurns == Turns /\ NoClash /\ \A q \in Reqs : Checked(req[q])

YearInv ==
    \/ \E r \in Reqs : At(r, "clearOthers")
    \/ \A x, y \in Of("year") : row[x].on /\ row[y].on => x = y

MemberOf(u)  == \E x \in Of("faculty") : row[x].refs["user"] = u
Pending(r, u) == At(r, "insert") /\ req[r].d.kind = "faculty" /\ req[r].d.refs["user"] = u
HeldFast(x)  == \E y \in Of("session") : row[y].refs["faculty"] = x
Removing(r, x) == At(r, "delete") /\ req[r].x = x

MembersInv ==
    /\ \A u \in teacher : Is(u, "user") /\ (MemberOf(u) \/ (\E r \in Reqs : Pending(r, u)) \/ ~row[u].on)
    /\ \A x \in Of("faculty") :
         row[row[x].refs["user"]].on \/ HeldFast(x) \/ \E r \in Reqs : Removing(r, x)

SerialInv ==
    /\ Inv
    /\ ~MayOverlap => InTurns
    /\ ~Faults => YearInv
    /\ ~MayOverlap /\ ~Faults => MembersInv

LEMMA NamedConflict ==
  ASSUME NEW d, NEW e, d.kind \in Named
  PROVE  Conflict(d, e) <=> d.kind = e.kind /\ SameName(d, e) /\ SameOwner(d, e)
<1>1. d.kind # "period" /\ d.kind # "entry"
  BY DEF Named
<1>2. ASSUME Conflict(d, e) PROVE d.kind = e.kind /\ SameName(d, e) /\ SameOwner(d, e)
  BY <1>1, <1>2 DEF Conflict
<1>3. ASSUME d.kind = e.kind, SameName(d, e), SameOwner(d, e) PROVE Conflict(d, e)
  BY <1>1, <1>3 DEF Conflict
<1>4. QED BY <1>2, <1>3

\* Conflicts are mutual, and a row that stays comes into none.
LEMMA ConflictBothWays == \A d, e : Conflict(d, e) => Conflict(e, d)
<1>1. SUFFICES ASSUME NEW d, NEW e, Conflict(d, e) PROVE Conflict(e, d)
  OBVIOUS
<1>2. d.kind = e.kind /\ "entry" \notin Named /\ "period" \notin Named
  BY <1>1 DEF Conflict, Named
<1>3. CASE d.kind \in Named
  BY <1>1, <1>2, <1>3 DEF Conflict, SameName, SameOwner
<1>4. CASE d.kind = "period"
  BY <1>1, <1>2, <1>4 DEF Conflict, TimesOverlap
<1>5. CASE d.kind = "entry"
  BY <1>1, <1>2, <1>5 DEF Conflict, TimesOverlap, ShareResource
<1>6. CASE d.kind \notin Named \cup {"period", "entry"}
  BY <1>1, <1>6 DEF Conflict
<1>7. QED BY <1>3, <1>4, <1>5, <1>6

LEMMA ConflictBack ==
  ASSUME NEW x \in Ids, NEW d, Exists(x), Stays(x), Conflict(row'[x], d)
  PROVE  Conflict(row[x], d)
<1>1. row[x].kind \in Kinds /\ row'[x].kind = row[x].kind /\ row'[x].key = row[x].key
  BY DEF Exists, Stays
<1>2. row[x].kind \notin {"subject", "student"} => \A f \in Refs(row[x].kind) : row'[x].refs[f] = row[x].refs[f]
  BY OptionalFacts DEF Stays
<1>3. row[x].kind = d.kind
  BY <1>1 DEF Conflict
<1>4. CASE row[x].kind \in Named
  <2>1. SameName(row'[x], d) /\ SameOwner(row'[x], d)
    BY <1>1, <1>4, NamedConflict
  <2>2. SameName(row[x], d)
    BY <1>1, <2>1 DEF SameName
  <2>3. SameOwner(row[x], d)
    BY <1>1, <1>2, <2>1, RefsOfKind DEF SameOwner
  <2>4. QED BY <1>3, <1>4, <2>2, <2>3, NamedConflict
<1>5. CASE row[x].kind = "period"
  BY <1>1, <1>3, <1>5 DEF Conflict, Named
<1>6. CASE row[x].kind = "entry"
  <2>1. ShareResource(row'[x], d) => ShareResource(row[x], d)
    BY <1>2, <1>6, RefsOfKind DEF ShareResource
  <2>2. QED BY <1>1, <1>3, <1>6, <2>1 DEF Conflict, Named
<1>7. CASE row[x].kind \notin Named \cup {"period", "entry"}
  BY <1>1, <1>7 DEF Conflict
<1>8. QED BY <1>4, <1>5, <1>6, <1>7

LEMMA NotNone == "NONE" \notin Kinds /\ "NONE" \notin Ids /\ Ids \cap Kinds = {}
BY RegistryAssumption DEF Kinds, Named, Booked, Outer

\* What a step of r leaves alone: whatever it does not touch.
Apart(r, T) == Touches(r) \cap T = {}

LEMMA MovesTouch ==
  ASSUME mode \in Modes, TypeOK, NEW r \in Reqs, NEW T, Moves(r), Apart(r, T), NEW z \in Ids, z \in T,
         row[z].kind \notin {"absent", "message"}
  PROVE  row'[z].kind = row[z].kind
<1>1. At(r, "delete") => req[r].x \in Touches(r)
  BY DEF At, Touches
<1>2. ~Goes(r, z)
  BY <1>1 DEF Goes, Apart, Is
<1>3. NoRow.kind = "absent"
  BY DEF NoRow
<1>4. QED BY <1>2, <1>3 DEF Moves, Stays, Comes, Is

LEMMA RefsExistKept ==
  ASSUME mode \in Modes, TypeOK, UNCHANGED mode, NEW r \in Reqs, NEW T, Moves(r), Apart(r, T), NEW d \in AllRows,
         Involves(d) \subseteq T, RefsExist(d)
  PROVE  RefsExist(d)'
<1>1. ASSUME NEW f \in (Refs(d.kind) \cap mode.scope) \ {"user"}, d.refs[f] # "NONE" PROVE row'[d.refs[f]].kind = f
  <2> DEFINE z == d.refs[f]
  <2>1. z \in Ids /\ f \in Kinds
    BY <1>1, ScopedRef
  <2>2. row[z].kind = f
    BY <1>1 DEF RefsExist, Is
  <2>3. f # "message" /\ f # "absent"
    <3>1. d.kind \in Kinds /\ f \in Refs(d.kind)
      BY <1>1, RowShape
    <3>2. QED BY <2>1, <3>1, KindFacts
  <2>4. z \in T
    BY <1>1 DEF Involves
  <2>5. QED BY <2>1, <2>2, <2>3, <2>4, MovesTouch
<1>2. \A f \in (Refs(d.kind) \cap mode.scope) \ {"user"} : d.refs[f] = "NONE" => f \in Optional(d.kind)
  BY DEF RefsExist
<1>3. mode' = mode
  OBVIOUS
<1>4. QED BY <1>1, <1>2, <1>3 DEF RefsExist, Is

LEMMA NoRivalKept ==
  ASSUME mode \in Modes, TypeOK, NEW r \in Reqs, NEW T, Moves(r), Apart(r, T), NEW d, NEW x, d.kind \in T,
         NoRival(d, x)
  PROVE  NoRival(d, x)'
<1>1. ASSUME NEW y \in Ids \ {x}, row'[y].kind \in Kinds PROVE ~Conflict(row'[y], d)
  <2>1. "deleted" \notin Kinds /\ Deleted.kind = "deleted" /\ "NONE" \notin Kinds
    BY KindFacts, NotNone DEF Deleted
  <2>2. CASE Stays(y)
    <3>1. Exists(y)
      BY <1>1, <2>2 DEF Stays, Exists
    <3>2. ~Conflict(row[y], d)
      BY <1>1, <3>1 DEF NoRival
    <3>3. QED BY <1>1, <2>2, <3>1, <3>2, ConflictBack
  <2>3. CASE Goes(r, y)
    BY <1>1, <2>1, <2>3 DEF Goes
  <2>4. CASE Comes(r, y)
    <3>1. row'[y].kind \in Touches(r)
      BY <1>1, <2>1, <2>4 DEF Comes, Involves
    <3>2. QED BY <3>1 DEF Conflict, Apart
  <2>5. QED BY <2>2, <2>3, <2>4 DEF Moves
<1>2. NoRival(d, x)' <=> \A y \in Ids \ {x} : row'[y].kind \in Kinds => ~Conflict(row'[y], d)
  BY DEF NoRival, Exists, Conflict, SameName, SameOwner, TimesOverlap, ShareResource
<1>3. QED BY <1>1, <1>2

LEMMA NoneOfKept ==
  ASSUME mode \in Modes, TypeOK, NEW r \in Reqs, NEW T, Moves(r), Apart(r, T), NEW kinds, NEW x \in Ids, x \in T,
         NoneOf(kinds, x)
  PROVE  NoneOf(kinds, x)'
<1>1. ASSUME NEW y \in Ids, row'[y].kind \in Kinds, NEW f \in Refs(row'[y].kind), row'[y].refs[f] = x
      PROVE  row'[y].kind \notin kinds
  <2>1. "deleted" \notin Kinds /\ Deleted.kind = "deleted" /\ x # "NONE"
    BY KindFacts, NotNone DEF Deleted
  <2>2. CASE Stays(y)
    <3>1. Exists(y) /\ row'[y].kind = row[y].kind /\ row[y].refs[f] = x
      BY <1>1, <2>1, <2>2 DEF Stays, Exists
    <3>2. QED BY <1>1, <3>1 DEF NoneOf, RefersTo
  <2>3. CASE Goes(r, y)
    BY <1>1, <2>1, <2>3 DEF Goes
  <2>4. CASE Comes(r, y)
    <3>1. x \in Involves(row'[y])
      BY <1>1, <2>1 DEF Involves
    <3>2. QED BY <2>4, <3>1 DEF Comes, Apart
  <2>5. QED BY <2>2, <2>3, <2>4 DEF Moves
<1>2. QED BY <1>1 DEF NoneOf, RefersTo, Exists

\* The flag of an account changes only when it is deactivated.
FlagsKept(r) ==
    \A u \in Ids :
      Is(u, "user") => row'[u].on = row[u].on \/ (At(r, "deactivate") /\ u = req[r].u /\ ~row'[u].on)

LEMMA UserUnwritten ==
  ASSUME Inv, NEW r \in Reqs, Begin(r) \/ Continue(r) \/ Die(r), NEW u \in Ids, Is(u, "user")
  PROVE  row'[u].on = row[u].on \/ (At(r, "deactivate") /\ u = req[r].u /\ ~row'[u].on)
<1>1. /\ mode \in Modes /\ TypeOK /\ req[r] \in Request /\ Knows(req[r])
      /\ row \in [Ids -> AllRows \cup {NoRow, Deleted}] /\ row[u].kind = "user" /\ row[u] # NoRow
  BY DEF Inv, TypeOK, Is, NoRow
<1>2. CASE Begin(r) \/ Die(r) \/ RoleInsert(r)
  <2>1. UNCHANGED row
    BY <1>1, <1>2, BeginCases DEF BeginsCreate, BeginsUpdate, BeginsDelete, BeginsFaculty, Create, Update, Delete,
       CreateFaculty, Die, RoleInsert
  <2>2. QED BY <2>1
<1>3. ASSUME NEW x \in Ids, Insert(r, x) PROVE row'[u] = row[u]
  BY <1>1, <1>3 DEF Insert
<1>4. ASSUME NEW x \in Ids, UserInsert(r, x) PROVE row'[u] = row[u]
  BY <1>1, <1>4 DEF UserInsert
<1>5. ASSUME UpdateWrite(r) PROVE row'[u] = row[u]
  <2>1. req[r].pc = "update" /\ req[r].x \in Ids /\ row[req[r].x].kind \in {req[r].d.kind, "deleted"} /\ req[r].d.kind \notin Fixed
    BY <1>1, <1>5, RequestShape DEF UpdateWrite, At, Knows
  <2>2. u # req[r].x
    BY <1>1, <2>1 DEF Fixed
  <2>3. QED BY <1>1, <1>5, <2>2 DEF UpdateWrite
<1>6. ASSUME DeleteWrite(r) PROVE row'[u] = row[u]
  <2>1. req[r].pc = "delete" /\ req[r].x \in Ids /\ row[req[r].x].kind \notin Fixed
    BY <1>1, <1>6, RequestShape DEF DeleteWrite, At, Knows
  <2>2. u # req[r].x
    BY <1>1, <2>1 DEF Fixed
  <2>3. \A x : ~GoesAlong(u, x) /\ ~RefersTo(u, x)
    BY <1>1, KindFacts, OptionalFacts DEF GoesAlong, RefersTo
  <2>4. QED BY <1>6, <2>2, <2>3 DEF DeleteWrite
<1>7. ASSUME ClearOtherCurrentYears(r) PROVE row'[u] = row[u]
  BY <1>1, <1>7 DEF ClearOtherCurrentYears, Is
<1>8. ASSUME Deactivate(r)
      PROVE  row'[u].on = row[u].on \/ (At(r, "deactivate") /\ u = req[r].u /\ ~row'[u].on)
  <2>1. At(r, "deactivate") /\ row' = [row EXCEPT ![req[r].u].on = FALSE]
    BY <1>8 DEF Deactivate
  <2>2. CASE u # req[r].u
    BY <1>1, <2>1, <2>2
  <2>3. CASE u = req[r].u
    <3>1. row[u] \in AllRows
      BY <1>1, KindFacts, RowKinds DEF Exists
    <3>2. row'[u] = [row[u] EXCEPT !.on = FALSE]
      BY <1>1, <2>1, <2>3
    <3>3. row[u] = [kind |-> row[u].kind, key |-> row[u].key, on |-> row[u].on, refs |-> row[u].refs]
      BY <1>1, <3>1, RowShape
    <3>4. ~row'[u].on
      BY <3>2, <3>3
    <3>5. QED BY <2>1, <2>3, <3>4
  <2>4. QED BY <2>2, <2>3
<1>9. QED BY <1>2, <1>3, <1>4, <1>5, <1>6, <1>7, <1>8 DEF Continue

\* What a request touches shrinks only, whatever the others do.
LEMMA TouchesKept ==
  ASSUME Inv, NEW r \in Reqs, NEW s \in Reqs, Apart(r, Touches(s)), Moves(r), req'[s] = req[s]
  PROVE  Touches(s)' \subseteq Touches(s)
<1>1. mode \in Modes /\ TypeOK /\ req[s] \in Request /\ Knows(req[s])
  BY DEF Inv, TypeOK
<1>2. CASE req[s].pc \in {"clearOthers", "deactivate", "delete"}
  <2>1. PICK x : x = req[s].x
    OBVIOUS
  <2>2. /\ x \in Ids /\ row[x].kind # "absent" /\ row[x].kind # "message"
        /\ Touches(s) = {x} \cup (IF Exists(x) THEN Involves(row[x]) ELSE {})
    BY <1>1, <1>2, <2>1, RequestShape DEF Knows, Fixed, Touches
  <2>3. Touches(s)' = {x} \cup (IF row'[x].kind \in Kinds THEN Involves(row'[x]) ELSE {})
    BY <1>2, <2>1 DEF Touches, Involves, Exists
  <2>4. row'[x].kind = row[x].kind
    BY <1>1, <2>2, MovesTouch
  <2>5. ASSUME row[x].kind \in Kinds PROVE Involves(row'[x]) \subseteq Involves(row[x])
    <3>1. Stays(x)
      <4>1. Deleted.kind = "deleted" /\ "deleted" \notin Kinds /\ NoRow.kind = "absent"
        BY KindFacts DEF Deleted, NoRow
      <4>2. ~Goes(r, x)
        BY <2>4, <2>5, <4>1 DEF Goes
      <4>3. x \notin Touches(r)
        BY <2>2 DEF Apart
      <4>4. ~Comes(r, x)
        BY <2>2, <4>1, <4>3 DEF Comes
      <4>5. QED BY <2>2, <4>2, <4>4 DEF Moves
    <3>2. QED BY <2>4, <2>5, <3>1 DEF Stays, Exists, Involves
  <2>6. QED BY <2>2, <2>3, <2>4, <2>5 DEF Exists
<1>3. CASE req[s].pc \notin {"clearOthers", "deactivate", "delete"}
  <2>1. PICK q : q = req[s]
    OBVIOUS
  <2>2. Touches(s)' = Touches(s)
    BY <1>3 DEF Touches, Involves
  <2>3. QED BY <2>2
<1>4. QED BY <1>2, <1>3

\* What a request checked stays true while another one moves.
LEMMA CheckedKept ==
  ASSUME Inv, UNCHANGED mode, NEW r \in Reqs, NEW s \in Reqs, Apart(r, Touches(s)), Moves(r), FlagsKept(r),
         req'[s] = req[s], Checked(req[s]), Checked(req[r])
  PROVE  Checked(req[s])'
<1>1. mode \in Modes /\ TypeOK /\ req[s] \in Request /\ Knows(req[s]) /\ Knows(req[r]) /\ req[r] \in Request
  BY DEF Inv, TypeOK
<1>2. PICK q : q = req[s]
  OBVIOUS
<1>3. Checked(req[s])' <=> Checked(q)'
  BY <1>2 DEF Checked, Account
<1>4. Checked(q) /\ Knows(q) /\ q \in Request /\ (q.pc \in {"update", "deactivate", "delete"} => q.x \in Ids)
  BY <1>1, <1>2, RequestShape
<1>5. ASSUME q.pc \in {"insert", "insertUser", "insertRole"} PROVE RefsExist(q.d)' /\ NoRival(q.d, "NONE")'
  <2>1. q.d \in AllRows /\ RefsExist(q.d) /\ NoRival(q.d, "NONE") /\ Touches(s) = Involves(q.d)
    BY <1>2, <1>4, <1>5, RequestShape DEF Checked, Touches
  <2>2. q.d.kind \in Kinds /\ q.d.kind # "NONE"
    BY <1>1, <2>1, RowShape, NotNone
  <2>3. q.d.kind \in Involves(q.d)
    BY <2>2 DEF Involves
  <2>4. QED BY <1>1, <2>1, <2>3, RefsExistKept, NoRivalKept
<1>6. ASSUME q.pc = "update" PROVE row'[q.x].kind \in Kinds /\ RefsExist(q.d)' /\ NoRival(q.d, q.x)'
  <2>1. /\ q.d \in AllRows /\ RefsExist(q.d) /\ NoRival(q.d, q.x) /\ Touches(s) = {q.x} \cup Involves(q.d)
        /\ Exists(q.x) /\ row[q.x].kind \in {q.d.kind, "deleted"} /\ q.d.kind \notin Fixed
    BY <1>2, <1>4, <1>6, RequestShape DEF Checked, Touches, Knows
  <2>2. q.d.kind \in Touches(s)
    <3>1. q.d.kind \in Kinds /\ q.d.kind # "NONE"
      BY <1>1, <2>1, RowShape, NotNone
    <3>2. q.d.kind \in Involves(q.d)
      BY <3>1 DEF Involves
    <3>3. QED BY <2>1, <3>2
  <2>3. row[q.x].kind \notin {"absent", "message"}
    BY <2>1, KindFacts DEF Fixed, Exists
  <2>4. row'[q.x].kind = row[q.x].kind
    BY <1>1, <1>4, <1>6, <2>1, <2>3, MovesTouch
  <2>5. QED BY <1>1, <2>1, <2>2, <2>4, RefsExistKept, NoRivalKept DEF Exists
<1>7. ASSUME q.pc \in {"deactivate", "delete"}
      PROVE  /\ row'[q.x].kind = row[q.x].kind /\ row[q.x].kind \in Kinds
             /\ \A kinds : NoneOf(kinds, q.x) => NoneOf(kinds, q.x)'
             /\ row[q.x].kind = "faculty" => row'[q.x].refs["user"] = row[q.x].refs["user"]
  <2>1. Exists(q.x) /\ q.x \in Touches(s) /\ row[q.x].kind \notin {"absent", "message"}
    BY <1>2, <1>4, <1>7, KindFacts DEF Checked, Knows, Fixed, Touches, Exists
  <2>2. row'[q.x].kind = row[q.x].kind
    BY <1>1, <1>4, <1>7, <2>1, MovesTouch
  <2>3. row[q.x] # NoRow
    BY <2>1 DEF NoRow
  <2>4. row[q.x].kind = "faculty" => row'[q.x].refs["user"] = row[q.x].refs["user"]
    BY <1>1, <1>4, <1>7, <2>2, <2>3, MembersKept
  <2>5. QED BY <1>1, <1>4, <1>7, <2>1, <2>2, <2>4, NoneOfKept DEF Exists
<1>8. ASSUME q.pc = "deactivate"
      PROVE  row'[q.x].kind \in Kinds /\ q.u = row'[q.x].refs["user"] /\ NoneOf({"entry"}, q.x)'
  <2>1. row[q.x].kind = "faculty" /\ q.u = row[q.x].refs["user"] /\ NoneOf({"entry"}, q.x)
    BY <1>4, <1>8, KindFacts DEF Checked, Knows, Exists
  <2>2. QED BY <1>7, <1>8, <2>1
<1>9. ASSUME q.pc = "delete"
      PROVE  /\ row'[q.x].kind \in Kinds
             /\ row'[q.x].kind = "section" => NoneOf({"student"}, q.x)'
             /\ row'[q.x].kind = "faculty" => NoneOf({"entry"}, q.x)' /\ ~row'[row'[q.x].refs["user"]].on
  <2>1. row[q.x].kind = "faculty" => NoneOf({"entry"}, q.x) /\ ~row[row[q.x].refs["user"]].on
    BY <1>4, <1>9 DEF Checked, Is
  <2>2. row[q.x].kind = "section" => NoneOf({"student"}, q.x)
    BY <1>4, <1>9 DEF Checked, Is
  <2>3. row[q.x].kind = "faculty" => ~row'[row'[q.x].refs["user"]].on
    <3>1. SUFFICES ASSUME row[q.x].kind = "faculty" PROVE ~row'[row'[q.x].refs["user"]].on
      OBVIOUS
    <3>2. PICK u \in Ids : u = row[q.x].refs["user"] /\ Is(u, "user")
      BY <1>4, <1>9, <3>1, MemberHasAccount DEF Is
    <3>3. ~row[u].on /\ row'[q.x].refs["user"] = u
      BY <1>7, <1>9, <2>1, <3>1, <3>2
    <3>4. ~row'[u].on
      BY <3>2, <3>3 DEF FlagsKept
    <3>5. QED BY <3>3, <3>4
  <2>4. QED BY <1>7, <1>9, <2>1, <2>2, <2>3
<1>10. ASSUME NEW u \in Account(q) PROVE row'[u].on
  <2>1. row[u].on /\ u \in Ids /\ Is(u, "user") /\ \A x \in Of("faculty") : row[x].refs["user"] # u
    BY <1>4, <1>10 DEF Checked, Knows
  <2>2. ~(At(r, "deactivate") /\ u = req[r].u)
    <3>1. SUFFICES ASSUME At(r, "deactivate"), u = req[r].u PROVE FALSE
      OBVIOUS
    <3>2. /\ req[r].x \in Ids /\ Exists(req[r].x) /\ u = row[req[r].x].refs["user"]
          /\ row[req[r].x].kind \in {"faculty", "deleted"}
      BY <1>1, <3>1, RequestShape DEF Checked, Knows, At
    <3>3. req[r].x \in Of("faculty")
      BY <3>2, KindFacts DEF Exists, Of, Is
    <3>4. QED BY <2>1, <3>2, <3>3
  <2>3. QED BY <2>1, <2>2 DEF FlagsKept
<1>11. Checked(q)'
  BY <1>5, <1>6, <1>8, <1>9, <1>10 DEF Checked, Exists, Is, Account
<1>12. QED BY <1>3, <1>11

\* The ids that a request touches are those of rows written before, and it touches
\* an account only as one that is about members.
LEMMA TouchedRows ==
  ASSUME Inv, NEW s \in Reqs, Checked(req[s]), NEW z \in Ids, z \in Touches(s)
  PROVE  row[z] # NoRow /\ (Is(z, "user") => "faculty" \in Touches(s))
<1>1. mode \in Modes /\ TypeOK /\ req[s] \in Request /\ Knows(req[s])
  BY DEF Inv, TypeOK
<1>2. PICK q : q = req[s]
  OBVIOUS
<1>3. NoRow.kind = "absent" /\ z \notin Kinds /\ z # "NONE" /\ "absent" \notin Kinds
  BY NotNone, KindFacts DEF NoRow
<1>4. ASSUME NEW d \in AllRows, z \in Involves(d), RefsExist(d),
             d.kind = "faculty" => d.refs["user"] = "NONE" \/ Is(d.refs["user"], "user")
      PROVE  row[z].kind # "absent" /\ (row[z].kind = "user" => d.kind = "faculty")
  <2>1. d.kind \in Kinds /\ "user" \in Kinds
    BY <1>1, RowShape, KindFacts
  <2>2. PICK f \in Refs(d.kind) : d.refs[f] = z
    BY <1>3, <1>4, <2>1 DEF Involves
  <2>3. f \in mode.scope /\ f \in Kinds
    BY <1>1, <2>2, ScopedRef
  <2>4. CASE f = "user"
    BY <1>3, <1>4, <2>1, <2>2, <2>4, KindFacts DEF Is
  <2>5. CASE f # "user"
    <3>1. row[z].kind = f
      BY <1>3, <1>4, <2>2, <2>3, <2>5 DEF RefsExist, Is
    <3>2. QED BY <1>3, <2>3, <2>5, <3>1
  <2>6. QED BY <2>4, <2>5
<1>5. ASSUME NEW d \in AllRows, d.kind = "faculty", Involves(d) \subseteq Touches(s) PROVE "faculty" \in Touches(s)
  BY <1>5 DEF Involves
<1>6. CASE q.pc \in {"insert", "insertUser", "insertRole"}
  <2>1. q.d \in AllRows /\ RefsExist(q.d) /\ Touches(s) = Involves(q.d)
    BY <1>1, <1>2, <1>6, RequestShape DEF Checked, Touches
  <2>2. q.d.kind = "faculty" => q.d.refs["user"] = "NONE" \/ Is(q.d.refs["user"], "user")
    BY <1>1, <1>2, <1>6 DEF Knows, Account
  <2>3. QED BY <1>3, <1>4, <1>5, <2>1, <2>2 DEF Is
<1>7. CASE q.pc = "update"
  <2>1. /\ q.d \in AllRows /\ RefsExist(q.d) /\ Touches(s) = {q.x} \cup Involves(q.d)
        /\ row[q.x].kind \in {q.d.kind, "deleted"} /\ q.d.kind \notin Fixed /\ q.d.kind \in Kinds
    BY <1>1, <1>2, <1>7, RequestShape, RowShape DEF Checked, Touches, Knows
  <2>2. q.d.kind = "faculty" => q.d.refs["user"] = "NONE" \/ Is(q.d.refs["user"], "user")
    BY <1>1, <1>2, <1>7 DEF Knows
  <2>3. CASE z = q.x
    BY <1>3, <2>1, <2>3 DEF Is, Fixed
  <2>4. CASE z # q.x
    BY <1>3, <1>4, <1>5, <2>1, <2>2, <2>4 DEF Is
  <2>5. QED BY <2>3, <2>4
<1>8. CASE q.pc \in {"clearOthers", "deactivate", "delete"}
  <2>1. PICK x : x = q.x
    OBVIOUS
  <2>2. /\ Touches(s) = {x} \cup (IF Exists(x) THEN Involves(row[x]) ELSE {})
        /\ x \in Ids /\ row[x].kind \notin {"absent", "user"}
    BY <1>1, <1>2, <1>8, <2>1, RequestShape DEF Touches, Knows, Fixed
  <2>3. CASE z = x
    BY <1>3, <2>2, <2>3 DEF Is
  <2>4. CASE z # x
    <3>1. Exists(x) /\ z \in Involves(row[x]) /\ row[x] \in AllRows /\ Linked(row[x])
      BY <1>1, <2>2, <2>4, RowKinds DEF Inv, RowsSound
    <3>2. RefsExist(row[x])
      BY <3>1 DEF Linked, RefsExist
    <3>3. row[x].kind = "faculty" => Is(row[x].refs["user"], "user")
      BY <2>2, MemberHasAccount DEF Is
    <3>4. QED BY <1>3, <1>4, <1>5, <2>2, <3>1, <3>2, <3>3 DEF Is
  <2>5. QED BY <2>3, <2>4
<1>9. CASE q.pc = "idle"
  BY <1>2, <1>9 DEF Touches
<1>10. QED BY <1>1, <1>2, <1>6, <1>7, <1>8, <1>9, RequestShape

-----------------------------------------------------------------------------
\* Steps of requests that take turns.

LEMMA TurnsStep ==
  ASSUME Inv, InTurns, UNCHANGED mode, NEW r \in Reqs, NEW y, Goto(r, y), Moves(r), FlagsKept(r),
         NoClash', Checked(y)', \A s \in Reqs \ {r} : Touches(r)' \cap Touches(s) = {}
  PROVE  InTurns'
<1>1. req'[r] = y /\ \A s \in Reqs \ {r} : req'[s] = req[s]
  BY RequestStep DEF Inv
<1>2. ASSUME NEW s \in Reqs \ {r} PROVE Touches(s)' \subseteq Touches(s) /\ Checked(req[s])'
  <2>1. Apart(r, Touches(s)) /\ Checked(req[s]) /\ Checked(req[r]) /\ req'[s] = req[s]
    BY <1>1 DEF InTurns, Turns, Apart
  <2>2. QED BY <2>1, TouchesKept, CheckedKept
<1>3. Turns'
  <2>1. SUFFICES ASSUME NEW q \in Reqs, NEW s \in Reqs, q # s PROVE Touches(q)' \cap Touches(s)' = {}
    BY DEF Turns
  <2>2. CASE q = r
    BY <1>2, <2>1, <2>2
  <2>3. CASE s = r
    BY <1>2, <2>1, <2>3
  <2>4. CASE q # r /\ s # r
    BY <1>2, <2>1, <2>4 DEF InTurns, Turns
  <2>5. QED BY <2>2, <2>3, <2>4
<1>4. Checked(req[r])' <=> Checked(y)'
  BY <1>1 DEF Checked, Account
<1>5. (\A q \in Reqs : Checked(req[q]))'
  BY <1>2, <1>4
<1>6. QED BY <1>3, <1>5 DEF InTurns

\* A request that is answered, or goes on with no more than it had.
LEMMA TurnsEnd ==
  ASSUME Inv, InTurns, UNCHANGED mode, NEW r \in Reqs, Goto(r, Idle), Moves(r), FlagsKept(r), NoClash'
  PROVE  InTurns'
<1>1. req'[r] = Idle
  BY RequestStep DEF Inv
<1>2. Touches(r)' = {}
  BY <1>1 DEF Touches, Idle
<1>3. Checked(Idle)'
  BY DEF Checked, Account, Idle
<1>4. QED BY <1>2, <1>3, TurnsStep

LEMMA NoneComes ==
  ASSUME Inv, NoClash, NEW r \in Reqs, \A z \in Ids : Stays(z) \/ Goes(r, z)
  PROVE  NoClash'
<1>1. SUFFICES ASSUME NEW x \in Ids, NEW y \in Ids, x # y, row'[x].kind \in Kinds, row'[y].kind \in Kinds,
                      Conflict(row'[x], row'[y])
               PROVE  FALSE
  <2>1. NoClash' <=> \A x, y \in Ids : x # y /\ row'[x].kind \in Kinds /\ row'[y].kind \in Kinds => ~Conflict(row'[x], row'[y])
    BY DEF NoClash, Exists, Conflict, SameName, SameOwner, TimesOverlap, ShareResource
  <2>2. QED BY <2>1
<1>2. Deleted.kind \notin Kinds
  BY KindFacts DEF Deleted
<1>3. Stays(x) /\ Stays(y) /\ Exists(x) /\ Exists(y)
  BY <1>1, <1>2 DEF Goes, Stays, Exists
<1>4. Conflict(row[x], row'[y])
  BY <1>1, <1>3, ConflictBack
<1>5. Conflict(row'[y], row[x])
  BY <1>4, ConflictBothWays
<1>6. Conflict(row[y], row[x])
  BY <1>3, <1>5, ConflictBack
<1>7. QED BY <1>1, <1>3, <1>6 DEF NoClash

LEMMA PutNoClash ==
  ASSUME Inv, NoClash, NEW x \in Ids, NEW d, row' = [row EXCEPT ![x] = d], NoRival(d, x)
  PROVE  NoClash'
<1>1. row'[x] = d /\ \A y \in Ids \ {x} : row'[y] = row[y]
  BY DEF Inv, TypeOK
<1>2. ASSUME NEW y \in Ids, NEW z \in Ids, y # z, row'[y].kind \in Kinds, row'[z].kind \in Kinds
      PROVE  ~Conflict(row'[y], row'[z])
  <2>1. CASE y = x
    BY <1>1, <1>2, <2>1, ConflictBothWays DEF NoRival, Exists
  <2>2. CASE z = x
    BY <1>1, <1>2, <2>2 DEF NoRival, Exists
  <2>3. CASE y # x /\ z # x
    BY <1>1, <1>2, <2>3 DEF NoClash, Exists
  <2>4. QED BY <2>1, <2>2, <2>3
<1>3. NoClash' <=> \A y, z \in Ids : y # z /\ row'[y].kind \in Kinds /\ row'[z].kind \in Kinds => ~Conflict(row'[y], row'[z])
  BY DEF NoClash, Exists, Conflict, SameName, SameOwner, TimesOverlap, ShareResource
<1>4. QED BY <1>2, <1>3

LEMMA NoWrite ==
  ASSUME Inv, NoClash, NEW r \in Reqs, UNCHANGED row
  PROVE  NoClash'
BY NoneComes DEF Stays

LEMMA BeginTurns ==
  ASSUME Inv, ~MayOverlap, InTurns, NEW r \in Reqs, Begin(r), UNCHANGED mode
  PROVE  InTurns'
<1>1. mode \in Modes /\ TypeOK /\ Moves(r) /\ FlagsKept(r)
  BY StepMoves, UserUnwritten DEF Inv, FlagsKept
<1>2. ASSUME UNCHANGED <<row, teacher>>, NEW y, Goto(r, y), Checked(y), NEW things, Touches(r)' \subseteq things,
             MayStart(r, things)
      PROVE  InTurns'
  <2>1. Checked(y)'
    BY <1>2 DEF Checked, RefsExist, NoRival, NoneOf, RefersTo, Exists, Is, Account
  <2>2. NoClash'
    BY <1>2, NoWrite DEF InTurns
  <2>3. \A s \in Reqs : Touches(r)' \cap Touches(s) = {}
    BY <1>2 DEF MayStart
  <2>4. QED BY <1>1, <1>2, <2>1, <2>2, <2>3, TurnsStep
<1>3. ASSUME NEW d \in AllRows, Create(r, d), d.kind \notin {"faculty", "user"} PROVE InTurns'
  <2>1. PICK y : y = [pc |-> "insert", d |-> d]
    OBVIOUS
  <2>2. Goto(r, y) /\ RefsExist(d) /\ NoRival(d, "NONE") /\ MayStart(r, Involves(d)) /\ UNCHANGED <<row, teacher>>
    BY <1>3, <2>1 DEF Create
  <2>3. req'[r] = y
    BY <1>1, <2>2, RequestStep
  <2>4. Touches(r)' = Involves(d)
    BY <2>1, <2>3 DEF Touches, Involves
  <2>5. Checked(y)
    BY <1>3, <2>1, <2>2 DEF Checked, Account
  <2>6. QED BY <1>2, <2>2, <2>4, <2>5
<1>4. ASSUME NEW d \in AllRows, NEW x \in Ids, Update(r, x, d) PROVE InTurns'
  <2>1. PICK y : y = [pc |-> "update", x |-> x, d |-> d]
    OBVIOUS
  <2>2. /\ Goto(r, y) /\ RefsExist(d) /\ NoRival(d, x) /\ Is(x, d.kind) /\ UNCHANGED <<row, teacher>>
        /\ MayStart(r, {x} \cup Involves(d) \cup Involves(row[x]))
    BY <1>4, <2>1 DEF Update
  <2>3. req'[r] = y /\ Exists(x)
    BY <1>1, <2>2, RequestStep, RowShape DEF Exists, Is
  <2>4. Touches(r)' = {x} \cup Involves(d)
    BY <2>1, <2>3 DEF Touches, Involves
  <2>5. Checked(y)
    BY <2>1, <2>2, <2>3 DEF Checked, Account
  <2>6. Touches(r)' \subseteq {x} \cup Involves(d) \cup Involves(row[x])
    BY <2>4
  <2>7. QED BY <1>2, <2>2, <2>5, <2>6
<1>5. ASSUME NEW x \in Ids, NEW counted, Delete(r, x, counted), Exists(x),
             Is(x, "section") => "student" \in counted, Is(x, "faculty") => "entry" \in counted
      PROVE  InTurns'
  <2>1. PICK y : y = IF Is(x, "faculty") THEN [pc |-> "deactivate", x |-> x, u |-> row[x].refs["user"]]
                                         ELSE [pc |-> "delete", x |-> x]
    OBVIOUS
  <2>2. Goto(r, y) /\ NoneOf(counted, x) /\ MayStart(r, {x} \cup Involves(row[x])) /\ UNCHANGED <<row, teacher>>
    BY <1>5, <2>1 DEF Delete
  <2>3. req'[r] = y /\ y.x = x /\ y.pc \in {"deactivate", "delete"}
    BY <1>1, <2>1, <2>2, RequestStep
  <2>4. Touches(r)' = {x} \cup Involves(row[x])
    BY <1>5, <2>2, <2>3 DEF Touches, Involves, Exists
  <2>5. /\ Is(x, "section") => NoneOf({"student"}, x)
        /\ Is(x, "faculty") => NoneOf({"entry"}, x)
    BY <1>5, <2>2 DEF NoneOf
  <2>6. Checked(y)
    <3>1. CASE Is(x, "faculty")
      BY <1>5, <2>1, <2>5, <3>1 DEF Checked, Account
    <3>2. CASE ~Is(x, "faculty")
      BY <1>5, <2>1, <2>5, <3>2 DEF Checked, Account
    <3>3. QED BY <3>1, <3>2
  <2>7. QED BY <1>2, <2>2, <2>4, <2>6
<1>6. ASSUME NEW d \in AllRows, NEW email \in Names, CreateFaculty(r, d, email) PROVE InTurns'
  <2>1. PICK y : y = [pc |-> "insertUser", d |-> d, email |-> email]
    OBVIOUS
  <2>2. Goto(r, y) /\ RefsExist(d) /\ NoRival(d, "NONE") /\ MayStart(r, Involves(d)) /\ UNCHANGED <<row, teacher>>
    BY <1>6, <2>1 DEF CreateFaculty
  <2>3. req'[r] = y
    BY <1>1, <2>2, RequestStep
  <2>4. Touches(r)' = Involves(d)
    BY <2>1, <2>3 DEF Touches, Involves
  <2>5. Checked(y)
    BY <2>1, <2>2 DEF Checked, Account
  <2>6. QED BY <1>2, <2>2, <2>4, <2>5
<1>7. QED BY <1>1, <1>3, <1>4, <1>5, <1>6, BeginCases DEF BeginsCreate, BeginsUpdate, BeginsDelete, BeginsFaculty

\* A write goes through, and the year it makes current stays the request's.
LEMMA WriteTurns ==
  ASSUME Inv, InTurns, UNCHANGED mode, NEW r \in Reqs, Moves(r), FlagsKept(r), NEW x \in Ids, NEW d \in AllRows,
         row' = [row EXCEPT ![x] = d], AfterWrite(r, x, d), NoRival(d, x), Involves(d) \subseteq Touches(r),
         row[x] = NoRow \/ x \in Touches(r)
  PROVE  InTurns'
<1>1. NoClash'
  BY PutNoClash DEF InTurns
<1>2. CASE d.kind = "year" /\ d.on
  <2>1. PICK y : y = [pc |-> "clearOthers", x |-> x]
    OBVIOUS
  <2>2. Goto(r, y) /\ req'[r] = y /\ row'[x] = d
    BY <1>2, <2>1, RequestStep DEF AfterWrite, Inv, TypeOK
  <2>3. Checked(y)'
    BY <2>1 DEF Checked, Account
  <2>4. Touches(r)' \subseteq {x} \cup Involves(d)
    BY <2>1, <2>2 DEF Touches, Involves
  <2>5. ASSUME NEW s \in Reqs \ {r} PROVE x \notin Touches(s) /\ Involves(d) \cap Touches(s) = {}
    <3>1. Touches(r) \cap Touches(s) = {} /\ Checked(req[s])
      BY DEF InTurns, Turns
    <3>2. QED BY <3>1, TouchedRows
  <2>6. \A s \in Reqs \ {r} : Touches(r)' \cap Touches(s) = {}
    BY <2>4, <2>5
  <2>7. QED BY <1>1, <2>2, <2>3, <2>6, TurnsStep
<1>3. CASE ~(d.kind = "year" /\ d.on)
  BY <1>1, <1>3, TurnsEnd DEF AfterWrite, Done
<1>4. QED BY <1>2, <1>3

LEMMA InsertTurns ==
  ASSUME Inv, InTurns, NEW r \in Reqs, NEW x \in Ids, Insert(r, x), UNCHANGED mode
  PROVE  InTurns'
<1>1. mode \in Modes /\ TypeOK /\ Moves(r) /\ FlagsKept(r) /\ req[r] \in Request /\ Checked(req[r])
  BY StepMoves, UserUnwritten DEF Inv, FlagsKept, Continue, InTurns, TypeOK
<1>2. PICK d : d = req[r].d
  OBVIOUS
<1>3. req[r].pc = "insert" /\ d \in AllRows /\ row[x] = NoRow /\ NoRival(d, "NONE") /\ Touches(r) = Involves(d)
  BY <1>1, <1>2, RequestShape DEF Insert, At, Checked, Touches
<1>4. NoRival(d, x)
  BY <1>3, NotNone DEF NoRival
<1>5. CASE Writable(d, x)
  <2>1. row' = [row EXCEPT ![x] = d] /\ AfterWrite(r, x, d)
    BY <1>2, <1>5 DEF Insert
  <2>2. QED BY <1>1, <1>3, <1>4, <2>1, WriteTurns
<1>6. CASE ~Writable(d, x)
  <2>1. UNCHANGED row /\ Goto(r, Idle)
    BY <1>2, <1>6 DEF Insert, Done
  <2>2. QED BY <1>1, <2>1, NoWrite, TurnsEnd DEF InTurns
<1>7. QED BY <1>5, <1>6

LEMMA UpdateTurns ==
  ASSUME Inv, InTurns, NEW r \in Reqs, UpdateWrite(r), UNCHANGED mode
  PROVE  InTurns'
<1>1. mode \in Modes /\ TypeOK /\ Moves(r) /\ FlagsKept(r) /\ req[r] \in Request /\ Checked(req[r])
  BY StepMoves, UserUnwritten DEF Inv, FlagsKept, Continue, InTurns, TypeOK
<1>2. PICK d, x : d = req[r].d /\ x = req[r].x
  OBVIOUS
<1>3. req[r].pc = "update" /\ d \in AllRows /\ x \in Ids /\ NoRival(d, x) /\ Touches(r) = {x} \cup Involves(d)
  BY <1>1, <1>2, RequestShape DEF UpdateWrite, At, Checked, Touches
<1>4. CASE Exists(x) /\ Writable(d, x)
  <2>1. row' = [row EXCEPT ![x] = d] /\ AfterWrite(r, x, d)
    BY <1>2, <1>4 DEF UpdateWrite
  <2>2. QED BY <1>1, <1>3, <2>1, WriteTurns
<1>5. CASE ~(Exists(x) /\ Writable(d, x))
  <2>1. UNCHANGED row /\ Goto(r, Idle)
    BY <1>2, <1>5 DEF UpdateWrite, Done
  <2>2. QED BY <1>1, <2>1, NoWrite, TurnsEnd DEF InTurns
<1>6. QED BY <1>4, <1>5

LEMMA UserTurns ==
  ASSUME Inv, InTurns, NEW r \in Reqs, NEW u \in Ids, UserInsert(r, u), UNCHANGED mode
  PROVE  InTurns'
<1>1. /\ mode \in Modes /\ TypeOK /\ Moves(r) /\ FlagsKept(r) /\ req[r] \in Request /\ Checked(req[r]) /\ Knows(req[r])
  BY StepMoves, UserUnwritten DEF Inv, FlagsKept, Continue, InTurns, TypeOK
<1>2. PICK d, w : d = req[r].d /\ w = NewUser(req[r].email)
  OBVIOUS
<1>3. /\ req[r].pc = "insertUser" /\ d \in AllRows /\ row[u] = NoRow /\ Touches(r) = Involves(d)
      /\ RefsExist(d) /\ NoRival(d, "NONE") /\ d.kind = "faculty"
  BY <1>1, <1>2, RequestShape DEF UserInsert, At, Checked, Touches, Knows
<1>4. CASE \A v \in Of("user") : row[v].key # req[r].email
  <2>1. PICK y : y = [pc |-> "insertRole", d |-> d, u |-> u]
    OBVIOUS
  <2>2. row' = [row EXCEPT ![u] = w] /\ Goto(r, y)
    BY <1>2, <1>4, <2>1 DEF UserInsert, NewUser
  <2>3. req'[r] = y /\ row'[u] = w /\ \A z \in Ids \ {u} : row'[z] = row[z]
    BY <1>1, <2>2, RequestStep DEF TypeOK
  <2>4. w.kind = "user" /\ w.key = req[r].email /\ w.on
    BY <1>2 DEF NewUser
  <2>5. NoRival(w, u)
    <3>1. SUFFICES ASSUME NEW z \in Ids \ {u}, Exists(z), Conflict(row[z], w) PROVE FALSE
      BY DEF NoRival
    <3>2. row[z].kind = "user"
      BY <2>4, <3>1 DEF Conflict
    <3>3. row[z].key = w.key
      BY <3>1, <3>2 DEF Conflict, Named, SameName
    <3>4. QED BY <1>4, <2>4, <3>1, <3>2, <3>3 DEF Of, Is
  <2>6. NoClash'
    BY <2>2, <2>5, PutNoClash DEF InTurns
  <2>7. RefsExist(d)'
    <3>1. ASSUME NEW f \in (Refs(d.kind) \cap mode.scope) \ {"user"}, d.refs[f] # "NONE"
          PROVE  row'[d.refs[f]].kind = f
      <4>1. d.refs[f] \in Ids /\ f \in Kinds /\ row[d.refs[f]].kind = f
        BY <1>1, <1>3, <3>1, ScopedRef DEF RefsExist, Is
      <4>2. d.refs[f] # u
        BY <1>3, <4>1, KindFacts DEF NoRow
      <4>3. QED BY <2>3, <4>1, <4>2
    <3>2. \A f \in (Refs(d.kind) \cap mode.scope) \ {"user"} : d.refs[f] = "NONE" => f \in Optional(d.kind)
      BY <1>3 DEF RefsExist
    <3>3. mode' = mode
      OBVIOUS
    <3>4. QED BY <3>1, <3>2, <3>3 DEF RefsExist, Is
  <2>8. NoRival(d, "NONE")'
    <3>1. ASSUME NEW z \in Ids \ {"NONE"}, row'[z].kind \in Kinds PROVE ~Conflict(row'[z], d)
      <4>1. CASE z = u
        BY <1>3, <2>3, <2>4, <4>1 DEF Conflict
      <4>2. CASE z # u
        BY <1>3, <2>3, <3>1, <4>2 DEF NoRival, Exists
      <4>3. QED BY <4>1, <4>2
    <3>2. NoRival(d, "NONE")' <=> \A z \in Ids \ {"NONE"} : row'[z].kind \in Kinds => ~Conflict(row'[z], d)
      BY DEF NoRival, Exists, Conflict, SameName, SameOwner, TimesOverlap, ShareResource
    <3>3. QED BY <3>1, <3>2
  <2>9. Checked(y)'
    BY <2>1, <2>3, <2>4, <2>7, <2>8 DEF Checked, Account
  <2>10. Touches(r)' = Touches(r)
    BY <1>3, <2>1, <2>3 DEF Touches, Involves
  <2>11. \A s \in Reqs \ {r} : Touches(r)' \cap Touches(s) = {}
    BY <2>10 DEF InTurns, Turns
  <2>12. QED BY <1>1, <2>2, <2>6, <2>9, <2>11, TurnsStep
<1>5. CASE ~(\A v \in Of("user") : row[v].key # req[r].email)
  <2>1. UNCHANGED row /\ Goto(r, Idle)
    BY <1>5 DEF UserInsert, Done
  <2>2. QED BY <1>1, <2>1, NoWrite, TurnsEnd DEF InTurns
<1>6. QED BY <1>4, <1>5

LEMMA RoleTurns ==
  ASSUME Inv, InTurns, NEW r \in Reqs, RoleInsert(r), UNCHANGED mode
  PROVE  InTurns'
<1>1. /\ mode \in Modes /\ TypeOK /\ Moves(r) /\ FlagsKept(r) /\ req[r] \in Request /\ Checked(req[r]) /\ Knows(req[r])
  BY StepMoves, UserUnwritten DEF Inv, FlagsKept, Continue, InTurns, TypeOK
<1>2. PICK d, u, e : d = req[r].d /\ u = req[r].u /\ e = [d EXCEPT !.refs["user"] = u]
  OBVIOUS
<1>3. PICK y : y = [pc |-> "insert", d |-> e]
  OBVIOUS
<1>4. /\ req[r].pc = "insertRole" /\ d \in AllRows /\ u \in Ids /\ Touches(r) = Involves(d)
      /\ RefsExist(d) /\ NoRival(d, "NONE") /\ Account(req[r]) = {u} /\ UNCHANGED row /\ Goto(r, y)
  BY <1>1, <1>2, <1>3, RequestShape DEF RoleInsert, At, Checked, Touches, Account
<1>5. d.kind = "faculty" /\ Is(u, "user") /\ row[u].on /\ req'[r] = y
  BY <1>1, <1>2, <1>4, RequestStep DEF Knows, Checked
<1>6. /\ e.kind = "faculty" /\ e.key = d.key /\ e.refs["user"] = u /\ e.refs["department"] = d.refs["department"]
  <2>1. "faculty" \in mode.scope
    BY <1>1, <1>4, <1>5, RowShape
  <2>2. "user" \in mode.scope
    BY <1>1, <2>1, RegistryAssumption
  <2>3. u \in Targets("faculty", "user", mode.scope)
    BY <1>4, <2>2 DEF Targets
  <2>4. QED BY <1>1, <1>2, <1>4, <1>5, <2>3, WithUser
<1>7. RefsExist(e)
  BY <1>4, <1>5, <1>6, RefsOfKind DEF RefsExist
<1>8. NoRival(e, "NONE")
  <2>1. SUFFICES ASSUME NEW z \in Ids \ {"NONE"}, Exists(z), Conflict(row[z], e) PROVE FALSE
    BY DEF NoRival
  <2>2. row[z].kind = "faculty" /\ "faculty" \in Named
    BY <1>6, <2>1 DEF Conflict, Named
  <2>3. SameName(row[z], e) /\ SameOwner(row[z], e)
    BY <2>1, <2>2, NamedConflict
  <2>4. SameName(row[z], d) /\ SameOwner(row[z], d)
    BY <1>6, <2>2, <2>3 DEF SameName, SameOwner
  <2>5. Conflict(row[z], d)
    BY <1>5, <2>2, <2>4, NamedConflict
  <2>6. QED BY <1>4, <2>1, <2>5 DEF NoRival
<1>9. Account(y) = {u}
  BY <1>3, <1>6 DEF Account
<1>10. Checked(y)
  BY <1>3, <1>5, <1>7, <1>8, <1>9 DEF Checked
<1>11. Checked(y)'
  BY <1>4, <1>10 DEF Checked, RefsExist, NoRival, NoneOf, RefersTo, Exists, Is, Account
<1>12. Touches(r)' \subseteq Touches(r) \cup {u}
  <2>1. Touches(r)' = Involves(e)
    BY <1>3, <1>5 DEF Touches, Involves
  <2>2. Involves(e) \subseteq Involves(d) \cup {u}
    BY <1>5, <1>6, RefsOfKind DEF Involves
  <2>3. QED BY <1>4, <2>1, <2>2
<1>13. ASSUME NEW s \in Reqs \ {r} PROVE Touches(r) \cap Touches(s) = {} /\ u \notin Touches(s)
  <2>1. Touches(r) \cap Touches(s) = {} /\ Checked(req[s])
    BY DEF InTurns, Turns
  <2>2. "faculty" \in Touches(r)
    BY <1>4, <1>5 DEF Involves
  <2>3. QED BY <1>4, <1>5, <2>1, <2>2, TouchedRows
<1>14. NoClash'
  BY <1>4, NoWrite DEF InTurns
<1>15. \A s \in Reqs \ {r} : Touches(r)' \cap Touches(s) = {}
  BY <1>12, <1>13
<1>16. QED BY <1>1, <1>4, <1>11, <1>14, <1>15, TurnsStep

LEMMA ClearTurns ==
  ASSUME Inv, InTurns, NEW r \in Reqs, ClearOtherCurrentYears(r), UNCHANGED mode
  PROVE  InTurns'
<1>1. Moves(r) /\ FlagsKept(r) /\ Goto(r, Idle)
  BY StepMoves, UserUnwritten DEF FlagsKept, Continue, ClearOtherCurrentYears, Done
<1>2. /\ row' = [z \in Ids |-> row'[z]]
      /\ \A z \in Ids : \/ row'[z] = row[z]
                        \/ row[z].kind \in {"year", "user"} /\ row'[z] = [row[z] EXCEPT !.on = FALSE]
  BY DEF ClearOtherCurrentYears, Is
<1>3. \A z \in Ids : Stays(z)
  BY <1>2, FlagStep DEF ClearOtherCurrentYears
<1>4. NoClash'
  BY <1>3, NoneComes DEF InTurns
<1>5. QED BY <1>1, <1>4, TurnsEnd

LEMMA DeleteTurns ==
  ASSUME Inv, InTurns, NEW r \in Reqs, DeleteWrite(r), UNCHANGED mode
  PROVE  InTurns'
<1>1. Moves(r) /\ FlagsKept(r) /\ Goto(r, Idle)
  BY StepMoves, UserUnwritten DEF FlagsKept, Continue, DeleteWrite, Done
<1>2. PICK x : x = req[r].x
  OBVIOUS
<1>3. CASE Exists(x) /\ ~Held(x)
  <2>1. x \in Ids /\ row[x].kind \notin Fixed /\ At(r, "delete")
    <3>1. req[r] \in Request /\ Knows(req[r]) /\ req[r].pc = "delete"
      BY DEF Inv, TypeOK, DeleteWrite, At
    <3>2. QED BY <1>2, <3>1, RequestShape DEF Knows, At
  <2>2. row' = [y \in Ids |-> IF y = x \/ GoesAlong(y, x) THEN Deleted
                              ELSE IF RefersTo(y, x) THEN Unlinked(row[y], x) ELSE row[y]]
    BY <1>2, <1>3 DEF DeleteWrite
  <2>3. UNCHANGED teacher
    BY DEF DeleteWrite
  <2>4. \A z \in Ids : Stays(z) \/ Goes(r, z)
    BY <1>2, <1>3, <2>1, <2>2, <2>3, DropStep
  <2>5. QED BY <1>1, <2>4, NoneComes, TurnsEnd DEF InTurns
<1>4. CASE ~(Exists(x) /\ ~Held(x))
  <2>1. UNCHANGED row
    BY <1>2, <1>4 DEF DeleteWrite
  <2>2. QED BY <1>1, <2>1, NoWrite, TurnsEnd DEF InTurns
<1>5. QED BY <1>3, <1>4

\* What the deactivation of an account changes.
LEMMA DeactivateStep ==
  ASSUME Inv, NEW r \in Reqs, Deactivate(r), UNCHANGED mode
  PROVE  /\ \A z \in Ids : row'[z].kind = row[z].kind /\ (z # req[r].u => row'[z] = row[z])
         /\ \A z \in Ids : Exists(z) => row'[z].key = row[z].key /\ row'[z].refs = row[z].refs
         /\ \A z \in Ids : Stays(z)
         /\ req[r].u \in Ids /\ ~row'[req[r].u].on
<1>1. mode \in Modes /\ TypeOK /\ req[r] \in Request /\ Knows(req[r]) /\ req[r].pc = "deactivate"
  BY DEF Inv, TypeOK, Deactivate, At
<1>2. PICK u : u = req[r].u
  OBVIOUS
<1>3. row' = [row EXCEPT ![u].on = FALSE] /\ u \in Ids /\ row[u].kind = "user" /\ UNCHANGED teacher
  BY <1>1, <1>2, RequestShape DEF Deactivate, Knows, Is
<1>4. row'[u] = [row[u] EXCEPT !.on = FALSE] /\ \A z \in Ids \ {u} : row'[z] = row[z]
  BY <1>1, <1>3 DEF TypeOK
<1>5. row[u] \in AllRows /\ FALSE \in Flags(row[u].kind)
  BY <1>1, <1>3, KindFacts, RowKinds DEF Exists, Flags
<1>6. PICK b \in Flags(row[u].kind) : b = FALSE
  BY <1>5
<1>7. row'[u].kind = row[u].kind /\ row'[u].key = row[u].key /\ row'[u].refs = row[u].refs
  <2>1. row'[u] = [row[u] EXCEPT !.on = b]
    BY <1>4, <1>6
  <2>2. QED BY <1>1, <1>5, <2>1, FlagRow
<1>8. ~row'[u].on
  <2>1. row[u] = [kind |-> row[u].kind, key |-> row[u].key, on |-> row[u].on, refs |-> row[u].refs]
    BY <1>1, <1>5, RowShape
  <2>2. row'[u] = [kind |-> row[u].kind, key |-> row[u].key, on |-> FALSE, refs |-> row[u].refs]
    BY <1>4, <2>1
  <2>3. QED BY <2>2
<1>9. ASSUME NEW z \in Ids
      PROVE  /\ row'[z].kind = row[z].kind
             /\ Exists(z) => row'[z].key = row[z].key /\ row'[z].refs = row[z].refs
  BY <1>4, <1>7
<1>10. \A z \in Ids : Stays(z)
  BY <1>9 DEF Stays
<1>11. QED BY <1>2, <1>3, <1>4, <1>8, <1>9, <1>10

LEMMA DeactivateTurns ==
  ASSUME Inv, InTurns, NEW r \in Reqs, Deactivate(r), UNCHANGED mode
  PROVE  InTurns'
<1>1. /\ mode \in Modes /\ TypeOK /\ Moves(r) /\ FlagsKept(r) /\ req[r] \in Request /\ Checked(req[r]) /\ Knows(req[r])
  BY StepMoves, UserUnwritten DEF Inv, FlagsKept, Continue, InTurns, TypeOK
<1>2. PICK x, u, y : x = req[r].x /\ u = req[r].u /\ y = [pc |-> "delete", x |-> x]
  OBVIOUS
<1>3. req[r].pc = "deactivate" /\ x \in Ids /\ Goto(r, y)
  BY <1>1, <1>2, RequestShape DEF Deactivate, At
<1>4. Exists(x) /\ u = row[x].refs["user"] /\ NoneOf({"entry"}, x) /\ row[x].kind = "faculty"
  BY <1>1, <1>2, <1>3, KindFacts DEF Checked, Knows, Exists
<1>5. /\ \A z \in Ids : row'[z].kind = row[z].kind /\ (Exists(z) => row'[z].refs = row[z].refs)
      /\ \A z \in Ids : Stays(z)
      /\ ~row'[u].on
  BY <1>2, DeactivateStep
<1>6. NoneOf({"entry"}, x)'
  BY <1>4, <1>5 DEF NoneOf, RefersTo, Exists
<1>7. row'[x].kind = "faculty" /\ row'[x].refs = row[x].refs /\ "faculty" \in Kinds
  BY <1>3, <1>4, <1>5, KindFacts
<1>8. Checked(y)'
  <2>1. ~row'[row'[x].refs["user"]].on
    BY <1>4, <1>5, <1>7
  <2>2. QED BY <1>2, <1>6, <1>7, <2>1 DEF Checked, Account, Exists, Is
<1>9. req'[r] = y
  BY <1>1, <1>3, RequestStep
<1>10. Touches(r)' = Touches(r)
  <2>1. Touches(r) = {x} \cup Involves(row[x])
    BY <1>2, <1>3, <1>4 DEF Touches
  <2>2. Touches(r)' = {x} \cup Involves(row'[x])
    BY <1>2, <1>7, <1>9 DEF Touches, Exists, Involves
  <2>3. Involves(row'[x]) = Involves(row[x])
    BY <1>4, <1>7 DEF Involves
  <2>4. QED BY <2>1, <2>2, <2>3
<1>11. NoClash'
  BY <1>5, NoneComes DEF InTurns
<1>12. \A s \in Reqs \ {r} : Touches(r)' \cap Touches(s) = {}
  BY <1>10 DEF InTurns, Turns
<1>13. QED BY <1>1, <1>3, <1>8, <1>11, <1>12, TurnsStep

LEMMA DieTurns ==
  ASSUME Inv, InTurns, NEW r \in Reqs, Die(r), UNCHANGED mode
  PROVE  InTurns'
<1>1. Moves(r) /\ FlagsKept(r) /\ Goto(r, Idle) /\ UNCHANGED row
  BY StepMoves, UserUnwritten DEF FlagsKept, Die, Done
<1>2. QED BY <1>1, NoWrite, TurnsEnd DEF InTurns

LEMMA StepTurns ==
  ASSUME Inv, ~MayOverlap, InTurns, NEW r \in Reqs, Begin(r) \/ Continue(r) \/ Die(r), UNCHANGED mode
  PROVE  InTurns'
BY BeginTurns, InsertTurns, UpdateTurns, DeleteTurns, ClearTurns, DeactivateTurns, UserTurns, RoleTurns, DieTurns
   DEF Continue

-----------------------------------------------------------------------------
\* The current year.

LEMMA StepYears ==
  ASSUME Inv, YearInv, NEW r \in Reqs, Begin(r) \/ Continue(r), UNCHANGED mode
  PROVE  YearInv'
<1>1. /\ mode \in Modes /\ TypeOK /\ req[r] \in Request /\ row \in [Ids -> AllRows \cup {NoRow, Deleted}]
  BY DEF Inv, TypeOK
<1>2. ASSUME NEW y, Goto(r, y), ~At(r, "clearOthers"),
             \A z \in Ids : row'[z].kind = "year" => row[z].kind = "year" /\ row'[z].on = row[z].on
      PROVE  YearInv'
  <2>1. \A s \in Reqs \ {r} : req'[s] = req[s]
    BY <1>1, <1>2, RequestStep
  <2>2. CASE \E s \in Reqs : At(s, "clearOthers")
    BY <1>2, <2>1, <2>2 DEF YearInv, At
  <2>3. CASE ~\E s \in Reqs : At(s, "clearOthers")
    BY <1>2, <2>3 DEF YearInv, Of, Is
  <2>4. QED BY <2>2, <2>3
<1>3. CASE Begin(r) \/ RoleInsert(r)
  <2>1. UNCHANGED row /\ (\E y : Goto(r, y)) /\ ~At(r, "clearOthers")
    <3>1. CASE BeginsCreate(r)
      BY <3>1 DEF BeginsCreate, Create, MayStart, At, Idle
    <3>2. CASE BeginsUpdate(r)
      BY <3>2 DEF BeginsUpdate, Update, MayStart, At, Idle
    <3>3. CASE BeginsDelete(r)
      BY <3>3 DEF BeginsDelete, Delete, MayStart, At, Idle
    <3>4. CASE BeginsFaculty(r)
      BY <3>4 DEF BeginsFaculty, CreateFaculty, MayStart, At, Idle
    <3>5. CASE RoleInsert(r)
      BY <3>5 DEF RoleInsert, At
    <3>6. QED BY <1>1, <1>3, <3>1, <3>2, <3>3, <3>4, <3>5, BeginCases
  <2>2. QED BY <1>2, <2>1
<1>4. ASSUME NEW x \in Ids, NEW d, row' = [row EXCEPT ![x] = d], AfterWrite(r, x, d), ~At(r, "clearOthers"), d.on \in BOOLEAN
      PROVE  YearInv'
  <2>1. row'[x] = d /\ \A z \in Ids \ {x} : row'[z] = row[z]
    BY <1>1, <1>4
  <2>2. CASE d.kind = "year" /\ d.on
    <3>1. Goto(r, [pc |-> "clearOthers", x |-> x])
      BY <1>4, <2>2 DEF AfterWrite
    <3>2. req'[r] = [pc |-> "clearOthers", x |-> x]
      BY <1>1, <3>1, RequestStep
    <3>3. QED BY <3>2 DEF YearInv, At
  <2>3. CASE ~(d.kind = "year" /\ d.on)
    <3>1. Goto(r, Idle)
      BY <1>4, <2>3 DEF AfterWrite, Done
    <3>2. \A s \in Reqs \ {r} : req'[s] = req[s]
      BY <1>1, <3>1, RequestStep
    <3>3. CASE \E s \in Reqs : At(s, "clearOthers")
      BY <1>4, <3>2, <3>3 DEF YearInv, At
    <3>4. CASE ~\E s \in Reqs : At(s, "clearOthers")
      BY <2>1, <2>3, <3>4 DEF YearInv, Of, Is
    <3>5. QED BY <3>3, <3>4
  <2>4. QED BY <2>2, <2>3
<1>5. ASSUME NEW x \in Ids, Insert(r, x) PROVE YearInv'
  <2>1. PICK d : d = req[r].d
    OBVIOUS
  <2>2. d \in AllRows /\ ~At(r, "clearOthers") /\ d.on \in BOOLEAN
    <3>1. req[r].pc = "insert"
      BY <1>5 DEF Insert, At
    <3>2. d \in AllRows /\ d.on \in Flags(d.kind)
      BY <1>1, <2>1, <3>1, RequestShape, RowShape
    <3>3. QED BY <3>1, <3>2 DEF At, Flags
  <2>3. CASE Writable(d, x)
    BY <1>4, <1>5, <2>1, <2>2, <2>3 DEF Insert
  <2>4. CASE ~Writable(d, x)
    <3>1. UNCHANGED row /\ Goto(r, Idle)
      BY <1>5, <2>1, <2>4 DEF Insert, Done
    <3>2. QED BY <1>2, <2>2, <3>1
  <2>5. QED BY <2>3, <2>4
<1>6. ASSUME UpdateWrite(r) PROVE YearInv'
  <2>1. PICK d, x : d = req[r].d /\ x = req[r].x
    OBVIOUS
  <2>2. d \in AllRows /\ x \in Ids /\ ~At(r, "clearOthers") /\ d.on \in BOOLEAN
    <3>1. req[r].pc = "update"
      BY <1>6 DEF UpdateWrite, At
    <3>2. d \in AllRows /\ d.on \in Flags(d.kind) /\ x \in Ids
      BY <1>1, <2>1, <3>1, RequestShape, RowShape
    <3>3. QED BY <3>1, <3>2 DEF At, Flags
  <2>3. CASE Exists(x) /\ Writable(d, x)
    BY <1>4, <1>6, <2>1, <2>2, <2>3 DEF UpdateWrite
  <2>4. CASE ~(Exists(x) /\ Writable(d, x))
    <3>1. UNCHANGED row /\ Goto(r, Idle)
      BY <1>6, <2>1, <2>4 DEF UpdateWrite, Done
    <3>2. QED BY <1>2, <2>2, <3>1
  <2>5. QED BY <2>3, <2>4
<1>7. ASSUME NEW u \in Ids, UserInsert(r, u) PROVE YearInv'
  <2>1. ~At(r, "clearOthers") /\ \E y : Goto(r, y)
    BY <1>7 DEF UserInsert, At, Done
  <2>2. \A z \in Ids : row'[z] = row[z] \/ row'[z].kind = "user"
    BY <1>1, <1>7 DEF UserInsert
  <2>3. QED BY <1>2, <2>1, <2>2
<1>8. ASSUME DeleteWrite(r) PROVE YearInv'
  <2>1. PICK x : x = req[r].x
    OBVIOUS
  <2>2. ~At(r, "clearOthers") /\ Goto(r, Idle)
    BY <1>8 DEF DeleteWrite, At, Done
  <2>3. row' = row \/ row' = [y \in Ids |-> IF y = x \/ GoesAlong(y, x) THEN Deleted
                                            ELSE IF RefersTo(y, x) THEN Unlinked(row[y], x) ELSE row[y]]
    BY <1>8, <2>1 DEF DeleteWrite
  <2>4. Deleted.kind = "deleted"
    BY DEF Deleted
  <2>5. ASSUME NEW z \in Ids, row'[z].kind = "year" PROVE row'[z] = row[z]
    <3>1. RefersTo(z, x) => Unlinked(row[z], x).kind = row[z].kind
      <4>1. SUFFICES ASSUME RefersTo(z, x) PROVE Unlinked(row[z], x).kind = row[z].kind
        OBVIOUS
      <4>2. row[z] = [kind |-> row[z].kind, key |-> row[z].key, on |-> row[z].on, refs |-> row[z].refs]
        BY <1>1, <4>1, RowKinds, RowShape DEF RefersTo
      <4>3. QED BY <4>2 DEF Unlinked
    <3>2. row[z].kind = "year" => ~RefersTo(z, x)
      BY KindFacts DEF RefersTo
    <3>3. QED BY <2>3, <2>4, <2>5, <3>1, <3>2
  <2>6. QED BY <1>2, <2>2, <2>5
<1>9. ASSUME ClearOtherCurrentYears(r) PROVE YearInv'
  <2>1. PICK x : x = req[r].x
    OBVIOUS
  <2>2. row' = [y \in Ids |-> IF Is(y, "year") /\ y # x THEN [row[y] EXCEPT !.on = FALSE] ELSE row[y]]
    BY <1>9, <2>1 DEF ClearOtherCurrentYears
  <2>3. ASSUME NEW z \in Ids, row'[z].kind = "year", row'[z].on PROVE z = x
    <3>1. SUFFICES ASSUME z # x PROVE FALSE
      OBVIOUS
    <3>2. CASE Is(z, "year")
      <4>1. row[z] = [kind |-> row[z].kind, key |-> row[z].key, on |-> row[z].on, refs |-> row[z].refs]
        <5>1. Exists(z)
          BY <3>2 DEF Is, Exists, Kinds, Named
        <5>2. row[z] \in AllRows
          BY <1>1, <5>1, RowKinds
        <5>3. QED BY <1>1, <5>2, RowShape
      <4>2. row'[z] = [row[z] EXCEPT !.on = FALSE]
        BY <2>2, <3>1, <3>2
      <4>3. row'[z] = [kind |-> row[z].kind, key |-> row[z].key, on |-> FALSE, refs |-> row[z].refs]
        BY <4>1, <4>2
      <4>4. QED BY <2>3, <4>3
    <3>3. CASE ~Is(z, "year")
      BY <2>2, <2>3, <3>3 DEF Is
    <3>4. QED BY <3>2, <3>3
  <2>4. QED BY <2>3 DEF YearInv, Of, Is
<1>10. ASSUME Deactivate(r) PROVE YearInv'
  <2>1. ~At(r, "clearOthers") /\ \E y : Goto(r, y)
    BY <1>10 DEF Deactivate, At
  <2>2. req[r].u \in Ids => row[req[r].u].kind = "user"
    BY <1>10 DEF Inv, Knows, Deactivate, At, Is
  <2>3. \A z \in Ids : row'[z].kind = "year" => row'[z] = row[z]
    BY <1>10, <2>2, DeactivateStep
  <2>4. QED BY <1>2, <2>1, <2>3
<1>11. QED BY <1>3, <1>5, <1>6, <1>7, <1>8, <1>9, <1>10 DEF Continue

-----------------------------------------------------------------------------
\* Members and their accounts.

\* Sessions are never updated or deleted.
LEMMA HeldFastKept ==
  ASSUME Inv, NEW r \in Reqs, Moves(r), NEW x \in Ids, HeldFast(x)
  PROVE  HeldFast(x)'
<1>1. PICK y \in Ids : row[y].kind = "session" /\ row[y].refs["faculty"] = x
  BY DEF HeldFast, Of, Is
<1>2. Stays(y)
  BY <1>1 DEF Moves, Goes, Comes, Fixed, NoRow
<1>3. "session" \in Kinds /\ "faculty" \in Refs("session") /\ Optional("session") = {}
  BY RefsOfKind, OptionalFacts DEF Kinds, Outer
<1>4. row'[y].kind = "session" /\ row'[y].refs["faculty"] = x
  BY <1>1, <1>2, <1>3 DEF Stays, Exists
<1>5. QED BY <1>4 DEF HeldFast, Of, Is

\* A member goes only when its removal deletes it.
LEMMA MemberStays ==
  ASSUME Inv, NEW r \in Reqs, Moves(r), NEW x \in Ids, Is(x, "faculty"), ~Removing(r, x)
  PROVE  row'[x].kind = "faculty" /\ row'[x].refs["user"] = row[x].refs["user"]
<1>1. mode \in Modes /\ TypeOK /\ row[x] # NoRow
  BY DEF Inv, Is, NoRow
<1>2. ~Goes(r, x)
  BY DEF Goes, Removing, Is
<1>3. row'[x].kind = "faculty"
  BY <1>1, <1>2 DEF Moves, Stays, Comes, Is
<1>4. QED BY <1>1, <1>3, MembersKept

LEMMA MembersStep ==
  ASSUME Inv, InTurns, MembersInv, UNCHANGED mode, NEW r \in Reqs, NEW y, Goto(r, y), Moves(r), FlagsKept(r),
         \A u \in teacher' \ teacher : u \in Ids /\ row'[u].kind = "user" /\ Pending(r, u)',
         \A u : Pending(r, u) => MemberOf(u)',
         \A x \in Of("faculty") : Removing(r, x) => row'[x].kind # "faculty" \/ HeldFast(x)',
         \A x : At(r, "deactivate") /\ req[r].x = x => Removing(r, x)'
  PROVE  MembersInv'
<1>1. /\ mode \in Modes /\ TypeOK /\ Checked(req[r]) /\ Knows(req[r]) /\ req[r] \in Request
      /\ \A s \in Reqs \ {r} : req'[s] = req[s]
  BY RequestStep DEF Inv, InTurns, TypeOK
<1>2. ASSUME NEW u \in teacher
      PROVE  row'[u].kind = "user" /\ (MemberOf(u)' \/ (\E s \in Reqs : Pending(s, u)') \/ ~row'[u].on)
  <2>1. u \in Ids /\ row[u].kind = "user"
    BY <1>1 DEF TypeOK, MembersInv, Is
  <2>2. row'[u].kind = "user"
    BY <1>1, <2>1, KindKept
  <2>3. ASSUME ~row[u].on PROVE ~row'[u].on
    BY <2>1, <2>3 DEF FlagsKept, Is
  <2>4. ASSUME NEW x \in Of("faculty"), row[x].refs["user"] = u PROVE MemberOf(u)' \/ ~row'[u].on
    <3>1. CASE Removing(r, x)
      <4>1. ~row[u].on
        BY <1>1, <2>4, <3>1 DEF Checked, Removing, At, Of, Is
      <4>2. QED BY <2>3, <4>1
    <3>2. CASE ~Removing(r, x)
      <4>1. x \in Ids /\ row'[x].kind = "faculty" /\ row'[x].refs["user"] = u
        BY <2>4, <3>2, MemberStays DEF Of
      <4>2. QED BY <4>1 DEF MemberOf, Of, Is
    <3>3. QED BY <3>1, <3>2
  <2>5. ASSUME NEW s \in Reqs, Pending(s, u) PROVE MemberOf(u)' \/ Pending(s, u)'
    <3>1. CASE s = r
      BY <2>5, <3>1
    <3>2. CASE s # r
      BY <1>1, <2>5, <3>2 DEF Pending, At
    <3>3. QED BY <3>1, <3>2
  <2>6. MemberOf(u) \/ (\E s \in Reqs : Pending(s, u)) \/ ~row[u].on
    BY DEF MembersInv
  <2>7. QED BY <2>2, <2>3, <2>4, <2>5, <2>6 DEF MemberOf
<1>3. ASSUME NEW x \in Ids, row'[x].kind = "faculty"
      PROVE  row'[row'[x].refs["user"]].on \/ HeldFast(x)' \/ \E s \in Reqs : Removing(s, x)'
  <2>1. CASE row[x].kind = "faculty"
    <3>1. PICK u \in Ids : u = row[x].refs["user"] /\ row[u].kind = "user"
      BY <1>1, <2>1, MemberHasAccount DEF Is
    <3>2. row'[x].refs["user"] = u
      BY <1>1, <1>3, <2>1, <3>1, MembersKept DEF NoRow
    <3>3. CASE row[u].on
      <4>1. CASE row'[u].on
        BY <3>2, <4>1
      <4>2. CASE ~row'[u].on
        <5>1. At(r, "deactivate") /\ u = req[r].u
          BY <3>1, <3>3, <4>2 DEF FlagsKept, Is
        <5>2. PICK z : z = req[r].x
          OBVIOUS
        <5>3. z \in Ids /\ row[z].kind = "faculty" /\ row[z].refs["user"] = u
          BY <1>1, <5>1, <5>2, RequestShape, KindFacts DEF Checked, Knows, At, Exists
        <5>4. z = x
          BY <2>1, <3>1, <5>3 DEF Inv, RowsSound, Accounts, Of, Is
        <5>5. Removing(r, x)'
          BY <5>1, <5>2, <5>4
        <5>6. QED BY <5>5
      <4>3. QED BY <4>1, <4>2
    <3>4. CASE HeldFast(x)
      BY <3>4, HeldFastKept
    <3>5. ASSUME NEW s \in Reqs, Removing(s, x) PROVE HeldFast(x)' \/ Removing(s, x)'
      <4>1. CASE s = r
        BY <1>3, <2>1, <3>5, <4>1 DEF Of, Is
      <4>2. CASE s # r
        BY <1>1, <3>5, <4>2 DEF Removing, At
      <4>3. QED BY <4>1, <4>2
    <3>6. row[u].on \/ HeldFast(x) \/ \E s \in Reqs : Removing(s, x)
      BY <2>1, <3>1 DEF MembersInv, Of, Is
    <3>7. QED BY <3>3, <3>4, <3>5, <3>6
  <2>2. CASE row[x].kind # "faculty"
    <3>1. PICK u : u = row'[x].refs["user"] /\ u \in Account(req[r])
      BY <1>1, <1>3, <2>2, MembersKept DEF Is
    <3>2. u \in Ids /\ Is(u, "user") /\ row[u].on /\ ~At(r, "deactivate")
      BY <1>1, <3>1 DEF Checked, Knows, Account, At
    <3>3. row'[u].on
      BY <3>2 DEF FlagsKept
    <3>4. QED BY <3>1, <3>3
  <2>3. QED BY <2>1, <2>2
<1>4. (\A u \in teacher : Is(u, "user") /\ (MemberOf(u) \/ (\E s \in Reqs : Pending(s, u)) \/ ~row[u].on))'
  BY <1>2 DEF Is
<1>5. (\A x \in Of("faculty") : row[row[x].refs["user"]].on \/ HeldFast(x) \/ \E s \in Reqs : Removing(s, x))'
  BY <1>3 DEF Of, Is
<1>6. QED BY <1>4, <1>5 DEF MembersInv

\* A step that neither makes nor removes a member.
LEMMA MembersQuiet ==
  ASSUME Inv, InTurns, MembersInv, UNCHANGED mode, NEW r \in Reqs, NEW y, Goto(r, y), Moves(r), FlagsKept(r),
         UNCHANGED teacher, req[r].pc \notin {"insert", "delete", "deactivate"}
  PROVE  MembersInv'
<1>1. ~(At(r, "insert") \/ At(r, "delete") \/ At(r, "deactivate"))
  BY DEF At
<1>2. \A u : ~Pending(r, u)
  BY <1>1 DEF Pending
<1>3. \A x : ~Removing(r, x)
  BY <1>1 DEF Removing
<1>4. QED BY <1>1, <1>2, <1>3, MembersStep

LEMMA InsertMembers ==
  ASSUME Inv, InTurns, MembersInv, NEW r \in Reqs, NEW x \in Ids, Insert(r, x), UNCHANGED mode
  PROVE  MembersInv'
<1>1. mode \in Modes /\ TypeOK /\ Moves(r) /\ FlagsKept(r) /\ req[r] \in Request /\ Checked(req[r])
  BY StepMoves, UserUnwritten DEF Inv, FlagsKept, Continue, InTurns, TypeOK
<1>2. PICK d : d = req[r].d
  OBVIOUS
<1>3. req[r].pc = "insert" /\ d \in AllRows /\ row[x] = NoRow /\ RefsExist(d) /\ NoRival(d, "NONE") /\ UNCHANGED teacher
  BY <1>1, <1>2, RequestShape DEF Insert, At, Checked
<1>4. NoCollision(d, x)
  <2>1. SUFFICES ASSUME NEW z \in Ids \ {x}, Exists(z), Collides(row[z], d) PROVE FALSE
    BY DEF NoCollision
  <2>2. row[z].kind \in Named /\ row[z].kind = d.kind /\ row[z].key = d.key /\ SameOwner(row[z], d)
    BY <2>1 DEF Collides
  <2>3. Conflict(row[z], d)
    BY <2>2, NamedConflict DEF SameName
  <2>4. QED BY <1>3, <2>1, <2>3, NotNone DEF NoRival
<1>5. row' = [row EXCEPT ![x] = d] /\ AfterWrite(r, x, d)
  BY <1>2, <1>3, <1>4 DEF Insert, Writable
<1>6. PICK y : Goto(r, y)
  BY <1>5 DEF AfterWrite, Done
<1>7. \A u : Pending(r, u) => MemberOf(u)'
  <2>1. row'[x] = d
    BY <1>1, <1>5 DEF TypeOK
  <2>2. QED BY <1>2, <2>1 DEF Pending, MemberOf, Of, Is
<1>8. ~At(r, "delete") /\ ~At(r, "deactivate")
  BY <1>3 DEF At
<1>9. \A z : ~Removing(r, z)
  BY <1>8 DEF Removing
<1>10. QED BY <1>1, <1>3, <1>6, <1>7, <1>8, <1>9, MembersStep

LEMMA RoleMembers ==
  ASSUME Inv, InTurns, MembersInv, NEW r \in Reqs, RoleInsert(r), UNCHANGED mode
  PROVE  MembersInv'
<1>1. /\ mode \in Modes /\ TypeOK /\ Moves(r) /\ FlagsKept(r) /\ req[r] \in Request /\ Knows(req[r])
  BY StepMoves, UserUnwritten DEF Inv, FlagsKept, Continue, TypeOK
<1>2. PICK u, e : u = req[r].u /\ e = [req[r].d EXCEPT !.refs["user"] = u]
  OBVIOUS
<1>3. PICK y : y = [pc |-> "insert", d |-> e]
  OBVIOUS
<1>4. req[r].pc = "insertRole" /\ u \in Ids /\ Goto(r, y) /\ teacher' = teacher \cup {u} /\ UNCHANGED row /\ req[r].d \in AllRows
  BY <1>1, <1>2, <1>3, RequestShape DEF RoleInsert, At
<1>5. req[r].d.kind = "faculty" /\ row[u].kind = "user" /\ req'[r] = y
  BY <1>1, <1>2, <1>4, RequestStep DEF Knows, Account, Is
<1>6. e.kind = "faculty" /\ e.refs["user"] = u
  <2>1. "faculty" \in mode.scope
    BY <1>1, <1>4, <1>5, RowShape
  <2>2. "user" \in mode.scope
    BY <1>1, <2>1, RegistryAssumption
  <2>3. u \in Targets("faculty", "user", mode.scope)
    BY <1>4, <2>2 DEF Targets
  <2>4. QED BY <1>1, <1>2, <1>4, <1>5, <2>3, WithUser
<1>7. Pending(r, u)'
  BY <1>3, <1>5, <1>6 DEF Pending, At
<1>8. ~At(r, "insert") /\ ~At(r, "delete") /\ ~At(r, "deactivate")
  BY <1>4 DEF At
<1>9. (\A z : ~Pending(r, z)) /\ \A z : ~Removing(r, z)
  BY <1>8 DEF Pending, Removing
<1>10. \A v \in teacher' \ teacher : v \in Ids /\ row'[v].kind = "user" /\ Pending(r, v)'
  BY <1>4, <1>5, <1>7
<1>11. QED BY <1>1, <1>4, <1>8, <1>9, <1>10, MembersStep

LEMMA DeactivateMembers ==
  ASSUME Inv, InTurns, MembersInv, NEW r \in Reqs, Deactivate(r), UNCHANGED mode
  PROVE  MembersInv'
<1>1. Moves(r) /\ FlagsKept(r) /\ UNCHANGED teacher
  BY StepMoves, UserUnwritten DEF FlagsKept, Continue, Deactivate
<1>2. PICK x, y : x = req[r].x /\ y = [pc |-> "delete", x |-> x]
  OBVIOUS
<1>3. Goto(r, y) /\ ~At(r, "insert") /\ ~At(r, "delete")
  BY <1>2 DEF Deactivate, At
<1>4. req'[r] = y
  BY <1>3, RequestStep DEF Inv
<1>5. Removing(r, x)'
  BY <1>2, <1>4 DEF Removing, At
<1>6. (\A z : ~Pending(r, z)) /\ \A z : ~Removing(r, z)
  BY <1>3 DEF Pending, Removing
<1>7. \A z : At(r, "deactivate") /\ req[r].x = z => Removing(r, z)'
  BY <1>2, <1>5
<1>8. QED BY <1>1, <1>3, <1>6, <1>7, MembersStep

\* What refuses to let a member go that no entry refers to is a session.
LEMMA HeldBySessions ==
  ASSUME mode \in Modes, TypeOK, RowsSound, NEW x \in Ids, Is(x, "faculty"), Held(x), NoneOf({"entry"}, x)
  PROVE  HeldFast(x)
<1>1. PICK y \in Ids :
        /\ Exists(y)
        /\ \E f \in Refs(row[y].kind) \ (Optional(row[y].kind) \cup Cascades(row[y].kind)) : row[y].refs[f] = x
  BY DEF Held
<1>2. PICK f \in Refs(row[y].kind) \ (Optional(row[y].kind) \cup Cascades(row[y].kind)) : row[y].refs[f] = x
  BY <1>1
<1>3. row[y] \in AllRows /\ Linked(row[y]) /\ row[y].kind \in Kinds
  BY <1>1, RowKinds DEF RowsSound, Exists
<1>4. f \in mode.scope
  BY <1>2, <1>3, ScopedRef
<1>5. x # "NONE"
  BY NotNone
<1>6. f = "faculty"
  BY <1>2, <1>3, <1>4, <1>5 DEF Linked, Is
<1>7. row[y].kind \in {"subject", "entry", "session"}
  BY <1>2, <1>3, <1>6, KindFacts
<1>8. row[y].kind # "subject"
  BY <1>2, <1>6, OptionalFacts
<1>9. row[y].kind # "entry"
  BY <1>1, <1>2 DEF NoneOf, RefersTo
<1>10. QED BY <1>2, <1>6, <1>7, <1>8, <1>9 DEF HeldFast, Of, Is

LEMMA DeleteMembers ==
  ASSUME Inv, InTurns, MembersInv, NEW r \in Reqs, DeleteWrite(r), UNCHANGED mode
  PROVE  MembersInv'
<1>1. /\ mode \in Modes /\ TypeOK /\ RowsSound /\ Moves(r) /\ FlagsKept(r) /\ Goto(r, Idle) /\ UNCHANGED teacher
      /\ Checked(req[r])
  BY StepMoves, UserUnwritten DEF Inv, InTurns, FlagsKept, Continue, DeleteWrite, Done
<1>2. At(r, "delete") /\ ~At(r, "insert") /\ ~At(r, "deactivate")
  BY DEF DeleteWrite, At
<1>3. ASSUME NEW x \in Of("faculty"), Removing(r, x) PROVE row'[x].kind # "faculty" \/ HeldFast(x)'
  <2>1. x = req[r].x /\ x \in Ids /\ Is(x, "faculty") /\ Exists(x) /\ NoneOf({"entry"}, x)
    BY <1>1, <1>2, <1>3, KindFacts DEF Removing, Of, Is, Exists, Checked, At
  <2>2. CASE Held(x)
    BY <1>1, <2>1, <2>2, HeldBySessions, HeldFastKept
  <2>3. CASE ~Held(x)
    <3>1. row'[x] = Deleted
      BY <2>1, <2>3 DEF DeleteWrite
    <3>2. QED BY <3>1 DEF Deleted
  <2>4. QED BY <2>2, <2>3
<1>4. \A u : ~Pending(r, u)
  BY <1>2 DEF Pending
<1>5. QED BY <1>1, <1>2, <1>3, <1>4, MembersStep

LEMMA StepMembers ==
  ASSUME Inv, InTurns, MembersInv, NEW r \in Reqs, Begin(r) \/ Continue(r), UNCHANGED mode
  PROVE  MembersInv'
<1>1. mode \in Modes /\ TypeOK /\ Moves(r) /\ FlagsKept(r)
  BY StepMoves, UserUnwritten DEF Inv, FlagsKept
<1>2. CASE Begin(r)
  <2>1. UNCHANGED teacher /\ (\E y : Goto(r, y)) /\ req[r] = Idle
    <3>1. CASE BeginsCreate(r)
      BY <3>1 DEF BeginsCreate, Create, MayStart
    <3>2. CASE BeginsUpdate(r)
      BY <3>2 DEF BeginsUpdate, Update, MayStart
    <3>3. CASE BeginsDelete(r)
      BY <3>3 DEF BeginsDelete, Delete, MayStart
    <3>4. CASE BeginsFaculty(r)
      BY <3>4 DEF BeginsFaculty, CreateFaculty, MayStart
    <3>5. QED BY <1>1, <1>2, <3>1, <3>2, <3>3, <3>4, BeginCases
  <2>2. QED BY <1>1, <2>1, MembersQuiet DEF Idle
<1>3. ASSUME NEW u \in Ids, UserInsert(r, u) PROVE MembersInv'
  <2>1. UNCHANGED teacher /\ (\E y : Goto(r, y)) /\ req[r].pc = "insertUser"
    BY <1>3 DEF UserInsert, At, Done
  <2>2. QED BY <1>1, <2>1, MembersQuiet
<1>4. CASE UpdateWrite(r)
  <2>1. UNCHANGED teacher /\ (\E y : Goto(r, y)) /\ req[r].pc = "update"
    BY <1>4 DEF UpdateWrite, At, Done, AfterWrite
  <2>2. QED BY <1>1, <2>1, MembersQuiet
<1>5. CASE ClearOtherCurrentYears(r)
  <2>1. UNCHANGED teacher /\ (\E y : Goto(r, y)) /\ req[r].pc = "clearOthers"
    BY <1>5 DEF ClearOtherCurrentYears, At, Done
  <2>2. QED BY <1>1, <2>1, MembersQuiet
<1>6. QED BY <1>2, <1>3, <1>4, <1>5, InsertMembers, RoleMembers, DeactivateMembers, DeleteMembers DEF Continue

-----------------------------------------------------------------------------
\* The invariant of every mode of service, and what follows.

LEMMA InitSerial == Init => SerialInv
<1>1. SUFFICES ASSUME Init PROVE SerialInv
  OBVIOUS
<1>2. \A x \in Ids : row[x].kind = "absent" /\ ~Exists(x)
  BY <1>1, KindFacts DEF Init, NoRow, Exists
<1>3. ASSUME NEW q \in Reqs PROVE Checked(req[q]) /\ Touches(q) = {}
  BY <1>1 DEF Init, Checked, Account, Touches, Idle
<1>4. InTurns
  BY <1>2, <1>3 DEF InTurns, Turns, NoClash
<1>5. YearInv /\ MembersInv
  BY <1>1, <1>2 DEF YearInv, MembersInv, Of, Is, Init
<1>6. QED BY <1>1, <1>4, <1>5, InitInv DEF SerialInv

LEMMA NextSerial == SerialInv /\ [Next]_vars => SerialInv'
<1>1. ASSUME SerialInv, NEW r \in Reqs, Begin(r) \/ Continue(r) \/ Die(r), UNCHANGED mode PROVE SerialInv'
  <2>1. MayOverlap' = MayOverlap /\ Faults' = Faults /\ Inv /\ Inv'
    BY <1>1, ModeSame, StepMoves DEF SerialInv
  <2>2. ~MayOverlap => InTurns'
    BY <1>1, <2>1, StepTurns DEF SerialInv
  <2>3. ~Faults => ~Die(r)
    BY DEF Die
  <2>4. ~Faults => YearInv'
    BY <1>1, <2>1, <2>3, StepYears DEF SerialInv
  <2>5. ~MayOverlap /\ ~Faults => MembersInv'
    BY <1>1, <2>1, <2>3, StepMembers DEF SerialInv
  <2>6. QED BY <2>1, <2>2, <2>4, <2>5 DEF SerialInv
<1>2. ASSUME SerialInv, UNCHANGED vars PROVE SerialInv'
  <2>1. UNCHANGED <<mode, row, teacher, req>> /\ MayOverlap' = MayOverlap /\ Faults' = Faults
    BY <1>2, ModeSame DEF vars
  <2>2. Inv'
    BY <1>2, NextInv DEF SerialInv
  <2>3. InTurns => InTurns'
    <3>1. Turns => Turns'
      BY <2>1 DEF Turns, Touches, Involves, Exists
    <3>2. NoClash => NoClash'
      BY <2>1 DEF NoClash, Exists, Conflict, SameName, SameOwner, TimesOverlap, ShareResource
    <3>3. ASSUME NEW q \in Reqs, Checked(req[q]) PROVE Checked(req[q])'
      BY <2>1, <3>3 DEF Checked, RefsExist, NoRival, NoneOf, RefersTo, Exists, Is, Account
    <3>4. QED BY <3>1, <3>2, <3>3 DEF InTurns
  <2>4. YearInv => YearInv'
    BY <2>1 DEF YearInv, At, Of, Is
  <2>5. MembersInv => MembersInv'
    BY <2>1 DEF MembersInv, MemberOf, Pending, HeldFast, Removing, At, Of, Is
  <2>6. QED BY <1>2, <2>1, <2>2, <2>3, <2>4, <2>5 DEF SerialInv
<1>3. QED BY <1>1, <1>2 DEF Next

LEMMA SerialInvariance == Spec => []SerialInv
BY InitSerial, NextSerial, PTL DEF Spec

\* However requests overlap and die, the unique indexes keep names apart within
\* their owner; as long as requests take turns, assertUniqueName, assertNoOverlap
\* and assertNoConflicts keep names that differ in case only, periods that overlap
\* and double-booked members, rooms and sections out altogether.
THEOREM NamesAndTimesApart == Spec => []NoConflicts
<1>1. SerialInv => NoConflicts
  BY DEF SerialInv, Inv, RowsSound, InTurns, NoClash, NoConflicts
<1>2. QED BY <1>1, SerialInvariance, PTL

\* As long as requests take turns, deleteSection never takes a section that a student
\* is in: the students are still those that were counted.
THEOREM SectionsKeepStudents == Spec => SectionsStayAssigned
<1>1. ASSUME SerialInv, [Next]_vars, ~MayOverlap, NEW x \in Of("section"), row'[x] = Deleted
      PROVE  NoneOf({"student"}, x)
  <2>1. x \in Ids /\ row[x].kind = "section" /\ row'[x].kind = "deleted" /\ NoRow.kind = "absent"
    BY <1>1 DEF Of, Is, Deleted, NoRow
  <2>2. PICK r \in Reqs : (Begin(r) \/ Continue(r) \/ Die(r)) /\ UNCHANGED mode
    BY <1>1, <2>1 DEF Next, vars
  <2>3. Moves(r) /\ Checked(req[r])
    BY <1>1, <2>2, StepMoves DEF SerialInv, InTurns
  <2>4. At(r, "delete") /\ x = req[r].x
    BY <2>1, <2>3, KindFacts DEF Moves, Stays, Goes, Comes, Is
  <2>5. QED BY <2>1, <2>3, <2>4 DEF Checked, At, Is
<1>2. ASSUME SerialInv, [Next]_vars
      PROVE  [~MayOverlap => \A x \in Of("section") : row'[x] = Deleted => NoneOf({"student"}, x)]_vars
  BY <1>1, <1>2
<1>3. QED BY <1>2, SerialInvariance, PTL DEF Spec, SectionsStayAssigned

\* As long as no request dies, one academic year is current once the requests that
\* made one so are answered, however they overlap; and as long as they also take
\* turns, the accounts of faculty members come and go with the members.
THEOREM FollowersCorrect == Spec => []FollowersFollow
<1>1. SerialInv => OneCurrentYear
  BY DEF SerialInv, YearInv, OneCurrentYear
<1>2. ASSUME NEW x \in Ids, HeldFast(x) PROVE Held(x)
  <2>1. "faculty" \in Refs("session") \ (Optional("session") \cup Cascades("session")) /\ "session" \in Kinds
    BY RefsOfKind, OptionalFacts DEF Kinds, Outer
  <2>2. QED BY <1>2, <2>1 DEF HeldFast, Held, Of, Is, Exists
<1>3. MembersInv /\ ~MayOverlap /\ ~Faults => AccountsFollowFaculty
  <2>1. SUFFICES ASSUME MembersInv PROVE AccountsFollowFaculty
    OBVIOUS
  <2>2. \A u \in teacher :
           \/ \E x \in Of("faculty") : row[x].refs["user"] = u
           \/ \E r \in Reqs : At(r, "insert") /\ req[r].d.kind = "faculty" /\ req[r].d.refs["user"] = u
           \/ ~row[u].on
    BY <2>1 DEF MembersInv, MemberOf, Pending
  <2>3. \A x \in Of("faculty") :
           \/ row[row[x].refs["user"]].on
           \/ Held(x)
           \/ \E r \in Reqs : At(r, "delete") /\ req[r].x = x
    BY <1>2, <2>1 DEF MembersInv, Removing, Of
  <2>4. QED BY <2>2, <2>3 DEF AccountsFollowFaculty
<1>4. ~(~MayOverlap /\ ~Faults) => AccountsFollowFaculty
  BY DEF AccountsFollowFaculty
<1>5. SerialInv => FollowersFollow
  BY <1>1, <1>3, <1>4 DEF SerialInv, Inv, FollowersFollow
<1>6. QED BY <1>5, SerialInvariance, PTL

=============================================================================
