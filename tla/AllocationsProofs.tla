-------------------------- MODULE AllocationsProofs --------------------------
(***************************************************************************)
(* Proofs about Allocations, for any sets of requests, houses, places,     *)
(* students, vehicles and allocations, as either service; and, from the    *)
(* section on the library on, about Library.                               *)
(***************************************************************************)
EXTENDS Allocations, Library, FiniteSetTheorems, TLAPS

LEMMA ModeSame ==
  ASSUME UNCHANGED mode
  PROVE  Hostel' = Hostel /\ MayOverlap' = MayOverlap /\ AllocRow' = AllocRow /\ Request' = Request
BY DEF Hostel, MayOverlap, AllocRow, BedNumbers, Request

LEMMA CapacitiesAreNumbers == \A c \in Capacities \cup {0} : c \in Nat
<1>1. Capacities \subseteq Nat \ {0}
  BY AllocationsAssumption
<1>2. QED BY <1>1

LEMMA RowKinds ==
  /\ NoRow # Deleted
  /\ \A x \in HouseRow : x # NoRow /\ x # Deleted
  /\ \A x \in PlaceRow : x # NoRow /\ x # Deleted
  /\ \A x \in AllocRow : x # NoRow
BY DEF NoRow, Deleted, HouseRow, PlaceRow, AllocRow

LEMMA Rows ==
  ASSUME TypeOK
  PROVE  /\ \A h \in Houses : Exists(house[h]) => house[h] \in HouseRow
         /\ \A p \in Places : Exists(place[p]) => place[p] \in PlaceRow
         /\ \A a \in Ids : Has(a) => alloc[a] \in AllocRow
BY DEF TypeOK, Exists, Has

OnVehicle == {"insertRoute", "deleteVehicle"}
OnHouse   == {"deleteHouse", "insertPlace"}
OnStudent == {"countRoom", "allocate"}

LEMMA RequestShape ==
  ASSUME NEW x \in Request
  PROVE  /\ x.pc \in {"idle", "deletePlace", "vacate"} \cup OnVehicle \cup OnHouse \cup OnStudent
         /\ x.pc \in OnVehicle => x.v \in Vehicles
         /\ x.pc \in OnHouse => x.h \in Houses
         /\ x.pc = "insertPlace" => x.number \in Numbers /\ x.capacity \in Capacities \cup {0}
         /\ x.pc = "deletePlace" => x.p \in Places
         /\ x.pc \in OnStudent => x.st \in Students /\ x.p \in Places
         /\ x.pc = "allocate" => x.bed \in BedNumbers
         /\ x.pc = "vacate" => x.a \in Ids
BY DEF Request, Idle, OnVehicle, OnHouse, OnStudent

LEMMA RequestStep ==
  ASSUME TypeOK, NEW r \in Reqs, NEW x, Goto(r, x)
  PROVE  req'[r] = x /\ \A q \in Reqs \ {r} : req'[q] = req[q]
BY DEF TypeOK, Goto

-----------------------------------------------------------------------------
\* A finite set of numbers has a least one, and beds are chosen as they should be.

LEMMA LeastOf ==
  ASSUME NEW S \in SUBSET Nat, S # {}
  PROVE  Min(S) \in S /\ \A y \in S : Min(S) <= y
<1> DEFINE Below == {0..k : k \in S}
<1>1. Below \subseteq FiniteSubsetsOf(Nat) /\ Below # {}
  <2>1. \A k \in S : IsFiniteSet(0..k) /\ 0..k \subseteq Nat
    BY FS_Interval
  <2>2. QED BY <2>1 DEF FiniteSubsetsOf
<1>2. PICK x \in Below : \A y \in Below : <<y, x>> \notin StrictSubsetOrdering(Nat)
  BY <1>1, FS_StrictSubsetOrderingWellFounded, WFMin
<1>3. PICK k \in S : x = 0..k
  BY <1>2
<1>4. ASSUME NEW j \in S PROVE k <= j
  <2>1. SUFFICES ASSUME j < k PROVE FALSE
    BY SMT
  <2>2. 0..j \subseteq 0..k /\ 0..j # 0..k
    <3>1. k \in 0..k /\ k \notin 0..j
      BY <2>1
    <3>2. QED BY <2>1, <3>1
  <2>3. <<0..j, 0..k>> \in StrictSubsetOrdering(Nat)
    BY <2>2 DEF StrictSubsetOrdering
  <2>4. QED BY <1>2, <1>3, <2>3
<1>5. QED BY <1>4 DEF Min

LEMMA BedChosen ==
  ASSUME NEW p, IsFiniteSet(ActiveIn(p))
  PROVE  /\ LowestFreeBed(p) \in 1..(Cardinality(ActiveIn(p)) + 1)
         /\ LowestFreeBed(p) \notin Beds(p)
<1> DEFINE f == [a \in ActiveIn(p) |-> alloc[a].bed]
<1>1. f \in Surjection(ActiveIn(p), Beds(p))
  BY DEF Surjection, Beds
<1>2. IsFiniteSet(Beds(p)) /\ Cardinality(Beds(p)) <= Cardinality(ActiveIn(p))
  BY <1>1, FS_Surjection
<1>3. PICK n \in Nat : n = Cardinality(Beds(p))
  BY <1>2, FS_CardinalityType
<1>4. PICK m \in Nat : m = Cardinality(ActiveIn(p))
  BY FS_CardinalityType
<1>5. IsFiniteSet(1..(n + 1)) /\ Cardinality(1..(n + 1)) = n + 1
  <2>1. PICK k \in Nat : k = n + 1
    BY <1>3
  <2>2. IsFiniteSet(1..k) /\ Cardinality(1..k) = IF 1 > k THEN 0 ELSE k - 1 + 1
    BY FS_Interval
  <2>3. Cardinality(1..k) = k
    BY <1>3, <2>1, <2>2
  <2>4. QED BY <2>1, <2>2, <2>3
<1>6. 1..(n + 1) \ Beds(p) # {}
  <2>1. SUFFICES ASSUME 1..(n + 1) \subseteq Beds(p) PROVE FALSE
    OBVIOUS
  <2>2. n + 1 <= n
    BY <1>2, <1>3, <1>5, <2>1, FS_Subset
  <2>3. QED BY <2>2
<1>7. PICK S : S = 1..(n + 1) \ Beds(p)
  OBVIOUS
<1>8. Min(S) \in S
  BY <1>6, <1>7, LeastOf
<1>9. Min(S) \in 1..(m + 1)
  BY <1>2, <1>3, <1>4, <1>7, <1>8
<1>10. QED BY <1>3, <1>4, <1>7, <1>8, <1>9 DEF LowestFreeBed

-----------------------------------------------------------------------------
\* Requests that overlap and die as they like.

Used == {a \in Ids : Has(a)}

\* Request x relies on rows that stay: ids are not used again.
Knows(x) ==
    /\ x.pc \in OnStudent => place[x.p] # NoRow
    /\ x.pc = "countRoom" => Hostel
    /\ x.pc = "allocate" /\ Hostel /\ Exists(place[x.p]) => x.bed \in 1..place[x.p].capacity
    /\ x.pc = "vacate" => Has(x.a)

BedsFit ==
    \A a \in Ids : Hostel /\ Has(a) => alloc[a].bed \in 1..place[alloc[a].p].capacity

Inv ==
    /\ mode \in Modes
    /\ TypeOK
    /\ IsFiniteSet(Used)
    /\ ReferencesHold
    /\ BedsFit
    /\ \A q \in Reqs : Knows(req[q])

\* Places do not change, and allocations keep student, place and bed.
Grows ==
    /\ \A p \in Places : place[p] # NoRow => place'[p] \in {place[p], Deleted}
    /\ \A a \in Ids : Has(a) => /\ Has(a)'
                                /\ alloc'[a].st = alloc[a].st
                                /\ alloc'[a].p = alloc[a].p
                                /\ alloc'[a].bed = alloc[a].bed

LEMMA KnowsKept ==
  ASSUME UNCHANGED mode, NEW x \in Request, Knows(x), Grows
  PROVE  Knows(x)'
<1>1. x.pc \in OnStudent => x.p \in Places
  BY RequestShape
<1>2. (x.pc \in OnStudent => place[x.p] # NoRow)'
  BY <1>1, RowKinds DEF Knows, Grows, OnStudent
<1>3. (x.pc = "allocate" /\ Hostel /\ Exists(place[x.p]) => x.bed \in 1..place[x.p].capacity)'
  BY <1>1, ModeSame DEF Knows, Grows, OnStudent, Exists
<1>4. (x.pc = "vacate" => Has(x.a))'
  BY RequestShape DEF Knows, Grows
<1>5. (x.pc = "countRoom" => Hostel)'
  BY ModeSame DEF Knows
<1>6. QED BY <1>2, <1>3, <1>4, <1>5 DEF Knows, OnStudent

LEMMA InitInv == Init => Inv
<1> SUFFICES ASSUME Init PROVE Inv
  OBVIOUS
<1>1. TypeOK
  BY DEF Init, TypeOK, Request
<1>2. Used = {}
  BY DEF Init, Used, Has
<1>3. IsFiniteSet(Used)
  BY <1>2, FS_EmptySet
<1>4. ReferencesHold /\ BedsFit
  BY DEF Init, ReferencesHold, BedsFit, Has, Exists
<1>5. \A q \in Reqs : Knows(req[q])
  BY DEF Init, Knows, Idle, OnStudent
<1>6. QED BY <1>1, <1>3, <1>4, <1>5 DEF Init, Inv

\* A query that writes no allocation.
LEMMA RowStep ==
  ASSUME Inv, UNCHANGED <<mode, alloc>>, NEW r \in Reqs, Done(r) \/ UNCHANGED req,
         house' \in [Houses -> HouseRow \cup {NoRow, Deleted}],
         place' \in [Places -> PlaceRow \cup {NoRow, Deleted}],
         vehicle' \in [Vehicles -> {"absent", "present", "deleted"}],
         \A p \in Places : place[p] # NoRow => place'[p] \in {place[p], Deleted},
         \A a \in Ids : Has(a) => place'[alloc[a].p] = place[alloc[a].p],
         \A p \in Places : Exists(place'[p]) => Exists(house'[place'[p].h])
  PROVE  Inv'
<1>1. req' \in [Reqs -> Request] /\ \A q \in Reqs : req'[q] \in {req[q], Idle}
  BY DEF Inv, TypeOK, Done, Goto, Request
<1>2. TypeOK'
  BY <1>1, ModeSame DEF Inv, TypeOK
<1>3. Used' = Used /\ Grows
  BY DEF Used, Has, Grows
<1>4. ReferencesHold' /\ BedsFit'
  BY ModeSame DEF Inv, ReferencesHold, BedsFit, Has, Exists
<1>5. ASSUME NEW q \in Reqs PROVE Knows(req[q])'
  <2>1. Knows(req[q]) /\ req[q] \in Request
    BY DEF Inv, TypeOK
  <2>2. Knows(req[q])' \/ req'[q] # req[q]
    <3>1. PICK x \in Request : x = req[q] /\ Knows(x)
      BY <2>1
    <3>2. Knows(x)'
      BY <1>3, <3>1, KnowsKept
    <3>3. QED BY <3>1, <3>2
  <2>3. Knows(Idle)'
    BY DEF Knows, Idle, OnStudent
  <2>4. QED BY <1>1, <2>2, <2>3
<1>6. QED BY <1>2, <1>3, <1>4, <1>5 DEF Inv

\* A query that only reads, after which the request goes on as x.
LEMMA ReadStep ==
  ASSUME Inv, UNCHANGED <<mode, house, place, vehicle, alloc>>, NEW r \in Reqs, NEW x \in Request,
         Goto(r, x), Knows(x)
  PROVE  Inv'
<1>1. req' \in [Reqs -> Request] /\ req'[r] = x /\ \A q \in Reqs \ {r} : req'[q] = req[q]
  BY RequestStep DEF Inv, TypeOK, Goto
<1>2. TypeOK'
  BY <1>1, ModeSame DEF Inv, TypeOK
<1>3. Used' = Used /\ ReferencesHold' /\ BedsFit'
  BY ModeSame DEF Inv, Used, ReferencesHold, BedsFit, Has, Exists
<1>4. \A q \in Reqs : Knows(req'[q])
  BY <1>1 DEF Inv
<1>5. \A q \in Reqs : Knows(req[q])'
  BY <1>4, ModeSame DEF Knows, Exists, Has
<1>6. QED BY <1>2, <1>3, <1>5 DEF Inv

LEMMA IdleStep ==
  ASSUME Inv, UNCHANGED <<mode, house, place, vehicle, alloc>>, NEW r \in Reqs, Done(r)
  PROVE  Inv'
<1>1. Idle \in Request /\ Knows(Idle)
  BY DEF Request, Idle, Knows, OnStudent
<1>2. QED BY <1>1, ReadStep DEF Done

\* A query that writes an allocation, a new one or one that keeps student, place and bed.
LEMMA AllocStep ==
  ASSUME Inv, UNCHANGED <<mode, house, place, vehicle>>, NEW r \in Reqs, Done(r),
         NEW a \in Ids, NEW row \in AllocRow, alloc' = [alloc EXCEPT ![a] = row],
         Exists(place[row.p]), Hostel => row.bed \in 1..place[row.p].capacity,
         Has(a) => row.st = alloc[a].st /\ row.p = alloc[a].p /\ row.bed = alloc[a].bed
  PROVE  Inv'
<1>1. req' \in [Reqs -> Request] /\ \A q \in Reqs : req'[q] \in {req[q], Idle}
  BY DEF Inv, TypeOK, Done, Goto, Request
<1>2. /\ alloc'[a] = row /\ row # NoRow /\ \A b \in Ids \ {a} : alloc'[b] = alloc[b]
      /\ alloc' \in [Ids -> AllocRow \cup {NoRow}]
  BY RowKinds DEF Inv, TypeOK
<1>3. TypeOK'
  BY <1>1, <1>2, ModeSame DEF Inv, TypeOK
<1>4. Used' = Used \cup {a} /\ Grows
  BY <1>2 DEF Used, Has, Grows
<1>5. IsFiniteSet(Used)'
  BY <1>4, FS_AddElement DEF Inv
<1>6. ReferencesHold' /\ BedsFit'
  BY <1>2, ModeSame DEF Inv, ReferencesHold, BedsFit, Has, Exists
<1>7. ASSUME NEW q \in Reqs PROVE Knows(req[q])'
  <2>1. Knows(req[q])' \/ req'[q] # req[q]
    <3>1. PICK x \in Request : x = req[q] /\ Knows(x)
      BY DEF Inv, TypeOK
    <3>2. Knows(x)'
      BY <1>4, <3>1, KnowsKept
    <3>3. QED BY <3>1, <3>2
  <2>2. Knows(Idle)'
    BY DEF Knows, Idle, OnStudent
  <2>3. QED BY <1>1, <2>1, <2>2
<1>8. QED BY <1>3, <1>5, <1>6, <1>7 DEF Inv

-----------------------------------------------------------------------------
\* The handlers.

\* What request x locks while requests take turns.
Locks(x) ==
    CASE x.pc \in OnVehicle -> {x.v}
      [] x.pc \in OnHouse -> {x.h}
      [] x.pc = "deletePlace" -> {x.p}
      [] x.pc \in OnStudent -> {x.st, x.p}
      [] x.pc = "vacate" -> {alloc[x.a].st, alloc[x.a].p}
      [] OTHER -> {}

LEMMA TouchesLocks == \A q \in Reqs : Touches(q) = Locks(req[q])
BY DEF Touches, Locks, OnVehicle, OnHouse, OnStudent

\* What a request has found out and nobody else changes while requests take turns.
Held(x) ==
    /\ x.pc \in OnStudent => Exists(place[x.p]) /\ Unallocated(x.st, x.p)
    /\ x.pc = "allocate" /\ Hostel =>
         x.bed \notin Beds(x.p) /\ Cardinality(ActiveIn(x.p)) < place[x.p].capacity
    /\ x.pc = "deleteHouse" => Exists(house[x.h]) /\ Empty(x.h)
    /\ x.pc = "deleteVehicle" => Unassigned(x.v)

\* A handler starts with a read that lets it go on as x.
Starts(r, x) ==
    /\ req[r] = Idle
    /\ Goto(r, x)
    /\ UNCHANGED <<house, place, vehicle, alloc>>
    /\ MayOverlap \/ \A q \in Reqs : Locks(req[q]) \cap Locks(x) = {}
    /\ Knows(x)
    /\ Held(x)

\* What a handler does that ends with its first query.
Writes(r) ==
    /\ req[r] = Idle /\ UNCHANGED <<place, alloc, req>>
    /\ \/ /\ UNCHANGED house
          /\ vehicle' \in [Vehicles -> {"absent", "present", "deleted"}]
       \/ /\ UNCHANGED vehicle
          /\ \E h \in Houses : house[h] = NoRow /\ house' = [house EXCEPT ![h] = [vehicle |-> "NONE"]]

LEMMA StartCase ==
  ASSUME NEW r \in Reqs, NEW things, MayStart(r, things), NEW x \in Request, Goto(r, x),
         UNCHANGED <<house, place, vehicle, alloc>>, Locks(x) \subseteq things, Knows(x), Held(x)
  PROVE  \E y \in Request : Starts(r, y)
BY TouchesLocks DEF Starts, MayStart

LEMMA BeginCases ==
  ASSUME Inv, NEW r \in Reqs, Begin(r)
  PROVE  Writes(r) \/ \E x \in Request : Starts(r, x)
<1>1. ASSUME NEW v \in Vehicles, CreateVehicle(r, v) PROVE Writes(r)
  BY <1>1 DEF CreateVehicle, MayStart, Writes, Inv, TypeOK
<1>2. ASSUME NEW v \in Vehicles, DeleteVehicle(r, v) \/ CreateRouteWith(r, v)
      PROVE  \E x \in Request : Starts(r, x)
  <2>1. PICK x \in {[pc |-> "deleteVehicle", v |-> v], [pc |-> "insertRoute", v |-> v]} :
          /\ MayStart(r, {v}) /\ Goto(r, x) /\ UNCHANGED <<house, place, vehicle, alloc>>
          /\ x.pc = "deleteVehicle" => Unassigned(v)
    BY <1>2 DEF DeleteVehicle, CreateRouteWith
  <2>2. x \in Request /\ x.pc \in OnVehicle /\ x.v = v
    BY <2>1 DEF Request, OnVehicle
  <2>3. Locks(x) \subseteq {v}
    BY <2>2 DEF Locks, OnVehicle, OnHouse, OnStudent
  <2>4. Knows(x) /\ Held(x)
    BY <2>1, <2>2 DEF Knows, Held, OnVehicle, OnStudent
  <2>5. QED BY <2>1, <2>2, <2>3, <2>4, StartCase
<1>3. ASSUME NEW h \in Houses, CreateHouse(r, h) PROVE Writes(r)
  BY <1>3 DEF CreateHouse, MayStart, Writes
<1>4. ASSUME NEW h \in Houses,
             DeleteHouse(r, h) \/ \E number \in Numbers, capacity \in Capacities \cup {0} :
                                    CreatePlace(r, h, number, capacity)
      PROVE  \E x \in Request : Starts(r, x)
  <2>1. PICK x \in Request :
          /\ x.pc \in OnHouse /\ x.h = h
          /\ MayStart(r, {h}) /\ Goto(r, x) /\ UNCHANGED <<house, place, vehicle, alloc>>
          /\ x.pc = "deleteHouse" => Exists(house[h]) /\ Empty(h)
    <3>1. CASE DeleteHouse(r, h)
      <4>1. PICK x : x = [pc |-> "deleteHouse", h |-> h]
        OBVIOUS
      <4>2. x \in Request /\ x.pc \in OnHouse /\ x.h = h
        BY <4>1 DEF Request, OnHouse
      <4>3. QED BY <3>1, <4>1, <4>2 DEF DeleteHouse
    <3>2. ASSUME NEW number \in Numbers, NEW capacity \in Capacities \cup {0}, CreatePlace(r, h, number, capacity)
          PROVE  \E x \in Request : /\ x.pc = "insertPlace" /\ x.h = h
                                    /\ MayStart(r, {h}) /\ Goto(r, x)
                                    /\ UNCHANGED <<house, place, vehicle, alloc>>
      <4>1. PICK x : x = [pc |-> "insertPlace", h |-> h, number |-> number, capacity |-> capacity]
        OBVIOUS
      <4>2. x \in Request /\ x.pc = "insertPlace" /\ x.h = h
        BY <4>1 DEF Request
      <4>3. QED BY <3>2, <4>1, <4>2 DEF CreatePlace
    <3>3. QED BY <1>4, <3>1, <3>2 DEF OnHouse
  <2>2. Locks(x) \subseteq {h}
    BY <2>1 DEF Locks, OnVehicle, OnHouse, OnStudent
  <2>3. Knows(x) /\ Held(x)
    BY <2>1 DEF Knows, Held, OnHouse, OnStudent
  <2>4. QED BY <2>1, <2>2, <2>3, StartCase
<1>5. ASSUME NEW p \in Places, DeletePlace(r, p) PROVE \E x \in Request : Starts(r, x)
  <2>1. PICK x : x = [pc |-> "deletePlace", p |-> p]
    OBVIOUS
  <2>2. x \in Request /\ x.pc = "deletePlace" /\ x.p = p
    BY <2>1 DEF Request
  <2>3. Locks(x) \subseteq {p}
    BY <2>2 DEF Locks, OnVehicle, OnHouse, OnStudent
  <2>4. Knows(x) /\ Held(x)
    BY <2>2 DEF Knows, Held, OnStudent
  <2>5. MayStart(r, {p}) /\ Goto(r, x) /\ UNCHANGED <<house, place, vehicle, alloc>>
    BY <1>5, <2>1 DEF DeletePlace
  <2>6. QED BY <2>2, <2>3, <2>4, <2>5, StartCase
<1>6. ASSUME NEW p \in Places, NEW st \in Students, CreateAllocation(r, st, p)
      PROVE  \E x \in Request : Starts(r, x)
  <2>1. PICK x : x = IF Hostel THEN [pc |-> "countRoom", st |-> st, p |-> p]
                               ELSE [pc |-> "allocate", st |-> st, p |-> p, bed |-> 0]
    OBVIOUS
  <2>2. x \in Request /\ x.pc \in OnStudent /\ x.st = st /\ x.p = p /\ (Hostel <=> x.pc = "countRoom")
    BY <2>1 DEF Request, OnStudent, BedNumbers
  <2>3. /\ MayStart(r, {st, p}) /\ Goto(r, x) /\ UNCHANGED <<house, place, vehicle, alloc>>
        /\ Exists(place[p]) /\ Unallocated(st, p)
    BY <1>6, <2>1 DEF CreateAllocation
  <2>4. Locks(x) \subseteq {st, p}
    BY <2>2 DEF Locks, OnVehicle, OnHouse, OnStudent
  <2>5. Knows(x) /\ Held(x)
    BY <2>2, <2>3 DEF Knows, Held, OnStudent, Exists
  <2>6. QED BY <2>2, <2>3, <2>4, <2>5, StartCase
<1>7. ASSUME NEW a \in Ids, VacateAllocation(r, a) PROVE \E x \in Request : Starts(r, x)
  <2>1. PICK x : x = [pc |-> "vacate", a |-> a]
    OBVIOUS
  <2>2. x \in Request /\ x.pc = "vacate" /\ x.a = a
    BY <2>1 DEF Request
  <2>3. /\ MayStart(r, {alloc[a].st, alloc[a].p}) /\ Goto(r, x) /\ UNCHANGED <<house, place, vehicle, alloc>>
        /\ Has(a)
    BY <1>7, <2>1 DEF VacateAllocation, Active
  <2>4. Locks(x) \subseteq {alloc[a].st, alloc[a].p}
    BY <2>2 DEF Locks, OnVehicle, OnHouse, OnStudent
  <2>5. Knows(x) /\ Held(x)
    BY <2>2, <2>3 DEF Knows, Held, OnStudent
  <2>6. QED BY <2>2, <2>3, <2>4, <2>5, StartCase
<1>8. QED BY <1>1, <1>2, <1>3, <1>4, <1>5, <1>6, <1>7 DEF Begin

LEMMA WritesInv ==
  ASSUME Inv, UNCHANGED mode, NEW r \in Reqs, Writes(r)
  PROVE  Inv'
<1>1. CASE UNCHANGED house /\ vehicle' \in [Vehicles -> {"absent", "present", "deleted"}]
  BY <1>1, RowStep DEF Writes, Inv, TypeOK, ReferencesHold
<1>2. ASSUME UNCHANGED vehicle, NEW h \in Houses, house[h] = NoRow,
             house' = [house EXCEPT ![h] = [vehicle |-> "NONE"]]
      PROVE  Inv'
  <2>1. PICK row \in HouseRow : row = [vehicle |-> "NONE"]
    BY DEF HouseRow
  <2>2. house'[h] = row /\ (\A k \in Houses \ {h} : house'[k] = house[k])
        /\ house' \in [Houses -> HouseRow \cup {NoRow, Deleted}]
    BY <1>2, <2>1 DEF Inv, TypeOK
  <2>3. \A p \in Places : Exists(place[p]) => place[p].h \in Houses /\ Exists(house'[place[p].h])
    BY <1>2, <2>2, Rows, RowKinds DEF Inv, ReferencesHold, Exists, PlaceRow
  <2>4. QED BY <1>2, <2>2, <2>3, RowStep DEF Writes, Inv, TypeOK
<1>3. QED BY <1>1, <1>2 DEF Writes

LEMMA BeginInv ==
  ASSUME Inv, UNCHANGED mode, NEW r \in Reqs, Begin(r)
  PROVE  Inv'
<1>1. ASSUME NEW x \in Request, Starts(r, x) PROVE Inv'
  BY <1>1, ReadStep DEF Starts
<1>2. QED BY <1>1, BeginCases, WritesInv

-----------------------------------------------------------------------------
\* The second queries.

LEMMA RouteInsertInv ==
  ASSUME Inv, UNCHANGED mode, NEW r \in Reqs, NEW h \in Houses, RouteInsert(r, h)
  PROVE  Inv'
<1>1. PICK y \in Request : y = req[r]
  BY DEF Inv, TypeOK
<1>2. y.v \in Vehicles
  BY <1>1, RequestShape DEF RouteInsert, At, OnVehicle
<1>3. CASE vehicle[y.v] # "present"
  BY <1>1, <1>3, IdleStep DEF RouteInsert
<1>4. CASE vehicle[y.v] = "present"
  <2>1. PICK row \in HouseRow : row = [vehicle |-> y.v]
    BY <1>2 DEF HouseRow
  <2>2. house[h] = NoRow /\ house' = [house EXCEPT ![h] = row] /\ UNCHANGED <<place, vehicle, alloc>> /\ Done(r)
    BY <1>1, <1>4, <2>1 DEF RouteInsert
  <2>3. house'[h] = row /\ (\A k \in Houses \ {h} : house'[k] = house[k])
        /\ house' \in [Houses -> HouseRow \cup {NoRow, Deleted}]
    BY <2>2 DEF Inv, TypeOK
  <2>4. \A p \in Places : Exists(place[p]) => Exists(house'[place[p].h])
    BY <2>2, <2>3, Rows, RowKinds DEF Inv, ReferencesHold, Exists, PlaceRow
  <2>5. QED BY <2>2, <2>3, <2>4, RowStep DEF Inv, TypeOK
<1>5. QED BY <1>3, <1>4

LEMMA VehicleDeleteInv ==
  ASSUME Inv, UNCHANGED mode, NEW r \in Reqs, VehicleDelete(r)
  PROVE  Inv'
<1>1. PICK y \in Request : y = req[r]
  BY DEF Inv, TypeOK
<1>2. y.v \in Vehicles
  BY <1>1, RequestShape DEF VehicleDelete, At, OnVehicle
<1>3. vehicle' \in [Vehicles -> {"absent", "present", "deleted"}]
  BY <1>1, <1>2 DEF VehicleDelete, Inv, TypeOK
<1>4. PICK bare \in HouseRow : bare = [vehicle |-> "NONE"]
  BY DEF HouseRow
<1>5. house' = [h \in Houses |-> IF Exists(house[h]) /\ house[h].vehicle = y.v THEN bare ELSE house[h]]
  BY <1>1, <1>4 DEF VehicleDelete
<1>6. house' \in [Houses -> HouseRow \cup {NoRow, Deleted}] /\ \A h \in Houses : Exists(house[h]) => Exists(house'[h])
  BY <1>5, RowKinds DEF Inv, TypeOK, Exists
<1>7. \A p \in Places : Exists(place[p]) => Exists(house'[place[p].h])
  BY <1>6, Rows DEF Inv, ReferencesHold, PlaceRow
<1>8. QED BY <1>3, <1>6, <1>7, RowStep DEF VehicleDelete, Inv, TypeOK

LEMMA HouseDeleteInv ==
  ASSUME Inv, UNCHANGED mode, NEW r \in Reqs, HouseDelete(r)
  PROVE  Inv'
<1>1. PICK h : h = req[r].h
  OBVIOUS
<1>2. h \in Houses
  <2>1. req[r] \in Request
    BY DEF Inv, TypeOK
  <2>2. QED BY <1>1, <2>1, RequestShape DEF HouseDelete, At, OnHouse
<1>3. CASE ~MayDelete(h)
  BY <1>1, <1>3, IdleStep DEF HouseDelete
<1>4. CASE MayDelete(h)
  <2>1. /\ house' = [house EXCEPT ![h] = Deleted]
        /\ place' = [p \in Places |-> IF p \in PlacesOf(h) THEN Deleted ELSE place[p]]
        /\ UNCHANGED <<vehicle, alloc>> /\ Done(r)
    BY <1>1, <1>4 DEF HouseDelete
  <2>2. /\ house'[h] = Deleted /\ \A k \in Houses \ {h} : house'[k] = house[k]
        /\ house' \in [Houses -> HouseRow \cup {NoRow, Deleted}]
        /\ place' \in [Places -> PlaceRow \cup {NoRow, Deleted}]
    BY <1>2, <2>1 DEF Inv, TypeOK
  <2>3. \A p \in Places : place[p] # NoRow => place'[p] \in {place[p], Deleted}
    BY <2>1
  <2>4. \A p \in PlacesOf(h) : History(p) = {}
    BY <1>4 DEF MayDelete
  <2>5. ASSUME NEW a \in Ids, Has(a) PROVE place'[alloc[a].p] = place[alloc[a].p]
    <3>1. alloc[a].p \in Places
      BY <2>5, Rows DEF Inv, AllocRow
    <3>2. a \in History(alloc[a].p)
      BY <2>5 DEF History
    <3>3. QED BY <2>1, <2>4, <3>1, <3>2
  <2>6. ASSUME NEW p \in Places, Exists(place'[p]) PROVE Exists(house'[place'[p].h])
    <3>1. place'[p] = place[p] /\ p \notin PlacesOf(h)
      BY <2>1, <2>6 DEF Exists
    <3>2. Exists(place[p]) /\ place[p].h # h /\ place[p].h \in Houses
      BY <2>6, <3>1, Rows DEF PlacesOf, Inv, PlaceRow
    <3>3. QED BY <2>2, <3>1, <3>2 DEF Inv, ReferencesHold
  <2>7. QED BY <2>1, <2>2, <2>3, <2>5, <2>6, RowStep DEF Inv, TypeOK
<1>5. QED BY <1>3, <1>4

LEMMA PlaceInsertInv ==
  ASSUME Inv, UNCHANGED mode, NEW r \in Reqs, NEW p \in Places, PlaceInsert(r, p)
  PROVE  Inv'
<1>1. PICK y \in Request : y = req[r]
  BY DEF Inv, TypeOK
<1>2. y.h \in Houses /\ y.number \in Numbers /\ y.capacity \in Capacities \cup {0}
  BY <1>1, RequestShape DEF PlaceInsert, At, OnHouse
<1>3. CASE ~Insertable(y.h, y.number)
  BY <1>1, <1>3, IdleStep DEF PlaceInsert
<1>4. CASE Insertable(y.h, y.number)
  <2>1. PICK row : row = [h |-> y.h, number |-> y.number, capacity |-> y.capacity]
    OBVIOUS
  <2>2. row \in PlaceRow /\ row.h = y.h
    BY <1>2, <2>1 DEF PlaceRow
  <2>3. place[p] = NoRow /\ place' = [place EXCEPT ![p] = row] /\ UNCHANGED <<house, vehicle, alloc>> /\ Done(r)
    BY <1>1, <1>4, <2>1 DEF PlaceInsert
  <2>4. place'[p] = row /\ (\A k \in Places \ {p} : place'[k] = place[k])
        /\ place' \in [Places -> PlaceRow \cup {NoRow, Deleted}]
    BY <2>2, <2>3 DEF Inv, TypeOK
  <2>5. \A a \in Ids : Has(a) => place'[alloc[a].p] = place[alloc[a].p]
    BY <2>3, <2>4, Rows DEF Inv, ReferencesHold, Exists, AllocRow
  <2>6. \A k \in Places : Exists(place'[k]) => Exists(house'[place'[k].h])
    BY <1>4, <2>2, <2>3, <2>4 DEF Inv, ReferencesHold, Insertable
  <2>7. QED BY <2>3, <2>4, <2>5, <2>6, RowStep DEF Inv, TypeOK
<1>5. QED BY <1>3, <1>4

LEMMA PlaceDeleteInv ==
  ASSUME Inv, UNCHANGED mode, NEW r \in Reqs, PlaceDelete(r)
  PROVE  Inv'
<1>1. PICK p : p = req[r].p
  OBVIOUS
<1>2. CASE ~(Exists(place[p]) /\ History(p) = {})
  BY <1>1, <1>2, IdleStep DEF PlaceDelete
<1>3. CASE Exists(place[p]) /\ History(p) = {}
  <2>1. place' = [place EXCEPT ![p] = Deleted] /\ UNCHANGED <<house, vehicle, alloc>> /\ Done(r)
    BY <1>1, <1>3 DEF PlaceDelete
  <2>2. /\ \A k \in Places : place'[k] = IF k = p THEN Deleted ELSE place[k]
        /\ place' \in [Places -> PlaceRow \cup {NoRow, Deleted}]
    BY <2>1 DEF Inv, TypeOK
  <2>3. \A a \in Ids : Has(a) => place'[alloc[a].p] = place[alloc[a].p]
    BY <1>3, <2>2, Rows DEF Inv, History, AllocRow
  <2>4. \A k \in Places : Exists(place'[k]) => Exists(house'[place'[k].h])
    BY <2>1, <2>2 DEF Inv, ReferencesHold, Exists
  <2>5. QED BY <2>1, <2>2, <2>3, <2>4, RowStep DEF Inv, TypeOK
<1>4. QED BY <1>2, <1>3

LEMMA Finite ==
  ASSUME Inv, NEW p
  PROVE  IsFiniteSet(ActiveIn(p)) /\ Cardinality(ActiveIn(p)) \in Nat
<1>1. ActiveIn(p) \in SUBSET Used
  BY DEF ActiveIn, Active, Used
<1>2. QED BY <1>1, FS_Subset, FS_CardinalityType DEF Inv

\* The second read goes on to insert, or is the last.
LEMMA CountRoomCase ==
  ASSUME Inv, NEW r \in Reqs, CountRoom(r)
  PROVE  /\ UNCHANGED <<house, place, vehicle, alloc>>
         /\ \/ Done(r)
            \/ \E x \in Request :
                 /\ Goto(r, x) /\ Knows(x)
                 /\ x.pc = "allocate" /\ x.st = req[r].st /\ x.p = req[r].p
                 /\ x.bed \notin Beds(x.p) /\ Cardinality(ActiveIn(x.p)) < place[x.p].capacity
<1>0. UNCHANGED <<house, place, vehicle, alloc>>
  BY DEF CountRoom
<1>1. PICK y \in Request : y = req[r]
  BY DEF Inv, TypeOK
<1>2. y.pc = "countRoom" /\ y.st \in Students /\ y.p \in Places /\ Hostel
  BY <1>1, RequestShape DEF CountRoom, At, OnStudent, Inv, Knows
<1>3. CASE ~(Exists(place[y.p]) /\ Room(y.p, place[y.p].capacity))
  BY <1>0, <1>1, <1>3 DEF CountRoom
<1>4. CASE Exists(place[y.p]) /\ Room(y.p, place[y.p].capacity)
  <2>1. PICK n \in Nat : n = Cardinality(ActiveIn(y.p))
    BY Finite
  <2>2. PICK bed : bed = LowestFreeBed(y.p)
    OBVIOUS
  <2>3. bed \in 1..(n + 1) /\ bed \notin Beds(y.p)
    BY <2>1, <2>2, Finite, BedChosen
  <2>4. place[y.p].capacity \in Nat /\ n < place[y.p].capacity
    <3>1. place[y.p] \in PlaceRow
      BY <1>2, <1>4, Rows DEF Inv
    <3>2. place[y.p].capacity \in Capacities \cup {0}
      BY <3>1 DEF PlaceRow
    <3>3. place[y.p].capacity \in Nat
      BY <3>2, CapacitiesAreNumbers
    <3>4. QED BY <1>4, <2>1, <3>3 DEF Room
  <2>5. bed \in 1..place[y.p].capacity /\ bed \in BedNumbers
    BY <1>2, <2>1, <2>3, <2>4 DEF BedNumbers
  <2>6. PICK x : x = [pc |-> "allocate", st |-> y.st, p |-> y.p, bed |-> bed]
    OBVIOUS
  <2>7. x \in Request
    BY <1>2, <2>5, <2>6 DEF Request
  <2>8. Goto(r, x)
    BY <1>1, <1>4, <2>2, <2>6 DEF CountRoom
  <2>9. Knows(x)
    BY <1>4, <2>5, <2>6 DEF Knows, Exists
  <2>10. /\ x.pc = "allocate" /\ x.st = req[r].st /\ x.p = req[r].p
         /\ x.bed \notin Beds(x.p) /\ Cardinality(ActiveIn(x.p)) < place[x.p].capacity
    BY <1>1, <2>1, <2>3, <2>4, <2>6
  <2>11. QED BY <1>0, <2>7, <2>8, <2>9, <2>10
<1>5. QED BY <1>3, <1>4

LEMMA CountRoomInv ==
  ASSUME Inv, UNCHANGED mode, NEW r \in Reqs, CountRoom(r)
  PROVE  Inv'
BY CountRoomCase, IdleStep, ReadStep

\* The row an insert writes.
LEMMA InsertedRow ==
  ASSUME Inv, NEW r \in Reqs, NEW a \in Ids, AllocationInsert(r, a), Exists(place[req[r].p])
  PROVE  \E row \in AllocRow :
           /\ alloc' = [alloc EXCEPT ![a] = row] /\ row.active
           /\ row.st = req[r].st /\ row.p = req[r].p /\ row.bed = req[r].bed
<1>1. PICK y \in Request : y = req[r]
  BY DEF Inv, TypeOK
<1>2. y.st \in Students /\ y.p \in Places /\ y.bed \in BedNumbers
  BY <1>1, RequestShape DEF AllocationInsert, At, OnStudent
<1>3. PICK row : row = [st |-> y.st, p |-> y.p, bed |-> y.bed, active |-> TRUE]
  OBVIOUS
<1>4. row \in AllocRow /\ row.active /\ row.st = y.st /\ row.p = y.p /\ row.bed = y.bed
  BY <1>2, <1>3 DEF AllocRow
<1>5. alloc' = [alloc EXCEPT ![a] = row]
  BY <1>1, <1>3 DEF AllocationInsert
<1>6. QED BY <1>1, <1>4, <1>5

LEMMA AllocationInsertInv ==
  ASSUME Inv, UNCHANGED mode, NEW r \in Reqs, NEW a \in Ids, AllocationInsert(r, a)
  PROVE  Inv'
<1>1. CASE ~Exists(place[req[r].p])
  BY <1>1, IdleStep DEF AllocationInsert
<1>2. CASE Exists(place[req[r].p])
  <2>1. PICK row \in AllocRow :
          /\ alloc' = [alloc EXCEPT ![a] = row]
          /\ row.st = req[r].st /\ row.p = req[r].p /\ row.bed = req[r].bed
    BY <1>2, InsertedRow
  <2>2. Hostel => row.bed \in 1..place[row.p].capacity
    BY <1>2, <2>1 DEF AllocationInsert, At, Inv, Knows
  <2>3. QED BY <1>2, <2>1, <2>2, AllocStep DEF AllocationInsert
<1>3. QED BY <1>1, <1>2

\* The row a vacate writes.
LEMMA VacatedRow ==
  ASSUME Inv, NEW r \in Reqs, Vacate(r)
  PROVE  \E a \in Ids, row \in AllocRow :
           /\ a = req[r].a /\ Has(a) /\ alloc' = [alloc EXCEPT ![a] = row] /\ ~row.active
           /\ row.st = alloc[a].st /\ row.p = alloc[a].p /\ row.bed = alloc[a].bed
<1>1. PICK y \in Request : y = req[r] /\ Knows(y)
  BY DEF Inv, TypeOK
<1>2. y.a \in Ids /\ Has(y.a)
  BY <1>1, RequestShape DEF Vacate, At, Knows
<1>3. PICK o \in AllocRow : o = alloc[y.a]
  BY <1>2, Rows DEF Inv
<1>4. PICK row : row = [o EXCEPT !.active = FALSE]
  OBVIOUS
<1>5. row \in AllocRow /\ ~row.active /\ row.st = o.st /\ row.p = o.p /\ row.bed = o.bed
  BY <1>3, <1>4 DEF AllocRow
<1>6. alloc' = [alloc EXCEPT ![y.a] = row]
  BY <1>1, <1>2, <1>3, <1>4 DEF Vacate
<1>7. QED BY <1>1, <1>2, <1>3, <1>5, <1>6

LEMMA VacateInv ==
  ASSUME Inv, UNCHANGED mode, NEW r \in Reqs, Vacate(r)
  PROVE  Inv'
<1>1. PICK a \in Ids, row \in AllocRow :
        /\ Has(a) /\ alloc' = [alloc EXCEPT ![a] = row]
        /\ row.st = alloc[a].st /\ row.p = alloc[a].p /\ row.bed = alloc[a].bed
  BY VacatedRow
<1>2. Exists(place[row.p]) /\ (Hostel => row.bed \in 1..place[row.p].capacity)
  BY <1>1 DEF Inv, ReferencesHold, BedsFit
<1>3. QED BY <1>1, <1>2, AllocStep DEF Vacate

LEMMA NextInv == Inv /\ [Next]_vars => Inv'
<1> SUFFICES ASSUME Inv, [Next]_vars PROVE Inv'
  OBVIOUS
<1>1. ASSUME UNCHANGED mode, NEW r \in Reqs, Continue(r) PROVE Inv'
  BY <1>1, RouteInsertInv, VehicleDeleteInv, HouseDeleteInv, PlaceInsertInv, PlaceDeleteInv,
     CountRoomInv, AllocationInsertInv, VacateInv DEF Continue
<1>2. ASSUME UNCHANGED mode, NEW r \in Reqs, Begin(r) \/ Die(r) PROVE Inv'
  BY <1>2, BeginInv, IdleStep DEF Die
<1>3. CASE UNCHANGED vars
  <2>1. TypeOK' /\ Used' = Used /\ ReferencesHold' /\ BedsFit'
    BY <1>3, ModeSame DEF vars, Inv, TypeOK, Used, ReferencesHold, BedsFit, Has, Exists
  <2>2. \A q \in Reqs : Knows(req[q])'
    BY <1>3, ModeSame DEF vars, Inv, Knows, Exists, Has
  <2>3. QED BY <1>3, <2>1, <2>2 DEF vars, Inv
<1>4. QED BY <1>1, <1>2, <1>3 DEF Next

LEMMA Invariance == Spec => []Inv
<1>1. QED BY InitInv, NextInv, PTL DEF Spec

\* Types, in every reachable state.
THEOREM TypeCorrect == Spec => []TypeOK
<1>1. Inv => TypeOK
  BY DEF Inv
<1>2. QED BY <1>1, Invariance, PTL

\* However requests overlap and die, allocations are of places that exist, and
\* those of houses that exist.
THEOREM References == Spec => []ReferencesHold
<1>1. Inv => ReferencesHold
  BY DEF Inv
<1>2. QED BY <1>1, Invariance, PTL

-----------------------------------------------------------------------------
\* Requests that touch the same thing take turns.

Turns   == \A q, s \in Reqs : q # s => Locks(req[q]) \cap Locks(req[s]) = {}
Holding == \A q \in Reqs : Held(req[q])

\* One active allocation for a student, as many in a room as it holds, one in a bed.
RoomsKept ==
    Hostel =>
      \A p \in Places : Exists(place[p]) =>
        /\ Cardinality(ActiveIn(p)) <= place[p].capacity
        /\ \A a, b \in ActiveIn(p) : alloc[a].bed = alloc[b].bed => a = b

SerialInv == Inv /\ (~MayOverlap => Turns /\ Holding /\ OneActivePerStudent /\ RoomsKept)

\* What a query of r does while requests take turns: it writes no row that holds
\* others, or one house, one place or one allocation.
HouseMove(r, h, row) ==
    \/ house[h] = NoRow /\ row \in HouseRow /\ row.vehicle \in Locks(req[r]) \cup {"NONE"}
    \/ Exists(house[h]) /\ h \in Locks(req[r]) /\ PlacesOf(h) = {} /\ row = Deleted

PlaceMove(r, p, row) ==
    \/ place[p] = NoRow /\ row \in PlaceRow /\ row.h \in Locks(req[r])
    \/ p \in Locks(req[r]) /\ row = Deleted

AllocMove(r, a, row) ==
    /\ row \in AllocRow /\ row.st \in Locks(req[r]) /\ row.p \in Locks(req[r])
    /\ \/ /\ ~Has(a) /\ row.active /\ Unallocated(row.st, row.p)
          /\ Hostel => row.bed \notin Beds(row.p) /\ Cardinality(ActiveIn(row.p)) < place[row.p].capacity
       \/ /\ Has(a) /\ ~row.active
          /\ row.st = alloc[a].st /\ row.p = alloc[a].p /\ row.bed = alloc[a].bed

Does(r) ==
    \/ UNCHANGED <<house, place, alloc>>
    \/ \E h \in Houses : \E row : /\ HouseMove(r, h, row) /\ house' = [house EXCEPT ![h] = row]
                                  /\ UNCHANGED <<place, alloc>>
    \/ \E p \in Places : \E row : /\ PlaceMove(r, p, row) /\ place' = [place EXCEPT ![p] = row]
                                  /\ UNCHANGED <<house, alloc>>
    \/ \E a \in Ids : \E row : /\ AllocMove(r, a, row) /\ alloc' = [alloc EXCEPT ![a] = row]
                               /\ UNCHANGED <<house, place>>

LEMMA WritesDoes ==
  ASSUME NEW r \in Reqs, Writes(r)
  PROVE  Does(r)
<1>1. [vehicle |-> "NONE"] \in HouseRow
  BY DEF HouseRow
<1>2. ASSUME NEW h \in Houses, house[h] = NoRow, house' = [house EXCEPT ![h] = [vehicle |-> "NONE"]]
      PROVE  Does(r)
  <2>1. PICK row : row = [vehicle |-> "NONE"]
    OBVIOUS
  <2>2. HouseMove(r, h, row)
    BY <1>1, <1>2, <2>1 DEF HouseMove
  <2>3. QED BY <1>2, <2>1, <2>2 DEF Does, Writes
<1>3. QED BY <1>2 DEF Writes, Does

LEMMA Own ==
  ASSUME SerialInv, ~MayOverlap, NEW r \in Reqs
  PROVE  \E y \in Request : /\ y = req[r] /\ Knows(y) /\ Held(y)
                            /\ y.pc \in OnVehicle => Locks(y) = {y.v}
                            /\ y.pc \in OnHouse => Locks(y) = {y.h}
                            /\ y.pc = "deletePlace" => Locks(y) = {y.p}
                            /\ y.pc \in OnStudent => Locks(y) = {y.st, y.p}
                            /\ y.pc = "vacate" => Locks(y) = {alloc[y.a].st, alloc[y.a].p}
<1>1. PICK y \in Request : y = req[r] /\ Knows(y) /\ Held(y)
  BY DEF SerialInv, Inv, TypeOK, Holding
<1>2. QED BY <1>1 DEF Locks, OnVehicle, OnHouse, OnStudent

LEMMA HouseDoes ==
  ASSUME SerialInv, ~MayOverlap, NEW r \in Reqs,
         VehicleDelete(r) \/ HouseDelete(r) \/ \E h \in Houses : RouteInsert(r, h)
  PROVE  Does(r)
<1>1. PICK y \in Request : /\ y = req[r] /\ Held(y)
                           /\ y.pc \in OnVehicle => Locks(y) = {y.v}
                           /\ y.pc \in OnHouse => Locks(y) = {y.h}
  BY Own
<1>2. CASE VehicleDelete(r)
  <2>1. Unassigned(y.v)
    BY <1>1, <1>2 DEF VehicleDelete, At, Held
  <2>2. house' = [h \in Houses |-> house[h]]
    BY <1>1, <1>2, <2>1 DEF VehicleDelete, Unassigned
  <2>3. UNCHANGED house
    BY <2>2 DEF SerialInv, Inv, TypeOK
  <2>4. QED BY <1>2, <2>3 DEF VehicleDelete, Does
<1>3. CASE HouseDelete(r)
  <2>1. y.h \in Houses /\ Exists(house[y.h]) /\ PlacesOf(y.h) = {} /\ y.h \in Locks(y)
    BY <1>1, <1>3, RequestShape DEF HouseDelete, At, Held, Empty, OnHouse
  <2>2. \/ house' = [house EXCEPT ![y.h] = Deleted] /\ place' = [p \in Places |-> place[p]]
        \/ UNCHANGED <<house, place>>
    BY <1>1, <1>3, <2>1 DEF HouseDelete
  <2>3. \/ house' = [house EXCEPT ![y.h] = Deleted] /\ UNCHANGED place
        \/ UNCHANGED <<house, place>>
    BY <2>2 DEF SerialInv, Inv, TypeOK
  <2>4. HouseMove(r, y.h, Deleted)
    BY <1>1, <2>1 DEF HouseMove
  <2>5. QED BY <1>3, <2>1, <2>3, <2>4 DEF HouseDelete, Does
<1>4. ASSUME NEW h \in Houses, RouteInsert(r, h) PROVE Does(r)
  <2>1. PICK row : row = [vehicle |-> y.v]
    OBVIOUS
  <2>2. y.v \in Vehicles /\ y.v \in Locks(y)
    BY <1>1, <1>4, RequestShape DEF RouteInsert, At, OnVehicle
  <2>3. row \in HouseRow /\ row.vehicle \in Locks(y)
    BY <2>1, <2>2 DEF HouseRow
  <2>4. HouseMove(r, h, row)
    BY <1>1, <1>4, <2>3 DEF HouseMove, RouteInsert
  <2>5. house' = [house EXCEPT ![h] = row] \/ UNCHANGED house
    BY <1>1, <1>4, <2>1 DEF RouteInsert
  <2>6. QED BY <1>4, <2>4, <2>5 DEF RouteInsert, Does
<1>5. QED BY <1>2, <1>3, <1>4

LEMMA PlaceDoes ==
  ASSUME SerialInv, ~MayOverlap, NEW r \in Reqs, PlaceDelete(r) \/ \E p \in Places : PlaceInsert(r, p)
  PROVE  Does(r)
<1>1. PICK y \in Request : /\ y = req[r]
                           /\ y.pc \in OnHouse => Locks(y) = {y.h}
                           /\ y.pc = "deletePlace" => Locks(y) = {y.p}
  BY Own
<1>2. CASE PlaceDelete(r)
  <2>1. y.p \in Places /\ y.p \in Locks(y)
    BY <1>1, <1>2, RequestShape DEF PlaceDelete, At
  <2>2. PlaceMove(r, y.p, Deleted)
    BY <1>1, <2>1 DEF PlaceMove
  <2>3. place' = [place EXCEPT ![y.p] = Deleted] \/ UNCHANGED place
    BY <1>1, <1>2 DEF PlaceDelete
  <2>4. QED BY <1>2, <2>1, <2>2, <2>3 DEF PlaceDelete, Does
<1>3. ASSUME NEW p \in Places, PlaceInsert(r, p) PROVE Does(r)
  <2>1. PICK row : row = [h |-> y.h, number |-> y.number, capacity |-> y.capacity]
    OBVIOUS
  <2>2. y.h \in Houses /\ y.number \in Numbers /\ y.capacity \in Capacities \cup {0} /\ y.h \in Locks(y)
    BY <1>1, <1>3, RequestShape DEF PlaceInsert, At, OnHouse
  <2>3. row \in PlaceRow /\ row.h \in Locks(y)
    BY <2>1, <2>2 DEF PlaceRow
  <2>4. PlaceMove(r, p, row)
    BY <1>1, <1>3, <2>3 DEF PlaceMove, PlaceInsert
  <2>5. place' = [place EXCEPT ![p] = row] \/ UNCHANGED place
    BY <1>1, <1>3, <2>1 DEF PlaceInsert
  <2>6. QED BY <1>3, <2>4, <2>5 DEF PlaceInsert, Does
<1>4. QED BY <1>2, <1>3

LEMMA AllocDoes ==
  ASSUME SerialInv, ~MayOverlap, NEW r \in Reqs, Vacate(r) \/ \E a \in Ids : AllocationInsert(r, a)
  PROVE  Does(r)
<1>1. PICK y \in Request : /\ y = req[r] /\ Knows(y) /\ Held(y)
                           /\ y.pc \in OnStudent => Locks(y) = {y.st, y.p}
                           /\ y.pc = "vacate" => Locks(y) = {alloc[y.a].st, alloc[y.a].p}
  BY Own
<1>2. CASE Vacate(r)
  <2>1. PICK a \in Ids, row \in AllocRow :
           /\ a = req[r].a /\ Has(a) /\ alloc' = [alloc EXCEPT ![a] = row] /\ ~row.active
           /\ row.st = alloc[a].st /\ row.p = alloc[a].p /\ row.bed = alloc[a].bed
    BY <1>2, VacatedRow DEF SerialInv
  <2>2. AllocMove(r, a, row)
    BY <1>1, <1>2, <2>1 DEF AllocMove, Vacate, At
  <2>3. QED BY <1>2, <2>1, <2>2 DEF Does, Vacate
<1>3. ASSUME NEW a \in Ids, AllocationInsert(r, a) PROVE Does(r)
  <2>1. y.pc = "allocate" /\ Locks(y) = {y.st, y.p} /\ Exists(place[y.p]) /\ ~Has(a)
    BY <1>1, <1>3 DEF AllocationInsert, At, OnStudent, Held
  <2>2. PICK row \in AllocRow :
           /\ alloc' = [alloc EXCEPT ![a] = row] /\ row.active
           /\ row.st = y.st /\ row.p = y.p /\ row.bed = y.bed
    BY <1>1, <1>3, <2>1, InsertedRow DEF SerialInv
  <2>3. AllocMove(r, a, row)
    BY <1>1, <2>1, <2>2 DEF AllocMove, Held, OnStudent
  <2>4. QED BY <1>3, <2>2, <2>3 DEF Does, AllocationInsert
<1>4. QED BY <1>2, <1>3

LEMMA ContinueDoes ==
  ASSUME SerialInv, ~MayOverlap, NEW r \in Reqs, Continue(r)
  PROVE  Does(r)
BY HouseDoes, PlaceDoes, AllocDoes DEF Continue, CountRoom, Does

\* What a move does to the active allocations of a place.
LEMMA ActiveMoved ==
  ASSUME Inv, NEW r, NEW a \in Ids, NEW row, AllocMove(r, a, row), alloc' = [alloc EXCEPT ![a] = row]
  PROVE  /\ Active' = IF row.active THEN Active \cup {a} ELSE Active \ {a}
         /\ ActiveIn(row.p)' = IF row.active THEN ActiveIn(row.p) \cup {a} ELSE ActiveIn(row.p) \ {a}
<1>1. row # NoRow
  BY RowKinds DEF AllocMove
<1>2. alloc'[a] = row /\ \A b \in Ids \ {a} : alloc'[b] = alloc[b]
  BY DEF Inv, TypeOK
<1>3. Has(a)' /\ \A b \in Ids \ {a} : (Has(b)' <=> Has(b))
  BY <1>1, <1>2 DEF Has
<1>4. Active' = IF row.active THEN Active \cup {a} ELSE Active \ {a}
  BY <1>2, <1>3 DEF Active
<1>5. Has(a) => row.p = alloc[a].p
  BY DEF AllocMove
<1>6. \A p : History(p)' = IF p = row.p THEN History(p) \cup {a} ELSE History(p)
  BY <1>2, <1>3, <1>5 DEF History
<1>7. ActiveIn(row.p)' = IF row.active THEN ActiveIn(row.p) \cup {a} ELSE ActiveIn(row.p) \ {a}
  BY <1>4, <1>6 DEF ActiveIn
<1>8. QED BY <1>4, <1>7

LEMMA ActiveElsewhere ==
  ASSUME Inv, NEW r, NEW a \in Ids, NEW row, AllocMove(r, a, row), alloc' = [alloc EXCEPT ![a] = row],
         NEW p, p # row.p
  PROVE  ActiveIn(p)' = ActiveIn(p) /\ Beds(p)' = Beds(p)
<1>1. \A b \in Ids \ {a} : alloc'[b] = alloc[b]
  BY DEF Inv, TypeOK
<1>2. alloc'[a] = row /\ (Has(a) => alloc[a].p # p)
  BY DEF Inv, TypeOK, AllocMove
<1>3. ActiveIn(p)' = ActiveIn(p) /\ a \notin ActiveIn(p)
  BY <1>1, <1>2 DEF ActiveIn, Active, History, Has
<1>4. \A b \in ActiveIn(p) : alloc'[b] = alloc[b]
  BY <1>1, <1>3 DEF ActiveIn, History
<1>5. Beds(p)' = {alloc'[b].bed : b \in ActiveIn(p)}
  BY <1>3 DEF Beds
<1>6. QED BY <1>3, <1>4, <1>5 DEF Beds

\* A query of r leaves alone what the others have found out.
LEMMA OthersKept ==
  ASSUME SerialInv, ~MayOverlap, UNCHANGED mode, NEW r \in Reqs, Does(r), NEW q \in Reqs \ {r},
         req'[q] = req[q]
  PROVE  Held(req[q])' /\ Locks(req[q])' = Locks(req[q])
<1>1. PICK x \in Request : /\ x = req[q] /\ Knows(x) /\ Held(x)
                           /\ x.pc \in OnVehicle => Locks(x) = {x.v}
                           /\ x.pc \in OnHouse => Locks(x) = {x.h}
                           /\ x.pc = "deletePlace" => Locks(x) = {x.p}
                           /\ x.pc \in OnStudent => Locks(x) = {x.st, x.p}
  BY Own
<1>2. Locks(req[r]) \cap Locks(x) = {}
  BY <1>1 DEF SerialInv, Turns
<1>3. CASE UNCHANGED <<house, place, alloc>>
  BY <1>1, <1>3, ModeSame
     DEF Held, Locks, Unallocated, Active, Has, Beds, ActiveIn, History, Empty, PlacesOf, Unassigned, Exists
<1>4. ASSUME NEW h \in Houses, NEW row, HouseMove(r, h, row), house' = [house EXCEPT ![h] = row],
             UNCHANGED <<place, alloc>>
      PROVE  Held(x)' /\ Locks(x)' = Locks(x)
  <2>1. house'[h] = row /\ \A k \in Houses \ {h} : house'[k] = house[k]
    BY <1>4 DEF SerialInv, Inv, TypeOK
  <2>2. Locks(x)' = Locks(x)
    BY <1>4 DEF Locks
  <2>3. (x.pc = "deleteHouse" => Exists(house[x.h]) /\ Empty(x.h))'
    <3>1. SUFFICES ASSUME x.pc = "deleteHouse" PROVE (Exists(house[x.h]) /\ Empty(x.h))'
      OBVIOUS
    <3>2. x.h \in Houses /\ Exists(house[x.h]) /\ Empty(x.h) /\ Locks(x) = {x.h}
      BY <1>1, <3>1, RequestShape DEF OnHouse, Held
    <3>3. x.h # h
      BY <1>2, <1>4, <3>2 DEF HouseMove, Exists
    <3>4. QED BY <1>4, <2>1, <3>2, <3>3 DEF Empty, PlacesOf, Exists
  <2>4. (x.pc = "deleteVehicle" => Unassigned(x.v))'
    <3>1. SUFFICES ASSUME x.pc = "deleteVehicle" PROVE Unassigned(x.v)'
      OBVIOUS
    <3>2. x.v \in Vehicles /\ Unassigned(x.v) /\ Locks(x) = {x.v} /\ x.v # "NONE"
      BY <1>1, <3>1, RequestShape, AllocationsAssumption DEF OnVehicle, Held
    <3>3. Exists(row) => row.vehicle # x.v
      BY <1>2, <1>4, <3>2 DEF HouseMove, Exists
    <3>4. QED BY <2>1, <3>2, <3>3 DEF Unassigned, Exists
  <2>5. QED
    BY <1>1, <1>4, <2>2, <2>3, <2>4, ModeSame
       DEF Held, Unallocated, Active, Has, Beds, ActiveIn, History, Exists
<1>5. ASSUME NEW p \in Places, NEW row, PlaceMove(r, p, row), place' = [place EXCEPT ![p] = row],
             UNCHANGED <<house, alloc>>
      PROVE  Held(x)' /\ Locks(x)' = Locks(x)
  <2>1. place'[p] = row /\ \A k \in Places \ {p} : place'[k] = place[k]
    BY <1>5 DEF SerialInv, Inv, TypeOK
  <2>2. Locks(x)' = Locks(x)
    BY <1>5 DEF Locks
  <2>3. x.pc \in OnStudent => place'[x.p] = place[x.p]
    <3>1. SUFFICES ASSUME x.pc \in OnStudent PROVE x.p # p /\ x.p \in Places
      BY <2>1
    <3>2. x.p \in Places /\ Exists(place[x.p]) /\ x.p \in Locks(x)
      BY <1>1, <3>1, RequestShape DEF Held
    <3>3. QED BY <1>2, <1>5, <3>2 DEF PlaceMove, Exists
  <2>4. x.pc = "deleteHouse" => Empty(x.h)'
    <3>1. SUFFICES ASSUME x.pc = "deleteHouse" PROVE Empty(x.h)'
      OBVIOUS
    <3>2. Empty(x.h) /\ Locks(x) = {x.h}
      BY <1>1, <3>1 DEF OnHouse, Held
    <3>3. Exists(row) => row.h # x.h
      BY <1>2, <1>5, <3>2 DEF PlaceMove, Exists
    <3>4. QED BY <2>1, <3>2, <3>3 DEF Empty, PlacesOf, Exists
  <2>5. ASSUME NEW k PROVE ActiveIn(k)' = ActiveIn(k) /\ Beds(k)' = Beds(k) /\ Active' = Active
    BY <1>5 DEF Active, Has, Beds, ActiveIn, History
  <2>6. (x.pc \in OnStudent => Exists(place[x.p]) /\ Unallocated(x.st, x.p))'
    BY <1>1, <1>5, <2>3, <2>5 DEF Held, OnStudent, Unallocated, Exists
  <2>7. (x.pc = "allocate" /\ Hostel =>
           x.bed \notin Beds(x.p) /\ Cardinality(ActiveIn(x.p)) < place[x.p].capacity)'
    BY <1>1, <2>3, <2>5, ModeSame DEF Held, OnStudent
  <2>8. (x.pc = "deleteHouse" => Exists(house[x.h]) /\ Empty(x.h))' /\ (x.pc = "deleteVehicle" => Unassigned(x.v))'
    BY <1>1, <1>5, <2>4 DEF Held, Unassigned, Exists
  <2>9. QED BY <2>2, <2>6, <2>7, <2>8 DEF Held, OnStudent
<1>6. ASSUME NEW a \in Ids, NEW row, AllocMove(r, a, row), alloc' = [alloc EXCEPT ![a] = row],
             UNCHANGED <<house, place>>
      PROVE  Held(x)' /\ Locks(x)' = Locks(x)
  <2>0. alloc'[a] = row /\ \A b \in Ids \ {a} : alloc'[b] = alloc[b]
    BY <1>6 DEF SerialInv, Inv, TypeOK
  <2>1. Active' = IF row.active THEN Active \cup {a} ELSE Active \ {a}
    <3>1. Inv
      BY DEF SerialInv
    <3>2. QED BY <1>6, <3>1, ActiveMoved
  <2>2. Locks(x)' = Locks(x)
    <3>1. x.pc = "vacate" => x.a \in Ids /\ Has(x.a)
      BY <1>1, RequestShape DEF Knows
    <3>2. x.pc = "vacate" => alloc'[x.a].st = alloc[x.a].st /\ alloc'[x.a].p = alloc[x.a].p
      BY <1>6, <2>0, <3>1 DEF AllocMove
    <3>3. QED BY <3>2 DEF Locks
  <2>3. ASSUME x.pc \in OnStudent
        PROVE  Unallocated(x.st, x.p)' /\ ActiveIn(x.p)' = ActiveIn(x.p) /\ Beds(x.p)' = Beds(x.p)
    <3>1. x.p \in Places /\ row.st # x.st /\ row.p # x.p
      BY <1>1, <1>2, <1>6, <2>3, RequestShape DEF AllocMove
    <3>2. \A b \in Active' : alloc'[b].st # x.st
      BY <1>1, <2>0, <2>1, <2>3, <3>1 DEF Held, Unallocated, Active
    <3>3. ActiveIn(x.p)' = ActiveIn(x.p) /\ Beds(x.p)' = Beds(x.p)
      <4>1. Inv
        BY DEF SerialInv
      <4>2. QED BY <1>6, <3>1, <4>1, ActiveElsewhere
    <3>4. QED BY <3>2, <3>3 DEF Unallocated
  <2>4. (x.pc \in OnStudent => Exists(place[x.p]) /\ Unallocated(x.st, x.p))'
    BY <1>1, <1>6, <2>3 DEF Held, Exists, OnStudent
  <2>5. (x.pc = "allocate" /\ Hostel =>
           x.bed \notin Beds(x.p) /\ Cardinality(ActiveIn(x.p)) < place[x.p].capacity)'
    BY <1>1, <1>6, <2>3, ModeSame DEF Held, OnStudent
  <2>6. (x.pc = "deleteHouse" => Exists(house[x.h]) /\ Empty(x.h))' /\ (x.pc = "deleteVehicle" => Unassigned(x.v))'
    BY <1>1, <1>6 DEF Held, Empty, PlacesOf, Unassigned, Exists
  <2>7. QED BY <2>2, <2>4, <2>5, <2>6 DEF Held, OnStudent
<1>7. QED BY <1>1, <1>3, <1>4, <1>5, <1>6 DEF Does

\* A query of r gives no second allocation, overfills no room and gives no bed twice.
LEMMA RoomsStay ==
  ASSUME SerialInv, ~MayOverlap, UNCHANGED mode, NEW r \in Reqs, Does(r)
  PROVE  OneActivePerStudent' /\ RoomsKept'
<1>1. CASE UNCHANGED <<place, alloc>>
  BY <1>1, ModeSame
     DEF SerialInv, OneActivePerStudent, RoomsKept, Active, Has, ActiveIn, History, Exists
<1>2. ASSUME NEW p \in Places, NEW row, PlaceMove(r, p, row), place' = [place EXCEPT ![p] = row], UNCHANGED alloc
      PROVE  OneActivePerStudent' /\ RoomsKept'
  <2>1. place'[p] = row /\ \A k \in Places \ {p} : place'[k] = place[k]
    BY <1>2 DEF SerialInv, Inv, TypeOK
  <2>2. \A k : ActiveIn(k)' = ActiveIn(k)
    BY <1>2 DEF Active, Has, ActiveIn, History
  <2>3. OneActivePerStudent'
    BY <1>2, ModeSame DEF SerialInv, OneActivePerStudent, Active, Has
  <2>4. Exists(row) => row \in PlaceRow /\ ActiveIn(p) = {}
    <3>1. SUFFICES ASSUME Exists(row) PROVE row \in PlaceRow /\ ActiveIn(p) = {}
      OBVIOUS
    <3>2. place[p] = NoRow /\ row \in PlaceRow
      BY <1>2, <3>1 DEF PlaceMove, Exists
    <3>3. QED BY <3>2 DEF SerialInv, Inv, ReferencesHold, ActiveIn, Active, History, Exists
  <2>5. Exists(row) => 0 <= row.capacity
    BY <2>4, CapacitiesAreNumbers DEF PlaceRow
  <2>6. Cardinality({}) = 0
    BY FS_EmptySet
  <2>7. RoomsKept'
    BY <1>2, <2>1, <2>2, <2>4, <2>5, <2>6, ModeSame DEF SerialInv, RoomsKept, Exists
  <2>8. QED BY <2>3, <2>7
<1>3. ASSUME NEW a \in Ids, NEW row, AllocMove(r, a, row), alloc' = [alloc EXCEPT ![a] = row], UNCHANGED place
      PROVE  OneActivePerStudent' /\ RoomsKept'
  <2>0. Inv /\ alloc'[a] = row /\ \A b \in Ids \ {a} : alloc'[b] = alloc[b]
    BY <1>3 DEF SerialInv, Inv, TypeOK
  <2>1. /\ Active' = IF row.active THEN Active \cup {a} ELSE Active \ {a}
        /\ ActiveIn(row.p)' = IF row.active THEN ActiveIn(row.p) \cup {a} ELSE ActiveIn(row.p) \ {a}
    BY <1>3, <2>0, ActiveMoved
  <2>2. a \notin ActiveIn(row.p) \/ ~row.active
    BY <1>3 DEF AllocMove, ActiveIn, Active
  <2>3. OneActivePerStudent'
    <3>1. \A b \in Active : b \in Ids
      BY DEF Active
    <3>2. \A b, c \in Active : alloc[b].st = alloc[c].st => b = c
      BY DEF SerialInv, OneActivePerStudent
    <3>3. CASE row.active
      <4>1. \A b \in Active : alloc[b].st # row.st /\ b # a
        BY <1>3, <3>3 DEF AllocMove, Unallocated, Active
      <4>2. \A b, c \in Active \cup {a} : alloc'[b].st = alloc'[c].st => b = c
        BY <2>0, <2>1, <3>1, <3>2, <4>1
      <4>3. QED BY <2>0, <2>1, <3>3, <4>2 DEF OneActivePerStudent
    <3>4. CASE ~row.active
      <4>1. \A b, c \in Active \ {a} : alloc'[b].st = alloc'[c].st => b = c
        BY <2>0, <2>1, <3>1, <3>2
      <4>2. Active' = Active \ {a}
        BY <2>0, <2>1, <3>4
      <4>3. QED BY <4>1, <4>2 DEF OneActivePerStudent
    <3>5. QED BY <3>3, <3>4
  <2>4. ASSUME Hostel, NEW p \in Places, Exists(place[p])
        PROVE  /\ Cardinality(ActiveIn(p)') <= place[p].capacity
               /\ \A b, c \in ActiveIn(p)' : alloc'[b].bed = alloc'[c].bed => b = c
    <3>1. /\ Cardinality(ActiveIn(p)) <= place[p].capacity
          /\ \A b, c \in ActiveIn(p) : alloc[b].bed = alloc[c].bed => b = c
      BY <2>4 DEF SerialInv, RoomsKept
    <3>2. PICK n \in Nat : n = Cardinality(ActiveIn(p)) /\ IsFiniteSet(ActiveIn(p))
      BY Finite DEF SerialInv
    <3>3. PICK m \in Nat : m = place[p].capacity
      <4>1. place[p].capacity \in Capacities \cup {0}
        BY <2>4, Rows DEF SerialInv, Inv, PlaceRow
      <4>2. QED BY <4>1, CapacitiesAreNumbers
    <3>4. \A b \in ActiveIn(p) : b \in Ids
      BY DEF ActiveIn, Active
    <3>5. CASE p # row.p
      <4>1. ActiveIn(p)' = ActiveIn(p)
        BY <1>3, <2>0, <3>5, ActiveElsewhere, ZenonT(60)
      <4>2. \A b \in ActiveIn(p) : alloc'[b].bed = alloc[b].bed
        BY <1>3, <2>0, <2>1, <3>4 DEF AllocMove, ActiveIn, Active
      <4>3. QED BY <3>1, <4>1, <4>2
    <3>6. CASE p = row.p /\ row.active
      <4>1. n < m /\ row.bed \notin Beds(p) /\ a \notin ActiveIn(p)
        BY <1>3, <2>4, <3>2, <3>3, <3>6 DEF AllocMove, ActiveIn, Active
      <4>2. ActiveIn(p)' = ActiveIn(p) \cup {a}
        BY <2>0, <2>1, <3>6
      <4>3. Cardinality(ActiveIn(p) \cup {a}) = n + 1
        BY <3>2, <4>1, FS_AddElement
      <4>4. \A b \in ActiveIn(p) : alloc'[b] = alloc[b] /\ alloc[b].bed # row.bed
        BY <2>0, <2>1, <3>4, <4>1 DEF Beds
      <4>5. \A b, c \in ActiveIn(p) \cup {a} : alloc'[b].bed = alloc'[c].bed => b = c
        BY <2>0, <2>1, <3>1, <4>4
      <4>6. n + 1 <= m
        BY <4>1
      <4>7. QED BY <3>3, <4>2, <4>3, <4>5, <4>6
    <3>7. CASE p = row.p /\ ~row.active
      <4>1. ActiveIn(p)' = ActiveIn(p) \ {a}
        BY <2>0, <2>1, <3>7
      <4>2. PICK k \in Nat : k = Cardinality(ActiveIn(p) \ {a}) /\ k <= n
        BY <3>2, FS_Subset, FS_CardinalityType
      <4>3. k <= m
        BY <3>1, <3>2, <3>3, <4>2
      <4>4. \A b \in ActiveIn(p) \ {a} : alloc'[b] = alloc[b]
        BY <2>0, <2>1, <3>4
      <4>5. QED BY <3>1, <3>3, <4>1, <4>2, <4>3, <4>4
    <3>8. QED BY <3>5, <3>6, <3>7
  <2>5. RoomsKept'
    BY <1>3, <2>4, ModeSame DEF RoomsKept, Exists
  <2>6. QED BY <2>3, <2>5
<1>4. QED BY <1>1, <1>2, <1>3 DEF Does

LEMMA IdleHolds == Held(Idle) /\ Locks(Idle) = {}
BY DEF Held, Locks, Idle, OnVehicle, OnHouse, OnStudent

\* A query of r that ends what it does.
LEMMA SerialWrite ==
  ASSUME SerialInv, Inv', UNCHANGED mode, NEW r \in Reqs, ~MayOverlap => Does(r),
         Done(r) \/ (req[r] = Idle /\ UNCHANGED req)
  PROVE  SerialInv'
<1>1. CASE MayOverlap
  BY <1>1, ModeSame DEF SerialInv
<1>2. CASE ~MayOverlap
  <2>1. req'[r] = Idle /\ \A q \in Reqs \ {r} : req'[q] = req[q]
    BY RequestStep DEF Done, SerialInv, Inv
  <2>2. \A q \in Reqs \ {r} : Held(req[q])' /\ Locks(req[q])' = Locks(req[q])
    BY <1>2, <2>1, OthersKept
  <2>3. (Held(Idle) /\ Locks(Idle) = {})'
    BY IdleHolds, PTL
  <2>4. Held(req[r])' /\ Locks(req[r])' = {}
    BY <2>1, <2>3
  <2>5. Turns'
    BY <1>2, <2>2, <2>4 DEF SerialInv, Turns
  <2>6. Holding'
    BY <2>2, <2>4 DEF Holding
  <2>7. QED BY <1>2, <2>5, <2>6, RoomsStay DEF SerialInv
<1>3. QED BY <1>1, <1>2

\* A query of r that only reads, after which the request goes on as x.
LEMMA SerialRead ==
  ASSUME SerialInv, Inv', UNCHANGED <<mode, house, place, vehicle, alloc>>, NEW r \in Reqs, NEW x, Goto(r, x),
         MayOverlap \/ /\ Held(x)
                       /\ (\A q \in Reqs : Locks(req[q]) \cap Locks(x) = {}) \/ Locks(x) = Locks(req[r])
  PROVE  SerialInv'
<1>1. CASE MayOverlap
  BY <1>1, ModeSame DEF SerialInv
<1>2. CASE ~MayOverlap
  <2>1. req'[r] = x /\ \A q \in Reqs \ {r} : req'[q] = req[q]
    BY RequestStep, SMTT(30) DEF SerialInv, Inv
  <2>2. ASSUME NEW y PROVE (Held(y) => Held(y)') /\ Locks(y)' = Locks(y)
    BY ModeSame DEF Held, Locks, Unallocated, Active, Has, Beds, ActiveIn, History, Empty, PlacesOf, Unassigned, Exists
  <2>3. Holding'
    <3>1. \A q \in Reqs : Held(req'[q])
      BY <1>2, <2>1 DEF SerialInv, Holding
    <3>2. QED BY <2>2, <3>1 DEF Holding
  <2>4. Turns'
    <3>1. \A q, s \in Reqs : q # s => Locks(req'[q]) \cap Locks(req'[s]) = {}
      BY <1>2, <2>1 DEF SerialInv, Turns
    <3>2. QED BY <2>2, <3>1 DEF Turns
  <2>5. OneActivePerStudent' /\ RoomsKept'
    BY <1>2, ModeSame DEF SerialInv, OneActivePerStudent, RoomsKept, Active, Has, ActiveIn, History, Exists
  <2>6. QED BY <2>3, <2>4, <2>5 DEF SerialInv
<1>3. QED BY <1>1, <1>2

LEMMA SerialCountRoom ==
  ASSUME SerialInv, Inv', UNCHANGED mode, NEW r \in Reqs, CountRoom(r)
  PROVE  SerialInv'
<1>1. Inv
  BY DEF SerialInv
<1>2. CASE Done(r)
  <2>1. Does(r)
    BY DEF CountRoom, Does
  <2>2. QED BY <1>2, <2>1, SerialWrite
<1>3. ASSUME NEW x \in Request, Goto(r, x), x.pc = "allocate", x.st = req[r].st, x.p = req[r].p,
             x.bed \notin Beds(x.p), Cardinality(ActiveIn(x.p)) < place[x.p].capacity
      PROVE  SerialInv'
  <2>1. ASSUME ~MayOverlap PROVE Held(x) /\ Locks(x) = Locks(req[r])
    <3>1. PICK y \in Request : y = req[r] /\ Held(y) /\ (y.pc \in OnStudent => Locks(y) = {y.st, y.p})
      BY <2>1, Own
    <3>2. y.pc \in OnStudent
      BY <3>1 DEF CountRoom, At, OnStudent
    <3>3. Locks(x) = {x.st, x.p}
      BY <1>3 DEF Locks, OnVehicle, OnHouse, OnStudent
    <3>4. Held(x)
      BY <1>3, <3>1, <3>2 DEF Held, OnStudent
    <3>5. QED BY <1>3, <3>1, <3>2, <3>3, <3>4
  <2>2. UNCHANGED <<house, place, vehicle, alloc>>
    BY DEF CountRoom
  <2>3. QED BY <1>3, <2>1, <2>2, SerialRead
<1>4. QED BY <1>1, <1>2, <1>3, CountRoomCase

LEMMA SerialNext == SerialInv /\ [Next]_vars => SerialInv'
<1> SUFFICES ASSUME SerialInv, [Next]_vars PROVE SerialInv'
  OBVIOUS
<1>0. Inv /\ Inv'
  BY NextInv DEF SerialInv
<1>1. ASSUME UNCHANGED mode, NEW r \in Reqs, Begin(r) PROVE SerialInv'
  <2>1. CASE Writes(r)
    BY <1>0, <1>1, <2>1, WritesDoes, SerialWrite DEF Writes
  <2>2. ASSUME NEW x \in Request, Starts(r, x) PROVE SerialInv'
    BY <1>0, <1>1, <2>2, SerialRead DEF Starts
  <2>3. QED BY <1>0, <1>1, <2>1, <2>2, BeginCases
<1>2. ASSUME UNCHANGED mode, NEW r \in Reqs, Continue(r), ~CountRoom(r) PROVE SerialInv'
  <2>1. Done(r)
    BY <1>2 DEF Continue, VehicleDelete, HouseDelete, PlaceDelete, Vacate, RouteInsert, PlaceInsert, AllocationInsert
  <2>2. QED BY <1>0, <1>2, <2>1, ContinueDoes, SerialWrite
<1>3. ASSUME UNCHANGED mode, NEW r \in Reqs, CountRoom(r) PROVE SerialInv'
  BY <1>0, <1>3, SerialCountRoom
<1>4. ASSUME UNCHANGED mode, NEW r \in Reqs, Die(r) PROVE SerialInv'
  <2>1. Does(r)
    BY <1>4 DEF Die, Does
  <2>2. QED BY <1>0, <1>4, <2>1, SerialWrite DEF Die
<1>5. CASE UNCHANGED vars
  <2>1. UNCHANGED <<mode, house, place, vehicle, alloc>> /\ UNCHANGED req
    BY <1>5 DEF vars
  <2>2. ASSUME NEW y PROVE (Held(y) => Held(y)') /\ Locks(y)' = Locks(y)
    BY <2>1, ModeSame
       DEF Held, Locks, Unallocated, Active, Has, Beds, ActiveIn, History, Empty, PlacesOf, Unassigned, Exists
  <2>3. ~MayOverlap => Turns' /\ Holding'
    <3>1. ~MayOverlap => /\ \A q \in Reqs : Held(req'[q])
                         /\ \A q, s \in Reqs : q # s => Locks(req'[q]) \cap Locks(req'[s]) = {}
      BY <2>1 DEF SerialInv, Turns, Holding
    <3>2. QED BY <2>2, <3>1 DEF Turns, Holding
  <2>4. ~MayOverlap => OneActivePerStudent' /\ RoomsKept'
    BY <2>1, ModeSame DEF SerialInv, OneActivePerStudent, RoomsKept, Active, Has, ActiveIn, History, Exists
  <2>5. QED BY <1>0, <2>1, <2>3, <2>4, ModeSame DEF SerialInv
<1>6. QED BY <1>1, <1>2, <1>3, <1>4, <1>5 DEF Next

LEMMA SerialInit == Init => SerialInv
<1> SUFFICES ASSUME Init PROVE SerialInv
  OBVIOUS
<1>1. Inv
  BY InitInv
<1>2. OneActivePerStudent /\ RoomsKept
  BY DEF Init, OneActivePerStudent, RoomsKept, Active, Has, Exists
<1>3. \A q \in Reqs : Held(req[q]) /\ Locks(req[q]) = {}
  BY IdleHolds DEF Init
<1>4. QED BY <1>1, <1>2, <1>3 DEF SerialInv, Turns, Holding

LEMMA SerialInvariance == Spec => []SerialInv
<1>1. QED BY SerialInit, SerialNext, PTL DEF Spec

-----------------------------------------------------------------------------
\* What follows.

\* Whoever overlaps, allocations are of rooms and stops that exist and beds within
\* the room; while requests take turns, a student has one active allocation and a
\* room holds no more students than its capacity, each in a bed of their own.
THEOREM AllocationsAreSound == Spec => []AllocationsSound
<1>1. SerialInv => AllocationsSound
  <2>1. SUFFICES ASSUME SerialInv PROVE AllocationsSound
    OBVIOUS
  <2>2. OneActivePerStudent
    BY <2>1 DEF SerialInv, OneActivePerStudent
  <2>3. RoomsHold
    <3>1. ASSUME Hostel, NEW p \in Places, NEW a \in History(p) PROVE alloc[a].bed \in 1..place[p].capacity
      BY <2>1, <3>1 DEF SerialInv, Inv, BedsFit, History
    <3>2. ASSUME ~MayOverlap PROVE RoomsKept
      BY <2>1, <3>2 DEF SerialInv
    <3>3. QED BY <3>1, <3>2 DEF RoomsHold, RoomsKept
  <2>4. QED BY <2>1, <2>2, <2>3 DEF AllocationsSound, SerialInv, Inv
<1>2. QED BY <1>1, SerialInvariance, PTL

\* While requests take turns, a route is deleted only without stops and a vehicle
\* only when no route uses it.
THEOREM NothingIsTakenAlong == Spec => NothingTakenAlong
<1>1. ASSUME SerialInv, ~MayOverlap, [Next]_vars, NEW h \in Houses, Exists(house[h])
      PROVE  house'[h] = house[h] \/ (house'[h] = Deleted /\ PlacesOf(h) = {})
  <2>1. ASSUME NEW r \in Reqs, Does(r) PROVE house'[h] = house[h] \/ (house'[h] = Deleted /\ PlacesOf(h) = {})
    <3>1. ASSUME NEW k \in Houses, NEW row, HouseMove(r, k, row), house' = [house EXCEPT ![k] = row]
          PROVE  house'[h] = house[h] \/ (house'[h] = Deleted /\ PlacesOf(h) = {})
      BY <1>1, <3>1 DEF HouseMove, Exists, SerialInv, Inv, TypeOK
    <3>2. QED BY <2>1, <3>1 DEF Does
  <2>2. ASSUME NEW r \in Reqs, Begin(r) PROVE UNCHANGED house \/ Does(r)
    BY <1>1, <2>2, BeginCases, WritesDoes DEF SerialInv, Starts
  <2>3. ASSUME NEW r \in Reqs, Continue(r) PROVE Does(r)
    BY <1>1, <2>3, ContinueDoes
  <2>4. ASSUME NEW r \in Reqs, Die(r) PROVE UNCHANGED house
    BY <2>4 DEF Die
  <2>5. QED BY <1>1, <2>1, <2>2, <2>3, <2>4 DEF Next, vars
<1>2. SerialInv /\ [Next]_vars =>
        [~MayOverlap =>
           \A h \in Houses : Exists(house[h]) => \/ house'[h] = house[h]
                                                 \/ house'[h] = Deleted /\ PlacesOf(h) = {}]_vars
  BY <1>1
<1>3. QED BY <1>2, SerialInvariance, PTL DEF Spec, NothingTakenAlong


-----------------------------------------------------------------------------
(***************************************************************************)
(* The library, which hands out copies of a book as a hostel hands out     *)
(* beds.                                                                   *)
(***************************************************************************)

PairWork == {"issue", "return"}
BookWork == {"issue", "update", "delete"}

\* The rows a book or an issue can be.
LEMMA LibraryRows ==
  /\ NoRow # Deleted
  /\ \A x \in BookRow : x # NoRow /\ x # Deleted /\ x.available \in Int /\ x.total \in Totals
  /\ \A x \in IssueRow : x # NoRow /\ x.b \in Books
BY DEF NoRow, Deleted, BookRow, IssueRow

\* What a request holds at each pc.
LEMMA LibraryShape ==
  ASSUME NEW x \in LibraryRequest
  PROVE  /\ x.pc \in {"idle", "return"} \cup BookWork
         /\ x.pc \in BookWork => x.b \in Books
         /\ x.pc = "return" => x.i \in Issues /\ x.fine \in Fine
         /\ x.pc \in PairWork => x.todo \in SUBSET Pair
         /\ x.pc = "update" => x.total \in Totals /\ x.available \in Nat
BY DEF LibraryRequest, Idle, BookWork, PairWork

LEMMA LibraryIdle ==
  Idle \in LibraryRequest /\ Idle.pc = "idle" /\ Idle.pc \notin PairWork /\ Idle.pc \notin BookWork
BY DEF LibraryRequest, Idle, PairWork, BookWork

\* The larger of nothing and what is left.
LEMMA RemainingIs ==
  ASSUME NEW row \in BookRow, NEW total \in Totals
  PROVE  /\ Remaining(row, total) \in Nat
         /\ Remaining(row, total) =
              IF total - (row.total - row.available) >= 0
              THEN total - (row.total - row.available) ELSE 0
<1>1. PICK n : n = total - (row.total - row.available)
  OBVIOUS
<1>2. n \in Int
  BY <1>1, LibraryAssumption DEF BookRow
<1>3. \E x \in {0, n} : \A y \in {0, n} : x >= y
  BY <1>2
<1>4. PICK m : m = Max({0, n})
  OBVIOUS
<1>5. m \in {0, n} /\ \A y \in {0, n} : m >= y
  BY <1>3, <1>4 DEF Max
<1>6. Remaining(row, total) = m
  BY <1>1, <1>4 DEF Remaining, CopiesOut
<1>7. m = IF n >= 0 THEN n ELSE 0
  BY <1>2, <1>5
<1>8. QED BY <1>1, <1>2, <1>6, <1>7

\* One of the two queries of a request is answered.
LEMMA AnsweredStep ==
  ASSUME LibraryTypeOK, NEW r \in Reqs, NEW query \in Pair, req[r].pc \in PairWork,
         Pending(r, query), Answered(r, query)
  PROVE  \E x \in LibraryRequest :
           /\ Goto(r, x)
           /\ \/ req[r].todo = {query} /\ x = Idle
              \/ /\ req[r].todo = Pair /\ x.pc = req[r].pc /\ x.todo = Pair \ {query}
                 /\ x.pc = "issue" => x.b = req[r].b
                 /\ x.pc = "return" => x.i = req[r].i /\ x.fine = req[r].fine
<1>1. req[r] \in LibraryRequest
  BY DEF LibraryTypeOK
<1>2. req[r].todo \in SUBSET Pair /\ query \in req[r].todo
  BY <1>1, LibraryShape DEF Pending
<1>3. CASE req[r].todo = {query}
  BY <1>3, LibraryIdle DEF Answered, Done
<1>4. CASE req[r].todo # {query}
  <2>1. req[r].todo = Pair
    BY <1>2, <1>4 DEF Pair
  <2>2. Goto(r, [req[r] EXCEPT !.todo = @ \ {query}])
    BY <1>4 DEF Answered
  <2>3. PICK x : x = [req[r] EXCEPT !.todo = @ \ {query}]
    OBVIOUS
  <2>4. CASE req[r].pc = "issue"
    <3>1. req[r] \in [pc : {"issue"}, b : Books, todo : SUBSET Pair]
      BY <1>1, <2>4 DEF LibraryRequest, Idle
    <3>2. /\ x \in [pc : {"issue"}, b : Books, todo : SUBSET Pair]
          /\ x.pc = "issue" /\ x.b = req[r].b /\ x.todo = Pair \ {query}
      BY <2>1, <2>3, <3>1
    <3>3. x \in LibraryRequest
      BY <3>2 DEF LibraryRequest
    <3>4. QED BY <2>1, <2>2, <2>3, <2>4, <3>2, <3>3
  <2>5. CASE req[r].pc = "return"
    <3>1. req[r] \in [pc : {"return"}, i : Issues, fine : Fine, todo : SUBSET Pair]
      BY <1>1, <2>5 DEF LibraryRequest, Idle
    <3>2. /\ x \in [pc : {"return"}, i : Issues, fine : Fine, todo : SUBSET Pair]
          /\ x.pc = "return" /\ x.i = req[r].i /\ x.fine = req[r].fine /\ x.todo = Pair \ {query}
      BY <2>1, <2>3, <3>1
    <3>3. x \in LibraryRequest
      BY <3>2 DEF LibraryRequest
    <3>4. QED BY <2>1, <2>2, <2>3, <2>5, <3>2, <3>3
  <2>6. QED BY <2>4, <2>5 DEF PairWork
<1>5. QED BY <1>3, <1>4

\* Whoever returns an issue holds one that exists: issues are never deleted.
\* Finitely many exist at a time, so copies out can be counted.
ReturnsIssued == \A q \in Reqs : req[q].pc = "return" => Issued(req[q].i)
IssuedSoFar == {i \in Issues : Issued(i)}

LibraryInv ==
    /\ LibraryTypeOK
    /\ ReturnsIssued
    /\ HistoryKeepsBook
    /\ IsFiniteSet(IssuedSoFar)

\* A step on one book and its issues: the issues of the book stay its issues,
\* everything else stays as it is.
Stays(b) ==
    /\ \A c \in Books \ {b} : book'[c] = book[c]
    /\ \A i \in Issues : Issued(i) => Issued(i)' /\ issue'[i].b = issue[i].b
    /\ \A i \in Issues : Issued(i)' => issue'[i] = issue[i] \/ issue'[i].b = b

LEMMA LibraryStep ==
  ASSUME LibraryInv, NEW r \in Reqs, NEW x \in LibraryRequest, Goto(r, x),
         x.pc = "return" => Issued(x.i)',
         NEW b \in Books, Stays(b), cut' \subseteq Books,
         book'[b] \in BookRow \cup {NoRow, Deleted},
         book' \in [Books -> BookRow \cup {NoRow, Deleted}],
         issue' \in [Issues -> IssueRow \cup {NoRow}],
         IsFiniteSet(IssuedSoFar'),
         (\E i \in Issues : Issued(i)' /\ issue'[i].b = b) => Present(b)'
  PROVE  LibraryInv'
<1>1. /\ req' \in [Reqs -> LibraryRequest] /\ req'[r] = x
      /\ \A q \in Reqs \ {r} : req'[q] = req[q]
  BY DEF LibraryInv, LibraryTypeOK, Goto
<1>2. LibraryTypeOK'
  BY <1>1 DEF LibraryTypeOK
<1>3. ASSUME NEW q \in Reqs, req'[q].pc = "return" PROVE issue'[req'[q].i] # NoRow
  <2>1. CASE q = r
    BY <1>1, <1>3, <2>1 DEF Issued
  <2>2. CASE q # r
    <3>1. req'[q] = req[q] /\ req[q] \in LibraryRequest
      BY <1>1, <2>2 DEF LibraryInv, LibraryTypeOK
    <3>2. req[q].i \in Issues /\ Issued(req[q].i)
      BY <1>3, <3>1, LibraryShape DEF LibraryInv, ReturnsIssued
    <3>3. PICK i \in Issues : i = req[q].i
      BY <3>2
    <3>4. Issued(i)'
      BY <3>2, <3>3 DEF Stays
    <3>5. QED BY <3>1, <3>3, <3>4 DEF Issued
  <2>3. QED BY <2>1, <2>2
<1>4. ASSUME NEW i \in Issues, Issued(i)' PROVE book'[issue'[i].b] \notin {NoRow, Deleted}
  <2>1. CASE issue'[i].b = b
    BY <1>4, <2>1 DEF Present, Issued
  <2>2. CASE issue'[i].b # b
    <3>1. issue'[i] = issue[i] /\ Issued(i)
      BY <1>4, <2>2 DEF Stays, Issued
    <3>2. issue[i].b \in Books /\ Present(issue[i].b)
      BY <3>1, LibraryRows DEF LibraryInv, LibraryTypeOK, HistoryKeepsBook, Issued
    <3>3. book'[issue[i].b] = book[issue[i].b]
      BY <2>2, <3>1, <3>2 DEF Stays
    <3>4. QED BY <3>1, <3>2, <3>3 DEF Present
  <2>3. QED BY <2>1, <2>2
<1>5. ReturnsIssued'
  BY <1>3 DEF ReturnsIssued, Issued
<1>6. HistoryKeepsBook'
  BY <1>4 DEF HistoryKeepsBook, Issued, Present
<1>7. QED BY <1>2, <1>5, <1>6 DEF LibraryInv

\* A query that writes nothing.
LEMMA LibraryRead ==
  ASSUME LibraryInv, NEW r \in Reqs, NEW x \in LibraryRequest, Goto(r, x),
         x.pc = "return" => Issued(x.i), UNCHANGED <<book, issue, cut>>
  PROVE  LibraryInv'
<1>1. /\ req' \in [Reqs -> LibraryRequest] /\ req'[r] = x
      /\ \A q \in Reqs \ {r} : req'[q] = req[q]
  BY DEF LibraryInv, LibraryTypeOK, Goto
<1>2. LibraryTypeOK' /\ ReturnsIssued'
  BY <1>1 DEF LibraryInv, LibraryTypeOK, ReturnsIssued, Issued
<1>3. HistoryKeepsBook' /\ IssuedSoFar' = IssuedSoFar
  BY DEF LibraryInv, HistoryKeepsBook, IssuedSoFar, Issued, Present
<1>4. QED BY <1>2, <1>3 DEF LibraryInv

LEMMA LibraryBegins ==
  ASSUME LibraryInv, NEW r \in Reqs, LibraryBegin(r)
  PROVE  LibraryInv'
<1>0. LibraryTypeOK
  BY DEF LibraryInv
<1>1. ASSUME NEW b \in Books, DeleteBook(r, b) PROVE LibraryInv'
  <2> DEFINE x == [pc |-> "delete", b |-> b]
  <2>1. x \in LibraryRequest /\ x.pc # "return"
    BY DEF LibraryRequest
  <2>2. QED BY <1>1, <2>1, LibraryRead DEF DeleteBook
<1>2. ASSUME NEW b \in Books, IssueBook(r, b) PROVE LibraryInv'
  <2> DEFINE x == [pc |-> "issue", b |-> b, todo |-> Pair]
  <2>1. x \in LibraryRequest /\ x.pc # "return"
    BY DEF LibraryRequest
  <2>2. QED BY <1>2, <2>1, LibraryRead DEF IssueBook
<1>3. ASSUME NEW b \in Books, NEW total \in Totals, CreateBook(r, b, total) PROVE LibraryInv'
  <2> DEFINE row == [total |-> total, available |-> total]
  <2>1. row \in BookRow
    BY <1>0, LibraryAssumption DEF BookRow
  <2>2. /\ book'[b] = row /\ \A c \in Books \ {b} : book'[c] = book[c]
        /\ book' \in [Books -> BookRow \cup {NoRow, Deleted}]
        /\ UNCHANGED <<issue, req, cut>> /\ req[r] = Idle
    BY <1>0, <1>3, <2>1 DEF CreateBook, LibraryTypeOK, MayStartOn
  <2>3. Goto(r, Idle)
    BY <1>0, <2>2 DEF Goto, LibraryTypeOK
  <2>4. Stays(b) /\ IssuedSoFar' = IssuedSoFar
    BY <2>2 DEF Stays, Issued, IssuedSoFar
  <2>5. Present(b)'
    BY <2>1, <2>2, LibraryRows DEF Present
  <2>6. QED
    BY <1>0, <2>1, <2>2, <2>3, <2>4, <2>5, LibraryStep, LibraryIdle DEF LibraryInv, LibraryTypeOK
<1>4. ASSUME NEW b \in Books, NEW total \in Totals, UpdateBook(r, b, total) PROVE LibraryInv'
  <2> DEFINE x == [pc |-> "update", b |-> b, total |-> total,
                   available |-> Remaining(book[b], total)]
  <2>1. book[b] \in BookRow
    BY <1>0, <1>4 DEF UpdateBook, Present, LibraryTypeOK
  <2>2. x \in LibraryRequest /\ x.pc # "return"
    BY <1>0, <2>1, RemainingIs DEF LibraryRequest
  <2>3. QED BY <1>4, <2>2, LibraryRead DEF UpdateBook
<1>5. ASSUME NEW i \in Issues, ReturnBook(r, i) PROVE LibraryInv'
  <2> DEFINE x == [pc |-> "return", i |-> i, fine |-> FineFor(issue[i].late), todo |-> Pair]
  <2>1. issue[i] \in IssueRow
    BY <1>0, <1>5 DEF ReturnBook, Returnable, Issued, LibraryTypeOK
  <2>2. FineFor(issue[i].late) \in Fine
    <3>1. issue[i].late \in 0..MaxLate
      BY <2>1 DEF IssueRow
    <3>2. CASE issue[i].late > 0
      <4>1. issue[i].late \in 1..MaxLate
        BY <1>0, <3>1, <3>2, LibraryAssumption
      <4>2. QED BY <3>2, <4>1 DEF FineFor, Fine
    <3>3. CASE ~(issue[i].late > 0)
      BY <3>3 DEF FineFor, Fine
    <3>4. QED BY <3>2, <3>3
  <2>3. x \in LibraryRequest /\ x.i = i
    BY <2>2 DEF LibraryRequest
  <2>4. QED BY <1>5, <2>3, LibraryRead DEF ReturnBook, Returnable
<1>6. QED BY <1>1, <1>2, <1>3, <1>4, <1>5 DEF LibraryBegin

\* The effect of an increment or decrement.
LEMMA CountStep ==
  ASSUME LibraryTypeOK, NEW b \in Books, NEW n \in Int, Count(b, n)
  PROVE  /\ \A c \in Books \ {b} : book'[c] = book[c]
         /\ book' \in [Books -> BookRow \cup {NoRow, Deleted}]
         /\ Present(b) => /\ book'[b] \in BookRow /\ book'[b].total = book[b].total
                          /\ book'[b].available = book[b].available + n
         /\ ~Present(b) => book'[b] = book[b]
<1>1. CASE Present(b)
  <2>1. book[b] \in BookRow
    BY <1>1 DEF Present, LibraryTypeOK
  <2>2. PICK row : row = [book[b] EXCEPT !.available = @ + n]
    OBVIOUS
  <2>3. /\ row \in BookRow /\ row.total = book[b].total
        /\ row.available = book[b].available + n
    BY <2>1, <2>2 DEF BookRow
  <2>4. book' = [book EXCEPT ![b] = row]
    BY <1>1, <2>2 DEF Count
  <2>5. QED BY <1>1, <2>3, <2>4 DEF LibraryTypeOK
<1>2. CASE ~Present(b)
  BY <1>2 DEF Count, LibraryTypeOK
<1>3. QED BY <1>1, <1>2

LEMMA CountInv ==
  ASSUME LibraryInv, NEW r \in Reqs, NEW b \in Books, NEW n \in Int, Count(b, n),
         NEW x \in LibraryRequest, Goto(r, x), x.pc = "return" => Issued(x.i), UNCHANGED <<issue, cut>>
  PROVE  LibraryInv'
<1>0. LibraryTypeOK
  BY DEF LibraryInv
<1>1. Stays(b) /\ IssuedSoFar' = IssuedSoFar
  BY <1>0, CountStep DEF Stays, Issued, IssuedSoFar
<1>2. Present(b) => Present(b)'
  BY <1>0, CountStep, LibraryRows DEF Present
<1>3. (\E i \in Issues : Issued(i)' /\ issue'[i].b = b) => Present(b)'
  BY <1>2 DEF LibraryInv, HistoryKeepsBook, Issued
<1>4. /\ book' \in [Books -> BookRow \cup {NoRow, Deleted}]
      /\ book'[b] \in BookRow \cup {NoRow, Deleted}
  BY <1>0, CountStep
<1>5. (x.pc = "return" => Issued(x.i)') /\ cut' \subseteq Books
      /\ issue' \in [Issues -> IssueRow \cup {NoRow}] /\ IsFiniteSet(IssuedSoFar')
  BY <1>0, <1>1 DEF Issued, LibraryTypeOK, LibraryInv
<1>6. QED BY <1>1, <1>3, <1>4, <1>5, LibraryStep

\* What a return changes of its issue.
LEMMA ReturnStep ==
  ASSUME LibraryInv, NEW r \in Reqs, ReturnWrite(r)
  PROVE  \E i \in Issues :
           /\ i = req[r].i /\ Issued(i) /\ issue'[i] \in IssueRow
           /\ issue'[i].b = issue[i].b /\ issue'[i].returned /\ issue'[i].fine = req[r].fine
           /\ \A j \in Issues \ {i} : issue'[j] = issue[j]
           /\ issue' \in [Issues -> IssueRow \cup {NoRow}]
           /\ issue'[i].late = issue[i].late
<1>1. req[r] \in LibraryRequest /\ req[r].pc = "return" /\ LibraryTypeOK
  BY DEF LibraryInv, LibraryTypeOK, ReturnWrite, At
<1>2. PICK i \in Issues : i = req[r].i
  BY <1>1, LibraryShape
<1>3. Issued(i) /\ req[r].fine \in Fine
  BY <1>1, <1>2, LibraryShape DEF LibraryInv, ReturnsIssued
<1>4. issue[i] \in IssueRow
  BY <1>1, <1>3 DEF LibraryTypeOK, Issued
<1>5. PICK row : row = [issue[i] EXCEPT !.returned = TRUE, !.fine = req[r].fine]
  OBVIOUS
<1>6. /\ row \in IssueRow /\ row.b = issue[i].b /\ row.returned /\ row.fine = req[r].fine
      /\ row.late = issue[i].late
  BY <1>3, <1>4, <1>5 DEF IssueRow
<1>7. issue' = [issue EXCEPT ![i] = row]
  BY <1>1, <1>2, <1>4, <1>5 DEF ReturnWrite, LibraryTypeOK
<1>8. QED BY <1>1, <1>2, <1>3, <1>6, <1>7 DEF LibraryTypeOK

\* What the insert of an issue adds.
LEMMA InsertStep ==
  ASSUME LibraryInv, NEW r \in Reqs, NEW i \in Issues, NEW late \in 0..MaxLate,
         IssueInsert(r, i, late), Present(req[r].b)
  PROVE  /\ ~Issued(i) /\ issue'[i] \in IssueRow /\ issue'[i].b = req[r].b
         /\ issue'[i].returned = FALSE
         /\ \A j \in Issues \ {i} : issue'[j] = issue[j]
         /\ issue' \in [Issues -> IssueRow \cup {NoRow}]
<1>1. req[r] \in LibraryRequest /\ req[r].pc = "issue" /\ LibraryTypeOK
  BY DEF LibraryInv, LibraryTypeOK, IssueInsert, At
<1>2. req[r].b \in Books
  BY <1>1, LibraryShape DEF BookWork
<1>3. PICK row : row = [b |-> req[r].b, returned |-> FALSE, fine |-> <<>>, late |-> late]
  OBVIOUS
<1>4. row \in IssueRow /\ row.b = req[r].b /\ row.returned = FALSE
  BY <1>2, <1>3 DEF IssueRow, Fine
<1>5. issue' = [issue EXCEPT ![i] = row] /\ ~Issued(i)
  BY <1>3 DEF IssueInsert
<1>6. QED BY <1>1, <1>4, <1>5 DEF LibraryTypeOK

LEMMA LibraryContinues ==
  ASSUME LibraryInv, NEW r \in Reqs, LibraryContinue(r) \/ LibraryDie(r)
  PROVE  LibraryInv'
<1>0. LibraryTypeOK /\ req[r] \in LibraryRequest /\ "row" \in Pair /\ "count" \in Pair
  BY DEF LibraryInv, LibraryTypeOK, Pair
<1>1. CASE BookUpdate(r)
  <2>1. req[r].pc = "update" /\ Goto(r, Idle) /\ UNCHANGED issue
    BY <1>1 DEF BookUpdate, At, Done
  <2>2. PICK b \in Books : b = req[r].b
    BY <1>0, <2>1, LibraryShape DEF BookWork
  <2>3. CASE Present(b)
    <3>1. PICK row : row = [total |-> req[r].total, available |-> req[r].available]
      OBVIOUS
    <3>2. row \in BookRow
      BY <1>0, <2>1, <3>1, LibraryShape DEF BookRow
    <3>3. book' = [book EXCEPT ![b] = row] /\ cut' \in {cut, cut \cup {b}}
      BY <1>1, <2>2, <2>3, <3>1 DEF BookUpdate
    <3>4. /\ book'[b] = row /\ \A c \in Books \ {b} : book'[c] = book[c]
          /\ book' \in [Books -> BookRow \cup {NoRow, Deleted}] /\ cut' \subseteq Books
      BY <1>0, <3>2, <3>3 DEF LibraryTypeOK
    <3>5. Stays(b) /\ IssuedSoFar' = IssuedSoFar /\ Present(b)'
      BY <2>1, <3>2, <3>4, LibraryRows DEF Stays, Issued, IssuedSoFar, Present
    <3>6. QED
      BY <1>0, <2>1, <3>2, <3>4, <3>5, LibraryStep, LibraryIdle DEF LibraryInv, LibraryTypeOK
  <2>4. CASE ~Present(b)
    BY <1>1, <2>1, <2>2, <2>4, LibraryRead, LibraryIdle DEF BookUpdate
  <2>5. QED BY <2>3, <2>4
<1>2. CASE BookDelete(r)
  <2>1. req[r].pc = "delete" /\ Goto(r, Idle) /\ UNCHANGED <<issue, cut>>
    BY <1>2 DEF BookDelete, At, Done
  <2>2. PICK b \in Books : b = req[r].b
    BY <1>0, <2>1, LibraryShape DEF BookWork
  <2>3. CASE Present(b) /\ ~Referenced(b)
    <3>1. book' = [book EXCEPT ![b] = Deleted]
      BY <1>2, <2>2, <2>3 DEF BookDelete
    <3>2. /\ book'[b] = Deleted /\ \A c \in Books \ {b} : book'[c] = book[c]
          /\ book' \in [Books -> BookRow \cup {NoRow, Deleted}]
      BY <1>0, <3>1 DEF LibraryTypeOK
    <3>3. Stays(b) /\ IssuedSoFar' = IssuedSoFar
      BY <2>1, <3>2 DEF Stays, Issued, IssuedSoFar
    <3>4. ~\E i \in Issues : Issued(i)' /\ issue'[i].b = b
      BY <2>1, <2>3 DEF Referenced, IssuesOf, Issued
    <3>5. QED
      BY <1>0, <2>1, <3>2, <3>3, <3>4, LibraryStep, LibraryIdle DEF LibraryInv, LibraryTypeOK
  <2>4. CASE ~(Present(b) /\ ~Referenced(b))
    BY <1>2, <2>1, <2>2, <2>4, LibraryRead, LibraryIdle DEF BookDelete
  <2>5. QED BY <2>3, <2>4
<1>3. ASSUME NEW i \in Issues, NEW late \in 0..MaxLate, IssueInsert(r, i, late) PROVE LibraryInv'
  <2>1. req[r].pc = "issue" /\ UNCHANGED <<book, cut>> /\ Pending(r, "row") /\ Answered(r, "row")
    BY <1>3 DEF IssueInsert, At
  <2>2. PICK x \in LibraryRequest : Goto(r, x) /\ x.pc # "return"
    BY <1>0, <2>1, AnsweredStep, LibraryIdle DEF PairWork
  <2>3. PICK b \in Books : b = req[r].b
    BY <1>0, <2>1, LibraryShape DEF BookWork
  <2>4. CASE Present(b)
    <3>1. /\ issue'[i] \in IssueRow /\ issue'[i].b = b /\ ~Issued(i)
          /\ \A j \in Issues \ {i} : issue'[j] = issue[j]
          /\ issue' \in [Issues -> IssueRow \cup {NoRow}]
      BY <1>3, <2>3, <2>4, InsertStep
    <3>2. IssuedSoFar' = IssuedSoFar \cup {i}
      BY <3>1, LibraryRows DEF IssuedSoFar, Issued
    <3>3. IsFiniteSet(IssuedSoFar')
      BY <3>2, FS_AddElement DEF LibraryInv
    <3>4. Stays(b)
      BY <2>1, <3>1, LibraryRows DEF Stays, Issued
    <3>5. Present(b)'
      BY <2>1, <2>4 DEF Present
    <3>6. QED BY <1>0, <2>1, <2>2, <3>1, <3>3, <3>4, <3>5, LibraryStep DEF LibraryTypeOK
  <2>5. CASE ~Present(b)
    BY <1>3, <2>1, <2>2, <2>3, <2>5, LibraryRead DEF IssueInsert
  <2>6. QED BY <2>4, <2>5
<1>4. CASE IssueCount(r)
  <2>1. /\ req[r].pc = "issue" /\ UNCHANGED <<issue, cut>> /\ Count(req[r].b, -1)
        /\ Pending(r, "count") /\ Answered(r, "count")
    BY <1>4 DEF IssueCount, At
  <2>2. PICK x \in LibraryRequest : Goto(r, x) /\ x.pc # "return"
    BY <1>0, <2>1, AnsweredStep, LibraryIdle DEF PairWork
  <2>3. req[r].b \in Books
    BY <1>0, <2>1, LibraryShape DEF BookWork
  <2>4. QED BY <2>1, <2>2, <2>3, CountInv
<1>5. CASE ReturnWrite(r)
  <2>1. /\ req[r].pc = "return" /\ UNCHANGED <<book, cut>>
        /\ Pending(r, "row") /\ Answered(r, "row")
    BY <1>5 DEF ReturnWrite, At
  <2>2. PICK x \in LibraryRequest : Goto(r, x) /\ (x.pc = "return" => x.i = req[r].i)
    BY <1>0, <2>1, AnsweredStep, LibraryIdle DEF PairWork
  <2>3. PICK i \in Issues :
          /\ i = req[r].i /\ Issued(i) /\ issue'[i] \in IssueRow /\ issue'[i].b = issue[i].b
          /\ \A j \in Issues \ {i} : issue'[j] = issue[j]
          /\ issue' \in [Issues -> IssueRow \cup {NoRow}]
    BY <1>5, ReturnStep
  <2>4. PICK b \in Books : b = issue[i].b
    BY <1>0, <2>3, LibraryRows DEF LibraryTypeOK, Issued
  <2>5. IssuedSoFar' = IssuedSoFar /\ Stays(b)
    BY <2>1, <2>3, <2>4, LibraryRows DEF IssuedSoFar, Issued, Stays
  <2>6. Present(b)' /\ Issued(i)'
    BY <2>1, <2>3, <2>4, LibraryRows DEF LibraryInv, HistoryKeepsBook, Present, Issued
  <2>7. x.pc = "return" => Issued(x.i)'
    BY <2>2, <2>3, <2>6 DEF Issued
  <2>8. QED
    BY <1>0, <2>1, <2>2, <2>3, <2>5, <2>6, <2>7, LibraryStep DEF LibraryInv, LibraryTypeOK
<1>6. CASE ReturnCount(r)
  <2>1. /\ req[r].pc = "return" /\ UNCHANGED <<issue, cut>> /\ Count(issue[req[r].i].b, 1)
        /\ Pending(r, "count") /\ Answered(r, "count")
    BY <1>6 DEF ReturnCount, At
  <2>2. PICK x \in LibraryRequest : Goto(r, x) /\ (x.pc = "return" => x.i = req[r].i)
    BY <1>0, <2>1, AnsweredStep, LibraryIdle DEF PairWork
  <2>3. req[r].i \in Issues /\ Issued(req[r].i)
    BY <1>0, <2>1, LibraryShape DEF LibraryInv, ReturnsIssued
  <2>4. issue[req[r].i].b \in Books
    BY <1>0, <2>3, LibraryRows DEF LibraryTypeOK, Issued
  <2>5. QED BY <2>1, <2>2, <2>3, <2>4, CountInv
<1>7. CASE LibraryDie(r)
  BY <1>7, LibraryRead, LibraryIdle DEF LibraryDie, Done
<1>8. QED BY <1>1, <1>2, <1>3, <1>4, <1>5, <1>6, <1>7 DEF LibraryContinue

\* A day that passes changes the lateness of an issue and nothing else.
LEMMA DayStep ==
  ASSUME LibraryInv, NEW i \in Issues, DayPasses(i)
  PROVE  /\ UNCHANGED <<book, req, cut>>
         /\ issue' \in [Issues -> IssueRow \cup {NoRow}]
         /\ \A j \in Issues : /\ Issued(j)' <=> Issued(j)
                              /\ issue'[j].b = issue[j].b
                              /\ issue'[j].returned = issue[j].returned
                              /\ issue'[j].fine = issue[j].fine
<1>1. issue[i] \in IssueRow /\ LibraryTypeOK /\ issue[i].late < MaxLate
  BY DEF LibraryInv, LibraryTypeOK, DayPasses, Issued
<1>2. PICK row : row = [issue[i] EXCEPT !.late = @ + 1]
  OBVIOUS
<1>3. issue[i].late + 1 \in 0..MaxLate
  BY <1>1, LibraryAssumption DEF IssueRow
<1>4. /\ row \in IssueRow /\ row.b = issue[i].b /\ row.returned = issue[i].returned
      /\ row.fine = issue[i].fine
  BY <1>1, <1>2, <1>3 DEF IssueRow
<1>5. issue' = [issue EXCEPT ![i] = row] /\ UNCHANGED <<book, req, cut>>
  BY <1>2 DEF DayPasses
<1>6. QED BY <1>1, <1>4, <1>5, LibraryRows DEF LibraryTypeOK, Issued, DayPasses

LEMMA LibraryGoesOn == LibraryInv /\ [LibraryNext]_libraryVars => LibraryInv'
<1> SUFFICES ASSUME LibraryInv, [LibraryNext]_libraryVars PROVE LibraryInv'
  OBVIOUS
<1>1. ASSUME NEW r \in Reqs, LibraryBegin(r) \/ LibraryContinue(r) \/ LibraryDie(r) PROVE LibraryInv'
  BY <1>1, LibraryBegins, LibraryContinues
<1>2. ASSUME NEW i \in Issues, DayPasses(i) PROVE LibraryInv'
  <2>1. LibraryTypeOK'
    BY <1>2, DayStep DEF LibraryInv, LibraryTypeOK
  <2>2. ReturnsIssued'
    <3>1. \A q \in Reqs : req[q].pc = "return" => req[q].i \in Issues
      BY LibraryShape DEF LibraryInv, LibraryTypeOK
    <3>2. QED BY <1>2, <3>1, DayStep DEF LibraryInv, ReturnsIssued, Issued
  <2>3. HistoryKeepsBook' /\ IssuedSoFar' = IssuedSoFar
    BY <1>2, DayStep DEF LibraryInv, HistoryKeepsBook, IssuedSoFar, Present
  <2>4. QED BY <2>1, <2>2, <2>3 DEF LibraryInv
<1>3. CASE UNCHANGED libraryVars
  BY <1>3
  DEF libraryVars, LibraryInv, LibraryTypeOK, ReturnsIssued, HistoryKeepsBook, IssuedSoFar, Issued, Present
<1>4. QED BY <1>1, <1>2, <1>3 DEF LibraryNext

LEMMA LibraryStarts == LibraryInit => LibraryInv
<1> SUFFICES ASSUME LibraryInit PROVE LibraryInv
  OBVIOUS
<1>1. LibraryTypeOK /\ ReturnsIssued /\ HistoryKeepsBook
  BY LibraryIdle DEF LibraryInit, LibraryTypeOK, ReturnsIssued, HistoryKeepsBook, Issued
<1>2. IssuedSoFar = {}
  BY DEF LibraryInit, IssuedSoFar, Issued
<1>3. QED BY <1>1, <1>2, FS_EmptySet DEF LibraryInv

LEMMA LibraryInvariance == LibrarySpec => []LibraryInv
BY LibraryStarts, LibraryGoesOn, PTL DEF LibrarySpec

-----------------------------------------------------------------------------
\* Requests about one book take turns, so what they found is still there.
LibraryTurns == \A p, q \in Reqs : p # q => AtWorkOn(p) \cap AtWorkOn(q) = {}

LibraryHeld(x) ==
    /\ x.pc = "issue" => Present(x.b)
    /\ x.pc = "issue" /\ "count" \in x.todo => book[x.b].available > 0
    /\ x.pc = "return" /\ "row" \in x.todo => ~issue[x.i].returned
    /\ x.pc = "update" => Present(x.b) /\ x.available = Remaining(book[x.b], x.total)

\* The row says how many copies are out, and the issues say it; what one is ahead
\* of the other is what the request at work on the book still owes.
Excess(b) == book[b].available + Cardinality(Out(b)) - book[b].total

Owed(x) ==
    CASE x.pc = "issue"  /\ x.todo = {"count"} -> 1
      [] x.pc = "issue"  /\ x.todo = {"row"}   -> -1
      [] x.pc = "return" /\ x.todo = {"row"}   -> 1
      [] x.pc = "return" /\ x.todo = {"count"} -> -1
      [] OTHER -> 0

Stock(b) ==
    Present(b) /\ b \notin cut =>
      /\ (\A q \in Reqs : b \notin AtWorkOn(q)) => Excess(b) = 0
      /\ \A q \in Reqs : b \in AtWorkOn(q) => Excess(b) = Owed(req[q])

NoDebts == \A b \in Books : Present(b) => book[b].available >= 0

LibrarySerial ==
    /\ LibraryInv
    /\ LibraryTurns
    /\ \A q \in Reqs : LibraryHeld(req[q])
    /\ NoDebts
    /\ ~Faults => \A b \in Books : Stock(b)

\* A request at work is at work on one book.
LEMMA OwnBook ==
  ASSUME LibraryInv, NEW r \in Reqs
  PROVE  /\ req[r].pc = "idle" => AtWorkOn(r) = {} /\ req[r] = Idle
         /\ req[r].pc \in BookWork => req[r].b \in Books /\ AtWorkOn(r) = {req[r].b}
         /\ req[r].pc = "return" => /\ req[r].i \in Issues /\ Issued(req[r].i)
                                    /\ issue[req[r].i].b \in Books
                                    /\ AtWorkOn(r) = {issue[req[r].i].b}
         /\ req[r].pc \in {"idle", "return"} \cup BookWork
<1>1. req[r] \in LibraryRequest /\ LibraryTypeOK
  BY DEF LibraryInv, LibraryTypeOK
<1>2. req[r].pc = "idle" => req[r] = Idle
  BY <1>1 DEF LibraryRequest
<1>3. CASE req[r].pc = "return"
  <2>1. req[r].i \in Issues /\ Issued(req[r].i)
    BY <1>1, <1>3, LibraryShape DEF LibraryInv, ReturnsIssued
  <2>2. issue[req[r].i].b \in Books
    BY <1>1, <2>1, LibraryRows DEF LibraryTypeOK, Issued
  <2>3. QED BY <1>3, <2>1, <2>2 DEF AtWorkOn, BookWork
<1>4. CASE req[r].pc # "return"
  BY <1>1, <1>2, <1>4, LibraryShape DEF AtWorkOn, BookWork
<1>5. QED BY <1>3, <1>4

LEMMA OutFinite ==
  ASSUME LibraryInv, NEW b
  PROVE  IsFiniteSet(Out(b)) /\ Cardinality(Out(b)) \in Nat
<1>1. Out(b) \subseteq IssuedSoFar
  BY DEF Out, IssuesOf, IssuedSoFar
<1>2. IsFiniteSet(Out(b))
  BY <1>1, FS_Subset DEF LibraryInv
<1>3. QED BY <1>2, FS_CardinalityType

\* What another request found survives a step on the book of r.
LEMMA LibraryOthers ==
  ASSUME LibrarySerial, NEW r \in Reqs, NEW x \in LibraryRequest, Goto(r, x), NEW b \in Books, Stays(b),
         NEW q \in Reqs \ {r}, b \notin AtWorkOn(q)
  PROVE  AtWorkOn(q)' = AtWorkOn(q) /\ req'[q] = req[q] /\ LibraryHeld(req[q])'
<1>1. req'[q] = req[q] /\ req[q] \in LibraryRequest /\ LibraryInv /\ LibraryTypeOK /\ LibraryHeld(req[q])
  BY DEF LibrarySerial, LibraryInv, LibraryTypeOK, Goto
<1>2. PICK y : y = req[q]
  OBVIOUS
<1>3. CASE y.pc \in BookWork
  <2>1. y.b \in Books /\ y.b # b
    BY <1>1, <1>2, <1>3, OwnBook
  <2>2. book'[y.b] = book[y.b]
    BY <2>1 DEF Stays
  <2>3. AtWorkOn(q)' = AtWorkOn(q)
    BY <1>1, <1>2, <1>3 DEF AtWorkOn, BookWork
  <2>4. LibraryHeld(y)'
    BY <1>1, <1>2, <1>3, <2>2 DEF LibraryHeld, BookWork, Present
  <2>5. QED BY <1>1, <1>2, <2>3, <2>4
<1>4. CASE y.pc = "return"
  <2>1. y.i \in Issues /\ Issued(y.i) /\ issue[y.i].b # b /\ AtWorkOn(q) = {issue[y.i].b}
    BY <1>1, <1>2, <1>4, OwnBook
  <2>2. issue'[y.i].b = issue[y.i].b /\ Issued(y.i)'
    BY <2>1 DEF Stays
  <2>3. issue'[y.i] = issue[y.i]
    BY <2>1, <2>2 DEF Stays
  <2>4. AtWorkOn(q)' = AtWorkOn(q)
    BY <1>1, <1>2, <1>4, <2>1, <2>2 DEF AtWorkOn
  <2>5. LibraryHeld(y)'
    BY <1>1, <1>2, <1>4, <2>3 DEF LibraryHeld
  <2>6. QED BY <1>1, <1>2, <2>4, <2>5
<1>5. CASE y.pc = "idle"
  <2>1. AtWorkOn(q)' = AtWorkOn(q)
    BY <1>1, <1>2, <1>5 DEF AtWorkOn
  <2>2. LibraryHeld(y)'
    BY <1>5 DEF LibraryHeld
  <2>3. QED BY <1>1, <1>2, <2>1, <2>2
<1>6. QED BY <1>1, <1>2, <1>3, <1>4, <1>5, LibraryShape

\* The turn of r: it is alone on its book and leaves the rest alone.
LEMMA LibraryTurn ==
  ASSUME LibrarySerial, LibraryInv', UNCHANGED Faults,
         NEW r \in Reqs, NEW x \in LibraryRequest, Goto(r, x), NEW b \in Books, Stays(b),
         \A c \in Books \ {b} : c \in cut' <=> c \in cut,
         \A q \in Reqs \ {r} : b \notin AtWorkOn(q),
         AtWorkOn(r) \subseteq {b}, AtWorkOn(r)' = {b} \/ (x = Idle /\ AtWorkOn(r)' = {}),
         LibraryHeld(x)', Present(b)' => book'[b].available >= 0,
         ~Faults /\ Present(b)' /\ b \notin cut' => Excess(b)' = Owed(x)
  PROVE  LibrarySerial'
<1>0. req'[r] = x /\ LibraryTypeOK
  BY DEF LibrarySerial, LibraryInv, LibraryTypeOK, Goto
<1>1. \A q \in Reqs \ {r} : AtWorkOn(q)' = AtWorkOn(q) /\ req'[q] = req[q] /\ LibraryHeld(req[q])'
  BY LibraryOthers
<1>2. LibraryTurns'
  <2>1. \A q \in Reqs \ {r} : b \notin AtWorkOn(q)'
    BY <1>1
  <2>2. ASSUME NEW p \in Reqs, NEW q \in Reqs, p # q
        PROVE  AtWorkOn(p)' \cap AtWorkOn(q)' = {}
    <3>1. CASE p # r /\ q # r
      BY <1>1, <2>2, <3>1 DEF LibrarySerial, LibraryTurns
    <3>2. CASE p = r
      BY <2>1, <2>2, <3>2
    <3>3. CASE q = r
      BY <2>1, <2>2, <3>3
    <3>4. QED BY <3>1, <3>2, <3>3
  <2>3. QED BY <2>2 DEF LibraryTurns
<1>3. ASSUME NEW q \in Reqs PROVE LibraryHeld(req[q])'
  <2>1. CASE q = r
    BY <1>0, <2>1 DEF LibraryHeld
  <2>2. CASE q # r
    BY <1>1, <2>2
  <2>3. QED BY <2>1, <2>2
<1>4. NoDebts'
  BY DEF LibrarySerial, NoDebts, Stays, Present
<1>5. ASSUME ~Faults PROVE Stock(b)'
  <2>1. SUFFICES ASSUME Present(b)', b \notin cut'
                 PROVE  /\ (\A q \in Reqs : b \notin AtWorkOn(q)') => Excess(b)' = 0
                        /\ \A q \in Reqs : b \in AtWorkOn(q)' => Excess(b)' = Owed(req'[q])
    BY DEF Stock, Owed
  <2>2. Excess(b)' = Owed(x)
    BY <1>5, <2>1
  <2>3. ASSUME NEW q \in Reqs, b \in AtWorkOn(q)' PROVE q = r
    BY <1>1, <2>3
  <2>4. Owed(Idle) = 0
    BY DEF Owed, Idle
  <2>5. QED BY <1>0, <2>2, <2>3, <2>4
<1>6. ASSUME ~Faults, NEW c \in Books \ {b} PROVE Stock(c)'
  <2>1. book'[c] = book[c] /\ (c \in cut' <=> c \in cut)
    BY DEF Stays
  <2>2. Out(c)' = Out(c)
    <3>1. ASSUME NEW i \in Issues PROVE i \in Out(c)' <=> i \in Out(c)
      <4>1. CASE Issued(i)
        <5>1. Issued(i)' /\ issue'[i].b = issue[i].b
          BY <4>1 DEF Stays
        <5>2. issue'[i] = issue[i] \/ issue'[i].b = b
          BY <5>1 DEF Stays
        <5>3. QED BY <4>1, <5>1, <5>2 DEF Out, IssuesOf
      <4>2. CASE ~Issued(i)
        <5>1. Issued(i)' => issue'[i].b = b
          BY <4>2 DEF Stays, Issued
        <5>2. QED BY <4>2, <5>1 DEF Out, IssuesOf
      <4>3. QED BY <4>1, <4>2
    <3>2. Out(c) \subseteq Issues /\ Out(c)' \subseteq Issues
      BY DEF Out, IssuesOf
    <3>3. QED BY <3>1, <3>2
  <2>3. \A q \in Reqs : c \in AtWorkOn(q)' <=> c \in AtWorkOn(q)
    BY <1>1
  <2>4. Excess(c)' = Excess(c) /\ (Present(c)' <=> Present(c))
    BY <2>1, <2>2 DEF Excess, Present
  <2>5. \A q \in Reqs : c \in AtWorkOn(q) => Owed(req'[q]) = Owed(req[q])
    BY <1>1
  <2>6. SUFFICES ASSUME Present(c), c \notin cut
                 PROVE  /\ (\A q \in Reqs : c \notin AtWorkOn(q)') => Excess(c)' = 0
                        /\ \A q \in Reqs : c \in AtWorkOn(q)' => Excess(c)' = Owed(req'[q])
    BY <2>1, <2>4 DEF Stock, Owed
  <2>7. QED BY <1>6, <2>3, <2>4, <2>5, <2>6 DEF LibrarySerial, Stock
<1>7. QED BY <1>2, <1>3, <1>4, <1>5, <1>6 DEF LibrarySerial

\* A request that starts on a book nobody works on.
LEMMA LibraryStart ==
  ASSUME LibrarySerial, LibraryInv', UNCHANGED <<Faults, book, issue, cut>>, ~MayOverlap,
         NEW r \in Reqs, NEW b \in Books, MayStartOn(r, b), NEW x \in LibraryRequest, Goto(r, x),
         AtWorkOn(r)' = {b}, LibraryHeld(x), Owed(x) = 0
  PROVE  LibrarySerial'
<1>1. \A q \in Reqs : b \notin AtWorkOn(q)
  BY DEF MayStartOn
<1>2. req[r] = Idle /\ AtWorkOn(r) = {}
  BY LibraryIdle, OwnBook DEF MayStartOn, LibrarySerial
<1>3. Stays(b)
  BY DEF Stays, Issued
<1>4. LibraryHeld(x)'
  BY DEF LibraryHeld, Present, Remaining
<1>5. Present(b)' => book'[b].available >= 0
  BY DEF LibrarySerial, NoDebts, Present
<1>6. ~Faults /\ Present(b)' /\ b \notin cut' => Excess(b)' = Owed(x)
  BY <1>1 DEF LibrarySerial, Stock, Excess, Present, Out, IssuesOf, Issued
<1>7. QED BY <1>1, <1>2, <1>3, <1>4, <1>5, <1>6, LibraryTurn

LEMMA SerialBegin ==
  ASSUME LibrarySerial, LibraryInv', UNCHANGED Faults, ~MayOverlap, NEW r \in Reqs, LibraryBegin(r)
  PROVE  LibrarySerial'
<1>0. LibraryTypeOK /\ LibraryInv
  BY DEF LibrarySerial, LibraryInv
<1>1. ASSUME NEW b \in Books, DeleteBook(r, b) PROVE LibrarySerial'
  <2> DEFINE x == [pc |-> "delete", b |-> b]
  <2>1. x \in LibraryRequest /\ req'[r] = x
    BY <1>0, <1>1 DEF DeleteBook, Goto, LibraryTypeOK, LibraryRequest
  <2>2. AtWorkOn(r)' = {b} /\ LibraryHeld(x) /\ Owed(x) = 0
    BY <2>1 DEF AtWorkOn, LibraryHeld, Owed
  <2>3. QED BY <1>1, <2>1, <2>2, LibraryStart DEF DeleteBook
<1>2. ASSUME NEW b \in Books, IssueBook(r, b) PROVE LibrarySerial'
  <2> DEFINE x == [pc |-> "issue", b |-> b, todo |-> Pair]
  <2>1. x \in LibraryRequest /\ req'[r] = x
    BY <1>0, <1>2 DEF IssueBook, Goto, LibraryTypeOK, LibraryRequest
  <2>2. AtWorkOn(r)' = {b} /\ Owed(x) = 0
    BY <2>1 DEF AtWorkOn, Owed, Pair
  <2>3. LibraryHeld(x)
    BY <1>2 DEF LibraryHeld, IssueBook, Available
  <2>4. QED BY <1>2, <2>1, <2>2, <2>3, LibraryStart DEF IssueBook
<1>3. ASSUME NEW b \in Books, NEW total \in Totals, CreateBook(r, b, total) PROVE LibrarySerial'
  <2>1. /\ book'[b] = [total |-> total, available |-> total]
        /\ \A c \in Books \ {b} : book'[c] = book[c]
        /\ UNCHANGED <<issue, req, cut>> /\ req[r] = Idle /\ ~Present(b)
    BY <1>0, <1>3 DEF CreateBook, LibraryTypeOK, MayStartOn, Present
  <2>2. Goto(r, Idle) /\ Idle \in LibraryRequest
    BY <1>0, <2>1, LibraryIdle DEF Goto, LibraryTypeOK
  <2>3. Stays(b)
    BY <2>1 DEF Stays, Issued
  <2>4. \A q \in Reqs : b \notin AtWorkOn(q)
    BY <1>3 DEF CreateBook, MayStartOn
  <2>5. AtWorkOn(r) = {} /\ AtWorkOn(r)' = {}
    BY <1>0, <2>1, OwnBook, LibraryIdle DEF AtWorkOn
  <2>6. LibraryHeld(Idle)' /\ Owed(Idle) = 0
    BY DEF LibraryHeld, Idle, Owed
  <2>7. total \in Nat
    BY <1>0, LibraryAssumption DEF LibraryInv
  <2>8. Out(b)' = {}
    BY <1>0, <2>1 DEF Out, IssuesOf, LibraryInv, HistoryKeepsBook, Issued
  <2>9. Cardinality(Out(b)') = 0
    BY <2>8, FS_EmptySet
  <2>10. Excess(b)' = 0
    BY <2>1, <2>7, <2>9 DEF Excess
  <2>11. book'[b].available >= 0
    BY <2>1, <2>7
  <2>12. QED BY <2>1, <2>2, <2>3, <2>4, <2>5, <2>6, <2>10, <2>11, LibraryTurn
<1>4. ASSUME NEW b \in Books, NEW total \in Totals, UpdateBook(r, b, total) PROVE LibrarySerial'
  <2> DEFINE x == [pc |-> "update", b |-> b, total |-> total,
                   available |-> Remaining(book[b], total)]
  <2>1. book[b] \in BookRow
    BY <1>0, <1>4 DEF UpdateBook, Present, LibraryTypeOK
  <2>2. x \in LibraryRequest /\ req'[r] = x
    BY <1>0, <1>4, <2>1, RemainingIs DEF UpdateBook, Goto, LibraryTypeOK, LibraryRequest, LibraryInv
  <2>3. AtWorkOn(r)' = {b} /\ LibraryHeld(x) /\ Owed(x) = 0
    BY <1>4, <2>2 DEF AtWorkOn, LibraryHeld, Owed, UpdateBook
  <2>4. QED BY <1>4, <2>2, <2>3, LibraryStart DEF UpdateBook
<1>5. ASSUME NEW i \in Issues, ReturnBook(r, i) PROVE LibrarySerial'
  <2> DEFINE x == [pc |-> "return", i |-> i, fine |-> FineFor(issue[i].late), todo |-> Pair]
  <2>1. req'[r] = x /\ UNCHANGED <<book, issue, cut>>
    BY <1>0, <1>5 DEF ReturnBook, Goto, LibraryTypeOK
  <2>2. x \in LibraryRequest
    BY <2>1 DEF LibraryInv, LibraryTypeOK
  <2>3. PICK b \in Books : b = issue[i].b
    BY <1>0, <1>5, LibraryRows DEF ReturnBook, Returnable, Issued, LibraryTypeOK
  <2>4. AtWorkOn(r)' = {b} /\ Owed(x) = 0
    BY <2>1, <2>3 DEF AtWorkOn, Owed, Pair
  <2>5. LibraryHeld(x)
    BY <1>5 DEF LibraryHeld, ReturnBook, Returnable
  <2>6. QED BY <1>5, <2>1, <2>2, <2>3, <2>4, <2>5, LibraryStart DEF ReturnBook
<1>6. QED BY <1>1, <1>2, <1>3, <1>4, <1>5 DEF LibraryBegin

\* What is owed after one of the two queries.
LEMMA OwedAfter ==
  ASSUME NEW x, NEW y, NEW query \in Pair, x.pc \in PairWork,
         \/ x.todo = {query} /\ y = Idle
         \/ x.todo = Pair /\ y.pc = x.pc /\ y.todo = Pair \ {query}
  PROVE  /\ Owed(x) \in Int /\ Owed(y) \in Int
         /\ x.pc = "issue"  /\ query = "row"   => Owed(y) = Owed(x) + 1
         /\ x.pc = "issue"  /\ query = "count" => Owed(y) = Owed(x) - 1
         /\ x.pc = "return" /\ query = "row"   => Owed(y) = Owed(x) - 1
         /\ x.pc = "return" /\ query = "count" => Owed(y) = Owed(x) + 1
<1>1. Owed(Idle) = 0
  BY DEF Owed, Idle
<1>2. query = "row" \/ query = "count"
  BY DEF Pair
<1>3. /\ Pair # {"row"} /\ Pair # {"count"} /\ {"row"} # {"count"}
      /\ Pair \ {"row"} = {"count"} /\ Pair \ {"count"} = {"row"}
  BY DEF Pair
<1>4. CASE query = "row"
  BY <1>1, <1>3, <1>4 DEF Owed, PairWork
<1>5. CASE query = "count"
  BY <1>1, <1>3, <1>5 DEF Owed, PairWork
<1>6. QED BY <1>2, <1>4, <1>5

\* An answer to one of the two queries, on the book of r.
LEMMA PairTurn ==
  ASSUME LibrarySerial, LibraryInv', UNCHANGED <<Faults, cut>>, NEW r \in Reqs,
         req[r].pc \in PairWork, NEW query \in Pair, Pending(r, query), Answered(r, query),
         NEW b \in Books, AtWorkOn(r) = {b}, Stays(b),
         Present(b)' => book'[b].available >= 0,
         Present(b) /\ (Present(b)' => book'[b].available \in Int),
         req[r].pc = "issue" => Present(b)' /\ (query = "row" => UNCHANGED book),
         req[r].pc = "return" => query = "row" \/ UNCHANGED issue,
         Excess(b) \in Int,
         Present(b)' =>
           Excess(b)' = IF (req[r].pc = "issue") <=> (query = "row")
                        THEN Excess(b) + 1 ELSE Excess(b) - 1
  PROVE  LibrarySerial'
<1>0. LibraryTypeOK /\ LibraryInv /\ LibraryHeld(req[r]) /\ req[r] \in LibraryRequest
  BY DEF LibrarySerial, LibraryInv, LibraryTypeOK
<1>1. PICK x \in LibraryRequest :
           /\ Goto(r, x)
           /\ \/ req[r].todo = {query} /\ x = Idle
              \/ /\ req[r].todo = Pair /\ x.pc = req[r].pc /\ x.todo = Pair \ {query}
                 /\ x.pc = "issue" => x.b = req[r].b
                 /\ x.pc = "return" => x.i = req[r].i /\ x.fine = req[r].fine
  BY <1>0, AnsweredStep
<1>2. req'[r] = x
  BY <1>0, <1>1 DEF Goto, LibraryTypeOK
<1>3. \A q \in Reqs \ {r} : b \notin AtWorkOn(q)
  BY DEF LibrarySerial, LibraryTurns
<1>4. AtWorkOn(r)' = {b} \/ (x = Idle /\ AtWorkOn(r)' = {})
  <2>1. CASE x = Idle
    BY <1>2, <2>1 DEF AtWorkOn, Idle
  <2>2. CASE x # Idle /\ req[r].pc = "issue"
    <3>1. req[r].b = b
      BY <1>0, <2>2, OwnBook DEF BookWork
    <3>2. QED BY <1>1, <1>2, <2>2, <3>1 DEF AtWorkOn
  <2>3. CASE x # Idle /\ req[r].pc = "return"
    <3>1. req[r].i \in Issues /\ Issued(req[r].i) /\ issue[req[r].i].b = b
      BY <1>0, <2>3, OwnBook
    <3>2. issue'[req[r].i].b = b
      BY <3>1 DEF Stays
    <3>3. QED BY <1>1, <1>2, <2>3, <3>2 DEF AtWorkOn
  <2>4. QED BY <2>1, <2>2, <2>3 DEF PairWork
<1>5. LibraryHeld(x)'
  <2>1. CASE x = Idle
    BY <2>1 DEF LibraryHeld, Idle
  <2>2. CASE x # Idle /\ req[r].pc = "issue"
    <3>1. req[r].b = b /\ x.b = b /\ x.pc = "issue" /\ req[r].todo = Pair /\ x.todo = Pair \ {query}
      BY <1>0, <1>1, <2>2, OwnBook DEF BookWork
    <3>2. "count" \in x.todo => query = "row"
      BY <3>1 DEF Pair
    <3>3. book[b].available > 0
      BY <1>0, <2>2, <3>1 DEF LibraryHeld, Pair
    <3>4. QED BY <2>2, <3>1, <3>2, <3>3 DEF LibraryHeld
  <2>3. CASE x # Idle /\ req[r].pc = "return"
    <3>1. x.i = req[r].i /\ x.pc = "return" /\ req[r].todo = Pair /\ x.todo = Pair \ {query}
      BY <1>1, <2>3
    <3>2. "row" \in x.todo => UNCHANGED issue
      BY <2>3, <3>1
    <3>3. ~issue[x.i].returned
      BY <1>0, <2>3, <3>1 DEF LibraryHeld, Pair
    <3>4. QED BY <3>1, <3>2, <3>3 DEF LibraryHeld
  <2>4. QED BY <2>1, <2>2, <2>3 DEF PairWork
<1>6. ASSUME ~Faults, Present(b)', b \notin cut' PROVE Excess(b)' = Owed(x)
  <2>1. Excess(b) = Owed(req[r])
    BY <1>6 DEF LibrarySerial, Stock
  <2>2. /\ Owed(req[r]) \in Int /\ Owed(x) \in Int
        /\ req[r].pc = "issue"  /\ query = "row"   => Owed(x) = Owed(req[r]) + 1
        /\ req[r].pc = "issue"  /\ query = "count" => Owed(x) = Owed(req[r]) - 1
        /\ req[r].pc = "return" /\ query = "row"   => Owed(x) = Owed(req[r]) - 1
        /\ req[r].pc = "return" /\ query = "count" => Owed(x) = Owed(req[r]) + 1
    BY <1>1, OwedAfter
  <2>3. QED BY <1>6, <2>1, <2>2 DEF PairWork, Pair
<1>7. QED BY <1>0, <1>1, <1>3, <1>4, <1>5, <1>6, LibraryTurn

\* The two numbers of a book on the shelves.
LEMMA ExcessType ==
  ASSUME LibraryInv, NEW b \in Books, Present(b)
  PROVE  /\ book[b] \in BookRow /\ book[b].available \in Int /\ book[b].total \in Int
         /\ Cardinality(Out(b)) \in Nat /\ Excess(b) \in Int
<1>1. book[b] \in BookRow
  BY DEF LibraryInv, LibraryTypeOK, Present
<1>2. book[b].available \in Int /\ book[b].total \in Int
  <2>1. book[b].available \in Int /\ book[b].total \in Totals
    BY <1>1 DEF BookRow
  <2>2. \A total \in Totals : total \in Nat /\ total \in Int
    BY LibraryAssumption DEF LibraryInv
  <2>3. QED BY <2>1, <2>2
<1>3. QED BY <1>1, <1>2, OutFinite DEF Excess

\* The count goes up or down; the issues stay.
LEMMA CountTurn ==
  ASSUME LibrarySerial, LibraryInv', UNCHANGED <<Faults, issue, cut>>, NEW r \in Reqs,
         req[r].pc \in PairWork, Pending(r, "count"), Answered(r, "count"),
         NEW b \in Books, AtWorkOn(r) = {b}, Present(b),
         Count(b, IF req[r].pc = "issue" THEN -1 ELSE 1),
         req[r].pc = "issue" => book[b].available > 0
  PROVE  LibrarySerial'
<1>0. LibraryTypeOK /\ LibraryInv /\ "count" \in Pair /\ "count" # "row"
  BY DEF LibrarySerial, LibraryInv, Pair
<1>1. PICK n \in {-1, 1} : n = IF req[r].pc = "issue" THEN -1 ELSE 1
  OBVIOUS
<1>2. /\ \A c \in Books \ {b} : book'[c] = book[c]
      /\ book'[b] \in BookRow /\ book'[b].total = book[b].total
      /\ book'[b].available = book[b].available + n
  BY <1>0, <1>1, CountStep
<1>3. Stays(b)
  BY <1>2 DEF Stays, Issued
<1>4. /\ book[b].available \in Int /\ book[b].total \in Int /\ Cardinality(Out(b)) \in Nat
      /\ Excess(b) \in Int
  BY <1>0, ExcessType
<1>5. book[b].available >= 0
  BY DEF LibrarySerial, NoDebts
<1>6. book'[b].available >= 0 /\ book'[b].available \in Int
  BY <1>1, <1>2, <1>4, <1>5
<1>7. Present(b)'
  BY <1>2, LibraryRows DEF Present
<1>8. Out(b)' = Out(b)
  BY DEF Out, IssuesOf, Issued
<1>9. Excess(b)' = Excess(b) + n
  BY <1>1, <1>2, <1>4, <1>8 DEF Excess
<1>10. Excess(b)' = IF (req[r].pc = "issue") <=> ("count" = "row")
                    THEN Excess(b) + 1 ELSE Excess(b) - 1
  BY <1>0, <1>1, <1>4, <1>9
<1>11. QED BY <1>0, <1>3, <1>4, <1>6, <1>7, <1>10, PairTurn

LEMMA SerialContinue ==
  ASSUME LibrarySerial, LibraryInv', UNCHANGED Faults, NEW r \in Reqs, LibraryContinue(r) \/ LibraryDie(r)
  PROVE  LibrarySerial'
<1>0. /\ LibraryTypeOK /\ LibraryInv /\ req[r] \in LibraryRequest /\ LibraryHeld(req[r])
      /\ "row" \in Pair /\ "count" \in Pair /\ "count" # "row"
      /\ Idle \in LibraryRequest /\ Owed(Idle) = 0 /\ LibraryHeld(Idle)'
  BY LibraryIdle DEF LibrarySerial, LibraryInv, LibraryTypeOK, Pair, Owed, Idle, LibraryHeld
\* A request that is done works on nothing.
<1>1. ASSUME Goto(r, Idle) PROVE AtWorkOn(r)' = {}
  <2>1. req'[r] = Idle
    BY <1>0, <1>1 DEF Goto, LibraryTypeOK
  <2>2. QED BY <2>1 DEF AtWorkOn, Idle
<1>2. ASSUME NEW b \in Books, AtWorkOn(r) = {b} PROVE \A q \in Reqs \ {r} : b \notin AtWorkOn(q)
  BY <1>2 DEF LibrarySerial, LibraryTurns
<1>3. CASE BookUpdate(r)
  <2>1. req[r].pc = "update" /\ Goto(r, Idle) /\ UNCHANGED issue
    BY <1>3 DEF BookUpdate, At, Done
  <2>2. PICK b \in Books, total \in Totals, n \in Nat :
          b = req[r].b /\ total = req[r].total /\ n = req[r].available
    BY <1>0, <2>1, LibraryShape DEF BookWork
  <2>3. AtWorkOn(r) = {b} /\ Present(b) /\ n = Remaining(book[b], total)
    BY <1>0, <2>1, <2>2, OwnBook DEF BookWork, LibraryHeld
  <2>4. /\ book' = [book EXCEPT ![b] = [total |-> total, available |-> n]]
        /\ cut' = IF total < Cardinality(Out(b)) THEN cut \cup {b} ELSE cut
    BY <1>3, <2>2, <2>3 DEF BookUpdate
  <2>5. book'[b].total = total /\ book'[b].available = n /\ \A c \in Books \ {b} : book'[c] = book[c]
    BY <1>0, <2>4 DEF LibraryTypeOK
  <2>6. Stays(b) /\ Out(b)' = Out(b)
    BY <2>1, <2>5 DEF Stays, Out, IssuesOf, Issued
  <2>7. ASSUME ~Faults, Present(b)', b \notin cut' PROVE Excess(b)' = Owed(Idle)
    <3>1. total >= Cardinality(Out(b)) /\ b \notin cut
      <4>1. ~(total < Cardinality(Out(b))) /\ b \notin cut
        BY <2>4, <2>7
      <4>2. total \in Nat /\ Cardinality(Out(b)) \in Nat
        BY <1>0, OutFinite, LibraryAssumption DEF LibraryInv
      <4>3. QED BY <4>1, <4>2
    <3>2. Excess(b) = 0
      <4>1. Excess(b) = Owed(req[r])
        BY <2>3, <2>7, <3>1 DEF LibrarySerial, Stock
      <4>2. QED BY <2>1, <4>1 DEF Owed
    <3>3. /\ book[b] \in BookRow /\ book[b].available \in Int /\ book[b].total \in Int
          /\ Cardinality(Out(b)) \in Nat /\ total \in Nat
      BY <1>0, <2>3, ExcessType, LibraryAssumption DEF LibraryInv
    <3>4. n = IF total - (book[b].total - book[b].available) >= 0
              THEN total - (book[b].total - book[b].available) ELSE 0
      BY <1>0, <2>3, <3>3, RemainingIs DEF LibraryInv
    <3>5. book[b].available + Cardinality(Out(b)) - book[b].total = 0
      BY <3>2 DEF Excess
    <3>6. n = total - Cardinality(Out(b))
      BY <3>1, <3>3, <3>4, <3>5
    <3>7. Excess(b)' = 0
      BY <2>5, <2>6, <3>3, <3>6 DEF Excess
    <3>8. QED BY <1>0, <3>7
  <2>8. \A c \in Books \ {b} : c \in cut' <=> c \in cut
    BY <2>4
  <2>9. book'[b].available >= 0
    BY <2>5
  <2>10. QED
    BY <1>0, <1>1, <1>2, <2>1, <2>3, <2>6, <2>7, <2>8, <2>9, LibraryTurn
<1>4. CASE BookDelete(r)
  <2>1. req[r].pc = "delete" /\ Goto(r, Idle) /\ UNCHANGED <<issue, cut>>
    BY <1>4 DEF BookDelete, At, Done
  <2>2. PICK b \in Books : b = req[r].b /\ AtWorkOn(r) = {b}
    BY <1>0, <2>1, OwnBook DEF BookWork
  <2>3. /\ book'[b] = book[b] \/ book'[b] = Deleted
        /\ \A c \in Books \ {b} : book'[c] = book[c]
    BY <1>0, <1>4, <2>2 DEF BookDelete, LibraryTypeOK
  <2>4. Stays(b) /\ Out(b)' = Out(b)
    BY <2>1, <2>3 DEF Stays, Out, IssuesOf, Issued
  <2>5. Present(b)' => book'[b] = book[b] /\ Present(b)
    BY <2>3 DEF Present
  <2>6. ASSUME ~Faults, Present(b)', b \notin cut' PROVE Excess(b)' = Owed(Idle)
    <3>1. Excess(b) = Owed(req[r])
      BY <2>1, <2>2, <2>5, <2>6 DEF LibrarySerial, Stock
    <3>2. Owed(req[r]) = 0
      BY <2>1 DEF Owed
    <3>3. QED BY <1>0, <2>4, <2>5, <2>6, <3>1, <3>2 DEF Excess
  <2>7. Present(b)' => book'[b].available >= 0
    BY <2>5 DEF LibrarySerial, NoDebts
  <2>8. QED BY <1>0, <1>1, <1>2, <2>1, <2>2, <2>4, <2>6, <2>7, LibraryTurn
<1>5. ASSUME NEW i \in Issues, NEW late \in 0..MaxLate, IssueInsert(r, i, late)
      PROVE  LibrarySerial'
  <2>1. /\ req[r].pc = "issue" /\ req[r].pc \in PairWork /\ UNCHANGED <<book, cut>>
        /\ Pending(r, "row") /\ Answered(r, "row")
    BY <1>5 DEF IssueInsert, At, PairWork
  <2>2. PICK b \in Books : b = req[r].b /\ AtWorkOn(r) = {b} /\ Present(b)
    BY <1>0, <2>1, OwnBook DEF BookWork, LibraryHeld
  <2>3. /\ ~Issued(i) /\ issue'[i] \in IssueRow /\ issue'[i].b = b /\ issue'[i].returned = FALSE
        /\ \A j \in Issues \ {i} : issue'[j] = issue[j]
    BY <1>0, <1>5, <2>2, InsertStep
  <2>4. Stays(b)
    BY <2>1, <2>3, LibraryRows DEF Stays, Issued
  <2>5. Out(b)' = Out(b) \cup {i} /\ i \notin Out(b)
    BY <2>3, LibraryRows DEF Out, IssuesOf, Issued
  <2>6. /\ book[b].available \in Int /\ book[b].total \in Int /\ Cardinality(Out(b)) \in Nat
        /\ Excess(b) \in Int
    BY <1>0, <2>2, ExcessType
  <2>7. Cardinality(Out(b)') = Cardinality(Out(b)) + 1
    BY <1>0, <2>5, FS_AddElement, OutFinite, ZenonT(60)
  <2>8. Excess(b)' = Excess(b) + 1
    BY <2>1, <2>6, <2>7 DEF Excess
  <2>9. Present(b)' /\ book'[b].available >= 0
    BY <2>1, <2>2 DEF Present, LibrarySerial, NoDebts
  <2>10. QED BY <1>0, <2>1, <2>2, <2>4, <2>6, <2>8, <2>9, PairTurn
<1>6. CASE IssueCount(r)
  <2>1. /\ req[r].pc = "issue" /\ req[r].pc \in PairWork /\ UNCHANGED <<issue, cut>>
        /\ Pending(r, "count") /\ Answered(r, "count") /\ Count(req[r].b, -1)
    BY <1>6 DEF IssueCount, At, PairWork
  <2>2. PICK b \in Books : b = req[r].b /\ AtWorkOn(r) = {b} /\ Present(b)
    BY <1>0, <2>1, OwnBook DEF BookWork, LibraryHeld
  <2>3. book[b].available > 0
    BY <1>0, <2>1, <2>2 DEF LibraryHeld, Pending
  <2>4. Count(b, IF req[r].pc = "issue" THEN -1 ELSE 1)
    BY <2>1, <2>2
  <2>5. QED BY <2>1, <2>2, <2>3, <2>4, CountTurn
<1>7. CASE ReturnWrite(r)
  <2>1. /\ req[r].pc = "return" /\ req[r].pc \in PairWork /\ UNCHANGED <<book, cut>>
        /\ Pending(r, "row") /\ Answered(r, "row")
    BY <1>7 DEF ReturnWrite, At, PairWork
  <2>2. PICK i \in Issues :
          /\ i = req[r].i /\ Issued(i) /\ issue'[i] \in IssueRow
          /\ issue'[i].b = issue[i].b /\ issue'[i].returned
          /\ \A j \in Issues \ {i} : issue'[j] = issue[j]
    BY <1>0, <1>7, ReturnStep
  <2>3. PICK b \in Books : b = issue[i].b /\ AtWorkOn(r) = {b} /\ Present(b)
    BY <1>0, <2>1, <2>2, OwnBook DEF LibraryInv, HistoryKeepsBook
  <2>4. ~issue[i].returned
    BY <1>0, <2>1, <2>2 DEF LibraryHeld, Pending
  <2>5. Stays(b)
    BY <2>1, <2>2, <2>3, LibraryRows DEF Stays, Issued
  <2>6. Out(b)' = Out(b) \ {i} /\ i \in Out(b)
    BY <2>2, <2>3, <2>4, LibraryRows DEF Out, IssuesOf, Issued
  <2>7. /\ book[b].available \in Int /\ book[b].total \in Int /\ Cardinality(Out(b)) \in Nat
        /\ Excess(b) \in Int
    BY <1>0, <2>3, ExcessType
  <2>8. Cardinality(Out(b)') = Cardinality(Out(b)) - 1
    BY <1>0, <2>6, FS_RemoveElement, OutFinite, ZenonT(60)
  <2>9. Excess(b)' = Excess(b) - 1
    BY <2>1, <2>7, <2>8 DEF Excess
  <2>10. Present(b)' /\ book'[b].available >= 0
    BY <2>1, <2>3 DEF Present, LibrarySerial, NoDebts
  <2>11. QED BY <1>0, <2>1, <2>3, <2>5, <2>7, <2>9, <2>10, PairTurn
<1>8. CASE ReturnCount(r)
  <2>1. /\ req[r].pc = "return" /\ req[r].pc \in PairWork /\ UNCHANGED <<issue, cut>>
        /\ Pending(r, "count") /\ Answered(r, "count") /\ Count(issue[req[r].i].b, 1)
    BY <1>8 DEF ReturnCount, At, PairWork
  <2>2. PICK b \in Books : b = issue[req[r].i].b /\ AtWorkOn(r) = {b} /\ Present(b)
    BY <1>0, <2>1, OwnBook DEF LibraryInv, HistoryKeepsBook
  <2>3. Count(b, IF req[r].pc = "issue" THEN -1 ELSE 1)
    BY <2>1, <2>2
  <2>4. QED BY <2>1, <2>2, <2>3, CountTurn
<1>9. CASE LibraryDie(r)
  <2>1. Faults /\ Goto(r, Idle) /\ UNCHANGED <<book, issue, cut>> /\ req[r] # Idle
    BY <1>9 DEF LibraryDie, Done
  <2>2. PICK b \in Books : AtWorkOn(r) = {b}
    BY <1>0, <2>1, OwnBook
  <2>3. Stays(b) /\ (Present(b)' => book'[b].available >= 0)
    BY <2>1 DEF Stays, Issued, LibrarySerial, NoDebts, Present
  <2>4. QED BY <1>0, <1>1, <1>2, <2>1, <2>2, <2>3, LibraryTurn
<1>10. QED BY <1>3, <1>4, <1>5, <1>6, <1>7, <1>8, <1>9 DEF LibraryContinue

\* Nothing but a day passes.
LEMMA LibraryCalm ==
  ASSUME LibrarySerial, LibraryInv', UNCHANGED <<Faults, book, req, cut>>,
         \A j \in Issues : /\ Issued(j)' <=> Issued(j)
                           /\ issue'[j].b = issue[j].b
                           /\ issue'[j].returned = issue[j].returned
  PROVE  LibrarySerial'
<1>1. ASSUME NEW q \in Reqs PROVE AtWorkOn(q)' = AtWorkOn(q) /\ LibraryHeld(req[q])'
  <2>1. req[q].pc = "return" => req[q].i \in Issues
    BY OwnBook DEF LibrarySerial
  <2>2. LibraryHeld(req[q])
    BY DEF LibrarySerial
  <2>3. AtWorkOn(q)' = AtWorkOn(q)
    BY <2>1 DEF AtWorkOn
  <2>4. LibraryHeld(req[q])'
    BY <2>1, <2>2 DEF LibraryHeld, Present, Remaining
  <2>5. QED BY <2>3, <2>4
<1>2. ASSUME NEW b \in Books PROVE Out(b)' = Out(b) /\ Excess(b)' = Excess(b) /\ Present(b)' = Present(b)
  <2>1. Out(b)' = Out(b)
    BY DEF Out, IssuesOf
  <2>2. QED BY <2>1 DEF Excess, Present
<1>3. LibraryTurns' /\ NoDebts'
  BY <1>1 DEF LibrarySerial, LibraryTurns, NoDebts, Present
<1>4. ASSUME ~Faults, NEW b \in Books PROVE Stock(b)'
  <2>1. Stock(b)
    BY <1>4 DEF LibrarySerial
  <2>2. QED BY <1>1, <1>2, <2>1 DEF Stock
<1>5. QED BY <1>1, <1>3, <1>4 DEF LibrarySerial

LEMMA LibrarySerialNext == ~MayOverlap /\ LibrarySerial /\ [LibraryNext]_libraryVars => LibrarySerial'
<1> SUFFICES ASSUME ~MayOverlap, LibrarySerial, [LibraryNext]_libraryVars PROVE LibrarySerial'
  OBVIOUS
<1>0. LibraryInv' /\ UNCHANGED Faults
  BY LibraryGoesOn DEF LibrarySerial, LibraryNext, libraryVars, Faults
<1>1. ASSUME NEW r \in Reqs, LibraryBegin(r) \/ LibraryContinue(r) \/ LibraryDie(r) PROVE LibrarySerial'
  BY <1>0, <1>1, SerialBegin, SerialContinue
<1>2. ASSUME NEW i \in Issues, DayPasses(i) PROVE LibrarySerial'
  BY <1>0, <1>2, DayStep, LibraryCalm DEF LibrarySerial
<1>3. CASE UNCHANGED libraryVars
  BY <1>0, <1>3, LibraryCalm DEF libraryVars, Issued
<1>4. QED BY <1>1, <1>2, <1>3 DEF LibraryNext

LEMMA LibrarySerialInit == LibraryInit => LibrarySerial
<1> SUFFICES ASSUME LibraryInit PROVE LibrarySerial
  OBVIOUS
<1>1. LibraryInv
  BY LibraryStarts
<1>2. \A q \in Reqs : AtWorkOn(q) = {} /\ LibraryHeld(req[q])
  BY DEF LibraryInit, AtWorkOn, LibraryHeld, Idle
<1>3. \A b \in Books : ~Present(b)
  BY DEF LibraryInit, Present
<1>4. QED BY <1>1, <1>2, <1>3 DEF LibrarySerial, LibraryTurns, NoDebts, Stock

LEMMA LibrarySerialInvariance ==
  LibrarySpec => [](LibraryInv /\ (~MayOverlap => LibrarySerial))
<1> DEFINE Both == LibraryInv /\ (~MayOverlap => LibrarySerial)
<1>1. [LibraryNext]_libraryVars => MayOverlap' = MayOverlap
  BY DEF LibraryNext, libraryVars, MayOverlap
<1>2. Both /\ [LibraryNext]_libraryVars => Both'
  BY <1>1, LibraryGoesOn, LibrarySerialNext
<1>3. LibraryInit => Both
  BY LibraryStarts, LibrarySerialInit
<1>4. QED BY <1>2, <1>3, PTL DEF LibrarySpec

\* The count on a book agrees with its issues under the conditions the parts
\* name; issues are of books that are there, however requests overlap and die.
THEOREM StockIsSound == LibrarySpec => []StockSound
<1> DEFINE Both == LibraryInv /\ (~MayOverlap => LibrarySerial)
<1>1. Both => StockSound
  <2> SUFFICES ASSUME Both PROVE StockSound
    OBVIOUS
  <2>1. LibraryTypeOK /\ HistoryKeepsBook
    BY DEF LibraryInv
  <2>2. NeverNegative
    BY DEF LibrarySerial, NoDebts, NeverNegative
  <2>3. ASSUME ~MayOverlap, ~Faults, NEW b \in Books, Present(b), Untouched(b), b \notin cut
        PROVE  book[b].available = book[b].total - Cardinality(Out(b))
    <3>1. book[b].available + Cardinality(Out(b)) - book[b].total = 0
      BY <2>3 DEF LibrarySerial, Stock, Excess, Untouched
    <3>2. /\ book[b].available \in Int /\ book[b].total \in Int
          /\ Cardinality(Out(b)) \in Nat
      BY <2>3, ExcessType
    <3>3. PICK available \in Int, total \in Int, n \in Nat :
            available = book[b].available /\ total = book[b].total /\ n = Cardinality(Out(b))
      BY <3>2
    <3>4. available = total - n
      <4>1. available + n - total = 0
        BY <3>1, <3>3
      <4>2. QED BY <4>1, SMT
    <3>5. QED BY <3>3, <3>4
  <2>4. StockMatches
    BY <2>3 DEF StockMatches
  <2>5. QED BY <2>1, <2>2, <2>4 DEF StockSound
<1>2. QED BY <1>1, LibrarySerialInvariance, PTL

\* With requests about one book taking turns, a return and its fine are never
\* replaced by a second return's.
THEOREM ReturnsAreFinal == LibrarySpec => ReturnIsFinal
<1> DEFINE Final ==
      \A i \in Issues :
        Issued(i) /\ issue[i].returned => issue'[i].returned /\ issue'[i].fine = issue[i].fine
<1>1. (LibraryInv /\ (~MayOverlap => LibrarySerial)) /\ [LibraryNext]_libraryVars => [~MayOverlap => Final]_libraryVars
  <2> SUFFICES ASSUME LibrarySerial, LibraryNext PROVE Final
    OBVIOUS
  <2>0. LibraryInv /\ LibraryTypeOK
    BY DEF LibrarySerial, LibraryInv
  <2>1. CASE UNCHANGED issue
    BY <2>1
  <2>2. ASSUME NEW i \in Issues, DayPasses(i) PROVE Final
    BY <2>0, <2>2, DayStep
  <2>3. ASSUME NEW r \in Reqs, ReturnWrite(r) PROVE Final
    <3>1. PICK i \in Issues :
            i = req[r].i /\ Issued(i) /\ \A j \in Issues \ {i} : issue'[j] = issue[j]
      BY <2>0, <2>3, ReturnStep
    <3>2. ~issue[i].returned
      BY <2>3, <3>1 DEF LibrarySerial, LibraryHeld, ReturnWrite, At, Pending
    <3>3. QED BY <3>1, <3>2
  <2>4. ASSUME NEW r \in Reqs, NEW i \in Issues, NEW late \in 0..MaxLate, IssueInsert(r, i, late)
        PROVE  Final
    BY <2>0, <2>4 DEF IssueInsert, LibraryTypeOK
  <2>5. QED
    BY <2>1, <2>2, <2>3, <2>4
    DEF LibraryNext, LibraryBegin, LibraryContinue, LibraryDie, DeleteBook, IssueBook, CreateBook, UpdateBook, ReturnBook,
        BookUpdate, BookDelete, IssueCount, ReturnCount
<1>2. QED BY <1>1, LibrarySerialInvariance, PTL DEF LibrarySpec, ReturnIsFinal

=============================================================================
