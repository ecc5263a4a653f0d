----------------------------- MODULE Allocations -----------------------------
(***************************************************************************)
(* Hostel rooms and transport routes, and the students allocated to them:  *)
(* src/src/modules/hostel/hostel.service.ts and                            *)
(* src/src/modules/transport/transport.service.ts.                         *)
(*                                                                         *)
(* The two services are built alike and share no table, so one module      *)
(* stands for both and mode.service says which one it is.  A house is a    *)
(* hostel or a route, a place a room in it or a stop on it.  Rooms have a  *)
(* capacity and numbered beds, stops have neither; routes have a vehicle.  *)
(* An allocation's routeId is that of its stop, which never changes, so    *)
(* the place alone is kept.  Names are outside this module.                *)
(***************************************************************************)
EXTENDS Naturals, FiniteSets, FiniteSetsExt, Requests, Rows

CONSTANTS
    Houses,      \* ids of hostels or routes, never reused (cuid)
    Places,      \* ids of rooms or stops, never reused
    Numbers,     \* room numbers, or positions of a stop on its route
    Capacities,  \* capacities of a room in a request
    Vehicles,    \* ids of vehicles, never reused
    Students,
    Ids          \* ids of allocations

ASSUME AllocationsAssumption ==
    /\ Capacities \subseteq Nat \ {0}
    /\ \A m \in Modes : m.service \in {"hostel", "transport"}
    /\ "NONE" \notin Vehicles

VARIABLES
    house,    \* house[h]: the hostel or route row
    place,    \* place[p]: the room or stop row
    vehicle,  \* vehicle[v]: whether the vehicle row exists
    alloc     \* alloc[a]: the allocation row

vars == <<mode, house, place, vehicle, alloc, req>>

Hostel == mode.service = "hostel"

HouseRow == [vehicle : Vehicles \cup {"NONE"}]
\* capacity: 0 for a stop
PlaceRow == [h : Houses, number : Numbers, capacity : Capacities \cup {0}]
\* Beds are numbered from 1; 0 for a stop
BedNumbers == IF Hostel THEN Nat \ {0} ELSE {0}
AllocRow == [st : Students, p : Places, bed : BedNumbers, active : BOOLEAN]

Request ==
    {Idle}
      \cup [pc : {"insertRoute", "deleteVehicle"}, v : Vehicles]
      \cup [pc : {"deleteHouse"}, h : Houses]
      \cup [pc : {"insertPlace"}, h : Houses, number : Numbers, capacity : Capacities \cup {0}]
      \cup [pc : {"deletePlace"}, p : Places]
      \cup [pc : {"countRoom"}, st : Students, p : Places]
      \cup [pc : {"allocate"}, st : Students, p : Places, bed : BedNumbers]
      \cup [pc : {"vacate"}, a : Ids]

Has(a)      == alloc[a] # NoRow
PlacesOf(h) == {p \in Places : Exists(place[p]) /\ place[p].h = h}
History(p)  == {a \in Ids : Has(a) /\ alloc[a].p = p}
Active      == {a \in Ids : Has(a) /\ alloc[a].active}
ActiveIn(p) == Active \cap History(p)

TypeOK ==
    /\ house \in [Houses -> HouseRow \cup {NoRow, Deleted}]
    /\ place \in [Places -> PlaceRow \cup {NoRow, Deleted}]
    /\ vehicle \in [Vehicles -> {"absent", "present", "deleted"}]
    /\ alloc \in [Ids -> AllocRow \cup {NoRow}]
    /\ req \in [Reqs -> Request]

Init ==
    /\ mode \in Modes
    /\ house = [h \in Houses |-> NoRow]
    /\ place = [p \in Places |-> NoRow]
    /\ vehicle = [v \in Vehicles |-> "absent"]
    /\ alloc = [a \in Ids |-> NoRow]
    /\ req = [r \in Reqs |-> Idle]

-----------------------------------------------------------------------------
\* Request bookkeeping.

Touches(q) ==
    CASE req[q].pc \in {"insertRoute", "deleteVehicle"} -> {req[q].v}
      [] req[q].pc \in {"deleteHouse", "insertPlace"} -> {req[q].h}
      [] req[q].pc = "deletePlace" -> {req[q].p}
      [] req[q].pc \in {"countRoom", "allocate"} -> {req[q].st, req[q].p}
      [] req[q].pc = "vacate" -> {alloc[req[q].a].st, alloc[req[q].a].p}
      [] OTHER -> {}

\* The code serialises nothing (MayOverlap); otherwise requests
\* that touch the same thing take turns.
MayStart(r, things) ==
    /\ req[r] = Idle
    /\ MayOverlap \/ \A q \in Reqs : Touches(q) \cap things = {}

\* The server stops, or a query fails: earlier queries of r stay committed.
Die(r) ==
    /\ Faults /\ req[r] # Idle
    /\ Done(r)
    /\ UNCHANGED <<house, place, vehicle, alloc>>

-----------------------------------------------------------------------------
\* Vehicles.

CreateVehicle(r, v) ==
    /\ MayStart(r, {v})
    /\ ~Hostel /\ vehicle[v] = "absent"
    /\ vehicle' = [vehicle EXCEPT ![v] = "present"]
    /\ UNCHANGED <<house, place, alloc, req>>

Unassigned(v) == \A h \in Houses : Exists(house[h]) => house[h].vehicle # v

DeleteVehicle(r, v) ==
    /\ MayStart(r, {v})
    /\ vehicle[v] = "present"                     \* else 404
    /\ Unassigned(v)                              \* else VEHICLE_IN_USE
    /\ Goto(r, [pc |-> "deleteVehicle", v |-> v])
    /\ UNCHANGED <<house, place, vehicle, alloc>>

\* vehicleId is optional, so its foreign key is ON DELETE SET NULL.
VehicleDelete(r) ==
    /\ At(r, "deleteVehicle")
    /\ LET v == req[r].v IN
         /\ vehicle' = [vehicle EXCEPT ![v] = "deleted"]
         /\ house' = [h \in Houses |-> IF Exists(house[h]) /\ house[h].vehicle = v
                                       THEN [vehicle |-> "NONE"] ELSE house[h]]
    /\ Done(r)
    /\ UNCHANGED <<place, alloc>>

-----------------------------------------------------------------------------
\* Hostels and routes.

CreateHouse(r, h) ==
    /\ MayStart(r, {})
    /\ house[h] = NoRow
    /\ house' = [house EXCEPT ![h] = [vehicle |-> "NONE"]]
    /\ UNCHANGED <<place, vehicle, alloc, req>>

CreateRouteWith(r, v) ==
    /\ MayStart(r, {v})
    /\ vehicle[v] = "present"                     \* else 400
    /\ Goto(r, [pc |-> "insertRoute", v |-> v])
    /\ UNCHANGED <<house, place, vehicle, alloc>>

\* The foreign key refuses a vehicle deleted since.
RouteInsert(r, h) ==
    /\ At(r, "insertRoute")
    /\ house[h] = NoRow
    /\ house' = IF vehicle[req[r].v] = "present"
                THEN [house EXCEPT ![h] = [vehicle |-> req[r].v]] ELSE house
    /\ Done(r)
    /\ UNCHANGED <<place, vehicle, alloc>>

\* deleteRoute counts allocations too, but they are of stops of the route: the
\* mutant counts nothing else.
Mutant_Empty(h) == \A p \in PlacesOf(h) : History(p) = {}
Empty(h) == PlacesOf(h) = {}

DeleteHouse(r, h) ==
    /\ MayStart(r, {h})
    /\ Exists(house[h])                           \* else 404
    /\ Empty(h)                                   \* else HOSTEL_IN_USE or ROUTE_IN_USE
    /\ Goto(r, [pc |-> "deleteHouse", h |-> h])
    /\ UNCHANGED <<house, place, vehicle, alloc>>

\* A room holds its hostel (ON DELETE RESTRICT), a stop goes with its route
\* (CASCADE), unless an allocation holds the route.
MayDelete(h) ==
    /\ Exists(house[h])
    /\ IF Hostel THEN PlacesOf(h) = {} ELSE \A p \in PlacesOf(h) : History(p) = {}

HouseDelete(r) ==
    /\ At(r, "deleteHouse")
    /\ LET h == req[r].h IN
         IF MayDelete(h)
         THEN /\ house' = [house EXCEPT ![h] = Deleted]
              /\ place' = [p \in Places |-> IF p \in PlacesOf(h) THEN Deleted ELSE place[p]]
         ELSE UNCHANGED <<house, place>>
    /\ Done(r)
    /\ UNCHANGED <<vehicle, alloc>>

-----------------------------------------------------------------------------
\* Rooms and stops.

Taken(h, number) == \E p \in PlacesOf(h) : place[p].number = number

\* createHostelRoom, addStop
CreatePlace(r, h, number, capacity) ==
    /\ MayStart(r, {h})
    /\ Hostel <=> capacity > 0
    /\ Exists(house[h])                           \* else 400 or 404
    /\ ~Taken(h, number)                          \* else DUPLICATE_ROOM or DUPLICATE_SEQUENCE
    /\ Goto(r, [pc |-> "insertPlace", h |-> h, number |-> number, capacity |-> capacity])
    /\ UNCHANGED <<house, place, vehicle, alloc>>

\* Foreign key and unique index.
Insertable(h, number) == Exists(house[h]) /\ ~Taken(h, number)

PlaceInsert(r, p) ==
    /\ At(r, "insertPlace")
    /\ place[p] = NoRow
    /\ LET h == req[r].h  number == req[r].number IN
         place' = IF Insertable(h, number)
                  THEN [place EXCEPT ![p] = [h |-> h, number |-> number,
                                             capacity |-> req[r].capacity]]
                  ELSE place
    /\ Done(r)
    /\ UNCHANGED <<house, vehicle, alloc>>

\* Any allocation counts, not just active ones.
DeletePlace(r, p) ==
    /\ MayStart(r, {p})
    /\ Exists(place[p])                           \* else 404
    /\ History(p) = {}                            \* else ROOM_IN_USE or STOP_IN_USE
    /\ Goto(r, [pc |-> "deletePlace", p |-> p])
    /\ UNCHANGED <<house, place, vehicle, alloc>>

\* Allocations hold their place (ON DELETE RESTRICT).
PlaceDelete(r) ==
    /\ At(r, "deletePlace")
    /\ LET p == req[r].p IN
         place' = IF Exists(place[p]) /\ History(p) = {}
                  THEN [place EXCEPT ![p] = Deleted] ELSE place
    /\ Done(r)
    /\ UNCHANGED <<house, vehicle, alloc>>

-----------------------------------------------------------------------------
\* createAllocation: look for an active allocation of the student; in a hostel
\* read the room's active allocations and choose a bed; insert.

Unallocated(st, p) == \A a \in Active : alloc[a].st # st

CreateAllocation(r, st, p) ==
    /\ MayStart(r, {st, p})
    /\ Exists(place[p])                           \* else 400
    /\ Unallocated(st, p)                         \* else ALREADY_ALLOCATED
    /\ Goto(r, IF Hostel THEN [pc |-> "countRoom", st |-> st, p |-> p]
                         ELSE [pc |-> "allocate", st |-> st, p |-> p, bed |-> 0])
    /\ UNCHANGED <<house, place, vehicle, alloc>>

Beds(p) == {alloc[a].bed : a \in ActiveIn(p)}

LowestFreeBed(p) == Min(1..(Cardinality(Beds(p)) + 1) \ Beds(p))

Mutant_Room(p, capacity) == Cardinality(ActiveIn(p)) <= capacity
Room(p, capacity) == Cardinality(ActiveIn(p)) < capacity

\* The capacity was read with the room and never changes; a room that is gone
\* has no allocation, and the insert will fail.
CountRoom(r) ==
    /\ At(r, "countRoom")
    /\ LET p == req[r].p IN
         IF Exists(place[p]) /\ Room(p, place[p].capacity)
         THEN Goto(r, [pc |-> "allocate", st |-> req[r].st, p |-> p, bed |-> LowestFreeBed(p)])
         ELSE Done(r)                             \* ROOM_FULL
    /\ UNCHANGED <<house, place, vehicle, alloc>>

\* The foreign keys refuse a place deleted since.
AllocationInsert(r, a) ==
    /\ At(r, "allocate")
    /\ ~Has(a)
    /\ alloc' = IF Exists(place[req[r].p])
                THEN [alloc EXCEPT ![a] = [st |-> req[r].st, p |-> req[r].p,
                                           bed |-> req[r].bed, active |-> TRUE]]
                ELSE alloc
    /\ Done(r)
    /\ UNCHANGED <<house, place, vehicle>>

\* vacateAllocation, removeAllocation
VacateAllocation(r, a) ==
    /\ a \in Active                               \* else 404, ALREADY_VACATED
                                                  \* or ALREADY_REMOVED
    /\ MayStart(r, {alloc[a].st, alloc[a].p})
    /\ Goto(r, [pc |-> "vacate", a |-> a])
    /\ UNCHANGED <<house, place, vehicle, alloc>>

Vacate(r) ==
    /\ At(r, "vacate")
    /\ alloc' = [alloc EXCEPT ![req[r].a].active = FALSE]
    /\ Done(r)
    /\ UNCHANGED <<house, place, vehicle>>

-----------------------------------------------------------------------------
Begin(r) ==
    \/ \E v \in Vehicles : CreateVehicle(r, v) \/ DeleteVehicle(r, v) \/ CreateRouteWith(r, v)
    \/ \E h \in Houses :
         \/ CreateHouse(r, h) \/ DeleteHouse(r, h)
         \/ \E number \in Numbers, capacity \in Capacities \cup {0} :
              CreatePlace(r, h, number, capacity)
    \/ \E p \in Places : DeletePlace(r, p) \/ \E st \in Students : CreateAllocation(r, st, p)
    \/ \E a \in Ids : VacateAllocation(r, a)

Continue(r) ==
    \/ VehicleDelete(r) \/ HouseDelete(r) \/ PlaceDelete(r) \/ CountRoom(r) \/ Vacate(r)
    \/ \E h \in Houses : RouteInsert(r, h)
    \/ \E p \in Places : PlaceInsert(r, p)
    \/ \E a \in Ids : AllocationInsert(r, a)

Next ==
    /\ \E r \in Reqs : Begin(r) \/ Continue(r) \/ Die(r)
    /\ UNCHANGED mode

Spec == Init /\ [][Next]_vars

-----------------------------------------------------------------------------
\* Properties.

\* No student has two active allocations (ALREADY_ALLOCATED), although no index
\* says so, as long as requests take turns.
OneActivePerStudent ==
    ~MayOverlap => \A a, b \in Active : alloc[a].st = alloc[b].st => a = b

\* However requests overlap and die, a bed number never exceeds the capacity of
\* the room: the lowest free bed is chosen after the room was found not full.  As
\* long as requests take turns, a room holds no more students than its capacity
\* (ROOM_FULL), and no two of them share a bed, although beds become free and are
\* given again.
RoomsHold ==
    Hostel =>
      \A p \in Places :
        Exists(place[p]) =>
          /\ \A a \in History(p) : alloc[a].bed \in 1..place[p].capacity
          /\ ~MayOverlap =>
               /\ Cardinality(ActiveIn(p)) <= place[p].capacity
               /\ \A a, b \in ActiveIn(p) : alloc[a].bed = alloc[b].bed => a = b

\* However requests overlap and die, every allocation, current or past, is of a
\* room or stop that exists, and every room or stop is in a hostel or on a route
\* that exists, also while routes are deleted together with their stops.
ReferencesHold ==
    /\ \A a \in Ids : Has(a) => Exists(place[alloc[a].p])
    /\ \A p \in Places : Exists(place[p]) => Exists(house[place[p].h])

\* deleteRoute never takes stops along with a route (ROUTE_IN_USE), and
\* deleteVehicle never takes the vehicle from a route (VEHICLE_IN_USE), as long
\* as requests take turns.
NothingTakenAlong ==
    [][~MayOverlap =>
         \A h \in Houses :
           Exists(house[h]) => \/ house'[h] = house[h]
                               \/ house'[h] = Deleted /\ PlacesOf(h) = {}]_vars

\* Allocations are of places that exist, one to a student and a bed each.
AllocationsSound == TypeOK /\ ReferencesHold /\ OneActivePerStudent /\ RoomsHold

=============================================================================
