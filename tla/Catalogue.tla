------------------------------ MODULE Catalogue ------------------------------
(***************************************************************************)
(* Restaurants, sectors and tables: the routes of admin.routes.ts, the     *)
(* seed, and create calls that read the catalogue while it changes.  Every *)
(* save is an upsert by id, so that creating a sector or a table a second  *)
(* time moves it.  A create call finds its restaurant and its sector, but  *)
(* never compares the sector's restaurant with the one it was given.  All  *)
(* bookings here are for one time (see Booking for the others).            *)
(***************************************************************************)
CONSTANTS
  RestaurantIds,
  SectorIds,
  TableIds,
  Admins,        \* requests of the admin routes
  Guests,        \* create calls
  SeedRestaurant, SeedSector, SeedTable, SeedBooking,   \* seed.ts: R1, S1, T2, B1
  Absent

ASSUME CatalogueAssumption ==
  /\ SeedRestaurant \in RestaurantIds /\ SeedSector \in SectorIds /\ SeedTable \in TableIds
  /\ SeedBooking \notin Guests
  /\ Absent \notin RestaurantIds \cup SectorIds \cup TableIds \cup Guests

VARIABLES
  restaurants,   \* ids in the collection
  home,          \* sectors: the restaurant of each, or Absent
  place,         \* tables: the sector of each, or Absent
  taken,         \* bookings: [restaurant, sector, table], or Absent
  admin,         \* the await each admin request is at, and what it will save
  guest,         \* the await each create call is at, and what it has selected
  moved          \* history: tables saved in a second sector

catalogueVars == <<restaurants, home, place, taken, admin, guest, moved>>

Reservation == [restaurant : RestaurantIds, sector : SectorIds, table : TableIds]
ASSUME AbsentIsNoReservation == Absent \notin Reservation

Bookable == Guests \cup {SeedBooking}

AdminState == [stage : {"new", "seed_sector", "seed_table", "seed_booking", "done"}]
              \cup [stage : {"sector"}, sector : SectorIds, restaurant : RestaurantIds]
              \cup [stage : {"table"}, table : TableIds, sector : SectorIds]
GuestState == [stage : {"new", "done"}]
              \cup [stage : {"selected", "locked", "checked"}, seat : Reservation]

CatalogueTypeOK ==
  /\ restaurants \subseteq RestaurantIds
  /\ home \in [SectorIds -> RestaurantIds \cup {Absent}]
  /\ place \in [TableIds -> SectorIds \cup {Absent}]
  /\ taken \in [Bookable -> Reservation \cup {Absent}]
  /\ admin \in [Admins -> AdminState]
  /\ guest \in [Guests -> GuestState]
  /\ moved \subseteq TableIds

(* A catalogue in use: one restaurant, its sector and tables.              *)
CatalogueInit ==
  /\ restaurants = {SeedRestaurant}
  /\ home = [s \in SectorIds |-> IF s = SeedSector THEN SeedRestaurant ELSE Absent]
  /\ place = [t \in TableIds |-> IF t = SeedTable THEN SeedSector ELSE Absent]
  /\ taken = [b \in Bookable |-> Absent]
  /\ admin = [a \in Admins |-> [stage |-> "new"]]
  /\ guest = [g \in Guests |-> [stage |-> "new"]]
  /\ moved = {}

-----------------------------------------------------------------------------
AdminAt(a, state) == admin' = [admin EXCEPT ![a] = state]
GuestAt(g, state) == guest' = [guest EXCEPT ![g] = state]

(* The repositories' save.                                                 *)
SaveSector(s, r) == home' = [home EXCEPT ![s] = r]
SaveTable(t, s) ==
  /\ place' = [place EXCEPT ![t] = s]
  /\ moved' = IF place[t] \in {Absent, s} THEN moved ELSE moved \cup {t}

(* POST /restaurants                                                       *)
CreateRestaurant(a, r) ==
  /\ admin[a].stage = "new"
  /\ restaurants' = restaurants \cup {r}
  /\ AdminAt(a, [stage |-> "done"])
  /\ UNCHANGED <<home, place, taken, guest, moved>>

(* POST /sectors: the restaurant is looked up ...                          *)
FindRestaurant(a, s, r) ==
  /\ admin[a].stage = "new"
  /\ r \in restaurants
  /\ AdminAt(a, [stage |-> "sector", sector |-> s, restaurant |-> r])
  /\ UNCHANGED <<restaurants, home, place, taken, guest, moved>>

(* ... and the sector saved.                                               *)
CreateSector(a) ==
  /\ admin[a].stage = "sector"
  /\ SaveSector(admin[a].sector, admin[a].restaurant)
  /\ AdminAt(a, [stage |-> "done"])
  /\ UNCHANGED <<restaurants, place, taken, guest, moved>>

(* POST /tables: the sector is looked up ...                               *)
FindSector(a, t, s) ==
  /\ admin[a].stage = "new"
  /\ home[s] # Absent
  /\ AdminAt(a, [stage |-> "table", table |-> t, sector |-> s])
  /\ UNCHANGED <<restaurants, home, place, taken, guest, moved>>

(* ... and the table saved.                                                *)
CreateTable(a) ==
  /\ admin[a].stage = "table"
  /\ SaveTable(admin[a].table, admin[a].sector)
  /\ AdminAt(a, [stage |-> "done"])
  /\ UNCHANGED <<restaurants, home, taken, guest>>

(* POST /seed, or SEED_DB at the start of a process: a restaurant, ...     *)
BeginSeed(a) ==
  /\ admin[a].stage = "new"
  /\ restaurants' = restaurants \cup {SeedRestaurant}
  /\ AdminAt(a, [stage |-> "seed_sector"])
  /\ UNCHANGED <<home, place, taken, guest, moved>>

(* ... its sector, ...                                                     *)
SeedsSector(a) ==
  /\ admin[a].stage = "seed_sector"
  /\ SaveSector(SeedSector, SeedRestaurant)
  /\ AdminAt(a, [stage |-> "seed_table"])
  /\ UNCHANGED <<restaurants, place, taken, guest, moved>>

(* ... the tables (here the one that is booked), ...                       *)
SeedsTable(a) ==
  /\ admin[a].stage = "seed_table"
  /\ SaveTable(SeedTable, SeedSector)
  /\ AdminAt(a, [stage |-> "seed_booking"])
  /\ UNCHANGED <<restaurants, home, taken, guest>>

(* ... and a booking, without a lock or a look at the others.              *)
SeedsBooking(a) ==
  /\ admin[a].stage = "seed_booking"
  /\ taken' = [taken EXCEPT ![SeedBooking] =
                 [restaurant |-> SeedRestaurant, sector |-> SeedSector, table |-> SeedTable]]
  /\ AdminAt(a, [stage |-> "done"])
  /\ UNCHANGED <<restaurants, home, place, guest, moved>>

-----------------------------------------------------------------------------
(* findBySectorAndDate                                                     *)
TakenIn(s) == {taken[b].table : b \in {b \in Bookable : taken[b] # Absent /\ taken[b].sector = s}}

(* A create call has read its restaurant, sector, tables and bookings, and *)
(* selects a table that is free.  (The reads are one step: nothing is ever *)
(* deleted, and what they see may be out of date at the next step anyway.) *)
Select(g, r, s, t) ==
  /\ guest[g].stage = "new"
  /\ r \in restaurants
  /\ home[s] # Absent
  /\ place[t] = s
  /\ t \notin TakenIn(s)
  /\ GuestAt(g, [stage |-> "selected", seat |-> [restaurant |-> r, sector |-> s, table |-> t]])
  /\ UNCHANGED <<restaurants, home, place, taken, admin, moved>>

(* Variant: the lock is not taken.                                         *)
EnterLockFreely(g) ==
  /\ guest[g].stage = "selected"
  /\ GuestAt(g, [guest[g] EXCEPT !.stage = "locked"])
  /\ UNCHANGED <<restaurants, home, place, taken, admin, moved>>

(* The lock of generateLockKey: restaurant, sector, tables and start.      *)
EnterLock(g) ==
  /\ guest[g].stage = "selected"
  /\ \A f \in Guests : guest[f].stage \in {"locked", "checked"} => guest[f].seat # guest[g].seat
  /\ GuestAt(g, [guest[g] EXCEPT !.stage = "locked"])
  /\ UNCHANGED <<restaurants, home, place, taken, admin, moved>>

(* The bookings of the sector are read again.                              *)
CheckAgain(g) ==
  /\ guest[g].stage = "locked"
  /\ GuestAt(g, IF guest[g].seat.table \in TakenIn(guest[g].seat.sector)
                THEN [stage |-> "done"]
                ELSE [guest[g] EXCEPT !.stage = "checked"])
  /\ UNCHANGED <<restaurants, home, place, taken, admin, moved>>

(* The booking is saved and the lock released.                             *)
Reserve(g) ==
  /\ guest[g].stage = "checked"
  /\ taken' = [taken EXCEPT ![g] = guest[g].seat]
  /\ GuestAt(g, [stage |-> "done"])
  /\ UNCHANGED <<restaurants, home, place, admin, moved>>

CatalogueNext ==
  \/ \E a \in Admins :
       \/ \E r \in RestaurantIds : CreateRestaurant(a, r)
       \/ \E s \in SectorIds, r \in RestaurantIds : FindRestaurant(a, s, r)
       \/ CreateSector(a)
       \/ \E t \in TableIds, s \in SectorIds : FindSector(a, t, s)
       \/ CreateTable(a)
       \/ BeginSeed(a) \/ SeedsSector(a) \/ SeedsTable(a) \/ SeedsBooking(a)
  \/ \E g \in Guests :
       \/ \E r \in RestaurantIds, s \in SectorIds, t \in TableIds : Select(g, r, s, t)
       \/ EnterLock(g) \/ CheckAgain(g) \/ Reserve(g)

CatalogueSpec == CatalogueInit /\ [][CatalogueNext]_catalogueVars

-----------------------------------------------------------------------------
(* What a document names exists: a sector's restaurant, a table's sector,  *)
(* a booking's restaurant, sector and table.                               *)
ParentsExist ==
  /\ \A s \in SectorIds : home[s] # Absent => home[s] \in restaurants
  /\ \A t \in TableIds : place[t] # Absent => home[place[t]] # Absent
  /\ \A b \in Bookable :
       taken[b] # Absent => /\ taken[b].restaurant \in restaurants
                            /\ home[taken[b].sector] # Absent
                            /\ place[taken[b].table] # Absent

(* A table is booked twice only if it has been moved between sectors, if   *)
(* one of the bookings is the seed's, or if the calls named different      *)
(* restaurants for the sector and so took different locks.                 *)
DoubledTablesHaveACause ==
  \A b, c \in Bookable :
    b # c /\ taken[b] # Absent /\ taken[c] # Absent /\ taken[b].table = taken[c].table =>
      \/ taken[b].table \in moved
      \/ SeedBooking \in {b, c}
      \/ taken[b].restaurant # taken[c].restaurant
=============================================================================
