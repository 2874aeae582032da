---------------------------- MODULE EconomyFleet ----------------------------
(***************************************************************************)
(* Garages, garage slots and trucks of the economy plugin.                 *)
(*                                                                         *)
(* A handler first reads what it needs with plain SELECTs, which all see   *)
(* one snapshot, and refuses the request when a check fails: that is its   *)
(* Start action. Its UPDATEs, INSERTs and DELETEs follow in a later action *)
(* and act on the rows as they are by then: nothing the handler read is    *)
(* locked. A request that is refused, or ends early, changes nothing.      *)
(*                                                                         *)
(* The money of these requests is EconomyBalance's; here a refund only     *)
(* leaves a mark on the thing refunded.                                    *)
(***************************************************************************)
EXTENDS Integers, FiniteSets, Functions

CONSTANTS
    Users,       \* the userids of drivers
    Staff,       \* those with the manage_economy permissions
    Company,     \* owner of the community's things (-1000)
    Dealership,  \* owner of the trucks that were sold (-1001)
    ScrapStation,\* owner of the trucks that were scrapped (-1005)
    None,        \* SQL's NULL
    Models,      \* the trucks of the configuration (truckid)
    Garages,     \* the garages of the configuration (garageid)
    BaseSlots,   \* slots that come with a garage (base_slots)
    Reqs,        \* connections: how many requests run at a time
    MaxSlots,    \* bound on the slots ever bought
    MaxTrucks,   \* bound on the trucks ever bought
    MaxWear,     \* max_wear_before_service, in steps of damage
    MaxDistance  \* max_distance_before_scrap, in steps of distance

ASSUME OwnersAreDistinct ==
    /\ Staff \subseteq Users
    /\ Cardinality({Company, Dealership, ScrapStation, None}) = 4
    /\ Users \intersect {Company, Dealership, ScrapStation, None} = {}

\* No row has the id NULL, and nothing of the configuration is called so.
ASSUME NullIsNoName ==
    None \notin Garages \union Models \union 1..MaxSlots \union 1..MaxTrucks

ASSUME BoundsAreNaturals ==
    /\ BaseSlots \in Nat \ {0}
    /\ {MaxSlots, MaxTrucks, MaxWear, MaxDistance} \subseteq Nat

VARIABLES
    members,      \* userids of the user table
    slots,        \* economy_garage: slotid -> its row
    trucks,       \* economy_truck: vehicleid -> its row
    nextSlot, nextTruck,     \* the AUTO_INCREMENT counters
    slotRefunds, truckRefunds,  \* history: refunds paid per slotid, vehicleid
    job,          \* what each connection has read and is about to write
    slotsCrossed, trucksCrossed  \* history: things whose sale was crossed (see Start)

fleet == <<members, slots, trucks, nextSlot, nextTruck, slotRefunds, truckRefunds>>
vars == <<fleet, job, slotsCrossed, trucksCrossed>>

\* status: 1 active, 0 inactive, -1 service required, -2 scrap required.
Statuses == {-2, -1, 0, 1}
Owners == Users \union {Company}
Gone == {Dealership, ScrapStation}

\* A truck's damage and odometer stop counting once past their limits.
Damages == 0 .. MaxWear + 1
Odometers == 0 .. MaxDistance + 1

-----------------------------------------------------------------------------
(* The tables.                                                             *)

Removed(f, S) == Restrict(f, DOMAIN f \ S)
Stored(f, x, row) == [y \in DOMAIN f \union {x} |-> IF y = x THEN row ELSE f[y]]

\* Refunds are counted up to two.
Counted(n) == IF n = 2 THEN 2 ELSE n + 1

SlotsOf(g) == {s \in DOMAIN slots : slots[s].garage = g}
BaseOf(g) == {s \in SlotsOf(g) : slots[s].base}

\* Only the first base slot of a garage carries its price.
PricedOf(g) == {s \in BaseOf(g) : slots[s].priced}

ParkedAt(s) == {v \in DOMAIN trucks : trucks[v].slot = s}
ParkedIn(g) == {v \in DOMAIN trucks : trucks[v].garage = g}

Drives(d, v) == trucks[v].owner = d \/ trucks[v].assignee = d
ActiveFor(d, m) ==
    {v \in DOMAIN trucks :
        Drives(d, v) /\ trucks[v].model = m /\ trucks[v].status = 1}

\* Who the handlers look at for a conflict of models: the owner, or the
\* assignee of a company truck.
DriverOf(owner, assignee) == IF owner = Company THEN assignee ELSE owner

\* status = not model_conflict. A company truck that nobody drives has none.
StatusFor(owner, assignee, m) ==
    LET d == DriverOf(owner, assignee) IN
    IF d # None /\ ActiveFor(d, m) # {} THEN 0 ELSE 1

\* The permission check of every handler that changes something.
MayModify(c, owner) == c \in Staff \/ owner = c

\* The mutant: the handlers that change a truck ask for permission only.
MayModifyAnyTruck(c, v) == MayModify(c, trucks[v].owner)

\* A truck that was sold or scrapped is nobody's to change.
MayModifyTruck(c, v) ==
    trucks[v].owner \notin Gone /\ MayModify(c, trucks[v].owner)

\* What a purchase may name as its owner; a userid is not looked up.
Buyers(c) == IF c \in Staff THEN Owners ELSE Users

-----------------------------------------------------------------------------
(* Requests.                                                               *)

\* What a request read and was told: the columns its writes use.
NoJob == [op |-> "none", garage |-> None, slot |-> None, truck |-> None,
          model |-> None, owner |-> None, assignee |-> None, status |-> 0,
          damage |-> 0, odometer |-> 0]

GarageJob(op, g, owner) ==
    [NoJob EXCEPT !.op = op, !.garage = g, !.owner = owner]

SlotJob(op, s, owner) ==
    [NoJob EXCEPT !.op = op, !.slot = s, !.garage = slots[s].garage, !.owner = owner]

TruckJob(op, v) ==
    [NoJob EXCEPT !.op = op, !.truck = v, !.model = trucks[v].model,
                  !.owner = trucks[v].owner, !.assignee = trucks[v].assignee,
                  !.status = trucks[v].status, !.damage = trucks[v].damage,
                  !.odometer = trucks[v].odometer]

SlotSales == {"garage_sell", "slot_sell"}
TruckSales == {"truck_sell", "scrap"}

\* These write what a sale of the truck writes: its owner, its slot, or status 1.
WritesOfASale == TruckSales \union {"truck_transfer", "relocate", "activate", "repair"}

\* Two sales of one slot; or a sale of a truck and another such write of it.
SlotSaleCrossed(j, k) == {j.op, k.op} \subseteq SlotSales /\ j.slot = k.slot
TruckSaleCrossed(j, k) ==
    /\ {j.op, k.op} \subseteq WritesOfASale /\ {j.op, k.op} \intersect TruckSales # {}
    /\ j.truck = k.truck

Start(r, j) ==
    /\ job[r] = NoJob
    /\ job' = [job EXCEPT ![r] = j]
    /\ slotsCrossed' = slotsCrossed \union
            (IF \E q \in Reqs : SlotSaleCrossed(j, job[q]) THEN {j.slot} ELSE {})
    /\ trucksCrossed' = trucksCrossed \union
            (IF \E q \in Reqs : TruckSaleCrossed(j, job[q]) THEN {j.truck} ELSE {})
    /\ UNCHANGED fleet

End(r) == job' = [job EXCEPT ![r] = NoJob] /\ UNCHANGED <<slotsCrossed, trucksCrossed>>

Init ==
    /\ members = Users
    /\ slots = [s \in {} |-> None]
    /\ trucks = [v \in {} |-> None]
    /\ nextSlot = 1
    /\ nextTruck = 1
    /\ slotRefunds = [s \in 1..MaxSlots |-> 0]
    /\ truckRefunds = [v \in 1..MaxTrucks |-> 0]
    /\ job = [r \in Reqs |-> NoJob]
    /\ slotsCrossed = {} /\ trucksCrossed = {}

-----------------------------------------------------------------------------
(* Garages.                                                                *)

\* The mutant: the slots that are there already are not looked for.
GarageBoughtAgain(r, c, g) ==
    \E o \in Buyers(c) :
        Start(r, [GarageJob("garage_purchase", g, o) EXCEPT !.status = BaseSlots])

\* status counts the base slots still to be inserted.
StartGaragePurchase(r, c, g) ==
    /\ SlotsOf(g) = {}
    /\ \E o \in Buyers(c) :
        Start(r, [GarageJob("garage_purchase", g, o) EXCEPT !.status = BaseSlots])

InsertSlot(g, owner, base, priced) ==
    /\ nextSlot <= MaxSlots
    /\ slots' = Stored(slots, nextSlot, [garage |-> g, owner |-> owner,
                                         base |-> base, priced |-> priced])
    /\ nextSlot' = nextSlot + 1
    /\ UNCHANGED <<members, trucks, nextTruck, slotRefunds, truckRefunds>>

\* The mutant: the price is written to the last base slot.
BaseSlotPricedLast(r) ==
    LET j == job[r] IN
    /\ j.op = "garage_purchase"
    /\ InsertSlot(j.garage, j.owner, TRUE, j.status = 1)
    /\ IF j.status = 1 THEN End(r)
       ELSE job' = [job EXCEPT ![r].status = j.status - 1]
            /\ UNCHANGED <<slotsCrossed, trucksCrossed>>

\* The base slots are inserted, and committed, one by one.
GaragePurchase(r) ==
    LET j == job[r] IN
    /\ j.op = "garage_purchase"
    /\ InsertSlot(j.garage, j.owner, TRUE, j.status = BaseSlots)
    /\ IF j.status = 1 THEN End(r)
       ELSE job' = [job EXCEPT ![r].status = j.status - 1]
            /\ UNCHANGED <<slotsCrossed, trucksCrossed>>

StartSlotPurchase(r, c, g) ==
    /\ SlotsOf(g) # {}
    /\ \E o \in Buyers(c) : Start(r, GarageJob("slot_purchase", g, o))

SlotPurchase(r) ==
    /\ job[r].op = "slot_purchase"
    /\ InsertSlot(job[r].garage, job[r].owner, FALSE, TRUE)
    /\ End(r)

\* The owner of a garage is read from the first of its base slots.
StartGarageTransfer(r, c, g) ==
    /\ BaseOf(g) # {}
    /\ LET first == CHOOSE s \in BaseOf(g) : \A x \in BaseOf(g) : s <= x IN
       /\ MayModify(c, slots[first].owner)
       /\ \E o \in Owners \ {slots[first].owner} :
            Start(r, GarageJob("garage_transfer", g, o))

SetOwner(S, owner) ==
    slots' = [s \in DOMAIN slots |->
                IF s \in S THEN [slots[s] EXCEPT !.owner = owner] ELSE slots[s]]

GarageTransfer(r) ==
    /\ job[r].op = "garage_transfer"
    /\ SetOwner(BaseOf(job[r].garage), job[r].owner)
    /\ End(r)
    /\ UNCHANGED <<members, trucks, nextSlot, nextTruck, slotRefunds, truckRefunds>>

\* Any slot, a base slot too. The company may transfer to itself.
StartSlotTransfer(r, c, s) ==
    /\ MayModify(c, slots[s].owner)
    /\ \E o \in Owners :
        /\ o # slots[s].owner \/ o = Company
        /\ Start(r, SlotJob("slot_transfer", s, o))

SlotTransfer(r) ==
    /\ job[r].op = "slot_transfer"
    /\ SetOwner({job[r].slot} \intersect DOMAIN slots, job[r].owner)
    /\ End(r)
    /\ UNCHANGED <<members, trucks, nextSlot, nextTruck, slotRefunds, truckRefunds>>

\* The mutant: the trucks parked in the base slots are not looked for.
GarageSoldWithTrucks(r, c, g) ==
    \E s \in PricedOf(g) :
        /\ MayModify(c, slots[s].owner)
        /\ SlotsOf(g) = BaseOf(g)
        /\ Start(r, SlotJob("garage_sell", s, slots[s].owner))

StartGarageSell(r, c, g) ==
    \E s \in PricedOf(g) :
        /\ MayModify(c, slots[s].owner)
        /\ SlotsOf(g) = BaseOf(g)
        /\ ParkedIn(g) = {}
        /\ Start(r, SlotJob("garage_sell", s, slots[s].owner))

DeleteSlots(r, S) ==
    /\ slots' = Removed(slots, S)
    /\ slotRefunds' = [slotRefunds EXCEPT ![job[r].slot] = Counted(@)]
    /\ End(r)
    /\ UNCHANGED <<members, trucks, nextSlot, nextTruck, truckRefunds>>

GarageSell(r) ==
    /\ job[r].op = "garage_sell"
    /\ DeleteSlots(r, SlotsOf(job[r].garage))

StartSlotSell(r, c, s) ==
    /\ ~slots[s].base
    /\ MayModify(c, slots[s].owner)
    /\ ParkedAt(s) = {}
    /\ Start(r, SlotJob("slot_sell", s, slots[s].owner))

SlotSell(r) ==
    /\ job[r].op = "slot_sell"
    /\ DeleteSlots(r, {job[r].slot})

-----------------------------------------------------------------------------
(* Trucks.                                                                 *)

\* Any slot will do, whoever owns it.
FreeSlot(s) == s \in DOMAIN slots /\ ParkedAt(s) = {}

Assignees(owner) == IF owner = Company THEN Users \union {None} ELSE {owner}

StartTruckPurchase(r, c, m, s) ==
    /\ FreeSlot(s)
    /\ \E o \in Buyers(c) : \E a \in Assignees(o) :
        Start(r, [SlotJob("truck_purchase", s, o)
                    EXCEPT !.model = m, !.assignee = a, !.status = StatusFor(o, a, m)])

TruckPurchase(r) ==
    LET j == job[r] IN
    /\ j.op = "truck_purchase"
    /\ nextTruck <= MaxTrucks
    /\ trucks' = Stored(trucks, nextTruck,
            [model |-> j.model, garage |-> j.garage, slot |-> j.slot,
             owner |-> j.owner, assignee |-> j.assignee, status |-> j.status,
             damage |-> 0, odometer |-> 0])
    /\ nextTruck' = nextTruck + 1
    /\ End(r)
    /\ UNCHANGED <<members, slots, nextSlot, slotRefunds, truckRefunds>>

\* The UPDATE of one truck, which the row may have escaped by being deleted.
SetTruck(r, row) ==
    /\ trucks' = IF job[r].truck \in DOMAIN trucks
                 THEN [trucks EXCEPT ![job[r].truck] = row] ELSE trucks
    /\ End(r)
    /\ UNCHANGED <<members, slots, nextSlot, nextTruck, slotRefunds>>

\* The mutant: a transfer to a driver keeps the assignee.
TransferKeepsAssignee(r, c, v) ==
    /\ MayModifyTruck(c, v)
    /\ \E o \in Owners :
        /\ o # trucks[v].owner \/ o = Company
        /\ Start(r, [TruckJob("truck_transfer", v) EXCEPT !.owner = o])

StartTruckTransfer(r, c, v) ==
    /\ MayModifyTruck(c, v)
    /\ \E o \in Owners : \E a \in Assignees(o) :
        /\ o # trucks[v].owner \/ o = Company
        /\ Start(r, [TruckJob("truck_transfer", v)
                        EXCEPT !.owner = o, !.assignee = a,
                               !.status = StatusFor(o, a, trucks[v].model)])

TruckTransfer(r) ==
    LET j == job[r] IN
    /\ j.op = "truck_transfer"
    /\ SetTruck(r, [trucks[j.truck] EXCEPT !.owner = j.owner, !.assignee = j.assignee,
                                           !.status = j.status])
    /\ UNCHANGED truckRefunds

\* The mutant: the new slot may hold a truck.
RelocateAnywhere(r, c, v) ==
    /\ MayModifyTruck(c, v)
    /\ \E s \in DOMAIN slots :
        Start(r, [TruckJob("relocate", v)
                    EXCEPT !.slot = s, !.garage = slots[s].garage])

StartRelocate(r, c, v) ==
    /\ MayModifyTruck(c, v)
    /\ \E s \in DOMAIN slots :
        /\ FreeSlot(s)
        /\ Start(r, [TruckJob("relocate", v)
                        EXCEPT !.slot = s, !.garage = slots[s].garage])

Relocate(r) ==
    LET j == job[r] IN
    /\ j.op = "relocate"
    /\ SetTruck(r, [trucks[j.truck] EXCEPT !.slot = j.slot, !.garage = j.garage])
    /\ UNCHANGED truckRefunds

StartActivate(r, c, v) ==
    /\ MayModifyTruck(c, v)
    /\ trucks[v].status \notin {-1, -2}
    /\ Start(r, TruckJob("activate", v))

\* The mutant: the driver's other trucks of the model stay active.
ActivateAlone(r) ==
    LET j == job[r] IN
    /\ j.op = "activate"
    /\ SetTruck(r, [trucks[j.truck] EXCEPT !.status = 1])
    /\ UNCHANGED truckRefunds

\* Every truck of the model that the driver owns or is assigned is switched
\* off, whatever its status, then this one on.
Activate(r) ==
    LET j == job[r]
        d == DriverOf(j.owner, j.assignee)
        off(v) == d # None /\ Drives(d, v) /\ trucks[v].model = j.model
    IN
    /\ j.op = "activate"
    /\ trucks' = [v \in DOMAIN trucks |->
                    IF v = j.truck THEN [trucks[v] EXCEPT !.status = 1]
                    ELSE IF off(v) THEN [trucks[v] EXCEPT !.status = 0]
                    ELSE trucks[v]]
    /\ End(r)
    /\ UNCHANGED <<members, slots, nextSlot, nextTruck, slotRefunds, truckRefunds>>

StartDeactivate(r, c, v) ==
    MayModifyTruck(c, v) /\ Start(r, TruckJob("deactivate", v))

Deactivate(r) ==
    /\ job[r].op = "deactivate"
    /\ SetTruck(r, [trucks[job[r].truck] EXCEPT !.status = 0])
    /\ UNCHANGED truckRefunds

\* An undamaged truck costs nothing to repair: nothing is done.
StartRepair(r, c, v) ==
    /\ MayModifyTruck(c, v)
    /\ trucks[v].damage > 0
    /\ Start(r, TruckJob("repair", v))

\* The cost is charged and committed before. A truck that was read with
\* status -1 is activated, unless that makes a conflict now; without an
\* assignee the query for one ("userid = None") fails, and so does the request.
Repair(r) ==
    LET j == job[r]
        fails == j.status = -1 /\ DriverOf(j.owner, j.assignee) = None
        status == IF j.status = -1 THEN StatusFor(j.owner, j.assignee, j.model)
                  ELSE trucks[j.truck].status
    IN
    /\ j.op = "repair"
    /\ IF fails THEN End(r) /\ UNCHANGED fleet
       ELSE /\ SetTruck(r, [trucks[j.truck] EXCEPT !.damage = 0, !.status = status])
            /\ UNCHANGED truckRefunds

StartTruckSell(r, c, v) ==
    MayModifyTruck(c, v) /\ Start(r, TruckJob("truck_sell", v))

Dispose(r, to) ==
    /\ SetTruck(r, [trucks[job[r].truck] EXCEPT !.owner = to, !.status = 0,
                                                !.slot = None, !.garage = None])
    /\ truckRefunds' = [truckRefunds EXCEPT ![job[r].truck] = Counted(@)]

TruckSell(r) == job[r].op = "truck_sell" /\ Dispose(r, Dealership)

\* From nine tenths of the distance on: the last step before the limit.
StartScrap(r, c, v) ==
    /\ MayModifyTruck(c, v)
    /\ trucks[v].odometer >= MaxDistance
    /\ Start(r, TruckJob("scrap", v))

Scrap(r) == job[r].op = "scrap" /\ Dispose(r, ScrapStation)

-----------------------------------------------------------------------------
(* Deliveries and drivers who leave.                                       *)

\* A delivered job looks for an active truck of its driver and model; without
\* one the truck was rented and the fleet is not touched. The revenue is paid,
\* the driver notified and the ledger written before the truck is updated.
StartDelivery(r, d, m) ==
    \E v \in ActiveFor(d, m) : Start(r, TruckJob("delivery", v))

Capped(n, max) == IF n > max + 1 THEN max + 1 ELSE n

\* The mutant: the status is written back as it was read.
DeliveryWritesStatusBack(r, damage, distance) ==
    LET j == job[r]
        t == trucks[j.truck]
        status == IF j.odometer + distance > MaxDistance THEN -2
                  ELSE IF j.damage + damage > MaxWear THEN -1
                  ELSE j.status
    IN
    /\ j.op = "delivery"
    /\ SetTruck(r, [t EXCEPT !.damage = Capped(t.damage + damage, MaxWear),
                             !.odometer = Capped(t.odometer + distance, MaxDistance),
                             !.status = status])
    /\ UNCHANGED truckRefunds

\* The statuses come from the damage and the odometer read before.
Delivery(r, damage, distance) ==
    LET j == job[r]
        t == trucks[j.truck]
        status == IF j.odometer + distance > MaxDistance THEN -2
                  ELSE IF j.damage + damage > MaxWear THEN -1
                  ELSE t.status
    IN
    /\ j.op = "delivery"
    /\ SetTruck(r, [t EXCEPT !.damage = Capped(t.damage + damage, MaxWear),
                             !.odometer = Capped(t.odometer + distance, MaxDistance),
                             !.status = status])
    /\ UNCHANGED truckRefunds

StartLeave(r, u) == Start(r, [NoJob EXCEPT !.op = "leave", !.owner = u])

\* The mutant: the slots of a driver who leaves are left to nobody.
LeaveSlotsToNobody(r) ==
    LET u == job[r].owner IN
    /\ job[r].op = "leave"
    /\ members' = members \ {u}
    /\ trucks' = Removed(trucks, {v \in DOMAIN trucks : trucks[v].owner = u})
    /\ SetOwner({s \in DOMAIN slots : slots[s].owner = u}, None)
    /\ End(r)
    /\ UNCHANGED <<nextSlot, nextTruck, slotRefunds, truckRefunds>>

\* A driver who resigns or is dismissed takes the trucks along; the garage
\* slots go to the company. Company trucks keep their assignee.
Leave(r) ==
    LET u == job[r].owner IN
    /\ job[r].op = "leave"
    /\ members' = members \ {u}
    /\ trucks' = Removed(trucks, {v \in DOMAIN trucks : trucks[v].owner = u})
    /\ SetOwner({s \in DOMAIN slots : slots[s].owner = u}, Company)
    /\ End(r)
    /\ UNCHANGED <<nextSlot, nextTruck, slotRefunds, truckRefunds>>

\* A request that is refused after its reads (402), or dies.
Abandon(r) == job[r] # NoJob /\ End(r) /\ UNCHANGED fleet

-----------------------------------------------------------------------------
StartSomething(r, c) ==
    \/ \E g \in Garages :
        \/ StartGaragePurchase(r, c, g) \/ StartSlotPurchase(r, c, g)
        \/ StartGarageTransfer(r, c, g) \/ StartGarageSell(r, c, g)
    \/ \E s \in DOMAIN slots :
        \/ StartSlotTransfer(r, c, s) \/ StartSlotSell(r, c, s)
        \/ \E m \in Models : StartTruckPurchase(r, c, m, s)
    \/ \E v \in DOMAIN trucks :
        \/ StartTruckTransfer(r, c, v) \/ StartRelocate(r, c, v)
        \/ StartActivate(r, c, v) \/ StartDeactivate(r, c, v)
        \/ StartRepair(r, c, v) \/ StartTruckSell(r, c, v) \/ StartScrap(r, c, v)
    \/ \E m \in Models : StartDelivery(r, c, m)
    \/ StartLeave(r, c)

Write(r) ==
    \/ GaragePurchase(r) \/ SlotPurchase(r) \/ GarageTransfer(r)
    \/ SlotTransfer(r) \/ GarageSell(r) \/ SlotSell(r)
    \/ TruckPurchase(r) \/ TruckTransfer(r) \/ Relocate(r)
    \/ Activate(r) \/ Deactivate(r) \/ Repair(r) \/ TruckSell(r) \/ Scrap(r)
    \/ \E damage, distance \in {0, 1} : Delivery(r, damage, distance)
    \/ Leave(r) \/ Abandon(r)

Next == \E r \in Reqs : (\E c \in members : StartSomething(r, c)) \/ Write(r)

Spec == Init /\ [][Next]_vars

-----------------------------------------------------------------------------
(* Properties.                                                             *)

SlotRows == [garage : Garages, owner : Owners, base : BOOLEAN, priced : BOOLEAN]

TruckRows == [model : Models, garage : Garages \union {None},
              slot : 1..MaxSlots \union {None}, owner : Owners \union Gone,
              assignee : Users \union {None}, status : Statuses,
              damage : Damages, odometer : Odometers]

Ops == {"none", "garage_purchase", "slot_purchase", "garage_transfer",
        "slot_transfer", "garage_sell", "slot_sell", "truck_purchase",
        "truck_transfer", "relocate", "activate", "deactivate", "repair",
        "truck_sell", "scrap", "delivery", "leave"}

Jobs == [op : Ops, garage : Garages \union {None},
         slot : 1..MaxSlots \union {None}, truck : 1..MaxTrucks \union {None},
         model : Models \union {None}, owner : Owners \union Gone \union {None},
         assignee : Users \union {None}, status : Statuses \union 0..BaseSlots,
         damage : Damages, odometer : Odometers]

\* Every variable has its type: rows have only ids that were given out, name
\* garages, slots and owners there are, and refunds are counted up to two.
TypeOK ==
    /\ members \subseteq Users
    /\ nextSlot \in 1..MaxSlots + 1 /\ nextTruck \in 1..MaxTrucks + 1
    /\ DOMAIN slots \subseteq 1..nextSlot - 1
    /\ \A s \in DOMAIN slots : slots[s] \in SlotRows
    /\ DOMAIN trucks \subseteq 1..nextTruck - 1
    /\ \A v \in DOMAIN trucks : trucks[v] \in TruckRows
    /\ slotRefunds \in [1..MaxSlots -> 0..2]
    /\ truckRefunds \in [1..MaxTrucks -> 0..2]
    /\ job \in [Reqs -> Jobs]
    /\ slotsCrossed \subseteq 1..MaxSlots /\ trucksCrossed \subseteq 1..MaxTrucks

\* "Garages are required to park all purchased trucks" (docs/plugins.md:73): a
\* truck is parked in a slot that there is, of its garage, and alone; a garage or a
\* slot is only sold when no truck is parked there.
ParkedTrucksHaveASlot ==
    /\ \A v \in DOMAIN trucks :
        trucks[v].slot # None =>
            /\ trucks[v].slot \in DOMAIN slots
            /\ slots[trucks[v].slot].garage = trucks[v].garage
    /\ \A s \in DOMAIN slots : Cardinality(ParkedAt(s)) <= 1

\* A driver has one active truck of a model, so a delivered job is never
\* counted on an arbitrary one of two (trucks.py:324, 465, 700).
OneActiveTruckPerModel ==
    \A d \in Users, m \in Models : Cardinality(ActiveFor(d, m)) <= 1

\* A truck that a driver owns is driven by that driver, whatever requests run
\* at the same time: the conflict checks, which look at the owner of such a
\* truck and at the assignee of a company truck, miss no driver.
OwnersDriveTheirTrucks ==
    \A v \in DOMAIN trucks :
        trucks[v].owner \in Users => trucks[v].assignee = trucks[v].owner

\* Nothing is refunded twice, a base slot standing for its garage, whatever requests
\* run at the same time, unless its sale was crossed: by another sale of it or, of a
\* truck, by a request that had read it before and writes its owner, slot or status
\* back (README, section 5). Deliveries, deactivations, departures, and requests
\* about other things, may overlap with a sale as they please.
RefundedOnce ==
    /\ \A s \in 1..MaxSlots \ slotsCrossed : slotRefunds[s] <= 1
    /\ \A v \in 1..MaxTrucks \ trucksCrossed : truckRefunds[v] <= 1

\* A garage is bought once: only one of its slots carries its price. And it can be
\* sold: if any slot of it is there, so is that one, even when the purchase died
\* half-way.
GaragesStayWhole ==
    \A g \in Garages : SlotsOf(g) # {} => Cardinality(PricedOf(g)) = 1

\* A truck that was sold or scrapped, by a sale that was not crossed, stays so: it
\* is never transferred, parked, activated or deleted again, not even by a delivery
\* that began before the sale and is counted after it.
DisposedIsFinal ==
    [][\A v \in DOMAIN trucks \ trucksCrossed : trucks[v].owner \in Gone =>
            /\ v \in DOMAIN trucks'
            /\ trucks'[v].owner = trucks[v].owner
            /\ trucks'[v].slot = None
            /\ trucks'[v].status # 1]_vars
=============================================================================
