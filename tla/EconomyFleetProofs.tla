------------------------ MODULE EconomyFleetProofs ------------------------
(***************************************************************************)
(* Proofs about EconomyFleet, for any users, garages, slots and trucks.    *)
(* Whatever requests run at the same time, the tables keep their types and *)
(* a driver's truck is driven by that driver; and, but for sales that were *)
(* crossed, nothing is refunded twice and what was disposed of stays so.   *)
(* Where requests are served one at a time, what a request read is still   *)
(* so when it writes, and then trucks are parked alone, models are active  *)
(* once and garages stay whole.                                            *)
(***************************************************************************)
EXTENDS EconomyFleet, FiniteSetTheorems, TLAPS

\* The requests that name a garage, a slot, a truck of the fleet.
GarageOps == {"garage_purchase", "slot_purchase", "garage_transfer"}
SlotOps == {"slot_transfer", "garage_sell", "slot_sell", "truck_purchase"}
ReadingOps == {"relocate", "activate", "deactivate", "repair", "truck_sell",
               "scrap", "delivery"}
TruckOps == ReadingOps \union {"truck_transfer"}

\* A request names what it is about, and takes its columns from their ranges.
Complete(j) ==
    /\ j.op \in GarageOps \union SlotOps => j.garage \in Garages /\ j.owner \in Owners
    /\ j.op = "garage_purchase" => j.status \in 1..BaseSlots
    /\ j.op \in SlotOps \union {"relocate"} =>
            j.slot \in 1..MaxSlots /\ j.garage \in Garages
    /\ j.op \in TruckOps => j.truck \in 1..MaxTrucks
    /\ j.op \in TruckOps \union {"truck_purchase"} => j.model \in Models
    /\ j.op \in {"truck_purchase", "truck_transfer"} =>
            /\ j.owner \in Owners /\ j.status \in {0, 1}
            /\ j.owner \in Users => j.assignee = j.owner
    /\ j.op = "leave" => j.owner \in Users

TypeInv == TypeOK /\ \A r \in Reqs : Complete(job[r])

\* What every number of requests keeps.
RowInv == TypeInv /\ OwnersDriveTheirTrucks

-----------------------------------------------------------------------------
(* Constants.                                                              *)

\* The owners that are no driver, and NULL, are four and none of them a user.
LEMMA OwnersDiffer ==
    /\ Company # Dealership /\ Company # ScrapStation /\ Company # None
    /\ Dealership # ScrapStation /\ Dealership # None /\ ScrapStation # None
    /\ \A u \in Users : u \notin {Company, Dealership, ScrapStation, None}
<1>1. ASSUME NEW a, NEW b, NEW c PROVE Cardinality({a, b, c}) <= 3
  <2>1. IsFiniteSet({a}) /\ Cardinality({a}) = 1
      BY FS_Singleton
  <2>2. IsFiniteSet({a, b}) /\ Cardinality({a, b}) <= 2
    <3>1. {a} \union {b} = {a, b}
        OBVIOUS
    <3> QED
        BY <2>1, <3>1, FS_AddElement
  <2>3. {a, b} \union {c} = {a, b, c}
      OBVIOUS
  <2>4. Cardinality({a, b}) \in Nat
      BY <2>2, FS_CardinalityType
  <2> QED
      BY <2>2, <2>3, <2>4, FS_AddElement
<1>2. ASSUME NEW a, NEW b, NEW c PROVE Cardinality({a, b, c}) # 4
  <2>1. Cardinality({a, b, c}) <= 3
      BY <1>1
  <2>2. IsFiniteSet({a, b, c}) /\ Cardinality({a, b, c}) \in Nat
    <3>1. IsFiniteSet({a}) /\ IsFiniteSet({a} \union {b})
        BY FS_Singleton, FS_AddElement
    <3>2. IsFiniteSet(({a} \union {b}) \union {c})
        BY <3>1, FS_AddElement
    <3>3. ({a} \union {b}) \union {c} = {a, b, c}
        OBVIOUS
    <3> QED
        BY <3>2, <3>3, FS_CardinalityType
  <2> QED
      BY <2>1, <2>2
<1> DEFINE F == {Company, Dealership, ScrapStation, None}
<1>3. Cardinality(F) = 4
    BY OwnersAreDistinct
<1>4. Company # Dealership /\ Company # ScrapStation /\ Company # None
  <2>1. Company = Dealership => F = {Dealership, ScrapStation, None}
      OBVIOUS
  <2>2. Company = ScrapStation => F = {Dealership, ScrapStation, None}
      OBVIOUS
  <2>3. Company = None => F = {Dealership, ScrapStation, None}
      OBVIOUS
  <2> HIDE DEF F
  <2> QED
      BY <1>2, <1>3, <2>1, <2>2, <2>3
<1>5. Dealership # ScrapStation /\ Dealership # None /\ ScrapStation # None
  <2>1. Dealership = ScrapStation => F = {Company, ScrapStation, None}
      OBVIOUS
  <2>2. Dealership = None => F = {Company, ScrapStation, None}
      OBVIOUS
  <2>3. ScrapStation = None => F = {Company, Dealership, None}
      OBVIOUS
  <2> HIDE DEF F
  <2> QED
      BY <1>2, <1>3, <2>1, <2>2, <2>3
<1> QED
    BY <1>4, <1>5, OwnersAreDistinct

\* The zeros of NoJob are in range.
LEMMA ZeroInRange ==
    /\ 0 \in Damages /\ 0 \in Odometers /\ 0 \in 0..BaseSlots
    /\ Damages \subseteq Nat /\ Odometers \subseteq Nat
  BY BoundsAreNaturals DEF Damages, Odometers

-----------------------------------------------------------------------------
(* Types.                                                                  *)

\* Every table and every counter starts in its type.
LEMMA RowInvInit == Init => RowInv
<1> SUFFICES ASSUME Init PROVE RowInv
    OBVIOUS
<1>1. NoJob \in Jobs /\ Complete(NoJob)
    BY ZeroInRange
    DEF NoJob, Jobs, Ops, Complete, GarageOps, SlotOps, ReadingOps, TruckOps, Statuses
<1>2. TypeOK
    BY <1>1, BoundsAreNaturals DEF Init, TypeOK, Jobs
<1>3. DOMAIN trucks = {}
    BY DEF Init
<1>4. \A r \in Reqs : job[r] = NoJob
    BY DEF Init
<1> QED
    BY <1>1, <1>2, <1>3, <1>4 DEF RowInv, TypeInv, OwnersDriveTheirTrucks

\* A request that starts changes no table.
LEMMA StartKeepsRows ==
    ASSUME RowInv, NEW r \in Reqs, NEW j \in Jobs, Complete(j), Start(r, j)
    PROVE  RowInv'
<1> USE DEF RowInv, TypeInv
<1>4. job' \in [Reqs -> Jobs]
    BY DEF Start, TypeOK
<1>5. slotsCrossed' \subseteq 1..MaxSlots /\ trucksCrossed' \subseteq 1..MaxTrucks
    BY DEF Start, TypeOK, SlotSaleCrossed, TruckSaleCrossed, Complete, SlotSales, TruckSales,
           WritesOfASale, SlotOps, ReadingOps, TruckOps
<1>6. UNCHANGED fleet
    BY DEF Start
<1>1. TypeOK'
    BY <1>4, <1>5, <1>6 DEF fleet, TypeOK
<1>2. \A q \in Reqs : Complete(job'[q])
    BY DEF Start, TypeOK
<1>3. OwnersDriveTheirTrucks'
    BY DEF Start, fleet, OwnersDriveTheirTrucks
<1> QED
    BY <1>1, <1>2, <1>3

\* What a request has read of the rows it is about to write, as long as
\* nobody else has written them.
Current(j) ==
    /\ j.op = "garage_purchase" =>
            (j.status = BaseSlots <=> SlotsOf(j.garage) = {})
    /\ j.op = "slot_purchase" => SlotsOf(j.garage) # {}
    /\ j.op = "garage_sell" => j.slot \in PricedOf(j.garage) /\ ParkedIn(j.garage) = {}
    /\ j.op = "slot_sell" =>
            j.slot \in DOMAIN slots /\ ~slots[j.slot].base /\ ParkedAt(j.slot) = {}
    /\ j.op \in {"truck_purchase", "relocate"} =>
            FreeSlot(j.slot) /\ slots[j.slot].garage = j.garage
    /\ j.op \in {"truck_purchase", "truck_transfer"} /\ j.status = 1 =>
            \A d \in Users : d \in {j.owner, j.assignee} => ActiveFor(d, j.model) = {}
    /\ j.op \in TruckOps =>
            /\ j.truck \in DOMAIN trucks
            /\ trucks[j.truck].owner \notin Gone
            /\ trucks[j.truck].model = j.model
    /\ j.op \in ReadingOps =>
            trucks[j.truck].owner = j.owner /\ trucks[j.truck].assignee = j.assignee

\* NoJob of a request of this kind, with the columns of the garage or the slot.
LEMMA GarageJobs ==
    ASSUME NEW op \in Ops, NEW g \in Garages, NEW o \in Owners
    PROVE  /\ GarageJob(op, g, o) \in Jobs
           /\ GarageJob(op, g, o).op = op
           /\ GarageJob(op, g, o).garage = g
           /\ GarageJob(op, g, o).owner = o
  BY ZeroInRange DEF Ops, GarageJob, NoJob, Jobs

\* What a request about a slot has read is of its type, field by field.
LEMMA SlotJobs ==
    ASSUME RowInv, NEW op \in Ops, NEW s \in DOMAIN slots, NEW o \in Owners
    PROVE  /\ SlotJob(op, s, o) \in Jobs
           /\ SlotJob(op, s, o).op = op
           /\ SlotJob(op, s, o).slot = s
           /\ SlotJob(op, s, o).garage = slots[s].garage
           /\ SlotJob(op, s, o).owner = o
           /\ slots[s] \in SlotRows /\ s \in 1..MaxSlots
<1>1. slots[s] \in SlotRows /\ s \in 1..MaxSlots
    BY BoundsAreNaturals DEF RowInv, TypeInv, TypeOK
<1> QED
    BY <1>1, ZeroInRange DEF SlotJob, NoJob, Jobs, SlotRows

\* A job of which the owner, the assignee and the status were given.
LEMMA JobsGiven ==
    ASSUME NEW x \in Jobs, NEW b \in Owners \union Gone \union {None},
           NEW c \in Users \union {None}, NEW n \in Statuses \union 0..BaseSlots
    PROVE  [x EXCEPT !.owner = b, !.assignee = c, !.status = n] \in Jobs
<1>. DEFINE y == [x EXCEPT !.owner = b, !.assignee = c, !.status = n]
            A == Garages \union {None}   B == 1..MaxSlots \union {None}
            C == 1..MaxTrucks \union {None}   D == Models \union {None}
            E == Owners \union Gone \union {None}   F == Users \union {None}
            G == Statuses \union 0..BaseSlots
            Typed(z) == z \in [op : Ops, garage : A, slot : B, truck : C, model : D, owner : E,
                               assignee : F, status : G, damage : Damages, odometer : Odometers]
<1>1. Typed(x) /\ b \in E /\ c \in F /\ n \in G
    BY DEF Jobs
<1>2. Typed(y)
    <2>. HIDE DEF A, B, C, D, E, F, G
    <2>. QED BY <1>1
<1>. QED BY <1>2 DEF Jobs

\* So is what a request about a truck has read.
LEMMA TruckJobs ==
    ASSUME RowInv, NEW op \in Ops, NEW v \in DOMAIN trucks
    PROVE  /\ TruckJob(op, v) \in Jobs
           /\ TruckJob(op, v).op = op
           /\ TruckJob(op, v).truck = v
           /\ TruckJob(op, v).model = trucks[v].model
           /\ TruckJob(op, v).owner = trucks[v].owner
           /\ TruckJob(op, v).assignee = trucks[v].assignee
           /\ trucks[v] \in TruckRows /\ v \in 1..MaxTrucks
<1>1. trucks[v] \in TruckRows /\ v \in 1..MaxTrucks
    BY BoundsAreNaturals DEF RowInv, TypeInv, TypeOK
<1> QED
    BY <1>1, ZeroInRange DEF TruckJob, NoJob, Jobs, TruckRows

\* A request about a garage starts complete, with what the rows say.
LEMMA GarageStarts ==
    ASSUME RowInv, NEW r \in Reqs, NEW c \in members, NEW g \in Garages,
           \/ StartGaragePurchase(r, c, g) \/ StartSlotPurchase(r, c, g)
           \/ StartGarageTransfer(r, c, g) \/ StartGarageSell(r, c, g)
    PROVE  \E j \in Jobs : Complete(j) /\ Current(j) /\ Start(r, j)
<1>1. /\ Buyers(c) \subseteq Owners /\ BaseSlots \in 1..BaseSlots
      /\ BaseSlots \in 0..BaseSlots
    BY BoundsAreNaturals DEF Buyers, Owners
<1>2. CASE StartGaragePurchase(r, c, g)
  <2>1. PICK o \in Owners : Start(r, [GarageJob("garage_purchase", g, o) EXCEPT !.status = BaseSlots])
      BY <1>1, <1>2 DEF StartGaragePurchase
  <2> DEFINE j == [GarageJob("garage_purchase", g, o) EXCEPT !.status = BaseSlots]
  <2>2. /\ j \in Jobs /\ j.op = "garage_purchase" /\ j.garage = g /\ j.owner = o
        /\ j.status = BaseSlots
      BY <1>1, GarageJobs DEF Jobs, Ops
  <2>3. Complete(j)
      BY <1>1, <2>2 DEF Complete, GarageOps, SlotOps, ReadingOps, TruckOps
  <2>4. Current(j)
      BY <1>2, <2>2 DEF StartGaragePurchase, Current, ReadingOps, TruckOps
  <2> QED
      BY <2>1, <2>2, <2>3, <2>4
<1>3. CASE StartSlotPurchase(r, c, g)
  <2>1. PICK o \in Owners : Start(r, GarageJob("slot_purchase", g, o))
      BY <1>1, <1>3 DEF StartSlotPurchase
  <2> DEFINE j == GarageJob("slot_purchase", g, o)
  <2>2. j \in Jobs /\ j.op = "slot_purchase" /\ j.garage = g /\ j.owner = o
      BY GarageJobs DEF Ops
  <2> HIDE DEF j
  <2>3. Complete(j)
      BY <2>2 DEF Complete, GarageOps, SlotOps, ReadingOps, TruckOps
  <2>4. Current(j)
      BY <1>3, <2>2 DEF StartSlotPurchase, Current, ReadingOps, TruckOps
  <2> QED
      BY <2>1, <2>2, <2>3, <2>4 DEF j
<1>4. CASE StartGarageTransfer(r, c, g)
  <2>1. PICK o \in Owners : Start(r, GarageJob("garage_transfer", g, o))
      BY <1>4 DEF StartGarageTransfer
  <2> DEFINE j == GarageJob("garage_transfer", g, o)
  <2>2. j \in Jobs /\ j.op = "garage_transfer" /\ j.garage = g /\ j.owner = o
      BY GarageJobs DEF Ops
  <2> HIDE DEF j
  <2>3. Complete(j) /\ Current(j)
      BY <2>2 DEF Complete, Current, GarageOps, SlotOps, ReadingOps, TruckOps
  <2> QED
      BY <2>1, <2>2, <2>3 DEF j
<1>5. CASE StartGarageSell(r, c, g)
  <2>1. PICK s \in PricedOf(g) : /\ ParkedIn(g) = {}
                                 /\ Start(r, SlotJob("garage_sell", s, slots[s].owner))
      BY <1>5 DEF StartGarageSell
  <2>2. s \in DOMAIN slots /\ slots[s].garage = g /\ slots[s].owner \in Owners
      BY DEF PricedOf, BaseOf, SlotsOf, RowInv, TypeInv, TypeOK, SlotRows
  <2> DEFINE j == SlotJob("garage_sell", s, slots[s].owner)
  <2>3. /\ j \in Jobs /\ j.op = "garage_sell" /\ j.garage = g /\ j.slot = s
        /\ j.owner \in Owners /\ s \in 1..MaxSlots
      BY <2>2, SlotJobs DEF Ops
  <2> HIDE DEF j
  <2>4. Complete(j)
      BY <2>3 DEF Complete, GarageOps, SlotOps, ReadingOps, TruckOps
  <2>5. Current(j)
      BY <2>1, <2>3 DEF Current, ReadingOps, TruckOps
  <2> QED
      BY <2>1, <2>3, <2>4, <2>5 DEF j
<1> QED
    BY <1>2, <1>3, <1>4, <1>5

\* A truck that is given to its driver as active conflicts with no other.
LEMMA NoConflict ==
    ASSUME NEW o \in Owners, NEW a \in Assignees(o), NEW m
    PROVE  /\ StatusFor(o, a, m) \in {0, 1}
           /\ a \in Users \union {None} /\ (o \in Users => a = o)
           /\ StatusFor(o, a, m) = 1 =>
                \A d \in Users : d \in {o, a} => ActiveFor(d, m) = {}
<1>1. StatusFor(o, a, m) \in {0, 1}
    BY DEF StatusFor
<1>2. a \in Users \union {None} /\ (o \in Users => a = o)
    BY OwnersDiffer DEF Assignees, Owners
<1>3. ASSUME StatusFor(o, a, m) = 1, NEW d \in Users, d \in {o, a}
      PROVE  ActiveFor(d, m) = {}
  <2>1. d # None /\ d # Company
      BY OwnersDiffer
  <2>2. d = DriverOf(o, a)
      BY <1>2, <1>3, <2>1 DEF DriverOf, Owners
  <2> QED
      BY <1>3, <2>1, <2>2 DEF StatusFor
<1> QED
    BY <1>1, <1>2, <1>3

\* So does one about a slot.
LEMMA SlotStarts ==
    ASSUME RowInv, NEW r \in Reqs, NEW c \in members, NEW s \in DOMAIN slots,
           \/ StartSlotTransfer(r, c, s) \/ StartSlotSell(r, c, s)
           \/ \E m \in Models : StartTruckPurchase(r, c, m, s)
    PROVE  \E j \in Jobs : Complete(j) /\ Current(j) /\ Start(r, j)
<1>1. Buyers(c) \subseteq Owners
    BY DEF Buyers, Owners
<1>2. s \in 1..MaxSlots /\ slots[s].garage \in Garages /\ slots[s].owner \in Owners
    BY BoundsAreNaturals DEF RowInv, TypeInv, TypeOK, SlotRows
<1>3. CASE StartSlotTransfer(r, c, s)
  <2>1. PICK o \in Owners : Start(r, SlotJob("slot_transfer", s, o))
      BY <1>3 DEF StartSlotTransfer
  <2> DEFINE j == SlotJob("slot_transfer", s, o)
  <2>2. /\ j \in Jobs /\ j.op = "slot_transfer" /\ j.slot = s
        /\ j.garage \in Garages /\ j.owner = o
      BY <1>2, SlotJobs DEF Ops
  <2> HIDE DEF j
  <2>3. Complete(j) /\ Current(j)
      BY <1>2, <2>2 DEF Complete, Current, GarageOps, SlotOps, ReadingOps, TruckOps
  <2> QED
      BY <2>1, <2>2, <2>3 DEF j
<1>4. CASE StartSlotSell(r, c, s)
  <2> DEFINE j == SlotJob("slot_sell", s, slots[s].owner)
  <2>1. /\ j \in Jobs /\ j.op = "slot_sell" /\ j.slot = s
        /\ j.garage \in Garages /\ j.owner \in Owners
      BY <1>2, SlotJobs DEF Ops
  <2> HIDE DEF j
  <2>2. Complete(j)
      BY <1>2, <2>1 DEF Complete, GarageOps, SlotOps, ReadingOps, TruckOps
  <2>3. Current(j)
      BY <1>4, <2>1 DEF StartSlotSell, Current, ReadingOps, TruckOps
  <2> QED
      BY <1>4, <2>1, <2>2, <2>3 DEF j, StartSlotSell
<1>5. CASE \E m \in Models : StartTruckPurchase(r, c, m, s)
  <2>1. PICK m \in Models, o \in Owners : \E a \in Assignees(o) :
            /\ FreeSlot(s)
            /\ Start(r, [SlotJob("truck_purchase", s, o)
                            EXCEPT !.model = m, !.assignee = a, !.status = StatusFor(o, a, m)])
      BY <1>1, <1>5 DEF StartTruckPurchase
  <2>6. PICK a \in Assignees(o) :
            /\ FreeSlot(s)
            /\ Start(r, [SlotJob("truck_purchase", s, o)
                            EXCEPT !.model = m, !.assignee = a, !.status = StatusFor(o, a, m)])
      BY <2>1
  <2> DEFINE j == [SlotJob("truck_purchase", s, o)
                    EXCEPT !.model = m, !.assignee = a, !.status = StatusFor(o, a, m)]
  <2>2. StatusFor(o, a, m) \in {0, 1} /\ a \in Users \union {None}
      BY NoConflict
  <2>3. /\ j \in Jobs /\ j.op = "truck_purchase" /\ j.slot = s
        /\ j.garage = slots[s].garage /\ j.owner = o /\ j.model = m
        /\ j.assignee = a /\ j.status = StatusFor(o, a, m)
    <3> DEFINE k == SlotJob("truck_purchase", s, o)
    <3>1. k \in Jobs /\ k.op = "truck_purchase" /\ k.slot = s
          /\ k.garage = slots[s].garage /\ k.owner = o
        BY SlotJobs DEF Ops
    <3> HIDE DEF k
    <3>2. j = [k EXCEPT !.model = m, !.assignee = a, !.status = StatusFor(o, a, m)]
        BY DEF k
    <3> QED
        BY <2>2, <3>1, <3>2 DEF Jobs, Statuses
  <2> HIDE DEF j
  <2>4. Complete(j)
      BY <1>2, <2>3, NoConflict DEF Complete, GarageOps, SlotOps, ReadingOps, TruckOps
  <2>5. Current(j)
      BY <2>6, <2>3, NoConflict DEF Current, ReadingOps, TruckOps
  <2> QED
      BY <2>6, <2>3, <2>4, <2>5 DEF j
<1> QED
    BY <1>3, <1>4, <1>5

\* A request about a truck of the fleet: with the columns of its row.
LEMMA ReadsATruck ==
    ASSUME RowInv, NEW op \in ReadingOps \ {"relocate"}, NEW v \in DOMAIN trucks
    PROVE  /\ TruckJob(op, v) \in Jobs /\ Complete(TruckJob(op, v))
           /\ trucks[v].owner \notin Gone => Current(TruckJob(op, v))
<1> DEFINE j == TruckJob(op, v)
<1>1. /\ j \in Jobs /\ j.op = op /\ j.truck = v /\ j.model = trucks[v].model
      /\ j.owner = trucks[v].owner /\ j.assignee = trucks[v].assignee
      /\ trucks[v] \in TruckRows /\ v \in 1..MaxTrucks
    BY TruckJobs DEF Ops, ReadingOps
<1> HIDE DEF j
<1>2. Complete(j)
    BY <1>1 DEF Complete, GarageOps, SlotOps, ReadingOps, TruckOps, TruckRows
<1>3. trucks[v].owner \notin Gone => Current(j)
    BY <1>1 DEF Current, ReadingOps, TruckOps
<1> QED
    BY <1>1, <1>2, <1>3 DEF j

\* So does one about a truck.
LEMMA TruckStarts ==
    ASSUME RowInv, NEW r \in Reqs, NEW c \in members, NEW v \in DOMAIN trucks,
           \/ StartTruckTransfer(r, c, v) \/ StartRelocate(r, c, v)
           \/ StartActivate(r, c, v) \/ StartDeactivate(r, c, v)
           \/ StartRepair(r, c, v) \/ StartTruckSell(r, c, v) \/ StartScrap(r, c, v)
    PROVE  \E j \in Jobs : Complete(j) /\ Current(j) /\ Start(r, j)
<1>1. trucks[v] \in TruckRows /\ v \in 1..MaxTrucks
    BY BoundsAreNaturals DEF RowInv, TypeInv, TypeOK
<1>2. CASE StartTruckTransfer(r, c, v)
  <2> DEFINE J(o, a) == [TruckJob("truck_transfer", v)
                            EXCEPT !.owner = o, !.assignee = a,
                                   !.status = StatusFor(o, a, trucks[v].model)]
  <2>6. PICK o \in Owners : \E a \in Assignees(o) :
            trucks[v].owner \notin Gone /\ Start(r, J(o, a))
      BY <1>2 DEF StartTruckTransfer, MayModifyTruck
  <2>1. PICK a \in Assignees(o) : trucks[v].owner \notin Gone /\ Start(r, J(o, a))
      BY <2>6
  <2>2. StatusFor(o, a, trucks[v].model) \in {0, 1} /\ a \in Users \union {None}
      BY NoConflict
  <2> DEFINE j == J(o, a)
  <2>3. /\ j \in Jobs /\ j.op = "truck_transfer" /\ j.truck = v
        /\ j.owner = o /\ j.model = trucks[v].model
        /\ j.assignee = a /\ j.status = StatusFor(o, a, trucks[v].model)
    <3> DEFINE k == TruckJob("truck_transfer", v)
    <3>1. k \in Jobs /\ k.op = "truck_transfer" /\ k.truck = v /\ k.model = trucks[v].model
        BY TruckJobs DEF Ops
    <3> HIDE DEF k
    <3>2. j = [k EXCEPT !.owner = o, !.assignee = a,
                        !.status = StatusFor(o, a, trucks[v].model)]
        BY DEF k
    <3>3. StatusFor(o, a, trucks[v].model) \in Statuses \union 0..BaseSlots
        BY <2>2 DEF Statuses
    <3>4. o \in Owners \union Gone \union {None} /\ a \in Users \union {None}
        BY <2>2
    <3> DEFINE st == StatusFor(o, a, trucks[v].model)
    <3> HIDE DEF j, st
    <3>5. j = [k EXCEPT !.owner = o, !.assignee = a, !.status = st]
        BY <3>2 DEF st
    <3>6. j \in Jobs
        <4>1. st \in Statuses \union 0..BaseSlots
            BY <3>3 DEF st
        <4> QED
            BY <3>1, <3>4, <3>5, <4>1, JobsGiven
    <3>7. /\ j.op = k.op /\ j.truck = k.truck /\ j.model = k.model
          /\ j.owner = o /\ j.assignee = a /\ j.status = st
        BY <3>1, <3>5 DEF Jobs
    <3> QED
        BY <3>1, <3>6, <3>7 DEF st
  <2> HIDE DEF j
  <2>4. Complete(j)
      BY <1>1, <2>3, NoConflict
      DEF Complete, GarageOps, SlotOps, ReadingOps, TruckOps, TruckRows
  <2>5. Current(j)
      BY <2>1, <2>3, NoConflict DEF Current, ReadingOps, TruckOps
  <2> QED
      BY <2>1, <2>3, <2>4, <2>5 DEF j
<1>3. CASE StartRelocate(r, c, v)
  <2> DEFINE J(s) == [TruckJob("relocate", v) EXCEPT !.slot = s, !.garage = slots[s].garage]
  <2>1. PICK s \in DOMAIN slots :
            trucks[v].owner \notin Gone /\ FreeSlot(s) /\ Start(r, J(s))
      BY <1>3 DEF StartRelocate, MayModifyTruck
  <2>2. s \in 1..MaxSlots /\ slots[s].garage \in Garages
      BY BoundsAreNaturals DEF RowInv, TypeInv, TypeOK, SlotRows
  <2> DEFINE j == J(s)
  <2>3. /\ j \in Jobs /\ j.op = "relocate" /\ j.truck = v
        /\ j.slot = s /\ j.garage = slots[s].garage /\ j.model = trucks[v].model
        /\ j.owner = trucks[v].owner /\ j.assignee = trucks[v].assignee
    <3> DEFINE k == TruckJob("relocate", v)
    <3>1. k \in Jobs /\ k.op = "relocate" /\ k.truck = v /\ k.model = trucks[v].model
          /\ k.owner = trucks[v].owner /\ k.assignee = trucks[v].assignee
        BY TruckJobs DEF Ops
    <3> HIDE DEF k
    <3>2. j = [k EXCEPT !.slot = s, !.garage = slots[s].garage]
        BY DEF k
    <3> QED
        BY <2>2, <3>1, <3>2 DEF Jobs
  <2> HIDE DEF j
  <2>4. Complete(j)
      BY <1>1, <2>2, <2>3 DEF Complete, GarageOps, SlotOps, ReadingOps, TruckOps, TruckRows
  <2>5. Current(j)
      BY <2>1, <2>3 DEF Current, ReadingOps, TruckOps
  <2> QED
      BY <2>1, <2>3, <2>4, <2>5 DEF j
<1>4. CASE \/ StartActivate(r, c, v) \/ StartDeactivate(r, c, v)
           \/ StartRepair(r, c, v) \/ StartTruckSell(r, c, v) \/ StartScrap(r, c, v)
  <2>1. PICK op \in ReadingOps \ {"relocate"} :
            trucks[v].owner \notin Gone /\ Start(r, TruckJob(op, v))
      BY <1>4 DEF ReadingOps, StartActivate, StartDeactivate, StartRepair,
                  StartTruckSell, StartScrap, MayModifyTruck
  <2> QED
      BY <2>1, ReadsATruck
<1> QED
    BY <1>2, <1>3, <1>4

\* A truck that was sold or scrapped is parked nowhere and is not active.
DisposedRest ==
    \A v \in DOMAIN trucks :
        trucks[v].owner \in Gone => trucks[v].slot = None /\ trucks[v].status # 1

\* Every request that starts is complete and has read the rows as they are.
LEMMA StartsAreCurrent ==
    ASSUME RowInv, NEW r \in Reqs, NEW c \in members, StartSomething(r, c)
    PROVE  \E j \in Jobs : /\ Complete(j) /\ Start(r, j)
                          /\ ((DisposedRest \/ j.op # "delivery") => Current(j))
                          /\ (j.op = "delivery" => j.truck \in DOMAIN trucks)
<1>1. CASE \E m \in Models : StartDelivery(r, c, m)
  <2>1. PICK m \in Models : StartDelivery(r, c, m)
      BY <1>1
  <2>4. PICK v \in ActiveFor(c, m) : Start(r, TruckJob("delivery", v))
      BY <2>1 DEF StartDelivery
  <2>2. v \in DOMAIN trucks
      BY DEF ActiveFor
  <2>3. DisposedRest => trucks[v].owner \notin Gone
      BY DEF DisposedRest, ActiveFor
  <2>5. TruckJob("delivery", v).op = "delivery" /\ TruckJob("delivery", v).truck = v
      BY <2>2, TruckJobs DEF Ops
  <2> QED
      BY <2>2, <2>3, <2>4, <2>5, ReadsATruck DEF ReadingOps
<1>2. CASE StartLeave(r, c)
  <2> DEFINE j == [NoJob EXCEPT !.op = "leave", !.owner = c]
  <2>1. c \in Users
      BY DEF RowInv, TypeInv, TypeOK
  <2>2. j \in Jobs /\ j.op = "leave" /\ j.owner = c
      BY <2>1, ZeroInRange DEF Jobs, NoJob, Ops, Owners
  <2> HIDE DEF j
  <2>3. Complete(j) /\ Current(j)
      BY <2>1, <2>2 DEF Complete, Current, GarageOps, SlotOps, ReadingOps, TruckOps
  <2> QED
      BY <1>2, <2>2, <2>3 DEF j, StartLeave
<1>3. ASSUME NEW j \in Jobs, Current(j), j.op = "delivery" PROVE j.truck \in DOMAIN trucks
    BY <1>3 DEF Current, TruckOps, ReadingOps
<1>4. CASE \E j \in Jobs : Complete(j) /\ Current(j) /\ Start(r, j)
    BY <1>3, <1>4
<1> QED
    BY <1>1, <1>2, <1>4, GarageStarts, SlotStarts, TruckStarts DEF StartSomething

-----------------------------------------------------------------------------
(* What the writes do to the tables, whatever requests run beside them.     *)

SlotsTyped ==
    /\ nextSlot \in 1..MaxSlots + 1
    /\ DOMAIN slots \subseteq 1..nextSlot - 1
    /\ \A s \in DOMAIN slots : slots[s] \in SlotRows
    /\ slotRefunds \in [1..MaxSlots -> 0..2]

TrucksTyped ==
    /\ nextTruck \in 1..MaxTrucks + 1
    /\ DOMAIN trucks \subseteq 1..nextTruck - 1
    /\ \A v \in DOMAIN trucks : trucks[v] \in TruckRows
    /\ truckRefunds \in [1..MaxTrucks -> 0..2]

JobsTyped ==
    /\ job \in [Reqs -> Jobs] /\ \A r \in Reqs : Complete(job[r])
    /\ slotsCrossed \subseteq 1..MaxSlots /\ trucksCrossed \subseteq 1..MaxTrucks

\* The row invariant by table.
LEMMA RowInvParts ==
    RowInv <=> /\ members \subseteq Users /\ SlotsTyped /\ TrucksTyped /\ JobsTyped
               /\ OwnersDriveTheirTrucks
  BY DEF RowInv, TypeInv, TypeOK, SlotsTyped, TrucksTyped, JobsTyped

\* The parts that the actions are shown to keep make up the invariant.
LEMMA RowInvPartsNext ==
    ASSUME members' \subseteq Users, SlotsTyped', TrucksTyped', JobsTyped',
           OwnersDriveTheirTrucks'
    PROVE  RowInv'
  BY DEF RowInv, TypeInv, TypeOK, SlotsTyped, TrucksTyped, JobsTyped

\* A request that is over leaves no job.
LEMMA EndKeepsJobs ==
    ASSUME RowInv, NEW r \in Reqs, End(r)
    PROVE  JobsTyped'
<1>1. NoJob \in Jobs /\ Complete(NoJob)
    BY ZeroInRange
    DEF NoJob, Jobs, Ops, Complete, GarageOps, SlotOps, ReadingOps, TruckOps, Statuses
<1> QED
    BY <1>1, RowInvParts DEF JobsTyped, End

\* The tables without a change.
LEMMA SlotsKept ==
    ASSUME SlotsTyped, UNCHANGED <<slots, nextSlot, slotRefunds>>
    PROVE  SlotsTyped'
  BY DEF SlotsTyped

\* What leaves the trucks as they are keeps what is said of them.
LEMMA TrucksKept ==
    ASSUME TrucksTyped, OwnersDriveTheirTrucks, UNCHANGED <<trucks, nextTruck, truckRefunds>>
    PROVE  TrucksTyped' /\ OwnersDriveTheirTrucks'
  BY DEF TrucksTyped, OwnersDriveTheirTrucks

\* A slot is inserted under the next id.
LEMMA InsertSlotTyped ==
    ASSUME RowInv, NEW g \in Garages, NEW o \in Owners, NEW base \in BOOLEAN,
           NEW priced \in BOOLEAN, InsertSlot(g, o, base, priced)
    PROVE  SlotsTyped'
<1> DEFINE row == [garage |-> g, owner |-> o, base |-> base, priced |-> priced]
<1>1. row \in SlotRows
    BY DEF SlotRows
<1>2. DOMAIN slots' = DOMAIN slots \union {nextSlot}
      /\ \A s \in DOMAIN slots' : slots'[s] = IF s = nextSlot THEN row ELSE slots[s]
    BY DEF InsertSlot, Stored
<1>3. nextSlot' = nextSlot + 1 /\ nextSlot <= MaxSlots /\ slotRefunds' = slotRefunds
    BY DEF InsertSlot
<1> HIDE DEF row
<1> QED
    BY <1>1, <1>2, <1>3, RowInvParts, BoundsAreNaturals DEF SlotsTyped

\* An UPDATE of the owner of some slots.
LEMMA SetOwnerTyped ==
    ASSUME RowInv, NEW S, NEW o \in Owners, SetOwner(S, o),
           UNCHANGED <<nextSlot, slotRefunds>>
    PROVE  SlotsTyped'
<1>1. /\ DOMAIN slots' = DOMAIN slots
      /\ \A s \in DOMAIN slots :
            slots'[s] = IF s \in S THEN [slots[s] EXCEPT !.owner = o] ELSE slots[s]
    BY DEF SetOwner
<1>2. ASSUME NEW row \in SlotRows PROVE [row EXCEPT !.owner = o] \in SlotRows
    BY DEF SlotRows
<1> QED
    BY <1>1, <1>2, RowInvParts DEF SlotsTyped

\* A DELETE of slots, with a refund.
LEMMA DeleteSlotsTyped ==
    ASSUME RowInv, NEW r \in Reqs, NEW S, DeleteSlots(r, S), job[r].slot \in 1..MaxSlots
    PROVE  SlotsTyped'
<1>1. /\ DOMAIN slots' = DOMAIN slots \ S
      /\ \A s \in DOMAIN slots' : slots'[s] = slots[s]
    BY DEF DeleteSlots, Removed, Restrict
<1>2. nextSlot' = nextSlot
      /\ slotRefunds' = [slotRefunds EXCEPT ![job[r].slot] = Counted(@)]
    BY DEF DeleteSlots
<1>3. \A n \in 0..2 : Counted(n) \in 0..2
    BY DEF Counted
<1> QED
    BY <1>1, <1>2, <1>3, RowInvParts DEF SlotsTyped

\* An UPDATE of one truck by a row in range.
LEMMA SetTruckTyped ==
    ASSUME RowInv, NEW r \in Reqs, NEW row, SetTruck(r, row),
           job[r].truck \in DOMAIN trucks =>
                /\ row \in TruckRows
                /\ row.owner \in Users => row.assignee = row.owner,
           truckRefunds' \in [1..MaxTrucks -> 0..2]
    PROVE  TrucksTyped' /\ OwnersDriveTheirTrucks'
<1>1. /\ DOMAIN trucks' = DOMAIN trucks
      /\ \A v \in DOMAIN trucks :
            trucks'[v] = IF v = job[r].truck THEN row ELSE trucks[v]
    BY DEF SetTruck
<1>2. nextTruck' = nextTruck
    BY DEF SetTruck
<1> QED
    BY <1>1, <1>2, RowInvParts DEF TrucksTyped, OwnersDriveTheirTrucks

\* The same for a request that does nothing else.
LEMMA SetTruckKeepsRows ==
    ASSUME RowInv, NEW r \in Reqs, NEW row, SetTruck(r, row),
           job[r].truck \in DOMAIN trucks =>
                /\ row \in TruckRows
                /\ row.owner \in Users => row.assignee = row.owner,
           truckRefunds' \in [1..MaxTrucks -> 0..2]
    PROVE  RowInv'
<1>1. TrucksTyped' /\ OwnersDriveTheirTrucks'
    BY SetTruckTyped
<1>2. members' = members /\ SlotsTyped' /\ JobsTyped'
    BY SlotsKept, EndKeepsJobs, RowInvParts DEF SetTruck
<1> QED
    BY <1>1, <1>2, RowInvParts, RowInvPartsNext

\* The ranges of a truck's columns.
LEMMA TruckColumns ==
    ASSUME NEW t \in TruckRows
    PROVE  /\ t.owner \in Owners \union Gone /\ t.assignee \in Users \union {None}
           /\ t.status \in Statuses /\ t.damage \in Damages /\ t.odometer \in Odometers
           /\ \A o \in Owners, a \in Users \union {None}, s \in Statuses :
                [t EXCEPT !.owner = o, !.assignee = a, !.status = s] \in TruckRows
           /\ \A s \in 1..MaxSlots, g \in Garages :
                [t EXCEPT !.slot = s, !.garage = g] \in TruckRows
           /\ \A s \in Statuses : [t EXCEPT !.status = s] \in TruckRows
           /\ \A s \in Statuses : [t EXCEPT !.damage = 0, !.status = s] \in TruckRows
           /\ \A o \in Gone :
                [t EXCEPT !.owner = o, !.status = 0, !.slot = None, !.garage = None] \in TruckRows
           /\ \A d \in Damages, m \in Odometers, s \in Statuses :
                [t EXCEPT !.damage = d, !.odometer = m, !.status = s] \in TruckRows
<1>1. /\ t.owner \in Owners \union Gone /\ t.assignee \in Users \union {None}
      /\ t.status \in Statuses /\ t.damage \in Damages /\ t.odometer \in Odometers
    BY DEF TruckRows
<1>2. /\ \A o \in Owners, a \in Users \union {None}, s \in Statuses :
            [t EXCEPT !.owner = o, !.assignee = a, !.status = s] \in TruckRows
      /\ \A s \in 1..MaxSlots, g \in Garages :
            [t EXCEPT !.slot = s, !.garage = g] \in TruckRows
    BY DEF TruckRows
<1>3. 0 \in Statuses /\ 0 \in Damages
    BY ZeroInRange DEF Statuses
<1>4. /\ \A s \in Statuses : [t EXCEPT !.status = s] \in TruckRows
      /\ \A s \in Statuses : [t EXCEPT !.damage = 0, !.status = s] \in TruckRows
      /\ \A d \in Damages, m \in Odometers, s \in Statuses :
            [t EXCEPT !.damage = d, !.odometer = m, !.status = s] \in TruckRows
    BY <1>3 DEF TruckRows
<1>5. \A o \in Gone :
            [t EXCEPT !.owner = o, !.status = 0, !.slot = None, !.garage = None] \in TruckRows
    BY <1>3 DEF TruckRows
<1> QED
    BY <1>1, <1>2, <1>4, <1>5

\* No write of a garage's or a slot's request breaks a type.
LEMMA SlotWritesKeepRows ==
    ASSUME RowInv, NEW r \in Reqs,
           \/ GaragePurchase(r) \/ SlotPurchase(r) \/ GarageTransfer(r)
           \/ SlotTransfer(r) \/ GarageSell(r) \/ SlotSell(r)
    PROVE  RowInv'
<1> DEFINE j == job[r]
<1>1. j \in Jobs /\ Complete(j)
    BY RowInvParts DEF JobsTyped
<1>2. ASSUME SlotsTyped', JobsTyped', UNCHANGED <<members, trucks, nextTruck, truckRefunds>>
      PROVE  RowInv'
    BY <1>2, TrucksKept, RowInvParts, RowInvPartsNext
<1>3. CASE GaragePurchase(r)
  <2>1. j.garage \in Garages /\ j.owner \in Owners /\ j.status \in 1..BaseSlots
      BY <1>1, <1>3 DEF GaragePurchase, Complete, GarageOps
  <2>2. InsertSlot(j.garage, j.owner, TRUE, j.status = BaseSlots)
      BY <1>3 DEF GaragePurchase
  <2>3. SlotsTyped'
      BY <2>1, <2>2, InsertSlotTyped
  <2>4. CASE j.status = 1
    <3>1. JobsTyped'
        BY <1>3, <2>4, EndKeepsJobs DEF GaragePurchase
    <3> QED
        BY <1>2, <2>2, <2>3, <3>1 DEF InsertSlot
  <2>5. CASE j.status # 1
    <3> DEFINE k == [j EXCEPT !.status = j.status - 1]
    <3>1. job' = [job EXCEPT ![r] = k]
        BY <1>3, <2>5 DEF GaragePurchase
    <3>2. k \in Jobs /\ k.op = "garage_purchase" /\ k.garage = j.garage
          /\ k.owner = j.owner /\ k.status \in 1..BaseSlots
        BY <1>1, <1>3, <2>1, <2>5, BoundsAreNaturals DEF GaragePurchase, Jobs
    <3>3. Complete(k)
        BY <2>1, <3>2 DEF Complete, GarageOps, SlotOps, ReadingOps, TruckOps
    <3> HIDE DEF k
    <3>4. JobsTyped'
        BY <1>3, <2>5, <3>1, <3>2, <3>3, RowInvParts DEF JobsTyped, GaragePurchase
    <3> QED
        BY <1>2, <2>2, <2>3, <3>4 DEF InsertSlot
  <2> QED
      BY <2>4, <2>5
<1>4. CASE SlotPurchase(r)
  <2>1. j.garage \in Garages /\ j.owner \in Owners
      BY <1>1, <1>4 DEF SlotPurchase, Complete, GarageOps
  <2>2. InsertSlot(j.garage, j.owner, FALSE, TRUE) /\ End(r)
      BY <1>4 DEF SlotPurchase
  <2>3. SlotsTyped' /\ JobsTyped'
      BY <2>1, <2>2, InsertSlotTyped, EndKeepsJobs
  <2> QED
      BY <1>2, <2>2, <2>3 DEF InsertSlot
<1>5. CASE GarageTransfer(r)
  <2>1. j.owner \in Owners /\ SetOwner(BaseOf(j.garage), j.owner)
      BY <1>1, <1>5 DEF GarageTransfer, Complete, GarageOps
  <2>2. SlotsTyped' /\ JobsTyped'
      BY <1>5, <2>1, SetOwnerTyped, EndKeepsJobs DEF GarageTransfer
  <2> QED
      BY <1>2, <1>5, <2>2 DEF GarageTransfer
<1>6. CASE SlotTransfer(r)
  <2>1. j.owner \in Owners /\ SetOwner({j.slot} \intersect DOMAIN slots, j.owner)
      BY <1>1, <1>6 DEF SlotTransfer, Complete, SlotOps
  <2>2. SlotsTyped' /\ JobsTyped'
      BY <1>6, <2>1, SetOwnerTyped, EndKeepsJobs DEF SlotTransfer
  <2> QED
      BY <1>2, <1>6, <2>2 DEF SlotTransfer
<1>7. CASE GarageSell(r) \/ SlotSell(r)
  <2>1. PICK S : DeleteSlots(r, S)
      BY <1>7 DEF GarageSell, SlotSell
  <2>2. j.slot \in 1..MaxSlots
      BY <1>1, <1>7 DEF GarageSell, SlotSell, Complete, SlotOps
  <2>3. SlotsTyped' /\ JobsTyped'
      BY <2>1, <2>2, DeleteSlotsTyped, EndKeepsJobs DEF DeleteSlots
  <2> QED
      BY <1>2, <2>1, <2>3 DEF DeleteSlots
<1> QED
    BY <1>3, <1>4, <1>5, <1>6, <1>7

\* A truck that is bought has its columns from the request.
LEMMA TruckPurchaseKeepsRows ==
    ASSUME RowInv, NEW r \in Reqs, TruckPurchase(r)
    PROVE  RowInv'
<1> DEFINE j == job[r]
           row == [model |-> j.model, garage |-> j.garage, slot |-> j.slot,
                   owner |-> j.owner, assignee |-> j.assignee, status |-> j.status,
                   damage |-> 0, odometer |-> 0]
<1>1. j \in Jobs /\ Complete(j) /\ j.op = "truck_purchase"
    BY RowInvParts DEF JobsTyped, TruckPurchase
<1>2. /\ j.garage \in Garages /\ j.slot \in 1..MaxSlots /\ j.model \in Models
      /\ j.owner \in Owners /\ j.status \in {0, 1} /\ j.assignee \in Users \union {None}
      /\ j.owner \in Users => j.assignee = j.owner
    BY <1>1 DEF Complete, SlotOps, Jobs
<1>3. row \in TruckRows /\ (row.owner \in Users => row.assignee = row.owner)
    BY <1>2, ZeroInRange DEF TruckRows, Statuses
<1>4. /\ DOMAIN trucks' = DOMAIN trucks \union {nextTruck}
      /\ \A v \in DOMAIN trucks' : trucks'[v] = IF v = nextTruck THEN row ELSE trucks[v]
    BY DEF TruckPurchase, Stored
<1>5. nextTruck' = nextTruck + 1 /\ nextTruck <= MaxTrucks /\ truckRefunds' = truckRefunds
    BY DEF TruckPurchase
<1> HIDE DEF row
<1>6. TrucksTyped' /\ OwnersDriveTheirTrucks'
    BY <1>3, <1>4, <1>5, RowInvParts, BoundsAreNaturals
    DEF TrucksTyped, OwnersDriveTheirTrucks
<1>7. members' = members /\ SlotsTyped' /\ JobsTyped'
    BY SlotsKept, EndKeepsJobs, RowInvParts DEF TruckPurchase
<1> QED
    BY <1>6, <1>7, RowInvParts, RowInvPartsNext

\* No UPDATE of a truck breaks a type: it keeps the owner together with the
\* assignee, or writes both.
LEMMA TruckWritesKeepRows ==
    ASSUME RowInv, NEW r \in Reqs,
           \/ TruckTransfer(r) \/ Relocate(r) \/ Deactivate(r) \/ Repair(r)
           \/ TruckSell(r) \/ Scrap(r)
           \/ \E damage, distance \in {0, 1} : Delivery(r, damage, distance)
    PROVE  RowInv'
<1> DEFINE j == job[r]
           t == trucks[j.truck]
<1>1. j \in Jobs /\ Complete(j)
    BY RowInvParts DEF JobsTyped
<1>2. j.truck \in DOMAIN trucks =>
        t \in TruckRows /\ (t.owner \in Users => t.assignee = t.owner)
    BY RowInvParts DEF TrucksTyped, OwnersDriveTheirTrucks
<1>3. truckRefunds \in [1..MaxTrucks -> 0..2]
    BY RowInvParts DEF TrucksTyped
<1> HIDE DEF t
<1>4. CASE TruckTransfer(r)
  <2> DEFINE row == [t EXCEPT !.owner = j.owner, !.assignee = j.assignee, !.status = j.status]
  <2>1. /\ j.owner \in Owners /\ j.status \in Statuses /\ j.assignee \in Users \union {None}
        /\ j.owner \in Users => j.assignee = j.owner
      BY <1>1, <1>4 DEF TruckTransfer, Complete, Jobs, Statuses
  <2>2. j.truck \in DOMAIN trucks =>
            row \in TruckRows /\ (row.owner \in Users => row.assignee = row.owner)
      BY <1>2, <2>1, TruckColumns DEF TruckRows
  <2> HIDE DEF row
  <2>3. SetTruck(r, row) /\ truckRefunds' = truckRefunds
      BY <1>4 DEF TruckTransfer, row, t
  <2> QED
      BY <1>3, <2>2, <2>3, SetTruckKeepsRows
<1>5. CASE Relocate(r)
  <2> DEFINE row == [t EXCEPT !.slot = j.slot, !.garage = j.garage]
  <2>1. j.slot \in 1..MaxSlots /\ j.garage \in Garages
      BY <1>1, <1>5 DEF Relocate, Complete, SlotOps
  <2>2. j.truck \in DOMAIN trucks =>
            row \in TruckRows /\ (row.owner \in Users => row.assignee = row.owner)
      BY <1>2, <2>1, TruckColumns DEF TruckRows
  <2> HIDE DEF row
  <2>3. SetTruck(r, row) /\ truckRefunds' = truckRefunds
      BY <1>5 DEF Relocate, row, t
  <2> QED
      BY <1>3, <2>2, <2>3, SetTruckKeepsRows
<1>6. CASE Deactivate(r)
  <2> DEFINE row == [t EXCEPT !.status = 0]
  <2>1. j.truck \in DOMAIN trucks =>
            row \in TruckRows /\ (row.owner \in Users => row.assignee = row.owner)
      BY <1>2, TruckColumns DEF TruckRows, Statuses
  <2> HIDE DEF row
  <2>2. SetTruck(r, row) /\ truckRefunds' = truckRefunds
      BY <1>6 DEF Deactivate, row, t
  <2> QED
      BY <1>3, <2>1, <2>2, SetTruckKeepsRows
<1>7. CASE Repair(r)
  <2> DEFINE status == IF j.status = -1 THEN StatusFor(j.owner, j.assignee, j.model)
                       ELSE t.status
             row == [t EXCEPT !.damage = 0, !.status = status]
  <2>1. CASE UNCHANGED fleet /\ End(r)
    <3>1. JobsTyped'
        BY <2>1, EndKeepsJobs
    <3>2. SlotsTyped' /\ TrucksTyped' /\ OwnersDriveTheirTrucks' /\ members' = members
        BY <2>1, SlotsKept, TrucksKept, RowInvParts DEF fleet
    <3> QED
        BY <3>1, <3>2, RowInvParts, RowInvPartsNext
  <2>2. CASE SetTruck(r, row) /\ truckRefunds' = truckRefunds
    <3>1. j.truck \in DOMAIN trucks => status \in Statuses
        BY <1>2, TruckColumns DEF StatusFor, Statuses
    <3> HIDE DEF status
    <3>2. j.truck \in DOMAIN trucks =>
            row \in TruckRows /\ (row.owner \in Users => row.assignee = row.owner)
        BY <1>2, <3>1, TruckColumns DEF TruckRows
    <3> HIDE DEF row
    <3> QED
        BY <1>3, <2>2, <3>2, SetTruckKeepsRows
  <2> QED
      BY <1>7, <2>1, <2>2 DEF Repair, t
<1>8. CASE TruckSell(r) \/ Scrap(r)
  <2>1. PICK to \in Gone : Dispose(r, to)
      BY <1>8 DEF TruckSell, Scrap, Gone
  <2> DEFINE row == [t EXCEPT !.owner = to, !.status = 0, !.slot = None, !.garage = None]
  <2>2. j.truck \in DOMAIN trucks =>
            row \in TruckRows /\ (row.owner \in Users => row.assignee = row.owner)
    <3>1. to \notin Users
        BY OwnersDiffer DEF Gone
    <3> QED
        BY <1>2, <3>1, TruckColumns DEF TruckRows
  <2> HIDE DEF row
  <2>3. /\ SetTruck(r, row)
        /\ truckRefunds' = [truckRefunds EXCEPT ![j.truck] = Counted(@)]
      BY <2>1 DEF Dispose, row, t
  <2>4. truckRefunds' \in [1..MaxTrucks -> 0..2]
    <3>1. j.truck \in 1..MaxTrucks
        BY <1>1, <1>8 DEF TruckSell, Scrap, Complete, TruckOps, ReadingOps
    <3>2. \A n \in 0..2 : Counted(n) \in 0..2
        BY DEF Counted
    <3> QED
        BY <1>3, <2>3, <3>1, <3>2
  <2> QED
      BY <2>2, <2>3, <2>4, SetTruckKeepsRows
<1>9. CASE \E damage, distance \in {0, 1} : Delivery(r, damage, distance)
  <2>1. PICK damage \in {0, 1}, distance \in {0, 1} : Delivery(r, damage, distance)
      BY <1>9
  <2> DEFINE status == IF j.odometer + distance > MaxDistance THEN -2
                       ELSE IF j.damage + damage > MaxWear THEN -1 ELSE t.status
             d == Capped(t.damage + damage, MaxWear)
             m == Capped(t.odometer + distance, MaxDistance)
             row == [t EXCEPT !.damage = d, !.odometer = m, !.status = status]
  <2>2. j.truck \in DOMAIN trucks => status \in Statuses
      BY <1>2, TruckColumns DEF Statuses
  <2>3. j.truck \in DOMAIN trucks => d \in Damages /\ m \in Odometers
    <3> SUFFICES ASSUME j.truck \in DOMAIN trucks PROVE d \in Damages /\ m \in Odometers
        OBVIOUS
    <3>1. t.damage \in Damages /\ t.odometer \in Odometers
        BY <1>2, TruckColumns
    <3> HIDE DEF t
    <3>2. d \in Damages
        BY <3>1, BoundsAreNaturals DEF Capped, Damages
    <3>3. m \in Odometers
        BY <3>1, BoundsAreNaturals DEF Capped, Odometers
    <3> QED
        BY <3>2, <3>3
  <2> HIDE DEF status, d, m
  <2>4. j.truck \in DOMAIN trucks =>
            row \in TruckRows /\ (row.owner \in Users => row.assignee = row.owner)
    <3> SUFFICES ASSUME j.truck \in DOMAIN trucks
                 PROVE  row \in TruckRows /\ (row.owner \in Users => row.assignee = row.owner)
        OBVIOUS
    <3>1. t \in TruckRows /\ (t.owner \in Users => t.assignee = t.owner)
        BY <1>2
    <3> HIDE DEF t
    <3>2. row \in TruckRows
        BY <3>1, <2>2, <2>3, TruckColumns
    <3>3. row.owner = t.owner /\ row.assignee = t.assignee
        BY <3>1 DEF TruckRows
    <3> QED
        BY <3>1, <3>2, <3>3
  <2> HIDE DEF row
  <2>5. SetTruck(r, row) /\ truckRefunds' = truckRefunds
      BY <2>1 DEF Delivery, row, t, d, m, status
  <2> QED
      BY <1>3, <2>4, <2>5, SetTruckKeepsRows
<1> QED
    BY <1>4, <1>5, <1>6, <1>7, <1>8, <1>9

\* Activation writes the status of several trucks.
LEMMA ActivateKeepsRows ==
    ASSUME RowInv, NEW r \in Reqs, Activate(r)
    PROVE  RowInv'
<1>1. /\ DOMAIN trucks' = DOMAIN trucks
      /\ \A v \in DOMAIN trucks :
            \E s \in Statuses : trucks'[v] = [trucks[v] EXCEPT !.status = s]
  <2> DEFINE j == job[r]
             d == DriverOf(j.owner, j.assignee)
             off(v) == d # None /\ Drives(d, v) /\ trucks[v].model = j.model
  <2>1. trucks' = [v \in DOMAIN trucks |->
                    IF v = j.truck THEN [trucks[v] EXCEPT !.status = 1]
                    ELSE IF off(v) THEN [trucks[v] EXCEPT !.status = 0]
                    ELSE trucks[v]]
      BY DEF Activate
  <2> HIDE DEF off
  <2>2. \A v \in DOMAIN trucks :
            /\ trucks[v].status \in Statuses
            /\ trucks[v] = [trucks[v] EXCEPT !.status = trucks[v].status]
      BY RowInvParts DEF TrucksTyped, TruckRows
  <2>3. 0 \in Statuses /\ 1 \in Statuses
      BY DEF Statuses
  <2> QED
      BY <2>1, <2>2, <2>3
<1>2. nextTruck' = nextTruck /\ truckRefunds' = truckRefunds
    BY DEF Activate
<1>3. \A t \in TruckRows, s \in Statuses :
        LET row == [t EXCEPT !.status = s] IN
        row \in TruckRows /\ row.owner = t.owner /\ row.assignee = t.assignee
    BY DEF TruckRows
<1>4. ASSUME NEW v \in DOMAIN trucks
      PROVE  /\ trucks'[v] \in TruckRows
             /\ trucks'[v].owner \in Users => trucks'[v].assignee = trucks'[v].owner
  <2>1. trucks[v] \in TruckRows
        /\ (trucks[v].owner \in Users => trucks[v].assignee = trucks[v].owner)
      BY RowInvParts DEF TrucksTyped, OwnersDriveTheirTrucks
  <2>2. PICK s \in Statuses : trucks'[v] = [trucks[v] EXCEPT !.status = s]
      BY <1>1
  <2> QED
      BY <1>3, <2>1, <2>2
<1>6. TrucksTyped' /\ OwnersDriveTheirTrucks'
    BY <1>1, <1>2, <1>4, RowInvParts DEF TrucksTyped, OwnersDriveTheirTrucks
<1>5. members' = members /\ SlotsTyped' /\ JobsTyped'
    BY SlotsKept, EndKeepsJobs, RowInvParts DEF Activate
<1> QED
    BY <1>5, <1>6, RowInvParts, RowInvPartsNext

\* A driver who leaves takes rows away and leaves slots to the company.
LEMMA LeaveKeepsRows ==
    ASSUME RowInv, NEW r \in Reqs, Leave(r)
    PROVE  RowInv'
<1>1. /\ DOMAIN trucks' \subseteq DOMAIN trucks
      /\ \A v \in DOMAIN trucks' : trucks'[v] = trucks[v]
    BY DEF Leave, Removed, Restrict
<1>2. nextTruck' = nextTruck /\ truckRefunds' = truckRefunds
      /\ members' \subseteq members
    BY DEF Leave
<1>3. TrucksTyped' /\ OwnersDriveTheirTrucks'
    BY <1>1, <1>2, RowInvParts DEF TrucksTyped, OwnersDriveTheirTrucks
<1>4. SlotsTyped' /\ JobsTyped'
    BY SetOwnerTyped, EndKeepsJobs DEF Leave, Owners
<1> QED
    BY <1>2, <1>3, <1>4, RowInvParts, RowInvPartsNext

\* Every step of the system keeps the types and the drivers of the trucks.
LEMMA RowInvStep == RowInv /\ [Next]_vars => RowInv'
<1> SUFFICES ASSUME RowInv, [Next]_vars PROVE RowInv'
    OBVIOUS
<1>1. CASE UNCHANGED vars
    BY <1>1 DEF vars, fleet, RowInv, TypeInv, TypeOK, OwnersDriveTheirTrucks
<1>2. CASE Next
  <2>1. PICK r \in Reqs : (\E c \in members : StartSomething(r, c)) \/ Write(r)
      BY <1>2 DEF Next
  <2>2. CASE \E c \in members : StartSomething(r, c)
    <3>1. PICK j \in Jobs : Complete(j) /\ Start(r, j)
        BY <2>2, StartsAreCurrent
    <3> QED
        BY <3>1, StartKeepsRows
  <2>3. CASE Abandon(r)
    <3>1. JobsTyped'
        BY <2>3, EndKeepsJobs DEF Abandon
    <3>2. SlotsTyped' /\ TrucksTyped' /\ OwnersDriveTheirTrucks' /\ members' = members
        BY <2>3, SlotsKept, TrucksKept, RowInvParts DEF Abandon, fleet
    <3> QED
        BY <3>1, <3>2, RowInvParts, RowInvPartsNext
  <2> QED
      BY <2>1, <2>2, <2>3, SlotWritesKeepRows, TruckPurchaseKeepsRows,
         TruckWritesKeepRows, ActivateKeepsRows, LeaveKeepsRows DEF Write
<1> QED
    BY <1>1, <1>2

\* Whatever requests run at the same time, every row of the garages, slots and
\* trucks has its type, names what there is, and got an id that was given out.
THEOREM FleetTyped == Spec => []TypeOK
<1>1. RowInv => TypeOK
    BY DEF RowInv, TypeInv
<1> QED
    BY RowInvInit, RowInvStep, <1>1, PTL DEF Spec

\* Whatever requests run at the same time, a truck that a driver owns is driven
\* by that driver: no request writes the owner without the assignee.
THEOREM OwnersDrive == Spec => []OwnersDriveTheirTrucks
<1>1. RowInv => OwnersDriveTheirTrucks
    BY DEF RowInv
<1> QED
    BY RowInvInit, RowInvStep, <1>1, PTL DEF Spec

-----------------------------------------------------------------------------
(***************************************************************************)
(* Sales, whatever requests run beside them. A request that would undo a   *)
(* sale, or make it again, has read the thing before it was sold: then the *)
(* two were under way at the same time, and the history says so.           *)
(***************************************************************************)

\* What is refunded is gone; a sale that is under way and was not crossed has its
\* refund before it; two sales of one slot are known to the history.
SlotSalesInv ==
    /\ \A r \in Reqs : job[r].op \in SlotSales =>
        /\ job[r].slot < nextSlot
        /\ job[r].slot \notin slotsCrossed => slotRefunds[job[r].slot] = 0
        /\ job[r].op = "garage_sell" /\ job[r].slot \in DOMAIN slots =>
                slots[job[r].slot].garage = job[r].garage
    /\ \A r, q \in Reqs :
        r # q /\ SlotSaleCrossed(job[r], job[q]) => job[r].slot \in slotsCrossed
    /\ \A s \in 1..MaxSlots :
        /\ s \notin slotsCrossed => slotRefunds[s] <= 1
        /\ slotRefunds[s] # 0 => s \notin DOMAIN slots /\ s < nextSlot

\* The same for trucks, of which the rows stay: they rest.
TruckSalesInv ==
    /\ \A r \in Reqs : job[r].op \in TruckOps => job[r].truck < nextTruck
    /\ \A r \in Reqs : job[r].op \in WritesOfASale /\ job[r].truck \notin trucksCrossed =>
        /\ truckRefunds[job[r].truck] = 0
        /\ job[r].truck \in DOMAIN trucks => trucks[job[r].truck].owner \notin Gone
    /\ \A r, q \in Reqs :
        r # q /\ TruckSaleCrossed(job[r], job[q]) => job[r].truck \in trucksCrossed
    /\ \A v \in 1..MaxTrucks :
        /\ v \notin trucksCrossed => truckRefunds[v] <= 1
        /\ truckRefunds[v] # 0 => v < nextTruck
    /\ \A v \in DOMAIN trucks \ trucksCrossed :
        IF trucks[v].owner \in Gone THEN trucks[v].slot = None /\ trucks[v].status # 1
        ELSE truckRefunds[v] = 0

SalesInv == RowInv /\ SlotSalesInv /\ TruckSalesInv

\* A disposed truck is not brought back by this step.
DisposedKept ==
    \A v \in DOMAIN trucks \ trucksCrossed : trucks[v].owner \in Gone =>
        /\ v \in DOMAIN trucks'
        /\ trucks'[v].owner = trucks[v].owner
        /\ trucks'[v].slot = None
        /\ trucks'[v].status # 1

\* Nothing was sold yet.
LEMMA SalesInvInit == Init => SalesInv
<1> SUFFICES ASSUME Init PROVE SalesInv
    OBVIOUS
<1>1. \A r \in Reqs : job[r].op = "none"
    BY DEF Init, NoJob
<1>2. SlotSalesInv
    BY <1>1 DEF Init, SlotSalesInv, SlotSaleCrossed, SlotSales
<1>3. TruckSalesInv
    BY <1>1 DEF Init, TruckSalesInv, TruckSaleCrossed, TruckSales, WritesOfASale, TruckOps,
                ReadingOps
<1> QED
    BY <1>2, <1>3, RowInvInit DEF SalesInv

\* What a sale of a slot that starts has read.
LEMMA SlotSaleReads ==
    ASSUME RowInv, NEW j, j.op \in SlotSales, Current(j)
    PROVE  /\ j.slot \in DOMAIN slots /\ j.slot < nextSlot /\ j.slot \in 1..MaxSlots
           /\ j.op = "garage_sell" => slots[j.slot].garage = j.garage
<1>1. /\ j.slot \in DOMAIN slots
      /\ j.op = "garage_sell" => slots[j.slot].garage = j.garage
    BY DEF SlotSales, Current, PricedOf, BaseOf, SlotsOf
<1> QED
    BY <1>1, RowInvParts, BoundsAreNaturals DEF SlotsTyped

\* A request that starts is the other's equal in crossing a sale.
LEMMA StartKeepsSlotSales ==
    ASSUME RowInv, SlotSalesInv, NEW r \in Reqs, NEW j \in Jobs, Start(r, j),
           j.op \in SlotSales => Current(j)
    PROVE  SlotSalesInv'
<1>1. /\ \A q \in Reqs : job'[q] = IF q = r THEN j ELSE job[q]
      /\ UNCHANGED <<slots, nextSlot, slotRefunds>>
      /\ slotsCrossed \subseteq slotsCrossed'
      /\ \A q \in Reqs : SlotSaleCrossed(j, job[q]) => j.slot \in slotsCrossed'
    BY RowInvParts DEF Start, fleet, JobsTyped
<1>2. ASSUME NEW q \in Reqs, job'[q].op \in SlotSales
      PROVE  /\ job'[q].slot < nextSlot
             /\ job'[q].slot \notin slotsCrossed' => slotRefunds[job'[q].slot] = 0
             /\ job'[q].op = "garage_sell" /\ job'[q].slot \in DOMAIN slots =>
                    slots[job'[q].slot].garage = job'[q].garage
  <2>1. CASE q = r
      BY <1>1, <1>2, <2>1, SlotSaleReads DEF SlotSalesInv
  <2>2. CASE q # r
      BY <1>1, <1>2, <2>2 DEF SlotSalesInv
  <2> QED
      BY <2>1, <2>2
<1>3. ASSUME NEW p \in Reqs, NEW q \in Reqs, p # q, SlotSaleCrossed(job'[p], job'[q])
      PROVE  job'[p].slot \in slotsCrossed'
  <2>1. CASE p = r
      BY <1>1, <1>3, <2>1
  <2>2. CASE q = r
    <3>1. SlotSaleCrossed(j, job[p]) /\ job[p].slot = j.slot /\ job'[p] = job[p]
        BY <1>1, <1>3, <2>2 DEF SlotSaleCrossed
    <3> QED
        BY <1>1, <3>1
  <2>3. CASE p # r /\ q # r
      BY <1>1, <1>3, <2>3 DEF SlotSalesInv
  <2> QED
      BY <2>1, <2>2, <2>3
<1>4. \A s \in 1..MaxSlots :
        /\ s \notin slotsCrossed' => slotRefunds[s] <= 1
        /\ slotRefunds[s] # 0 => s \notin DOMAIN slots /\ s < nextSlot
    BY <1>1 DEF SlotSalesInv
<1>5. \A p, q \in Reqs :
        p # q /\ SlotSaleCrossed(job'[p], job'[q]) => job'[p].slot \in slotsCrossed'
    BY <1>3
<1>6. \A p, q \in Reqs : SlotSaleCrossed(job[p], job[q])' <=> SlotSaleCrossed(job'[p], job'[q])
    BY DEF SlotSaleCrossed
<1> QED
    BY <1>1, <1>2, <1>4, <1>5, <1>6 DEF SlotSalesInv

\* What the write of a request does to the slots and their refunds, at most.
SlotsMove(r) ==
    /\ nextSlot' \in Nat /\ nextSlot' >= nextSlot
    /\ \A s \in DOMAIN slots' :
        IF s \in DOMAIN slots THEN slots'[s].garage = slots[s].garage
        ELSE s = nextSlot /\ s < nextSlot'
    /\ \/ slotRefunds' = slotRefunds
       \/ /\ job[r].op \in SlotSales /\ job[r].slot \notin DOMAIN slots'
          /\ slotRefunds' = [slotRefunds EXCEPT ![job[r].slot] = Counted(@)]

\* The request that wrote has nothing more to do with sales.
JobsMove(r) ==
    /\ \A q \in Reqs \ {r} : job'[q] = job[q]
    /\ job'[r].op \notin SlotSales \union TruckOps
    /\ UNCHANGED <<slotsCrossed, trucksCrossed>>

\* Such a write keeps what is said of the sales of slots.
LEMMA SlotsMoveKeeps ==
    ASSUME RowInv, SlotSalesInv, NEW r \in Reqs, SlotsMove(r), JobsMove(r)
    PROVE  SlotSalesInv'
<1>1. /\ DOMAIN slots \subseteq 1..nextSlot - 1 /\ nextSlot \in 1..MaxSlots + 1
      /\ slotRefunds \in [1..MaxSlots -> 0..2] /\ MaxSlots \in Nat
    BY RowInvParts, BoundsAreNaturals DEF SlotsTyped
<1>2. /\ \A q \in Reqs \ {r} : job'[q] = job[q]
      /\ job'[r].op \notin SlotSales /\ slotsCrossed' = slotsCrossed
    BY DEF JobsMove
<1>3. \A q \in Reqs : job[q].op \in SlotSales => job[q].slot \in 1..MaxSlots
    BY RowInvParts DEF JobsTyped, Complete, SlotSales, SlotOps
<1>4. ASSUME NEW q \in Reqs, q # r, job[q].op \in SlotSales, job[q].slot \notin slotsCrossed
      PROVE  slotRefunds'[job[q].slot] = 0
  <2>1. slotRefunds[job[q].slot] = 0
      BY <1>4 DEF SlotSalesInv
  <2>2. ASSUME job[r].op \in SlotSales PROVE job[r].slot # job[q].slot
      BY <1>4, <2>2 DEF SlotSalesInv, SlotSaleCrossed
  <2> QED
      BY <1>1, <1>3, <1>4, <2>1, <2>2 DEF SlotsMove
<1>5. ASSUME NEW q \in Reqs, job'[q].op \in SlotSales
      PROVE  /\ job'[q].slot < nextSlot'
             /\ job'[q].slot \notin slotsCrossed' => slotRefunds'[job'[q].slot] = 0
             /\ job'[q].op = "garage_sell" /\ job'[q].slot \in DOMAIN slots' =>
                    slots'[job'[q].slot].garage = job'[q].garage
  <2>1. q # r /\ job'[q] = job[q]
      BY <1>2, <1>5
  <2>2. job[q].slot < nextSlot /\ job[q].slot \in 1..MaxSlots
      BY <1>3, <1>5, <2>1 DEF SlotSalesInv
  <2>3. job[q].op = "garage_sell" /\ job[q].slot \in DOMAIN slots =>
            slots[job[q].slot].garage = job[q].garage
      BY <1>5, <2>1 DEF SlotSalesInv
  <2>4. job[q].slot \in DOMAIN slots' => job[q].slot \in DOMAIN slots
                                        /\ slots'[job[q].slot].garage = slots[job[q].slot].garage
      BY <1>1, <2>2 DEF SlotsMove
  <2> QED
      BY <1>1, <1>2, <1>4, <1>5, <2>1, <2>2, <2>3, <2>4 DEF SlotsMove
<1>6. ASSUME NEW p \in Reqs, NEW q \in Reqs, p # q, SlotSaleCrossed(job'[p], job'[q])
      PROVE  job'[p].slot \in slotsCrossed'
  <2>1. job'[p].op \in SlotSales /\ job'[q].op \in SlotSales
      BY <1>6 DEF SlotSaleCrossed
  <2>2. job'[p] = job[p] /\ job'[q] = job[q]
      BY <1>2, <2>1
  <2> QED
      BY <1>2, <1>6, <2>2 DEF SlotSalesInv
<1>7. ASSUME NEW s \in 1..MaxSlots
      PROVE  /\ s \notin slotsCrossed' => slotRefunds'[s] <= 1
             /\ slotRefunds'[s] # 0 => s \notin DOMAIN slots' /\ s < nextSlot'
  <2>1. /\ s \notin slotsCrossed => slotRefunds[s] <= 1
        /\ slotRefunds[s] # 0 => s \notin DOMAIN slots /\ s < nextSlot
      BY DEF SlotSalesInv
  <2>2. CASE slotRefunds'[s] = slotRefunds[s]
      BY <1>1, <1>2, <2>1, <2>2 DEF SlotsMove
  <2>3. CASE slotRefunds'[s] # slotRefunds[s]
    <3>1. /\ job[r].op \in SlotSales /\ job[r].slot = s /\ s \notin DOMAIN slots'
          /\ slotRefunds'[s] = Counted(slotRefunds[s])
        BY <1>1, <2>3 DEF SlotsMove
    <3>2. s < nextSlot /\ (s \notin slotsCrossed => slotRefunds[s] = 0)
        BY <3>1 DEF SlotSalesInv
    <3>3. s < nextSlot'
        BY <1>1, <3>2 DEF SlotsMove
    <3> QED
        BY <1>2, <3>1, <3>2, <3>3 DEF Counted
  <2> QED
      BY <2>2, <2>3
<1>8. \A p, q \in Reqs : SlotSaleCrossed(job[p], job[q])' <=> SlotSaleCrossed(job'[p], job'[q])
    BY DEF SlotSaleCrossed
<1>9. \A p, q \in Reqs :
        p # q /\ SlotSaleCrossed(job'[p], job'[q]) => job'[p].slot \in slotsCrossed'
    BY <1>6
<1> QED
    BY <1>5, <1>7, <1>8, <1>9 DEF SlotSalesInv

\* What a request about a truck that starts has read.
LEMMA StartKeepsTruckSales ==
    ASSUME RowInv, TruckSalesInv, NEW r \in Reqs, NEW j \in Jobs, Start(r, j),
           j.op \in TruckOps => j.truck \in DOMAIN trucks,
           j.op \in WritesOfASale => Current(j)
    PROVE  TruckSalesInv'
<1>1. /\ \A q \in Reqs : job'[q] = IF q = r THEN j ELSE job[q]
      /\ UNCHANGED <<trucks, nextTruck, truckRefunds>>
      /\ trucksCrossed \subseteq trucksCrossed'
      /\ \A q \in Reqs : TruckSaleCrossed(j, job[q]) => j.truck \in trucksCrossed'
    BY RowInvParts DEF Start, fleet, JobsTyped
<1>2. /\ DOMAIN trucks \subseteq 1..nextTruck - 1 /\ nextTruck \in 1..MaxTrucks + 1
      /\ MaxTrucks \in Nat
    BY RowInvParts, BoundsAreNaturals DEF TrucksTyped
<1>3. \A q \in Reqs : job'[q].op \in TruckOps => job'[q].truck < nextTruck
    BY <1>1, <1>2 DEF TruckSalesInv
<1>4. ASSUME NEW q \in Reqs, job'[q].op \in WritesOfASale, job'[q].truck \notin trucksCrossed'
      PROVE  /\ truckRefunds[job'[q].truck] = 0
             /\ job'[q].truck \in DOMAIN trucks => trucks[job'[q].truck].owner \notin Gone
  <2>1. CASE q = r
    <3>1. j.op \in TruckOps
        BY <1>1, <1>4, <2>1 DEF WritesOfASale, TruckSales, TruckOps, ReadingOps
    <3>2. j.truck \in DOMAIN trucks /\ trucks[j.truck].owner \notin Gone
        BY <1>1, <1>4, <2>1, <3>1 DEF Current
    <3> QED
        BY <1>1, <1>4, <2>1, <3>2 DEF TruckSalesInv
  <2>2. CASE q # r
      BY <1>1, <1>4, <2>2 DEF TruckSalesInv
  <2> QED
      BY <2>1, <2>2
<1>5. ASSUME NEW p \in Reqs, NEW q \in Reqs, p # q, TruckSaleCrossed(job'[p], job'[q])
      PROVE  job'[p].truck \in trucksCrossed'
  <2>1. CASE p = r
      BY <1>1, <1>5, <2>1
  <2>2. CASE q = r
    <3>1. TruckSaleCrossed(j, job[p]) /\ job[p].truck = j.truck /\ job'[p] = job[p]
        BY <1>1, <1>5, <2>2 DEF TruckSaleCrossed
    <3> QED
        BY <1>1, <3>1
  <2>3. CASE p # r /\ q # r
      BY <1>1, <1>5, <2>3 DEF TruckSalesInv
  <2> QED
      BY <2>1, <2>2, <2>3
<1>6. \A v \in 1..MaxTrucks :
        /\ v \notin trucksCrossed' => truckRefunds[v] <= 1
        /\ truckRefunds[v] # 0 => v < nextTruck
    BY <1>1 DEF TruckSalesInv
<1>7. \A v \in DOMAIN trucks \ trucksCrossed' :
        IF trucks[v].owner \in Gone THEN trucks[v].slot = None /\ trucks[v].status # 1
        ELSE truckRefunds[v] = 0
    BY <1>1 DEF TruckSalesInv
<1>8. \A p, q \in Reqs : TruckSaleCrossed(job[p], job[q])' <=> TruckSaleCrossed(job'[p], job'[q])
    BY DEF TruckSaleCrossed
<1>9. \A p, q \in Reqs :
        p # q /\ TruckSaleCrossed(job'[p], job'[q]) => job'[p].truck \in trucksCrossed'
    BY <1>5
<1> QED
    BY <1>1, <1>3, <1>4, <1>6, <1>7, <1>8, <1>9 DEF TruckSalesInv

\* What the write of a request may make of the row of a truck: that of a new truck;
\* that of a sold one, by a sale; another owner's or slot's, by a request that writes
\* these; or one with the same owner and slot that is not active for the first time.
RowMoves(r, v) ==
    \/ /\ v \notin DOMAIN trucks /\ v = nextTruck /\ v < nextTruck' /\ v <= MaxTrucks
       /\ trucks'[v].owner \notin Gone
    \/ /\ v \in DOMAIN trucks /\ v = job[r].truck /\ job[r].op \in TruckSales
       /\ trucks'[v].owner \in Gone /\ trucks'[v].slot = None /\ trucks'[v].status = 0
    \/ /\ v \in DOMAIN trucks /\ v = job[r].truck /\ job[r].op \in WritesOfASale \ TruckSales
       /\ trucks'[v].owner = trucks[v].owner \/ trucks'[v].owner \notin Gone
    \/ /\ v \in DOMAIN trucks
       /\ trucks'[v].owner = trucks[v].owner /\ trucks'[v].slot = trucks[v].slot
       /\ trucks'[v].status = 1 => trucks[v].status = 1

TrucksMove(r) ==
    /\ nextTruck' \in Nat /\ nextTruck' >= nextTruck
    /\ \A v \in DOMAIN trucks' : RowMoves(r, v)
    /\ \A v \in DOMAIN trucks : v \notin DOMAIN trucks' => trucks[v].owner \notin Gone
    /\ \/ truckRefunds' = truckRefunds
       \/ /\ job[r].op \in TruckSales
          /\ truckRefunds' = [truckRefunds EXCEPT ![job[r].truck] = Counted(@)]
          /\ job[r].truck \in DOMAIN trucks' => trucks'[job[r].truck].owner \in Gone

\* Such a write keeps what is said of the sales of trucks, and a sold truck sold.
LEMMA TrucksMoveKeeps ==
    ASSUME RowInv, TruckSalesInv, NEW r \in Reqs, TrucksMove(r), JobsMove(r)
    PROVE  TruckSalesInv' /\ DisposedKept
<1>1. /\ DOMAIN trucks \subseteq 1..nextTruck - 1 /\ nextTruck \in 1..MaxTrucks + 1
      /\ truckRefunds \in [1..MaxTrucks -> 0..2] /\ MaxTrucks \in Nat
    BY RowInvParts, BoundsAreNaturals DEF TrucksTyped
<1>2. /\ \A q \in Reqs \ {r} : job'[q] = job[q]
      /\ job'[r].op \notin TruckOps /\ trucksCrossed' = trucksCrossed
    BY DEF JobsMove
<1>3. WritesOfASale \subseteq TruckOps /\ TruckSales \subseteq WritesOfASale
    BY DEF WritesOfASale, TruckSales, TruckOps, ReadingOps
<1>4. \A q \in Reqs : job[q].op \in TruckOps =>
            job[q].truck \in 1..MaxTrucks /\ job[q].truck < nextTruck
    BY RowInvParts DEF JobsTyped, Complete, TruckSalesInv
<1>5. \A q \in Reqs : job'[q].op \in TruckOps => job'[q].truck < nextTruck'
  <2>1. ASSUME NEW q \in Reqs, job'[q].op \in TruckOps PROVE job'[q].truck < nextTruck'
    <3>1. job'[q] = job[q]
        BY <1>2, <2>1
    <3>2. job[q].truck \in 1..MaxTrucks /\ job[q].truck < nextTruck
        BY <1>4, <2>1, <3>1
    <3> QED
        BY <1>1, <3>1, <3>2 DEF TrucksMove
  <2> QED
      BY <2>1
\* A row that was not a sold one's is only so after a sale by this request.
<1>6. ASSUME NEW v \in DOMAIN trucks', v \in DOMAIN trucks, trucks[v].owner \notin Gone,
             trucks'[v].owner \in Gone
      PROVE  job[r].op \in TruckSales /\ v = job[r].truck
    BY <1>6 DEF TrucksMove, RowMoves
<1>7. ASSUME NEW q \in Reqs, job'[q].op \in WritesOfASale, job'[q].truck \notin trucksCrossed'
      PROVE  /\ truckRefunds'[job'[q].truck] = 0
             /\ job'[q].truck \in DOMAIN trucks' => trucks'[job'[q].truck].owner \notin Gone
  <2>1. q # r /\ job'[q] = job[q] /\ job[q].op \in WritesOfASale
      BY <1>2, <1>3, <1>7
  <2>2. PICK v : v = job[q].truck
      OBVIOUS
  <2>3. /\ v \notin trucksCrossed /\ v \in 1..MaxTrucks /\ v < nextTruck
        /\ truckRefunds[v] = 0 /\ (v \in DOMAIN trucks => trucks[v].owner \notin Gone)
      BY <1>2, <1>3, <1>4, <1>7, <2>1, <2>2 DEF TruckSalesInv
  <2>4. ASSUME job[r].op \in TruckSales PROVE job[r].truck # v
    <3>1. ASSUME job[r].truck = v PROVE TruckSaleCrossed(job[r], job[q])
        BY <1>3, <2>1, <2>2, <2>4, <3>1 DEF TruckSaleCrossed
    <3> QED
        BY <2>1, <2>3, <3>1 DEF TruckSalesInv
  <2>5. truckRefunds'[v] = 0
      BY <1>1, <2>3, <2>4 DEF TrucksMove
  <2>6. ASSUME v \in DOMAIN trucks' PROVE trucks'[v].owner \notin Gone
    <3>1. CASE v \notin DOMAIN trucks
      <4>1. v # nextTruck
          BY <1>1, <2>3
      <4> QED
          BY <2>6, <3>1, <4>1 DEF TrucksMove, RowMoves
    <3>2. CASE v \in DOMAIN trucks
        BY <1>6, <2>3, <2>4, <2>6, <3>2
    <3> QED
        BY <3>1, <3>2
  <2> QED
      BY <2>1, <2>2, <2>5, <2>6
<1>8. ASSUME NEW p \in Reqs, NEW q \in Reqs, p # q, TruckSaleCrossed(job'[p], job'[q])
      PROVE  job'[p].truck \in trucksCrossed'
  <2>1. job'[p].op \in TruckOps /\ job'[q].op \in TruckOps
      BY <1>3, <1>8 DEF TruckSaleCrossed
  <2>2. job'[p] = job[p] /\ job'[q] = job[q]
      BY <1>2, <2>1
  <2> QED
      BY <1>2, <1>8, <2>2 DEF TruckSalesInv
<1>9. ASSUME NEW v \in 1..MaxTrucks
      PROVE  /\ v \notin trucksCrossed' => truckRefunds'[v] <= 1
             /\ truckRefunds'[v] # 0 => v < nextTruck'
  <2>1. /\ v \notin trucksCrossed => truckRefunds[v] <= 1
        /\ truckRefunds[v] # 0 => v < nextTruck
      BY DEF TruckSalesInv
  <2>2. CASE truckRefunds'[v] = truckRefunds[v]
      BY <1>1, <1>2, <2>1, <2>2 DEF TrucksMove
  <2>3. CASE truckRefunds'[v] # truckRefunds[v]
    <3>1. /\ job[r].op \in TruckSales /\ job[r].truck = v
          /\ truckRefunds'[v] = Counted(truckRefunds[v])
        BY <1>1, <2>3 DEF TrucksMove
    <3>2. v < nextTruck /\ (v \notin trucksCrossed => truckRefunds[v] = 0)
        BY <1>3, <1>4, <3>1 DEF TruckSalesInv
    <3>3. v < nextTruck'
        BY <1>1, <3>2 DEF TrucksMove
    <3> QED
        BY <1>2, <3>1, <3>2, <3>3 DEF Counted
  <2> QED
      BY <2>2, <2>3
\* No request that writes what a sale writes is under way about a sold truck.
<1>10. ASSUME NEW v \in DOMAIN trucks \ trucksCrossed, trucks[v].owner \in Gone,
              v \in DOMAIN trucks'
       PROVE  /\ trucks'[v].owner = trucks[v].owner /\ trucks'[v].slot = None
              /\ trucks'[v].status # 1
  <2>1. trucks[v].slot = None /\ trucks[v].status # 1
      BY <1>10 DEF TruckSalesInv
  <2>2. ~(job[r].op \in WritesOfASale /\ v = job[r].truck)
      BY <1>10 DEF TruckSalesInv
  <2> QED
      BY <1>3, <1>10, <2>1, <2>2 DEF TrucksMove, RowMoves
<1>11. DisposedKept
    BY <1>10 DEF DisposedKept, TrucksMove
<1>12. ASSUME NEW v \in DOMAIN trucks' \ trucksCrossed'
       PROVE  IF trucks'[v].owner \in Gone
              THEN trucks'[v].slot = None /\ trucks'[v].status # 1
              ELSE truckRefunds'[v] = 0
  <2>1. CASE v \notin DOMAIN trucks
    <3>1. v = nextTruck /\ v < nextTruck' /\ trucks'[v].owner \notin Gone
        BY <2>1 DEF TrucksMove, RowMoves
    <3>2. \A q \in Reqs : job[q].op \in TruckOps => job[q].truck # v
        BY <1>1, <1>4, <3>1
    <3>3. v \in 1..MaxTrucks => truckRefunds[v] = 0 /\ truckRefunds'[v] = truckRefunds[v]
        BY <1>1, <1>3, <3>1, <3>2 DEF TruckSalesInv, TrucksMove
    <3>4. v \in 1..MaxTrucks
      <4>1. v <= MaxTrucks
          BY <2>1 DEF TrucksMove, RowMoves
      <4> QED
          BY <1>1, <3>1, <4>1
    <3> QED
        BY <3>1, <3>3, <3>4
  <2>2. CASE v \in DOMAIN trucks /\ trucks[v].owner \in Gone
      BY <1>2, <1>10, <1>12, <2>2
  <2>3. CASE v \in DOMAIN trucks /\ trucks[v].owner \notin Gone
    <3>1. truckRefunds[v] = 0 /\ v \in 1..MaxTrucks
        BY <1>1, <1>2, <1>12, <2>3 DEF TruckSalesInv
    <3>2. CASE trucks'[v].owner \in Gone
      <4>1. job[r].op \in TruckSales /\ v = job[r].truck
          BY <1>6, <1>12, <2>3, <3>2
      <4>2. trucks'[v].slot = None /\ trucks'[v].status = 0
          BY <1>12, <2>3, <3>2 DEF TrucksMove, RowMoves
      <4> QED
          BY <3>2, <4>2
    <3>3. CASE trucks'[v].owner \notin Gone
      <4>1. truckRefunds'[v] = truckRefunds[v]
          BY <1>1, <1>12, <3>1, <3>3 DEF TrucksMove
      <4> QED
          BY <3>1, <3>3, <4>1
    <3> QED
        BY <3>2, <3>3
  <2> QED
      BY <2>1, <2>2, <2>3
<1>13. \A p, q \in Reqs : TruckSaleCrossed(job[p], job[q])' <=> TruckSaleCrossed(job'[p], job'[q])
    BY DEF TruckSaleCrossed
<1>14. \A p, q \in Reqs :
        p # q /\ TruckSaleCrossed(job'[p], job'[q]) => job'[p].truck \in trucksCrossed'
    BY <1>8
<1> QED
    BY <1>5, <1>7, <1>9, <1>11, <1>12, <1>13, <1>14 DEF TruckSalesInv

\* What an end of a request does to the jobs.
LEMMA EndMovesJobs ==
    ASSUME RowInv, NEW r \in Reqs, End(r)
    PROVE  JobsMove(r)
<1>1. job \in [Reqs -> Jobs]
    BY RowInvParts DEF JobsTyped
<1>2. NoJob.op = "none"
    BY DEF NoJob
<1> QED
    BY <1>1, <1>2 DEF End, JobsMove, SlotSales, TruckOps, ReadingOps

\* What leaves the trucks alone moves none.
LEMMA TrucksStay ==
    ASSUME RowInv, NEW r \in Reqs, UNCHANGED <<trucks, nextTruck, truckRefunds>>
    PROVE  TrucksMove(r)
  BY RowInvParts, BoundsAreNaturals DEF TrucksMove, RowMoves, TrucksTyped

\* What leaves the slots alone moves none.
LEMMA SlotsStay ==
    ASSUME RowInv, NEW r \in Reqs, UNCHANGED <<slots, nextSlot, slotRefunds>>
    PROVE  SlotsMove(r)
  BY RowInvParts, BoundsAreNaturals DEF SlotsMove, SlotsTyped

\* An UPDATE of slots' owners leaves them where they are.
LEMMA SetOwnerKeepsSlots ==
    ASSUME RowInv, NEW S, NEW o, SetOwner(S, o)
    PROVE  /\ DOMAIN slots' = DOMAIN slots
           /\ \A s \in DOMAIN slots : slots'[s].garage = slots[s].garage
           /\ \A h : SlotsOf(h)' = SlotsOf(h) /\ PricedOf(h)' = PricedOf(h)
<1>1. /\ DOMAIN slots' = DOMAIN slots
      /\ \A s \in DOMAIN slots :
            slots'[s] = IF s \in S THEN [slots[s] EXCEPT !.owner = o] ELSE slots[s]
    BY DEF SetOwner
<1>2. ASSUME NEW row \in SlotRows
      PROVE  LET new == [row EXCEPT !.owner = o] IN
             new.garage = row.garage /\ new.base = row.base /\ new.priced = row.priced
    BY DEF SlotRows
<1>3. \A s \in DOMAIN slots :
        /\ slots'[s].garage = slots[s].garage /\ slots'[s].base = slots[s].base
        /\ slots'[s].priced = slots[s].priced
    BY <1>1, <1>2, RowInvParts DEF SlotsTyped
<1> QED
    BY <1>1, <1>3 DEF SlotsOf, PricedOf, BaseOf

\* The requests about garages and slots.
LEMMA SlotWritesMove ==
    ASSUME RowInv, SlotSalesInv, NEW r \in Reqs,
           \/ GaragePurchase(r) \/ SlotPurchase(r) \/ GarageTransfer(r)
           \/ SlotTransfer(r) \/ GarageSell(r) \/ SlotSell(r)
    PROVE  SlotsMove(r) /\ TrucksMove(r) /\ JobsMove(r)
<1> DEFINE j == job[r]
<1>1. j \in Jobs /\ job \in [Reqs -> Jobs] /\ nextSlot \in Nat
    BY RowInvParts, BoundsAreNaturals DEF JobsTyped, SlotsTyped
<1>2. ASSUME NEW g, NEW o, NEW base, NEW priced, InsertSlot(g, o, base, priced)
      PROVE  SlotsMove(r) /\ TrucksMove(r)
  <2>1. /\ DOMAIN slots' = DOMAIN slots \union {nextSlot}
        /\ \A s \in DOMAIN slots : s # nextSlot => slots'[s] = slots[s]
        /\ nextSlot' = nextSlot + 1 /\ slotRefunds' = slotRefunds
        /\ UNCHANGED <<trucks, nextTruck, truckRefunds>>
      BY <1>2 DEF InsertSlot, Stored
  <2>2. nextSlot \notin DOMAIN slots
      BY <1>1, RowInvParts DEF SlotsTyped
  <2> QED
      BY <1>1, <2>1, <2>2, TrucksStay DEF SlotsMove
<1>3. CASE GaragePurchase(r)
  <2>1. SlotsMove(r) /\ TrucksMove(r)
      BY <1>2, <1>3 DEF GaragePurchase
  <2>2. CASE j.status = 1
      BY <1>3, <2>1, <2>2, EndMovesJobs DEF GaragePurchase
  <2>3. CASE j.status # 1
    <3>1. PICK k : k = [j EXCEPT !.status = j.status - 1]
        OBVIOUS
    <3>2. job' = [job EXCEPT ![r] = k] /\ UNCHANGED <<slotsCrossed, trucksCrossed>>
        BY <1>3, <2>3, <3>1 DEF GaragePurchase
    <3>3. k.op = "garage_purchase"
        BY <1>1, <1>3, <3>1 DEF GaragePurchase, Jobs
    <3>4. JobsMove(r)
        BY <1>1, <3>2, <3>3 DEF JobsMove, SlotSales, TruckOps, ReadingOps
    <3> QED
        BY <2>1, <3>4
  <2> QED
      BY <2>2, <2>3
<1>4. CASE SlotPurchase(r)
    BY <1>2, <1>4, EndMovesJobs DEF SlotPurchase
<1>5. CASE GarageTransfer(r) \/ SlotTransfer(r)
  <2>1. PICK S : SetOwner(S, j.owner) /\ End(r)
                 /\ UNCHANGED <<trucks, nextSlot, nextTruck, slotRefunds, truckRefunds>>
      BY <1>5 DEF GarageTransfer, SlotTransfer
  <2>2. SlotsMove(r)
      BY <1>1, <2>1, SetOwnerKeepsSlots DEF SlotsMove
  <2> QED
      BY <2>1, <2>2, TrucksStay, EndMovesJobs
<1>6. CASE GarageSell(r) \/ SlotSell(r)
  <2>1. PICK S : /\ DeleteSlots(r, S) /\ j.op \in SlotSales
                 /\ j.slot \in DOMAIN slots => j.slot \in S
    <3>1. CASE GarageSell(r)
      <4>1. j.slot \in DOMAIN slots => j.slot \in SlotsOf(j.garage)
          BY <3>1 DEF GarageSell, SlotSalesInv, SlotSales, SlotsOf
      <4> QED
          BY <3>1, <4>1 DEF GarageSell, SlotSales
    <3>2. CASE SlotSell(r)
        BY <3>2 DEF SlotSell, SlotSales
    <3> QED
        BY <1>6, <3>1, <3>2
  <2>2. /\ DOMAIN slots' = DOMAIN slots \ S
        /\ \A s \in DOMAIN slots' : slots'[s] = slots[s]
        /\ slotRefunds' = [slotRefunds EXCEPT ![j.slot] = Counted(@)]
        /\ UNCHANGED <<trucks, nextSlot, nextTruck, truckRefunds>> /\ End(r)
      BY <2>1 DEF DeleteSlots, Removed, Restrict
  <2>3. SlotsMove(r)
      BY <1>1, <2>1, <2>2 DEF SlotsMove
  <2> QED
      BY <2>2, <2>3, TrucksStay, EndMovesJobs
<1> QED
    BY <1>3, <1>4, <1>5, <1>6

\* The UPDATE of one truck, by a row that its request may write.
LEMMA SetTruckMoves ==
    ASSUME RowInv, NEW r \in Reqs, NEW row, SetTruck(r, row),
           job[r].truck \in DOMAIN trucks =>
            LET t == trucks[job[r].truck] IN
            \/ /\ job[r].op \in TruckSales /\ row.owner \in Gone
               /\ row.slot = None /\ row.status = 0
            \/ /\ job[r].op \in WritesOfASale \ TruckSales
               /\ row.owner = t.owner \/ row.owner \notin Gone
            \/ /\ row.owner = t.owner /\ row.slot = t.slot
               /\ row.status = 1 => t.status = 1,
           \/ truckRefunds' = truckRefunds
           \/ /\ job[r].op \in TruckSales /\ (job[r].truck \in DOMAIN trucks => row.owner \in Gone)
              /\ truckRefunds' = [truckRefunds EXCEPT ![job[r].truck] = Counted(@)]
    PROVE  SlotsMove(r) /\ TrucksMove(r) /\ JobsMove(r)
<1>1. /\ DOMAIN trucks' = DOMAIN trucks
      /\ \A v \in DOMAIN trucks : trucks'[v] = IF v = job[r].truck THEN row ELSE trucks[v]
      /\ UNCHANGED <<slots, nextSlot, slotRefunds>> /\ nextTruck' = nextTruck /\ End(r)
    BY DEF SetTruck
<1>2. ASSUME NEW v \in DOMAIN trucks' PROVE RowMoves(r, v)
  <2>1. CASE v = job[r].truck
      BY <1>1, <1>2, <2>1 DEF RowMoves
  <2>2. CASE v # job[r].truck
      BY <1>1, <1>2, <2>2 DEF RowMoves
  <2> QED
      BY <2>1, <2>2
<1>3. nextTruck \in Nat
    BY RowInvParts, BoundsAreNaturals DEF TrucksTyped
<1>4. TrucksMove(r)
    BY <1>1, <1>2, <1>3 DEF TrucksMove
<1> QED
    BY <1>1, <1>4, SlotsStay, EndMovesJobs

\* The requests that write one truck.
LEMMA TruckWritesMove ==
    ASSUME RowInv, NEW r \in Reqs,
           \/ TruckTransfer(r) \/ Relocate(r) \/ Deactivate(r) \/ Repair(r)
           \/ TruckSell(r) \/ Scrap(r)
           \/ \E damage, distance \in {0, 1} : Delivery(r, damage, distance)
    PROVE  SlotsMove(r) /\ TrucksMove(r) /\ JobsMove(r)
<1> DEFINE j == job[r]
           t == trucks[j.truck]
<1>1. j.truck \in DOMAIN trucks => t \in TruckRows
    BY RowInvParts DEF TrucksTyped
<1>2. Complete(j)
    BY RowInvParts DEF JobsTyped
<1> HIDE DEF t
<1>3. CASE TruckTransfer(r)
  <2> DEFINE row == [t EXCEPT !.owner = j.owner, !.assignee = j.assignee, !.status = j.status]
  <2>1. j.owner \notin Gone /\ j.op \in WritesOfASale \ TruckSales
      BY <1>2, <1>3, OwnersDiffer DEF TruckTransfer, Complete, Owners, Gone, WritesOfASale, TruckSales
  <2>2. j.truck \in DOMAIN trucks => row.owner = j.owner
      BY <1>1 DEF TruckRows
  <2>3. SetTruck(r, row) /\ truckRefunds' = truckRefunds
      BY <1>3 DEF TruckTransfer, t
  <2> HIDE DEF row
  <2> QED
      BY <2>1, <2>2, <2>3, SetTruckMoves
<1>4. CASE Relocate(r)
  <2> DEFINE row == [t EXCEPT !.slot = j.slot, !.garage = j.garage]
  <2>1. j.op \in WritesOfASale \ TruckSales
      BY <1>4 DEF Relocate, WritesOfASale, TruckSales
  <2>2. j.truck \in DOMAIN trucks => row.owner = t.owner
      BY <1>1 DEF TruckRows
  <2>3. SetTruck(r, row) /\ truckRefunds' = truckRefunds
      BY <1>4 DEF Relocate, t
  <2> HIDE DEF row
  <2> QED
      BY <2>1, <2>2, <2>3, SetTruckMoves DEF t
<1>5. CASE Deactivate(r)
  <2> DEFINE row == [t EXCEPT !.status = 0]
  <2>1. j.truck \in DOMAIN trucks =>
            row.owner = t.owner /\ row.slot = t.slot /\ row.status = 0
      BY <1>1 DEF TruckRows
  <2>2. SetTruck(r, row) /\ truckRefunds' = truckRefunds
      BY <1>5 DEF Deactivate, t
  <2> HIDE DEF row
  <2> QED
      BY <2>1, <2>2, SetTruckMoves DEF t
<1>6. CASE Repair(r)
  <2> DEFINE status == IF j.status = -1 THEN StatusFor(j.owner, j.assignee, j.model)
                       ELSE t.status
             row == [t EXCEPT !.damage = 0, !.status = status]
  <2>1. j.op \in WritesOfASale \ TruckSales
      BY <1>6 DEF Repair, WritesOfASale, TruckSales
  <2>2. CASE UNCHANGED fleet /\ End(r)
      BY <2>2, SlotsStay, TrucksStay, EndMovesJobs DEF fleet
  <2>3. CASE SetTruck(r, row) /\ truckRefunds' = truckRefunds
    <3>1. j.truck \in DOMAIN trucks => row.owner = t.owner
        BY <1>1 DEF TruckRows
    <3> HIDE DEF row
    <3> QED
        BY <2>1, <2>3, <3>1, SetTruckMoves DEF t
  <2> QED
      BY <1>6, <2>2, <2>3 DEF Repair, t
<1>7. CASE TruckSell(r) \/ Scrap(r)
  <2>1. PICK to \in Gone : Dispose(r, to)
      BY <1>7 DEF TruckSell, Scrap, Gone
  <2> DEFINE row == [t EXCEPT !.owner = to, !.status = 0, !.slot = None, !.garage = None]
  <2>2. j.op \in TruckSales
      BY <1>7 DEF TruckSell, Scrap, TruckSales
  <2>3. j.truck \in DOMAIN trucks => row.slot = None /\ row.status = 0 /\ row.owner = to
      BY <1>1 DEF TruckRows
  <2>4. /\ SetTruck(r, row)
        /\ truckRefunds' = [truckRefunds EXCEPT ![j.truck] = Counted(@)]
      BY <2>1 DEF Dispose, t
  <2> HIDE DEF row
  <2> QED
      BY <2>2, <2>3, <2>4, SetTruckMoves
<1>8. CASE \E damage, distance \in {0, 1} : Delivery(r, damage, distance)
  <2>1. PICK damage \in {0, 1}, distance \in {0, 1} : Delivery(r, damage, distance)
      BY <1>8
  <2> DEFINE status == IF j.odometer + distance > MaxDistance THEN -2
                       ELSE IF j.damage + damage > MaxWear THEN -1 ELSE t.status
             d == Capped(t.damage + damage, MaxWear)
             m == Capped(t.odometer + distance, MaxDistance)
             row == [t EXCEPT !.damage = d, !.odometer = m, !.status = status]
  <2>2. j.truck \in DOMAIN trucks =>
            row.owner = t.owner /\ row.slot = t.slot /\ row.status \in {-2, -1, t.status}
      BY <1>1 DEF TruckRows
  <2>3. SetTruck(r, row) /\ truckRefunds' = truckRefunds
      BY <2>1 DEF Delivery, t
  <2> HIDE DEF row
  <2>4. j.truck \in DOMAIN trucks => (row.status = 1 => t.status = 1)
      BY <2>2
  <2> QED
      BY <2>2, <2>3, <2>4, SetTruckMoves DEF t
<1> QED
    BY <1>3, <1>4, <1>5, <1>6, <1>7, <1>8

\* A truck that is bought has an owner who is nobody's dealer.
LEMMA TruckPurchaseMoves ==
    ASSUME RowInv, NEW r \in Reqs, TruckPurchase(r)
    PROVE  SlotsMove(r) /\ TrucksMove(r) /\ JobsMove(r)
<1> DEFINE j == job[r]
           row == [model |-> j.model, garage |-> j.garage, slot |-> j.slot,
                   owner |-> j.owner, assignee |-> j.assignee, status |-> j.status,
                   damage |-> 0, odometer |-> 0]
<1>1. row.owner \notin Gone
    BY RowInvParts, OwnersDiffer DEF JobsTyped, TruckPurchase, Complete, Owners, Gone
<1> HIDE DEF row
<1>2. /\ DOMAIN trucks' = DOMAIN trucks \union {nextTruck}
      /\ \A v \in DOMAIN trucks' : trucks'[v] = IF v = nextTruck THEN row ELSE trucks[v]
      /\ nextTruck' = nextTruck + 1 /\ nextTruck <= MaxTrucks
      /\ UNCHANGED <<slots, nextSlot, slotRefunds, truckRefunds>> /\ End(r)
    BY DEF TruckPurchase, Stored, row
<1>3. nextTruck \in Nat /\ nextTruck \notin DOMAIN trucks
    BY RowInvParts, BoundsAreNaturals DEF TrucksTyped
<1>4. \A v \in DOMAIN trucks' : RowMoves(r, v)
    BY <1>1, <1>2, <1>3 DEF RowMoves
<1>5. TrucksMove(r)
    BY <1>2, <1>3, <1>4 DEF TrucksMove
<1> QED
    BY <1>2, <1>5, SlotsStay, EndMovesJobs

\* An activation writes what a sale writes of its own truck only; the others it
\* switches off.
LEMMA ActivateMoves ==
    ASSUME RowInv, NEW r \in Reqs, Activate(r)
    PROVE  SlotsMove(r) /\ TrucksMove(r) /\ JobsMove(r)
<1> DEFINE j == job[r]
           off(v) == /\ DriverOf(j.owner, j.assignee) # None
                     /\ Drives(DriverOf(j.owner, j.assignee), v)
                     /\ trucks[v].model = j.model
<1>1. j.op \in WritesOfASale \ TruckSales
    BY DEF Activate, WritesOfASale, TruckSales
<1>2. /\ DOMAIN trucks' = DOMAIN trucks
      /\ \A v \in DOMAIN trucks :
            /\ trucks'[v].slot = trucks[v].slot /\ trucks'[v].owner = trucks[v].owner
            /\ v # j.truck => trucks'[v].status \in {0, trucks[v].status}
  <2>1. trucks' = [v \in DOMAIN trucks |->
                    IF v = j.truck THEN [trucks[v] EXCEPT !.status = 1]
                    ELSE IF off(v) THEN [trucks[v] EXCEPT !.status = 0]
                    ELSE trucks[v]]
      BY DEF Activate
  <2> HIDE DEF off
  <2>2. \A v \in DOMAIN trucks : trucks[v] \in TruckRows
      BY RowInvParts DEF TrucksTyped
  <2> QED
      BY <2>1, <2>2 DEF TruckRows
<1>3. UNCHANGED <<slots, nextSlot, nextTruck, slotRefunds, truckRefunds>> /\ End(r)
    BY DEF Activate
<1>4. \A v \in DOMAIN trucks' : RowMoves(r, v)
    BY <1>1, <1>2 DEF RowMoves
<1>5. nextTruck \in Nat
    BY RowInvParts, BoundsAreNaturals DEF TrucksTyped
<1>6. TrucksMove(r)
    BY <1>2, <1>3, <1>4, <1>5 DEF TrucksMove
<1> QED
    BY <1>3, <1>6, SlotsStay, EndMovesJobs

\* The trucks that a driver takes along are no dealer's.
LEMMA LeaveMoves ==
    ASSUME RowInv, NEW r \in Reqs, Leave(r)
    PROVE  SlotsMove(r) /\ TrucksMove(r) /\ JobsMove(r)
<1> DEFINE u == job[r].owner
<1>1. u \in Users
    BY RowInvParts DEF JobsTyped, Complete, Leave
<1>2. /\ DOMAIN trucks' = DOMAIN trucks \ {v \in DOMAIN trucks : trucks[v].owner = u}
      /\ \A v \in DOMAIN trucks' : trucks'[v] = trucks[v]
      /\ UNCHANGED <<nextSlot, nextTruck, slotRefunds, truckRefunds>> /\ End(r)
    BY DEF Leave, Removed, Restrict
<1>3. u \notin Gone
    BY <1>1, OwnersDiffer DEF Gone
<1>4. nextTruck \in Nat /\ nextSlot \in Nat
    BY RowInvParts, BoundsAreNaturals DEF TrucksTyped, SlotsTyped
<1>5. TrucksMove(r)
    BY <1>2, <1>3, <1>4 DEF TrucksMove, RowMoves
<1>6. SlotsMove(r)
    BY <1>2, <1>4, SetOwnerKeepsSlots DEF Leave, SlotsMove
<1> QED
    BY <1>2, <1>5, <1>6, EndMovesJobs

\* Every step keeps what is said of sales.
LEMMA SalesStep ==
    ASSUME SalesInv, [Next]_vars
    PROVE  SalesInv' /\ DisposedKept
<1>1. RowInv /\ SlotSalesInv /\ TruckSalesInv /\ RowInv'
    BY RowInvStep DEF SalesInv
<1>2. CASE UNCHANGED vars
  <2>1. SlotSalesInv'
      BY <1>1, <1>2 DEF vars, fleet, SlotSalesInv, SlotSaleCrossed
  <2>2. TruckSalesInv' /\ DisposedKept
      BY <1>1, <1>2 DEF vars, fleet, TruckSalesInv, TruckSaleCrossed, DisposedKept
  <2> QED
      BY <1>1, <2>1, <2>2 DEF SalesInv
<1>3. CASE Next
  <2>1. PICK r \in Reqs : (\E c \in members : StartSomething(r, c)) \/ Write(r)
      BY <1>3 DEF Next
  <2>2. CASE \E c \in members : StartSomething(r, c)
    <3>1. PICK c \in members : StartSomething(r, c)
        BY <2>2
    <3>2. PICK j \in Jobs : /\ Complete(j) /\ Start(r, j)
                            /\ ((DisposedRest \/ j.op # "delivery") => Current(j))
                            /\ (j.op = "delivery" => j.truck \in DOMAIN trucks)
        BY <1>1, <3>1, StartsAreCurrent
    <3>3. /\ j.op \in SlotSales => Current(j)
          /\ j.op \in WritesOfASale => Current(j)
        BY <3>2 DEF SlotSales, WritesOfASale, TruckSales
    <3>4. j.op \in TruckOps => j.truck \in DOMAIN trucks
        BY <3>2 DEF Current
    <3>5. SlotSalesInv' /\ TruckSalesInv'
        BY <1>1, <3>2, <3>3, <3>4, StartKeepsSlotSales, StartKeepsTruckSales
    <3>6. UNCHANGED trucks
        BY <3>2 DEF Start, fleet
    <3>7. DisposedKept
        BY <1>1, <3>6 DEF DisposedKept, TruckSalesInv
    <3> QED
        BY <1>1, <3>5, <3>7 DEF SalesInv
  <2>3. CASE Write(r)
    <3>1. ASSUME Abandon(r) PROVE SlotsMove(r) /\ TrucksMove(r) /\ JobsMove(r)
        BY <1>1, <3>1, SlotsStay, TrucksStay, EndMovesJobs DEF Abandon, fleet
    <3>2. SlotsMove(r) /\ TrucksMove(r) /\ JobsMove(r)
        BY <1>1, <2>3, <3>1, SlotWritesMove, TruckPurchaseMoves, TruckWritesMove,
           ActivateMoves, LeaveMoves DEF Write
    <3> QED
        BY <1>1, <3>2, SlotsMoveKeeps, TrucksMoveKeeps DEF SalesInv
  <2> QED
      BY <2>1, <2>2, <2>3
<1> QED
    BY <1>2, <1>3

\* Whatever requests run at the same time, a slot or a truck whose sale was not crossed
\* is refunded once: no delivery, departure or request about another thing adds to it.
THEOREM SoldOnce == Spec => []RefundedOnce
<1>1. SalesInv /\ [Next]_vars => SalesInv'
    BY SalesStep
<1>2. SalesInv => RefundedOnce
    BY DEF SalesInv, SlotSalesInv, TruckSalesInv, RefundedOnce
<1> QED
    BY SalesInvInit, <1>1, <1>2, PTL DEF Spec

\* Whatever requests run at the same time, a truck whose sale was not crossed is never
\* transferred, parked, activated or deleted again.
THEOREM SoldForGood == Spec => DisposedIsFinal
<1>1. SalesInv /\ [Next]_vars => SalesInv'
    BY SalesStep
<1>2. SalesInv /\ [Next]_vars => [DisposedKept]_vars
    BY SalesStep
<1> QED
    BY SalesInvInit, <1>1, <1>2, PTL DEF Spec, DisposedIsFinal, DisposedKept

-----------------------------------------------------------------------------
(***************************************************************************)
(* One request at a time. Nothing that a handler read is locked, so the    *)
(* properties that relate several rows hold only where what a request read *)
(* is still so when it writes: where no other request runs in between.     *)
(***************************************************************************)
ServedAlone == \A r, q \in Reqs : r = q

\* A truck is parked in a slot that there is, of its garage, and alone.
ParkedAlone ==
    /\ \A v \in DOMAIN trucks :
        trucks[v].slot # None =>
            /\ trucks[v].slot \in DOMAIN slots
            /\ slots[trucks[v].slot].garage = trucks[v].garage
    /\ \A v, w \in DOMAIN trucks :
        trucks[v].slot # None /\ trucks[v].slot = trucks[w].slot => v = w

\* No driver has two active trucks of a model.
ActiveAlone ==
    \A d \in Users, m \in Models : \A v, w \in ActiveFor(d, m) : v = w

\* A garage with a slot has one slot that carries its price.
PricedAlone ==
    \A g \in Garages :
        /\ SlotsOf(g) # {} => PricedOf(g) # {}
        /\ \A p, q \in PricedOf(g) : p = q

TablesInv ==
    ParkedAlone /\ ActiveAlone /\ DisposedRest /\ PricedAlone

\* What every request alone keeps.
AloneInv == RowInv /\ TablesInv /\ \A r \in Reqs : Current(job[r])

\* The invariant of the tables holds of empty ones.
LEMMA AloneInvInit == Init => AloneInv
<1> SUFFICES ASSUME Init PROVE AloneInv
    OBVIOUS
<1>1. DOMAIN trucks = {} /\ DOMAIN slots = {}
    BY DEF Init
<1>2. ParkedAlone /\ ActiveAlone /\ DisposedRest
    BY <1>1 DEF ParkedAlone, ActiveAlone, DisposedRest, ActiveFor
<1>4. PricedAlone
    BY <1>1 DEF PricedAlone, SlotsOf, PricedOf, BaseOf
<1>5. \A r \in Reqs : Current(job[r])
    BY DEF Init, Current, NoJob, TruckOps, ReadingOps
<1> QED
    BY <1>2, <1>4, <1>5, RowInvInit DEF AloneInv, TablesInv

\* Where no table changes, the invariant of the tables stays.
LEMMA TablesKept ==
    ASSUME TablesInv, UNCHANGED fleet
    PROVE  TablesInv'
<1> USE DEF fleet, TablesInv
<1>1. ParkedAlone'
    BY DEF ParkedAlone
<1>2. ActiveAlone'
    BY DEF ActiveAlone, ActiveFor, Drives
<1>3. DisposedRest'
    BY DEF DisposedRest
<1>5. PricedAlone'
    BY DEF PricedAlone, SlotsOf, PricedOf, BaseOf
<1> QED
    BY <1>1, <1>2, <1>3, <1>5

\* What was read stays current as long as no table changes.
LEMMA StillCurrent ==
    ASSUME NEW j, Current(j), UNCHANGED fleet
    PROVE  Current(j)'
<1>1. /\ \A g : SlotsOf(g)' = SlotsOf(g) /\ PricedOf(g)' = PricedOf(g) /\ ParkedIn(g)' = ParkedIn(g)
      /\ \A s : ParkedAt(s)' = ParkedAt(s) /\ (FreeSlot(s)' <=> FreeSlot(s))
      /\ \A d, m : ActiveFor(d, m)' = ActiveFor(d, m)
    BY DEF fleet, SlotsOf, PricedOf, BaseOf, ParkedIn, ParkedAt, FreeSlot, ActiveFor, Drives
<1>2. slots' = slots /\ trucks' = trucks
    BY DEF fleet
<1> QED
    BY <1>1, <1>2 DEF Current

\* A request that starts alone has read everything as it is.
LEMMA StartKeepsTables ==
    ASSUME ServedAlone, AloneInv, NEW r \in Reqs, NEW c \in members, StartSomething(r, c)
    PROVE  AloneInv'
<1>6. RowInv /\ DisposedRest
    BY DEF AloneInv, TablesInv
<1>7. PICK j \in Jobs : /\ Complete(j) /\ Start(r, j)
                        /\ ((DisposedRest \/ j.op # "delivery") => Current(j))
    BY <1>6, StartsAreCurrent
<1>1. Complete(j) /\ Current(j) /\ Start(r, j)
    BY <1>6, <1>7
<1>2. UNCHANGED fleet /\ job' = [job EXCEPT ![r] = j]
    BY <1>1 DEF Start
<1>3. RowInv'
    BY <1>1, StartKeepsRows DEF AloneInv
<1>4. \A q \in Reqs : job'[q] = j
    BY <1>2, RowInvParts DEF ServedAlone, AloneInv, JobsTyped
<1>5. \A q \in Reqs : Current(job[q])'
    BY <1>1, <1>2, <1>4, StillCurrent
<1> QED
    BY <1>2, <1>3, <1>5, TablesKept DEF AloneInv

\* A request that is over leaves nothing to be current.
LEMMA NothingLeftToDo ==
    ASSUME ServedAlone, RowInv, RowInv', TablesInv', NEW r \in Reqs, End(r)
    PROVE  AloneInv'
<1>1. \A q \in Reqs : job'[q] = NoJob
    BY RowInvParts DEF ServedAlone, JobsTyped, End
<1>2. Current(NoJob)'
    BY DEF Current, NoJob, TruckOps, ReadingOps
<1> QED
    BY <1>1, <1>2 DEF AloneInv

-----------------------------------------------------------------------------
(* Alone: what the writes of slots keep.                                   *)

\* An inserted slot is its garage's first, and priced, or the garage has its
\* priced slot and this is another.
LEMMA InsertSlotKeepsTables ==
    ASSUME RowInv, TablesInv, NEW g \in Garages, NEW o, NEW base \in BOOLEAN,
           NEW priced \in BOOLEAN, InsertSlot(g, o, base, priced),
           IF base /\ priced THEN SlotsOf(g) = {} ELSE SlotsOf(g) # {}
    PROVE  TablesInv' /\ SlotsOf(g)' # {}
<1> DEFINE row == [garage |-> g, owner |-> o, base |-> base, priced |-> priced]
           n == nextSlot
<1>1. /\ DOMAIN slots' = DOMAIN slots \union {n}
      /\ \A s \in DOMAIN slots' : slots'[s] = IF s = n THEN row ELSE slots[s]
      /\ n' = n + 1 /\ slotRefunds' = slotRefunds
      /\ UNCHANGED <<trucks, nextTruck, truckRefunds>>
    BY DEF InsertSlot, Stored
<1>2. n \notin DOMAIN slots /\ n \in 1..MaxSlots + 1 /\ DOMAIN slots \subseteq 1..n - 1
    BY RowInvParts, BoundsAreNaturals DEF SlotsTyped
<1>3. row.garage = g /\ row.base = base /\ row.priced = priced
    OBVIOUS
<1> HIDE DEF row, n
<1>4. ParkedAlone'
    BY <1>1, <1>2 DEF TablesInv, ParkedAlone
<1>5. ActiveAlone' /\ DisposedRest'
    BY <1>1 DEF TablesInv, ActiveAlone, ActiveFor, Drives, DisposedRest
<1>7. \A h : SlotsOf(h)' = IF h = g THEN SlotsOf(h) \union {n} ELSE SlotsOf(h)
    BY <1>1, <1>2, <1>3 DEF SlotsOf
<1>8. \A h : PricedOf(h)' = IF h = g /\ base /\ priced THEN PricedOf(h) \union {n}
                           ELSE PricedOf(h)
    BY <1>1, <1>2, <1>3 DEF SlotsOf, PricedOf, BaseOf
<1>9. PricedOf(g) \subseteq SlotsOf(g)
    BY DEF PricedOf, BaseOf
<1>10. PricedAlone'
    BY <1>7, <1>8, <1>9 DEF TablesInv, PricedAlone
<1> QED
    BY <1>4, <1>5, <1>7, <1>10 DEF TablesInv

\* A new owner of slots disposes of no truck.
LEMMA SetOwnerKeepsTables ==
    ASSUME RowInv, TablesInv, NEW S, NEW o, SetOwner(S, o),
           UNCHANGED <<trucks, nextSlot, nextTruck, slotRefunds, truckRefunds>>
    PROVE  TablesInv'
<1>1. /\ DOMAIN slots' = DOMAIN slots
      /\ \A s \in DOMAIN slots : slots'[s].garage = slots[s].garage
      /\ \A h : SlotsOf(h)' = SlotsOf(h) /\ PricedOf(h)' = PricedOf(h)
    BY SetOwnerKeepsSlots
<1>2. ParkedAlone'
    BY <1>1 DEF TablesInv, ParkedAlone
<1>3. ActiveAlone' /\ DisposedRest'
    BY DEF TablesInv, ActiveAlone, ActiveFor, Drives, DisposedRest
<1>5. PricedAlone'
    BY <1>1 DEF TablesInv, PricedAlone
<1> QED
    BY <1>2, <1>3, <1>5 DEF TablesInv

\* The slots that are sold are empty, and are all of a garage's or none of the
\* slots that came with it; the one that is refunded goes with them.
LEMMA DeleteSlotsKeepsTables ==
    ASSUME RowInv, TablesInv, NEW r \in Reqs, NEW S, DeleteSlots(r, S),
           job[r].slot \in S \intersect DOMAIN slots,
           \A s \in S : ParkedAt(s) = {},
           \/ \E g \in Garages : S = SlotsOf(g)
           \/ \A s \in S : s \in DOMAIN slots => ~slots[s].base
    PROVE  TablesInv'
<1>1. /\ DOMAIN slots' = DOMAIN slots \ S
      /\ \A s \in DOMAIN slots' : slots'[s] = slots[s]
      /\ slotRefunds' = [slotRefunds EXCEPT ![job[r].slot] = Counted(@)]
      /\ UNCHANGED <<trucks, nextSlot, nextTruck, truckRefunds>>
    BY DEF DeleteSlots, Removed, Restrict
<1>3. ParkedAlone'
    BY <1>1 DEF TablesInv, ParkedAlone, ParkedAt
<1>4. ActiveAlone' /\ DisposedRest'
    BY <1>1 DEF TablesInv, ActiveAlone, ActiveFor, Drives, DisposedRest
<1>6. \A h : SlotsOf(h)' = SlotsOf(h) \ S /\ PricedOf(h)' = PricedOf(h) \ S
    BY <1>1 DEF SlotsOf, PricedOf, BaseOf
<1>7. PricedAlone'
  <2>1. ASSUME NEW g \in Garages, SlotsOf(g)' # {} PROVE PricedOf(g)' # {}
    <3>1. PricedOf(g) # {} /\ PricedOf(g) \subseteq SlotsOf(g)
        BY <1>6, <2>1 DEF TablesInv, PricedAlone, PricedOf, BaseOf
    <3>2. CASE \E h \in Garages : S = SlotsOf(h)
      <4>1. PICK h \in Garages : S = SlotsOf(h)
          BY <3>2
      <4>2. h # g
          BY <1>6, <2>1, <4>1
      <4>3. SlotsOf(g) \intersect S = {}
          BY <4>1, <4>2 DEF SlotsOf
      <4> QED
          BY <1>6, <3>1, <4>3
    <3>3. CASE \A s \in S : s \in DOMAIN slots => ~slots[s].base
      <4>1. PricedOf(g) \intersect S = {}
          BY <3>3 DEF PricedOf, BaseOf, SlotsOf
      <4> QED
          BY <1>6, <3>1, <4>1
    <3> QED
        BY <3>2, <3>3
  <2> QED
      BY <1>6, <2>1 DEF TablesInv, PricedAlone
<1> QED
    BY <1>3, <1>4, <1>7 DEF TablesInv

\* A garage's or a slot's request, alone, keeps the tables whole.
LEMMA SlotWritesKeepTables ==
    ASSUME ServedAlone, AloneInv, NEW r \in Reqs,
           \/ GaragePurchase(r) \/ SlotPurchase(r) \/ GarageTransfer(r)
           \/ SlotTransfer(r) \/ GarageSell(r) \/ SlotSell(r)
    PROVE  AloneInv'
<1> DEFINE j == job[r]
<1>1. RowInv /\ TablesInv /\ j \in Jobs /\ Complete(j) /\ Current(j)
    BY RowInvParts DEF AloneInv, JobsTyped
<1>2. RowInv'
    BY <1>1, SlotWritesKeepRows
<1>3. CASE GaragePurchase(r)
  <2>1. j.garage \in Garages /\ j.status \in 1..BaseSlots /\ j.op = "garage_purchase"
      BY <1>1, <1>3 DEF GaragePurchase, Complete, GarageOps
  <2>2. j.status = BaseSlots <=> SlotsOf(j.garage) = {}
      BY <1>1, <2>1 DEF Current
  <2>3. PICK g \in Garages : g = j.garage
      BY <2>1
  <2>7. InsertSlot(g, j.owner, TRUE, j.status = BaseSlots)
      BY <1>3, <2>3 DEF GaragePurchase
  <2>4. TablesInv' /\ SlotsOf(g)' # {}
      BY <1>1, <2>2, <2>3, <2>7, InsertSlotKeepsTables
  <2>5. CASE j.status = 1
      BY <1>1, <1>2, <1>3, <2>4, <2>5, NothingLeftToDo DEF GaragePurchase
  <2>6. CASE j.status # 1
    <3>1. PICK k : k = [j EXCEPT !.status = j.status - 1]
        OBVIOUS
    <3>6. job' = [job EXCEPT ![r] = k]
        BY <1>3, <2>6, <3>1 DEF GaragePurchase
    <3>2. k.op = "garage_purchase" /\ k.garage = g /\ k.status # BaseSlots
        BY <1>1, <2>1, <2>3, <3>1, BoundsAreNaturals DEF Jobs
    <3>3. SlotsOf(k.garage)' # {}
        BY <2>4, <3>2
    <3>4. Current(k)'
        BY <3>2, <3>3 DEF Current, TruckOps, ReadingOps
    <3>5. \A q \in Reqs : job'[q] = k
        BY <1>1, <3>6, RowInvParts DEF ServedAlone, JobsTyped
    <3> QED
        BY <1>2, <2>4, <3>4, <3>5 DEF AloneInv
  <2> QED
      BY <2>5, <2>6
<1>4. CASE SlotPurchase(r)
  <2>1. j.garage \in Garages /\ SlotsOf(j.garage) # {}
      BY <1>1, <1>4 DEF SlotPurchase, Complete, Current, GarageOps
  <2>2. InsertSlot(j.garage, j.owner, FALSE, TRUE) /\ End(r)
      BY <1>4 DEF SlotPurchase
  <2>3. TablesInv'
      BY <1>1, <2>1, <2>2, InsertSlotKeepsTables
  <2> QED
      BY <1>1, <1>2, <2>2, <2>3, NothingLeftToDo
<1>5. CASE GarageTransfer(r) \/ SlotTransfer(r)
  <2>1. PICK S : SetOwner(S, j.owner) /\ End(r)
                 /\ UNCHANGED <<trucks, nextSlot, nextTruck, slotRefunds, truckRefunds>>
      BY <1>5 DEF GarageTransfer, SlotTransfer
  <2>2. TablesInv'
      BY <1>1, <2>1, SetOwnerKeepsTables
  <2> QED
      BY <1>1, <1>2, <2>1, <2>2, NothingLeftToDo
<1>6. CASE GarageSell(r)
  <2> DEFINE S == SlotsOf(j.garage)
  <2>1. /\ j.op = "garage_sell" /\ j.garage \in Garages
        /\ j.slot \in PricedOf(j.garage) /\ ParkedIn(j.garage) = {}
      BY <1>1, <1>6 DEF GarageSell, Complete, Current, SlotOps
  <2>2. DeleteSlots(r, S) /\ End(r)
      BY <1>6 DEF GarageSell, DeleteSlots
  <2>3. j.slot \in S \intersect DOMAIN slots
      BY <2>1 DEF PricedOf, BaseOf, SlotsOf
  <2>4. \A s \in S : ParkedAt(s) = {}
    <3>1. ASSUME NEW s \in S, NEW v \in ParkedAt(s) PROVE v \in ParkedIn(j.garage)
      <4>1. s # None /\ slots[s].garage = j.garage
          BY <1>1, RowInvParts, BoundsAreNaturals, NullIsNoName DEF SlotsOf, SlotsTyped
      <4> QED
          BY <1>1, <4>1 DEF TablesInv, ParkedAlone, ParkedAt, ParkedIn
    <3> QED
        BY <2>1, <3>1
  <2>5. TablesInv'
      BY <1>1, <2>1, <2>2, <2>3, <2>4, DeleteSlotsKeepsTables
  <2> QED
      BY <1>1, <1>2, <2>2, <2>5, NothingLeftToDo
<1>7. CASE SlotSell(r)
  <2>1. DeleteSlots(r, {j.slot}) /\ End(r)
      BY <1>7 DEF SlotSell, DeleteSlots
  <2>2. j.slot \in DOMAIN slots /\ ~slots[j.slot].base /\ ParkedAt(j.slot) = {}
      BY <1>1, <1>7 DEF SlotSell, Current
  <2>3. TablesInv'
      BY <1>1, <2>1, <2>2, DeleteSlotsKeepsTables
  <2> QED
      BY <1>1, <1>2, <2>1, <2>3, NothingLeftToDo
<1> QED
    BY <1>3, <1>4, <1>5, <1>6, <1>7

-----------------------------------------------------------------------------
(* Alone: what the writes of trucks keep.                                  *)

\* Where slots are left alone, PricedAlone stays.
LEMMA SlotTablesKept ==
    ASSUME TablesInv, UNCHANGED slots
    PROVE  PricedAlone'
  BY DEF TablesInv, PricedAlone, PricedOf, BaseOf, SlotsOf

\* A row may be put where there is none, or in place of its own, when its slot
\* is free or its own, no other truck of its driver's is active beside it, and a
\* disposed truck rests.
Fits(v, row) ==
    /\ row.slot # None =>
        /\ row.slot \in DOMAIN slots /\ slots[row.slot].garage = row.garage
        /\ \A w \in ParkedAt(row.slot) : w = v
    /\ row.status = 1 => \A d \in Users : d \in {row.owner, row.assignee} =>
                            \A w \in ActiveFor(d, row.model) : w = v
    /\ row.owner \in Gone => row.slot = None /\ row.status # 1

\* A row that fits disturbs no other row.
LEMMA RowFits ==
    ASSUME RowInv, TablesInv, NEW v, NEW row, Fits(v, row),
           DOMAIN trucks' \subseteq DOMAIN trucks \union {v},
           \A w \in DOMAIN trucks' : trucks'[w] = IF w = v THEN row ELSE trucks[w],
           slots' = slots
    PROVE  ParkedAlone' /\ ActiveAlone' /\ DisposedRest'
<1>1. ParkedAlone'
    BY DEF TablesInv, ParkedAlone, Fits, ParkedAt
<1>2. ActiveAlone'
  <2>1. SUFFICES ASSUME NEW d \in Users, NEW m \in Models,
                        NEW x \in ActiveFor(d, m)', NEW y \in ActiveFor(d, m)'
                 PROVE  x = y
      BY DEF ActiveAlone
  <2>2. \A w \in ActiveFor(d, m)' : w # v => w \in ActiveFor(d, m)
      BY DEF ActiveFor, Drives
  <2>3. ASSUME v \in ActiveFor(d, m)' PROVE \A w \in ActiveFor(d, m) : w = v
      BY <2>3 DEF ActiveFor, Drives, Fits
  <2>4. \A w, z \in ActiveFor(d, m) : w = z
      BY DEF TablesInv, ActiveAlone
  <2> QED
      BY <2>2, <2>3, <2>4
<1>3. DisposedRest'
    BY DEF TablesInv, DisposedRest, Fits
<1> QED
    BY <1>1, <1>2, <1>3

\* The UPDATE of a truck that nobody disposed of, by a row that fits.
LEMMA SetTruckKeepsTables ==
    ASSUME ServedAlone, AloneInv, NEW r \in Reqs, NEW row, SetTruck(r, row), RowInv',
           job[r].truck \in DOMAIN trucks, trucks[job[r].truck].owner \notin Gone,
           Fits(job[r].truck, row)
    PROVE  AloneInv'
<1>1. PICK v : v = job[r].truck
    OBVIOUS
<1>2. /\ DOMAIN trucks' = DOMAIN trucks
      /\ \A w \in DOMAIN trucks : trucks'[w] = IF w = v THEN row ELSE trucks[w]
    BY <1>1 DEF SetTruck
<1>3. RowInv /\ TablesInv
    BY DEF AloneInv
<1>4. slots' = slots
    BY DEF SetTruck
<1>5. ParkedAlone' /\ ActiveAlone' /\ DisposedRest'
    BY <1>1, <1>2, <1>3, <1>4, RowFits
<1>7. PricedAlone'
    BY <1>3, <1>4, SlotTablesKept
<1>9. End(r)
    BY DEF SetTruck
<1> QED
    BY <1>3, <1>5, <1>7, <1>9, NothingLeftToDo DEF TablesInv

\* The own row of a truck fits, and so does one that differs in its wear, or
\* that is not active any more.
LEMMA OwnRowFits ==
    ASSUME AloneInv, NEW v \in DOMAIN trucks, trucks[v].owner \notin Gone
    PROVE  /\ trucks[v] \in TruckRows
           /\ \A row \in TruckRows :
                /\ row.slot = trucks[v].slot /\ row.garage = trucks[v].garage
                /\ row.owner = trucks[v].owner /\ row.assignee = trucks[v].assignee
                /\ row.model = trucks[v].model
                /\ row.status = 1 => trucks[v].status = 1
                => Fits(v, row)
<1>1. RowInv /\ TablesInv /\ trucks[v] \in TruckRows
    BY RowInvParts DEF AloneInv, TrucksTyped
<1>2. SUFFICES ASSUME NEW row \in TruckRows,
                      row.slot = trucks[v].slot, row.garage = trucks[v].garage,
                      row.owner = trucks[v].owner, row.assignee = trucks[v].assignee,
                      row.model = trucks[v].model, row.status = 1 => trucks[v].status = 1
               PROVE  Fits(v, row)
    BY <1>1
<1>3. row.slot # None =>
        /\ row.slot \in DOMAIN slots /\ slots[row.slot].garage = row.garage
        /\ \A w \in ParkedAt(row.slot) : w = v
    BY <1>1, <1>2 DEF TablesInv, ParkedAlone, ParkedAt
<1>4. ASSUME row.status = 1, NEW d \in Users, d \in {row.owner, row.assignee},
             NEW w \in ActiveFor(d, row.model)
      PROVE  w = v
  <2>1. v \in ActiveFor(d, row.model) /\ row.model \in Models
      BY <1>2, <1>4 DEF ActiveFor, Drives, TruckRows
  <2> QED
      BY <1>1, <1>4, <2>1 DEF TablesInv, ActiveAlone
<1> QED
    BY <1>2, <1>3, <1>4 DEF Fits

\* What the request about a truck has read, from RowInv and Current.
LEMMA TruckWasRead ==
    ASSUME AloneInv, NEW r \in Reqs, job[r].op \in TruckOps
    PROVE  LET j == job[r]
               t == trucks[j.truck]
           IN  /\ j.truck \in DOMAIN trucks /\ t \in TruckRows
               /\ t.owner \notin Gone /\ t.owner \in Owners /\ t.model = j.model
               /\ t.owner \in Users => t.assignee = t.owner
               /\ j.op \in ReadingOps => t.owner = j.owner /\ t.assignee = j.assignee
<1>1. RowInv /\ Current(job[r])
    BY DEF AloneInv
<1>2. job[r].truck \in DOMAIN trucks
    BY <1>1 DEF Current
<1> QED
    BY <1>1, <1>2, RowInvParts DEF Current, TrucksTyped, TruckRows, OwnersDriveTheirTrucks

\* Every request that writes one truck, alone, writes a row that fits.
LEMMA TruckWritesKeepTables ==
    ASSUME ServedAlone, AloneInv, NEW r \in Reqs,
           \/ TruckTransfer(r) \/ Relocate(r) \/ Deactivate(r) \/ Repair(r)
           \/ TruckSell(r) \/ Scrap(r)
           \/ \E damage, distance \in {0, 1} : Delivery(r, damage, distance)
    PROVE  AloneInv'
<1> DEFINE j == job[r]
           t == trucks[j.truck]
<1>1. j \in Jobs /\ Complete(j) /\ Current(j) /\ RowInv /\ TablesInv
    BY RowInvParts DEF AloneInv, JobsTyped
<1>2. RowInv'
    BY <1>1, TruckWritesKeepRows
<1>3. j.op \in TruckOps
    BY DEF TruckTransfer, Relocate, Deactivate, Repair, TruckSell, Scrap, Delivery,
           TruckOps, ReadingOps
<1>4. /\ j.truck \in DOMAIN trucks /\ t \in TruckRows
      /\ t.owner \notin Gone /\ t.owner \in Owners /\ t.model = j.model
      /\ t.owner \in Users => t.assignee = t.owner
      /\ j.op \in ReadingOps => t.owner = j.owner /\ t.assignee = j.assignee
    BY <1>3, TruckWasRead
<1>5. \A row \in TruckRows :
        /\ row.slot = t.slot /\ row.garage = t.garage /\ row.owner = t.owner
        /\ row.assignee = t.assignee /\ row.model = t.model
        /\ row.status = 1 => t.status = 1
        => Fits(j.truck, row)
    BY <1>4, OwnRowFits
<1>6. t.slot # None =>
        /\ t.slot \in DOMAIN slots /\ slots[t.slot].garage = t.garage
        /\ \A w \in ParkedAt(t.slot) : w = j.truck
    BY <1>1, <1>4 DEF TablesInv, ParkedAlone, ParkedAt
<1>7. t.status = 1 => \A d \in Users : d \in {t.owner, t.assignee} =>
                        \A w \in ActiveFor(d, t.model) : w = j.truck
  <2>1. Fits(j.truck, t)
      BY <1>4, <1>5
  <2> QED
      BY <2>1 DEF Fits
<1> HIDE DEF t
<1>8. CASE TruckTransfer(r)
  <2> DEFINE row == [t EXCEPT !.owner = j.owner, !.assignee = j.assignee, !.status = j.status]
  <2>1. j.owner \notin Gone /\ (j.status = 1 =>
            \A d \in Users : d \in {j.owner, j.assignee} => ActiveFor(d, j.model) = {})
      BY <1>1, <1>8, OwnersDiffer DEF TruckTransfer, Complete, Current, Owners, Gone
  <2>2. /\ row.slot = t.slot /\ row.garage = t.garage /\ row.owner = j.owner
        /\ row.assignee = j.assignee /\ row.model = j.model /\ row.status = j.status
      BY <1>4 DEF TruckRows
  <2>3. SetTruck(r, row) /\ truckRefunds' = truckRefunds
      BY <1>8 DEF TruckTransfer, t
  <2> HIDE DEF row
  <2>4. Fits(j.truck, row)
      BY <1>6, <2>1, <2>2 DEF Fits
  <2> QED
      BY <1>2, <1>4, <2>3, <2>4, SetTruckKeepsTables DEF t
<1>9. CASE Relocate(r)
  <2> DEFINE row == [t EXCEPT !.slot = j.slot, !.garage = j.garage]
  <2>1. FreeSlot(j.slot) /\ slots[j.slot].garage = j.garage
      BY <1>1, <1>9 DEF Relocate, Current
  <2>2. /\ row.slot = j.slot /\ row.garage = j.garage /\ row.owner = t.owner
        /\ row.assignee = t.assignee /\ row.model = t.model /\ row.status = t.status
      BY <1>4 DEF TruckRows
  <2>3. SetTruck(r, row) /\ truckRefunds' = truckRefunds
      BY <1>9 DEF Relocate, t
  <2> HIDE DEF row
  <2>4. Fits(j.truck, row)
      BY <1>4, <1>7, <2>1, <2>2 DEF Fits, FreeSlot
  <2> QED
      BY <1>2, <1>4, <2>3, <2>4, SetTruckKeepsTables DEF t
<1>10. CASE Deactivate(r)
  <2> DEFINE row == [t EXCEPT !.status = 0]
  <2>1. row \in TruckRows
      BY <1>4, TruckColumns DEF Statuses
  <2>2. /\ row.slot = t.slot /\ row.garage = t.garage /\ row.owner = t.owner
        /\ row.assignee = t.assignee /\ row.model = t.model /\ row.status = 0
      BY <1>4 DEF TruckRows
  <2>3. SetTruck(r, row) /\ truckRefunds' = truckRefunds
      BY <1>10 DEF Deactivate, t
  <2> HIDE DEF row
  <2>4. Fits(j.truck, row)
      BY <1>5, <2>1, <2>2
  <2> QED
      BY <1>2, <1>4, <2>3, <2>4, SetTruckKeepsTables DEF t
<1>11. CASE Repair(r)
  <2> DEFINE status == IF j.status = -1 THEN StatusFor(j.owner, j.assignee, j.model)
                       ELSE t.status
             row == [t EXCEPT !.damage = 0, !.status = status]
  <2>1. t.owner = j.owner /\ t.assignee = j.assignee
      BY <1>4, <1>11 DEF Repair, ReadingOps
  <2>2. CASE UNCHANGED fleet /\ End(r)
      BY <1>1, <1>2, <2>2, TablesKept, NothingLeftToDo
  <2>3. CASE /\ ~(j.status = -1 /\ DriverOf(j.owner, j.assignee) = None)
             /\ SetTruck(r, row) /\ truckRefunds' = truckRefunds
    <3>1. /\ row.slot = t.slot /\ row.garage = t.garage /\ row.owner = t.owner
          /\ row.assignee = t.assignee /\ row.model = t.model /\ row.status = status
        BY <1>4 DEF TruckRows
    <3>2. status = 1 => \A d \in Users : d \in {t.owner, t.assignee} =>
                            \A w \in ActiveFor(d, t.model) : w = j.truck
      <4>1. CASE j.status # -1
          BY <1>7, <4>1
      <4>2. CASE j.status = -1
        <5>1. status = 1 => ActiveFor(DriverOf(t.owner, t.assignee), t.model) = {}
            BY <1>4, <2>1, <2>3, <4>2 DEF StatusFor
        <5>2. \A d \in Users : d \in {t.owner, t.assignee} => d = DriverOf(t.owner, t.assignee)
            BY <1>4, OwnersDiffer DEF DriverOf, Owners
        <5> QED
            BY <5>1, <5>2
      <4> QED
          BY <4>1, <4>2
    <3> HIDE DEF row, status
    <3>3. Fits(j.truck, row)
        BY <1>4, <1>6, <3>1, <3>2 DEF Fits
    <3> QED
        BY <1>2, <1>4, <2>3, <3>3, SetTruckKeepsTables DEF t
  <2> QED
      BY <1>11, <2>2, <2>3 DEF Repair, t
<1>12. CASE TruckSell(r) \/ Scrap(r)
  <2>1. PICK to \in Gone : Dispose(r, to)
      BY <1>12 DEF TruckSell, Scrap, Gone
  <2> DEFINE row == [t EXCEPT !.owner = to, !.status = 0, !.slot = None, !.garage = None]
  <2>2. row.slot = None /\ row.status = 0 /\ row.owner = to
      BY <1>4 DEF TruckRows
  <2>3. /\ SetTruck(r, row)
        /\ truckRefunds' = [truckRefunds EXCEPT ![j.truck] = Counted(@)]
      BY <2>1 DEF Dispose, t
  <2> HIDE DEF row
  <2>4. Fits(j.truck, row)
      BY <2>2 DEF Fits
  <2> QED
      BY <1>2, <1>4, <2>2, <2>3, <2>4, SetTruckKeepsTables DEF t
<1>13. CASE \E damage, distance \in {0, 1} : Delivery(r, damage, distance)
  <2>1. PICK damage \in {0, 1}, distance \in {0, 1} : Delivery(r, damage, distance)
      BY <1>13
  <2> DEFINE status == IF j.odometer + distance > MaxDistance THEN -2
                       ELSE IF j.damage + damage > MaxWear THEN -1 ELSE t.status
             d == Capped(t.damage + damage, MaxWear)
             m == Capped(t.odometer + distance, MaxDistance)
             row == [t EXCEPT !.damage = d, !.odometer = m, !.status = status]
  <2>2. /\ row.slot = t.slot /\ row.garage = t.garage /\ row.owner = t.owner
        /\ row.assignee = t.assignee /\ row.model = t.model
        /\ row.status \in {-2, -1, t.status}
      BY <1>4 DEF TruckRows
  <2>3. SetTruck(r, row) /\ truckRefunds' = truckRefunds
      BY <2>1 DEF Delivery, t
  <2> HIDE DEF row
  <2>4. row.status = 1 => t.status = 1
      BY <2>2
  <2>5. Fits(j.truck, row)
      BY <1>4, <1>6, <1>7, <2>2, <2>4 DEF Fits
  <2> QED
      BY <1>2, <1>4, <2>3, <2>5, SetTruckKeepsTables DEF t
<1> QED
    BY <1>8, <1>9, <1>10, <1>11, <1>12, <1>13

\* A truck that is bought, alone, gets a free slot and conflicts with none.
LEMMA TruckPurchaseKeepsTables ==
    ASSUME ServedAlone, AloneInv, NEW r \in Reqs, TruckPurchase(r)
    PROVE  AloneInv'
<1> DEFINE j == job[r]
           row == [model |-> j.model, garage |-> j.garage, slot |-> j.slot,
                   owner |-> j.owner, assignee |-> j.assignee, status |-> j.status,
                   damage |-> 0, odometer |-> 0]
<1>1. j \in Jobs /\ Complete(j) /\ Current(j) /\ RowInv /\ TablesInv
    BY RowInvParts DEF AloneInv, JobsTyped
<1>2. RowInv' /\ j.op = "truck_purchase"
    BY <1>1, TruckPurchaseKeepsRows DEF TruckPurchase
<1>3. PICK v : v = nextTruck
    OBVIOUS
<1>4. /\ DOMAIN trucks' = DOMAIN trucks \union {v}
      /\ \A w \in DOMAIN trucks' : trucks'[w] = IF w = v THEN row ELSE trucks[w]
      /\ nextTruck' = v + 1
      /\ UNCHANGED <<slots, nextSlot, slotRefunds, truckRefunds>> /\ End(r)
    BY <1>3 DEF TruckPurchase, Stored
<1>5. v \in Nat /\ v \notin DOMAIN trucks /\ DOMAIN trucks \subseteq 1..v - 1
    BY <1>1, <1>3, RowInvParts, BoundsAreNaturals DEF TrucksTyped
<1>6. /\ row.slot = j.slot /\ row.garage = j.garage /\ row.owner = j.owner
      /\ row.assignee = j.assignee /\ row.model = j.model /\ row.status = j.status
    OBVIOUS
<1> HIDE DEF row
<1>7. Fits(v, row)
  <2>1. j.owner \notin Gone
      BY <1>1, <1>2, OwnersDiffer DEF Complete, Owners, Gone
  <2> QED
      BY <1>1, <1>2, <1>6, <2>1 DEF Fits, Current, FreeSlot
<1>8. ParkedAlone' /\ ActiveAlone' /\ DisposedRest'
    BY <1>1, <1>4, <1>7, RowFits
<1>10. PricedAlone'
    BY <1>1, <1>4, SlotTablesKept
<1> QED
    BY <1>1, <1>2, <1>4, <1>8, <1>10, NothingLeftToDo DEF TablesInv

\* The truck that is activated, alone, is its driver's only active one of the
\* model: all the others were switched off.
LEMMA ActivateKeepsTables ==
    ASSUME ServedAlone, AloneInv, NEW r \in Reqs, Activate(r)
    PROVE  AloneInv'
<1> DEFINE j == job[r]
           off(v) == /\ DriverOf(j.owner, j.assignee) # None
                     /\ Drives(DriverOf(j.owner, j.assignee), v)
                     /\ trucks[v].model = j.model
           status(v) == IF v = j.truck THEN 1 ELSE IF off(v) THEN 0 ELSE trucks[v].status
<1>1. RowInv /\ TablesInv /\ RowInv' /\ j.op = "activate" /\ j.op \in TruckOps
    BY ActivateKeepsRows DEF AloneInv, Activate, TruckOps, ReadingOps
<1>2. /\ j.truck \in DOMAIN trucks /\ trucks[j.truck].owner = j.owner
      /\ trucks[j.truck].assignee = j.assignee /\ trucks[j.truck].model = j.model
      /\ j.owner \notin Gone /\ j.owner \in Owners
      /\ j.owner \in Users => j.assignee = j.owner
    BY <1>1, TruckWasRead DEF ReadingOps
<1>3. /\ DOMAIN trucks' = DOMAIN trucks
      /\ \A v \in DOMAIN trucks :
            /\ trucks'[v].slot = trucks[v].slot /\ trucks'[v].garage = trucks[v].garage
            /\ trucks'[v].owner = trucks[v].owner /\ trucks'[v].model = trucks[v].model
            /\ trucks'[v].assignee = trucks[v].assignee /\ trucks'[v].status = status(v)
  <2>1. trucks' = [v \in DOMAIN trucks |->
                    IF v = j.truck THEN [trucks[v] EXCEPT !.status = 1]
                    ELSE IF off(v) THEN [trucks[v] EXCEPT !.status = 0]
                    ELSE trucks[v]]
      BY DEF Activate
  <2> HIDE DEF off
  <2>2. \A v \in DOMAIN trucks : trucks[v] \in TruckRows
      BY <1>1, RowInvParts DEF TrucksTyped
  <2> QED
      BY <2>1, <2>2 DEF TruckRows
<1>4. UNCHANGED <<slots, nextSlot, nextTruck, slotRefunds, truckRefunds>> /\ End(r)
    BY DEF Activate
<1>5. ParkedAlone'
    BY <1>1, <1>3, <1>4 DEF TablesInv, ParkedAlone
<1>6. ActiveAlone'
  <2>1. SUFFICES ASSUME NEW d \in Users, NEW m \in Models,
                        NEW x \in ActiveFor(d, m)', NEW y \in ActiveFor(d, m)'
                 PROVE  x = y
      BY DEF ActiveAlone
  <2>2. \A w \in ActiveFor(d, m)' :
            /\ w \in DOMAIN trucks /\ Drives(d, w) /\ trucks[w].model = m /\ status(w) = 1
      BY <1>3 DEF ActiveFor, Drives
  <2>3. ASSUME j.truck \in ActiveFor(d, m)', NEW w \in ActiveFor(d, m)' PROVE w = j.truck
    <3>1. d = DriverOf(j.owner, j.assignee) /\ d # None /\ j.model = m
        BY <1>2, <2>2, <2>3, OwnersDiffer DEF DriverOf, Drives, Owners
    <3> QED
        BY <2>2, <3>1
  <2>4. \A w \in ActiveFor(d, m)' : w # j.truck => w \in ActiveFor(d, m)
      BY <2>2 DEF ActiveFor
  <2>5. \A w, z \in ActiveFor(d, m) : w = z
      BY <1>1 DEF TablesInv, ActiveAlone
  <2> QED
      BY <2>3, <2>4, <2>5
<1>7. DisposedRest'
    BY <1>1, <1>2, <1>3 DEF TablesInv, DisposedRest
<1>9. PricedAlone'
    BY <1>1, <1>4, SlotTablesKept
<1> QED
    BY <1>1, <1>4, <1>5, <1>6, <1>7, <1>9, NothingLeftToDo DEF TablesInv

\* A driver who leaves takes trucks away and leaves the slots where they are.
LEMMA LeaveKeepsTables ==
    ASSUME ServedAlone, AloneInv, NEW r \in Reqs, Leave(r)
    PROVE  AloneInv'
<1> DEFINE u == job[r].owner
<1>1. RowInv /\ TablesInv /\ RowInv' /\ u \in Users
    BY RowInvParts, LeaveKeepsRows DEF AloneInv, JobsTyped, Complete, Leave
<1>2. /\ DOMAIN trucks' = DOMAIN trucks \ {v \in DOMAIN trucks : trucks[v].owner = u}
      /\ \A v \in DOMAIN trucks' : trucks'[v] = trucks[v]
    BY DEF Leave, Removed, Restrict
<1>3. UNCHANGED <<nextSlot, nextTruck, slotRefunds, truckRefunds>> /\ End(r)
    BY DEF Leave
<1>4. /\ DOMAIN slots' = DOMAIN slots
      /\ \A s \in DOMAIN slots : slots'[s].garage = slots[s].garage
      /\ \A h : SlotsOf(h)' = SlotsOf(h) /\ PricedOf(h)' = PricedOf(h)
    BY <1>1, SetOwnerKeepsSlots DEF Leave
<1>5. ParkedAlone'
    BY <1>1, <1>2, <1>4 DEF TablesInv, ParkedAlone
<1>6. \A d, m : ActiveFor(d, m)' \subseteq ActiveFor(d, m)
    BY <1>2 DEF ActiveFor, Drives
<1>7. ActiveAlone'
    BY <1>1, <1>6 DEF TablesInv, ActiveAlone
<1>9. DisposedRest'
    BY <1>1, <1>2 DEF TablesInv, DisposedRest
<1>11. PricedAlone'
    BY <1>1, <1>4 DEF TablesInv, PricedAlone
<1> QED
    BY <1>1, <1>3, <1>5, <1>7, <1>9, <1>11, NothingLeftToDo DEF TablesInv

\* Every step of the system that serves one request at a time.
LEMMA AloneStep ==
    ASSUME ServedAlone, AloneInv, [Next]_vars
    PROVE  AloneInv'
<1>1. CASE UNCHANGED vars
  <2>1. UNCHANGED fleet /\ job' = job
      BY <1>1 DEF vars
  <2>2. RowInv'
      BY <1>1, RowInvStep DEF AloneInv
  <2>3. \A r \in Reqs : \A j : j = job[r] => Current(j)'
      BY <2>1, StillCurrent DEF AloneInv
  <2>4. \A r \in Reqs : Current(job[r])'
      BY <2>1, <2>3
  <2> QED
      BY <2>1, <2>2, <2>4, TablesKept DEF AloneInv
<1>2. CASE Next
  <2>1. PICK r \in Reqs : (\E c \in members : StartSomething(r, c)) \/ Write(r)
      BY <1>2 DEF Next
  <2>2. CASE \E c \in members : StartSomething(r, c)
      BY <2>2, StartKeepsTables
  <2>3. CASE Abandon(r)
    <3>1. RowInv'
        BY <1>2, RowInvStep DEF AloneInv
    <3> QED
        BY <2>3, <3>1, TablesKept, NothingLeftToDo DEF Abandon, AloneInv
  <2> QED
      BY <2>1, <2>2, <2>3, SlotWritesKeepTables, TruckPurchaseKeepsTables,
         TruckWritesKeepTables, ActivateKeepsTables, LeaveKeepsTables DEF Write
<1> QED
    BY <1>1, <1>2

\* Sets whose elements are all equal.
LEMMA AtMostOne ==
    ASSUME NEW S, \A x, y \in S : x = y
    PROVE  /\ Cardinality(S) <= 1
           /\ S # {} => Cardinality(S) = 1
<1>1. CASE S = {}
    BY <1>1, FS_EmptySet
<1>2. CASE S # {}
  <2>1. PICK x \in S : S = {x}
      BY <1>2
  <2> QED
      BY <2>1, FS_Singleton
<1> QED
    BY <1>1, <1>2

\* The properties of the runs are conjuncts of the invariant, said in numbers.
LEMMA AloneInvImplies ==
    ASSUME AloneInv
    PROVE  ParkedTrucksHaveASlot /\ OneActiveTruckPerModel /\ GaragesStayWhole
<1>1. RowInv /\ TablesInv
    BY DEF AloneInv
<1>2. ParkedTrucksHaveASlot
  <2>1. ASSUME NEW s \in DOMAIN slots PROVE \A v, w \in ParkedAt(s) : v = w
    <3>1. s # None
        BY <1>1, RowInvParts, BoundsAreNaturals, NullIsNoName DEF SlotsTyped
    <3> QED
        BY <1>1, <3>1 DEF TablesInv, ParkedAlone, ParkedAt
  <2> QED
      BY <1>1, <2>1, AtMostOne DEF ParkedTrucksHaveASlot, TablesInv, ParkedAlone
<1>3. OneActiveTruckPerModel
    BY <1>1, AtMostOne DEF OneActiveTruckPerModel, TablesInv, ActiveAlone
<1>5. GaragesStayWhole
    BY <1>1, AtMostOne DEF GaragesStayWhole, TablesInv, PricedAlone
<1> QED
    BY <1>2, <1>3, <1>5

\* Where requests are served one at a time, every truck is parked alone in a
\* slot of its garage, and no slot is sold from under it.
THEOREM AloneParked == ServedAlone => (Spec => []ParkedTrucksHaveASlot)
<1> SUFFICES ASSUME ServedAlone PROVE Spec => []ParkedTrucksHaveASlot
    OBVIOUS
<1>1. AloneInv /\ [Next]_vars => AloneInv'
    BY AloneStep
<1>2. AloneInv => ParkedTrucksHaveASlot
    BY AloneInvImplies
<1> QED
    BY AloneInvInit, <1>1, <1>2, PTL DEF Spec

\* Where requests are served one at a time, no driver has two active trucks of
\* a model: every handler that activates one has looked at all the others.
THEOREM AloneActive == ServedAlone => (Spec => []OneActiveTruckPerModel)
<1> SUFFICES ASSUME ServedAlone PROVE Spec => []OneActiveTruckPerModel
    OBVIOUS
<1>1. AloneInv /\ [Next]_vars => AloneInv'
    BY AloneStep
<1>2. AloneInv => OneActiveTruckPerModel
    BY AloneInvImplies
<1> QED
    BY AloneInvInit, <1>1, <1>2, PTL DEF Spec

\* Where requests are served one at a time, a garage with any slot has exactly
\* one that carries its price, even after a purchase that died half-way.
THEOREM AloneWhole == ServedAlone => (Spec => []GaragesStayWhole)
<1> SUFFICES ASSUME ServedAlone PROVE Spec => []GaragesStayWhole
    OBVIOUS
<1>1. AloneInv /\ [Next]_vars => AloneInv'
    BY AloneStep
<1>2. AloneInv => GaragesStayWhole
    BY AloneInvImplies
<1> QED
    BY AloneInvInit, <1>1, <1>2, PTL DEF Spec
=============================================================================
