-------------------------- MODULE RegistersProofs --------------------------
(***************************************************************************)
(* What read and write by id leaves standing, for any number of requests   *)
(* and rows.                                                               *)
(***************************************************************************)
EXTENDS Registers, TLAPS

(* The rows a request can be about; what the columns hold is never used.   *)
Shape ==
  /\ DOMAIN slots = Slots
  /\ DOMAIN parcels = Parcels /\ DOMAIN alerts = Alerts /\ DOMAIN requests = Requests
  /\ overlapped \in BOOLEAN
  /\ \A r \in Requests : requests[r] # Idle =>
       requests[r].row \in (IF register = "parking" THEN Slots ELSE Parcels)

OneSlotPerCar == \A s, t \in Slots : slots[s] = slots[t] /\ slots[s] # None => s = t

(* What a request has read is still so, as long as no other is under way   *)
(* for the same row.                                                       *)
ReadsHold ==
  ~overlapped =>
    /\ \A q, r \in Requests :
         requests[q] # Idle /\ requests[r] # Idle /\ requests[q].row = requests[r].row => q = r
    /\ \A r \in Requests : requests[r] # Idle =>
         /\ register = "parking" => slots[requests[r].row] \in {None, requests[r].to}
         /\ register = "parcels" => parcels[requests[r].row] \notin Final

IInv == Shape /\ OneSlotPerCar /\ ReadsHold
-----------------------------------------------------------------------------
LEMMA FinalIsFinal ==
  ASSUME NEW from, NEW to, from \in Statuses, CanTransition(from, to)
  PROVE  from \notin Final
  BY DEF CanTransition, Final, Statuses, Open

(* What Take and Done do to the requests.                                  *)
LEMMA Taken ==
  ASSUME IInv, NEW r \in Requests, NEW row, NEW to, Take(r, row, to)
  PROVE  /\ DOMAIN requests' = Requests /\ overlapped' \in BOOLEAN
         /\ requests[r] = Idle /\ requests'[r].row = row /\ requests'[r].to = to
         /\ \A q \in Requests \ {r} : requests'[q] = requests[q]
         /\ ~overlapped' => ~overlapped /\ \A q \in Requests : requests[q].row # row
  BY DEF IInv, Shape, Take

LEMMA Finished ==
  ASSUME IInv, NEW r \in Requests, Done(r)
  PROVE  /\ DOMAIN requests' = Requests /\ requests'[r] = Idle
         /\ \A q \in Requests \ {r} : requests'[q] = requests[q]
  BY DEF IInv, Shape, Done

LEMMA ParkingStep ==
  ASSUME IInv, Parking
  PROVE  IInv'
<1>1. register = "parking" /\ UNCHANGED <<register, parcels, alerts>>
  BY DEF Parking, RegisterVehicle, DeregisterVehicle, Release, ReadAllot, WriteAllot
<1>2. ASSUME UNCHANGED <<requests, overlapped>>,
             DOMAIN slots' = Slots,
             \A s \in Slots : slots'[s] \in {slots[s], None}
      PROVE  IInv'
  BY <1>1, <1>2 DEF IInv, Shape, OneSlotPerCar, ReadsHold
<1>3. ASSUME NEW v \in Cars, RegisterVehicle(v) \/ DeregisterVehicle(v)  PROVE IInv'
  <2>1. /\ UNCHANGED <<requests, overlapped>>
        /\ DOMAIN slots' = Slots
        /\ \A s \in Slots : slots'[s] \in {slots[s], None}
    BY <1>3 DEF RegisterVehicle, DeregisterVehicle, IInv, Shape
  <2> QED  BY <1>2, <2>1
<1>4. ASSUME NEW s \in Slots, Release(s)  PROVE IInv'
  <2>1. /\ UNCHANGED <<requests, overlapped>>
        /\ DOMAIN slots' = Slots
        /\ \A t \in Slots : slots'[t] \in {slots[t], None}
    BY <1>4 DEF Release, IInv, Shape
  <2> QED  BY <1>2, <2>1
<1>5. ASSUME NEW r \in Requests, NEW s \in Slots, NEW v \in Cars, ReadAllot(r, s, v)  PROVE IInv'
  <2>1. Take(r, s, v) /\ slots' = slots /\ slots[s] \in {None, v}
    BY <1>5 DEF ReadAllot, Free
  <2>2. /\ DOMAIN requests' = Requests /\ overlapped' \in BOOLEAN
        /\ requests[r] = Idle /\ requests'[r].row = s /\ requests'[r].to = v
        /\ \A q \in Requests \ {r} : requests'[q] = requests[q]
        /\ ~overlapped' => ~overlapped /\ \A q \in Requests : requests[q].row # s
    BY <2>1, Taken
  <2>3. Shape' /\ OneSlotPerCar'
    BY <1>1, <2>1, <2>2 DEF IInv, Shape, OneSlotPerCar, Idle
  <2>4. ReadsHold'  BY <1>1, <2>1, <2>2 DEF IInv, ReadsHold, Idle
  <2> QED  BY <2>3, <2>4 DEF IInv
<1>6. ASSUME NEW r \in Requests, WriteAllot(r)  PROVE IInv'
  <2> DEFINE s == requests[r].row
             v == requests[r].to
  <2>1. /\ requests[r] # Idle /\ s \in Slots /\ overlapped' = overlapped
        /\ Done(r)
    BY <1>1, <1>6 DEF WriteAllot, IInv, Shape
  <2>2. /\ DOMAIN requests' = Requests /\ requests'[r] = Idle
        /\ \A q \in Requests \ {r} : requests'[q] = requests[q]
    BY <2>1, Finished
  <2>3. CASE \E t \in Slots \ {s} : slots[t] = v
    <3>1. slots' = slots  BY <1>6, <2>3 DEF WriteAllot
    <3>2. Shape' /\ OneSlotPerCar'
      BY <1>1, <2>1, <2>2, <3>1 DEF IInv, Shape, OneSlotPerCar
    <3>3. ReadsHold'  BY <1>1, <2>1, <2>2, <3>1 DEF IInv, Shape, ReadsHold
    <3> QED  BY <3>2, <3>3 DEF IInv
  <2>4. CASE ~\E t \in Slots \ {s} : slots[t] = v
    <3>1. slots' = [slots EXCEPT ![s] = v]  BY <1>6, <2>4 DEF WriteAllot
    <3>2. slots'[s] = v /\ \A t \in Slots \ {s} : slots'[t] = slots[t] /\ slots[t] # v
      BY <2>1, <2>4, <3>1 DEF IInv, Shape
    <3>3. OneSlotPerCar'  BY <2>1, <3>2 DEF IInv, OneSlotPerCar
    <3>4. ReadsHold'
      BY <1>1, <2>1, <2>2, <3>2 DEF IInv, Shape, ReadsHold
    <3> QED  BY <1>1, <2>1, <2>2, <3>1, <3>3, <3>4 DEF IInv, Shape
  <2> QED  BY <2>3, <2>4
<1> QED  BY <1>3, <1>4, <1>5, <1>6 DEF Parking

LEMMA DeliveriesStep ==
  ASSUME IInv, Deliveries
  PROVE  IInv'
<1>1. register = "parcels" /\ UNCHANGED <<register, slots, alerts>>
  BY DEF Deliveries, Log, ReadAdvance, WriteAdvance
<1>2. ASSUME NEW p \in Parcels, Log(p)  PROVE IInv'
  <2>1. /\ UNCHANGED <<requests, overlapped>> /\ DOMAIN parcels' = Parcels
        /\ \A q \in Parcels : parcels'[q] = parcels[q] \/ parcels'[q] \notin Final
    BY <1>2 DEF Log, IInv, Shape, Final
  <2> QED  BY <1>1, <2>1 DEF IInv, Shape, OneSlotPerCar, ReadsHold
<1>3. ASSUME NEW r \in Requests, NEW p \in Parcels, NEW to \in Statuses, ReadAdvance(r, p, to)
      PROVE  IInv'
  <2>1. Take(r, p, to) /\ parcels' = parcels /\ parcels[p] \notin Final
    BY <1>3, FinalIsFinal DEF ReadAdvance
  <2>2. /\ DOMAIN requests' = Requests /\ overlapped' \in BOOLEAN
        /\ requests[r] = Idle /\ requests'[r].row = p /\ requests'[r].to = to
        /\ \A q \in Requests \ {r} : requests'[q] = requests[q]
        /\ ~overlapped' => ~overlapped /\ \A q \in Requests : requests[q].row # p
    BY <2>1, Taken
  <2>3. Shape' /\ OneSlotPerCar'
    BY <1>1, <2>1, <2>2 DEF IInv, Shape, OneSlotPerCar, Idle
  <2>4. ReadsHold'  BY <1>1, <2>1, <2>2 DEF IInv, ReadsHold, Idle
  <2> QED  BY <2>3, <2>4 DEF IInv
<1>4. ASSUME NEW r \in Requests, WriteAdvance(r)  PROVE IInv'
  <2> DEFINE p == requests[r].row
  <2>1. /\ requests[r] # Idle /\ p \in Parcels /\ overlapped' = overlapped /\ Done(r)
        /\ parcels' = [parcels EXCEPT ![p] = requests[r].to]
    BY <1>1, <1>4 DEF WriteAdvance, IInv, Shape
  <2>2. /\ DOMAIN requests' = Requests /\ requests'[r] = Idle
        /\ \A q \in Requests \ {r} : requests'[q] = requests[q]
    BY <2>1, Finished
  <2>3. DOMAIN parcels' = Parcels /\ \A q \in Parcels \ {p} : parcels'[q] = parcels[q]
    BY <2>1 DEF IInv, Shape
  <2>4. Shape' /\ OneSlotPerCar'
    BY <1>1, <2>1, <2>2, <2>3 DEF IInv, Shape, OneSlotPerCar
  <2>5. ReadsHold'  BY <1>1, <2>1, <2>2, <2>3 DEF IInv, Shape, ReadsHold
  <2> QED  BY <2>4, <2>5 DEF IInv
<1> QED  BY <1>2, <1>3, <1>4 DEF Deliveries

LEMMA SafetyStep ==
  ASSUME IInv, Safety
  PROVE  IInv'
<1>1. UNCHANGED <<register, slots, parcels, requests, overlapped>> /\ DOMAIN alerts' = Alerts
  BY DEF Safety, CloseAlert, Acknowledge, IInv, Shape
<1> QED  BY <1>1 DEF IInv, Shape, OneSlotPerCar, ReadsHold

LEMMA Initially == Init => IInv
  BY DEF Init, IInv, Shape, OneSlotPerCar, ReadsHold, Idle

(* The inductive invariant of the registers.                               *)
THEOREM Invariance == Spec => []IInv
<1>1. IInv /\ [Next]_vars => IInv'
  <2>1. IInv /\ UNCHANGED vars => IInv'
    BY DEF vars, IInv, Shape, OneSlotPerCar, ReadsHold
  <2> QED  BY <2>1, ParkingStep, DeliveriesStep, SafetyStep DEF Next
<1> QED  BY <1>1, Initially, PTL DEF Spec
-----------------------------------------------------------------------------
(* A parked car is moved by a release or a deregistration, or by requests  *)
(* that overlap.                                                           *)
THEOREM CarsStay == Spec => NobodyIsMovedSilently
<1> DEFINE Stays == \A s \in Slots :
             slots[s] # None /\ slots'[s] # slots[s] => slots'[s] = None \/ overlapped
<1>1. IInv /\ [Next]_vars => [Stays]_vars
  <2> SUFFICES ASSUME IInv, Next PROVE Stays
    OBVIOUS
  <2>1. ASSUME NEW r \in Requests, WriteAllot(r)  PROVE Stays
    BY <2>1 DEF WriteAllot, IInv, Shape, ReadsHold
  <2>2. ASSUME NEW v \in Cars, RegisterVehicle(v) \/ DeregisterVehicle(v)  PROVE Stays
    BY <2>2 DEF RegisterVehicle, DeregisterVehicle, IInv, Shape
  <2>3. ASSUME NEW s \in Slots, Release(s)  PROVE Stays
    BY <2>3 DEF Release, IInv, Shape
  <2>4. ASSUME NEW r \in Requests, NEW s \in Slots, NEW v \in Cars, ReadAllot(r, s, v)  PROVE Stays
    BY <2>4 DEF ReadAllot
  <2>5. CASE Deliveries  BY <2>5 DEF Deliveries, Log, ReadAdvance, WriteAdvance
  <2>6. CASE Safety  BY <2>6 DEF Safety, CloseAlert, Acknowledge
  <2> QED  BY <2>1, <2>2, <2>3, <2>4, <2>5, <2>6 DEF Next, Parking
<1>2. IInv => \A s, t \in Slots : slots[s] = slots[t] /\ slots[s] # None => s = t
  BY DEF IInv, OneSlotPerCar
<1>3. Spec => [][Stays]_vars
  BY <1>1, Invariance, PTL DEF Spec
<1>4. Spec => [](\A s, t \in Slots : slots[s] = slots[t] /\ slots[s] # None => s = t)
  BY <1>2, Invariance, PTL
<1> QED  BY <1>3, <1>4 DEF NobodyIsMovedSilently

(* A settled parcel stays settled unless requests overlap; the first       *)
(* responder stays the first whatever happens.                             *)
THEOREM RecordsStand == Spec => SettledRecordsStand
<1> DEFINE Stand ==
      /\ \A p \in Parcels : parcels[p] \in Final => parcels'[p] = parcels[p] \/ overlapped
      /\ \A a \in Alerts : alerts[a].by # None => alerts'[a].by = alerts[a].by
<1>1. IInv /\ [Next]_vars => [Stand]_vars
  <2> SUFFICES ASSUME IInv, Next PROVE Stand
    OBVIOUS
  <2>1. ASSUME NEW r \in Requests, WriteAdvance(r)  PROVE Stand
    BY <2>1 DEF WriteAdvance, IInv, Shape, ReadsHold
  <2>2. ASSUME NEW p \in Parcels, Log(p)  PROVE Stand
    BY <2>2 DEF Log, IInv, Shape, Final
  <2>3. ASSUME NEW r \in Requests, NEW p \in Parcels, NEW to \in Statuses, ReadAdvance(r, p, to)
        PROVE Stand
    BY <2>3 DEF ReadAdvance
  <2>4. CASE Parking
    BY <2>4 DEF Parking, RegisterVehicle, DeregisterVehicle, Release, ReadAllot, WriteAllot
  <2>5. ASSUME NEW a \in Alerts, CloseAlert(a)  PROVE Stand
    BY <2>5 DEF CloseAlert, IInv, Shape
  <2>6. ASSUME NEW a \in Alerts, NEW g \in Guards, Acknowledge(a, g)  PROVE Stand
    BY <2>6 DEF Acknowledge, IInv, Shape
  <2> QED  BY <2>1, <2>2, <2>3, <2>4, <2>5, <2>6 DEF Next, Deliveries, Safety
<1> QED  BY <1>1, Invariance, PTL DEF Spec, SettledRecordsStand
=============================================================================
