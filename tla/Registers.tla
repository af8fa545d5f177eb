----------------------------- MODULE Registers -----------------------------
(***************************************************************************)
(* Registers of the office and the gate that are kept by single rows:      *)
(* vehicles and parking slots (modules/parking/parking.service.ts),        *)
(* parcels (modules/deliveries/deliveries.service.ts), alerts (modules/    *)
(* safety/safety.service.ts).                                              *)
(*                                                                         *)
(* allot and advance read a row, decide, and update it by its id alone, at *)
(* READ COMMITTED: requests that overlap see one another's rows change in  *)
(* between.  Every other operation is one statement, or one transaction    *)
(* whose statements nothing can come between.  The two reads of allot are  *)
(* one step; what the second one finds the unique index decides again.     *)
(*                                                                         *)
(* A refused request changes nothing and is not a step.  A behaviour       *)
(* exercises one register.  A parcel is a status, its recipient is named   *)
(* whenever one must be.  Left out: the columns nothing is decided by, the *)
(* creation of slots, and violations, which refer to plates only.          *)
(***************************************************************************)
EXTENDS FiniteSets

CONSTANTS
  Requests,                       \* requests that may be under way at once
  Slots, Cars, Parcels, Alerts, Guards,
  None                            \* no car, nobody

VARIABLES
  register,    \* the register this behaviour exercises
  cars,        \* [Cars -> {"new", "active", "gone"}]: vehicles
  slots,       \* [Slots -> Cars \cup {None}]: parking_slots.vehicle_id
  parcels,     \* [Parcels -> Statuses]: deliveries.status
  alerts,      \* [Alerts -> [by, closed]]: sos_alerts
  requests,    \* the allotments and advances under way
  overlapped   \* history: two requests were under way for one row

vars == <<register, cars, slots, parcels, alerts, requests, overlapped>>
-----------------------------------------------------------------------------
Idle == [row |-> None, to |-> None]

Open == {"at_gate", "awaiting_resident", "held_at_gate", "out_for_doorstep"}
Final == {"delivered", "collected", "returned", "refused"}
Statuses == Open \cup Final

(* canTransition.  Mutant: a doorstep delivery can be recorded as refused  *)
(* after the fact.                                                         *)
CanTransitionBack(from, to) == to # from /\ (from \in Open \/ to \in {"returned", "refused"})

CanTransition(from, to) ==
  to \in CASE from = "at_gate" -> (Statuses \ {"at_gate", "delivered", "collected"})
           [] from = "awaiting_resident" -> (Statuses \ {"at_gate", "awaiting_resident", "delivered"})
           [] from = "held_at_gate" -> {"out_for_doorstep", "collected", "returned", "refused"}
           [] from = "out_for_doorstep" -> {"delivered", "held_at_gate", "returned"}
           [] from \in Final -> {}

Init ==
  /\ register \in {"parking", "parcels", "alerts"}
  /\ cars = [v \in Cars |-> "new"] /\ slots = [s \in Slots |-> None]
  /\ parcels = [p \in Parcels |-> "expected"]
  /\ alerts = [a \in Alerts |-> [by |-> None, closed |-> FALSE]]
  /\ requests = [r \in Requests |-> Idle] /\ overlapped = FALSE

Take(r, row, to) ==
  /\ requests[r] = Idle
  /\ requests' = [requests EXCEPT ![r] = [row |-> row, to |-> to]]
  /\ overlapped' = (overlapped \/ \E q \in Requests : requests[q].row = row)

Done(r) == requests' = [requests EXCEPT ![r] = Idle]
-----------------------------------------------------------------------------
RegisterVehicle(v) ==
  /\ register = "parking" /\ cars[v] = "new"
  /\ cars' = [cars EXCEPT ![v] = "active"]
  /\ UNCHANGED <<register, slots, parcels, alerts, requests, overlapped>>

(* The slot first, then the vehicle; one that is gone already is found too. *)
DeregisterVehicle(v) ==
  /\ register = "parking" /\ cars[v] # "new"
  /\ slots' = [s \in Slots |-> IF slots[s] = v THEN None ELSE slots[s]]
  /\ cars' = [cars EXCEPT ![v] = "gone"]
  /\ UNCHANGED <<register, parcels, alerts, requests, overlapped>>

(* allot does not look at is_active: a list read before a deregistration   *)
(* still offers the vehicle.  Mutant of Free: only the index on vehicles.  *)
FreeOfThisCar(s, v) == \A t \in Slots \ {s} : slots[t] # v

Free(s, v) == slots[s] \in {None, v} /\ \A t \in Slots \ {s} : slots[t] # v

ReadAllot(r, s, v) ==
  /\ register = "parking" /\ cars[v] # "new" /\ Free(s, v)
  /\ Take(r, s, v)
  /\ UNCHANGED <<register, cars, slots, parcels, alerts>>

(* UPDATE ... WHERE id = slotId, or the violation of uq_slot_vehicle.      *)
WriteAllot(r) ==
  LET s == requests[r].row
      v == requests[r].to IN
  /\ register = "parking" /\ requests[r] # Idle
  /\ Done(r)
  /\ slots' = IF \E t \in Slots \ {s} : slots[t] = v THEN slots ELSE [slots EXCEPT ![s] = v]
  /\ UNCHANGED <<register, cars, parcels, alerts, overlapped>>

Release(s) ==
  /\ register = "parking" /\ slots[s] # None
  /\ slots' = [slots EXCEPT ![s] = None]
  /\ UNCHANGED <<register, cars, parcels, alerts, requests, overlapped>>
-----------------------------------------------------------------------------
(* log: a parcel without a flat waits at the gate.                         *)
Log(p) ==
  /\ register = "parcels" /\ parcels[p] = "expected"
  /\ \E status \in {"at_gate", "awaiting_resident"} : parcels' = [parcels EXCEPT ![p] = status]
  /\ UNCHANGED <<register, cars, slots, alerts, requests, overlapped>>

ReadAdvance(r, p, to) ==
  /\ register = "parcels" /\ parcels[p] \in Statuses /\ CanTransition(parcels[p], to)
  /\ Take(r, p, to)
  /\ UNCHANGED <<register, cars, slots, parcels, alerts>>

WriteAdvance(r) ==
  /\ register = "parcels" /\ requests[r] # Idle
  /\ parcels' = [parcels EXCEPT ![requests[r].row] = requests[r].to]
  /\ Done(r)
  /\ UNCHANGED <<register, cars, slots, alerts, overlapped>>
-----------------------------------------------------------------------------
(* UPDATE ... WHERE acknowledged_at IS NULL.                               *)
Acknowledge(a, g) ==
  /\ register = "alerts" /\ alerts[a].by = None
  /\ alerts' = [alerts EXCEPT ![a].by = g]
  /\ UNCHANGED <<register, cars, slots, parcels, requests, overlapped>>

(* close looks at nothing: closing once more sets closed_at and the note   *)
(* again, which is not told apart here.                                    *)
CloseAlert(a) ==
  /\ register = "alerts"
  /\ alerts' = [alerts EXCEPT ![a].closed = TRUE]
  /\ UNCHANGED <<register, cars, slots, parcels, requests, overlapped>>
-----------------------------------------------------------------------------
Parking ==
  \/ \E v \in Cars : RegisterVehicle(v) \/ DeregisterVehicle(v)
  \/ \E s \in Slots : Release(s)
  \/ \E r \in Requests : WriteAllot(r) \/ \E s \in Slots, v \in Cars : ReadAllot(r, s, v)

Deliveries ==
  \/ \E p \in Parcels : Log(p)
  \/ \E r \in Requests : WriteAdvance(r) \/ \E p \in Parcels, to \in Statuses : ReadAdvance(r, p, to)

Safety == \E a \in Alerts : CloseAlert(a) \/ \E g \in Guards : Acknowledge(a, g)

Next == Parking \/ Deliveries \/ Safety

Spec == Init /\ [][Next]_vars
-----------------------------------------------------------------------------
(* A slot goes from one car to another only by way of a release or a       *)
(* deregistration, as the comment over allot has it, for requests that do  *)
(* not overlap; and never is one car in two slots, even then.              *)
NobodyIsMovedSilently ==
  /\ [][\A s \in Slots : slots[s] # None /\ slots'[s] # slots[s] => slots'[s] = None \/ overlapped]_vars
  /\ [](\A s, t \in Slots : slots[s] = slots[t] /\ slots[s] # None => s = t)

(* What a record says of the one who settled it stays: a parcel that was   *)
(* handed over, returned or refused stays so for requests that do not      *)
(* overlap, and the first to acknowledge an alert stays the first.         *)
SettledRecordsStand ==
  [][/\ \A p \in Parcels : parcels[p] \in Final => parcels'[p] = parcels[p] \/ overlapped
     /\ \A a \in Alerts : alerts[a].by # None => alerts'[a].by = alerts[a].by]_vars
=============================================================================
