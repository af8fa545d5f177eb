---------------------------- MODULE GateSyncProofs ----------------------------
(***************************************************************************)
(* Proofs about the offline gate, for any number of handsets, processes,   *)
(* passes and events, and any amount of trouble.                           *)
(***************************************************************************)
EXTENDS GateSync, FiniteSetTheorems, SequenceTheorems, TLAPS

(* Whatever somebody speaks of has been written in that handset's outbox.  *)
WrittenInv ==
  /\ \A d \in Devices : upload[d].batch \subseteq DOMAIN outbox[d]
  /\ \A r \in requests : r.batch \subseteq DOMAIN outbox[r.device]
  /\ \A p \in Processes : process[p].todo \subseteq DOMAIN outbox[process[p].device]
  /\ \A e \in gateEvents : e[2] \in DOMAIN outbox[e[1]]

(* What a server says has landed has landed.                               *)
Told(d, results) ==
  \A o \in results : o.outcome # "rejected" => <<d, o.event>> \in gateEvents

ToldInv ==
  /\ \A p \in Processes : Told(process[p].device, process[p].results)
  /\ \A r \in responses : Told(r.device, r.results)

(* The events that landed in a batch and whose uses are still to count.    *)
Uncounted(p) ==
  IF process[p].pc \in {"insert", "count"}
  THEN {<<process[p].device, n>> : n \in Landed(p)} ELSE {}

(* No two processes hold the same event, and the uses of a pass stand for  *)
(* as many of its entries, none of which is to be counted any more; unless *)
(* a process died, every other entry is still somebody's to count.         *)
ApartInv == \A p, q \in Processes : p # q => Uncounted(p) \cap Uncounted(q) = {}

CountedAre(pass, C) ==
  /\ C \subseteq Entries(pass)
  /\ Cardinality(C) = passes[pass].uses
  /\ \A p \in Processes : Uncounted(p) \cap C = {}
  /\ trouble["crash"] = 0 =>
       \A e \in Entries(pass) \ C : \E p \in Processes : e \in Uncounted(p)

CountInv ==
  /\ IsFiniteSet(gateEvents)
  /\ ApartInv
  /\ \A pass \in Passes : \E C \in SUBSET gateEvents : CountedAre(pass, C)

IInv ==
  TypeOK /\ WrittenInv /\ ToldInv /\ SentMeansRecorded /\ CountInv /\ SpentPassIsRetired
------------------------------------------------------------------------------
States == {"pending", "sending", "sent", "parked"}

(* A row keeps its visit, and no row goes away.                            *)
Keeps ==
  \A d \in Devices : \A n \in DOMAIN outbox[d] :
    n \in DOMAIN outbox'[d] /\ outbox'[d][n].visit = outbox[d][n].visit

OutboxStep == outbox' \in [Devices -> Seq(Row)] /\ Keeps

(* Rewriting the rows of a handset one by one.                             *)
Rewritten(d, rows) == outbox' = [outbox EXCEPT ![d] = rows]

LEMMA RowByRow ==
  ASSUME outbox \in [Devices -> Seq(Row)], NEW d \in Devices, NEW rows,
         Rewritten(d, rows),
         rows \in [DOMAIN outbox[d] -> Row],
         \A n \in DOMAIN rows : rows[n].visit = outbox[d][n].visit
  PROVE  OutboxStep
<1>1. outbox[d] \in Seq(Row)
  OBVIOUS
<1>2. rows \in Seq(Row)
  <2>1. DOMAIN rows = 1..Len(outbox[d]) /\ Len(outbox[d]) \in Nat
    BY <1>1
  <2>2. rows \in [1..Len(outbox[d]) -> Row]
    BY <2>1
  <2> QED
    BY <2>1, <2>2, SeqDef
<1>3. outbox' \in [Devices -> Seq(Row)]
  BY <1>2 DEF Rewritten
<1>4. Keeps
  <2>1. ASSUME NEW e \in Devices, NEW n \in DOMAIN outbox[e]
        PROVE  n \in DOMAIN outbox'[e] /\ outbox'[e][n].visit = outbox[e][n].visit
    BY <1>2 DEF Rewritten
  <2> QED
    BY <2>1 DEF Keeps
<1> QED
  BY <1>3, <1>4 DEF OutboxStep

LEMMA Marking ==
  ASSUME outbox \in [Devices -> Seq(Row)], NEW d \in Devices, NEW state,
         Mark(d, state), \A n \in DOMAIN outbox[d] : state[n] \in States
  PROVE  /\ OutboxStep
         /\ \A e \in Devices : DOMAIN outbox'[e] = DOMAIN outbox[e]
         /\ \A e \in Devices \ {d} : outbox'[e] = outbox[e]
         /\ \A n \in DOMAIN outbox[d] : outbox'[d][n].state = state[n]
<1>1. PICK rows :
        rows = [n \in DOMAIN outbox[d] |-> [outbox[d][n] EXCEPT !.state = state[n]]]
  OBVIOUS
<1>2. \A n \in DOMAIN outbox[d] : rows[n] = [outbox[d][n] EXCEPT !.state = state[n]]
  BY <1>1
<1>3. ASSUME NEW n \in DOMAIN outbox[d]
      PROVE  /\ rows[n] \in Row /\ rows[n].visit = outbox[d][n].visit
             /\ rows[n].state = state[n]
  <2>1. outbox[d][n] \in Row
    OBVIOUS
  <2> QED
    BY <1>2, <2>1 DEF Row, States
<1>4. Rewritten(d, rows)
  BY <1>1 DEF Mark, Rewritten
<1>5. rows \in [DOMAIN outbox[d] -> Row]
  BY <1>1, <1>3
<1>6. \A n \in DOMAIN rows : rows[n].visit = outbox[d][n].visit
  BY <1>3, <1>5
<1>7. OutboxStep
  BY <1>4, <1>5, <1>6, RowByRow
<1> QED
  BY <1>3, <1>4, <1>5, <1>7 DEF Rewritten
------------------------------------------------------------------------------
(* Whatever happens, rows stay in the outbox, and stay rows.               *)
LEMMA OutboxKept ==
  ASSUME TypeOK, [Next]_vars
  PROVE  OutboxStep
<1> USE DEF TypeOK
<1>1. ASSUME outbox' = outbox PROVE OutboxStep
  BY <1>1 DEF OutboxStep, Keeps
<1>2. ASSUME NEW d \in Devices, NEW visit \in Visits, Admit(d, visit) PROVE OutboxStep
  <2>1. outbox[d] \in Seq(Row) /\ [visit |-> visit, state |-> "pending", attempts |-> 0] \in Row
    BY DEF Row
  <2>2. PICK row \in Row : row = [visit |-> visit, state |-> "pending", attempts |-> 0]
    BY <2>1
  <2>3. outbox' = [outbox EXCEPT ![d] = Append(outbox[d], row)]
    BY <1>2, <2>2 DEF Admit
  <2>4. PICK rows : rows \in Seq(Row) /\ rows = Append(outbox[d], row)
    <3>1. Append(outbox[d], row) \in Seq(Row)
      BY <2>1
    <3> QED
      BY <3>1, Zenon
  <2>5. outbox' = [outbox EXCEPT ![d] = rows]
    BY <2>3, <2>4
  <2>6. ASSUME NEW n \in DOMAIN outbox[d] PROVE n \in DOMAIN rows /\ rows[n] = outbox[d][n]
    BY <2>1, <2>4
  <2>7. ASSUME NEW e \in Devices, NEW n \in DOMAIN outbox[e]
        PROVE  n \in DOMAIN outbox'[e] /\ outbox'[e][n].visit = outbox[e][n].visit
    BY <2>5, <2>6
  <2>8. outbox \in [Devices -> Seq(Row)]
    OBVIOUS
  <2> HIDE DEF TypeOK
  <2>9. outbox' \in [Devices -> Seq(Row)]
    BY <2>4, <2>5, <2>8
  <2> QED
    BY <2>7, <2>9 DEF OutboxStep, Keeps
<1>3. ASSUME NEW d \in Devices, Send(d) PROVE OutboxStep
  <2>1. PICK rows : rows = [n \in DOMAIN outbox[d] |->
          IF n \in Batch(d) THEN MarkSending(outbox[d][n]) ELSE outbox[d][n]]
    OBVIOUS
  <2>2. Rewritten(d, rows)
    BY <1>3, <2>1 DEF Send, Rewritten
  <2>3. ASSUME NEW n \in DOMAIN outbox[d]
        PROVE  rows[n] \in Row /\ rows[n].visit = outbox[d][n].visit
    <3>1. outbox[d][n] \in Row
      OBVIOUS
    <3> QED
      BY <2>1, <3>1 DEF Row, MarkSending
  <2>4. rows \in [DOMAIN outbox[d] -> Row]
    BY <2>1, <2>3
  <2>5. \A n \in DOMAIN rows : rows[n].visit = outbox[d][n].visit
    BY <2>3, <2>4
  <2> QED
    BY <2>2, <2>4, <2>5, RowByRow
<1>4. ASSUME NEW d \in Devices, Receive(d) PROVE OutboxStep
  <2>1. PICK r \in responses : Mark(d, [n \in DOMAIN outbox[d] |-> StateAfter(d, n, r.results)])
    BY <1>4 DEF Receive
  <2>2. PICK state : state = [n \in DOMAIN outbox[d] |-> StateAfter(d, n, r.results)]
    OBVIOUS
  <2>3. ASSUME NEW n \in DOMAIN outbox[d] PROVE state[n] \in States
    <3>1. outbox[d][n] \in Row
      OBVIOUS
    <3> QED
      BY <2>2, <3>1 DEF StateAfter, States, Row
  <2>4. Mark(d, state)
    BY <2>1, <2>2
  <2> QED
    BY <2>3, <2>4, Marking
<1>5. ASSUME NEW d \in Devices, RetryOrPark(d) PROVE OutboxStep
  <2>1. PICK state : state = [n \in DOMAIN outbox[d] |->
                IF n \notin upload[d].batch THEN outbox[d][n].state
                ELSE IF HadItsAttempts(d, n) THEN "parked" ELSE "pending"]
    OBVIOUS
  <2>2. ASSUME NEW n \in DOMAIN outbox[d] PROVE state[n] \in States
    <3>1. outbox[d][n] \in Row
      OBVIOUS
    <3> QED
      BY <2>1, <3>1 DEF States, Row
  <2>3. Mark(d, state)
    BY <1>5, <2>1 DEF RetryOrPark
  <2> QED
    BY <2>2, <2>3, Marking
<1>6. ASSUME NEW d \in Devices, SessionRejected(d) PROVE OutboxStep
  <2>1. PICK state : state = [n \in DOMAIN outbox[d] |->
                IF n \in upload[d].batch THEN "pending" ELSE outbox[d][n].state]
    OBVIOUS
  <2>2. ASSUME NEW n \in DOMAIN outbox[d] PROVE state[n] \in States
    <3>1. outbox[d][n] \in Row
      OBVIOUS
    <3> QED
      BY <2>1, <3>1 DEF States, Row
  <2>3. Mark(d, state)
    BY <1>6, <2>1 DEF SessionRejected
  <2> QED
    BY <2>2, <2>3, Marking
<1>7. ASSUME NEW d \in Devices, TimeOut(d) PROVE OutboxStep
  BY <1>5, <1>7 DEF TimeOut
<1>8. ASSUME NEW d \in Devices, Restart(d) \/ Begin(d) \/ Drained(d) PROVE OutboxStep
  BY <1>1, <1>8 DEF Restart, Begin, Drained
<1>9. ASSUME NEW p \in Processes, Server(p) \/ Crash(p) PROVE OutboxStep
  BY <1>1, <1>9 DEF Server, Take, Insert, CountUses, Answer, Crash
<1>10. ASSUME NEW pass \in Passes, Revoke(pass) PROVE OutboxStep
  BY <1>1, <1>10 DEF Revoke
<1>11. ASSUME UNCHANGED vars PROVE OutboxStep
  BY <1>1, <1>11 DEF vars
<1> HIDE DEF TypeOK
<1> QED
  BY <1>2, <1>3, <1>4, <1>6, <1>7, <1>8, <1>9, <1>10, <1>11 DEF Next, Handset
------------------------------------------------------------------------------
LEMMA TroubleTyped ==
  ASSUME TypeOK, NEW t \in Troubles, Befalls(t) \/ UNCHANGED trouble
  PROVE  trouble' \in [Troubles -> Nat]
<1>1. trouble \in [Troubles -> Nat]
  BY DEF TypeOK
<1> QED
  BY <1>1 DEF Befalls

(* However a drain goes on or ends, it is in one of its states.            *)
LEMMA DrainTyped ==
  ASSUME TypeOK, NEW d \in Devices,
         \/ UNCHANGED drain \/ Begin(d) \/ RetryOrEnd(d)
         \/ Ends(d, "drained") \/ Ends(d, "auth") \/ Ends(d, "killed")
  PROVE  drain' \in [Devices -> [state : {"drained", "running", "offline", "auth", "killed"},
                                retries : Nat]]
<1>1. drain \in [Devices -> [state : {"drained", "running", "offline", "auth", "killed"},
                            retries : Nat]]
  BY DEF TypeOK
<1>2. CASE Begin(d)
  BY <1>1, <1>2 DEF Begin
<1>3. CASE RetryOrEnd(d)
  BY <1>1, <1>3 DEF RetryOrEnd, Ends
<1>4. CASE Ends(d, "drained") \/ Ends(d, "auth") \/ Ends(d, "killed")
  BY <1>1, <1>4 DEF Ends
<1> QED
  BY <1>1, <1>2, <1>3, <1>4

LEMMA BatchTyped ==
  ASSUME TypeOK, NEW d \in Devices
  PROVE  Batch(d) \subseteq DOMAIN outbox[d] /\ DOMAIN outbox[d] \subseteq Nat \ {0}
<1>1. DOMAIN outbox[d] = 1..Len(outbox[d]) /\ Len(outbox[d]) \in Nat
  BY DEF TypeOK
<1> QED
  BY <1>1 DEF Batch, Pending

(* Numbers of one handset are as many as the pairs they stand for.         *)
LEMMA AsManyPairs ==
  ASSUME NEW d, NEW S, IsFiniteSet({<<d, n>> : n \in S})
  PROVE  IsFiniteSet(S) /\ Cardinality(S) = Cardinality({<<d, n>> : n \in S})
<1> DEFINE T == {<<d, n>> : n \in S}
<1> DEFINE f == [e \in T |-> e[2]]
<1>1. f \in Bijection(T, S)
  <2>1. f \in [T -> S] /\ \A e \in T : e = <<d, f[e]>>
    OBVIOUS
  <2>2. \A n \in S : <<d, n>> \in T /\ f[<<d, n>>] = n
    OBVIOUS
  <2> HIDE DEF f, T
  <2>3. f \in Injection(T, S)
    BY <2>1 DEF Injection, IsInjective
  <2>4. f \in Surjection(T, S)
    BY <2>1, <2>2 DEF Surjection
  <2> QED
    BY <2>3, <2>4 DEF Bijection
<1>2. ExistsBijection(T, S)
  BY <1>1 DEF ExistsBijection
<1> HIDE DEF f, T
<1>3. IsFiniteSet(T) => IsFiniteSet(S) /\ Cardinality(S) = Cardinality(T)
  BY <1>2, FS_Bijection
<1> QED
  BY <1>3 DEF T

Pairs(p, S) == {<<process[p].device, n>> : n \in S}

(* The uses that a process counts are those of entries that have landed.   *)
LEMMA NewUsesAreEntries ==
  ASSUME TypeOK, ToldInv, IsFiniteSet(gateEvents), NEW p \in Processes, NEW pass \in Passes
  PROVE  /\ Pairs(p, Landed(p)) \subseteq gateEvents
         /\ Pairs(p, NewEntries(p, pass)) \subseteq Pairs(p, Landed(p))
         /\ Pairs(p, NewEntries(p, pass)) \subseteq Entries(pass)
         /\ IsFiniteSet(Pairs(p, NewEntries(p, pass)))
         /\ NewUses(p, pass) = Cardinality(Pairs(p, NewEntries(p, pass)))
         /\ NewUses(p, pass) \in Nat
<1>1. Pairs(p, Landed(p)) \subseteq gateEvents
  BY DEF ToldInv, Told, Landed, Pairs
<1>2. Pairs(p, NewEntries(p, pass)) \subseteq Pairs(p, Landed(p))
  BY DEF Pairs, NewEntries
<1>3. Pairs(p, NewEntries(p, pass)) \subseteq Entries(pass)
  BY <1>1, <1>2 DEF Pairs, NewEntries, Entries
<1>4. IsFiniteSet(Pairs(p, NewEntries(p, pass)))
  BY <1>1, <1>2, FS_Subset
<1>5. /\ IsFiniteSet(NewEntries(p, pass))
      /\ NewUses(p, pass) = Cardinality(Pairs(p, NewEntries(p, pass)))
  BY <1>4, AsManyPairs DEF Pairs, NewUses
<1> QED
  BY <1>1, <1>2, <1>3, <1>4, <1>5, FS_CardinalityType DEF NewUses

LEMMA TypeStep ==
  ASSUME TypeOK, ToldInv, IsFiniteSet(gateEvents), [Next]_vars
  PROVE  TypeOK'
<1>0. outbox' \in [Devices -> Seq(Row)]
  BY OutboxKept DEF OutboxStep
<1>1. ASSUME NEW d \in Devices, NEW visit \in Visits, Admit(d, visit) PROVE TypeOK'
  BY <1>0, <1>1 DEF Admit, TypeOK, server
<1>2. ASSUME NEW d \in Devices, Send(d) PROVE TypeOK'
  <2>1. Batch(d) \in SUBSET (Nat \ {0})
    BY BatchTyped
  <2>2. upload' \in [Devices -> [waiting : BOOLEAN, round : Nat, batch : SUBSET (Nat \ {0})]]
    BY <1>2, <2>1 DEF TypeOK, Send
  <2>3. requests' \subseteq Request
    BY <1>2, <2>1 DEF TypeOK, Send, Request
  <2> QED
    BY <1>0, <1>2, <2>2, <2>3 DEF TypeOK, Send, server
<1>3. ASSUME NEW d \in Devices, StopWaiting(d)
      PROVE  /\ upload' \in [Devices -> [waiting : BOOLEAN, round : Nat,
                                         batch : SUBSET (Nat \ {0})]]
             /\ responses' \subseteq Response
  <2>1. /\ upload \in [Devices -> [waiting : BOOLEAN, round : Nat,
                                  batch : SUBSET (Nat \ {0})]]
        /\ responses \subseteq Response
    BY DEF TypeOK
  <2> QED
    BY <1>3, <2>1 DEF StopWaiting
<1>4. ASSUME NEW d \in Devices, Receive(d) PROVE TypeOK'
  <2>1. UNCHANGED drain \/ RetryOrEnd(d)
    BY <1>4 DEF Receive
  <2> QED
    BY <1>0, <1>3, <1>4, <2>1, DrainTyped DEF TypeOK, Receive, server
<1>5. ASSUME NEW d \in Devices, TimeOut(d) PROVE TypeOK'
  <2>1. trouble' \in [Troubles -> Nat]
    BY <1>5, TroubleTyped DEF TimeOut, Troubles
  <2> QED
    BY <1>0, <1>3, <1>5, <2>1, DrainTyped DEF TypeOK, TimeOut, RetryOrPark, server
<1>6. ASSUME NEW d \in Devices, SessionRejected(d) PROVE TypeOK'
  <2>1. trouble' \in [Troubles -> Nat]
    BY <1>6, TroubleTyped DEF SessionRejected, Troubles
  <2> QED
    BY <1>0, <1>3, <1>6, <2>1, DrainTyped DEF TypeOK, SessionRejected, server
<1>7. ASSUME NEW d \in Devices, Restart(d) PROVE TypeOK'
  <2>1. trouble' \in [Troubles -> Nat]
    BY <1>7, TroubleTyped DEF Restart, Troubles
  <2> QED
    BY <1>0, <1>3, <1>7, <2>1, DrainTyped DEF TypeOK, Restart, server
<1>8. ASSUME NEW p \in Processes, Take(p) PROVE TypeOK'
  <2>1. PICK r \in requests : 
          /\ requests' = requests \ {r}
          /\ process' = [process EXCEPT ![p] =
               IF \E n \in r.batch : VisitOf(r.device, n).quality = "malformed"
               THEN NoWork(r.device)
               ELSE [pc |-> "insert", device |-> r.device, round |-> r.round,
                     todo |-> r.batch, results |-> {}]]
    BY <1>8 DEF Take
  <2>2. r \in Request
    BY DEF TypeOK
  <2> QED
    BY <1>0, <1>8, <2>1, <2>2 DEF TypeOK, Take, Request, NoWork
<1>9. ASSUME NEW p \in Processes, Insert(p) PROVE TypeOK'
  <2>1. PICK n \in NextOf(process[p].todo) :
          /\ Report(p, n, OutcomeOf(process[p].device, n)) \/ Report(p, n, "rejected")
          /\ \/ gateEvents' = gateEvents \cup {<<process[p].device, n>>}
             \/ UNCHANGED gateEvents
          /\ UNCHANGED trouble \/ Befalls("database")
    BY <1>9 DEF Insert, Inserted, RolledBack
  <2>2. n \in process[p].todo /\ n \in Nat \ {0} /\ process[p].device \in Devices
    BY <2>1 DEF NextOf, TypeOK
  <2>3. trouble' \in [Troubles -> Nat]
    BY <2>1, TroubleTyped DEF Troubles
  <2>4. PICK o \in Outcome :
          process' = [process EXCEPT ![p] =
            [pc |-> IF @.todo = {n} THEN "count" ELSE "insert",
             device |-> @.device, round |-> @.round, todo |-> @.todo \ {n},
             results |-> @.results \cup {o}]]
    BY <2>1, <2>2 DEF Report, OutcomeOf, Outcome
  <2>5. process' \in [Processes -> [pc : {"idle", "insert", "count", "answer"},
                                device : Devices, round : Nat,
                                todo : SUBSET (Nat \ {0}), results : SUBSET Outcome]]
    BY <2>2, <2>4 DEF TypeOK
  <2> QED
    <3>1. gateEvents' \subseteq Devices \X (Nat \ {0})
      BY <2>1, <2>2 DEF TypeOK
    <3>2. UNCHANGED <<outbox, drain, upload, requests, responses, passes>>
      BY <1>9 DEF Insert
    <3> QED
      BY <1>0, <2>3, <2>5, <3>1, <3>2 DEF TypeOK
<1>10. ASSUME NEW p \in Processes, CountUses(p) PROVE TypeOK'
  <2>1. passes' \in [Passes -> [uses : Nat, status : {"active", "used", "revoked"}]]
    BY <1>10, NewUsesAreEntries DEF CountUses, TypeOK
  <2>2. process' \in [Processes -> [pc : {"idle", "insert", "count", "answer"},
                                device : Devices, round : Nat,
                                todo : SUBSET (Nat \ {0}), results : SUBSET Outcome]]
    <3>1. process' = [process EXCEPT ![p].pc = "answer"]
      BY <1>10 DEF CountUses
    <3> QED
      BY <3>1 DEF TypeOK
  <2>3. UNCHANGED <<outbox, drain, upload, requests, responses, gateEvents, trouble>>
    BY <1>10 DEF CountUses
  <2> QED
    BY <2>1, <2>2, <2>3 DEF TypeOK
<1>11. ASSUME NEW p \in Processes, Answer(p) PROVE TypeOK'
  BY <1>0, <1>11 DEF TypeOK, Answer, Response, NoWork
<1>12. ASSUME NEW p \in Processes, Crash(p) PROVE TypeOK'
  <2>1. trouble' \in [Troubles -> Nat]
    BY <1>12, TroubleTyped DEF Crash, Troubles
  <2> QED
    BY <1>0, <1>12, <2>1 DEF TypeOK, Crash, NoWork
<1>13. ASSUME NEW pass \in Passes, Revoke(pass) PROVE TypeOK'
  BY <1>0, <1>13 DEF TypeOK, Revoke
<1>14. ASSUME UNCHANGED vars PROVE TypeOK'
  BY <1>14 DEF TypeOK, vars, server
<1>15. ASSUME NEW d \in Devices, Begin(d) \/ Drained(d) PROVE TypeOK'
  BY <1>0, <1>15, DrainTyped DEF TypeOK, Begin, Drained, server
<1> QED
  BY <1>1, <1>2, <1>4, <1>5, <1>6, <1>7, <1>8, <1>9, <1>10, <1>11, <1>12, <1>13, <1>14,
     <1>15 DEF Next, Handset, Server
------------------------------------------------------------------------------
(* A row that was written stays written, so only what is new is in doubt.  *)
LEMMA WrittenStep ==
  ASSUME TypeOK, WrittenInv, [Next]_vars
  PROVE  WrittenInv'
<1>0. \A d \in Devices : DOMAIN outbox[d] \subseteq DOMAIN outbox'[d]
  BY OutboxKept DEF OutboxStep, Keeps
<1>a. /\ \A r \in requests : r.device \in Devices
      /\ \A p \in Processes : process[p].device \in Devices
      /\ \A e \in gateEvents : e[1] \in Devices
  BY DEF TypeOK, Request
<1>b. /\ UNCHANGED upload => \A d \in Devices : upload'[d].batch \subseteq DOMAIN outbox'[d]
      /\ requests' \subseteq requests =>
           \A r \in requests' : r.batch \subseteq DOMAIN outbox'[r.device]
      /\ UNCHANGED process =>
           \A p \in Processes : process'[p].todo \subseteq DOMAIN outbox'[process'[p].device]
      /\ UNCHANGED gateEvents => \A e \in gateEvents' : e[2] \in DOMAIN outbox'[e[1]]
  BY <1>0, <1>a DEF WrittenInv
<1>1. ASSUME NEW d \in Devices, NEW visit \in Visits, Admit(d, visit) PROVE WrittenInv'
  BY <1>b, <1>1 DEF Admit, server, WrittenInv
<1>2. ASSUME NEW d \in Devices, Send(d) PROVE WrittenInv'
  <2>1. Batch(d) \subseteq DOMAIN outbox'[d]
    BY <1>0, BatchTyped
  <2>2. \A e \in Devices : upload'[e].batch \subseteq DOMAIN outbox'[e]
    BY <1>0, <1>2, <2>1 DEF Send, WrittenInv, TypeOK
  <2>3. \A r \in requests' : r.batch \subseteq DOMAIN outbox'[r.device]
    BY <1>0, <1>2, <1>a, <2>1 DEF Send, WrittenInv
  <2> QED
    BY <1>2, <1>b, <2>2, <2>3 DEF Send, server, WrittenInv
<1>3. ASSUME NEW d \in Devices, StopWaiting(d)
      PROVE  \A e \in Devices : upload'[e].batch \subseteq DOMAIN outbox'[e]
  BY <1>0, <1>3 DEF StopWaiting, TypeOK, WrittenInv
<1>4. ASSUME NEW d \in Devices, Receive(d) \/ TimeOut(d) \/ SessionRejected(d) \/ Restart(d)
      PROVE  WrittenInv'
  BY <1>3, <1>4, <1>b
  DEF Receive, TimeOut, RetryOrPark, SessionRejected, Restart, server, WrittenInv
<1>5. ASSUME NEW p \in Processes, Take(p) PROVE WrittenInv'
  <2>1. PICK r \in requests :
          /\ requests' = requests \ {r}
          /\ \/ process' = [process EXCEPT ![p] = NoWork(r.device)]
             \/ process' = [process EXCEPT ![p] =
                  [pc |-> "insert", device |-> r.device, round |-> r.round,
                   todo |-> r.batch, results |-> {}]]
    BY <1>5 DEF Take
  <2>2. ASSUME NEW q \in Processes
        PROVE  process'[q].todo \subseteq DOMAIN outbox'[process'[q].device]
    <3>1. CASE q # p
      BY <1>0, <1>a, <2>1, <3>1 DEF WrittenInv, TypeOK
    <3>2. CASE q = p
      <4>1. process'[p].device = r.device /\ process'[p].todo \subseteq r.batch
        BY <2>1 DEF TypeOK, NoWork
      <4> QED
        BY <1>0, <1>a, <3>2, <4>1 DEF WrittenInv
    <3> QED
      BY <3>1, <3>2
  <2> QED
    BY <1>5, <1>b, <2>1, <2>2 DEF Take, WrittenInv
<1>6. ASSUME NEW p \in Processes, Insert(p) PROVE WrittenInv'
  <2>0. PICK n \in process[p].todo : \E o :
          /\ process' = [process EXCEPT ![p] =
               [pc |-> IF @.todo = {n} THEN "count" ELSE "insert",
                device |-> @.device, round |-> @.round, todo |-> @.todo \ {n},
                results |-> @.results \cup {o}]]
          /\ gateEvents' \subseteq gateEvents \cup {<<process[p].device, n>>}
    BY <1>6 DEF Insert, Inserted, RolledBack, Report, NextOf
  <2>1. PICK o :
          /\ process' = [process EXCEPT ![p] =
               [pc |-> IF @.todo = {n} THEN "count" ELSE "insert",
                device |-> @.device, round |-> @.round, todo |-> @.todo \ {n},
                results |-> @.results \cup {o}]]
          /\ gateEvents' \subseteq gateEvents \cup {<<process[p].device, n>>}
    BY <2>0
  <2>2. ASSUME NEW q \in Processes
        PROVE  process'[q].todo \subseteq DOMAIN outbox'[process'[q].device]
    <3>1. process'[q].todo \subseteq process[q].todo /\ process'[q].device = process[q].device
      BY <2>1 DEF TypeOK
    <3> QED
      BY <1>0, <1>a, <3>1 DEF WrittenInv
  <2>3. \A e \in gateEvents' : e[2] \in DOMAIN outbox'[e[1]]
    BY <1>0, <1>a, <2>1 DEF WrittenInv
  <2> QED
    BY <1>6, <1>b, <2>2, <2>3 DEF Insert, WrittenInv
<1>7. ASSUME NEW p \in Processes, CountUses(p) \/ Answer(p) \/ Crash(p) PROVE WrittenInv'
  <2>1. \/ process' = [process EXCEPT ![p].pc = "answer"]
        \/ process' = [process EXCEPT ![p] = NoWork(process[p].device)]
    BY <1>7 DEF CountUses, Answer, Crash
  <2>2. ASSUME NEW q \in Processes
        PROVE  process'[q].todo \subseteq DOMAIN outbox'[process'[q].device]
    <3>1. process'[q].todo \subseteq process[q].todo /\ process'[q].device = process[q].device
      <4>1. CASE process' = [process EXCEPT ![p].pc = "answer"]
        BY <4>1 DEF TypeOK
      <4>2. CASE process' = [process EXCEPT ![p] = NoWork(process[p].device)]
        BY <4>2 DEF TypeOK, NoWork
      <4> QED
        BY <2>1, <4>1, <4>2
    <3> QED
      BY <1>0, <1>a, <3>1 DEF WrittenInv
  <2> QED
    BY <1>7, <1>b, <2>2 DEF CountUses, Answer, Crash, WrittenInv
<1>8. ASSUME \/ \E pass \in Passes : Revoke(pass)
             \/ \E d \in Devices : Begin(d) \/ Drained(d)
             \/ UNCHANGED vars
      PROVE  WrittenInv'
  BY <1>8, <1>b DEF Revoke, Begin, Drained, vars, server, WrittenInv
<1> QED
  BY <1>1, <1>2, <1>4, <1>5, <1>6, <1>7, <1>8 DEF Next, Handset, Server
------------------------------------------------------------------------------
(* Nothing leaves gate_events.                                             *)
LEMMA EventsStay ==
  ASSUME [Next]_vars
  PROVE  gateEvents \subseteq gateEvents'
BY DEF Next, vars, server, Admit, Begin, Drained, Handset, Send, Receive, TimeOut, SessionRejected, Restart,
       Server, Take, Insert, Inserted, RolledBack, CountUses, Answer, Crash, Revoke

(* An answer names as landed only what is in the table by then.            *)
LEMMA ToldStep ==
  ASSUME TypeOK, ToldInv, [Next]_vars
  PROVE  ToldInv'
<1> DEFINE ToldNow(d, results) ==
             \A o \in results : o.outcome # "rejected" => <<d, o.event>> \in gateEvents'
<1>0. /\ \A p \in Processes : ToldNow(process[p].device, process[p].results)
      /\ \A r \in responses : ToldNow(r.device, r.results)
  BY EventsStay DEF ToldInv, Told
<1>1. SUFFICES /\ \A p \in Processes : ToldNow(process'[p].device, process'[p].results)
               /\ \A r \in responses' : ToldNow(r.device, r.results)
  BY DEF ToldInv, Told
<1> DEFINE Processes_ == \A p \in Processes : ToldNow(process'[p].device, process'[p].results)
<1> DEFINE Responses_ == \A r \in responses' : ToldNow(r.device, r.results)
<1>2. UNCHANGED process => Processes_
  BY <1>0
<1>3. responses' \subseteq responses => Responses_
  BY <1>0
<1> HIDE DEF ToldNow
<1>4. ASSUME NEW d \in Devices, StopWaiting(d) PROVE responses' \subseteq responses
  BY <1>4 DEF StopWaiting
<1>5. ASSUME NEW d \in Devices,
             \/ \E visit \in Visits : Admit(d, visit)
             \/ Begin(d) \/ Handset(d) \/ SessionRejected(d) \/ Restart(d)
      PROVE  UNCHANGED process /\ responses' \subseteq responses
  BY <1>4, <1>5
  DEF Admit, Begin, Drained, Handset, Send, Receive, TimeOut, RetryOrPark, SessionRejected, Restart, server
<1>6. ASSUME NEW p \in Processes, Take(p) PROVE Processes_ /\ responses' = responses
  <2>1. \A q \in Processes : q # p => process'[q] = process[q]
    BY <1>6 DEF Take, TypeOK
  <2>2. process'[p].results = {}
    BY <1>6 DEF Take, TypeOK, NoWork
  <2> QED
    BY <1>0, <1>6, <2>1, <2>2 DEF Take, ToldNow
<1>7. ASSUME NEW p \in Processes, Insert(p) PROVE Processes_ /\ responses' = responses
  <2>0. PICK n \in process[p].todo : \E o :
          /\ process' = [process EXCEPT ![p] =
               [pc |-> IF @.todo = {n} THEN "count" ELSE "insert",
                device |-> @.device, round |-> @.round, todo |-> @.todo \ {n},
                results |-> @.results \cup {o}]]
          /\ o.event = n
          /\ o.outcome # "rejected" => <<process[p].device, n>> \in gateEvents'
    <3>1. PICK n \in NextOf(process[p].todo), outcome \in {"accepted", "duplicate", "rejected"} :
            /\ Report(p, n, outcome)
            /\ outcome # "rejected" => <<process[p].device, n>> \in gateEvents'
      BY <1>7 DEF Insert, Inserted, OutcomeOf
    <3>2. n \in process[p].todo
      BY DEF NextOf
    <3>3. PICK o : o = [event |-> n, outcome |-> outcome]
      OBVIOUS
    <3>4. process' = [process EXCEPT ![p] =
               [pc |-> IF @.todo = {n} THEN "count" ELSE "insert",
                device |-> @.device, round |-> @.round, todo |-> @.todo \ {n},
                results |-> @.results \cup {o}]]
      BY <3>1, <3>3, Zenon DEF Report
    <3>5. o.event = n /\ o.outcome = outcome
      BY <3>3
    <3> QED
      BY <3>1, <3>2, <3>4, <3>5, Zenon
  <2>1. PICK o :
          /\ process' = [process EXCEPT ![p] =
               [pc |-> IF @.todo = {n} THEN "count" ELSE "insert",
                device |-> @.device, round |-> @.round, todo |-> @.todo \ {n},
                results |-> @.results \cup {o}]]
          /\ o.event = n
          /\ o.outcome # "rejected" => <<process[p].device, n>> \in gateEvents'
    BY <2>0
  <2>2. \A q \in Processes : q # p => process'[q] = process[q]
    BY <2>1 DEF TypeOK
  <2>3. process'[p].device = process[p].device /\ process'[p].results = process[p].results \cup {o}
    BY <2>1 DEF TypeOK
  <2>4. ToldNow(process'[p].device, process'[p].results)
    BY <1>0, <2>1, <2>3 DEF ToldNow
  <2> QED
    BY <1>0, <1>7, <2>2, <2>4 DEF Insert
<1>8. ASSUME NEW p \in Processes, CountUses(p) \/ Crash(p) \/ Answer(p) PROVE Processes_
  <2>1. \A q \in Processes : q # p => process'[q] = process[q]
    BY <1>8 DEF CountUses, Crash, Answer, TypeOK
  <2>2. CASE process' = [process EXCEPT ![p].pc = "answer"]
    <3>1. process'[p].device = process[p].device /\ process'[p].results = process[p].results
      BY <2>2 DEF TypeOK
    <3> QED
      BY <1>0, <2>1, <3>1
  <2>3. CASE process' = [process EXCEPT ![p] = NoWork(process[p].device)]
    <3>1. process'[p].results = {}
      BY <2>3 DEF TypeOK, NoWork
    <3> QED
      BY <1>0, <2>1, <3>1 DEF ToldNow
  <2> QED
    BY <1>8, <2>2, <2>3 DEF CountUses, Crash, Answer
<1>9. ASSUME NEW p \in Processes, Answer(p) PROVE Responses_
  <2>1. PICK r : /\ responses' \subseteq responses \cup {r}
                 /\ r = [device |-> process[p].device, round |-> process[p].round,
                         results |-> process[p].results]
    BY <1>9 DEF Answer
  <2>2. ToldNow(r.device, r.results)
    BY <1>0, <2>1
  <2> QED
    BY <1>0, <2>1, <2>2
<1>10. ASSUME NEW p \in Processes, CountUses(p) \/ Crash(p) PROVE responses' = responses
  BY <1>10 DEF CountUses, Crash
<1>11. ASSUME (\E pass \in Passes : Revoke(pass)) \/ UNCHANGED vars
       PROVE  UNCHANGED process /\ responses' = responses
  BY <1>11 DEF Revoke, vars, server
<1> QED
  BY <1>2, <1>3, <1>5, <1>6, <1>7, <1>8, <1>9, <1>10, <1>11 DEF Next, Server

(* Whatever crosses a row off has been told that the event landed.         *)
LEMMA SentStep ==
  ASSUME TypeOK, ToldInv, SentMeansRecorded, [Next]_vars
  PROVE  SentMeansRecorded'
<1> DEFINE Safe(d) == \A n \in DOMAIN outbox'[d] :
             outbox'[d][n].state = "sent" => <<d, n>> \in gateEvents'
<1>1. \A d \in Devices : outbox'[d] = outbox[d] => Safe(d)
  BY EventsStay DEF SentMeansRecorded
<1>2. SUFFICES ASSUME NEW d \in Devices PROVE Safe(d)
  BY DEF SentMeansRecorded
<1>3. ASSUME NEW state, Mark(d, state), \A n \in DOMAIN outbox[d] : state[n] \in States,
             \A n \in DOMAIN outbox[d] : state[n] = "sent" => <<d, n>> \in gateEvents'
      PROVE  Safe(d)
  <2>1. outbox \in [Devices -> Seq(Row)]
    BY DEF TypeOK
  <2>2. /\ DOMAIN outbox'[d] = DOMAIN outbox[d]
        /\ \A n \in DOMAIN outbox[d] : outbox'[d][n].state = state[n]
    BY <1>3, <2>1, Marking
  <2> QED
    BY <1>3, <2>2
<1>4. ASSUME NEW visit \in Visits, Admit(d, visit) PROVE Safe(d)
  <2>1. PICK row : row = [visit |-> visit, state |-> "pending", attempts |-> 0]
    OBVIOUS
  <2>2. outbox'[d] = Append(outbox[d], row) /\ outbox[d] \in Seq(Row) /\ row.state = "pending"
    BY <1>4, <2>1 DEF Admit, TypeOK
  <2> QED
    BY <2>2, EventsStay DEF SentMeansRecorded
<1>5. ASSUME Send(d) PROVE Safe(d)
  <2>1. outbox'[d] = [n \in DOMAIN outbox[d] |->
          IF n \in Batch(d) THEN MarkSending(outbox[d][n]) ELSE outbox[d][n]]
    BY <1>5 DEF Send, TypeOK
  <2> QED
    BY <2>1, EventsStay DEF MarkSending, SentMeansRecorded
<1>6. ASSUME Receive(d) PROVE Safe(d)
  <2>1. PICK r \in responses : /\ r.device = d
                               /\ Mark(d, [n \in DOMAIN outbox[d] |-> StateAfter(d, n, r.results)])
    BY <1>6 DEF Receive
  <2>2. PICK state : state = [n \in DOMAIN outbox[d] |-> StateAfter(d, n, r.results)]
    OBVIOUS
  <2>3. ASSUME NEW n \in DOMAIN outbox[d]
        PROVE  state[n] \in States /\ (state[n] = "sent" => <<d, n>> \in gateEvents')
    <3>1. outbox[d][n] \in Row
      BY DEF TypeOK
    <3>2. state[n] = StateAfter(d, n, r.results)
      BY <2>2
    <3>3. ASSUME StateAfter(d, n, r.results) = "sent", n \in upload[d].batch
          PROVE  \E o \in r.results : o.event = n /\ o.outcome # "rejected"
      BY <3>3 DEF StateAfter
    <3>4. n \notin upload[d].batch => state[n] = outbox[d][n].state
      BY <3>2 DEF StateAfter
    <3>5. state[n] \in States
      BY <3>1, <3>2 DEF StateAfter, States, Row
    <3> QED
      BY <2>1, <3>2, <3>3, <3>4, <3>5, EventsStay DEF ToldInv, Told, SentMeansRecorded
  <2> QED
    BY <1>3, <2>1, <2>2, <2>3
<1>7. ASSUME TimeOut(d) \/ SessionRejected(d) PROVE Safe(d)
  <2>1. PICK state :
          /\ Mark(d, state)
          /\ \A n \in DOMAIN outbox[d] : state[n] \in {outbox[d][n].state, "pending", "parked"}
    BY <1>7 DEF TimeOut, RetryOrPark, SessionRejected
  <2>2. ASSUME NEW n \in DOMAIN outbox[d]
        PROVE  state[n] \in States /\ (state[n] = "sent" => <<d, n>> \in gateEvents')
    <3>1. outbox[d][n] \in Row
      BY DEF TypeOK
    <3> QED
      BY <2>1, <3>1, EventsStay DEF States, Row, SentMeansRecorded
  <2> QED
    BY <1>3, <2>1, <2>2
<1>8. ASSUME NEW e \in Devices, e # d,
             \/ \E visit \in Visits : Admit(e, visit)
             \/ Begin(e) \/ Handset(e) \/ SessionRejected(e) \/ Restart(e)
      PROVE  outbox'[d] = outbox[d]
  BY <1>8
  DEF Admit, Begin, Drained, Handset, Send, Receive, TimeOut, RetryOrPark, SessionRejected, Restart, Mark, TypeOK
<1>9. ASSUME \/ \E p \in Processes : Server(p) \/ Crash(p)
             \/ \E pass \in Passes : Revoke(pass)
             \/ Restart(d) \/ Begin(d) \/ Drained(d) \/ UNCHANGED vars
      PROVE  outbox' = outbox
  BY <1>9
  DEF Server, Take, Insert, CountUses, Answer, Crash, Revoke, Restart, Begin, Drained, vars
<1> HIDE DEF Safe
<1> QED
  BY <1>1, <1>4, <1>5, <1>6, <1>7, <1>8, <1>9 DEF Next, Handset
------------------------------------------------------------------------------
(* An entry on a pass stays one.                                           *)
LEMMA EntriesStay ==
  ASSUME TypeOK, WrittenInv, [Next]_vars, NEW pass \in Passes
  PROVE  Entries(pass) \subseteq Entries(pass)'
<1>1. ASSUME NEW e \in gateEvents PROVE VisitOf(e[1], e[2])' = VisitOf(e[1], e[2])
  BY OutboxKept DEF OutboxStep, Keeps, VisitOf, TypeOK, WrittenInv
<1> QED
  BY <1>1, EventsStay DEF Entries

(* And an event that had landed is one only if it was one.                 *)
LEMMA EntriesOfTheLanded ==
  ASSUME TypeOK, WrittenInv, [Next]_vars, NEW pass \in Passes
  PROVE  Entries(pass)' \cap gateEvents \subseteq Entries(pass)
<1>1. ASSUME NEW e \in gateEvents PROVE VisitOf(e[1], e[2])' = VisitOf(e[1], e[2])
  BY OutboxKept DEF OutboxStep, Keeps, VisitOf, TypeOK, WrittenInv
<1> QED
  BY <1>1 DEF Entries

(* If nobody has died yet, nobody had died before.                         *)
LEMMA NobodyHadDied ==
  ASSUME TypeOK, [Next]_vars, trouble'["crash"] = 0
  PROVE  trouble["crash"] = 0 /\ ~ \E p \in Processes : Crash(p)
<1>1. ASSUME UNCHANGED trouble
      PROVE  trouble["crash"] = 0
  BY <1>1
<1>2. ASSUME NEW t \in Troubles, Befalls(t)
      PROVE  trouble["crash"] = 0 /\ t # "crash"
  <2>1. trouble' = [trouble EXCEPT ![t] = @ + 1] /\ trouble \in [Troubles -> Nat]
    BY <1>2 DEF Befalls, TypeOK
  <2>2. "crash" \in Troubles
    BY DEF Troubles
  <2>3. t = "crash" => trouble'["crash"] = trouble["crash"] + 1 /\ trouble["crash"] \in Nat
    BY <2>1, <2>2
  <2>4. t # "crash" => trouble'["crash"] = trouble["crash"]
    BY <2>1, <2>2
  <2> QED
    BY <2>3, <2>4
<1>3. UNCHANGED trouble \/ \E t \in Troubles : Befalls(t)
  BY DEF Next, vars, Admit, Begin, Drained, Handset, Send, Receive, TimeOut, SessionRejected, Restart,
         Server, Take, Insert, CountUses, Answer, Crash, Revoke, Troubles
<1>4. ASSUME NEW p \in Processes, Crash(p) PROVE FALSE
  BY <1>2, <1>4 DEF Crash, Troubles
<1> QED
  BY <1>1, <1>2, <1>3, <1>4

(* A step after which nobody has more to count, and no use was counted;    *)
(* only dying leaves something uncounted.                                  *)
LEMMA NothingToCount ==
  ASSUME TypeOK, WrittenInv, CountInv, [Next]_vars,
         \A p \in Processes : Uncounted(p)' \subseteq Uncounted(p),
         \/ \A p \in Processes : Uncounted(p)' = Uncounted(p)
         \/ \E p \in Processes : Crash(p),
         gateEvents' = gateEvents,
         \A pass \in Passes : passes'[pass].uses = passes[pass].uses
  PROVE  CountInv'
<1>1. ApartInv'
  BY DEF CountInv, ApartInv
<1>2. ASSUME NEW pass \in Passes PROVE \E C \in SUBSET gateEvents' : CountedAre(pass, C)'
  <2>1. PICK C \in SUBSET gateEvents : CountedAre(pass, C)
    BY DEF CountInv
  <2>2. C \subseteq Entries(pass)'
    BY <2>1, EntriesStay DEF CountedAre
  <2>3. ASSUME trouble'["crash"] = 0, NEW e \in Entries(pass)' \ C
        PROVE  \E p \in Processes : e \in Uncounted(p)'
    <3>1. trouble["crash"] = 0 /\ \A p \in Processes : Uncounted(p)' = Uncounted(p)
      BY <2>3, NobodyHadDied
    <3>2. e \in Entries(pass) \ C
      BY EntriesOfTheLanded DEF Entries
    <3> QED
      BY <2>1, <3>1, <3>2 DEF CountedAre
  <2>4. CountedAre(pass, C)'
    BY <2>1, <2>2, <2>3 DEF CountedAre
  <2> QED
    BY <2>4
<1> QED
  BY <1>1, <1>2 DEF CountInv

LEMMA UncountedLanded ==
  ASSUME TypeOK, ToldInv, NEW p \in Processes
  PROVE  Uncounted(p) \subseteq gateEvents
BY DEF ToldInv, Told, Uncounted, Landed

(* An event that lands now was in nobody's hands.                          *)
LEMMA InsertCounts ==
  ASSUME TypeOK, WrittenInv, ToldInv, CountInv, NEW p \in Processes, Insert(p)
  PROVE  CountInv'
<1>0. [Next]_vars
  BY DEF Next, Server
<1>1. PICK n \in process[p].todo, outcome \in {"accepted", "duplicate", "rejected"} :
        /\ process' = [process EXCEPT ![p] =
             [pc |-> IF @.todo = {n} THEN "count" ELSE "insert",
              device |-> @.device, round |-> @.round, todo |-> @.todo \ {n},
              results |-> @.results \cup {[event |-> n, outcome |-> outcome]}]]
        /\ \/ /\ gateEvents' = gateEvents \cup {<<process[p].device, n>>}
              /\ outcome = "accepted" <=> <<process[p].device, n>> \notin gateEvents
           \/ gateEvents' = gateEvents /\ outcome = "rejected"
  <2>1. PICK n \in NextOf(process[p].todo), outcome \in {"accepted", "duplicate", "rejected"} :
          /\ Report(p, n, outcome)
          /\ \/ /\ gateEvents' = gateEvents \cup {<<process[p].device, n>>}
                /\ outcome = "accepted" <=> <<process[p].device, n>> \notin gateEvents
             \/ gateEvents' = gateEvents /\ outcome = "rejected"
    BY DEF Insert, Inserted, RolledBack, OutcomeOf
  <2>2. n \in process[p].todo
    BY DEF NextOf
  <2> QED
    BY <2>1, <2>2, Zenon DEF Report
<1> DEFINE e == <<process[p].device, n>>
<1>2. \A q \in Processes : q # p => Uncounted(q)' = Uncounted(q)
  BY <1>1 DEF Uncounted, Landed, TypeOK
<1>3. \/ Uncounted(p)' = Uncounted(p) /\ gateEvents' = gateEvents
      \/ e \notin gateEvents /\ Uncounted(p)' = Uncounted(p) \cup {e}
  <2>1. PICK o : o = [event |-> n, outcome |-> outcome]
    OBVIOUS
  <2>2. /\ process'[p].device = process[p].device
        /\ process'[p].results = process[p].results \cup {o}
        /\ process[p].pc = "insert" /\ process'[p].pc \in {"insert", "count"}
    BY <1>1, <2>1 DEF TypeOK, Insert
  <2>3. /\ o.event = n /\ (o.outcome = "accepted" => e \notin gateEvents)
        /\ o.outcome # "accepted" => gateEvents' = gateEvents
    BY <1>1, <2>1
  <2>4. CASE o.outcome = "accepted"
    BY <2>2, <2>3, <2>4 DEF Uncounted, Landed
  <2>5. CASE o.outcome # "accepted"
    BY <2>2, <2>3, <2>5 DEF Uncounted, Landed
  <2> QED
    BY <2>4, <2>5
<1>4. /\ gateEvents \subseteq gateEvents'
      /\ gateEvents' \subseteq gateEvents \cup {e}
      /\ IsFiniteSet(gateEvents')
  BY <1>1, FS_AddElement DEF CountInv
<1>5. passes' = passes
  BY DEF Insert
<1> HIDE DEF e
<1>6. ApartInv'
  BY <1>2, <1>3, UncountedLanded DEF CountInv, ApartInv
<1>7. ASSUME NEW pass \in Passes PROVE \E C \in SUBSET gateEvents' : CountedAre(pass, C)'
  <2>1. PICK C \in SUBSET gateEvents : CountedAre(pass, C)
    BY DEF CountInv
  <2>2. C \subseteq Entries(pass)'
    BY <1>0, <2>1, EntriesStay DEF CountedAre
  <2>3. \A q \in Processes : Uncounted(q)' \cap C = {}
    BY <1>2, <1>3, <2>1 DEF CountedAre
  <2>4. ASSUME trouble'["crash"] = 0, NEW x \in Entries(pass)' \ C
        PROVE  \E q \in Processes : x \in Uncounted(q)'
    <3>1. CASE x \in gateEvents
      <4>1. x \in Entries(pass) \ C /\ trouble["crash"] = 0
        BY <1>0, <2>4, <3>1, EntriesOfTheLanded, NobodyHadDied
      <4>2. PICK q \in Processes : x \in Uncounted(q)
        BY <2>1, <4>1 DEF CountedAre
      <4> QED
        BY <1>2, <1>3, <4>2
    <3>2. CASE x \notin gateEvents
      BY <1>3, <1>4, <3>2 DEF Entries
    <3> QED
      BY <3>1, <3>2
  <2>5. CountedAre(pass, C)'
    BY <1>5, <2>1, <2>2, <2>3, <2>4 DEF CountedAre
  <2> QED
    BY <1>4, <2>5
<1> QED
  BY <1>4, <1>6, <1>7 DEF CountInv

(* Counting moves what a process holds to what has been counted.           *)
LEMMA CountUsesCounts ==
  ASSUME TypeOK, WrittenInv, ToldInv, CountInv, NEW p \in Processes, CountUses(p)
  PROVE  CountInv'
<1>0. [Next]_vars
  BY DEF Next, Server
<1>1. /\ process[p].pc = "count" /\ gateEvents' = gateEvents
      /\ process' = [process EXCEPT ![p].pc = "answer"]
  BY DEF CountUses
<1>2. \A q \in Processes : q # p => Uncounted(q)' = Uncounted(q)
  BY <1>1 DEF Uncounted, Landed, TypeOK
<1>3. Uncounted(p)' = {} /\ Uncounted(p) = Pairs(p, Landed(p))
  BY <1>1 DEF Uncounted, Pairs, TypeOK
<1>4. ApartInv'
  BY <1>2, <1>3 DEF CountInv, ApartInv
<1>5. ASSUME NEW pass \in Passes PROVE \E C \in SUBSET gateEvents' : CountedAre(pass, C)'
  <2>1. PICK C \in SUBSET gateEvents : CountedAre(pass, C)
    BY DEF CountInv
  <2>0. PICK N : N = Pairs(p, NewEntries(p, pass))
    OBVIOUS
  <2>2. /\ N \subseteq Uncounted(p) /\ N \subseteq Entries(pass) /\ N \subseteq gateEvents
        /\ IsFiniteSet(N) /\ NewUses(p, pass) = Cardinality(N) /\ NewUses(p, pass) \in Nat
    BY <1>3, <2>0, NewUsesAreEntries DEF CountInv
  <2>3. passes'[pass].uses = passes[pass].uses + NewUses(p, pass)
    <3>1. NewEntries(p, pass) = {} => NewUses(p, pass) = 0
      BY FS_EmptySet DEF NewUses
    <3> QED
      BY <3>1 DEF CountUses, TypeOK
  <2>4. IsFiniteSet(C) /\ C \cap N = {}
    BY <2>1, <2>2, FS_Subset DEF CountInv, CountedAre
  <2>5. Cardinality(C \cup N) = Cardinality(C) + Cardinality(N)
    <3>1. Cardinality(C \cup N) = Cardinality(C) + Cardinality(N) - Cardinality(C \cap N)
      BY <2>2, <2>4, FS_Union
    <3>2. Cardinality(C \cap N) = 0
      BY <2>4, FS_EmptySet
    <3>3. Cardinality(C) \in Nat /\ Cardinality(N) \in Nat
      BY <2>2, <2>4, FS_CardinalityType
    <3> QED
      BY <3>1, <3>2, <3>3
  <2>6. C \cup N \subseteq Entries(pass)'
    BY <1>0, <2>1, <2>2, EntriesStay DEF CountedAre
  <2>7. \A q \in Processes : Uncounted(q)' \cap (C \cup N) = {}
    BY <1>2, <1>3, <2>1, <2>2 DEF CountedAre, CountInv, ApartInv
  <2>8. ASSUME trouble'["crash"] = 0, NEW e \in Entries(pass)' \ (C \cup N)
        PROVE  \E q \in Processes : e \in Uncounted(q)'
    <3>1. e \in Entries(pass) /\ trouble["crash"] = 0
      BY <1>0, <1>1, <2>8, EntriesOfTheLanded, NobodyHadDied DEF Entries
    <3>2. PICK q \in Processes : e \in Uncounted(q)
      BY <2>1, <3>1 DEF CountedAre
    <3>3. e \in Uncounted(p) => e \in N
      BY <1>3, <2>0, <3>1 DEF Pairs, NewEntries, Entries
    <3> QED
      BY <1>2, <3>2, <3>3
  <2>9. CountedAre(pass, C \cup N)'
    BY <2>1, <2>2, <2>3, <2>5, <2>6, <2>7, <2>8 DEF CountedAre
  <2> QED
    BY <1>1, <2>2, <2>9
<1> QED
  BY <1>1, <1>4, <1>5 DEF CountInv

LEMMA CountStep ==
  ASSUME TypeOK, WrittenInv, ToldInv, CountInv, [Next]_vars
  PROVE  CountInv'
<1>1. ASSUME UNCHANGED <<process, gateEvents>>,
             \A pass \in Passes : passes'[pass].uses = passes[pass].uses
      PROVE  CountInv'
  <2>1. \A p \in Processes : Uncounted(p)' = Uncounted(p)
    BY <1>1 DEF Uncounted, Landed
  <2> QED
    BY <1>1, <2>1, NothingToCount
<1>2. ASSUME NEW d \in Devices,
             \/ \E visit \in Visits : Admit(d, visit)
             \/ Begin(d) \/ Handset(d) \/ SessionRejected(d) \/ Restart(d)
      PROVE  CountInv'
  BY <1>1, <1>2
  DEF Admit, Begin, Drained, Handset, Send, Receive, TimeOut, RetryOrPark, SessionRejected, Restart, server
<1>3. ASSUME NEW p \in Processes, Take(p) \/ Answer(p) \/ Crash(p) PROVE CountInv'
  <2>1. \A q \in Processes : q # p => process'[q] = process[q]
    BY <1>3 DEF Take, Answer, Crash, TypeOK
  <2>2. Uncounted(p)' = {}
    BY <1>3 DEF Take, Answer, Crash, Uncounted, Landed, NoWork, TypeOK
  <2>3. \A q \in Processes : Uncounted(q)' \subseteq Uncounted(q)
    BY <2>1, <2>2 DEF Uncounted, Landed
  <2>4. (\A q \in Processes : Uncounted(q)' = Uncounted(q)) \/ Crash(p)
    <3>1. Take(p) \/ Answer(p) => Uncounted(p) = {}
      BY DEF Take, Answer, Uncounted
    <3> QED
      BY <1>3, <2>1, <2>2, <3>1 DEF Uncounted, Landed
  <2>5. gateEvents' = gateEvents /\ passes' = passes
    BY <1>3 DEF Take, Answer, Crash
  <2> QED
    BY <2>3, <2>4, <2>5, NothingToCount
<1>4. ASSUME NEW p \in Processes, Insert(p) \/ CountUses(p) PROVE CountInv'
  BY <1>4, InsertCounts, CountUsesCounts
<1>5. ASSUME NEW pass \in Passes, Revoke(pass) PROVE CountInv'
  <2>1. \A q \in Passes : passes'[q].uses = passes[q].uses
    BY <1>5 DEF Revoke, TypeOK
  <2> QED
    BY <1>1, <1>5, <2>1 DEF Revoke
<1>6. ASSUME UNCHANGED vars PROVE CountInv'
  BY <1>1, <1>6 DEF vars, server
<1> QED
  BY <1>2, <1>3, <1>4, <1>5, <1>6 DEF Next, Server

(* Only countPassUses raises the uses, and it looks at the result.         *)
LEMMA SpentStep ==
  ASSUME TypeOK, SpentPassIsRetired, [Next]_vars
  PROVE  SpentPassIsRetired'
<1>1. ASSUME UNCHANGED passes PROVE SpentPassIsRetired'
  BY <1>1 DEF SpentPassIsRetired
<1>2. ASSUME NEW p \in Processes, CountUses(p) PROVE SpentPassIsRetired'
  <2> SUFFICES ASSUME NEW pass \in Passes, passes'[pass].uses >= MaxUses[pass]
               PROVE  passes'[pass].status # "active"
    BY DEF SpentPassIsRetired
  <2>1. CASE NewEntries(p, pass) = {}
    BY <1>2, <2>1 DEF CountUses, SpentPassIsRetired
  <2>2. CASE NewEntries(p, pass) # {}
    <3>1. passes'[pass] =
            [uses |-> passes[pass].uses + NewUses(p, pass),
             status |-> IF SpentAt(passes[pass].uses + NewUses(p, pass), pass)
                        THEN "used" ELSE passes[pass].status]
      BY <1>2, <2>2 DEF CountUses
    <3> QED
      BY <3>1 DEF SpentAt
  <2> QED
    BY <2>1, <2>2
<1>3. ASSUME NEW pass \in Passes, Revoke(pass) PROVE SpentPassIsRetired'
  BY <1>3 DEF Revoke, SpentPassIsRetired, TypeOK
<1> QED
  BY <1>1, <1>2, <1>3
  DEF Next, vars, server, Admit, Begin, Drained, Handset, Send, Receive, TimeOut, SessionRejected, Restart,
      Server, Take, Insert, Answer, Crash
------------------------------------------------------------------------------
LEMMA InitIsGood == Init => IInv
<1> SUFFICES ASSUME Init PROVE IInv
  OBVIOUS
<1> USE DEF Init
<1>1. SomeDevice \in Devices
  BY GateAssumption DEF SomeDevice
<1>2. TypeOK
  <2>1. outbox \in [Devices -> Seq(Row)]
    OBVIOUS
  <2>2. process \in [Processes -> [pc : {"idle", "insert", "count", "answer"},
                                device : Devices, round : Nat,
                                todo : SUBSET (Nat \ {0}), results : SUBSET Outcome]]
    BY <1>1 DEF NoWork
  <2> QED
    BY <2>1, <2>2 DEF TypeOK, Idle
<1>3. WrittenInv /\ ToldInv
  BY DEF WrittenInv, ToldInv, Told, Idle, NoWork
<1>4. SentMeansRecorded
  BY DEF SentMeansRecorded
<1>5. SpentPassIsRetired
  BY GateAssumption DEF SpentPassIsRetired
<1>6. CountInv
  <2>1. \A p \in Processes : Uncounted(p) = {}
    BY DEF Uncounted, NoWork
  <2>2. IsFiniteSet({}) /\ Cardinality({}) = 0
    BY FS_EmptySet
  <2>3. \A pass \in Passes : CountedAre(pass, {})
    BY <2>1, <2>2 DEF CountedAre, Entries
  <2> QED
    BY <2>1, <2>2, <2>3 DEF CountInv, ApartInv
<1> QED
  BY <1>2, <1>3, <1>4, <1>5, <1>6 DEF IInv

LEMMA IInvStep == IInv /\ [Next]_vars => IInv'
<1> SUFFICES ASSUME IInv, [Next]_vars PROVE IInv'
  OBVIOUS
<1>1. TypeOK' /\ WrittenInv'
  BY TypeStep, WrittenStep DEF IInv, CountInv
<1>2. ToldInv' /\ SentMeansRecorded'
  BY ToldStep, SentStep DEF IInv
<1>3. CountInv' /\ SpentPassIsRetired'
  BY CountStep, SpentStep DEF IInv
<1> QED
  BY <1>1, <1>2, <1>3 DEF IInv

(* What the handsets believe and what the server has recorded and counted  *)
(* stay in step, whatever the network and the processes do.                *)
THEOREM Invariance == Spec => []IInv
BY InitIsGood, IInvStep, PTL DEF Spec

(* Outboxes, batches, answers and passes always have their shape; in       *)
(* particular every use that is counted is a natural number.               *)
THEOREM TypeCorrect == Spec => []TypeOK
<1>1. IInv => TypeOK
  BY DEF IInv
<1> QED
  BY <1>1, Invariance, PTL

(* An event that the handset has crossed off is in gate_events             *)
(* (sync_engine.dart:166-185).                                             *)
THEOREM SentIsRecorded == Spec => []SentMeansRecorded
<1>1. IInv => SentMeansRecorded
  BY DEF IInv
<1> QED
  BY <1>1, Invariance, PTL

(* A replayed batch burns no uses (gate.service.ts:161-169).               *)
THEOREM NoDoubleCount == Spec => []NoEntryIsCountedTwice
<1>1. IInv => NoEntryIsCountedTwice
  <2> SUFFICES ASSUME IInv, NEW pass \in Passes
               PROVE  passes[pass].uses <= Cardinality(Entries(pass))
    BY DEF NoEntryIsCountedTwice
  <2>1. PICK C \in SUBSET gateEvents : CountedAre(pass, C)
    BY DEF IInv, CountInv
  <2>2. IsFiniteSet(Entries(pass))
    BY FS_Subset DEF IInv, CountInv, Entries
  <2> QED
    BY <2>1, <2>2, FS_Subset DEF CountedAre
<1> QED
  BY <1>1, Invariance, PTL

(* Unless a process died, an entry that landed is counted by the time      *)
(* nothing is being handled (gate.service.ts:159-169).                     *)
THEOREM NoUseIsLost == Spec => []EveryEntryIsCounted
<1>1. IInv => EveryEntryIsCounted
  <2> SUFFICES ASSUME IInv, NEW pass \in Passes, trouble["crash"] = 0,
                      \A p \in Processes : process[p].pc = "idle"
               PROVE  passes[pass].uses = Cardinality(Entries(pass))
    BY DEF EveryEntryIsCounted
  <2>1. PICK C \in SUBSET gateEvents : CountedAre(pass, C)
    BY DEF IInv, CountInv
  <2>2. \A p \in Processes : Uncounted(p) = {}
    BY DEF Uncounted
  <2>3. C = Entries(pass)
    BY <2>1, <2>2 DEF CountedAre
  <2> QED
    BY <2>1, <2>3 DEF CountedAre
<1> QED
  BY <1>1, Invariance, PTL

(* A pass whose uses are spent is not active (gate.service.ts:223-229).    *)
THEOREM SpentIsRetired == Spec => []SpentPassIsRetired
<1>1. IInv => SpentPassIsRetired
  BY DEF IInv
<1> QED
  BY <1>1, Invariance, PTL
------------------------------------------------------------------------------
(* The order in which a handset's events land.  What is being sent is      *)
(* marked as such, so that nothing an upload comes to touches a parked row *)
(* of another; and before an event of a batch, every earlier one of that   *)
(* handset is in the batch too, or is past.                                *)
SendingInv ==
  \A d \in Devices : upload[d].waiting =>
    \A n \in upload[d].batch : outbox[d][n].state = "sending"

Passed(d, m) == <<d, m>> \in gateEvents \/ outbox[d][m].state = "parked"

InOrder(d, todo, results) ==
  \A n \in todo : \A m \in 1..(n - 1) :
    m \in todo \/ Passed(d, m) \/ [event |-> m, outcome |-> "rejected"] \in results

HandlesInOrder(p) == InOrder(process[p].device, process[p].todo, process[p].results)

OrderInv ==
  /\ SendingInv
  /\ \A r \in requests : InOrder(r.device, r.batch, {})
  /\ \A p \in Processes : HandlesInOrder(p)

(* Which rows the end of an upload can change.                             *)
LEMMA OnlyTheBatchIsMarked ==
  ASSUME TypeOK, NEW d \in Devices,
         Receive(d) \/ TimeOut(d) \/ SessionRejected(d)
  PROVE  /\ upload[d].waiting /\ StopWaiting(d)
         /\ \A e \in Devices \ {d} : outbox'[e] = outbox[e]
         /\ \A n \in DOMAIN outbox[d] \ upload[d].batch : outbox'[d][n].state = outbox[d][n].state
<1> DEFINE Kept(state) == \A n \in DOMAIN outbox[d] :
             state[n] \in States /\ (n \notin upload[d].batch => state[n] = outbox[d][n].state)
<1>1. ASSUME NEW state, Mark(d, state), Kept(state)
      PROVE  /\ \A e \in Devices \ {d} : outbox'[e] = outbox[e]
             /\ \A n \in DOMAIN outbox[d] \ upload[d].batch :
                   outbox'[d][n].state = outbox[d][n].state
  <2>1. outbox \in [Devices -> Seq(Row)]
    BY DEF TypeOK
  <2> QED
    BY <1>1, <2>1, Marking
<1>0. \A n \in DOMAIN outbox[d] : outbox[d][n].state \in States
  <2>1. \A n \in DOMAIN outbox[d] : outbox[d][n] \in Row
    BY DEF TypeOK
  <2> QED
    BY <2>1 DEF Row, States
<1>2. CASE Receive(d)
  <2>1. PICK r \in responses : Mark(d, [n \in DOMAIN outbox[d] |-> StateAfter(d, n, r.results)])
    BY <1>2 DEF Receive
  <2>2. PICK state : state = [n \in DOMAIN outbox[d] |-> StateAfter(d, n, r.results)]
    OBVIOUS
  <2>3. Kept(state)
    BY <1>0, <2>2 DEF StateAfter, States
  <2> QED
    BY <1>1, <1>2, <2>1, <2>2, <2>3 DEF Receive
<1>3. CASE TimeOut(d)
  <2>1. PICK state : state = [n \in DOMAIN outbox[d] |->
                IF n \notin upload[d].batch THEN outbox[d][n].state
                ELSE IF HadItsAttempts(d, n) THEN "parked" ELSE "pending"]
    OBVIOUS
  <2>2. Kept(state)
    BY <1>0, <2>1 DEF States
  <2> QED
    BY <1>1, <1>3, <2>1, <2>2 DEF TimeOut, RetryOrPark
<1>4. CASE SessionRejected(d)
  <2>1. PICK state : state = [n \in DOMAIN outbox[d] |->
                IF n \in upload[d].batch THEN "pending" ELSE outbox[d][n].state]
    OBVIOUS
  <2>2. Kept(state)
    BY <1>0, <2>1 DEF States
  <2> QED
    BY <1>1, <1>4, <2>1, <2>2 DEF SessionRejected
<1> QED
  BY <1>2, <1>3, <1>4

(* What a handset does between two uploads.                                *)
LEMMA WhatSendMarks ==
  ASSUME TypeOK, NEW d \in Devices, Send(d)
  PROVE  /\ \A e \in Devices \ {d} : outbox'[e] = outbox[e] /\ upload'[e] = upload[e]
         /\ upload'[d].batch = Batch(d)
         /\ \A n \in DOMAIN outbox[d] : outbox'[d][n] =
              IF n \in Batch(d) THEN MarkSending(outbox[d][n]) ELSE outbox[d][n]
BY DEF Send, TypeOK

LEMMA WhatAdmitKeeps ==
  ASSUME TypeOK, NEW d \in Devices, NEW visit \in Visits, Admit(d, visit)
  PROVE  \A e \in Devices : \A n \in DOMAIN outbox[e] : outbox'[e][n] = outbox[e][n]
<1>1. PICK row : row = [visit |-> visit, state |-> "pending", attempts |-> 0]
  OBVIOUS
<1>2. outbox[d] \in Seq(Row)
  BY DEF TypeOK
<1>3. \A n \in DOMAIN outbox[d] : Append(outbox[d], row)[n] = outbox[d][n]
  BY <1>2
<1>4. outbox' = [outbox EXCEPT ![d] = Append(outbox[d], row)]
  BY <1>1 DEF Admit
<1> QED
  BY <1>3, <1>4 DEF TypeOK

LEMMA WhoWritesOutboxes ==
  ASSUME [Next]_vars
  PROVE  \/ UNCHANGED <<outbox, upload>>
         \/ \E d \in Devices : Restart(d)
         \/ \E d \in Devices, visit \in Visits : Admit(d, visit) /\ UNCHANGED upload
         \/ \E d \in Devices : Send(d)
         \/ \E d \in Devices : Receive(d) \/ TimeOut(d) \/ SessionRejected(d)
BY DEF Next, vars, server, Begin, Drained, Handset, Server, Take, Insert, CountUses, Answer, Crash, Revoke, Admit

LEMMA SendingStep ==
  ASSUME TypeOK, WrittenInv, SendingInv, [Next]_vars
  PROVE  SendingInv'
<1>1. CASE UNCHANGED <<outbox, upload>>
  BY <1>1 DEF SendingInv
<1>2. ASSUME NEW d \in Devices, Restart(d) PROVE SendingInv'
  BY <1>2 DEF Restart, StopWaiting, SendingInv, TypeOK
<1>3. ASSUME NEW d \in Devices, NEW visit \in Visits, Admit(d, visit), UNCHANGED upload
      PROVE  SendingInv'
  <2>1. \A e \in Devices : \A n \in upload[e].batch : outbox'[e][n] = outbox[e][n]
    BY <1>3, WhatAdmitKeeps DEF WrittenInv
  <2> QED
    BY <1>3, <2>1 DEF SendingInv
<1>4. ASSUME NEW d \in Devices, Send(d) PROVE SendingInv'
  <2>1. Batch(d) \subseteq DOMAIN outbox[d]
    BY BatchTyped
  <2>2. ASSUME NEW n \in Batch(d) PROVE outbox'[d][n].state = "sending"
    <3>1. outbox'[d][n] = MarkSending(outbox[d][n])
      BY <1>4, <2>1, WhatSendMarks
    <3> QED
      BY <3>1 DEF MarkSending
  <2>3. \A e \in Devices : upload'[e].waiting =>
          \A n \in upload'[e].batch : outbox'[e][n].state = "sending"
    BY <1>4, <2>2, WhatSendMarks DEF SendingInv
  <2> QED
    BY <2>3 DEF SendingInv
<1>5. ASSUME NEW d \in Devices, Receive(d) \/ TimeOut(d) \/ SessionRejected(d)
      PROVE  SendingInv'
  <2>1. \A e \in Devices \ {d} : outbox'[e] = outbox[e] /\ upload'[e] = upload[e]
    BY <1>5, OnlyTheBatchIsMarked DEF StopWaiting, TypeOK
  <2>2. ~upload'[d].waiting
    BY <1>5, OnlyTheBatchIsMarked DEF StopWaiting, TypeOK
  <2>3. \A e \in Devices : upload'[e].waiting =>
          \A n \in upload'[e].batch : outbox'[e][n].state = "sending"
    BY <2>1, <2>2 DEF SendingInv
  <2> QED
    BY <2>3 DEF SendingInv
<1> QED
  BY <1>1, <1>2, <1>3, <1>4, <1>5, WhoWritesOutboxes

(* What is past stays past.                                                *)
LEMMA ParkedStays ==
  ASSUME TypeOK, WrittenInv, SendingInv, [Next]_vars,
         NEW e \in Devices, NEW m \in DOMAIN outbox[e], outbox[e][m].state = "parked"
  PROVE  outbox'[e][m].state = "parked"
<1>1. CASE UNCHANGED outbox
  BY <1>1
<1>2. ASSUME NEW d \in Devices, NEW visit \in Visits, Admit(d, visit)
      PROVE  outbox'[e][m].state = "parked"
  BY <1>2, WhatAdmitKeeps
<1>3. ASSUME NEW d \in Devices, Send(d)
      PROVE  outbox'[e][m].state = "parked"
  <2>1. m \notin Batch(e)
    BY DEF Batch, Pending, Waits
  <2> QED
    BY <1>3, <2>1, WhatSendMarks
<1>4. ASSUME NEW d \in Devices, Receive(d) \/ TimeOut(d) \/ SessionRejected(d)
      PROVE  outbox'[e][m].state = "parked"
  <2>1. d = e => m \notin upload[e].batch
    BY <1>4, OnlyTheBatchIsMarked DEF SendingInv
  <2> QED
    BY <1>4, <2>1, OnlyTheBatchIsMarked
<1> QED
  BY <1>1, <1>2, <1>3, <1>4, WhoWritesOutboxes DEF Restart

LEMMA InOrderStays ==
  ASSUME TypeOK, WrittenInv, SendingInv, [Next]_vars,
         NEW d \in Devices, NEW todo, todo \subseteq DOMAIN outbox[d],
         NEW results, InOrder(d, todo, results)
  PROVE  InOrder(d, todo, results)'
<1> SUFFICES ASSUME NEW n \in todo, NEW m \in 1..(n - 1), Passed(d, m)
             PROVE  <<d, m>> \in gateEvents' \/ outbox'[d][m].state = "parked"
  BY DEF InOrder, Passed
<1>1. m \in DOMAIN outbox[d]
  BY DEF TypeOK
<1> QED
  BY <1>1, ParkedStays, EventsStay DEF Passed

(* What is left out of a batch was no longer waiting, or comes later.      *)
LEMMA TheBatchComesFirst ==
  ASSUME TypeOK, WrittenInv, SentMeansRecorded, NEW d \in Devices
  PROVE  InOrder(d, Batch(d), {})
<1> SUFFICES ASSUME NEW n \in Batch(d), NEW m \in 1..(n - 1), m \notin Batch(d)
             PROVE  Passed(d, m)
  BY DEF InOrder
<1>1. DOMAIN outbox[d] = 1..Len(outbox[d]) /\ Len(outbox[d]) \in Nat
  BY DEF TypeOK
<1>2. n \in Pending(d) /\ n \in DOMAIN outbox[d] /\ m \in DOMAIN outbox[d] /\ m < n
  BY <1>1 DEF Batch, Pending
<1>3. m \notin Pending(d)
  <2> SUFFICES ASSUME m \in Pending(d) PROVE FALSE
    OBVIOUS
  <2> DEFINE Before(k) == {l \in Pending(d) : l < k}
  <2>1. IsFiniteSet(1..Len(outbox[d]))
    BY <1>1, FS_Interval
  <2>2. Before(n) \subseteq 1..Len(outbox[d]) /\ Before(m) \subseteq Before(n)
    BY <1>1, <1>2 DEF Pending
  <2>3. IsFiniteSet(Before(n)) /\ IsFiniteSet(Before(m))
    BY <2>1, <2>2, FS_Subset
  <2>4. Cardinality(Before(m)) <= Cardinality(Before(n))
    BY <2>2, <2>3, FS_Subset
  <2>5. Cardinality(Before(m)) \in Nat /\ Cardinality(Before(n)) \in Nat
    BY <2>3, FS_CardinalityType
  <2>6. Cardinality(Before(n)) < BatchSize /\ ~(Cardinality(Before(m)) < BatchSize)
    BY DEF Batch
  <2> HIDE DEF Before
  <2> QED
    BY <2>4, <2>5, <2>6, GateAssumption
<1>4. outbox[d][m].state \in {"sent", "parked"}
  <2>1. outbox[d][m] \in Row
    BY <1>2 DEF TypeOK
  <2> QED
    BY <1>2, <1>3, <2>1 DEF Row, Pending, Waits
<1> QED
  BY <1>2, <1>4 DEF Passed, SentMeansRecorded

(* A process that did not move, or moved on without an answer to an event. *)
LEMMA HandledStays ==
  ASSUME TypeOK, WrittenInv, OrderInv, [Next]_vars, NEW p \in Processes,
         /\ process'[p].device = process[p].device
         /\ process'[p].todo = process[p].todo
         /\ process'[p].results = process[p].results
  PROVE  HandlesInOrder(p)'
<1>1. PICK d \in Devices : d = process[p].device
  BY DEF TypeOK
<1>2. PICK todo : todo = process[p].todo
  OBVIOUS
<1>3. PICK results : results = process[p].results
  OBVIOUS
<1>4. todo \subseteq DOMAIN outbox[d] /\ InOrder(d, todo, results) /\ SendingInv
  BY <1>1, <1>2, <1>3 DEF OrderInv, WrittenInv, HandlesInOrder
<1>5. InOrder(d, todo, results)'
  BY <1>4, InOrderStays
<1>6. process'[p].device = d /\ process'[p].todo = todo /\ process'[p].results = results
  BY <1>1, <1>2, <1>3
<1> QED
  BY <1>5, <1>6 DEF HandlesInOrder

(* An insert crosses off the first event of the batch, one way or another. *)
LEMMA InsertIsInOrder ==
  ASSUME TypeOK, WrittenInv, OrderInv, [Next]_vars, NEW p \in Processes, Insert(p)
  PROVE  HandlesInOrder(p)' /\ \A q \in Processes \ {p} : process'[q] = process[q]
<1>1. PICK n \in NextOf(process[p].todo), outcome \in {"accepted", "duplicate", "rejected"} :
        /\ Report(p, n, outcome)
        /\ outcome # "rejected" => <<process[p].device, n>> \in gateEvents'
  BY DEF Insert, Inserted, OutcomeOf
<1>2. PICK o : o = [event |-> n, outcome |-> outcome]
  OBVIOUS
<1>3. process' = [process EXCEPT ![p] =
        [pc |-> IF @.todo = {n} THEN "count" ELSE "insert",
         device |-> @.device, round |-> @.round, todo |-> @.todo \ {n},
         results |-> @.results \cup {o}]]
  BY <1>1, <1>2, Zenon DEF Report
<1>4. PICK d \in Devices : d = process[p].device
  BY DEF TypeOK
<1>5. PICK todo : todo = process[p].todo
  OBVIOUS
<1>6. PICK results : results = process[p].results
  OBVIOUS
<1>7. /\ process'[p].todo = todo \ {n} /\ process'[p].results = results \cup {o}
      /\ process'[p].device = d
      /\ \A q \in Processes \ {p} : process'[q] = process[q]
  BY <1>3, <1>4, <1>5, <1>6 DEF TypeOK
<1>8. todo \subseteq DOMAIN outbox[d] /\ InOrder(d, todo, results) /\ SendingInv
  BY <1>4, <1>5, <1>6 DEF OrderInv, WrittenInv, HandlesInOrder
<1>9. InOrder(d, todo, results)'
  BY <1>8, InOrderStays
<1>10. Passed(d, n)' \/ o = [event |-> n, outcome |-> "rejected"]
  BY <1>1, <1>2, <1>4 DEF Passed
<1>11. InOrder(d, todo \ {n}, results \cup {o})'
  BY <1>9, <1>10 DEF InOrder
<1> QED
  BY <1>7, <1>11 DEF HandlesInOrder

(* What each action makes of the batches on their way and in hand.         *)
LEMMA WhoHandles ==
  ASSUME [Next]_vars
  PROVE  \/ requests' \subseteq requests /\ UNCHANGED process
         \/ UNCHANGED process /\ \E d \in Devices : Send(d)
         \/ requests' \subseteq requests /\ \E p \in Processes :
              Take(p) \/ Insert(p) \/ CountUses(p)
                \/ process' = [process EXCEPT ![p] = NoWork(process[p].device)]
BY DEF Next, vars, server, Begin, Drained, Handset, Server, Take, Insert, CountUses, Answer, Crash, Revoke,
       Admit, Send, Receive, TimeOut, SessionRejected, Restart

LEMMA NothingToHandle ==
  ASSUME TypeOK, NEW p \in Processes, NEW d \in Devices,
         process' = [process EXCEPT ![p] = NoWork(d)]
  PROVE  HandlesInOrder(p)'
BY DEF TypeOK, HandlesInOrder, InOrder, NoWork

LEMMA RequestsStayInOrder ==
  ASSUME TypeOK, WrittenInv, OrderInv, [Next]_vars, NEW r \in requests
  PROVE  InOrder(r.device, r.batch, {})'
<1>1. r.device \in Devices /\ r.batch \subseteq DOMAIN outbox[r.device]
  BY DEF TypeOK, Request, WrittenInv
<1>2. InOrder(r.device, r.batch, {}) /\ SendingInv
  BY DEF OrderInv
<1> QED
  BY <1>1, <1>2, InOrderStays

LEMMA TakeIsInOrder ==
  ASSUME TypeOK, WrittenInv, OrderInv, [Next]_vars, NEW p \in Processes, Take(p)
  PROVE  HandlesInOrder(p)' /\ \A q \in Processes \ {p} : process'[q] = process[q]
<1>1. PICK r \in requests : process' = [process EXCEPT ![p] =
            IF \E n \in r.batch : VisitOf(r.device, n).quality = "malformed"
            THEN NoWork(r.device)
            ELSE [pc |-> "insert", device |-> r.device, round |-> r.round,
                  todo |-> r.batch, results |-> {}]]
  BY DEF Take
<1>2. \A q \in Processes \ {p} : process'[q] = process[q]
  BY <1>1 DEF TypeOK
<1>3. CASE process'[p] = NoWork(r.device)
  BY <1>2, <1>3 DEF HandlesInOrder, InOrder, NoWork
<1>4. CASE process'[p] = [pc |-> "insert", device |-> r.device, round |-> r.round,
                          todo |-> r.batch, results |-> {}]
  <2>1. InOrder(r.device, r.batch, {})'
    BY RequestsStayInOrder
  <2>2. process'[p].device = r.device /\ process'[p].todo = r.batch /\ process'[p].results = {}
    BY <1>4
  <2> QED
    BY <1>2, <2>1, <2>2 DEF HandlesInOrder
<1> QED
  BY <1>1, <1>3, <1>4 DEF TypeOK

LEMMA SendIsInOrder ==
  ASSUME TypeOK, WrittenInv, SentMeansRecorded, OrderInv, [Next]_vars,
         NEW d \in Devices, Send(d)
  PROVE  \A r \in requests' : InOrder(r.device, r.batch, {})'
<1>1. PICK batch : batch = Batch(d)
  OBVIOUS
<1>2. batch \subseteq DOMAIN outbox[d]
  BY <1>1, BatchTyped
<1>3. InOrder(d, batch, {}) /\ SendingInv
  BY <1>1, TheBatchComesFirst DEF OrderInv
<1>4. InOrder(d, batch, {})'
  BY <1>2, <1>3, InOrderStays
<1>5. requests' = requests \cup
        {[device |-> d, round |-> upload[d].round + 1, batch |-> batch]}
  BY <1>1 DEF Send
<1>6. ASSUME NEW r \in requests' \ requests PROVE r.device = d /\ r.batch = batch
  BY <1>5
<1> QED
  BY <1>4, <1>6, RequestsStayInOrder

LEMMA OrderStep ==
  ASSUME TypeOK, WrittenInv, SentMeansRecorded, OrderInv, [Next]_vars
  PROVE  OrderInv'
<1>1. SendingInv'
  BY SendingStep DEF OrderInv
<1>2. ASSUME requests' \subseteq requests
      PROVE  \A r \in requests' : InOrder(r.device, r.batch, {})'
  BY <1>2, RequestsStayInOrder
<1>3. ASSUME NEW q \in Processes, process'[q] = process[q]
      PROVE  HandlesInOrder(q)'
  BY <1>3, HandledStays
<1>4. CASE requests' \subseteq requests /\ UNCHANGED process
  <2>1. \A q \in Processes : process'[q] = process[q]
    BY <1>4
  <2>2. \A q \in Processes : HandlesInOrder(q)'
    BY <1>3, <2>1
  <2> QED
    BY <1>1, <1>2, <1>4, <2>2 DEF OrderInv
<1>5. ASSUME UNCHANGED process, NEW d \in Devices, Send(d) PROVE OrderInv'
  <2>1. \A q \in Processes : process'[q] = process[q]
    BY <1>5
  <2>2. \A q \in Processes : HandlesInOrder(q)'
    BY <1>3, <2>1
  <2>3. \A r \in requests' : InOrder(r.device, r.batch, {})'
    BY <1>5, SendIsInOrder
  <2> QED
    BY <1>1, <2>2, <2>3 DEF OrderInv
<1>6. ASSUME requests' \subseteq requests, NEW p \in Processes,
             HandlesInOrder(p)', \A q \in Processes \ {p} : process'[q] = process[q]
      PROVE  OrderInv'
  <2>1. \A q \in Processes : HandlesInOrder(q)'
    BY <1>3, <1>6
  <2> QED
    BY <1>1, <1>2, <1>6, <2>1 DEF OrderInv
<1>7. ASSUME requests' \subseteq requests, NEW p \in Processes,
             \/ Take(p) \/ Insert(p) \/ CountUses(p)
             \/ process' = [process EXCEPT ![p] = NoWork(process[p].device)]
      PROVE  OrderInv'
  <2>1. CASE Take(p)
    BY <1>6, <1>7, <2>1, TakeIsInOrder
  <2>2. CASE Insert(p)
    BY <1>6, <1>7, <2>2, InsertIsInOrder
  <2>3. CASE CountUses(p)
    <3>1. /\ process'[p].device = process[p].device
          /\ process'[p].todo = process[p].todo
          /\ process'[p].results = process[p].results
          /\ \A q \in Processes \ {p} : process'[q] = process[q]
      BY <2>3 DEF CountUses, TypeOK
    <3>2. HandlesInOrder(p)'
      BY <3>1, HandledStays
    <3> QED
      BY <1>6, <1>7, <3>1, <3>2
  <2>4. CASE process' = [process EXCEPT ![p] = NoWork(process[p].device)]
    <3>1. process[p].device \in Devices /\ \A q \in Processes \ {p} : process'[q] = process[q]
      BY <2>4 DEF TypeOK
    <3>2. HandlesInOrder(p)'
      BY <2>4, <3>1, NothingToHandle
    <3> QED
      BY <1>6, <1>7, <3>1, <3>2
  <2> QED
    BY <1>7, <2>1, <2>2, <2>3, <2>4
<1> QED
  BY <1>4, <1>5, <1>7, WhoHandles

(* What lands is the least of what a process still has to insert, so what  *)
(* was before it is recorded, parked or refused.                           *)
LEMMA LandingIsInOrder ==
  ASSUME TypeOK, OrderInv, [Next]_vars,
         NEW d \in Devices, NEW n \in 1..MaxEvents, <<d, n>> \in gateEvents' \ gateEvents,
         NEW m \in 1..(n - 1)
  PROVE  \/ <<d, m>> \in gateEvents
         \/ outbox[d][m].state = "parked"
         \/ \E p \in Processes : /\ process[p].device = d
                                 /\ [event |-> m, outcome |-> "rejected"]
                                      \in process[p].results
<1>1. PICK p \in Processes : Insert(p)
  BY DEF Next, vars, server, Begin, Drained, Handset, Server, Take, CountUses, Answer, Crash, Revoke,
         Admit, Send, Receive, TimeOut, SessionRejected, Restart
<1>2. n \in NextOf(process[p].todo) /\ process[p].device = d
  BY <1>1 DEF Insert, Inserted, RolledBack
<1>3. m \notin process[p].todo
  BY <1>2, GateAssumption DEF NextOf
<1>4. n \in process[p].todo
  BY <1>2 DEF NextOf
<1>5. InOrder(process[p].device, process[p].todo, process[p].results)
  BY DEF OrderInv, HandlesInOrder
<1> QED
  BY <1>2, <1>3, <1>4, <1>5 DEF InOrder, Passed

LEMMA OrderInvariance == Spec => [](IInv /\ OrderInv)
<1>1. Init => IInv /\ OrderInv
  <2> SUFFICES ASSUME Init PROVE OrderInv
    BY InitIsGood
  <2> QED
    BY DEF Init, OrderInv, SendingInv, HandlesInOrder, InOrder, Idle, NoWork
<1>2. IInv /\ OrderInv /\ [Next]_vars => (IInv /\ OrderInv)'
  BY IInvStep, OrderStep DEF IInv
<1> QED
  BY <1>1, <1>2, PTL DEF Spec

(* "Ordered drain" (outbox.dart:19-21): an event of a handset lands only   *)
(* after every earlier one of it, except those that were rejected or parked*)
(* and will never land by themselves.                                      *)
THEOREM DrainIsOrdered == Spec => EventsLandInOrder
<1> DEFINE Step ==
       \A d \in Devices, n \in 1..MaxEvents :
         <<d, n>> \in gateEvents' \ gateEvents =>
           \A m \in 1..(n - 1) :
             \/ <<d, m>> \in gateEvents
             \/ outbox[d][m].state = "parked"
             \/ \E p \in Processes : /\ process[p].device = d
                                     /\ [event |-> m, outcome |-> "rejected"]
                                          \in process[p].results
<1>1. IInv /\ OrderInv /\ [Next]_vars => [Step]_vars
  BY LandingIsInOrder DEF IInv
<1> QED
  BY <1>1, OrderInvariance, PTL DEF Spec, EventsLandInOrder
==============================================================================
