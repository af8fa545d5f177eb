---------------------------- MODULE HelpdeskProofs ----------------------------
(***************************************************************************)
(* What is resolved has its proof, and one fault has one complaint, for    *)
(* any number of requests, sweeps, residents and complaints.               *)
(***************************************************************************)
EXTENDS Helpdesk, SequenceTheorems, TLAPS

USE HelpdeskAssumption

(* What a request holds, by the step it is at.                             *)
LEMMA JobShapes ==
  ASSUME TypeOK, NEW h \in Handlers
  PROVE  /\ job[h].step = "join" => job[h].ticket \in Numbers /\ job[h].by \in Persons
         /\ job[h].step \in {"count", "insert"} =>
              job[h].report \in Reports /\ job[h].by \in Persons /\ job[h].at \in Nat
         /\ job[h].step = "attach" =>
              job[h].ticket \in Numbers /\ job[h].kind \in {"proof", "other"}
         /\ job[h].step \in {"prove", "write"} =>
              /\ job[h].ticket \in Numbers /\ job[h].status \in Settable
              /\ job[h].at \in Nat
              /\ job[h] \in [step : {"prove", "write"}, ticket : Numbers,
                             status : Settable, at : Nat]
         /\ job[h].step = "reopen" =>
              job[h].ticket \in Numbers /\ job[h].count \in Nat /\ job[h].at \in Nat
         /\ job[h].step = "rate" => job[h].ticket \in Numbers
  <1>1. job[h] \in Job
    BY DEF TypeOK
  <1> QED
    BY <1>1 DEF Job, NoJob

LEMMA TypeInit == Init => TypeOK
  <1> SUFFICES ASSUME Init PROVE TypeOK
    OBVIOUS
  <1>1. Numbers = {} /\ tickets \in Seq(Row)
    BY DEF Init, Numbers
  <1>2. /\ attached \in [Numbers -> [proof : Nat, other : Nat]]
        /\ subscribers \in [Numbers -> SUBSET Persons]
    BY <1>1 DEF Init
  <1>3. job \in [Handlers -> Job]
    BY DEF Init, Job
  <1>4. sweep \in [Sweepers -> [late : SUBSET Numbers, at : Nat]]
    BY DEF Init, NoSweep
  <1> QED
    BY <1>1, <1>2, <1>3, <1>4 DEF Init, TypeOK

(* A request that begins, goes on or is lost: nothing but what it holds    *)
(* changes.                                                                *)
LEMMA JobStep ==
  ASSUME TypeOK, NEW h \in Handlers, NEW next \in Job,
         GoOn(h, next) \/ (Begin(h, next) /\ raced' \in BOOLEAN)
  PROVE  TypeOK'
  <1> USE DEF GoOn, Begin, history
  <1>1. Numbers' = Numbers /\ Job' = Job
    BY DEF desk, Numbers, Job
  <1>2. job' \in [Handlers -> Job]
    BY DEF TypeOK
  <1> QED
    BY <1>1, <1>2 DEF TypeOK, desk

(* A request that ends without a new complaint.                            *)
LEMMA DeskStep ==
  ASSUME TypeOK, NEW h \in Handlers, Done(h), Numbers' = Numbers,
         tickets' \in Seq(Row), attached' \in [Numbers -> [proof : Nat, other : Nat]],
         subscribers' \in [Numbers -> SUBSET Persons],
         overtaken' \subseteq Numbers, settled' \subseteq Numbers, UNCHANGED raced
  PROVE  TypeOK'
  <1>1. Job' = Job
    BY DEF Job
  <1>2. job' \in [Handlers -> Job]
    BY DEF TypeOK, Done, Job
  <1> QED
    BY <1>1, <1>2 DEF TypeOK, Done

(* An update of one row keeps the rows rows.                               *)
LEMMA RowStep ==
  ASSUME TypeOK, NEW n \in Numbers, NEW row \in Row, tickets' = [tickets EXCEPT ![n] = row]
  PROVE  tickets' \in Seq(Row) /\ Numbers' = Numbers
  BY DEF TypeOK, Numbers

LEMMA AskTyped ==
  ASSUME TypeOK, NEW h \in Handlers, Ask(h)
  PROVE  TypeOK'
  <1>0. now \in Nat /\ raced \in BOOLEAN
    BY DEF TypeOK
  <1>1. ASSUME NEW report \in Reports, NEW person \in Persons,
               FindDuplicate(h, report, person)
        PROVE  TypeOK'
    <2>1. CASE \E n \in Numbers :
                 Candidate(n, report) /\ Begin(h, [step |-> "join", ticket |-> n, by |-> person])
      <3> PICK n \in Numbers : Begin(h, [step |-> "join", ticket |-> n, by |-> person])
        BY <2>1
      <3>1. [step |-> "join", ticket |-> n, by |-> person] \in Job
        BY DEF Job
      <3>2. raced' \in BOOLEAN
        BY <1>1, <1>0 DEF FindDuplicate
      <3> QED
        BY <3>1, <3>2, JobStep
    <2>2. CASE Begin(h, [step |-> "count", report |-> report, by |-> person, at |-> now])
      <3>1. [step |-> "count", report |-> report, by |-> person, at |-> now] \in Job
        BY <1>0 DEF Job
      <3>2. raced' \in BOOLEAN
        BY <1>1, <1>0 DEF FindDuplicate
      <3> QED
        BY <2>2, <3>1, <3>2, JobStep
    <2> QED
      BY <1>1, <2>1, <2>2 DEF FindDuplicate
  <1>2. ASSUME NEW n \in Numbers, NEW kind \in {"proof", "other"}, CountPhotos(h, n, kind)
        PROVE  TypeOK'
    <2>1. [step |-> "attach", ticket |-> n, kind |-> kind] \in Job
      BY DEF Job
    <2> QED
      BY <1>2, <2>1, <1>0, JobStep DEF CountPhotos
  <1>3. ASSUME NEW n \in Numbers, NEW status \in Settable, ReadForStatus(h, n, status)
        PROVE  TypeOK'
    <2>1. [step |-> IF status = "resolved" THEN "prove" ELSE "write",
           ticket |-> n, status |-> status, at |-> now] \in Job
      BY <1>0 DEF Job
    <2> QED
      BY <1>3, <2>1, <1>0, JobStep DEF ReadForStatus
  <1>4. ASSUME NEW n \in Numbers, ReadForReopen(h, n)
        PROVE  TypeOK'
    <2>1. tickets[n] \in Row
      BY DEF TypeOK, Numbers
    <2>2. [step |-> "reopen", ticket |-> n, count |-> tickets[n].reopenCount, at |-> now] \in Job
      BY <1>0, <2>1 DEF Job, Row
    <2> QED
      BY <1>4, <2>2, <1>0, JobStep DEF ReadForReopen
  <1>5. ASSUME NEW n \in Numbers, NEW person \in Persons, ReadForRating(h, n, person)
        PROVE  TypeOK'
    <2>1. [step |-> "rate", ticket |-> n] \in Job
      BY DEF Job
    <2> QED
      BY <1>5, <2>1, <1>0, JobStep DEF ReadForRating
  <1> QED
    BY <1>1, <1>2, <1>3, <1>4, <1>5 DEF Ask

(* Tables are kept as functions over the numbers; a new row is appended.   *)
LEMMA AppendTyped ==
  ASSUME NEW S, NEW k \in Nat, NEW f \in [1 .. k -> S], NEW e \in S
  PROVE  /\ Append(f, e) \in [1 .. k + 1 -> S]
         /\ \A i \in 1 .. k : Append(f, e)[i] = f[i]
         /\ Append(f, e)[k + 1] = e
  <1>1. f \in Seq(S) /\ Len(f) = k
    BY SeqDef
  <1>2. /\ Append(f, e) \in Seq(S) /\ Len(Append(f, e)) = k + 1
        /\ \A i \in 1 .. k : Append(f, e)[i] = f[i]
        /\ Append(f, e)[k + 1] = e
    BY <1>1, AppendProperties
  <1>3. Append(f, e) \in [1 .. k + 1 -> S]
    BY <1>2, LenProperties
  <1> QED
    BY <1>2, <1>3

LEMMA ReopenedTyped ==
  ASSUME NEW t \in Row, NEW count \in Nat, NEW at \in Nat
  PROVE  Reopened(t, count, at) \in Row
  <1>1. at + EscalationTime \in Nat /\ count + 1 \in Nat /\ Never \in Date
    BY DEF Date
  <1>2. [t EXCEPT !.status = "reopened", !.resolvedAt = Never] \in Row
    BY <1>1 DEF Row, OpenStates
  <1> QED
    BY <1>1, <1>2 DEF Reopened, Row, OpenStates

LEMMA HandleTyped ==
  ASSUME TypeOK, NEW h \in Handlers, Handle(h)
  PROVE  TypeOK'
  <1> DEFINE n == job[h].ticket
  <1>0. tickets \in Seq(Row) /\ attached \in [Numbers -> [proof : Nat, other : Nat]]
        /\ subscribers \in [Numbers -> SUBSET Persons]
        /\ overtaken \subseteq Numbers /\ settled \subseteq Numbers
    BY DEF TypeOK
  <1>1. CASE Join(h)
    <2>1. n \in Numbers /\ job[h].by \in Persons
      BY <1>1, JobShapes DEF Join
    <2>2. subscribers' \in [Numbers -> SUBSET Persons]
      BY <1>0, <1>1, <2>1 DEF Join
    <2>3. Numbers' = Numbers
      BY <1>1 DEF Join, Numbers
    <2> QED
      BY <1>0, <1>1, <2>2, <2>3, DeskStep DEF Join, history
  <1>2. CASE CountTickets(h)
    <2>1. /\ job[h].report \in Reports /\ job[h].by \in Persons /\ job[h].at \in Nat
          /\ NextTicketNumber \in Nat \ {0}
      BY <1>0, <1>2, JobShapes DEF CountTickets, NextTicketNumber
    <2>2. [step |-> "insert", report |-> job[h].report, by |-> job[h].by,
           at |-> job[h].at, number |-> NextTicketNumber] \in Job
      BY <2>1 DEF Job
    <2> QED
      BY <1>2, <2>2, JobStep DEF CountTickets
  <1>3. CASE InsertTicket(h)
    <2>1. CASE UNCHANGED desk
      BY <1>0, <1>3, <2>1, DeskStep DEF InsertTicket, desk, history, Numbers
    <2>2. CASE ~UNCHANGED desk
      <3> DEFINE row == Ticket(job[h].report, job[h].by, job[h].at)
      <3>1. /\ tickets' = Append(tickets, row)
            /\ attached' = Append(attached, [proof |-> 0, other |-> 0])
            /\ subscribers' = Append(subscribers, {job[h].by})
            /\ Done(h) /\ UNCHANGED history
        BY <1>3, <2>2 DEF InsertTicket
      <3>2. job[h].report \in Reports /\ job[h].by \in Persons /\ job[h].at \in Nat
        BY <1>3, JobShapes DEF InsertTicket
      <3>3. row \in Row
        BY <3>2 DEF Ticket, Row, Date, OpenStates
      <3>4. /\ tickets' \in Seq(Row) /\ Numbers = 1 .. Len(tickets)
            /\ Numbers' = 1 .. Len(tickets) + 1 /\ Len(tickets) \in Nat
        BY <1>0, <3>1, <3>3 DEF Numbers
      <3>5. [proof |-> 0, other |-> 0] \in [proof : Nat, other : Nat]
            /\ {job[h].by} \in SUBSET Persons
        BY <3>2
      <3>6. attached' \in [Numbers' -> [proof : Nat, other : Nat]]
        BY <1>0, <3>1, <3>4, <3>5, AppendTyped
      <3>7. subscribers' \in [Numbers' -> SUBSET Persons]
        BY <1>0, <3>1, <3>4, <3>5, AppendTyped
      <3>8. job' \in [Handlers -> Job']
        <4>1. Job \subseteq Job'
          BY <3>4 DEF Job
        <4> QED
          BY <3>1, <4>1 DEF TypeOK, Done, Job
      <3>9. Numbers \subseteq Numbers'
        BY <3>4
      <3> QED
        BY <3>1, <3>4, <3>6, <3>7, <3>8, <3>9 DEF TypeOK, Done, history
    <2> QED
      BY <2>1, <2>2
  <1>4. CASE Attach(h)
    <2> DEFINE kind == job[h].kind
    <2>1. n \in Numbers /\ kind \in {"proof", "other"}
      BY <1>4, JobShapes DEF Attach
    <2>2. attached[n] \in [proof : Nat, other : Nat]
      BY <1>0, <2>1
    <2>3. [attached[n] EXCEPT ![kind] = @ + 1] \in [proof : Nat, other : Nat]
      BY <2>1, <2>2
    <2>4. attached' = [attached EXCEPT ![n] = [attached[n] EXCEPT ![kind] = @ + 1]]
      BY <1>0, <1>4, <2>1 DEF Attach
    <2>5. attached' \in [Numbers -> [proof : Nat, other : Nat]]
      BY <1>0, <2>3, <2>4
    <2> QED
      BY <1>0, <1>4, <2>5, DeskStep DEF Attach, history, Numbers
  <1>5. CASE CheckProof(h)
    <2>1. job[h] \in [step : {"prove", "write"}, ticket : Numbers, status : Settable, at : Nat]
      BY <1>5, JobShapes DEF CheckProof
    <2>2. [job[h] EXCEPT !.step = "write"] \in Job /\ NoJob \in Job
      BY <2>1 DEF Job
    <2> QED
      BY <1>5, <2>2, JobStep DEF CheckProof
  <1>6. CASE WriteStatus(h)
    <2> DEFINE date == IF job[h].status = "resolved" THEN job[h].at ELSE tickets[n].resolvedAt
               row == [tickets[n] EXCEPT !.status = job[h].status, !.resolvedAt = date]
    <2>1. n \in Numbers /\ job[h].status \in Settable /\ job[h].at \in Nat
      BY <1>6, JobShapes DEF WriteStatus
    <2>2. tickets[n] \in Row
      BY <1>0, <2>1 DEF Numbers
    <2>3. row \in Row
      BY <2>1, <2>2 DEF Row, Date
    <2>4. tickets' = [tickets EXCEPT ![n] = row]
      BY <1>0, <1>6, <2>1, <2>2 DEF WriteStatus, Row
    <2>5. tickets' \in Seq(Row) /\ Numbers' = Numbers
      BY <2>1, <2>3, <2>4, RowStep
    <2>6. settled' \subseteq Numbers
      BY <1>0, <1>6, <2>1 DEF WriteStatus
    <2> QED
      BY <1>0, <1>6, <2>5, <2>6, DeskStep DEF WriteStatus
  <1>7. CASE WriteReopen(h)
    <2>1. n \in Numbers /\ job[h].count \in Nat /\ job[h].at \in Nat
      BY <1>7, JobShapes DEF WriteReopen
    <2>2. tickets[n] \in Row
      BY <1>0, <2>1 DEF Numbers
    <2>3. Reopened(tickets[n], job[h].count, job[h].at) \in Row
      BY <2>1, <2>2, ReopenedTyped
    <2>4. tickets' = [tickets EXCEPT ![n] = Reopened(tickets[n], job[h].count, job[h].at)]
      BY <1>7 DEF WriteReopen
    <2>5. tickets' \in Seq(Row) /\ Numbers' = Numbers
      BY <2>1, <2>3, <2>4, RowStep
    <2>6. overtaken' \subseteq Numbers
      BY <1>0, <1>7, <2>1 DEF WriteReopen
    <2> QED
      BY <1>0, <1>7, <2>5, <2>6, DeskStep DEF WriteReopen
  <1>8. CASE Rate(h)
    <2>1. n \in Numbers
      BY <1>8, JobShapes DEF Rate
    <2>2. tickets[n] \in Row
      BY <1>0, <2>1 DEF Numbers
    <2>3. [tickets[n] EXCEPT !.rated = TRUE] \in Row
      BY <2>2 DEF Row
    <2>4. tickets' = [tickets EXCEPT ![n] = [tickets[n] EXCEPT !.rated = TRUE]]
      BY <1>0, <1>8, <2>1 DEF Rate
    <2>5. tickets' \in Seq(Row) /\ Numbers' = Numbers
      BY <2>1, <2>3, <2>4, RowStep
    <2> QED
      BY <1>0, <1>8, <2>5, DeskStep DEF Rate, history
  <1> QED
    BY <1>1, <1>2, <1>3, <1>4, <1>5, <1>6, <1>7, <1>8 DEF Handle

LEMMA SweepTyped ==
  ASSUME TypeOK, NEW s \in Sweepers, DueForEscalation(s) \/ Escalate(s) \/ LoseSweep(s)
  PROVE  TypeOK'
  <1>0. tickets \in Seq(Row) /\ now \in Nat /\ crashes \in Nat
        /\ sweep \in [Sweepers -> [late : SUBSET Numbers, at : Nat]]
    BY DEF TypeOK
  <1>1. CASE DueForEscalation(s)
    <2>1. sweep' \in [Sweepers -> [late : SUBSET Numbers, at : Nat]]
      BY <1>0, <1>1 DEF DueForEscalation
    <2> QED
      BY <1>1, <2>1 DEF DueForEscalation, TypeOK, desk, history, Numbers, Job
  <1>2. CASE Escalate(s)
    <2> DEFINE Marked(n) == IF n \in sweep[s].late
                            THEN [tickets[n] EXCEPT !.escalatedAt = sweep[s].at]
                            ELSE tickets[n]
    <2>1. Numbers = 1 .. Len(tickets) /\ Len(tickets) \in Nat
      BY <1>0 DEF Numbers
    <2>2. \A n \in Numbers : Marked(n) \in Row
      <3>1. \A n \in Numbers : tickets[n] \in Row
        BY <1>0, <2>1
      <3> QED
        BY <1>0, <3>1 DEF Row, Date
    <2>3. tickets' = [n \in Numbers |-> Marked(n)]
      BY <1>2 DEF Escalate
    <2>4. tickets' \in Seq(Row) /\ Numbers' = Numbers
      <3> HIDE DEF Marked
      <3>1. tickets' \in [1 .. Len(tickets) -> Row]
        BY <2>1, <2>2, <2>3
      <3>2. tickets' \in Seq(Row)
        BY <2>1, <3>1, SeqDef
      <3> QED
        BY <2>1, <3>1, <3>2 DEF Numbers
    <2>5. sweep' \in [Sweepers -> [late : SUBSET Numbers, at : Nat]]
      BY <1>0, <1>2 DEF Escalate, NoSweep
    <2>6. Job' = Job
      BY <2>4 DEF Job
    <2> QED
      BY <1>2, <2>4, <2>5, <2>6 DEF Escalate, TypeOK, history
  <1>3. CASE LoseSweep(s)
    <2>1. sweep' \in [Sweepers -> [late : SUBSET Numbers, at : Nat]] /\ crashes' \in Nat
      BY <1>0, <1>3 DEF LoseSweep, NoSweep
    <2> QED
      BY <1>3, <2>1 DEF LoseSweep, TypeOK, desk, history, Numbers, Job
  <1> QED
    BY <1>1, <1>2, <1>3

LEMMA TypeStep ==
  ASSUME TypeOK, [Next]_vars
  PROVE  TypeOK'
  <1>1. ASSUME NEW h \in Handlers, LoseRequest(h)
        PROVE  TypeOK'
    <2>1. NoJob \in Job
      BY DEF Job
    <2> QED
      BY <1>1, <2>1, JobStep DEF LoseRequest
  <1>2. CASE Tick
    BY <1>2 DEF Tick, TypeOK, desk, history, Numbers, Job
  <1>3. CASE UNCHANGED vars
    BY <1>3 DEF vars, TypeOK, desk, history, Numbers, Job
  <1> QED
    BY <1>1, <1>2, <1>3, AskTyped, HandleTyped, SweepTyped DEF Next

(* The tables, the requests and the sweeps are what they should be in      *)
(* every state that can be reached.                                        *)
THEOREM TypeCorrect == Spec => []TypeOK
  BY TypeInit, TypeStep, PTL DEF Spec
------------------------------------------------------------------------------
(* A request that is about to write "resolved" has seen a photo of the     *)
(* repair, and no photo is ever taken away: the reason why a proof that    *)
(* was read before need not be read again.                                 *)
ProofWasSeen ==
  \A h \in Handlers :
    job[h].step = "write" /\ job[h].status = "resolved"
      => attached[job[h].ticket].proof > 0

RowIsProven(row, photos) ==
  /\ row.resolvedAt # Never => photos.proof > 0
  /\ row.status = "resolved" => row.resolvedAt # Never
  /\ row.status = "reopened" => row.resolvedAt = Never /\ row.reopenCount > 0

IInv == TypeOK /\ ProofWasSeen /\ ResolutionIsProven

LEMMA PhotosStay ==
  ASSUME TypeOK, [Next]_vars, NEW n \in Numbers
  PROVE  /\ n \in Numbers'
         /\ attached'[n] \in [proof : Nat, other : Nat]
         /\ attached[n].proof > 0 => attached'[n].proof > 0
  <1>0. /\ attached \in [Numbers -> [proof : Nat, other : Nat]]
        /\ attached[n] \in [proof : Nat, other : Nat]
        /\ tickets \in Seq(Row)
    BY DEF TypeOK
  <1>1. CASE \E h \in Handlers : Attach(h)
    <2> PICK h \in Handlers : Attach(h)
      BY <1>1
    <2> DEFINE m == job[h].ticket  kind == job[h].kind
    <2>1. m \in Numbers /\ kind \in {"proof", "other"}
      BY JobShapes DEF Attach
    <2>2. attached' = [attached EXCEPT ![m] = [attached[m] EXCEPT ![kind] = @ + 1]]
          /\ tickets' = tickets
      BY <1>0, <2>1 DEF Attach
    <2>3. CASE n # m
      BY <1>0, <2>1, <2>2, <2>3 DEF Numbers
    <2>4. CASE n = m /\ kind = "proof"
      BY <1>0, <2>1, <2>2, <2>4 DEF Numbers
    <2>5. CASE n = m /\ kind = "other"
      BY <1>0, <2>1, <2>2, <2>5 DEF Numbers
    <2> QED
      BY <2>1, <2>3, <2>4, <2>5
  <1>2. CASE \E h \in Handlers : InsertTicket(h)
    <2> PICK h \in Handlers : InsertTicket(h)
      BY <1>2
    <2>1. CASE UNCHANGED desk
      BY <1>0, <2>1 DEF desk, Numbers
    <2>2. CASE ~UNCHANGED desk
      <3>1. attached' = Append(attached, [proof |-> 0, other |-> 0])
            /\ tickets' = Append(tickets, Ticket(job[h].report, job[h].by, job[h].at))
        BY <2>2 DEF InsertTicket
      <3>2. [proof |-> 0, other |-> 0] \in [proof : Nat, other : Nat]
        OBVIOUS
      <3>3. Numbers = 1 .. Len(tickets) /\ Len(tickets) \in Nat
        BY <1>0 DEF Numbers
      <3>4. attached'[n] = attached[n]
        BY <1>0, <3>1, <3>2, <3>3, AppendTyped
      <3>5. Numbers' = 1 .. Len(tickets) + 1
        BY <1>0, <3>1 DEF Numbers
      <3> QED
        BY <1>0, <3>3, <3>4, <3>5
    <2> QED
      BY <2>1, <2>2
  <1>3. ASSUME attached' = attached, Numbers' = Numbers
        PROVE  /\ n \in Numbers'
               /\ attached'[n] \in [proof : Nat, other : Nat]
               /\ attached[n].proof > 0 => attached'[n].proof > 0
    BY <1>0, <1>3
  <1>4. \/ attached' = attached /\ Numbers' = Numbers
        \/ \E h \in Handlers : Attach(h) \/ InsertTicket(h)
    <2>1. ASSUME NEW h \in Handlers, Ask(h) \/ LoseRequest(h) \/ Join(h)
                   \/ CountTickets(h) \/ CheckProof(h)
          PROVE  attached' = attached /\ Numbers' = Numbers
      BY <2>1 DEF Ask, FindDuplicate, CountPhotos, ReadForStatus, ReadForReopen, ReadForRating,
         LoseRequest, Join, CountTickets, CheckProof, Begin, GoOn, desk, Numbers
    <2>2. ASSUME NEW h \in Handlers, WriteStatus(h) \/ WriteReopen(h) \/ Rate(h)
          PROVE  attached' = attached /\ Numbers' = Numbers
      BY <1>0, <2>2 DEF WriteStatus, WriteReopen, Rate, Numbers
    <2>3. ASSUME NEW s \in Sweepers, DueForEscalation(s) \/ Escalate(s) \/ LoseSweep(s)
          PROVE  attached' = attached /\ Numbers' = Numbers
      BY <2>3 DEF DueForEscalation, Escalate, LoseSweep, desk, Numbers
    <2>4. ASSUME Tick \/ UNCHANGED vars
          PROVE  attached' = attached /\ Numbers' = Numbers
      BY <2>4 DEF Tick, vars, desk, Numbers
    <2> QED
      BY <2>1, <2>2, <2>3, <2>4 DEF Next, Handle
  <1> QED
    BY <1>1, <1>2, <1>3, <1>4

LEMMA SeenStep ==
  ASSUME IInv, [Next]_vars
  PROVE  ProofWasSeen'
  <1> DEFINE Seen(g) == job[g].step = "write" /\ job[g].status = "resolved"
                          => attached[job[g].ticket].proof > 0
  <1>0. TypeOK /\ \A g \in Handlers : Seen(g)
    BY DEF IInv, ProofWasSeen
  <1> SUFFICES ASSUME NEW g \in Handlers PROVE Seen(g)'
    BY DEF ProofWasSeen
  <1>1. CASE job'[g] = job[g]
    <2> SUFFICES ASSUME job[g].step = "write", job[g].status = "resolved"
                 PROVE  attached'[job[g].ticket].proof > 0
      BY <1>1
    <2>1. job[g].ticket \in Numbers
      BY <1>0, JobShapes
    <2> QED
      BY <1>0, <2>1, PhotosStay
  <1>2. ASSUME NEW h \in Handlers, NEW next, job' = [job EXCEPT ![h] = next],
               next.step # "write" \/ next.status # "resolved"
        PROVE  Seen(g)'
    BY <1>0, <1>1, <1>2 DEF TypeOK
  <1>3. ASSUME NEW h \in Handlers, Ask(h)
        PROVE  Seen(g)'
    <2>1. ASSUME NEW next, Begin(h, next), next.step # "write" \/ next.status # "resolved"
          PROVE  Seen(g)'
      BY <1>2, <2>1 DEF Begin
    <2>2. ASSUME NEW n \in Numbers, NEW status \in Settable, ReadForStatus(h, n, status)
          PROVE  Seen(g)'
      <3> DEFINE next == [step |-> IF status = "resolved" THEN "prove" ELSE "write",
                          ticket |-> n, status |-> status, at |-> now]
      <3>1. next.step # "write" \/ next.status # "resolved"
        OBVIOUS
      <3>2. Begin(h, next)
        BY <2>2 DEF ReadForStatus
      <3> HIDE DEF next
      <3> QED
        BY <2>1, <3>1, <3>2
    <2> QED
      BY <1>3, <2>1, <2>2 DEF Ask, FindDuplicate, CountPhotos, ReadForReopen, ReadForRating
  <1>4. ASSUME NEW h \in Handlers, Done(h) \/ LoseRequest(h)
        PROVE  Seen(g)'
    BY <1>2, <1>4 DEF Done, LoseRequest, GoOn, NoJob
  <1>5. ASSUME NEW h \in Handlers, CountTickets(h)
        PROVE  Seen(g)'
    BY <1>2, <1>5 DEF CountTickets, GoOn
  <1>6. ASSUME NEW h \in Handlers, CheckProof(h)
        PROVE  Seen(g)'
    <2>1. CASE IsProven(job[h].ticket)
      <3>1. /\ job' = [job EXCEPT ![h] = [job[h] EXCEPT !.step = "write"]]
            /\ attached' = attached
        BY <1>6, <2>1 DEF CheckProof, GoOn, desk
      <3>2. CASE g = h
        <4>1. job'[g].ticket = job[h].ticket
          BY <1>0, <1>6, <3>1, <3>2, JobShapes DEF TypeOK, CheckProof
        <4> QED
          BY <2>1, <3>1, <4>1 DEF IsProven
      <3>3. CASE g # h
        BY <1>0, <1>1, <3>1, <3>3 DEF TypeOK
      <3> QED
        BY <3>2, <3>3
    <2>2. CASE ~IsProven(job[h].ticket)
      BY <1>2, <1>6, <2>2 DEF CheckProof, GoOn, NoJob
    <2> QED
      BY <2>1, <2>2
  <1>7. ASSUME NEW s \in Sweepers, DueForEscalation(s) \/ Escalate(s) \/ LoseSweep(s)
        PROVE  Seen(g)'
    BY <1>1, <1>7 DEF DueForEscalation, Escalate, LoseSweep
  <1>8. CASE Tick \/ UNCHANGED vars
    BY <1>1, <1>8 DEF Tick, vars
  <1> QED
    BY <1>3, <1>4, <1>5, <1>6, <1>7, <1>8
       DEF Next, Handle, Join, InsertTicket, Attach, WriteStatus, WriteReopen, Rate

(* One row at a time: what is written to a row, and when.                  *)
LEMMA WrittenIsProven ==
  ASSUME IInv, NEW h \in Handlers, WriteStatus(h) \/ WriteReopen(h) \/ Rate(h), NEW n \in Numbers
  PROVE  RowIsProven(tickets'[n], attached[n])
  <1> DEFINE m == job[h].ticket
  <1>0. /\ TypeOK /\ tickets \in Seq(Row) /\ RowIsProven(tickets[n], attached[n])
        /\ tickets[n] \in Row /\ attached[n] \in [proof : Nat, other : Nat]
    BY DEF IInv, TypeOK, ResolutionIsProven, RowIsProven, Numbers
  <1>1. CASE n # m
    BY <1>0, <1>1 DEF WriteStatus, WriteReopen, Rate, Numbers
  <1>2. CASE n = m /\ WriteStatus(h)
    <2> DEFINE status == job[h].status
               date == IF status = "resolved" THEN job[h].at ELSE tickets[n].resolvedAt
    <2>1. /\ status \in Settable /\ job[h].at \in Nat /\ Never \notin Nat
          /\ status = "resolved" => attached[n].proof > 0
      BY <1>0, <1>2, JobShapes DEF IInv, ProofWasSeen, WriteStatus
    <2>2. tickets'[n].status = status /\ tickets'[n].resolvedAt = date
      BY <1>0, <1>2 DEF WriteStatus, Row, Numbers
    <2> HIDE DEF status
    <2> QED
      BY <1>0, <2>1, <2>2 DEF RowIsProven, Settable
  <1>3. CASE n = m /\ WriteReopen(h)
    <2>1. job[h].count \in Nat
      BY <1>0, <1>3, JobShapes DEF WriteReopen
    <2>2. /\ tickets'[n].status = "reopened" /\ tickets'[n].resolvedAt = Never
          /\ tickets'[n].reopenCount = job[h].count + 1
      BY <1>0, <1>3 DEF WriteReopen, Reopened, Row, Numbers
    <2> QED
      BY <2>1, <2>2 DEF RowIsProven
  <1>4. CASE n = m /\ Rate(h)
    BY <1>0, <1>4 DEF Rate, RowIsProven, Row, Numbers
  <1> QED
    BY <1>1, <1>2, <1>3, <1>4

(* Who writes the rows of tickets.                                         *)
LEMMA WhoWritesTickets ==
  ASSUME [Next]_vars
  PROVE  \/ tickets' = tickets
         \/ \E h \in Handlers : WriteStatus(h) \/ WriteReopen(h) \/ Rate(h)
         \/ \E h \in Handlers : InsertTicket(h) /\ ~UNCHANGED desk
         \/ \E s \in Sweepers : Escalate(s)
  <1>1. ASSUME NEW h \in Handlers, Ask(h) \/ LoseRequest(h) \/ Join(h)
                 \/ CountTickets(h) \/ CheckProof(h) \/ Attach(h)
        PROVE  tickets' = tickets
    BY <1>1 DEF Ask, FindDuplicate, CountPhotos, ReadForStatus, ReadForReopen, ReadForRating,
       LoseRequest, Join, CountTickets, CheckProof, Attach, Begin, GoOn, desk
  <1>2. ASSUME NEW s \in Sweepers, DueForEscalation(s) \/ LoseSweep(s)
        PROVE  tickets' = tickets
    BY <1>2 DEF DueForEscalation, LoseSweep, desk
  <1>3. ASSUME Tick \/ UNCHANGED vars \/ UNCHANGED desk
        PROVE  tickets' = tickets
    BY <1>3 DEF Tick, vars, desk
  <1> QED
    BY <1>1, <1>2, <1>3 DEF Next, Handle

LEMMA ResolutionStep ==
  ASSUME IInv, [Next]_vars
  PROVE  ResolutionIsProven'
  <1>0. /\ TypeOK /\ tickets \in Seq(Row) /\ Numbers = 1 .. Len(tickets)
        /\ Len(tickets) \in Nat
        /\ \A n \in Numbers : RowIsProven(tickets[n], attached[n])
        /\ attached \in [Numbers -> [proof : Nat, other : Nat]]
    BY DEF IInv, TypeOK, ResolutionIsProven, RowIsProven, Numbers
  <1> SUFFICES ASSUME NEW n \in Numbers' PROVE RowIsProven(tickets'[n], attached'[n])
    BY DEF ResolutionIsProven, RowIsProven
  <1>1. ASSUME n \in Numbers, RowIsProven(tickets'[n], attached[n])
        PROVE  RowIsProven(tickets'[n], attached'[n])
    BY <1>0, <1>1, PhotosStay DEF RowIsProven
  <1>2. CASE tickets' = tickets
    BY <1>0, <1>1, <1>2 DEF Numbers
  <1>3. ASSUME NEW h \in Handlers, WriteStatus(h) \/ WriteReopen(h) \/ Rate(h)
        PROVE  RowIsProven(tickets'[n], attached'[n])
    <2>1. n \in Numbers
      BY <1>0, <1>3 DEF WriteStatus, WriteReopen, Rate, Numbers
    <2> QED
      BY <1>1, <1>3, <2>1, WrittenIsProven
  <1>4. ASSUME NEW h \in Handlers, InsertTicket(h), ~UNCHANGED desk
        PROVE  RowIsProven(tickets'[n], attached'[n])
    <2> DEFINE row == Ticket(job[h].report, job[h].by, job[h].at)
    <2>1. tickets' = Append(tickets, row)
      BY <1>4 DEF InsertTicket
    <2>2. CASE n \in Numbers
      BY <1>0, <1>1, <2>1, <2>2
    <2>3. CASE n \notin Numbers
      <3>1. n = Len(tickets) + 1
        BY <1>0, <2>1, <2>3 DEF Numbers
      <3>2. tickets'[n] = row
        BY <1>0, <2>1, <3>1
      <3> QED
        BY <3>2 DEF RowIsProven, Ticket
    <2> QED
      BY <2>2, <2>3
  <1>5. ASSUME NEW s \in Sweepers, Escalate(s)
        PROVE  RowIsProven(tickets'[n], attached'[n])
    <2>1. n \in Numbers /\ tickets[n] \in Row
      BY <1>0, <1>5 DEF Escalate, Numbers
    <2>2. /\ tickets'[n].status = tickets[n].status
          /\ tickets'[n].resolvedAt = tickets[n].resolvedAt
          /\ tickets'[n].reopenCount = tickets[n].reopenCount
      BY <1>5, <2>1 DEF Escalate, Row
    <2> QED
      BY <1>0, <1>1, <2>1, <2>2 DEF RowIsProven
  <1> QED
    BY <1>2, <1>3, <1>4, <1>5, WhoWritesTickets

(* "Resolving requires a proof-of-fix attachment", of any number of        *)
(* requests and sweeps that overlap in any way.                            *)
THEOREM ResolvedIsProven == Spec => []ResolutionIsProven
  <1>1. Init => IInv
    <2> SUFFICES ASSUME Init PROVE IInv
      OBVIOUS
    <2>1. ProofWasSeen
      BY DEF Init, ProofWasSeen, NoJob
    <2>2. ResolutionIsProven
      BY DEF Init, ResolutionIsProven, Numbers
    <2> QED
      BY <2>1, <2>2, TypeInit DEF IInv
  <1>2. IInv /\ [Next]_vars => IInv'
    <2> SUFFICES ASSUME IInv, [Next]_vars PROVE IInv'
      OBVIOUS
    <2> QED
      BY TypeStep, SeenStep, ResolutionStep DEF IInv
  <1>3. IInv => ResolutionIsProven
    BY DEF IInv
  <1> QED
    BY <1>1, <1>2, <1>3, PTL DEF Spec
------------------------------------------------------------------------------
(* One complaint per fault.  A complaint that was never settled is open;   *)
(* and as long as no two reports have been handled at once, the one that   *)
(* is being handled has seen every complaint there is.                     *)
UnsettledIsOpen == \A n \in Numbers : n \notin settled => tickets[n].status \in OpenStates

OutOfWindow(n, at) == tickets[n].createdAt + DuplicateWindow < at

HasLooked(h) ==
  \A n \in Numbers \ settled :
    SameFault(job[h].report, tickets[n].report) => OutOfWindow(n, job[h].at)

ReporterInv ==
  ~raced => \A h \in Handlers : Raising(h) =>
              HasLooked(h) /\ \A g \in Handlers : Raising(g) => g = h

FaultInv == TypeOK /\ UnsettledIsOpen /\ ReporterInv /\ OneTicketPerFault

(* What a complaint is about and when it was raised never changes.         *)
LEMMA RowsStay ==
  ASSUME TypeOK, [Next]_vars, NEW n \in Numbers
  PROVE  /\ n \in Numbers'
         /\ tickets'[n].report = tickets[n].report
         /\ tickets'[n].createdAt = tickets[n].createdAt
  <1>0. /\ tickets \in Seq(Row) /\ tickets[n] \in Row
        /\ Numbers = 1 .. Len(tickets) /\ Len(tickets) \in Nat
    BY DEF TypeOK, Numbers
  <1>1. CASE tickets' = tickets
    BY <1>1 DEF Numbers
  <1>2. ASSUME NEW h \in Handlers, WriteStatus(h) \/ WriteReopen(h) \/ Rate(h)
        PROVE  /\ n \in Numbers'
               /\ tickets'[n].report = tickets[n].report
               /\ tickets'[n].createdAt = tickets[n].createdAt
    <2>1. CASE n # job[h].ticket
      BY <1>0, <1>2, <2>1 DEF WriteStatus, WriteReopen, Rate, Numbers
    <2>2. CASE n = job[h].ticket /\ WriteStatus(h)
      BY <1>0, <2>2 DEF WriteStatus, Row, Numbers
    <2>3. CASE n = job[h].ticket /\ WriteReopen(h)
      BY <1>0, <2>3 DEF WriteReopen, Reopened, Row, Numbers
    <2>4. CASE n = job[h].ticket /\ Rate(h)
      BY <1>0, <2>4 DEF Rate, Row, Numbers
    <2> QED
      BY <1>2, <2>1, <2>2, <2>3, <2>4
  <1>3. ASSUME NEW h \in Handlers, InsertTicket(h), ~UNCHANGED desk
        PROVE  n \in Numbers' /\ tickets'[n] = tickets[n]
    <2> DEFINE row == Ticket(job[h].report, job[h].by, job[h].at)
    <2>1. tickets' = Append(tickets, row)
      BY <1>3 DEF InsertTicket
    <2> QED
      BY <1>0, <2>1 DEF Numbers
  <1>4. ASSUME NEW s \in Sweepers, Escalate(s)
        PROVE  /\ n \in Numbers'
               /\ tickets'[n].report = tickets[n].report
               /\ tickets'[n].createdAt = tickets[n].createdAt
    BY <1>0, <1>4 DEF Escalate, Row, Numbers
  <1> QED
    BY <1>1, <1>2, <1>3, <1>4, WhoWritesTickets

(* Nothing is ever forgotten of what was settled.                          *)
LEMMA SettledStays ==
  ASSUME [Next]_vars
  PROVE  settled \subseteq settled' /\ (raced => raced')
  <1>1. ASSUME NEW h \in Handlers, Ask(h) \/ LoseRequest(h)
        PROVE  settled' = settled /\ (raced => raced')
    <2>1. CASE LoseRequest(h)
      BY <2>1 DEF LoseRequest, GoOn, history
    <2>2. ASSUME NEW next, Begin(h, next)
          PROVE  settled' = settled
      BY <2>2 DEF Begin
    <2>3. CASE Ask(h)
      <3>1. settled' = settled
        BY <2>2, <2>3 DEF Ask, FindDuplicate, CountPhotos, ReadForStatus, ReadForReopen,
                          ReadForRating
      <3>2. raced => raced'
        BY <2>3 DEF Ask, FindDuplicate, CountPhotos, ReadForStatus, ReadForReopen,
                    ReadForRating
      <3> QED
        BY <3>1, <3>2
    <2> QED
      BY <1>1, <2>1, <2>3
  <1>2. ASSUME NEW h \in Handlers, Handle(h)
        PROVE  settled \subseteq settled' /\ raced' = raced
    BY <1>2 DEF Handle, Join, CountTickets, InsertTicket, Attach, CheckProof, WriteStatus,
       WriteReopen, Rate, GoOn, history
  <1>3. ASSUME NEW s \in Sweepers, DueForEscalation(s) \/ Escalate(s) \/ LoseSweep(s)
        PROVE  settled' = settled /\ raced' = raced
    BY <1>3 DEF DueForEscalation, Escalate, LoseSweep, history
  <1>4. CASE Tick \/ UNCHANGED vars
    BY <1>4 DEF Tick, vars, history
  <1> QED
    BY <1>1, <1>2, <1>3, <1>4 DEF Next

LEMMA UnsettledStep ==
  ASSUME FaultInv, [Next]_vars
  PROVE  UnsettledIsOpen'
  <1>0. /\ TypeOK /\ UnsettledIsOpen /\ tickets \in Seq(Row)
        /\ Numbers = 1 .. Len(tickets) /\ Len(tickets) \in Nat
    BY DEF FaultInv, TypeOK, Numbers
  <1> SUFFICES ASSUME NEW n \in Numbers', n \notin settled'
               PROVE  tickets'[n].status \in OpenStates
    BY DEF UnsettledIsOpen
  <1>1. n \notin settled
    BY SettledStays
  <1>2. ASSUME n \in Numbers, tickets'[n].status = tickets[n].status
        PROVE  tickets'[n].status \in OpenStates
    BY <1>0, <1>1, <1>2 DEF UnsettledIsOpen
  <1>3. CASE tickets' = tickets
    BY <1>2, <1>3 DEF Numbers
  <1>4. ASSUME NEW h \in Handlers, WriteStatus(h) \/ WriteReopen(h) \/ Rate(h)
        PROVE  tickets'[n].status \in OpenStates
    <2>0. n \in Numbers /\ tickets[n] \in Row
      BY <1>0, <1>4 DEF WriteStatus, WriteReopen, Rate, Numbers
    <2>1. CASE n # job[h].ticket
      BY <1>0, <1>2, <1>4, <2>0, <2>1 DEF WriteStatus, WriteReopen, Rate, Numbers
    <2>2. CASE n = job[h].ticket /\ WriteStatus(h)
      <3>1. tickets'[n].status = job[h].status
        BY <1>0, <2>0, <2>2 DEF WriteStatus, Row, Numbers
      <3> QED
        BY <2>2, <3>1 DEF WriteStatus
    <2>3. CASE n = job[h].ticket /\ WriteReopen(h)
      BY <1>0, <2>0, <2>3 DEF WriteReopen, Reopened, Row, Numbers, OpenStates
    <2>4. CASE n = job[h].ticket /\ Rate(h)
      <3>1. tickets'[n].status = tickets[n].status
        BY <1>0, <2>0, <2>4 DEF Rate, Row, Numbers
      <3> QED
        BY <1>2, <2>0, <3>1
    <2> QED
      BY <1>4, <2>1, <2>2, <2>3, <2>4
  <1>5. ASSUME NEW h \in Handlers, InsertTicket(h), ~UNCHANGED desk
        PROVE  tickets'[n].status \in OpenStates
    <2> DEFINE row == Ticket(job[h].report, job[h].by, job[h].at)
    <2>1. tickets' = Append(tickets, row) /\ row.status \in OpenStates
      BY <1>5 DEF InsertTicket, Ticket, OpenStates
    <2> HIDE DEF row
    <2>2. CASE n \in Numbers
      BY <1>0, <1>2, <2>1, <2>2
    <2>3. CASE n \notin Numbers
      BY <1>0, <2>1, <2>3 DEF Numbers
    <2> QED
      BY <2>2, <2>3
  <1>6. ASSUME NEW s \in Sweepers, Escalate(s)
        PROVE  tickets'[n].status \in OpenStates
    <2>1. n \in Numbers /\ tickets[n] \in Row
      BY <1>0, <1>6 DEF Escalate, Numbers
    <2>2. tickets'[n].status = tickets[n].status
      BY <1>6, <2>1 DEF Escalate, Row
    <2> QED
      BY <1>2, <2>1, <2>2
  <1> QED
    BY <1>3, <1>4, <1>5, <1>6, WhoWritesTickets

(* A report that goes on being handled is the same report, and a new one   *)
(* begins when there is no open complaint in the window it might join.     *)
LEMMA WhoReports ==
  ASSUME FaultInv, [Next]_vars, ~raced', NEW h \in Handlers, Raising(h)'
  PROVE  \/ /\ Raising(h)
            /\ job'[h].report = job[h].report /\ job'[h].at = job[h].at
         \/ /\ tickets' = tickets /\ settled' = settled /\ HasLooked(h)'
            /\ \A g \in Handlers \ {h} : ~Raising(g) /\ job'[g] = job[g]
  <1> DEFINE Goes == /\ Raising(h)
                     /\ job'[h].report = job[h].report /\ job'[h].at = job[h].at
  <1>0. TypeOK /\ job \in [Handlers -> Job] /\ UnsettledIsOpen
    BY DEF FaultInv, TypeOK
  <1>1. CASE job'[h] = job[h]
    BY <1>1 DEF Raising
  <1>2. ASSUME NEW g \in Handlers, NEW next, job' = [job EXCEPT ![g] = next],
               next.step \notin {"count", "insert"}
        PROVE  Goes
    BY <1>0, <1>1, <1>2 DEF Raising
  <1>3. ASSUME NEW g \in Handlers, Done(g) \/ LoseRequest(g)
        PROVE  Goes
    BY <1>2, <1>3 DEF Done, LoseRequest, GoOn, NoJob
  <1>4. ASSUME NEW g \in Handlers, CountTickets(g)
        PROVE  Goes
    BY <1>0, <1>1, <1>4 DEF CountTickets, GoOn, Raising
  <1>5. ASSUME NEW g \in Handlers, CheckProof(g)
        PROVE  Goes
    <2>1. job[g] \in [step : {"prove", "write"}, ticket : Numbers, status : Settable, at : Nat]
      BY <1>0, <1>5, JobShapes DEF CheckProof
    <2>2. PICK next : job' = [job EXCEPT ![g] = next] /\ next.step \notin {"count", "insert"}
      BY <1>5, <2>1 DEF CheckProof, GoOn, NoJob
    <2> QED
      BY <1>2, <2>2
  <1>6. ASSUME NEW g \in Handlers, NEW report \in Reports, NEW person \in Persons,
               FindDuplicate(g, report, person)
        PROVE  \/ Goes
               \/ /\ tickets' = tickets /\ settled' = settled /\ HasLooked(h)'
                  /\ \A f \in Handlers \ {h} : ~Raising(f) /\ job'[f] = job[f]
    <2>1. PICK next : job' = [job EXCEPT ![g] = next]
      BY <1>6 DEF FindDuplicate, Begin
    <2>2. CASE g # h
      BY <1>0, <1>1, <2>1, <2>2
    <2>3. CASE g = h /\ \E n \in Numbers :
                 Begin(g, [step |-> "join", ticket |-> n, by |-> person])
      BY <1>2, <2>3 DEF Begin
    <2>4. CASE /\ g = h
               /\ \A n \in Numbers : ~Candidate(n, report)
               /\ Begin(g, [step |-> "count", report |-> report, by |-> person, at |-> now])
      <3>1. /\ job'[h].report = report /\ job'[h].at = now
            /\ tickets' = tickets /\ settled' = settled
            /\ \A f \in Handlers \ {h} : job'[f] = job[f]
        BY <1>0, <2>4 DEF Begin, desk
      <3>2. \A f \in Handlers \ {h} : ~Raising(f)
        BY <1>6, <2>4 DEF FindDuplicate
      <3>3. ASSUME NEW n \in Numbers \ settled, SameFault(report, tickets[n].report)
            PROVE  OutOfWindow(n, now)
        <4>1. tickets[n] \in Row /\ now \in Nat
          BY <1>0 DEF TypeOK, Numbers
        <4>2. ~(tickets[n].createdAt + DuplicateWindow >= now)
          BY <1>0, <2>4, <3>3 DEF Candidate, UnsettledIsOpen
        <4> QED
          BY <4>1, <4>2 DEF OutOfWindow, Row
      <3>4. HasLooked(h)'
        BY <3>1, <3>3 DEF HasLooked, OutOfWindow, Numbers
      <3> QED
        BY <3>1, <3>2, <3>4
    <2> QED
      BY <1>6, <2>2, <2>3, <2>4 DEF FindDuplicate
  <1>7. ASSUME NEW g \in Handlers, NEW n \in Numbers, NEW status \in Settable,
               ReadForStatus(g, n, status)
        PROVE  Goes
    <2> DEFINE step == IF status = "resolved" THEN "prove" ELSE "write"
    <2>1. job' = [job EXCEPT ![g] = [step |-> step, ticket |-> n, status |-> status, at |-> now]]
      BY <1>7 DEF ReadForStatus, Begin
    <2>2. step \notin {"count", "insert"}
      OBVIOUS
    <2> HIDE DEF step
    <2> QED
      BY <1>2, <2>1, <2>2
  <1>8. ASSUME NEW g \in Handlers, NEW n \in Numbers,
               \/ \E kind \in {"proof", "other"} : CountPhotos(g, n, kind)
               \/ ReadForReopen(g, n)
               \/ \E person \in Persons : ReadForRating(g, n, person)
        PROVE  Goes
    BY <1>2, <1>8 DEF CountPhotos, ReadForReopen, ReadForRating, Begin
  <1>9. ASSUME NEW s \in Sweepers, DueForEscalation(s) \/ Escalate(s) \/ LoseSweep(s)
        PROVE  Goes
    <2>1. job' = job
      BY <1>9 DEF DueForEscalation, Escalate, LoseSweep
    <2> QED
      BY <1>1, <2>1 DEF Raising
  <1>10. CASE Tick \/ UNCHANGED vars
    BY <1>1, <1>10 DEF Tick, vars
  <1> HIDE DEF Goes
  <1>11. ASSUME NEW g \in Handlers, Ask(g)
         PROVE  \/ Goes
                \/ /\ tickets' = tickets /\ settled' = settled /\ HasLooked(h)'
                   /\ \A f \in Handlers \ {h} : ~Raising(f) /\ job'[f] = job[f]
    BY <1>6, <1>7, <1>8, <1>11 DEF Ask
  <1>12. ASSUME NEW g \in Handlers, Handle(g)
         PROVE  Goes
    BY <1>3, <1>4, <1>5, <1>12
       DEF Handle, Join, InsertTicket, Attach, WriteStatus, WriteReopen, Rate
  <1> QED
    BY <1>3, <1>9, <1>10, <1>11, <1>12 DEF Next, Goes

(* A complaint that is new is the one that a report inserts, and whoever   *)
(* inserts it is done with it.                                             *)
LEMMA WhoAddsTickets ==
  ASSUME TypeOK, [Next]_vars, NEW n \in Numbers' \ Numbers
  PROVE  \E h \in Handlers :
           /\ InsertTicket(h)
           /\ tickets' = Append(tickets, Ticket(job[h].report, job[h].by, job[h].at))
           /\ n = Len(tickets) + 1 /\ Numbers \subseteq Nat
           /\ ~Raising(h)' /\ \A g \in Handlers \ {h} : job'[g] = job[g]
  <1>0. /\ tickets \in Seq(Row) /\ Numbers = 1 .. Len(tickets) /\ Len(tickets) \in Nat
        /\ job \in [Handlers -> Job]
    BY DEF TypeOK, Numbers
  <1>1. ASSUME NEW h \in Handlers, WriteStatus(h) \/ WriteReopen(h) \/ Rate(h)
        PROVE  Numbers' = Numbers
    BY <1>0, <1>1 DEF WriteStatus, WriteReopen, Rate, Numbers
  <1>2. ASSUME NEW s \in Sweepers, Escalate(s)
        PROVE  Numbers' = Numbers
    BY <1>2 DEF Escalate, Numbers
  <1>3. PICK h \in Handlers : InsertTicket(h) /\ ~UNCHANGED desk
    BY <1>1, <1>2, WhoWritesTickets DEF Numbers
  <1>4. /\ tickets' = Append(tickets, Ticket(job[h].report, job[h].by, job[h].at))
        /\ job' = [job EXCEPT ![h] = NoJob]
    BY <1>3 DEF InsertTicket, Done
  <1>5. n = Len(tickets) + 1 /\ Numbers \subseteq Nat
    BY <1>0, <1>4 DEF Numbers
  <1>6. ~Raising(h)' /\ \A g \in Handlers \ {h} : job'[g] = job[g]
    BY <1>0, <1>4 DEF Raising, NoJob
  <1> QED
    BY <1>3, <1>4, <1>5, <1>6

LEMMA ReporterStep ==
  ASSUME FaultInv, [Next]_vars
  PROVE  ReporterInv'
  <1>0. TypeOK /\ ReporterInv
    BY DEF FaultInv
  <1> SUFFICES ASSUME ~raced', NEW h \in Handlers, Raising(h)'
               PROVE  HasLooked(h)' /\ \A g \in Handlers : Raising(g)' => g = h
    BY DEF ReporterInv
  <1>1. ~raced
    BY SettledStays
  <1>2. HasLooked(h)'
    <2>1. CASE /\ Raising(h)
               /\ job'[h].report = job[h].report /\ job'[h].at = job[h].at
      <3>1. SUFFICES ASSUME NEW n \in Numbers' \ settled',
                            SameFault(job[h].report, tickets'[n].report)
                     PROVE  OutOfWindow(n, job[h].at)'
        BY <2>1 DEF HasLooked
      <3>2. n \in Numbers
        <4> SUFFICES ASSUME n \notin Numbers PROVE FALSE
          OBVIOUS
        <4>1. PICK g \in Handlers : /\ InsertTicket(g) /\ ~Raising(g)'
                                    /\ \A f \in Handlers \ {g} : job'[f] = job[f]
          BY <1>0, <3>1, WhoAddsTickets
        <4>2. Raising(g)
          BY <4>1 DEF InsertTicket, Raising
        <4> QED
          BY <1>0, <1>1, <2>1, <4>1, <4>2 DEF ReporterInv
      <3>3. n \notin settled
        BY SettledStays
      <3>4. tickets'[n].report = tickets[n].report /\ tickets'[n].createdAt = tickets[n].createdAt
        BY <1>0, <3>2, RowsStay
      <3>5. HasLooked(h)
        BY <1>0, <1>1, <2>1 DEF ReporterInv
      <3> QED
        BY <2>1, <3>1, <3>2, <3>3, <3>4, <3>5 DEF HasLooked, OutOfWindow
    <2> QED
      BY <2>1, WhoReports
  <1>3. ASSUME NEW g \in Handlers, Raising(g)', g # h
        PROVE  FALSE
    <2>1. CASE Raising(h) /\ Raising(g)
      BY <1>0, <1>1, <1>3, <2>1 DEF ReporterInv
    <2>2. CASE ~Raising(h)
      <3>1. job'[g] = job[g] /\ ~Raising(g)
        BY <1>3, <2>2, WhoReports
      <3> QED
        BY <1>3, <3>1 DEF Raising
    <2>3. CASE ~Raising(g)
      <3>1. job'[h] = job[h] /\ ~Raising(h)
        BY <1>3, <2>3, WhoReports
      <3> QED
        BY <3>1 DEF Raising
    <2> QED
      BY <2>1, <2>2, <2>3
  <1> QED
    BY <1>2, <1>3

LEMMA FaultStep ==
  ASSUME FaultInv, [Next]_vars
  PROVE  OneTicketPerFault'
  <1>0. /\ TypeOK /\ ReporterInv /\ OneTicketPerFault /\ tickets \in Seq(Row)
        /\ Numbers = 1 .. Len(tickets) /\ Len(tickets) \in Nat
    BY DEF FaultInv, TypeOK, Numbers
  <1> SUFFICES ASSUME ~raced', NEW m \in Numbers', NEW n \in Numbers', m < n,
                      {m, n} \cap settled' = {},
                      SameFault(tickets'[n].report, tickets'[m].report)
               PROVE  tickets'[m].createdAt + DuplicateWindow < tickets'[n].createdAt
    BY DEF OneTicketPerFault
  <1>1. ~raced /\ {m, n} \cap settled = {}
    BY SettledStays
  <1>2. CASE n \in Numbers
    <2>1. m \in Numbers
      <3> SUFFICES ASSUME m \notin Numbers PROVE FALSE
        OBVIOUS
      <3>1. m = Len(tickets) + 1
        BY <1>0, WhoAddsTickets
      <3> QED
        BY <1>0, <1>2, <3>1
    <2>2. /\ tickets'[m].report = tickets[m].report /\ tickets'[m].createdAt = tickets[m].createdAt
          /\ tickets'[n].report = tickets[n].report /\ tickets'[n].createdAt = tickets[n].createdAt
      BY <1>0, <1>2, <2>1, RowsStay
    <2> QED
      BY <1>0, <1>1, <1>2, <2>1, <2>2 DEF OneTicketPerFault
  <1>3. CASE n \notin Numbers
    <2>1. PICK h \in Handlers :
            /\ InsertTicket(h) /\ n = Len(tickets) + 1
            /\ tickets' = Append(tickets, Ticket(job[h].report, job[h].by, job[h].at))
      BY <1>0, <1>3, WhoAddsTickets
    <2>2. /\ tickets'[n].report = job[h].report /\ tickets'[n].createdAt = job[h].at
          /\ m \in Numbers
      <3> DEFINE row == Ticket(job[h].report, job[h].by, job[h].at)
      <3>1. row.report = job[h].report /\ row.createdAt = job[h].at
        BY DEF Ticket
      <3> HIDE DEF row
      <3>2. tickets'[n] = row /\ Numbers' = 1 .. Len(tickets) + 1
        BY <1>0, <2>1 DEF Numbers, row
      <3> QED
        BY <1>0, <2>1, <3>1, <3>2
    <2>3. tickets'[m].report = tickets[m].report /\ tickets'[m].createdAt = tickets[m].createdAt
      BY <1>0, <2>2, RowsStay
    <2>4. Raising(h)
      BY <2>1 DEF InsertTicket, Raising
    <2>5. HasLooked(h)
      BY <1>0, <1>1, <2>4 DEF ReporterInv
    <2> QED
      BY <1>1, <2>2, <2>3, <2>5 DEF HasLooked, OutOfWindow
  <1> QED
    BY <1>2, <1>3

(* "Three residents reporting one dark lift produce one ticket", for any   *)
(* number of complaints and requests, as long as no two reports are        *)
(* handled at once.                                                        *)
THEOREM OneTicket == Spec => []OneTicketPerFault
  <1>1. Init => FaultInv
    <2> SUFFICES ASSUME Init PROVE FaultInv
      OBVIOUS
    <2>1. Numbers = {}
      BY DEF Init, Numbers
    <2>2. ReporterInv
      BY DEF Init, ReporterInv, Raising, NoJob
    <2> QED
      BY <2>1, <2>2, TypeInit DEF FaultInv, UnsettledIsOpen, OneTicketPerFault
  <1>2. FaultInv /\ [Next]_vars => FaultInv'
    BY TypeStep, UnsettledStep, ReporterStep, FaultStep DEF FaultInv
  <1>3. FaultInv => OneTicketPerFault
    BY DEF FaultInv
  <1> QED
    BY <1>1, <1>2, <1>3, PTL DEF Spec
===============================================================================
