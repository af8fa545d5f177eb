------------------------------- MODULE Helpdesk -------------------------------
(***************************************************************************)
(* Complaints: raising one or joining one that is already open, photos,    *)
(* status, proof of repair, reopening, rating, and the sweep that          *)
(* escalates what is late                                                  *)
(* (apps/api/src/modules/helpdesk/helpdesk.service.ts and the sla-sweep of *)
(* internal.controller.ts).                                                *)
(*                                                                         *)
(* A request is one transaction at READ COMMITTED, and none of its updates *)
(* has a guard: it reads, decides, and writes what it decided, whatever    *)
(* has happened to the row since.  An update keeps its row until the       *)
(* commit, and nothing is read in between: update and commit are one step. *)
(***************************************************************************)
EXTENDS Naturals, FiniteSets, Sequences

CONSTANTS
  Handlers, Sweepers,   \* requests, and sweeps, that may be under way at once
  Persons,              \* residents
  Reports,              \* what may be reported: [place, words, inUnit]
  EscalationTime,       \* escalation_hours of the category
  ReopenWindow,         \* REOPEN_WINDOW_DAYS
  DuplicateWindow,      \* DUPLICATE_WINDOW_HOURS
  MaxAttachments,       \* MAX_ATTACHMENTS
  Never,                \* a date that is not set
  MaxTime, MaxRequests, MaxCrashes  \* bounds

ASSUME HelpdeskAssumption ==
  /\ \A r \in Reports : r.words \in SUBSET STRING /\ IsFiniteSet(r.words)
                        /\ r.inUnit \in BOOLEAN
  /\ EscalationTime \in Nat /\ ReopenWindow \in Nat /\ DuplicateWindow \in Nat
  /\ MaxAttachments \in Nat /\ MaxTime \in Nat /\ Never \notin Nat
  /\ MaxRequests \in Nat /\ MaxCrashes \in Nat

VARIABLES
  now,
  tickets,      \* rows of tickets, by number
  attached,     \* each ticket's photos: of the repair, and others
  subscribers,  \* and who is told about it
  job,          \* what each request has read, and what it is about to write
  sweep,        \* the tickets each sweep has read as late, and when
  requests, crashes,  \* how many so far
  overtaken,    \* history: tickets reopened while a sweep held them as late
  settled,      \* history: tickets that have been anything but open at some time
  raced         \* history: two reports have been handled at once

desk == <<tickets, attached, subscribers>>
history == <<overtaken, settled, raced>>
vars == <<now, desk, job, sweep, requests, crashes, history>>
------------------------------------------------------------------------------
OpenStates == {"open", "in_progress", "reopened"}
Settable == {"open", "in_progress", "resolved", "closed"}

NoJob == [step |-> "none"]
NoSweep == [late |-> {}, at |-> 0]
Busy(h) == job[h] # NoJob

Init ==
  /\ now = 0
  /\ tickets = <<>> /\ attached = <<>> /\ subscribers = <<>>
  /\ job = [h \in Handlers |-> NoJob]
  /\ sweep = [s \in Sweepers |-> NoSweep]
  /\ requests = 0 /\ crashes = 0
  /\ overtaken = {} /\ settled = {} /\ raced = FALSE

Numbers == DOMAIN tickets

(* A request begins with its first select, and ends here.                  *)
Begin(h, next) ==
  /\ ~Busy(h) /\ requests < MaxRequests
  /\ requests' = requests + 1
  /\ job' = [job EXCEPT ![h] = next]
  /\ UNCHANGED <<now, desk, sweep, crashes, overtaken, settled>>
GoOn(h, next) ==
  /\ job' = [job EXCEPT ![h] = next]
  /\ UNCHANGED <<now, desk, sweep, requests, crashes, history>>
Done(h) ==
  /\ job' = [job EXCEPT ![h] = NoJob]
  /\ UNCHANGED <<now, sweep, requests, crashes>>
------------------------------------------------------------------------------
(* raise: an open report of the same place, not too old, that shares half  *)
(* of the words.                                                           *)
Similar(r, s) ==
  /\ r.words # {} /\ s.words # {}
  /\ 2 * Cardinality(r.words \cap s.words) >= Cardinality(r.words \cup s.words)
SameFault(r, s) == ~r.inUnit /\ ~s.inUnit /\ r.place = s.place /\ Similar(r, s)

(* Mutant of Candidate: complaints that somebody has begun to work on are  *)
(* not looked at.                                                          *)
UntouchedCandidate(n, report) ==
  /\ tickets[n].status = "open"
  /\ tickets[n].createdAt + DuplicateWindow >= now
  /\ SameFault(report, tickets[n].report)

Candidate(n, report) ==
  /\ tickets[n].status \in OpenStates
  /\ tickets[n].createdAt + DuplicateWindow >= now
  /\ SameFault(report, tickets[n].report)

Raising(h) == job[h].step \in {"count", "insert"}

FindDuplicate(h, report, person) ==
  /\ \/ \E n \in Numbers :
          /\ Candidate(n, report)
          /\ Begin(h, [step |-> "join", ticket |-> n, by |-> person])
     \/ /\ \A n \in Numbers : ~Candidate(n, report)
        /\ Begin(h, [step |-> "count", report |-> report, by |-> person, at |-> now])
  /\ raced' = (raced \/ \E g \in Handlers \ {h} : Raising(g))

Join(h) ==
  /\ job[h].step = "join"
  /\ subscribers' = [subscribers EXCEPT ![job[h].ticket] = @ \cup {job[h].by}]
  /\ Done(h) /\ UNCHANGED <<tickets, attached, history>>

(* Mutant of NextTicketNumber: the number of tickets itself.               *)
CountOfTickets == Len(tickets)

NextTicketNumber == Len(tickets) + 1

CountTickets(h) ==
  /\ job[h].step = "count"
  /\ GoOn(h, [step |-> "insert", report |-> job[h].report, by |-> job[h].by,
              at |-> job[h].at, number |-> NextTicketNumber])

Ticket(report, person, at) ==
  [report |-> report, raisedBy |-> person, status |-> "open", createdAt |-> at,
   escalationDueAt |-> at + EscalationTime, escalatedAt |-> Never, resolvedAt |-> Never,
   reopenCount |-> 0, rated |-> FALSE]

(* A number that is taken by now fails the request (uq_ticket_society_     *)
(* number).                                                                *)
InsertTicket(h) ==
  /\ job[h].step = "insert"
  /\ IF job[h].number \in Numbers
     THEN UNCHANGED desk
     ELSE /\ tickets' = Append(tickets, Ticket(job[h].report, job[h].by, job[h].at))
          /\ attached' = Append(attached, [proof |-> 0, other |-> 0])
          /\ subscribers' = Append(subscribers, {job[h].by})
  /\ Done(h) /\ UNCHANGED history
------------------------------------------------------------------------------
(* attach: so many photos of either kind, as counted beforehand.           *)
CountPhotos(h, n, kind) ==
  /\ attached[n][kind] < MaxAttachments
  /\ Begin(h, [step |-> "attach", ticket |-> n, kind |-> kind])
  /\ UNCHANGED raced

Attach(h) ==
  LET n == job[h].ticket  kind == job[h].kind IN
  /\ job[h].step = "attach"
  /\ attached' = [attached EXCEPT ![n][kind] = @ + 1]
  /\ Done(h) /\ UNCHANGED <<tickets, subscribers, history>>
------------------------------------------------------------------------------
(* changeStatus: any status from any other; resolved needs a proof.        *)
ReadForStatus(h, n, status) ==
  /\ tickets[n].status # status
  /\ Begin(h, [step |-> IF status = "resolved" THEN "prove" ELSE "write",
               ticket |-> n, status |-> status, at |-> now])
  /\ UNCHANGED raced

(* Mutant of IsProven: any photo will do.                                  *)
HasPhotos(n) == attached[n].proof + attached[n].other > 0

IsProven(n) == attached[n].proof > 0

CheckProof(h) ==
  /\ job[h].step = "prove"
  /\ IF IsProven(job[h].ticket)
     THEN GoOn(h, [job[h] EXCEPT !.step = "write"])
     ELSE GoOn(h, NoJob)

WriteStatus(h) ==
  LET n == job[h].ticket  status == job[h].status IN
  /\ job[h].step = "write"
  /\ tickets' = [tickets EXCEPT ![n].status = status,
                   ![n].resolvedAt = IF status = "resolved" THEN job[h].at ELSE @]
  /\ settled' = IF status \in OpenStates THEN settled ELSE settled \cup {n}
  /\ Done(h) /\ UNCHANGED <<attached, subscribers, overtaken, raced>>
------------------------------------------------------------------------------
(* reopen, within the window.                                              *)
MayReopen(n) ==
  /\ tickets[n].status \in {"resolved", "closed"} /\ tickets[n].resolvedAt # Never
  /\ now <= tickets[n].resolvedAt + ReopenWindow

ReadForReopen(h, n) ==
  /\ MayReopen(n)
  /\ Begin(h, [step |-> "reopen", ticket |-> n, count |-> tickets[n].reopenCount,
              at |-> now])
  /\ UNCHANGED raced

(* Mutants of Reopened: the date of the resolution stays, or that of the   *)
(* escalation.                                                             *)
ReopenedAsResolved(t, count, at) ==
  [t EXCEPT !.status = "reopened", !.escalatedAt = Never,
            !.reopenCount = count + 1, !.escalationDueAt = at + EscalationTime]

ReopenedAsEscalated(t, count, at) ==
  [t EXCEPT !.status = "reopened", !.resolvedAt = Never,
            !.reopenCount = count + 1, !.escalationDueAt = at + EscalationTime]

Reopened(t, count, at) ==
  [t EXCEPT !.status = "reopened", !.resolvedAt = Never, !.escalatedAt = Never,
            !.reopenCount = count + 1, !.escalationDueAt = at + EscalationTime]

WriteReopen(h) ==
  LET n == job[h].ticket IN
  /\ job[h].step = "reopen"
  /\ tickets' = [tickets EXCEPT ![n] = Reopened(@, job[h].count, job[h].at)]
  /\ overtaken' = IF \E s \in Sweepers : n \in sweep[s].late
                  THEN overtaken \cup {n} ELSE overtaken
  /\ Done(h) /\ UNCHANGED <<attached, subscribers, settled, raced>>

ReadForRating(h, n, person) ==
  /\ tickets[n].status \in {"resolved", "closed"} /\ tickets[n].raisedBy = person
  /\ Begin(h, [step |-> "rate", ticket |-> n])
  /\ UNCHANGED raced

Rate(h) ==
  /\ job[h].step = "rate"
  /\ tickets' = [tickets EXCEPT ![job[h].ticket].rated = TRUE]
  /\ Done(h) /\ UNCHANGED <<attached, subscribers, history>>
------------------------------------------------------------------------------
(* slaSweep: dueForEscalation, then one update for each that it found.     *)
IsLate(n) ==
  /\ tickets[n].status \in OpenStates
  /\ tickets[n].escalationDueAt <= now /\ tickets[n].escalatedAt = Never

DueForEscalation(s) ==
  LET late == {n \in Numbers : IsLate(n)} IN
  /\ sweep[s].late = {} /\ late # {}
  /\ sweep' = [sweep EXCEPT ![s] = [late |-> late, at |-> now]]
  /\ UNCHANGED <<now, desk, job, requests, crashes, history>>

Escalate(s) ==
  /\ sweep[s].late # {}
  /\ tickets' = [n \in Numbers |->
       IF n \in sweep[s].late THEN [tickets[n] EXCEPT !.escalatedAt = sweep[s].at]
                              ELSE tickets[n]]
  /\ sweep' = [sweep EXCEPT ![s] = NoSweep]
  /\ UNCHANGED <<now, attached, subscribers, job, requests, crashes, history>>

(* A connection dies: what was not committed is gone.  Requests are        *)
(* bounded as they are; a sweep that is lost MaxCrashes times is not.      *)
LoseRequest(h) == Busy(h) /\ GoOn(h, NoJob)

LoseSweep(s) ==
  /\ sweep[s].late # {} /\ crashes < MaxCrashes
  /\ sweep' = [sweep EXCEPT ![s] = NoSweep] /\ crashes' = crashes + 1
  /\ UNCHANGED <<now, desk, job, requests, history>>

Tick ==
  /\ now < MaxTime /\ now' = now + 1
  /\ UNCHANGED <<desk, job, sweep, requests, crashes, history>>

Ask(h) ==
  \/ \E report \in Reports, person \in Persons : FindDuplicate(h, report, person)
  \/ \E n \in Numbers :
       \/ \E kind \in {"proof", "other"} : CountPhotos(h, n, kind)
       \/ \E status \in Settable : ReadForStatus(h, n, status)
       \/ ReadForReopen(h, n)
       \/ \E person \in Persons : ReadForRating(h, n, person)

Handle(h) ==
  \/ Join(h) \/ CountTickets(h) \/ InsertTicket(h) \/ Attach(h)
  \/ CheckProof(h) \/ WriteStatus(h) \/ WriteReopen(h) \/ Rate(h)

Next ==
  \/ \E h \in Handlers : Ask(h) \/ Handle(h) \/ LoseRequest(h)
  \/ \E s \in Sweepers : DueForEscalation(s) \/ Escalate(s) \/ LoseSweep(s)
  \/ Tick

Spec == Init /\ [][Next]_vars

(* The scheduler runs the sweep again and again, and a request that has    *)
(* begun goes on.                                                          *)
Fairness ==
  /\ \A h \in Handlers : WF_vars(Handle(h))
  /\ \A s \in Sweepers : WF_vars(DueForEscalation(s) \/ Escalate(s))

FairSpec == Spec /\ Fairness
------------------------------------------------------------------------------
Date == Nat \cup {Never}
Row == [report : Reports, raisedBy : Persons, status : OpenStates \cup Settable,
        createdAt : Nat, escalationDueAt : Nat, escalatedAt : Date, resolvedAt : Date,
        reopenCount : Nat, rated : BOOLEAN]
Job ==
  {NoJob}
  \cup [step : {"join"}, ticket : Numbers, by : Persons]
  \cup [step : {"count"}, report : Reports, by : Persons, at : Nat]
  \cup [step : {"insert"}, report : Reports, by : Persons, at : Nat, number : Nat \ {0}]
  \cup [step : {"attach"}, ticket : Numbers, kind : {"proof", "other"}]
  \cup [step : {"prove", "write"}, ticket : Numbers, status : Settable, at : Nat]
  \cup [step : {"reopen"}, ticket : Numbers, count : Nat, at : Nat]
  \cup [step : {"rate"}, ticket : Numbers]

(* The shapes of the rows and of what a request holds; a request that is   *)
(* about a ticket is about one that is there.                              *)
TypeOK ==
  /\ now \in Nat /\ tickets \in Seq(Row)
  /\ attached \in [Numbers -> [proof : Nat, other : Nat]]
  /\ subscribers \in [Numbers -> SUBSET Persons]
  /\ job \in [Handlers -> Job]
  /\ sweep \in [Sweepers -> [late : SUBSET Numbers, at : Nat]]
  /\ requests \in Nat /\ crashes \in Nat
  /\ overtaken \subseteq Numbers /\ settled \subseteq Numbers /\ raced \in BOOLEAN

(* "Resolving requires a proof-of-fix attachment": whoever wrote in what   *)
(* order, a complaint is never resolved, nor has the date of a resolution, *)
(* without a photo of the repair, and one that was reopened has no such    *)
(* date.                                                                   *)
ResolutionIsProven ==
  \A n \in Numbers :
    /\ tickets[n].resolvedAt # Never => attached[n].proof > 0
    /\ tickets[n].status = "resolved" => tickets[n].resolvedAt # Never
    /\ tickets[n].status = "reopened" =>
         tickets[n].resolvedAt = Never /\ tickets[n].reopenCount > 0

(* "Three residents reporting one dark lift produce one ticket": of two    *)
(* complaints about the same fault, neither of which has been settled, the *)
(* later one was raised when the earlier one was out of the window; as     *)
(* long as no two reports are handled at once.                             *)
OneTicketPerFault ==
  ~raced =>
    \A m, n \in Numbers :
      m < n /\ {m, n} \cap settled = {} /\ SameFault(tickets[n].report, tickets[m].report)
        => tickets[m].createdAt + DuplicateWindow < tickets[n].createdAt

(* Late, and not escalated since it was due.                               *)
IsOverdue(n) ==
  /\ n \in Numbers /\ tickets[n].status \notin {"resolved", "closed"}
  /\ tickets[n].escalationDueAt <= now
  /\ tickets[n].escalatedAt = Never \/ tickets[n].escalatedAt < tickets[n].escalationDueAt

(* "It escalates if nobody fixes it": a complaint that is late does not    *)
(* stay so, and one that was reopened gets a time and an escalation of its *)
(* own, whatever was escalated before; unless a sweep held it as late when *)
(* it was reopened.                                                        *)
LateIsEscalated ==
  \A n \in 1 .. MaxRequests : IsOverdue(n) ~> ~IsOverdue(n) \/ n \in overtaken
==============================================================================
