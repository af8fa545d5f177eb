------------------------------- MODULE GateSync -------------------------------
(***************************************************************************)
(* The offline gate: what guards' handsets write in their outboxes, how    *)
(* the sync engine uploads it over a network that loses and delays, and    *)
(* what the server makes of it                                             *)
(* (apps/mobile-guard/lib/offline/{outbox,sync_engine,api_client}.dart,    *)
(* apps/api/src/modules/gate/gate.service.ts).                             *)
(*                                                                         *)
(* A handset drains its outbox when somebody asks for it, one batch at a   *)
(* time, until it is empty or something says stop; nothing in lib/ asks by *)
(* itself.  The server handles a batch in one process, one transaction per *)
(* event and one more for the passes.  Between two of them anything may    *)
(* happen: another batch of the same handset, a revocation, a crash.  A    *)
(* handset that stops waiting does not stop the server.                    *)
(***************************************************************************)
EXTENDS Integers, FiniteSets, Sequences

CONSTANTS
  Devices,       \* guards' handsets
  Processes,     \* API processes that may handle a batch at once
  Passes, NoPass,
  MaxUses,       \* visitor_passes.max_uses of each pass
  Visits,        \* what a guard may record: [pass, quality]
  BatchSize,     \* rows of one upload (50 in the code)
  MaxAttempts,   \* uploads after which a row is parked (8 in the code)
  MaxRetries,    \* drains that drainWithRetry adds to a failed one (5 in the code)
  MaxEvents,     \* bound: events per handset
  MaxTrouble,    \* bound: how often each of Troubles may come
  MaxTroubles    \* bound: and how often any of them

Qualities == {"good", "unrecordable", "malformed"}

ASSUME GateAssumption ==
  /\ Devices # {}
  /\ MaxUses \in [Passes -> Nat \ {0}] /\ NoPass \notin Passes
  /\ Visits \subseteq [pass : Passes \cup {NoPass}, quality : Qualities]
  /\ BatchSize \in Nat \ {0} /\ MaxAttempts \in Nat \ {0} /\ MaxRetries \in Nat
  /\ MaxEvents \in Nat
Troubles == {"early", "crash", "auth", "restart", "database"}
ASSUME TroubleAssumption == MaxTrouble \in [Troubles -> Nat] /\ MaxTroubles \in Nat

VARIABLES
  outbox,        \* each handset's rows, in the order of their ids (UUIDv7)
  drain,         \* each handset's drainWithRetry: how it goes, or how the last ended
  upload,        \* the batch it sent, and whether it waits for the answer
  requests,      \* uploads no process has taken yet
  process,       \* each process: the upload it handles, and how far it is
  responses,     \* responses the handset may still receive
  gateEvents,    \* ids of the rows of gate_events
  passes,        \* rows of visitor_passes: [uses, status]
  trouble        \* how often each trouble has come

server == <<process, gateEvents, passes>>
vars == <<outbox, drain, upload, requests, server, responses, trouble>>
------------------------------------------------------------------------------
Idle == [waiting |-> FALSE, round |-> 0, batch |-> {}]

NoWork(d) == [pc |-> "idle", device |-> d, round |-> 0, todo |-> {}, results |-> {}]
SomeDevice == CHOOSE d \in Devices : TRUE

Init ==
  /\ outbox = [d \in Devices |-> <<>>]
  /\ drain = [d \in Devices |-> [state |-> "drained", retries |-> 0]]
  /\ upload = [d \in Devices |-> Idle]
  /\ requests = {} /\ responses = {}
  /\ process = [p \in Processes |-> NoWork(SomeDevice)]
  /\ gateEvents = {}
  /\ passes = [p \in Passes |-> [uses |-> 0, status |-> "active"]]
  /\ trouble = [t \in Troubles |-> 0]

TroubleSoFar ==
  trouble["early"] + trouble["crash"] + trouble["auth"] + trouble["restart"]
  + trouble["database"]

Befalls(t) ==
  /\ TroubleSoFar < MaxTroubles
  /\ trouble[t] < MaxTrouble[t]
  /\ trouble' = [trouble EXCEPT ![t] = @ + 1]
------------------------------------------------------------------------------
(* Mutant of Waits: pending() forgets the rows that were being sent.       *)
WaitsUnlessSending(d, n) == outbox[d][n].state = "pending"

(* pending() returns rows that are being sent as well: a restart may have  *)
(* interrupted them.                                                       *)
Waits(d, n) == outbox[d][n].state \in {"pending", "sending"}
Pending(d) == {n \in DOMAIN outbox[d] : Waits(d, n)}
Batch(d) == {n \in Pending(d) : Cardinality({m \in Pending(d) : m < n}) < BatchSize}

(* markSent, markRetryable, park: each row of the handset in its new state.*)
Mark(d, state) ==
  outbox' = [outbox EXCEPT ![d] =
               [n \in DOMAIN outbox[d] |-> [outbox[d][n] EXCEPT !.state = state[n]]]]

(* GateState.admit: a pass that verifies offline opens the barrier, however*)
(* often it was used elsewhere; the visit is written down first.           *)
Admit(d, visit) ==
  /\ Len(outbox[d]) < MaxEvents
  /\ outbox' = [outbox EXCEPT ![d] =
                  Append(@, [visit |-> visit, state |-> "pending", attempts |-> 0])]
  /\ UNCHANGED <<drain, upload, requests, server, responses, trouble>>

Running(d) == drain[d].state = "running"

(* Somebody calls drainWithRetry (one call at a time).                     *)
Begin(d) ==
  /\ ~Running(d)
  /\ drain' = [drain EXCEPT ![d].state = "running"]
  /\ UNCHANGED <<outbox, upload, requests, server, responses, trouble>>

Ends(d, why) == drain' = [drain EXCEPT ![d] = [state |-> why, retries |-> 0]]

(* Nothing is pending: the queue is empty.                                 *)
Drained(d) ==
  /\ Running(d) /\ ~upload[d].waiting /\ Pending(d) = {}
  /\ Ends(d, "drained")
  /\ UNCHANGED <<outbox, upload, requests, server, responses, trouble>>

(* drain() stopped as 'offline' or for want of progress: drainWithRetry    *)
(* sleeps and drains again, MaxRetries times.                              *)
RetryOrEnd(d) ==
  IF drain[d].retries < MaxRetries
  THEN drain' = [drain EXCEPT ![d].retries = @ + 1]
  ELSE Ends(d, "offline")

MarkSending(row) ==
  [visit |-> row.visit, state |-> "sending", attempts |-> row.attempts + 1]

(* One turn of drain(): the batch is marked, one attempt is counted for    *)
(* every row of it, and it is sent.                                        *)
Send(d) ==
  /\ Running(d) /\ ~upload[d].waiting /\ Pending(d) # {}
  /\ outbox' = [outbox EXCEPT ![d] =
       [n \in DOMAIN outbox[d] |->
          IF n \in Batch(d) THEN MarkSending(outbox[d][n]) ELSE outbox[d][n]]]
  /\ upload' = [upload EXCEPT ![d] = [waiting |-> TRUE, round |-> @.round + 1,
                                      batch |-> Batch(d)]]
  /\ requests' = requests \cup {[device |-> d, round |-> upload[d].round + 1,
                                 batch |-> Batch(d)]}
  /\ UNCHANGED <<drain, server, responses, trouble>>

(* The connection is closed; what the server still says on it is lost.     *)
StopWaiting(d) ==
  /\ upload' = [upload EXCEPT ![d].waiting = FALSE]
  /\ responses' = {r \in responses : r.device # d}

(* The response: accepted and duplicate are success, rejected parks, and   *)
(* a row the server says nothing about is tried again.                     *)
StateAfter(d, n, results) ==
  LET outcomes == {o.outcome : o \in {r \in results : r.event = n}} IN
    IF n \notin upload[d].batch THEN outbox[d][n].state
    ELSE IF outcomes \cap {"accepted", "duplicate"} # {} THEN "sent"
    ELSE IF "rejected" \in outcomes THEN "parked" ELSE "pending"

(* The rows to send next would be the ones just sent.                      *)
NoProgress(d) ==
  LET next == Batch(d)' IN
    /\ Cardinality(next) = Cardinality(upload[d].batch)
    /\ \E n \in next \cap upload[d].batch : \A m \in next \cup upload[d].batch : n <= m

Receive(d) ==
  /\ upload[d].waiting
  /\ \E r \in responses :
       /\ r.device = d /\ r.round = upload[d].round
       /\ Mark(d, [n \in DOMAIN outbox[d] |-> StateAfter(d, n, r.results)])
  /\ StopWaiting(d)
  /\ IF NoProgress(d) THEN RetryOrEnd(d) ELSE UNCHANGED drain
  /\ UNCHANGED <<requests, server, trouble>>

(* Mutant of HadItsAttempts: the attempt is counted a second time.         *)
HadItsAttemptsTooSoon(d, n) == outbox[d][n].attempts + 1 >= MaxAttempts

HadItsAttempts(d, n) == outbox[d][n].attempts >= MaxAttempts

(* TransientSyncFailure: rows that have had their attempts are parked.     *)
RetryOrPark(d) ==
  /\ Mark(d, [n \in DOMAIN outbox[d] |->
                IF n \notin upload[d].batch THEN outbox[d][n].state
                ELSE IF HadItsAttempts(d, n) THEN "parked" ELSE "pending"])
  /\ StopWaiting(d)

(* Somebody may still answer the upload the handset waits for.             *)
AnswerComes(d) ==
  \/ \E r \in requests \cup responses : r.device = d /\ r.round = upload[d].round
  \/ \E p \in Processes : /\ process[p].pc # "idle"
                          /\ process[p].device = d /\ process[p].round = upload[d].round

(* No answer within the 20 seconds: none will come, or it comes too late.  *)
TimeOut(d) ==
  /\ upload[d].waiting
  /\ \/ ~AnswerComes(d) /\ UNCHANGED trouble
     \/ AnswerComes(d) /\ Befalls("early")
  /\ RetryOrPark(d) /\ RetryOrEnd(d)
  /\ UNCHANGED <<requests, server>>

(* 401 or 403: the drain stops, and nothing is parked.                     *)
SessionRejected(d) ==
  /\ upload[d].waiting /\ Befalls("auth")
  /\ \E r \in requests : /\ r.device = d /\ r.round = upload[d].round
                         /\ requests' = requests \ {r}
  /\ Mark(d, [n \in DOMAIN outbox[d] |->
                IF n \in upload[d].batch THEN "pending" ELSE outbox[d][n].state])
  /\ StopWaiting(d) /\ Ends(d, "auth")
  /\ UNCHANGED server

(* The app is killed during a drain (or the drain throws), and started     *)
(* again; the outbox is on disk.                                           *)
Restart(d) ==
  /\ Running(d) /\ Befalls("restart")
  /\ StopWaiting(d) /\ Ends(d, "killed")
  /\ UNCHANGED <<outbox, requests, server>>
------------------------------------------------------------------------------
(* The server.  A batch whose shape is wrong is refused as a whole (400),  *)
(* which the handset takes for a transport failure.                        *)
VisitOf(d, n) == outbox[d][n].visit

Take(p) ==
  /\ process[p].pc = "idle"
  /\ \E r \in requests :
       /\ requests' = requests \ {r}
       /\ process' = [process EXCEPT ![p] =
            IF \E n \in r.batch : VisitOf(r.device, n).quality = "malformed"
            THEN NoWork(r.device)
            ELSE [pc |-> "insert", device |-> r.device, round |-> r.round,
                  todo |-> r.batch, results |-> {}]]
  /\ UNCHANGED <<outbox, drain, upload, responses, gateEvents, passes, trouble>>

(* INSERT ... ON CONFLICT DO NOTHING, in the order of the batch; any error *)
(* of the statement or the connection is a rejection of that event.        *)
Inserted(d, n) ==
  /\ VisitOf(d, n).quality = "good"
  /\ gateEvents' = gateEvents \cup {<<d, n>>}

(* Mutant of OutcomeOf: a status the handset has no case for.              *)
OutcomeNobodyKnows(d, n) ==
  IF <<d, n>> \in gateEvents THEN "conflict" ELSE "accepted"

OutcomeOf(d, n) == IF <<d, n>> \in gateEvents THEN "duplicate" ELSE "accepted"

(* Mutant of Landed: replayed events are counted as well.                  *)
LandedOrReplayed(p) ==
  {o.event : o \in {r \in process[p].results : r.outcome # "rejected"}}

(* The events of the batch that landed now.                                *)
Landed(p) ==
  {o.event : o \in {r \in process[p].results : r.outcome = "accepted"}}

(* Mutant of RolledBack: the batch is one transaction.                     *)
BatchRolledBack(p) ==
  gateEvents' = gateEvents \ {<<process[p].device, n>> : n \in Landed(p)}

(* Every event is a transaction of its own: a rejection takes nothing else *)
(* with it.                                                                *)
RolledBack(p) == UNCHANGED gateEvents

(* Mutant of NextOf: the inserts are issued together (Promise.all).        *)
NextOfInAnyOrder(todo) == todo

NextOf(todo) == {n \in todo : \A m \in todo : n <= m}

Report(p, n, outcome) ==
  process' = [process EXCEPT ![p] =
    [pc |-> IF @.todo = {n} THEN "count" ELSE "insert",
     device |-> @.device, round |-> @.round, todo |-> @.todo \ {n},
     results |-> @.results \cup {[event |-> n, outcome |-> outcome]}]]

Insert(p) ==
  /\ process[p].pc = "insert"
  /\ LET d == process[p].device IN
     \E n \in NextOf(process[p].todo) :
       \/ /\ Inserted(d, n)
          /\ Report(p, n, OutcomeOf(d, n))
          /\ UNCHANGED trouble
       \/ /\ VisitOf(d, n).quality = "unrecordable" /\ UNCHANGED trouble
          /\ Report(p, n, "rejected") /\ RolledBack(p)
       \/ /\ Befalls("database")
          /\ Report(p, n, "rejected") /\ RolledBack(p)
  /\ UNCHANGED <<outbox, drain, upload, requests, responses, passes>>

NewEntries(p, pass) == {n \in Landed(p) : VisitOf(process[p].device, n).pass = pass}

(* Mutant of NewUses: the passes of a batch are made distinct first.       *)
NewUsesOncePerPass(p, pass) == IF NewEntries(p, pass) = {} THEN 0 ELSE 1

NewUses(p, pass) == Cardinality(NewEntries(p, pass))

(* Mutant of SpentAt: a strict comparison.                                 *)
SpentBeyond(uses, pass) == uses > MaxUses[pass]

SpentAt(uses, pass) == uses >= MaxUses[pass]

(* countPassUses: one more use for every event that landed now, and a      *)
(* spent pass is retired in the same statement.                            *)
CountUses(p) ==
  /\ process[p].pc = "count"
  /\ passes' = [pass \in Passes |->
       LET uses == passes[pass].uses + NewUses(p, pass)
       IN  IF NewEntries(p, pass) = {} THEN passes[pass]
           ELSE [uses |-> uses,
                 status |-> IF SpentAt(uses, pass) THEN "used" ELSE passes[pass].status]]
  /\ process' = [process EXCEPT ![p].pc = "answer"]
  /\ UNCHANGED <<outbox, drain, upload, requests, responses, gateEvents, trouble>>

Answer(p) ==
  /\ process[p].pc = "answer"
  /\ LET d == process[p].device IN
       responses' = IF upload[d].waiting /\ upload[d].round = process[p].round
                    THEN responses \cup {[device |-> d, round |-> process[p].round,
                                          results |-> process[p].results]}
                    ELSE responses
  /\ process' = [process EXCEPT ![p] = NoWork(process[p].device)]
  /\ UNCHANGED <<outbox, drain, upload, requests, gateEvents, passes, trouble>>

(* The process dies, or throws: what it committed stays.                   *)
Crash(p) ==
  /\ process[p].pc # "idle" /\ Befalls("crash")
  /\ process' = [process EXCEPT ![p] = NoWork(process[p].device)]
  /\ UNCHANGED <<outbox, drain, upload, requests, responses, gateEvents, passes>>

(* revokePass, whatever the status was.                                    *)
Revoke(pass) ==
  /\ passes' = [passes EXCEPT ![pass].status = "revoked"]
  /\ UNCHANGED <<outbox, drain, upload, requests, process, responses, gateEvents,
                 trouble>>
------------------------------------------------------------------------------
(* What a drain under way does by itself.                                  *)
Handset(d) == Send(d) \/ Receive(d) \/ TimeOut(d) \/ Drained(d)
Server(p) == Take(p) \/ Insert(p) \/ CountUses(p) \/ Answer(p)

Next ==
  \/ \E d \in Devices : \/ \E visit \in Visits : Admit(d, visit)
                        \/ Begin(d) \/ Handset(d)
                        \/ SessionRejected(d) \/ Restart(d)
  \/ \E p \in Processes : Server(p) \/ Crash(p)
  \/ \E pass \in Passes : Revoke(pass)

Spec == Init /\ [][Next]_vars

(* A drain that has begun goes on (the sleep ends, and every call has a     *)
(* time limit), and so does the server with what it has taken.  Nobody      *)
(* promises that the network works, nor that anybody begins a drain.        *)
Fairness ==
  /\ \A d \in Devices : WF_vars(Handset(d))
  /\ \A p \in Processes : WF_vars(Server(p))

FairSpec == Spec /\ Fairness
------------------------------------------------------------------------------
Row == [visit : Visits, state : {"pending", "sending", "sent", "parked"}, attempts : Nat]
Outcome == [event : Nat \ {0}, outcome : {"accepted", "duplicate", "rejected"}]
Request == [device : Devices, round : Nat, batch : SUBSET (Nat \ {0})]
Response == [device : Devices, round : Nat, results : SUBSET Outcome]

TypeOK ==
  /\ outbox \in [Devices -> Seq(Row)]
  /\ drain \in [Devices -> [state : {"drained", "running", "offline", "auth", "killed"},
                            retries : Nat]]
  /\ upload \in [Devices -> [waiting : BOOLEAN, round : Nat, batch : SUBSET (Nat \ {0})]]
  /\ requests \subseteq Request /\ responses \subseteq Response
  /\ process \in [Processes -> [pc : {"idle", "insert", "count", "answer"},
                                device : Devices, round : Nat,
                                todo : SUBSET (Nat \ {0}), results : SUBSET Outcome]]
  /\ gateEvents \subseteq Devices \X (Nat \ {0})
  /\ passes \in [Passes -> [uses : Nat, status : {"active", "used", "revoked"}]]
  /\ trouble \in [Troubles -> Nat]

(* Nothing the handset has crossed off is missing on the server, whatever  *)
(* was lost, repeated or late (sync_engine.dart:166-185).                  *)
SentMeansRecorded ==
  \A d \in Devices : \A n \in DOMAIN outbox[d] :
    outbox[d][n].state = "sent" => <<d, n>> \in gateEvents

(* The entries on a pass that the server knows of.                         *)
Entries(pass) == {e \in gateEvents : VisitOf(e[1], e[2]).pass = pass}

(* "A replayed batch cannot burn through a visitor's remaining entries"    *)
(* (gate.service.ts:161-162): no entry is counted twice.                   *)
NoEntryIsCountedTwice ==
  \A pass \in Passes : passes[pass].uses <= Cardinality(Entries(pass))

(* Unless a process died, once nothing is being handled every entry that   *)
(* landed has been counted (gate.service.ts:159-169).                      *)
EveryEntryIsCounted ==
  trouble["crash"] = 0 /\ (\A p \in Processes : process[p].pc = "idle") =>
    \A pass \in Passes : passes[pass].uses = Cardinality(Entries(pass))

(* "There is no window in which a single-use pass reads as still active"   *)
(* (gate.service.ts:223-224).                                              *)
SpentPassIsRetired ==
  \A pass \in Passes : passes[pass].uses >= MaxUses[pass] => passes[pass].status # "active"

(* "Ordered drain" (outbox.dart:19-21): an event lands only after every    *)
(* earlier one of that handset, except those that will never land by       *)
(* themselves because they were rejected or parked.                        *)
EventsLandInOrder ==
  [][\A d \in Devices, n \in 1..MaxEvents :
       <<d, n>> \in gateEvents' \ gateEvents =>
         \A m \in 1..(n - 1) :
           \/ <<d, m>> \in gateEvents
           \/ outbox[d][m].state = "parked"
           \/ \E p \in Processes : /\ process[p].device = d
                                   /\ [event |-> m, outcome |-> "rejected"]
                                        \in process[p].results]_vars

StateIs(d, n, states) == n \in DOMAIN outbox[d] /\ outbox[d][n].state \in states

(* Failed turns: more of them than the drain is retried, or than a row has *)
(* attempts, and errors of the database, may leave a good event behind.    *)
TooMuchTrouble(d) ==
  \/ trouble["early"] + trouble["crash"] > MaxRetries
  \/ TroubleSoFar >= MaxAttempts
  \/ trouble["database"] > 0
  \/ \E m \in DOMAIN outbox[d] : VisitOf(d, m).quality = "malformed"

(* "One bad row must never wedge the queue" (outbox.dart:14-17): a drain    *)
(* under way delivers every good event, however many unrecordable ones     *)
(* there are before it, unless the session is rejected, the app is killed, *)
(* or there is more trouble than drainWithRetry and the attempts bear.     *)
GoodEventsArrive ==
  \A d \in Devices, n \in 1..MaxEvents :
    (Running(d) /\ n \in Pending(d) /\ VisitOf(d, n).quality = "good")
      ~> (StateIs(d, n, {"sent"}) \/ TooMuchTrouble(d) \/ drain[d].state \in {"auth", "killed"})

(* No row is forgotten: if drains are begun again and again - the caller's *)
(* part - every row is crossed off or parked where a supervisor sees it,   *)
(* whatever happens, killed drains included (outbox.dart:30-35).           *)
EveryRowSettles ==
  \A d \in Devices, n \in 1..MaxEvents :
    []<>Running(d) =>
      ((n \in DOMAIN outbox[d]) ~> StateIs(d, n, {"sent", "parked"}))

(* "Retrying forever is correct here: a device can be offline for a day    *)
(* and every one of those events still matters" (sync_engine.dart:9-10):   *)
(* a row is parked only when the server rejects it.                        *)
OnlyBadRowsAreParked ==
  \A d \in Devices : \A n \in DOMAIN outbox[d] :
    outbox[d][n].state = "parked" => VisitOf(d, n).quality # "good"
==============================================================================
