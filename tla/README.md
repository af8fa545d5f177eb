# watchmyGate: a verification of its protocols

watchmyGate runs a gated society: the visitor at the gate, the money the flats
owe, the complaints, staff, parcels and slots in between. This directory holds
TLA+ models of the parts of it that are protocols (several processes, phones
and people acting on the same rows, with crashes, retries and lost messages in
between), the TLC configurations that check them on small instances, and
theorems proved with TLAPS for every value of the constants.

Run from this directory:

    tlc -workers 2 -config gate.cfg MCGateSync      # any run of the table below
    tlapm GateSyncProofs.tla                        # any *Proofs module

## 1. The system

| part | where | what it is |
|---|---|---|
| API | `apps/api` | NestJS over PostgreSQL; every handler works inside `tx()` (packages/db/src/tenant.ts), one pooled connection, READ COMMITTED, row-level security per society |
| worker | `apps/worker` | Cloud Scheduler calls it; it fans out over societies and calls `/internal/*` of the API |
| task queue | Cloud Tasks | delivers HTTP calls at least once, after a delay, under a name; refuses a name that it still remembers |
| guard app | `apps/mobile-guard` | Flutter; works without network, keeps an outbox in SQLite and verifies passes by signature |
| resident app, console, desktop | `apps/mobile-resident`, `apps/web-admin`, ... | clients of the API |
| money | `packages/money` | charges, GST, late fees, allocation: pure functions over paise |
| schema | `packages/db` | tables, unique indexes, exclusion constraints, triggers, row-level security |
| AI service | `apps/ai-service` | stateless OCR and voice endpoints |

### Components, their state and what makes them hard

| component | state | operations | hard behaviour | what must hold | module |
|---|---|---|---|---|---|
| approval ladder (gate/approval.service, ladder) | visitor_approvals, approval_rungs, queue | request, advance, resolve, standing rule | taps race the timer; tasks duplicated, refused, retried; two clocks; crash between transactions | one final answer with one author; rungs in order; nobody is skipped; somebody answers | `ApprovalLadder`, `VisitorDecision` |
| standing rules (gate/ladder) | visitor_rules | evaluateRules | rules that contradict each other, in any row order | the winner is well defined; a new rule admits nobody unless more specific | `StandingRules*` |
| offline gate (mobile-guard/offline, gate.service sync) | outbox, gate_events, guest_passes | add, drain, sync, countPassUses, revoke | lost and late responses, batches re-cut, crashes on either side | nothing lost, nothing counted twice, order kept | `GateSync` |
| books (payments, billing, ledger; opening balances of migration) | receipts, invoices, allocations, journal, period | recordManual, issue, applyCredits, importOpeningBalances, postEntry, lock, reopen | two transactions per request, no row locks on reads, retries, pool exhaustion | receipts and bills have entries; no gaps; credit meets bills | `Books` |
| passes, register, shifts | guest_passes, signing keys, shift row | issue, rotate, verify, inside, overstay | handset knows keys and revocations of some time ago | validity at time of entry | planned |
| money arithmetic | none | allocate, charge formulas, GST, fees | rounding, thresholds | exact sums, no flat ahead by more than a paisa | planned |
| budgets | budget versions | create, setLines, approve, revise, discard | two approvals, revision of a revision | one approved version | planned |
| sign-in and sessions (auth.service, lib/api.ts, client.dart) | otp_challenges, sessions, the tokens a client keeps | requestOtp, verifyOtp, createSession, rotateSession, request, tryRefresh | two calls refresh at once, a refresh is lost or fails before or after its commit, a sign-out lands in between | one live token per code; nobody is signed out without such trouble | `Sessions` |
| helpdesk | tickets, merges, events | raise, attach, changeStatus, reopen, rate, escalate | unguarded read-then-write, overlapping sweeps | resolved has proof; one complaint per fault; what is late is escalated | `Helpdesk` |
| deliveries, parking, alerts | one row per parcel, vehicle, slot, alert | log, advance, allot, release, (de)register, acknowledge, close | two people act on one row, some updates are guarded and some are not | one slot per car, nobody moved silently, what is settled stays | `Registers` |
| staff, amenities | attendance, bookings | checkIn, checkOut, book, cancel | rows that change with the date; an exclusion constraint | one open row a day, no double booking | planned |
| society, occupancy, roles | occupancies and roles with validity | assign, end, grant, revoke | validity in the past or future | one primary occupant; last admin stays | planned |
| privacy | consents, erasure requests | record, withdraw, erase, purge | erasure between two writes about the person | erased is erased | planned |
| console pages and route guards (web-admin/src, *.controller.ts) | the rows a page shows, its loads, forms and buttons | load, poll, choose, open, press, close | loads overtake each other, answers are lost, a form closes while at work, roles kept in two places | own writes are shown, nothing is done twice unawares, what is offered is allowed | `Console`, `ConsolePages`, `ApiRoutes` |
| the forms that preview (billing/page.tsx, migration/page.tsx) | fields, preview, the call under way | edit, preview, issue | fields change while the preview is computed | what is approved is what is issued | `PreviewForm` |
| analytics, migration | | | | | only the opening balances, in `Books` |
| audit, notices, notifications, AI service, infrastructure | single rows or none | | | | not modelled (see PROJECT.json for each reason) |

How they interact: a guard's visit starts an approval; the approval's rungs go
through the task queue back into the API; the visit's outcome becomes a row of
the outbox and, some time later, a row of gate_events that uses up a pass. A
bill of the monthly run, a payment and the sweep of credits all write the same
three tables and the journal. The audit trail is an insert in the transaction
of whoever changes something.

## 2. The modules

### ApprovalLadder, VisitorDecision (approval.service.ts, ladder.ts, tasks.service.ts)

`ApprovalLadder` follows one approval. State: the row (`state`, `decision`), its
rungs (`rows`), the flat's rules, what each tap came to (`taps`), the tasks in the
queue and the names it remembers, the time, and for each handler where it is
(`pc`) and what it has read (`job`). One action for each transaction or
external call of `request` and `advance`, in the order of the code: `Request`,
`Deliver`, `ReadApproval`, `ReadRungs`, `ReadRules`, `Fire`, `ApplyRule`,
`MarkEscalated`, `ScheduleNext`, `Enqueue`, `Finish`; so that a
failure (`Fail`: the handler dies or throws, and the queue delivers the task again
up to `MaxAttempts` times), a second delivery or a tap (`Tap`) can come between any
two. The next task's name carries the number of rungs; a name the queue remembers is
refused, which the code takes for success. `ClockSkew` bounds how far two
processes' clocks disagree. `People` are those who may tap: anybody signed
in to the society, of whatever flat or role. The route asks for no role
(gate.controller.ts:156-162) and `resolve` looks neither at the flat nor at whom
the rungs addressed (approval.service.ts:137-163); so what holds of a decision
is that it has one author, a person or the winning rule, and not that the author
lives in the flat.

`VisitorDecision` is what is promised: a pending visitor is let in or
refused by one person (whoever that is) or by a rule, or is handed to the committee after
everybody was tried, and that is final. `ImplementsPromise` is the refinement.

Left out: the in-process timer that replaces the queue in development, and
whether a push or a call reached anybody (the code does not look at it).

### StandingRules, StandingRulesReduce (ladder.ts:134-198)

`StandingRules` defines matching, specificity and the winner;
`StandingRulesReduce` has the code's filter and reduce, over the positions of a
sequence, and checks it against the definition for all small sequences of rules (in the run `offices`). The free
text of a rule is one of a few needles, a name is the set of needles it
contains.

### GateSync (outbox.dart, sync_engine.dart, api_client.dart, gate.service.ts)

State: per handset the outbox (`state`, `attempts` of each row), how its
drainWithRetry goes or how the last one ended (`drain`), and the upload it waits for; the requests and responses under way; per server
process the batch it handles; gate_events and the passes' uses and status.
`Admit` is the guard's entry. `Begin` is a call of drainWithRetry by
somebody: nothing in apps/mobile-guard/lib makes one (only its tests do), so no
fairness obliges anybody to. `Send`/`Receive`/`TimeOut` are one turn of `drain()`;
one that is offline or gets nowhere is begun again up to `MaxRetries` times
(`RetryOrEnd`), one whose session is rejected ends for good ("auth"), an empty
outbox ends it (`Drained`), and `Restart` kills it; `Take`/`Insert`/`CountUses`/`Answer`/`Crash` are
`sync()`, one action for each of its transactions; `Revoke` is
revokePass; `SessionRejected` is a 401. A
response that arrives after the timeout is dropped (the connection is
closed), but the batch goes on being handled, so that one event can be under
way in two processes. `trouble` counts mishaps of each kind; `Troubles` names
the kinds.

Abstractions: order of ids is order of creation (the device clock does not go
back); one drain at a time per handset (whoever begins one waits for its end);
an offline pass admits any number of times on the handset, as the code
does; the signature is not modelled. Two things the code does that matter to
a reader of the model: a revoked pass that is used once more offline may end
as "used" (gate.service.ts:225), and exit_of_event_id is written by nobody.

### Books (payments.service.ts, billing.service.ts, ledger.service.ts, migration.service.ts, tenant.ts)

A request (`pay`, `bill`, `sweep`, `import`) is a small program over `pc[h]`, one
action for each SQL statement. A statement sees what is committed and what
its own transaction wrote (`Seen...`). `MustWait`/`IsDuplicate` are the
unique indexes: an insert waits for the transaction that holds the key and
fails if that commits. `RowIsFree` is the row lock of an update.
`postEntry` takes a second connection, commits the entry there, and only
later does the request commit (`Commit`) or vanish (`Abort`): this is
the code's behaviour, and the reason for `BothOrNeither`'s violation.
`OpenSheet` and `Import` are importOpeningBalances (migration.service.ts:290-307): one
transaction inserts an issued invoice for every row of a sheet, with no entry in
the journal and no sweep of the flat's credit. Its numbers are of a series of their
own (`NumberOf`, negative, so that they never meet the bills'), and an opening balance dated on
the first day of a period (`AsOf`) is taken by the monthly run for that period's bill.
`HasConnection` and `TimeOut` are the pool. `LockPeriod` and
`ReopenPeriod` come at any moment.

`overlapped` is a history variable: two transactions of one flat have been
open at once. The code takes no lock against that, and under it a credit can be
applied twice, a flat billed twice for a month, a credit left beside a
debt. Three properties are therefore stated for behaviours without such an overlap.
They still cover every order of requests, failures at every statement, and
overlaps of different flats' requests. `unswept`, the other one, has the opening balances whose flat
has seen no bill and no sweep since they were brought over: CreditMeetsTheNextBill excuses
those, and only those, and DocumentsAreInTheBooks speaks of receipts and bills. An opening balance has no entry, although
the code says that it "flows through the same ledger" (migration.service.ts:287-288).

Abstractions: only recordManual reaches recordPayment (the webhook has no society
in its request context, so `currentContext()` throws before any write); an
invoice's total is a constant of the month; receipts are of one date, so that
oldest first is the order of numbers; lockPeriod's condition that the
ledger balances holds because postEntry refuses any other entry.

### Helpdesk (helpdesk.service.ts, slaSweep of internal.controller.ts)

State: the rows of `tickets` by number, the number of photos of either kind
(`attached`), the subscribers, and for each request what it has read and is about to
write (`job`). `raise` is FindDuplicate, then Join or CountTickets and
InsertTicket; `attach` is CountPhotos and Attach; `changeStatus` ReadForStatus,
CheckProof, WriteStatus; `reopen` and `rate` a read and a write; the sweep
DueForEscalation and Escalate. No update has a guard, so a request writes what it
decided whatever has become of the row, only in the columns that it sets. The
updates of one sweep are one step: they commit together, and a row that one
of them has touched is locked until then.

Two history variables delimit what the code promises. `raced`: two reports have been handled
at once; then neither sees the other, and OneTicketPerFault is not claimed.
`overtaken`: a complaint was resolved and reopened while a sweep held it as
late; the sweep then writes its date over the reopening's reset and the
reopened complaint is never escalated again. Both exceptions are needed: the
properties fail without them.

Abstractions: the words of a report are a set; category, location type and location are
one `place`; the thread of events and comments, assignees, watchers, and the presigned upload
are left out, as nothing reads them to decide. Severity and priority do not change what happens.

### Sessions (auth.service.ts, lib/api.ts, client.dart)

State: on the server the codes sent to one phone (`codes`), those verified that have no session yet
(`admitted`: verifying and creating are two transactions), the rows of `sessions`
(`rows`; a refresh token and the access token issued with it are the number of the row), how
many of the access tokens have expired (`lapsed`), and whether the person
still holds a role; on the client the row whose tokens it keeps (`store`) and its
calls. `RequestOtp`, `VerifyOtp`, `CreateSession`/`FailToCreate`, `RotateSession` are
the transactions of auth.service; `Send`, `Serve`, `Land401`, `LandRotated`,
`LandRefused`, `SignOut` the steps of `request` and `tryRefresh` between
their awaits; `LoseRefresh` a request or an answer that is lost, `FailToRotate` an error of the
pool, the database or the process, before the rotation is committed (`errors`) or after it,
when the roles are looked up (counted with the losses: the new token reaches nobody).
The console and the residents' app differ in one step: the console clears the session on every
answer to a refresh that is not ok, a 5xx included (lib/api.ts:149-152); the app keeps its tokens.
`dropped` is a history variable: such an answer has ended a session, or left the
app with a token that is spent.

OnlyTroubleSignsOut says what trouble that takes: an overlap, a loss, an error (in the console), or the
loss of the role. The comment of `request`
(lib/api.ts:115-117) has only "a genuinely dead session" end; in the code a live one ends, too.

A transaction that throws is rolled back. That is why a refresh token which is
presented a second time only fails: the statement that revokes the person's other
sessions stands before the throw, inside the same `withoutTenant`, and leaves no trace
(auth.service.ts:322-333; its comment says that the whole family is
revoked). The attempts counted for a wrong code are undone in the same way
(auth.service.ts:146-153). The model follows the code.

### Registers (parking.service.ts, deliveries.service.ts, safety.service.ts)

`cars`, `slots`, `parcels` and `alerts` are the rows; `requests` the allotments and
advances that have read and not yet written. `ReadAllot`/`WriteAllot` and
`ReadAdvance`/`WriteAdvance` are the two halves of `allot` and `advance`, which update by
id alone whatever has become of the row; the unique index on the vehicle is
in `WriteAllot`. The others are one statement each, or statements nothing can come between. `CloseAlert` has
no guard: closing again overwrites the time and the note (safety.service.ts:120-133).
`overlapped` (a history variable) says that two requests were under way
for one row: then the later of two allotments does move the first car, and the later of two
advances does rewrite a handover. The properties are claimed without such an overlap, but for the parts the
index and the guarded update of `acknowledge` protect in any case.

### PreviewForm (billing/page.tsx, migration/page.tsx)

What the fields hold, the inputs the figures shown were computed from, the call under way and its
body. `Edit` is `change`, `RunPreview`/`ShowPreview` the two sides of the await of `runPreview`,
`Issue` is `issue`, `Fail` and `Close` what useAction and the modal do.

### ApiRoutes, ConsolePages, Console (the controllers; web-admin/src)

`ApiRoutes` has, for every route the console calls, the roles its guard lets through
(`Passes`). `ConsolePages` has the twenty pages: the roles of their section, the routes each
waits for together and those whose failure it survives, what it offers to
whom and which routes a press calls one after the other. `Console` is a page that is open: `Load`,
`Read`, `Land` are a load before, during and after its await, `Poll` the timer, `Choose` a
filter or a month; `OpenForm`, `Run`, `Do`, `NextCall`, `Succeed`, `Complain`,
`CloseForm` the life of a form or button (useAction, Modal); `LoseLoad`, `LoseCall`
answers that do not come. A form that is done closes, a button stays, and after either
the page loads again; but for those that are `Aside`: what they write is not among the page's rows and they load none. The setting of a
staff PIN is such a button (its onDone only clears the field, so it can be pressed again at once,
staff/page.tsx:610-617); the moving out of an occupant reloads the occupants alone
(units/page.tsx:323), a comment its thread alone (complaints/page.tsx:517-523). The rows of a page are a version number, one more with each write.
Nothing in the code cancels a load: what lands last is shown.

`confirmed` (history) is the newest version of the person's own doing that no older
load was under way to hide: for those OwnWritesAreShown is claimed. In the other case the
older load may land last, and unless the page polls its rows stay old. Two disagreements the model
keeps as they are: the reopening of a period is offered to accountants and
the API keeps it for the society's admin (named as the exception of
LimitedOffersAreAllowed); and the staff page offers check-in to guards, who cannot load it.


## 3. The runs

| run | instance | states | what it shows |
|---|---|---|---|
| ladder_safety | 2 handlers, 2 people, instants 0/20/44/90, skew 1, 1 failure, 3 attempts | 1.1 million | final, one author, ordered; escalation last; refines VisitorDecision |
| ladder_live | 2 handlers, 1 person, two contradicting rules, 1 failure, 1 refusal | 347,000 | under fairness every rung is tried, a pending approval always has a driver, somebody answers |
| gate | 1 handset, 2 processes, 2 events, batches of 2, 2 attempts, 1 retry of a drain, 2 mishaps of 5 kinds | 210,882 | nothing lost, nothing twice, order; a running drain delivers; rows settle if drains are begun again and again |
| books | 2 requests at once out of 3, 2 flats, 2 months, 2 payments, 2 opening balances, pool of 2, 1 crash, lock and reopen | 220,934 | receipts and bills in the books, one receipt per payment, no gaps, allocations fit, credit meets the next bill, requests end |
| helpdesk | 2 requests at once out of 3, 1 sweep that may die once, times 0..2, from nothing and from a photographed complaint | 316,403 | resolved means proven, reports in sequence are merged, late means escalated |
| console | 20 pages, 4 single roles pressing everything, 3 busy visits; 2 loads, 2 forms, 1 loss, 2 writes | 360,281 | done again only after an answer or an error was shown, offers allowed, own writes shown, polling pages catch up |
| offices | *sessions:* 2 calls at once, 2 codes, 3 rows, 1 loss, 1 error; *registers:* 2 requests, 2 slots, 3 cars, 1 parcel, 1 alert, 2 guards; *form:* 2 inputs; *rules:* lists of up to 3, all kinds of matcher | 1,082,400 | one token per sign-in, only trouble signs out, no car moved and no record rewritten without an overlap, undisturbed previews issued; reduce finds the winner in any order, a new rule lets nobody in unless it is more specific |

Runs whose property is violated, each a finding in PROJECT.json with the line it
contradicts:

| run | property | what the code does |
|---|---|---|
| ladder_escalated_tap | RefusedOnlyWhenDecided | after the escalation nobody can decide any more |
| ladder_exhausted | ExhaustedLadderIsEscalated | a crash after the last rung leaves the approval pending for good |
| gate_parked | OnlyBadRowsAreParked | timeouts alone park a good event |
| books_one_transaction | BothOrNeither | a crash after postEntry leaves an entry without its document |
| console_preview | IssuedAsPreviewed | a field changed while the preview is computed: one period's figures are approved, another's are issued |

More departures are in the models and have no run of their own; where a property meets one, it names it as its exception:

- Two deliveries of one task that overlap both read the rungs before either inserts, and fire the
  rung twice (approval.service.ts:107; `approval_rungs` has no unique key).
- A process that dies between the inserts of a batch and countPassUses leaves the uses of its
  passes uncounted for good, since the retry finds only duplicates (gate.service.ts:163);
  EveryEntryIsCounted is stated for behaviours without a crash.
- An opening balance is an invoice without a journal entry, and it meets the flat's credit only with the
  next bill or sweep (migration.service.ts:290-307). Were DocumentsAreInTheBooks to speak of all invoices, or
  CreditMeetsTheNextBill to do without `unswept`, one import would violate it.
- A refresh that fails for any reason, before anything is committed, signs a member out of the
  console with a token that could still be used (lib/api.ts:149-152); and of two calls that refresh at once, the second
  throws away the session the first has renewed. OnlyTroubleSignsOut has both in its conclusion.
- The drains of a handset are begun by nothing in its app (see the fairness of GateSync).

`offices` puts four modules that share nothing behind one variable `part`: a behaviour exercises
one of them, so the states add up and do not multiply.

**Why the bounds are enough.** Ladder: the instants are those where some rung
becomes due or nearly so (the ladder has three waiting times); two handlers are
the smallest number that can hold the same task; one failure can hit any of
them anywhere, and a retry can fail again only as another failure does. Gate:
two events make an order, two processes let an old and a new batch overlap,
two mishaps allow a timeout followed by a crash of the process that still
holds the old batch; batches are re-cut because rows come back one by one; one retry of a drain (5 in the code) is enough to tell
a drain that goes on from one that gives up.
Books: three requests are the shortest story in which money is
left over, a bill comes, and a sweep or a second payment meets it; the payment
of 3 pays one bill of 2 and half of another; an opening balance of 1 meets what is left
over or the payment of 1, and one of nothing is an invoice that is never due. Helpdesk: a story from report
to reopening takes four requests, more than two that overlap leave room for,
so `MCHelpdesk` also starts where such a story leads (a photographed
complaint that is late, or escalated and resolved); windows of 0 and an escalation time
of 1 make every comparison of dates come out either way within three instants. Console:
two loads are what it takes to overtake, two forms to close one at work and open another,
one loss to lose either a call or its answer, two errors and three versions to
try again twice. Visits that are not busy have neither losses nor other people's
writes, and are there for the rights of every role on every page. Sessions: three
rows are a sign-in and two rotations, or two sign-ins and one; a third call would
only be one more that is refused; one loss and one error are each enough to end a session. Registers: three cars for two slots let
one be taken while both others are read for.
A larger instance was also run
for the safety properties alone: five requests of one handler for Helpdesk.

`CHECK_DEADLOCK FALSE` where the system may stop: a ladder that is settled, an
outbox that is empty, a society whose bounded number of requests is used up.

**Fairness.** `ApprovalLadder`: a handler that runs goes on
(`WF Step(h)`), the queue delivers what it holds and retries (`WF Deliver`; Cloud
Tasks delivers at least once), time passes. Nobody is obliged to tap.
`GateSync`: a drain that has begun goes on (its next turn, a response or a
timeout), and a process goes on with its batch. Nobody is obliged to begin a drain, as no code of
the app does: GoodEventsArrive speaks of what happens while one runs, and EveryRowSettles
assumes in its statement that drains are begun again and again. Mishaps are never obliged and are
bounded, which says: the network works eventually. `Books`: a request goes on
when it can; that waiting for a connection ends is the pool's
connectionTimeoutMillis, an action of the model. `Helpdesk`: the scheduler repeats
the sweep (every 15 minutes, jobs.ts) and it dies a bounded number of times; a request that has begun goes on. `Console`: the API answers what arrives, the interval of a polling
page fires, and an answer that has arrived is handled (the event loop); nobody has to press
anything, and losses are bounded. `Sessions`, `Registers`, `PreviewForm` have safety properties only and no fairness. Nothing is strongly fair.

**Symmetry.** `offices` permutes the calls of Sessions; no property of that run distinguishes or
orders them, and none is a liveness property.

## 4. What is proved

All proofs are checked by tlapm with SMT, Zenon and LS4; there are no unproved steps.
They hold for any number of handlers, people, handsets, processes,
flats, passes, and for every bound.

**ApprovalLadderProofs.** From `InstantsAssumption`, `BoundsAssumption` and `RulesAssumption` of the module. The safety
properties are not inductive: a handler acts on what it read some
transactions ago. `IInv == TypeOK /\ HandlersInv /\ AnswersInv`:
`HandlersInv` says that what a handler holds in memory stays true of the
database (the rungs it has read are still there, what it believed unfired may
have been fired only by another, what it saw due is still due up to the skew);
`AnswersInv` ties the state of the row to the taps accepted and to the
rule that won. Theorems: `TypeCorrect`, `DecisionsHaveOneAuthor` (a decision is of one tap or of the rule that won, never of both),
`CommitteeIsLast`, `DecisionsAreFinal`, `LadderOrder`, and `Implementation`, the
refinement of VisitorDecision. `VisitorIsNotForgotten` (PendingIsDriven) has an invariant of
its own beside `IInv`: `DrivenInv` says that a handler completes its task only after a task
with a higher name is in the queue or in the names (`HandsOnInv`), that a task
comes due no earlier than the rung it is for, so that a handler never finds nothing to do
(`TasksInv`, clocks agreeing), and hence that the highest name is still queued
(`LastTaskIsQueued`). The liveness properties are only model-checked.

**GateSyncProofs.** From `GateAssumption` and `TroubleAssumption`. `IInv == TypeOK /\ WrittenInv /\ ToldInv /\
SentMeansRecorded /\ CountInv /\ SpentPassIsRetired`. `WrittenInv`: all that is under way
was written to an outbox first. `ToldInv`: a result other than "rejected", in a
process or on the wire, is of an event that is recorded: hence
`SentIsRecorded`. `CountInv` strengthens NoEntryIsCountedTwice: for every pass
there is a set of recorded entries, as many as its uses, that no process
still holds to count, and no two processes hold the same entry to count:
so counting one batch adds as many as it moves into that set (`NoDoubleCount`).
It also says that, as long as no process has died, every recorded entry outside the
set is held by some process to be counted; when all are idle the set is therefore
all the entries (`NoUseIsLost`, which states EveryEntryIsCounted). A crash is what
breaks that part, and the only thing that does (`NobodyHadDied`, `NothingToCount`).
`SpentIsRetired` and `TypeCorrect` follow from the same invariant. `DrainIsOrdered`
(EventsLandInOrder) needs `OrderInv`: of every batch, on its way or half handled, what comes
before one of its events is in the batch too, or is recorded, parked, or reported as
rejected in this batch. It holds when a batch is cut, since a batch is the first of
what waits and what does not wait is sent (so recorded) or parked; it is kept because a
recorded event stays (`EventsStay`) and a parked row is touched by nothing
(`ParkedStays`, from `SendingInv`: what an upload comes to is written only to rows being sent).

**BooksProofs.** From `BooksAssumption`. `IInv == ControlInv /\ TablesInv /\
UncommittedInv`: `ControlInv` says what a handler has written by the time it is where
it is; `TablesInv` that the three numbered tables run 1 .. n, each number once, and
holds the properties themselves; `UncommittedInv` is the strengthening: a number that
was read is never beyond the next one; a row that waits to be committed has exactly the
next number (so that the unique index leaves room for one such row of a kind);
its payment has no receipt yet; and a posted entry belongs to this handler's
document and to nobody else's. Opening balances have their own numbers and no
entry: `OpeningsInv` says that the negative numbers are theirs, that a sheet under way shares no row with
what is committed or with another sheet, and so leaves the other facts alone. The proof first reduces every action to one of
six effects on numbers, rows and entries (`Effect`), then shows that the
effects preserve the invariant. Theorems: `PaymentsAreReceiptedOnce`,
`DocumentsHaveEntries` (of receipts and bills), `NumbersAreConsecutive`. A second invariant, `BillsInv`, gives
`FlatsAreBilledOnce`: where transactions of a flat do not overlap, an invoice that
CheckBilled did not find cannot have come from anybody else since.

The money needs three things more. *Sums:* what is applied of a receipt or paid of an
invoice is a fold over the allocations. The sum over a set of positions is shown to be a
number of elements (the pairs of a position and a rupee of its amount, `SumsCountRupees`), so
that the library's theorems about finite sets give what is used of it: a sum of two
transactions' allocations is the sum of both (`SumsAddUp`), an allocation adds its amount to
one receipt and one invoice (`OneAddsUp`). *Lists:* `Sorted` gives each row
once, in order (`SortedLists`, again by a least counterexample), so the lists of credits and open
invoices a handler reads are all of them (`CreditsRead`, `InvoicesRead`). *The
invariant* `MoneyInv`, beside `MoneyTyped` (from which `ShapesAreKept`, TypeOK) and
`BillsInv`: as long as no transactions of a flat have overlapped, what is committed is `Balanced`
(nothing is applied or paid beyond what there is, each invoice says what was paid of
it, where one of nothing stays issued (`Says`), no receipt with something left faces an invoice with something due,
but for the opening balances nobody has swept), and so is what a
working handler sees of its flats, but for the pairs it has still to settle (`Left`, with those of the unswept balances, `Asleep`) and the one
invoice whose status is late (`Late`); its lists say what is left and due up to the amount it has
just allocated (`Taken`), and its allocations and new statuses are of its own flats. Each step
keeps this for the handler (`InsertFits` ... `UpdateStatusFits`); the commit makes what was seen
what there is (`CommittedFits`) and changes no sum and no row of another handler's flats
(`OthersOfCommit`, by `Alike` and `Unapplied`): this is where a missing lock would bite, and
where the exception of the properties is needed. Theorems:
`NothingIsOverspent` (AllocationsFit) and `CreditIsSwept` (CreditMeetsTheNextBill).

**HelpdeskProofs.** From `HelpdeskAssumption`. `IInv == TypeOK /\ ProofWasSeen /\
ResolutionIsProven`: a request about to write "resolved" has seen a photo of the
repair some steps ago, and no step takes a photo away (`PhotosStay`), so it need
not look again. Theorems: `TypeCorrect`, `ResolvedIsProven`. `OneTicket`
(OneTicketPerFault) adds that, as long as no two reports have been handled at once, the one
being handled has looked at every complaint that was never settled (`HasLooked`), so that
its own is new or far enough from the last.

**SessionsProofs.** From `SessionsAssumption`. Rows are only appended and only ever become spent
(`SomeTokenPerSignIn` and OneTokenPerSignIn: of the rows of a code that has a session exactly one is
not spent; `CodesAreSpent`: a code is consumed before anything descends from it, and one that waits in `admitted` has no row yet). `TokensAreUnique` follows at once; it needs no word on how many calls are
under way, because `RotateSession` spends and appends in one step under the lock. `RotationIsNotFelt` (OnlyTroubleSignsOut) needs `Smooth`:
as long as no refreshes overlapped, none was lost, the person holds a role and, in the console, none failed, what is stored
is not spent, or is being exchanged by exactly one call whose answer is still to come; a refusal
then is an error the app was told before the rotation, and it keeps a token that can still be used.
`TypeCorrect` is the part of the types.

**RegistersProofs.** `ReadsHold`: without an overlap, what a request found when it read (a slot that was free or its
own car's, a status from which it may go on) still holds when it writes, up to a slot
that was released. Theorems: `CarsStay` (with the part that needs no exception: no car
is in two slots), `RecordsStand`.

**ConsoleProofs.** From `ConsoleAssumption`. `NobodyIsOfferedInVain`
(LimitedOffersAreAllowed) is first a fact about constants: page by page, whoever
an offer is shown to passes the guards of every route it calls, but for the one
offer the property names (ReopenPeriod); then, by `Offered` and `Calling`, a call the API
refuses can only be of that offer or of one shown to everybody. `PressesCountOnce`
(AgainOnlyAfterAnAnswer) rests on `Counted`: how often a form was carried out
exceeds what it was shown (errors and, where it stays open when it is done, answers) by at most one, and by none while it is open and can be
pressed.

**OfficesProofs.** Every step of `OfficesNext` is a step of one part or leaves it alone; so
RegistersProofs carries over (`CarsStayHere`, `RecordsStandHere`). `PreviewsAreIssued`: on an undisturbed form,
figures that are shown belong to what the fields hold, and the body of a preview
under way is what they hold (`FormIsCurrent`). The standing rules, from `RulesAssumption`:
specificity and caution make a number (`Rank`) and the ids break ties, so that among rules
of different ids exactly one is unbeaten (`SomeRuleIsUnbeaten`,
`OneRuleIsUnbeaten`); the reduce over any set of positions is the unbeaten one among the
rules there (`ReduceIsBest`). That is an induction over data, done without an
induction theorem: the recursion has an explicit solution, and a least set on which
another solution differed would be one whose predecessor differs too (`WFMin`).
Theorems: `TheWinnerIsFound`, and the action property `LettingInIsSpecific`.

**Out of the prover's reach**, and left to TLC: liveness under fairness. Induction over data
is possible only by least counterexample, as above, since the library's induction theorems take
an operator as a parameter.

## 5. The plan

1. *Books, more:* the money arithmetic
   of packages/money (allocate, computeLine, applyGst, lateFee, totalInvoice) and
   computeFor as operators checked against reference definitions.
2. *Helpdesk, more:* the thread of events, overlapping sweeps that escalate twice, the
   proof of an earlier repair that still counts after a reopening (a run of its own).
3. *Registers, more:* attendance (checkOut closes the rows of every day at once),
   bookings, occupancy and roles.
4. *Passes and the register:* validity, keys, what a handset knows.
5. *Sessions, more:* the choice of a society, the count of wrong codes.
6. *Budgets and privacy,* if room is left.
7. *Proofs:* every invariant and action property of the runs is a theorem; next are those of
   the parts still to be modelled, with the sums of BooksProofs for the money arithmetic.

Not modelled for good: the markup of screens and what they search and sort by themselves, documents and exports, analytics, AI endpoints,
notification providers, infrastructure, and cryptography.
