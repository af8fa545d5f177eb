-------------------------------- MODULE Books --------------------------------
(***************************************************************************)
(* The money of one society: bills issued, opening balances imported,      *)
(* payments recorded, credit swept onto what is owed, and the journal      *)
(* behind them                                                             *)
(* (apps/api/src/modules/{payments,billing,ledger,migration}/*.service.ts).*)
(*                                                                         *)
(* A request is handled over one database transaction at READ COMMITTED:   *)
(* each statement sees what others have committed so far and what its own  *)
(* transaction wrote.  postEntry opens a second transaction on a second    *)
(* connection of the pool and commits it at once, whatever becomes of the  *)
(* first.  A unique index makes an insert wait for the transaction that    *)
(* holds the key, and fail if that one commits; an update waits for the    *)
(* transaction that updated the row.  A request that fails, at whatever    *)
(* statement, rolls back what it has not committed.                        *)
(***************************************************************************)
EXTENDS Integers, FiniteSets, Sequences, FiniteSetsExt

CONSTANTS
  Handlers,      \* requests the API may be handling at once
  Units,         \* flats
  Months,        \* billing periods, in the order of their due dates
  Payments,      \* payments, by their provider event id
  Balances,      \* opening balances, rows of the old system's sheets
  AsOf,          \* the day one is owed since, as the period it falls in
  NumberOf,      \* its number, OPEN-flat-day: below zero, as no bill's is
  UnitOf,        \* the flat of a payment or of an opening balance
  AmountOf,      \* and its amount: a row of the sheet may well say 0
  Total,         \* what a flat is billed for a month
  None,
  PoolSize,      \* connections of the pool (DB_POOL_SIZE, 10)
  MaxRequests,   \* bound: requests
  MaxCrashes     \* bound: requests whose process or connection dies

Bills == Units \X Months

ASSUME BooksAssumption ==
  /\ Months \subseteq Nat
  /\ UnitOf \in [Payments \cup Balances -> Units]
  /\ AmountOf \in [Payments \cup Balances -> Nat] /\ \A p \in Payments : AmountOf[p] # 0
  /\ IsFiniteSet(Balances)
  /\ AsOf \in [Balances -> Nat] /\ NumberOf \in [Balances -> {n \in Int : n < 0}]
  /\ \A b, c \in Balances : NumberOf[b] = NumberOf[c] => b = c
  /\ Total \in [Months -> Nat \ {0}]
  /\ Payments \cap Bills = {} /\ Payments \cap Balances = {} /\ Balances \cap Bills = {}
  /\ None \notin Payments \cup Bills
  /\ PoolSize \in Nat /\ MaxRequests \in Nat /\ MaxCrashes \in Nat

VARIABLES
  receipts,      \* committed rows of receipts: [number, source, entry]
  invoices,      \* and of invoices: [number, source, entry, status]
  allocations,   \* and of receipt_allocations: [receipt, invoice, amount]
  journal,       \* journal_entries: [number, source, amount]
  locked,        \* the accounting period is closed
  pc,            \* where each handler is
  request,       \* what it handles
  number,        \* the number it has read for the row it will insert next
  wrote,         \* what its open transaction has written
  todo,          \* credits and open invoices it has read and not dealt with
  overlapped,    \* history: two transactions of a flat have been open at once
  unswept,       \* history: balances imported since their flat was last swept
  requests, crashes  \* how many so far

tables == <<receipts, invoices, allocations>>
locals == <<pc, request, number, wrote, todo>>
counts == <<requests, crashes>>
history == <<overlapped, unswept>>
vars == <<tables, journal, locked, locals, history, counts>>
------------------------------------------------------------------------------
Request(kind, source, units) == [kind |-> kind, source |-> source, units |-> units]
NoRequest == Request("none", None, {})

NothingWritten ==
  [number |-> 0, entry |-> 0, allocations |-> <<>>, status |-> <<>>, balances |-> {}]
NothingToDo == [credits |-> <<>>, open |-> <<>>, status |-> "issued"]

Init ==
  /\ receipts = {} /\ invoices = {} /\ allocations = <<>> /\ journal = {}
  /\ locked = FALSE
  /\ pc = [h \in Handlers |-> "idle"]
  /\ request = [h \in Handlers |-> NoRequest]
  /\ number = [h \in Handlers |-> 0]
  /\ wrote = [h \in Handlers |-> NothingWritten]
  /\ todo = [h \in Handlers |-> NothingToDo]
  /\ overlapped = FALSE /\ unswept = {} /\ requests = 0 /\ crashes = 0
------------------------------------------------------------------------------
(* Connections: one for the transaction of the request, a second while an  *)
(* entry is posted.                                                        *)
HasTransaction(h) ==
  \/ pc[h] \in {"insert", "import", "credits", "invoices", "allocate", "status",
                "period", "post", "commit"}
  \/ pc[h] = "number" /\ request[h].kind = "bill"
WaitsForConnection(h) ==
  \/ pc[h] \in {"begin", "period"}
  \/ pc[h] = "number" /\ request[h].kind = "pay"
InUse ==
  Cardinality({h \in Handlers : HasTransaction(h)})
  + Cardinality({h \in Handlers : pc[h] = "post"})
HasConnection == InUse < PoolSize

(* A transaction is opened; does another of the same flat overlap it?      *)
Opens(h) ==
  overlapped' = (overlapped \/ \E g \in Handlers \ {h} :
                   HasTransaction(g) /\ request[g].units \cap request[h].units # {})

(* The request ends, and what it has not committed is gone.                *)
End(h) ==
  /\ pc' = [pc EXCEPT ![h] = "idle"]
  /\ request' = [request EXCEPT ![h] = NoRequest]
  /\ number' = [number EXCEPT ![h] = 0]
  /\ wrote' = [wrote EXCEPT ![h] = NothingWritten]
  /\ todo' = [todo EXCEPT ![h] = NothingToDo]
Abort(h) == End(h) /\ UNCHANGED <<tables, journal>>
------------------------------------------------------------------------------
(* What the statements of a handler see.                                   *)
UnitOfBill(i) == IF i.source \in Bills THEN i.source[1] ELSE UnitOf[i.source]
PeriodOf(i) == IF i.source \in Bills THEN i.source[2] ELSE AsOf[i.source]
Amount(source) == IF source \in Bills THEN Total[source[2]] ELSE AmountOf[source]

Receipt(h) == [number |-> wrote[h].number, source |-> request[h].source,
               entry |-> wrote[h].entry]
Invoice(h) == [number |-> wrote[h].number, source |-> request[h].source,
               entry |-> wrote[h].entry, status |-> "issued"]
OpeningInvoice(b) ==
  [number |-> NumberOf[b], source |-> b, entry |-> 0, status |-> "issued"]
Own(h, kind, row) == IF request[h].kind = kind /\ wrote[h].number # 0 THEN {row} ELSE {}

Restated(h, i) ==
  IF i.number \in DOMAIN wrote[h].status
  THEN [i EXCEPT !.status = wrote[h].status[i.number]] ELSE i
SeenReceipts(h) == receipts \cup Own(h, "pay", Receipt(h))
Imported(h) == {OpeningInvoice(b) : b \in wrote[h].balances}
SeenInvoices(h) ==
  {Restated(h, i) : i \in invoices \cup Own(h, "bill", Invoice(h)) \cup Imported(h)}
SeenAllocations(h) == allocations \o wrote[h].allocations

AmountIn(rows, Matches(_)) ==
  MapThenSumSet(LAMBDA k : rows[k].amount, {k \in DOMAIN rows : Matches(rows[k])})
PaidIn(rows, i) == AmountIn(rows, LAMBDA a : a.invoice = i)
AppliedIn(rows, r) == AmountIn(rows, LAMBDA a : a.receipt = r)
Spare(rows, r) == Amount(r.source) - AppliedIn(rows, r.number)
Due(rows, i) == Amount(i.source) - PaidIn(rows, i.number)
------------------------------------------------------------------------------
Start(h, r) ==
  /\ pc[h] = "idle" /\ requests < MaxRequests
  /\ requests' = requests + 1
  /\ pc' = [pc EXCEPT ![h] = "begin"]
  /\ request' = [request EXCEPT ![h] = r]
  /\ UNCHANGED <<tables, journal, locked, number, wrote, todo, history, crashes>>

Goto(h, step) ==
  /\ pc' = [pc EXCEPT ![h] = step]
  /\ UNCHANGED <<tables, journal, request>>

(* recordPayment, the fast path: a transaction of its own, one select.     *)
FastPath(h) ==
  /\ pc[h] = "begin" /\ request[h].kind = "pay" /\ HasConnection
  /\ IF \E r \in receipts : r.source = request[h].source
     THEN Abort(h)
     ELSE Goto(h, "number") /\ UNCHANGED <<number, wrote, todo>>
  /\ UNCHANGED <<locked, history, counts>>

(* Mutant of AlreadyBilled: looks at open invoices only.                   *)
BilledAndOpen(h) ==
  \E i \in invoices : i.source = request[h].source /\ i.status # "paid"

(* issue: has this flat an invoice of that period?  An opening balance of  *)
(* the period's first day is one, too.                                     *)
AlreadyBilled(h) ==
  \E i \in invoices : <<UnitOfBill(i), PeriodOf(i)>> = request[h].source
CheckBilled(h) ==
  /\ pc[h] = "begin" /\ request[h].kind = "bill" /\ HasConnection
  /\ Opens(h)
  /\ IF AlreadyBilled(h)
     THEN Abort(h)
     ELSE Goto(h, "number") /\ UNCHANGED <<number, wrote, todo>>
  /\ UNCHANGED <<locked, unswept, counts>>

(* Mutant of NextReceiptNumber: numbers also count before they are         *)
(* committed, as those of a database sequence do.                          *)
NextOfSequence ==
  Max({0} \cup {r.number : r \in receipts}
      \cup {number[h] : h \in {g \in Handlers : request[g].kind = "pay"}}) + 1

(* nextReceiptNumber is the last number plus one; nextInvoiceNumber counts *)
(* the rows that are numbered as bills are (LIKE 'INV...'), nextEntryNumber*)
(* all rows.                                                               *)
Billed == {i \in invoices : i.number > 0}
NextReceiptNumber == IF receipts = {} THEN 1 ELSE Max({r.number : r \in receipts}) + 1
NextInvoiceNumber == Cardinality(Billed) + 1
NextEntryNumber == Cardinality(journal) + 1

ReadNumber(h) ==
  /\ pc[h] = "number"
  /\ \/ /\ request[h].kind = "pay" /\ HasConnection /\ Opens(h)
        /\ number' = [number EXCEPT ![h] = NextReceiptNumber]
     \/ /\ request[h].kind = "bill" /\ UNCHANGED overlapped
        /\ number' = [number EXCEPT ![h] = NextInvoiceNumber]
  /\ Goto(h, "insert")
  /\ UNCHANGED <<locked, wrote, todo, unswept, counts>>

(* Mutant of Clashes: no unique index on the event id of a receipt.        *)
ClashesInNumber(h, n, source) == n = number[h]

(* The unique indexes: the number of either, the event id of a receipt.    *)
Clashes(h, n, source) ==
  n = number[h] \/ (request[h].kind = "pay" /\ source = request[h].source)
MustWait(h) ==
  \E g \in Handlers \ {h} :
    /\ request[g].kind = request[h].kind /\ wrote[g].number # 0
    /\ Clashes(h, wrote[g].number, request[g].source)
IsDuplicate(h) ==
  \E row \in (IF request[h].kind = "pay" THEN receipts ELSE invoices) :
    Clashes(h, row.number, row.source)

Credit(n, payment, spare) == [receipt |-> n, unit |-> UnitOf[payment], spare |-> spare]

(* The row of the receipt or the invoice.  A duplicate key fails the       *)
(* transaction; so does the select that looks for the other receipt, as    *)
(* the transaction is already aborted.                                     *)
Insert(h) ==
  /\ pc[h] = "insert" /\ ~MustWait(h)
  /\ IF IsDuplicate(h)
     THEN Abort(h)
     ELSE /\ wrote' = [wrote EXCEPT ![h] = [NothingWritten EXCEPT !.number = number[h]]]
          /\ \/ /\ request[h].kind = "pay"
                /\ Goto(h, "invoices")
                /\ todo' = [todo EXCEPT ![h].credits =
                     <<Credit(number[h], request[h].source, Amount(request[h].source))>>]
             \/ /\ request[h].kind = "bill"
                /\ Goto(h, "period") /\ UNCHANGED todo
          /\ UNCHANGED number
  /\ UNCHANGED <<locked, history, counts>>

(* importOpeningBalances: one transaction for the sheet, an invoice that   *)
(* is issued for every row, with no entry in the journal and no look at    *)
(* the flat's credit.  A number that is there fails them all.  Nothing of  *)
(* this is seen before the commit, and of two sheets that share rows one   *)
(* fails in whatever order they are inserted: so it is one step.           *)
OpenSheet(h) ==
  /\ pc[h] = "begin" /\ request[h].kind = "import" /\ HasConnection /\ Opens(h)
  /\ Goto(h, "import")
  /\ UNCHANGED <<locked, number, wrote, todo, unswept, counts>>

FlatsOf(sheet) == {UnitOf[b] : b \in sheet}
Import(h) ==
  /\ pc[h] = "import"
  /\ \E sheet \in SUBSET Balances :
       /\ FlatsOf(sheet) = request[h].units
       /\ \A g \in Handlers \ {h} : wrote[g].balances \cap sheet = {}
       /\ IF \E i \in invoices : i.source \in sheet
          THEN Abort(h)
          ELSE /\ wrote' = [wrote EXCEPT ![h].balances = sheet]
               /\ Goto(h, "commit") /\ UNCHANGED <<number, todo>>
  /\ UNCHANGED <<locked, history, counts>>
------------------------------------------------------------------------------
(* ORDER BY: the k-th row has k - 1 rows before it.                        *)
Sorted(rows, before) ==
  [k \in 1..Cardinality(rows) |->
     CHOOSE r \in rows : Cardinality({s \in rows : <<s, r>> \in before}) = k - 1]
ByNumber(rows) == {p \in rows \X rows : p[1].number < p[2].number}
(* A bill is due in its period, an opening balance on the day it is of.    *)
DueDate(i) == 2 * PeriodOf(i) + (IF i.source \in Bills THEN 1 ELSE 0)
ByDueDate(rows) ==
  {p \in rows \X rows :
     \/ DueDate(p[1]) < DueDate(p[2])
     \/ DueDate(p[1]) = DueDate(p[2]) /\ p[1].number < p[2].number}

(* applyAdvancesIn: the receipts with credit left, oldest first.           *)
CreditsSeen(h) ==
  LET rows == {r \in SeenReceipts(h) :
                 UnitOf[r.source] \in request[h].units /\ Spare(SeenAllocations(h), r) > 0}
      sorted == Sorted(rows, ByNumber(rows))
  IN [k \in DOMAIN sorted |-> Credit(sorted[k].number, sorted[k].source,
                                     Spare(SeenAllocations(h), sorted[k]))]

Sweep(h) ==
  /\ todo' = [todo EXCEPT ![h].credits = CreditsSeen(h)]
  /\ Goto(h, IF CreditsSeen(h) = <<>> THEN "commit" ELSE "invoices")
  /\ UNCHANGED <<locked, number, wrote, unswept, counts>>

ReadCredits(h) ==
  \/ pc[h] = "begin" /\ request[h].kind = "sweep" /\ HasConnection /\ Opens(h) /\ Sweep(h)
  \/ pc[h] = "credits" /\ UNCHANGED overlapped /\ Sweep(h)

(* On to the next credit, and then to what follows the allocations.        *)
AfterAllocating(h) == IF request[h].kind = "pay" THEN "period" ELSE "commit"
NextCredit(h) ==
  /\ todo' = [todo EXCEPT ![h] = [NothingToDo EXCEPT !.credits = Tail(todo[h].credits)]]
  /\ Goto(h, IF Tail(todo[h].credits) = <<>> THEN AfterAllocating(h) ELSE "invoices")

(* Mutant of OpenInvoices: forgets the ones that are paid in part.         *)
UntouchedInvoices(h, unit) ==
  LET rows == {i \in SeenInvoices(h) : UnitOfBill(i) = unit /\ i.status = "issued"}
      sorted == Sorted(rows, ByNumber(rows))
  IN [k \in DOMAIN sorted |-> [invoice |-> sorted[k].number,
                               total |-> Amount(sorted[k].source),
                               due |-> Due(SeenAllocations(h), sorted[k])]]

(* The open invoices of the credit's flat, oldest due date first.          *)
OpenInvoices(h, unit) ==
  LET rows == {i \in SeenInvoices(h) :
                 /\ UnitOfBill(i) = unit /\ i.status \in {"issued", "partially_paid"}
                 /\ Due(SeenAllocations(h), i) > 0}
      sorted == Sorted(rows, ByDueDate(rows))
  IN [k \in DOMAIN sorted |-> [invoice |-> sorted[k].number,
                               total |-> Amount(sorted[k].source),
                               due |-> Due(SeenAllocations(h), sorted[k])]]

ReadInvoices(h) ==
  /\ pc[h] = "invoices"
  /\ LET open == OpenInvoices(h, Head(todo[h].credits).unit) IN
     IF open = <<>> THEN NextCredit(h)
     ELSE todo' = [todo EXCEPT ![h].open = open] /\ Goto(h, "allocate")
  /\ UNCHANGED <<locked, number, wrote, history, counts>>

(* An allocation of as much as is left and as is due; then refreshInvoice- *)
(* Status works out, from the allocations it can see, what the invoice's   *)
(* status should be.                                                       *)
StatusOf(paid, total) ==
  IF paid >= total THEN "paid" ELSE IF paid > 0 THEN "partially_paid" ELSE "issued"

(* Mutant of Allocation: applies what would be left over.                  *)
AllocatesTheRest(h) ==
  LET credit == Head(todo[h].credits)  bill == Head(todo[h].open)
  IN [receipt |-> credit.receipt, invoice |-> bill.invoice,
      amount |-> credit.spare - bill.due]

(* Mutant of Allocation: the whole credit, whatever is due.                *)
AllocatesAll(h) ==
  LET credit == Head(todo[h].credits)  bill == Head(todo[h].open)
  IN [receipt |-> credit.receipt, invoice |-> bill.invoice, amount |-> credit.spare]

Allocation(h) ==
  LET credit == Head(todo[h].credits)  bill == Head(todo[h].open)
  IN [receipt |-> credit.receipt, invoice |-> bill.invoice,
      amount |-> Min({credit.spare, bill.due})]

Allocate(h) ==
  LET bill == Head(todo[h].open)
      paid == PaidIn(Append(SeenAllocations(h), Allocation(h)), bill.invoice)
  IN /\ pc[h] = "allocate"
     /\ wrote' = [wrote EXCEPT ![h].allocations = Append(@, Allocation(h))]
     /\ todo' = [todo EXCEPT ![h].status = StatusOf(paid, bill.total)]
     /\ Goto(h, "status")
     /\ UNCHANGED <<locked, number, history, counts>>

(* The update of the row, which may have to wait for another's.            *)
RowIsFree(h, n) == \A g \in Handlers \ {h} : n \notin DOMAIN wrote[g].status

UpdateStatus(h) ==
  LET credit == Head(todo[h].credits)  bill == Head(todo[h].open)
      left == credit.spare - Min({credit.spare, bill.due})
  IN /\ pc[h] = "status" /\ RowIsFree(h, bill.invoice)
     /\ wrote' = [wrote EXCEPT ![h].status =
                    [n \in DOMAIN @ \cup {bill.invoice} |->
                       IF n = bill.invoice THEN todo[h].status ELSE @[n]]]
     /\ IF left = 0 \/ Tail(todo[h].open) = <<>> THEN NextCredit(h)
        ELSE /\ todo' = [todo EXCEPT ![h] =
                  [NothingToDo EXCEPT
                     !.credits = <<[credit EXCEPT !.spare = left]>> \o Tail(todo[h].credits),
                     !.open = Tail(todo[h].open)]]
             /\ Goto(h, "allocate")
     /\ UNCHANGED <<locked, number, history, counts>>
------------------------------------------------------------------------------
(* Mutant of ReadPeriod: in a closed period the entry is left out.         *)
PostsWhenOpen(h) ==
  /\ pc[h] = "period" /\ HasConnection
  /\ IF locked
     THEN Goto(h, "commit") /\ UNCHANGED <<number, wrote, todo>>
     ELSE /\ number' = [number EXCEPT ![h] = Cardinality(journal) + 1]
          /\ Goto(h, "post") /\ UNCHANGED <<wrote, todo>>
  /\ UNCHANGED <<locked, history, counts>>

(* postEntry, on a connection of its own: is the period closed, how many   *)
(* entries are there ...                                                   *)
ReadPeriod(h) ==
  /\ pc[h] = "period" /\ HasConnection
  /\ IF locked
     THEN Abort(h)
     ELSE /\ number' = [number EXCEPT ![h] = NextEntryNumber]
          /\ Goto(h, "post") /\ UNCHANGED <<wrote, todo>>
  /\ UNCHANGED <<locked, history, counts>>

(* ... and the entry, which is committed here.                             *)
PostEntry(h) ==
  /\ pc[h] = "post"
  /\ IF \E e \in journal : e.number = number[h]
     THEN Abort(h)
     ELSE /\ journal' = journal \cup {[number |-> number[h], source |-> request[h].source,
                                       amount |-> Amount(request[h].source)]}
          /\ wrote' = [wrote EXCEPT ![h].entry = number[h]]
          /\ pc' = [pc EXCEPT ![h] = IF request[h].kind = "pay" THEN "commit" ELSE "credits"]
          /\ UNCHANGED <<tables, request, number, todo>>
  /\ UNCHANGED <<locked, history, counts>>

(* What bills and sweeps commit has met the credit of their flats.         *)
StillUnswept(h) ==
  IF request[h].kind \in {"bill", "sweep"}
  THEN {b \in unswept : UnitOf[b] \notin request[h].units}
  ELSE unswept \cup wrote[h].balances

Commit(h) ==
  /\ pc[h] = "commit"
  /\ receipts' = SeenReceipts(h)
  /\ invoices' = SeenInvoices(h)
  /\ allocations' = SeenAllocations(h)
  /\ unswept' = StillUnswept(h)
  /\ End(h)
  /\ UNCHANGED <<journal, locked, overlapped, counts>>
------------------------------------------------------------------------------
(* Mutant of TimeOut: a pool without a timeout.                            *)
WaitsForEver(h) == FALSE /\ UNCHANGED vars

(* No connection comes free within connectionTimeoutMillis.                *)
TimeOut(h) ==
  /\ WaitsForConnection(h) /\ ~HasConnection
  /\ Abort(h) /\ UNCHANGED <<locked, history, counts>>

(* The process, or its connection to the database, dies.                   *)
Crash(h) ==
  /\ pc[h] # "idle" /\ crashes < MaxCrashes
  /\ crashes' = crashes + 1
  /\ Abort(h) /\ UNCHANGED <<locked, history, requests>>

(* lockPeriod and reopenPeriod; that the ledger balances, lockPeriod's     *)
(* condition, is so of every entry, as postEntry posts no other.           *)
LockPeriod == locked' = TRUE
ReopenPeriod == locked' = FALSE
Committee ==
  /\ LockPeriod \/ ReopenPeriod
  /\ UNCHANGED <<tables, journal, locals, history, counts>>

(* recordManual, issue (also from the monthly run, which may be repeated), *)
(* applyCredits, for one flat or for all, and the import of a sheet.       *)
Asked ==
  {Request("pay", p, {UnitOf[p]}) : p \in Payments}
  \cup {Request("bill", b, {b[1]}) : b \in Bills}
  \cup {Request("sweep", None, units) : units \in {{u} : u \in Units} \cup {Units}}
  \cup {Request("import", None, FlatsOf(sheet)) : sheet \in (SUBSET Balances) \ {{}}}

Step(h) ==
  \/ FastPath(h) \/ CheckBilled(h) \/ ReadNumber(h) \/ Insert(h)
  \/ OpenSheet(h) \/ Import(h)
  \/ ReadCredits(h) \/ ReadInvoices(h) \/ Allocate(h) \/ UpdateStatus(h)
  \/ ReadPeriod(h) \/ PostEntry(h) \/ Commit(h) \/ TimeOut(h)

Next ==
  \/ \E h \in Handlers : Step(h) \/ Crash(h) \/ \E r \in Asked : Start(h, r)
  \/ Committee

Spec == Init /\ [][Next]_vars

(* A handler that can go on does, and the pool gives up waiting in time.   *)
FairSpec == Spec /\ \A h \in Handlers : WF_vars(Step(h))
------------------------------------------------------------------------------
Idle(h) == pc[h] = "idle"
Steps == {"idle", "begin", "number", "insert", "import", "credits", "invoices", "allocate",
          "status", "period", "post", "commit"}
Sources == Payments \cup Bills
Statuses == {"issued", "partially_paid", "paid"}
Rows == [receipt : Nat, invoice : Int, amount : Nat]

(* The shapes of the tables and of what a handler holds.                   *)
TypeOK ==
  /\ receipts \subseteq [number : Nat, source : Payments, entry : Nat]
  /\ invoices \subseteq
       [number : Int, source : Bills \cup Balances, entry : Nat, status : Statuses]
  /\ allocations \in Seq(Rows)
  /\ journal \subseteq [number : Nat, source : Sources, amount : Nat]
  /\ locked \in BOOLEAN /\ overlapped \in BOOLEAN /\ unswept \subseteq Balances
  /\ pc \in [Handlers -> Steps]
  /\ \A h \in Handlers : request[h] \in Asked \cup {NoRequest}
  /\ number \in [Handlers -> Nat]
  /\ \A h \in Handlers :
       /\ wrote[h].number \in Nat /\ wrote[h].entry \in Nat
       /\ wrote[h].allocations \in Seq(Rows)
       /\ wrote[h].balances \subseteq Balances
       /\ \A n \in DOMAIN wrote[h].status : n \in Int /\ wrote[h].status[n] \in Statuses
  /\ requests \in Nat /\ crashes \in Nat

(* "An invoice without a ledger entry is money that exists on a bill but   *)
(* not in the books": every receipt and every bill that anybody can see    *)
(* has an entry of its amount, and no two share one.  Opening balances     *)
(* have none, though they are said to flow "through the same ledger"       *)
(* (migration.service.ts:287-288); they are left out here.                 *)
Vouchers == receipts \cup Billed
DocumentsAreInTheBooks ==
  /\ \A d \in Vouchers :
       \E e \in journal : e.number = d.entry /\ e.source = d.source
                          /\ e.amount = Amount(d.source)
  /\ \A d, c \in Vouchers : d.entry = c.entry => d = c

(* However often a payment is sent in, and by however many at once, it has *)
(* one receipt.                                                            *)
OneReceiptPerPayment ==
  \A r, s \in receipts : r.source = s.source => r = s

(* Receipts, bills and entries are numbered 1, 2, 3, ... with nothing      *)
(* missing and nothing twice, whatever was rolled back or imported in      *)
(* between: what an auditor looks at first.                                *)
Consecutive(rows) == {r.number : r \in rows} = 1 .. Cardinality(rows)
NumbersHaveNoGaps ==
  Consecutive(receipts) /\ Consecutive(Billed) /\ Consecutive(journal)

(* As long as no two transactions of a flat overlap: no receipt is applied *)
(* beyond its amount, no invoice is paid beyond its total, and an invoice  *)
(* of any amount says paid, or partially paid, when it is.                 *)
AllocationsFit ==
  ~overlapped =>
    /\ \A r \in receipts : Spare(allocations, r) >= 0
    /\ \A i \in invoices :
         /\ Due(allocations, i) >= 0
         /\ (i.status = "paid") = (Amount(i.source) > 0 /\ Due(allocations, i) = 0)
         /\ (i.status = "issued") = (PaidIn(allocations, i.number) = 0)

(* ... a flat is billed once for a month, and an opening balance is        *)
(* brought over once, though the run or the import is repeated ...         *)
OneBillPerMonth ==
  ~overlapped => \A i, j \in invoices : i.source = j.source => i = j

(* ... and whenever nothing is under way for a flat it does not both owe   *)
(* and be owed: credit has met the bills, in whatever order money, bills,  *)
(* failures and sweeps came.  The import sweeps nothing: an opening        *)
(* balance meets the credit that was there with the flat's next bill or    *)
(* sweep, and not before.                                                  *)
CreditMeetsTheNextBill ==
  ~overlapped =>
    \A r \in receipts, i \in invoices :
      UnitOf[r.source] = UnitOfBill(i) =>
        Spare(allocations, r) = 0 \/ Due(allocations, i) = 0 \/ i.source \in unswept

(* A request ends, one way or the other, also when every connection of the *)
(* pool is held by a request that waits for a second one.                  *)
EveryRequestEnds == \A h \in Handlers : ~Idle(h) ~> Idle(h)

(* "The receipt, its allocations and the journal entry are one             *)
(* transaction", "Both or neither": when nothing is under way, every entry *)
(* belongs to a receipt or an invoice.                                     *)
BothOrNeither ==
  (\A h \in Handlers : Idle(h)) =>
    \A e \in journal : \E d \in Vouchers : d.entry = e.number
==============================================================================
