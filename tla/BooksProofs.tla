----------------------------- MODULE BooksProofs -----------------------------
(***************************************************************************)
(* What the books keep for any number of requests at once, of flats,       *)
(* months and payments, with any pool and any number of crashes: no gap in *)
(* the numbers, one receipt for a payment, an entry for every document,    *)
(* nothing allocated beyond what there is, and no flat that owes and is    *)
(* owed.                                                                   *)
(***************************************************************************)
EXTENDS Books, WellFoundedInduction, FiniteSetTheorems, TLAPS

(* Rows numbered 1 .. k, each number once.                                 *)
Numbered(rows, k) ==
  /\ k \in Nat
  /\ \A r \in rows : r.number \in 1 .. k
  /\ \A n \in 1 .. k : \E r \in rows : r.number = n
  /\ \A r, s \in rows : r.number = s.number => r = s

LEMMA NumberedRows ==
  ASSUME NEW rows, NEW k, Numbered(rows, k)
  PROVE  IsFiniteSet(rows) /\ Cardinality(rows) = k /\ Consecutive(rows)
<1> DEFINE f == [n \in 1 .. k |-> CHOOSE r \in rows : r.number = n]
<1>1. \A n \in 1 .. k : f[n] \in rows /\ f[n].number = n
  BY DEF Numbered
<1>2. f \in Bijection(1 .. k, rows)
  <2>1. f \in [1 .. k -> rows]
    BY <1>1
  <2>2. \A n, m \in 1 .. k : f[n] = f[m] => n = m
    BY <1>1
  <2>3. \A r \in rows : \E n \in 1 .. k : f[n] = r
    BY <1>1 DEF Numbered
  <2> QED
    BY <2>1, <2>2, <2>3, Zenon DEF Bijection, Injection, Surjection, IsInjective
<1>3. IsFiniteSet(1 .. k) /\ Cardinality(1 .. k) = k
  BY FS_Interval DEF Numbered
<1>4. ExistsBijection(1 .. k, rows)
  BY <1>2 DEF ExistsBijection
<1>5. IsFiniteSet(rows) /\ Cardinality(rows) = k
  BY <1>3, <1>4, FS_Bijection
<1>6. {r.number : r \in rows} = 1 .. k
  BY DEF Numbered
<1> QED
  BY <1>5, <1>6 DEF Consecutive

LEMMA OneMore ==
  ASSUME NEW rows, NEW k, Numbered(rows, k), NEW r, r.number = k + 1
  PROVE  Numbered(rows \cup {r}, k + 1)
BY DEF Numbered

------------------------------------------------------------------------------
(* Where a handler can be, and what it has written by then.                *)
Documents(h) == request[h].kind \in {"pay", "bill"}
NothingYet == {"idle", "begin", "number", "insert", "import"}

Control(h) ==
  /\ DOMAIN wrote[h] = {"number", "entry", "allocations", "status", "balances"}
  /\ wrote[h].number \in Nat /\ wrote[h].entry \in Nat /\ wrote[h].balances \subseteq Balances
  /\ pc[h] \in NothingYet => wrote[h].number = 0 /\ wrote[h].entry = 0
  /\ pc[h] \in {"number", "insert", "period", "post", "credits"} => Documents(h)
  /\ pc[h] = "import" => request[h].kind = "import"
  /\ pc[h] \in {"insert", "post"} => number[h] # 0
  /\ Documents(h) /\ pc[h] \notin NothingYet => wrote[h].number # 0
  /\ Documents(h) /\ pc[h] = "commit" => wrote[h].entry # 0
  /\ request[h].kind = "bill" /\ pc[h] \in {"credits", "invoices", "allocate", "status"}
       => wrote[h].entry # 0
  /\ request[h].kind = "pay" => pc[h] # "credits"

Typed ==
  /\ pc \in [Handlers -> Steps]
  /\ request \in [Handlers -> Asked \cup {NoRequest}]
  /\ number \in [Handlers -> Nat]
  /\ DOMAIN wrote = Handlers

ControlInv == Typed /\ \A h \in Handlers : Control(h)

(* The tables are numbered without a gap, no payment has two receipts and  *)
(* every document has its entry.                                           *)
TablesInv ==
  /\ Numbered(receipts, Cardinality(receipts))
  /\ Numbered(Billed, Cardinality(Billed))
  /\ Numbered(journal, Cardinality(journal))
  /\ \A r \in receipts : r.source \in Payments
  /\ \A i \in invoices :
       /\ DOMAIN i = {"number", "source", "entry", "status"} /\ i.number \in Int
       /\ i.number > 0 => i.source \in Bills
  /\ OneReceiptPerPayment
  /\ DocumentsAreInTheBooks

(* A number that was read is free or taken, never beyond the next one; a   *)
(* row that waits to be committed has the next number; an entry that is    *)
(* posted belongs to this handler's document and to no other.              *)
RowsOf(h) == IF request[h].kind = "pay" THEN receipts ELSE Billed

Uncommitted(h) ==
  /\ pc[h] = "insert" => number[h] \in 1 .. Cardinality(RowsOf(h)) + 1
  /\ pc[h] = "post" => number[h] \in 1 .. Cardinality(journal) + 1
  /\ Documents(h) /\ wrote[h].number # 0 =>
       /\ wrote[h].number = Cardinality(RowsOf(h)) + 1
       /\ request[h].kind = "pay" => \A r \in receipts : r.source # request[h].source
  /\ wrote[h].entry # 0 =>
       /\ \E e \in journal : e.number = wrote[h].entry /\ e.source = request[h].source
                              /\ e.amount = Amount(request[h].source)
       /\ \A d \in receipts \cup Billed : d.entry # wrote[h].entry

Apart(g, h) ==
  /\ Documents(g) /\ request[g].kind = request[h].kind =>
       wrote[g].number = 0 \/ wrote[h].number = 0
  /\ wrote[g].entry # 0 => wrote[g].entry # wrote[h].entry

UncommittedInv ==
  /\ \A h \in Handlers : Uncommitted(h)
  /\ \A g, h \in Handlers : g # h => Apart(g, h)

IInv == ControlInv /\ TablesInv /\ UncommittedInv
------------------------------------------------------------------------------
(* What a step does to the numbers, the rows and the entries.              *)
Others(h) ==
  \A g \in Handlers \ {h} :
    /\ pc'[g] = pc[g] /\ request'[g] = request[g]
    /\ number'[g] = number[g] /\ wrote'[g] = wrote[g]

Still ==
  /\ receipts' = receipts /\ invoices' = invoices /\ journal' = journal
  /\ Billed' = Billed
Reads(h) == pc'[h] \in {"insert", "post"}

Moves(h) ==
  /\ Others(h) /\ Still /\ ~Reads(h)
  /\ request'[h] = request[h]
  /\ wrote'[h].number = wrote[h].number /\ wrote'[h].entry = wrote[h].entry

Clears(h) ==
  /\ Others(h) /\ Still /\ ~Reads(h)
  /\ wrote'[h].number = 0 /\ wrote'[h].entry = 0

Draws(h) ==
  /\ Others(h) /\ Still
  /\ request'[h] = request[h] /\ wrote'[h] = wrote[h]
  /\ \/ pc'[h] = "insert" /\ number'[h] = Cardinality(RowsOf(h)) + 1
     \/ pc'[h] = "post" /\ number'[h] = Cardinality(journal) + 1

Inserts(h) ==
  /\ Others(h) /\ Still /\ ~Reads(h)
  /\ pc[h] = "insert" /\ ~MustWait(h) /\ ~IsDuplicate(h)
  /\ request'[h] = request[h]
  /\ wrote'[h].number = number[h] /\ wrote'[h].entry = 0

Posts(h) ==
  /\ Others(h) /\ receipts' = receipts /\ invoices' = invoices /\ ~Reads(h)
  /\ pc[h] = "post" /\ \A e \in journal : e.number # number[h]
  /\ journal' = journal \cup {[number |-> number[h], source |-> request[h].source,
                               amount |-> Amount(request[h].source)]}
  /\ request'[h] = request[h]
  /\ wrote'[h].number = wrote[h].number /\ wrote'[h].entry = number[h]

Commits(h) ==
  /\ Others(h) /\ journal' = journal /\ ~Reads(h)
  /\ pc[h] = "commit" /\ pc'[h] = "idle"
  /\ receipts' = SeenReceipts(h) /\ invoices' = SeenInvoices(h)
  /\ wrote'[h].number = 0 /\ wrote'[h].entry = 0

Effect(h) ==
  Moves(h) \/ Clears(h) \/ Draws(h) \/ Inserts(h) \/ Posts(h) \/ Commits(h)

LEMMA Greatest ==
  ASSUME NEW k \in Nat, k \in 1 .. k
  PROVE  Max(1 .. k) = k
<1>1. \E x \in 1 .. k : \A y \in 1 .. k : x >= y
  OBVIOUS
<1>2. Max(1 .. k) \in 1 .. k /\ \A y \in 1 .. k : Max(1 .. k) >= y
  BY <1>1, Zenon DEF Max
<1> QED
  BY <1>2

(* The number a receipt is given next.                                     *)
LEMMA NextNumbers ==
  ASSUME TablesInv
  PROVE  /\ NextReceiptNumber = Cardinality(receipts) + 1
         /\ Cardinality(receipts) \in Nat /\ Cardinality(Billed) \in Nat
         /\ Cardinality(journal) \in Nat
<1>1. /\ Cardinality(receipts) \in Nat /\ Cardinality(Billed) \in Nat
      /\ Cardinality(journal) \in Nat
  BY DEF TablesInv, Numbered
<1>2. {r.number : r \in receipts} = 1 .. Cardinality(receipts)
  BY DEF TablesInv, Numbered
<1>3. CASE receipts = {}
  <2>1. Cardinality(receipts) = 0
    BY <1>3, FS_EmptySet
  <2>2. NextReceiptNumber = 1
    BY <1>3, Zenon DEF NextReceiptNumber
  <2> QED
    BY <1>1, <2>1, <2>2
<1>4. CASE receipts # {}
  <2>1. Cardinality(receipts) \in {r.number : r \in receipts}
    BY <1>1, <1>2, <1>4
  <2>2. Max({r.number : r \in receipts}) = Cardinality(receipts)
    BY <1>1, <1>2, <2>1, Greatest
  <2>3. NextReceiptNumber = Max({r.number : r \in receipts}) + 1
    BY <1>4, Zenon DEF NextReceiptNumber
  <2> QED
    BY <1>1, <2>2, <2>3
<1> QED
  BY <1>1, <1>3, <1>4, Zenon

LEMMA Kinds ==
  ASSUME NEW r, r \in Asked \cup {NoRequest}
  PROVE  /\ r.kind = "pay" => r.source \in Payments /\ r.units = {UnitOf[r.source]}
         /\ r.kind = "bill" => r.source \in Bills /\ r.units = {r.source[1]}
BY DEF Asked, NoRequest, Request
------------------------------------------------------------------------------
(* One action after another: what it does, and where it leaves its handler.*)
Done(h) == Effect(h) /\ Others(h) /\ Typed' /\ Control(h)'

LEMMA Ending ==
  ASSUME ControlInv, NEW h \in Handlers, End(h), Still
  PROVE  Done(h)
<1>1. Typed' /\ Others(h)
  BY DEF ControlInv, Typed, End, Others, Steps
<1>2. /\ pc'[h] = "idle" /\ request'[h] = NoRequest /\ wrote'[h] = NothingWritten
  BY DEF ControlInv, Typed, End
<1>3. Control(h)'
  BY <1>2 DEF Control, NothingWritten, NothingYet, NoRequest, Request, Documents
<1>4. Clears(h)
  BY <1>1, <1>2 DEF Clears, NothingWritten, Reads
<1> QED
  BY <1>1, <1>3, <1>4 DEF Done, Effect

(* A step that only moves on, with no new row and no new entry.            *)
SameRows(h) ==
  /\ DOMAIN wrote' = Handlers
  /\ \A g \in Handlers \ {h} : wrote'[g] = wrote[g]
  /\ DOMAIN wrote'[h] = {"number", "entry", "allocations", "status", "balances"}
  /\ wrote'[h].number = wrote[h].number /\ wrote'[h].entry = wrote[h].entry
  /\ wrote'[h].balances \subseteq Balances

LEMMA Moving ==
  ASSUME ControlInv, NEW h \in Handlers, NEW step \in Steps, Goto(h, step),
         UNCHANGED number, SameRows(h), step = "import" => request[h].kind = "import",
         step \notin {"insert", "post"},
         step \in {"number", "period"} => Documents(h),
         Documents(h) => (pc[h] \in NothingYet) = (step \in NothingYet),
         pc[h] \notin NothingYet => step \notin NothingYet,
         Documents(h) /\ step = "commit" => wrote[h].entry # 0,
         request[h].kind = "bill" /\ step \in {"credits", "invoices", "allocate", "status"}
           => wrote[h].entry # 0,
         step # "credits"
  PROVE  Done(h)
<1>1. Typed' /\ Others(h)
  BY DEF ControlInv, Typed, Goto, Others, SameRows
<1>2. pc'[h] = step /\ request' = request
  BY DEF ControlInv, Typed, Goto
<1>3. Control(h)'
  BY <1>2 DEF ControlInv, Control, Documents, NothingYet, SameRows
<1>4. Moves(h)
  BY <1>1, <1>2 DEF Moves, Reads, Still, Billed, Goto, tables, SameRows
<1> QED
  BY <1>1, <1>3, <1>4 DEF Done, Effect

LEMMA Untouched ==
  ASSUME ControlInv, NEW h \in Handlers, UNCHANGED wrote
  PROVE  SameRows(h)
BY DEF ControlInv, Typed, Control, SameRows

LEMMA StartEffect ==
  ASSUME IInv, NEW h \in Handlers, NEW r \in Asked, Start(h, r)
  PROVE  Done(h)
<1>1. Typed' /\ Others(h)
  BY DEF IInv, ControlInv, Typed, Start, Others, Steps
<1>2. pc'[h] = "begin" /\ wrote'[h] = wrote[h] /\ pc[h] = "idle"
  BY DEF IInv, ControlInv, Typed, Start
<1>3. Control(h)'
  BY <1>2 DEF IInv, ControlInv, Control, NothingYet, Documents
<1>4. Clears(h)
  BY <1>1, <1>2 DEF IInv, ControlInv, Control, Clears, Still, Billed, Start, tables, NothingYet, Reads
<1> QED
  BY <1>1, <1>3, <1>4 DEF Done, Effect

LEMMA FastPathEffect ==
  ASSUME IInv, NEW h \in Handlers, FastPath(h) \/ CheckBilled(h)
  PROVE  Done(h)
<1>1. CASE Abort(h)
  BY <1>1, Ending DEF IInv, Abort, Still, Billed, tables
<1>2. CASE Goto(h, "number") /\ UNCHANGED <<number, wrote, todo>>
  BY <1>2, Moving, Untouched DEF IInv, FastPath, CheckBilled, Steps, NothingYet, Documents
<1> QED
  BY <1>1, <1>2 DEF FastPath, CheckBilled

LEMMA ReadNumberEffect ==
  ASSUME IInv, NEW h \in Handlers, ReadNumber(h)
  PROVE  Done(h)
<1>1. /\ pc'[h] = "insert" /\ request' = request /\ wrote' = wrote /\ Documents(h)
      /\ number'[h] = Cardinality(RowsOf(h)) + 1
  BY NextNumbers
     DEF IInv, ControlInv, Typed, ReadNumber, Goto, Documents, RowsOf, NextInvoiceNumber
<1>2. Typed' /\ Others(h) /\ Still
  <2>1. number' = [number EXCEPT ![h] = Cardinality(RowsOf(h)) + 1]
    BY NextNumbers DEF IInv, ReadNumber, RowsOf, NextInvoiceNumber
  <2> QED
    BY <2>1, NextNumbers
       DEF IInv, ControlInv, Typed, ReadNumber, Goto, Others, Still, Billed, tables, Steps, RowsOf
<1>3. Cardinality(RowsOf(h)) \in Nat
  BY NextNumbers DEF IInv, RowsOf
<1>4. Control(h)'
  BY <1>1, <1>3 DEF IInv, ControlInv, Control, ReadNumber, Documents, NothingYet
<1>5. Draws(h)
  BY <1>1, <1>2 DEF Draws
<1> QED
  BY <1>2, <1>4, <1>5 DEF Done, Effect

LEMMA InsertEffect ==
  ASSUME IInv, NEW h \in Handlers, Insert(h)
  PROVE  Done(h)
<1>1. CASE Abort(h)
  BY <1>1, Ending DEF IInv, Abort, Still, Billed, tables
<1>2. CASE ~IsDuplicate(h)
  <2>1. PICK step \in {"invoices", "period"} :
          /\ Goto(h, step) /\ (step = "invoices") = (request[h].kind = "pay")
    BY <1>2 DEF Insert
  <2>2. /\ number' = number /\ ~MustWait(h) /\ pc[h] = "insert"
        /\ wrote' = [wrote EXCEPT ![h] = [NothingWritten EXCEPT !.number = number[h]]]
    BY <1>2 DEF Insert
  <2>3. /\ wrote'[h] = [number |-> number[h], entry |-> 0,
                        allocations |-> <<>>, status |-> <<>>, balances |-> {}]
        /\ pc'[h] = step /\ request' = request
    BY <2>1, <2>2 DEF NothingWritten, Goto, IInv, ControlInv, Typed
  <2>4. Typed' /\ Others(h) /\ Still
    BY <2>1, <2>2 DEF IInv, ControlInv, Typed, Goto, Others, Still, Billed, tables, Steps
  <2>5. number[h] \in Nat /\ Control(h)
    BY DEF IInv, ControlInv, Typed
  <2>6. Control(h)'
    BY <2>1, <2>2, <2>3, <2>5 DEF Control, Documents, NothingYet
  <2>7. Inserts(h)
    BY <1>2, <2>1, <2>2, <2>3, <2>4 DEF Inserts, Reads
  <2> QED
    BY <2>4, <2>6, <2>7 DEF Done, Effect
<1> QED
  BY <1>1, <1>2 DEF Insert

LEMMA ImportEffect ==
  ASSUME IInv, NEW h \in Handlers, OpenSheet(h) \/ Import(h)
  PROVE  Done(h)
<1>1. CASE OpenSheet(h)
  BY <1>1, Moving, Untouched DEF IInv, OpenSheet, Steps, NothingYet, Documents
<1>2. CASE Abort(h)
  BY <1>2, Ending DEF IInv, Abort, Still, Billed, tables
<1>3. ASSUME Import(h), NEW sheet \in SUBSET Balances, Goto(h, "commit"),
             UNCHANGED number, wrote' = [wrote EXCEPT ![h].balances = sheet]
      PROVE  Done(h)
  <2>1. SameRows(h)
    BY <1>3 DEF SameRows, IInv, ControlInv, Typed, Control
  <2>2. ~Documents(h) /\ pc[h] = "import" /\ "commit" \in Steps
    BY <1>3 DEF Import, IInv, ControlInv, Control, Documents, Steps
  <2>3. Goto(h, "commit") /\ UNCHANGED number
    BY <1>3
  <2>4. ControlInv
    BY DEF IInv
  <2> QED
    BY <2>1, <2>2, <2>3, <2>4, Moving DEF NothingYet, Documents
<1>4. CASE Import(h)
  <2>1. Abort(h) \/ \E sheet \in SUBSET Balances :
          /\ Goto(h, "commit") /\ UNCHANGED number
          /\ wrote' = [wrote EXCEPT ![h].balances = sheet]
    BY <1>4, Zenon DEF Import
  <2> QED
    BY <1>2, <1>3, <1>4, <2>1
<1> QED
  BY <1>1, <1>4

LEMMA ReadCreditsEffect ==
  ASSUME IInv, NEW h \in Handlers, ReadCredits(h)
  PROVE  Done(h)
<1>1. PICK step \in {"commit", "invoices"} : Goto(h, step)
  BY DEF ReadCredits, Sweep
<1>2. UNCHANGED <<number, wrote>>
  BY DEF ReadCredits, Sweep
<1>3. pc[h] = "credits" \/ ~Documents(h)
  BY DEF ReadCredits, Documents
<1> QED
  BY <1>1, <1>2, <1>3, Moving, Untouched
     DEF IInv, ControlInv, Control, Steps, NothingYet, Documents

LEMMA NextCreditEffect ==
  ASSUME IInv, NEW h \in Handlers, NextCredit(h), UNCHANGED number, SameRows(h),
         pc[h] \in {"invoices", "status"}
  PROVE  Done(h)
<1>1. PICK step \in {"period", "commit", "invoices"} :
        Goto(h, step) /\ (step = "period" => request[h].kind = "pay")
                      /\ (step = "commit" => request[h].kind # "pay")
  BY DEF NextCredit, AfterAllocating
<1> QED
  BY <1>1, Moving DEF IInv, ControlInv, Control, Steps, NothingYet, Documents

LEMMA AllocateEffect ==
  ASSUME IInv, NEW h \in Handlers, ReadInvoices(h) \/ Allocate(h) \/ UpdateStatus(h)
  PROVE  Done(h)
<1>1. pc[h] \in {"invoices", "allocate", "status"} /\ UNCHANGED number
  BY DEF ReadInvoices, Allocate, UpdateStatus
<1>2. SameRows(h)
  <2>1. CASE ReadInvoices(h)
    BY <2>1, Untouched DEF IInv, ReadInvoices
  <2>2. CASE Allocate(h)
    BY <2>2 DEF Allocate, SameRows, IInv, ControlInv, Typed, Control
  <2>3. CASE UpdateStatus(h)
    BY <2>3 DEF UpdateStatus, SameRows, IInv, ControlInv, Typed, Control
  <2> QED
    BY <2>1, <2>2, <2>3
<1>3. CASE NextCredit(h) /\ ~Allocate(h)
  BY <1>1, <1>2, <1>3, NextCreditEffect DEF ReadInvoices, UpdateStatus
<1>4. CASE \E step \in {"allocate", "status"} : Goto(h, step)
  BY <1>1, <1>2, <1>4, Moving
     DEF IInv, ControlInv, Control, Steps, NothingYet, Documents
<1> QED
  BY <1>3, <1>4 DEF ReadInvoices, Allocate, UpdateStatus

LEMMA ReadPeriodEffect ==
  ASSUME IInv, NEW h \in Handlers, ReadPeriod(h)
  PROVE  Done(h)
<1>1. CASE Abort(h)
  BY <1>1, Ending DEF IInv, Abort, Still, Billed, tables
<1>2. CASE Goto(h, "post") /\ number' = [number EXCEPT ![h] = NextEntryNumber]
  <2>1. /\ pc'[h] = "post" /\ request' = request /\ wrote' = wrote /\ pc[h] = "period"
        /\ number'[h] = Cardinality(journal) + 1 /\ Cardinality(journal) \in Nat
    BY <1>2, NextNumbers
       DEF IInv, ControlInv, Typed, ReadPeriod, Goto, Abort, End, NextEntryNumber, Steps
  <2>2. Typed' /\ Others(h) /\ Still
    BY <1>2, <2>1, NextNumbers
       DEF IInv, ControlInv, Typed, Goto, Others, Still, Billed, tables, Steps, NextEntryNumber
  <2>3. Control(h)'
    BY <2>1 DEF IInv, ControlInv, Control, Documents, NothingYet
  <2>4. Draws(h)
    BY <2>1, <2>2 DEF Draws
  <2> QED
    BY <2>2, <2>3, <2>4 DEF Done, Effect
<1> QED
  BY <1>1, <1>2 DEF ReadPeriod

LEMMA PostEntryEffect ==
  ASSUME IInv, NEW h \in Handlers, PostEntry(h)
  PROVE  Done(h)
<1>1. CASE Abort(h)
  BY <1>1, Ending DEF IInv, Abort, Still, Billed, tables
<1>2. CASE \A e \in journal : e.number # number[h]
  <2>1. /\ pc[h] = "post" /\ number' = number /\ request' = request
        /\ wrote' = [wrote EXCEPT ![h].entry = number[h]]
        /\ pc' = [pc EXCEPT ![h] = IF request[h].kind = "pay" THEN "commit" ELSE "credits"]
        /\ receipts' = receipts /\ invoices' = invoices
        /\ journal' = journal \cup {[number |-> number[h], source |-> request[h].source,
                                     amount |-> Amount(request[h].source)]}
    BY <1>2 DEF PostEntry, tables
  <2>2. /\ wrote'[h].number = wrote[h].number /\ wrote'[h].entry = number[h]
        /\ DOMAIN wrote'[h] = {"number", "entry", "allocations", "status", "balances"}
        /\ pc'[h] = IF request[h].kind = "pay" THEN "commit" ELSE "credits"
    BY <2>1 DEF IInv, ControlInv, Typed, Control
  <2>3. Typed' /\ Others(h)
    BY <2>1 DEF IInv, ControlInv, Typed, Others, Steps
  <2>4. Control(h)'
    BY <2>1, <2>2 DEF IInv, ControlInv, Typed, Control, Documents, NothingYet
  <2>5. Posts(h)
    BY <1>2, <2>1, <2>2, <2>3 DEF Posts, Reads
  <2> QED
    BY <2>3, <2>4, <2>5 DEF Done, Effect
<1> QED
  BY <1>1, <1>2 DEF PostEntry

LEMMA CommitEffect ==
  ASSUME IInv, NEW h \in Handlers, Commit(h)
  PROVE  Done(h)
<1>1. Typed' /\ Others(h)
  BY DEF IInv, ControlInv, Typed, Commit, End, Others, Steps
<1>2. /\ pc'[h] = "idle" /\ request'[h] = NoRequest /\ wrote'[h] = NothingWritten
  BY DEF IInv, ControlInv, Typed, Commit, End
<1>3. Control(h)'
  BY <1>2 DEF Control, NothingWritten, NothingYet, NoRequest, Request, Documents
<1>4. Commits(h)
  BY <1>1, <1>2 DEF Commits, Commit, NothingWritten, Reads
<1> QED
  BY <1>1, <1>3, <1>4 DEF Done, Effect

LEMMA AbortEffect ==
  ASSUME IInv, NEW h \in Handlers, TimeOut(h) \/ Crash(h)
  PROVE  Done(h)
BY Ending DEF IInv, TimeOut, Crash, Abort, Still, Billed, tables

(* Every step of a handler has one of the effects, and the next state is   *)
(* one its control allows.                                                 *)
LEMMA HandlerSteps ==
  ASSUME IInv, NEW h \in Handlers,
         Step(h) \/ Crash(h) \/ \E r \in Asked : Start(h, r)
  PROVE  Effect(h) /\ Others(h) /\ ControlInv'
<1>1. Done(h)
  BY FastPathEffect, ReadNumberEffect, ImportEffect, InsertEffect, ReadCreditsEffect, AllocateEffect,
     ReadPeriodEffect, PostEntryEffect, CommitEffect, AbortEffect, StartEffect DEF Step
<1>2. ASSUME NEW g \in Handlers PROVE Control(g)'
  <2>1. CASE g = h
    BY <1>1, <2>1 DEF Done
  <2>2. CASE g # h
    BY <1>1, <2>2 DEF Done, Others, IInv, ControlInv, Control, Documents
  <2> QED
    BY <2>1, <2>2
<1> QED
  BY <1>1, <1>2 DEF Done, ControlInv
------------------------------------------------------------------------------
(* The effects keep the tables in order.                                   *)
LEMMA QuietData ==
  ASSUME IInv, NEW h \in Handlers, Moves(h) \/ Clears(h) \/ Draws(h) \/ Inserts(h)
  PROVE  TablesInv'
<1>1. Still
  BY DEF Moves, Clears, Draws, Inserts
<1> QED
  BY <1>1 DEF IInv, Still, TablesInv, OneReceiptPerPayment, DocumentsAreInTheBooks, Vouchers

LEMMA QuietUncommitted ==
  ASSUME IInv, NEW h \in Handlers, Moves(h) \/ Clears(h) \/ Draws(h)
  PROVE  UncommittedInv'
<1>1. Still /\ Others(h)
  BY DEF Moves, Clears, Draws
<1>2. /\ Cardinality(receipts) \in Nat /\ Cardinality(Billed) \in Nat
      /\ Cardinality(journal) \in Nat
  BY NextNumbers DEF IInv
<1>3. ASSUME NEW g \in Handlers PROVE Uncommitted(g)'
  <2>1. CASE g # h
    BY <1>1, <2>1 DEF IInv, UncommittedInv, Uncommitted, Others, Still, RowsOf, Documents
  <2>2. CASE g = h /\ Draws(h)
    BY <1>1, <1>2, <2>2
       DEF IInv, UncommittedInv, Uncommitted, Draws, Still, RowsOf, Documents
  <2>3. CASE g = h /\ Moves(h)
    BY <1>1, <2>3
       DEF IInv, UncommittedInv, Uncommitted, Moves, Reads, Still, RowsOf, Documents
  <2>4. CASE g = h /\ Clears(h)
    BY <2>4 DEF Uncommitted, Clears, Reads
  <2> QED
    BY <2>1, <2>2, <2>3, <2>4
<1>4. ASSUME NEW f \in Handlers, NEW g \in Handlers, f # g PROVE Apart(f, g)'
  <2>1. Apart(f, g) /\ Apart(g, f)
    BY <1>4 DEF IInv, UncommittedInv
  <2>2. CASE Clears(h)
    BY <1>4, <2>1, <2>2 DEF Apart, Clears, Others, Documents
  <2>3. CASE Moves(h) \/ Draws(h)
    BY <1>1, <1>4, <2>1, <2>3 DEF Apart, Moves, Draws, Others, Documents
  <2> QED
    BY <2>2, <2>3
<1> QED
  BY <1>3, <1>4 DEF UncommittedInv

LEMMA InsertsUncommitted ==
  ASSUME IInv, NEW h \in Handlers, Inserts(h)
  PROVE  UncommittedInv'
<1>1. Still /\ Others(h) /\ Documents(h)
  BY DEF Inserts, IInv, ControlInv, Control
<1>2. Cardinality(RowsOf(h)) \in Nat
  BY NextNumbers DEF IInv, RowsOf
<1>3. number[h] = Cardinality(RowsOf(h)) + 1
  <2>1. number[h] \in 1 .. Cardinality(RowsOf(h)) + 1
    BY DEF IInv, UncommittedInv, Uncommitted, Inserts
  <2>2. \A row \in RowsOf(h) : row.number # number[h]
    BY DEF Inserts, IsDuplicate, Clashes, RowsOf, Billed
  <2>3. Numbered(RowsOf(h), Cardinality(RowsOf(h)))
    BY DEF IInv, TablesInv, RowsOf
  <2> QED
    BY <1>2, <2>1, <2>2, <2>3 DEF Numbered
<1>4. request[h].kind = "pay" => \A r \in receipts : r.source # request[h].source
  BY DEF Inserts, IsDuplicate, Clashes
<1>5. \A g \in Handlers \ {h} :
        request[g].kind = request[h].kind => wrote[g].number = 0
  <2>1. \A g \in Handlers \ {h} :
          request[g].kind = request[h].kind /\ wrote[g].number # 0 =>
            wrote[g].number # number[h]
    BY DEF Inserts, MustWait, Clashes
  <2>2. \A g \in Handlers :
          request[g].kind = request[h].kind /\ wrote[g].number # 0 =>
            wrote[g].number = Cardinality(RowsOf(h)) + 1
    BY <1>1 DEF IInv, UncommittedInv, Uncommitted, RowsOf, Documents
  <2> QED
    BY <1>3, <2>1, <2>2
<1>6. ASSUME NEW g \in Handlers PROVE Uncommitted(g)'
  <2>1. CASE g # h
    BY <1>1, <2>1 DEF IInv, UncommittedInv, Uncommitted, Others, Still, RowsOf, Documents
  <2>2. CASE g = h
    BY <1>1, <1>3, <1>4, <2>2 DEF Uncommitted, Inserts, Reads, Still, RowsOf, Documents
  <2> QED
    BY <2>1, <2>2
<1>7. ASSUME NEW f \in Handlers, NEW g \in Handlers, f # g PROVE Apart(f, g)'
  <2>1. Apart(f, g) /\ Apart(g, f)
    BY <1>7 DEF IInv, UncommittedInv
  <2> QED
    BY <1>1, <1>5, <1>7, <2>1 DEF Apart, Inserts, Others, Documents
<1> QED
  BY <1>6, <1>7 DEF UncommittedInv

(* A posted entry has the next number, so that nobody refers to it yet.    *)
LEMMA PostsPreserves ==
  ASSUME IInv, NEW h \in Handlers, Posts(h)
  PROVE  TablesInv' /\ UncommittedInv'
<1> DEFINE n == Cardinality(journal)
           e == [number |-> number[h], source |-> request[h].source,
                 amount |-> Amount(request[h].source)]
<1>1. n \in Nat /\ Numbered(journal, n)
  BY NextNumbers DEF IInv, TablesInv
<1>2. number[h] = n + 1
  <2>1. number[h] \in 1 .. n + 1
    BY DEF IInv, UncommittedInv, Uncommitted, Posts
  <2> QED
    BY <1>1, <2>1 DEF Posts, Numbered
<1>3. Numbered(journal', n + 1) /\ Cardinality(journal') = n + 1
  <2>1. Numbered(journal \cup {e}, n + 1)
    BY <1>1, <1>2, OneMore
  <2> QED
    BY <2>1, NumberedRows DEF Posts
<1>4. receipts' = receipts /\ invoices' = invoices /\ Billed' = Billed /\ Others(h)
      /\ request'[h] = request[h] /\ journal \subseteq journal' /\ e \in journal'
      /\ wrote'[h].entry = n + 1 /\ wrote'[h].number = wrote[h].number
      /\ pc'[h] \notin {"insert", "post"}
  BY <1>2 DEF Posts, Reads, Billed
<1>5. TablesInv'
  BY <1>3, <1>4 DEF IInv, TablesInv, OneReceiptPerPayment, DocumentsAreInTheBooks, Vouchers
<1>6. /\ \A d \in receipts \cup Billed : d.entry # n + 1
      /\ \A g \in Handlers \ {h} : wrote[g].entry # n + 1
  <2>1. \A f \in journal : f.number # n + 1
    BY <1>1 DEF Numbered
  <2>2. \A d \in receipts \cup Billed : \E f \in journal : f.number = d.entry
    BY DEF IInv, TablesInv, DocumentsAreInTheBooks, Vouchers
  <2>3. \A g \in Handlers : wrote[g].entry # 0 =>
          \E f \in journal : f.number = wrote[g].entry
    BY DEF IInv, UncommittedInv, Uncommitted
  <2> QED
    BY <1>1, <2>1, <2>2, <2>3
<1>7. ASSUME NEW g \in Handlers PROVE Uncommitted(g)'
  <2>1. CASE g # h
    <3>1. Uncommitted(g)
      BY DEF IInv, UncommittedInv
    <3>2. pc'[g] = "post" => number'[g] \in 1 .. Cardinality(journal') + 1
      BY <1>1, <1>3, <1>4, <2>1, <3>1 DEF Uncommitted, Others
    <3> QED
      BY <1>4, <2>1, <3>1, <3>2 DEF Uncommitted, Others, RowsOf, Documents
  <2>2. CASE g = h
    <3>1. Uncommitted(h)
      BY DEF IInv, UncommittedInv
    <3>2. \E f \in journal' : f.number = wrote'[h].entry /\ f.source = request'[h].source
                             /\ f.amount = Amount(request'[h].source)
      BY <1>2, <1>4
    <3> QED
      BY <1>4, <1>6, <2>2, <3>1, <3>2 DEF Uncommitted, RowsOf, Documents
  <2> QED
    BY <2>1, <2>2
<1>8. ASSUME NEW f \in Handlers, NEW g \in Handlers, f # g PROVE Apart(f, g)'
  <2>1. Apart(f, g) /\ Apart(g, f)
    BY <1>8 DEF IInv, UncommittedInv
  <2> QED
    BY <1>1, <1>4, <1>6, <1>8, <2>1 DEF Apart, Others, Documents
<1> QED
  BY <1>5, <1>7, <1>8 DEF UncommittedInv

(* An invoice restated is the same invoice but for its status.             *)
LEMMA Restating ==
  ASSUME NEW h, NEW i, DOMAIN i = {"number", "source", "entry", "status"}
  PROVE  /\ Restated(h, i).number = i.number /\ Restated(h, i).source = i.source
         /\ Restated(h, i).entry = i.entry
         /\ DOMAIN Restated(h, i) = {"number", "source", "entry", "status"}
BY DEF Restated

LEMMA AllRestated ==
  ASSUME NEW h, NEW rows, NEW k, Numbered(rows, k),
         \A i \in rows : DOMAIN i = {"number", "source", "entry", "status"}
  PROVE  Numbered({Restated(h, i) : i \in rows}, k)
BY Restating DEF Numbered

(* The bills after a commit are those before it, restated, and this        *)
(* request's own.                                                          *)
LEMMA BillsRestated ==
  ASSUME IInv, NEW h \in Handlers, Commits(h)
  PROVE  /\ Billed' = {Restated(h, i) : i \in Billed \cup Own(h, "bill", Invoice(h))}
         /\ \A i \in Billed \cup Own(h, "bill", Invoice(h)) :
              i.source \in Bills /\ DOMAIN i = {"number", "source", "entry", "status"}
         /\ \A i \in invoices' :
              /\ DOMAIN i = {"number", "source", "entry", "status"} /\ i.number \in Int
              /\ i.number > 0 => i.source \in Bills
<1> DEFINE own == Own(h, "bill", Invoice(h))
           all == invoices \cup own \cup Imported(h)
           Row(i) == DOMAIN i = {"number", "source", "entry", "status"} /\ i.number \in Int
<1>1. \A i \in invoices : Row(i) /\ (i.number > 0 => i.source \in Bills)
  BY DEF IInv, TablesInv
<1>2. \A i \in own : Row(i) /\ i.number > 0 /\ i.source \in Bills
  <2>1. request[h].kind = "bill" => request[h].source \in Bills
    BY Kinds DEF IInv, ControlInv, Typed
  <2>2. wrote[h].number \in Nat
    BY DEF IInv, ControlInv, Control
  <2> QED
    BY <2>1, <2>2 DEF Own, Invoice
<1>3. \A i \in Imported(h) : Row(i) /\ ~(i.number > 0)
  <2>1. wrote[h].balances \subseteq Balances
    BY DEF IInv, ControlInv, Control
  <2>2. ASSUME NEW b \in Balances PROVE Row(OpeningInvoice(b)) /\ ~(OpeningInvoice(b).number > 0)
    BY BooksAssumption DEF OpeningInvoice
  <2> QED
    BY <2>1, <2>2 DEF Imported
<1> HIDE DEF own
<1>4. \A i \in all : Restated(h, i).number = i.number /\ Restated(h, i).source = i.source
                    /\ DOMAIN Restated(h, i) = {"number", "source", "entry", "status"}
  BY <1>1, <1>2, <1>3, Restating
<1>5. invoices' = {Restated(h, i) : i \in all}
  BY DEF Commits, SeenInvoices, own
<1>6. ASSUME NEW i \in all
      PROVE  (i \in Billed \cup own) = (Restated(h, i).number > 0)
  BY <1>1, <1>2, <1>3, <1>4 DEF Billed
<1>7. Billed' = {Restated(h, i) : i \in Billed \cup own}
  <2>1. Billed' = {i \in invoices' : i.number > 0}
    BY DEF Billed
  <2>2. Billed \cup own \subseteq all
    BY DEF Billed
  <2> QED
    BY <1>5, <1>6, <2>1, <2>2
<1>8. \A i \in Billed \cup own : i.source \in Bills /\ Row(i)
  BY <1>1, <1>2 DEF Billed
<1>9. \A i \in invoices' : Row(i) /\ (i.number > 0 => i.source \in Bills)
  <2>1. ASSUME NEW i \in all
        PROVE  Row(Restated(h, i)) /\ (Restated(h, i).number > 0 => Restated(h, i).source \in Bills)
    BY <1>1, <1>2, <1>3, <1>4, <2>1
  <2> QED
    BY <1>5, <2>1
<1> QED
  BY <1>7, <1>8, <1>9 DEF own

(* What a commit makes of the tables: a row more in one of them at most,   *)
(* and it is the next one.                                                 *)
LEMMA CommitsRows ==
  ASSUME IInv, NEW h \in Handlers, Commits(h)
  PROVE  /\ Numbered(receipts', Cardinality(receipts'))
         /\ Numbered(Billed', Cardinality(Billed'))
         /\ Cardinality(receipts') =
              Cardinality(receipts) + (IF request[h].kind = "pay" THEN 1 ELSE 0)
         /\ Cardinality(Billed') =
              Cardinality(Billed) + (IF request[h].kind = "bill" THEN 1 ELSE 0)
<1> DEFINE j == Cardinality(receipts)
           k == Cardinality(Billed)
           billed == Billed \cup Own(h, "bill", Invoice(h))
<1>1. j \in Nat /\ k \in Nat /\ Numbered(receipts, j) /\ Numbered(Billed, k)
  BY NextNumbers DEF IInv, TablesInv
<1>2. Documents(h) => wrote[h].number # 0 /\ wrote[h].number = Cardinality(RowsOf(h)) + 1
  BY DEF IInv, ControlInv, Control, UncommittedInv, Uncommitted, Commits, NothingYet
<1>3. receipts' = receipts \cup Own(h, "pay", Receipt(h))
  BY DEF Commits, SeenReceipts
<1>4. Numbered(receipts', Cardinality(receipts'))
      /\ Cardinality(receipts') = j + (IF request[h].kind = "pay" THEN 1 ELSE 0)
  <2>1. CASE request[h].kind = "pay"
    <3>1. receipts' = receipts \cup {Receipt(h)} /\ Receipt(h).number = j + 1
      BY <1>2, <1>3, <2>1 DEF Own, Receipt, Documents, RowsOf
    <3>2. Numbered(receipts', j + 1)
      BY <1>1, <3>1, OneMore
    <3> QED
      BY <3>2, NumberedRows, <2>1
  <2>2. CASE request[h].kind # "pay"
    BY <1>1, <1>3, <2>2 DEF Own
  <2> QED
    BY <2>1, <2>2
<1>5. \A i \in billed : DOMAIN i = {"number", "source", "entry", "status"}
  BY BillsRestated
<1>6. Billed' = {Restated(h, i) : i \in billed}
  BY BillsRestated
<1>7. Numbered(Billed', Cardinality(Billed'))
      /\ Cardinality(Billed') = k + (IF request[h].kind = "bill" THEN 1 ELSE 0)
  <2>1. CASE request[h].kind = "bill"
    <3>1. billed = Billed \cup {Invoice(h)} /\ Invoice(h).number = k + 1
      BY <1>2, <2>1 DEF Own, Invoice, Documents, RowsOf
    <3>2. Numbered(billed, k + 1)
      BY <1>1, <3>1, OneMore
    <3>3. Numbered(Billed', k + 1)
      BY <1>5, <1>6, <3>2, AllRestated
    <3> QED
      BY <3>3, NumberedRows, <2>1
  <2>2. CASE request[h].kind # "bill"
    <3>1. billed = Billed
      BY <2>2 DEF Own
    <3>2. Numbered(Billed', k)
      BY <1>1, <1>5, <1>6, <3>1, AllRestated
    <3> QED
      BY <3>2, NumberedRows, <1>1, <2>2
  <2> QED
    BY <2>1, <2>2
<1> QED
  BY <1>4, <1>7

(* Every document seen after a commit was seen, or was this request's own. *)
LEMMA CommitsPreserves ==
  ASSUME IInv, NEW h \in Handlers, Commits(h)
  PROVE  TablesInv' /\ UncommittedInv'
<1> DEFINE A == receipts \cup Own(h, "pay", Receipt(h))
           B == Billed \cup Own(h, "bill", Invoice(h))
<1>1. receipts' = A /\ Billed' = {Restated(h, i) : i \in B} /\ journal' = journal
      /\ Others(h) /\ wrote'[h].number = 0 /\ wrote'[h].entry = 0 /\ ~Reads(h)
  BY BillsRestated DEF Commits, SeenReceipts
<1>2. /\ request[h].kind = "pay" => request[h].source \in Payments
      /\ request[h].kind = "bill" => request[h].source \in Bills
  BY Kinds DEF IInv, ControlInv, Typed
<1>3. Documents(h) => wrote[h].number # 0 /\ wrote[h].entry # 0
  BY DEF IInv, ControlInv, Control, Commits, NothingYet
<1>4. /\ \A r \in A : r.source \in Payments
      /\ \A i \in B : i.source \in Bills
                     /\ DOMAIN i = {"number", "source", "entry", "status"}
  <2>1. \A r \in A : r.source \in Payments
    BY <1>2 DEF IInv, TablesInv, Own, Receipt
  <2> QED
    BY <2>1, BillsRestated
<1>5. \A r, q \in A : r.source = q.source => r = q
  <2>1. request[h].kind = "pay" => \A r \in receipts : r.source # request[h].source
    BY <1>3 DEF IInv, UncommittedInv, Uncommitted, Documents
  <2>2. \A r \in Own(h, "pay", Receipt(h)) :
          r = Receipt(h) /\ request[h].kind = "pay" /\ r.source = request[h].source
    BY DEF Own, Receipt
  <2> QED
    BY <2>1, <2>2 DEF IInv, TablesInv, OneReceiptPerPayment
<1>6. \A d \in A \cup B :
        \/ d \in receipts \cup Billed
        \/ /\ Documents(h) /\ d.entry = wrote[h].entry /\ d.source = request[h].source
           /\ d = IF request[h].kind = "pay" THEN Receipt(h) ELSE Invoice(h)
  BY DEF Own, Receipt, Invoice, Documents
<1>7. \A d \in A \cup B :
        \E e \in journal : e.number = d.entry /\ e.source = d.source
                           /\ e.amount = Amount(d.source)
  <2>1. Documents(h) =>
          \E e \in journal : e.number = wrote[h].entry /\ e.source = request[h].source
                             /\ e.amount = Amount(request[h].source)
    BY <1>3 DEF IInv, UncommittedInv, Uncommitted
  <2> QED
    BY <1>6, <2>1 DEF IInv, TablesInv, DocumentsAreInTheBooks, Vouchers
<1>8. \A d, c \in A \cup B : d.entry = c.entry => d = c
  <2>1. Documents(h) => \A d \in receipts \cup Billed : d.entry # wrote[h].entry
    BY <1>3 DEF IInv, UncommittedInv, Uncommitted
  <2> QED
    BY <1>6, <2>1 DEF IInv, TablesInv, DocumentsAreInTheBooks, Vouchers
<1>9. \A i \in B :
        /\ Restated(h, i).source = i.source /\ Restated(h, i).entry = i.entry
        /\ DOMAIN Restated(h, i) = {"number", "source", "entry", "status"}
  BY <1>4, Restating
<1>10. DocumentsAreInTheBooks'
  <2> DEFINE Origin(b, d) == \/ b \in A /\ d = b
                             \/ b \in B /\ d = Restated(h, b)
  <2>0. ASSUME NEW b, NEW d, Origin(b, d)
        PROVE  b \in A \cup B /\ b.entry = d.entry /\ b.source = d.source
    BY <1>9, <2>0
  <2>1. ASSUME NEW d \in receipts' \cup Billed'
        PROVE  \E b : Origin(b, d)
    <3>1. CASE d \in A
      BY <3>1
    <3>2. CASE d \in {Restated(h, i) : i \in B}
      BY <3>2
    <3> QED
      BY <1>1, <2>1, <3>1, <3>2, Zenon
  <2>2. ASSUME NEW d \in receipts' \cup Billed'
        PROVE  \E e \in journal : e.number = d.entry /\ e.source = d.source
                                  /\ e.amount = Amount(d.source)
    <3>1. PICK b : Origin(b, d)
      BY <2>1
    <3>2. b \in A \cup B /\ b.entry = d.entry /\ b.source = d.source
      BY <2>0, <3>1
    <3> QED
      BY <1>7, <3>2
  <2>3. ASSUME NEW d \in receipts' \cup Billed', NEW c \in receipts' \cup Billed',
               d.entry = c.entry
        PROVE  d = c
    <3>1. PICK b : Origin(b, d)
      BY <2>1
    <3>2. PICK a : Origin(a, c)
      BY <2>1
    <3>3. a = b
      <4>1. /\ b \in A \cup B /\ b.entry = d.entry
            /\ a \in A \cup B /\ a.entry = c.entry
        BY <2>0, <3>1, <3>2
      <4> QED
        BY <1>8, <2>3, <4>1
    <3>4. ~(a \in A /\ a \in B)
      BY <1>4, BooksAssumption
    <3> QED
      BY <3>1, <3>2, <3>3, <3>4
  <2> QED
    BY <1>1, <2>2, <2>3, Zenon DEF DocumentsAreInTheBooks, Vouchers
<1>11. TablesInv'
  <2>1. OneReceiptPerPayment'
    BY <1>1, <1>5, Zenon DEF OneReceiptPerPayment
  <2>2. /\ \A r \in receipts' : r.source \in Payments
        /\ \A i \in invoices' :
             /\ DOMAIN i = {"number", "source", "entry", "status"} /\ i.number \in Int
             /\ i.number > 0 => i.source \in Bills
    BY <1>1, <1>4, BillsRestated
  <2>3. Numbered(journal, Cardinality(journal))'
    BY <1>1 DEF IInv, TablesInv
  <2> QED
    BY <1>10, <2>1, <2>2, <2>3, CommitsRows DEF TablesInv
<1>12. /\ Cardinality(receipts) \in Nat /\ Cardinality(Billed) \in Nat
       /\ Cardinality(journal) \in Nat
  BY NextNumbers DEF IInv
<1>13. ASSUME NEW g \in Handlers PROVE Uncommitted(g)'
  <2>1. CASE g = h
    BY <1>1, <2>1 DEF Uncommitted, Reads
  <2>2. CASE g # h
    <3>1. Uncommitted(g) /\ Apart(g, h)
      BY <2>2 DEF IInv, UncommittedInv
    <3>2. /\ pc'[g] = pc[g] /\ request'[g] = request[g]
          /\ number'[g] = number[g] /\ wrote'[g] = wrote[g]
      BY <1>1, <2>2 DEF Others
    <3>3. pc'[g] = "insert" => number'[g] \in 1 .. Cardinality(RowsOf(g))' + 1
      BY <1>12, <3>1, <3>2, CommitsRows DEF Uncommitted, RowsOf
    <3>4. Documents(g) /\ wrote[g].number # 0 =>
            /\ Cardinality(RowsOf(g))' = Cardinality(RowsOf(g))
            /\ request[g].kind = "pay" => receipts' = receipts
      <4>1. Documents(g) /\ wrote[g].number # 0 => request[g].kind # request[h].kind
        BY <1>3, <3>1 DEF Apart, Documents
      <4>2. request[h].kind # "pay" => receipts' = receipts
        BY <1>1 DEF Own
      <4> QED
        BY <1>12, <3>2, <4>1, <4>2, CommitsRows DEF RowsOf, Documents
    <3>5. wrote[g].entry # 0 =>
            \A d \in receipts' \cup Billed' : d.entry # wrote[g].entry
      <4>1. wrote[g].entry # 0 => \A d \in A \cup B : d.entry # wrote[g].entry
        BY <1>6, <3>1 DEF Uncommitted, Apart
      <4> QED
        BY <1>1, <1>9, <4>1
    <3> QED
      BY <1>1, <3>1, <3>2, <3>3, <3>4, <3>5 DEF Uncommitted, Documents
  <2> QED
    BY <2>1, <2>2
<1>14. ASSUME NEW f \in Handlers, NEW g \in Handlers, f # g PROVE Apart(f, g)'
  <2>1. Apart(f, g)
    BY <1>14 DEF IInv, UncommittedInv
  <2> QED
    BY <1>1, <1>14, <2>1 DEF Apart, Others, Documents
<1> QED
  BY <1>11, <1>13, <1>14 DEF UncommittedInv
------------------------------------------------------------------------------
LEMMA InitInv ==
  ASSUME Init
  PROVE  IInv
<1>1. ControlInv
  BY DEF Init, ControlInv, Typed, Control, NothingWritten, NothingYet, Steps, Documents,
         NoRequest, Request
<1>2. TablesInv
  <2>1. Cardinality({}) = 0
    BY FS_EmptySet
  <2>2. Numbered({}, Cardinality({}))
    BY <2>1 DEF Numbered
  <2>3. Billed = {}
    BY DEF Init, Billed
  <2> QED
    BY <2>2, <2>3 DEF Init, TablesInv, OneReceiptPerPayment, DocumentsAreInTheBooks, Vouchers
<1>3. UncommittedInv
  BY DEF Init, UncommittedInv, Uncommitted, Apart, NothingWritten
<1> QED
  BY <1>1, <1>2, <1>3 DEF IInv

LEMMA NextInv ==
  ASSUME IInv, [Next]_vars
  PROVE  IInv'
<1>1. ASSUME NEW h \in Handlers,
             Step(h) \/ Crash(h) \/ \E r \in Asked : Start(h, r)
      PROVE  IInv'
  <2>1. Effect(h) /\ ControlInv'
    BY <1>1, HandlerSteps
  <2>2. CASE Moves(h) \/ Clears(h) \/ Draws(h)
    BY <2>1, <2>2, QuietData, QuietUncommitted DEF IInv
  <2>3. CASE Inserts(h)
    BY <2>1, <2>3, QuietData, InsertsUncommitted DEF IInv
  <2>4. CASE Posts(h)
    BY <2>1, <2>4, PostsPreserves DEF IInv
  <2>5. CASE Commits(h)
    BY <2>1, <2>5, CommitsPreserves DEF IInv
  <2> QED
    BY <2>1, <2>2, <2>3, <2>4, <2>5 DEF Effect
<1>2. CASE Committee \/ UNCHANGED vars
  <2>1. UNCHANGED <<receipts, invoices, journal, pc, request, number, wrote>>
    BY <1>2 DEF Committee, vars, tables, locals
  <2>0. Billed' = Billed
    BY <2>1 DEF Billed
  <2>2. ControlInv'
    BY <2>1 DEF IInv, ControlInv, Typed, Control, Documents
  <2>3. TablesInv'
    BY <2>0, <2>1 DEF IInv, TablesInv, OneReceiptPerPayment, DocumentsAreInTheBooks, Vouchers
  <2>4. UncommittedInv'
    BY <2>0, <2>1 DEF IInv, UncommittedInv, Uncommitted, Apart, RowsOf, Documents
  <2> QED
    BY <2>2, <2>3, <2>4 DEF IInv
<1> QED
  BY <1>1, <1>2 DEF Next

(* The inductive invariant of the books.                                   *)
THEOREM Invariance == Spec => []IInv
<1>1. Init => IInv
  BY InitInv
<1>2. IInv /\ [Next]_vars => IInv'
  BY NextInv
<1> QED
  BY <1>1, <1>2, PTL DEF Spec

(* However many process a payment at once, however often and with whatever *)
(* failures in between (recordPayment, the unique index on the event id):  *)
(* it has one receipt.                                                     *)
THEOREM PaymentsAreReceiptedOnce == Spec => []OneReceiptPerPayment
<1>1. IInv => OneReceiptPerPayment
  BY DEF IInv, TablesInv
<1> QED
  BY <1>1, Invariance, PTL

(* No receipt and no invoice can be seen without its own journal entry,    *)
(* although postEntry commits apart from the document.                     *)
THEOREM DocumentsHaveEntries == Spec => []DocumentsAreInTheBooks
<1>1. IInv => DocumentsAreInTheBooks
  BY DEF IInv, TablesInv
<1> QED
  BY <1>1, Invariance, PTL

(* Numbers read before the insert, and requests rolled back after it,      *)
(* leave no gap and no duplicate in receipts, invoices and entries.        *)
THEOREM NumbersAreConsecutive == Spec => []NumbersHaveNoGaps
<1>1. IInv => NumbersHaveNoGaps
  BY NumberedRows DEF IInv, TablesInv, NumbersHaveNoGaps
<1> QED
  BY <1>1, Invariance, PTL
------------------------------------------------------------------------------
(* Opening balances: a row has its balance's number, a number has one row, *)
(* and balances that wait to be committed are of the request's flats, are  *)
(* nobody else's and are not there yet.                                    *)
OpeningRows ==
  /\ \A i \in invoices : i.number <= 0 =>
       i.source \in Balances /\ i.number = NumberOf[i.source]
  /\ \A i, j \in invoices : i.number = j.number => i = j

Importing(h) ==
  /\ wrote[h].balances # {} => request[h].kind = "import" /\ pc[h] = "commit"
  /\ \A b \in wrote[h].balances :
       UnitOf[b] \in request[h].units /\ \A i \in invoices : i.source # b

OpeningsInv ==
  /\ OpeningRows
  /\ \A h \in Handlers : Importing(h)
  /\ \A g, h \in Handlers : g # h => wrote[g].balances \cap wrote[h].balances = {}

(* Only the import writes balances.                                        *)
LEMMA StepBalances ==
  ASSUME IInv, OpeningsInv, NEW h \in Handlers,
         Step(h) \/ Crash(h) \/ \E r \in Asked : Start(h, r)
  PROVE  wrote'[h].balances = {} \/ (Import(h) /\ ~Abort(h))
<1>1. CASE End(h)
  BY <1>1 DEF IInv, ControlInv, Typed, End, NothingWritten
<1>2. CASE Insert(h) /\ ~End(h)
  <2>1. wrote' = [wrote EXCEPT ![h] = [NothingWritten EXCEPT !.number = number[h]]]
    BY <1>2 DEF Insert, Abort
  <2> QED
    BY <2>1 DEF IInv, ControlInv, Typed, NothingWritten
<1>3. CASE Import(h) /\ Abort(h)
  BY <1>1, <1>3 DEF Abort
<1>4. CASE ~End(h) /\ ~Insert(h) /\ ~Import(h)
  <2>1. wrote'[h].balances = wrote[h].balances
    <3>1. DOMAIN wrote = Handlers
          /\ DOMAIN wrote[h] = {"number", "entry", "allocations", "status", "balances"}
      BY DEF IInv, ControlInv, Typed, Control
    <3>2. CASE Allocate(h)
      BY <3>1, <3>2 DEF Allocate
    <3>3. CASE UpdateStatus(h)
      BY <3>1, <3>3 DEF UpdateStatus
    <3>4. CASE PostEntry(h)
      BY <1>4, <3>1, <3>4 DEF PostEntry, Abort
    <3>5. CASE UNCHANGED wrote
      BY <3>5
    <3> QED
      BY <1>4, <3>2, <3>3, <3>4, <3>5
         DEF Step, Start, Crash, TimeOut, Abort, FastPath, CheckBilled, ReadNumber, OpenSheet,
             ReadCredits, Sweep, ReadInvoices, ReadPeriod, Commit
  <2>2. pc[h] # "commit"
    BY <1>4
       DEF Step, Start, Crash, TimeOut, Abort, FastPath, CheckBilled, ReadNumber, OpenSheet,
           ReadCredits, ReadInvoices, Allocate, UpdateStatus, ReadPeriod, PostEntry, Commit
  <2> QED
    BY <2>1, <2>2 DEF OpeningsInv, Importing
<1> QED
  BY <1>1, <1>2, <1>3, <1>4

LEMMA CommitsOpenings ==
  ASSUME IInv, OpeningsInv, NEW h \in Handlers, Commits(h)
  PROVE  /\ OpeningRows'
         /\ \A i \in invoices' : i.source \in Balances =>
              (\E j \in invoices : j.source = i.source) \/ i.source \in wrote[h].balances
<1> DEFINE own == Own(h, "bill", Invoice(h))
           all == invoices \cup own \cup Imported(h)
<1>1. \A i \in invoices : /\ DOMAIN i = {"number", "source", "entry", "status"}
                         /\ i.number \in Int /\ (i.number > 0 => i.source \in Bills)
  BY DEF IInv, TablesInv
<1>2. \A i \in own : i.number > 0 /\ i.number \in Int /\ i.source \in Bills
                    /\ DOMAIN i = {"number", "source", "entry", "status"}
  <2>1. request[h].kind = "bill" => request[h].source \in Bills
    BY Kinds DEF IInv, ControlInv, Typed
  <2>2. wrote[h].number \in Nat
    BY DEF IInv, ControlInv, Control
  <2> QED
    BY <2>1, <2>2 DEF Own, Invoice
<1>3. \A i \in Imported(h) :
        /\ i.source \in wrote[h].balances /\ i.source \in Balances
        /\ i = OpeningInvoice(i.source)
        /\ i.number = NumberOf[i.source] /\ i.number \in Int /\ i.number < 0
        /\ DOMAIN i = {"number", "source", "entry", "status"}
  <2>1. wrote[h].balances \subseteq Balances
    BY DEF IInv, ControlInv, Control
  <2> QED
    BY <2>1, BooksAssumption DEF Imported, OpeningInvoice
<1>4. invoices' = {Restated(h, i) : i \in all}
  BY DEF Commits, SeenInvoices
<1> HIDE DEF own
<1>5. \A i \in all : Restated(h, i).number = i.number /\ Restated(h, i).source = i.source
  BY <1>1, <1>2, <1>3, Restating
<1>6. \A i \in all : i.number <= 0 => i.source \in Balances /\ i.number = NumberOf[i.source]
  BY <1>2, <1>3 DEF OpeningsInv, OpeningRows
<1>7. \A i, j \in all : i.number = j.number /\ i.number <= 0 => i = j
  <2>1. \A i, j \in all : i.number = j.number /\ i.number <= 0 => i.source = j.source
    BY <1>6, BooksAssumption
  <2>2. \A i \in all : i.number <= 0 => i \in invoices \/ i \in Imported(h)
    BY <1>2
  <2>3. \A i \in invoices, j \in Imported(h) : i.source # j.source
    BY <1>3 DEF OpeningsInv, Importing
  <2>4. \A i, j \in invoices : i.number = j.number => i = j
    BY DEF OpeningsInv, OpeningRows
  <2>5. \A i, j \in Imported(h) : i.source = j.source => i = j
    BY <1>3
  <2> QED
    BY <2>1, <2>2, <2>3, <2>4, <2>5
<1>8. \A i, j \in invoices' : i.number = j.number => i = j
  <2>1. \A i, j \in invoices' : i.number = j.number /\ i.number <= 0 => i = j
    BY <1>4, <1>5, <1>7
  <2>2. Numbered(Billed, Cardinality(Billed))'
    BY CommitsRows
  <2>3. \A i, j \in invoices' : i.number = j.number /\ i.number > 0 => i = j
    BY <2>2 DEF Numbered, Billed
  <2>4. \A i \in invoices' : i.number \in Int
    BY BillsRestated
  <2> QED
    BY <2>1, <2>3, <2>4
<1>9. \A i \in invoices' : i.number <= 0 => i.source \in Balances /\ i.number = NumberOf[i.source]
  BY <1>4, <1>5, <1>6
<1>10. \A i \in all : i.source \in Balances =>
         (\E j \in invoices : j.source = i.source) \/ i.source \in wrote[h].balances
  BY <1>2, <1>3, BooksAssumption
<1>11. \A i \in invoices' : i.source \in Balances =>
         (\E j \in invoices : j.source = i.source) \/ i.source \in wrote[h].balances
  BY <1>4, <1>5, <1>10
<1> QED
  BY <1>8, <1>9, <1>11 DEF OpeningRows

LEMMA OpeningsStep ==
  ASSUME IInv, OpeningsInv, NEW h \in Handlers,
         Step(h) \/ Crash(h) \/ \E r \in Asked : Start(h, r)
  PROVE  OpeningsInv'
<1>1. Effect(h) /\ Others(h) /\ ControlInv'
  BY HandlerSteps
<1>2. wrote'[h].balances = {} \/ (Import(h) /\ ~Abort(h))
  BY StepBalances
<1>3. /\ OpeningRows'
      /\ \A i \in invoices' : i.source \in Balances =>
           (\E j \in invoices : j.source = i.source) \/ i.source \in wrote[h].balances
  <2>1. CASE Commits(h)
    BY <2>1, CommitsOpenings
  <2>2. CASE ~Commits(h)
    <3>1. invoices' = invoices
      BY <1>1, <2>2 DEF Effect, Moves, Clears, Draws, Inserts, Posts, Still
    <3> QED
      BY <3>1 DEF OpeningsInv, OpeningRows
  <2> QED
    BY <2>1, <2>2
<1>4. \A g \in Handlers : wrote'[g].balances \subseteq Balances
  BY <1>1 DEF ControlInv, Control
<1>5. ASSUME NEW g \in Handlers, g # h PROVE Importing(g)'
  <2>1. /\ wrote'[g] = wrote[g] /\ request'[g] = request[g] /\ pc'[g] = pc[g] /\ Importing(g)
        /\ wrote[g].balances \cap wrote[h].balances = {} /\ wrote[g].balances \subseteq Balances
    BY <1>1, <1>4, <1>5 DEF Others, OpeningsInv
  <2> QED
    BY <1>3, <2>1 DEF Importing
<1>6. CASE wrote'[h].balances = {}
  <2>1. Importing(h)'
    BY <1>6 DEF Importing
  <2>2. \A f, g \in Handlers : f # g => wrote'[f].balances \cap wrote'[g].balances = {}
    BY <1>1, <1>6 DEF Others, OpeningsInv
  <2> QED
    BY <1>3, <1>5, <2>1, <2>2 DEF OpeningsInv
<1>7. CASE Import(h) /\ ~Abort(h)
  <2>1. PICK sheet \in SUBSET Balances :
          /\ FlatsOf(sheet) = request[h].units
          /\ \A g \in Handlers \ {h} : wrote[g].balances \cap sheet = {}
          /\ ~\E i \in invoices : i.source \in sheet
          /\ wrote' = [wrote EXCEPT ![h].balances = sheet] /\ Goto(h, "commit")
    BY <1>7, Zenon DEF Import
  <2>2. wrote'[h].balances = sheet /\ pc'[h] = "commit" /\ request' = request /\ invoices' = invoices
    BY <2>1 DEF IInv, ControlInv, Typed, Control, Goto, tables
  <2>3. request[h].kind = "import"
    BY <1>7 DEF Import, IInv, ControlInv, Control
  <2>4. Importing(h)'
    BY <2>1, <2>2, <2>3 DEF Importing, FlatsOf
  <2>5. \A f, g \in Handlers : f # g => wrote'[f].balances \cap wrote'[g].balances = {}
    BY <1>1, <2>1, <2>2 DEF Others, OpeningsInv
  <2> QED
    BY <1>3, <1>5, <2>4, <2>5 DEF OpeningsInv
<1> QED
  BY <1>2, <1>6, <1>7

LEMMA Openings == Spec => []OpeningsInv
<1>1. Init => OpeningsInv
  BY DEF Init, OpeningsInv, OpeningRows, Importing, NothingWritten
<1>2. IInv /\ OpeningsInv /\ [Next]_vars => OpeningsInv'
  <2> SUFFICES ASSUME IInv, OpeningsInv, [Next]_vars PROVE OpeningsInv'
    OBVIOUS
  <2>1. ASSUME NEW h \in Handlers, Step(h) \/ Crash(h) \/ \E r \in Asked : Start(h, r)
        PROVE  OpeningsInv'
    BY <2>1, OpeningsStep
  <2>2. CASE Committee \/ UNCHANGED vars
    <3>1. UNCHANGED <<invoices, wrote, request, pc>>
      BY <2>2 DEF Committee, vars, tables, locals
    <3> QED
      BY <3>1 DEF OpeningsInv, OpeningRows, Importing
  <2> QED
    BY <2>1, <2>2 DEF Next
<1> QED
  BY <1>1, <1>2, Invariance, PTL DEF Spec
------------------------------------------------------------------------------
(* A flat is billed once for a month as long as its transactions do not    *)
(* overlap: the invoice that CheckBilled did not find cannot have come     *)
(* since from anybody else.                                                *)
Shares(g, h) == request[g].units \cap request[h].units # {}
Checked(h) == request[h].kind = "bill" /\ pc[h] \notin {"idle", "begin"}

NotBilled(h) == \A i \in Billed : i.source # request[h].source
BilledApart == \A i, j \in Billed : i.source = j.source => i = j

BillsInv ==
  ~overlapped =>
    /\ \A g, h \in Handlers :
         g # h /\ HasTransaction(g) /\ HasTransaction(h) => ~Shares(g, h)
    /\ \A h \in Handlers : Checked(h) => NotBilled(h)
    /\ BilledApart

(* A transaction begins where the history variable looks, and a bill is    *)
(* looked for there.                                                       *)
Opening(h) ==
  /\ overlapped => overlapped'
  /\ ~overlapped' /\ HasTransaction(h)' =>
       /\ request'[h] = request[h]
       /\ HasTransaction(h) \/ \A g \in Handlers \ {h} : HasTransaction(g) => ~Shares(g, h)
  /\ Checked(h)' =>
       request'[h] = request[h] /\ (Checked(h) \/ NotBilled(h))

LEMMA NoneFound ==
  ASSUME IInv, NEW h \in Handlers, request[h].kind = "bill", ~AlreadyBilled(h)
  PROVE  NotBilled(h)
<1>1. request[h].source \in Bills
  BY Kinds DEF IInv, ControlInv, Typed
<1>2. ASSUME NEW i, i.source = request[h].source
      PROVE  <<UnitOfBill(i), PeriodOf(i)>> = request[h].source
  BY <1>1, <1>2 DEF UnitOfBill, PeriodOf, Bills
<1> QED
  BY <1>2 DEF AlreadyBilled, NotBilled, Billed

LEMMA EndingOpens ==
  ASSUME IInv, NEW h \in Handlers, End(h), UNCHANGED overlapped
  PROVE  Opening(h)
BY DEF IInv, ControlInv, Typed, End, Opening, HasTransaction, Checked

LEMMA GoingOnOpens ==
  ASSUME IInv, NEW h \in Handlers, NEW step, Goto(h, step), UNCHANGED overlapped,
         HasTransaction(h)
  PROVE  Opening(h)
BY DEF IInv, ControlInv, Typed, Goto, Opening, HasTransaction, Checked

LEMMA StepsOpen ==
  ASSUME IInv, NEW h \in Handlers,
         Step(h) \/ Crash(h) \/ \E r \in Asked : Start(h, r)
  PROVE  Opening(h)
<1>1. CASE End(h) /\ UNCHANGED overlapped
  BY <1>1, EndingOpens
<1>2. CASE HasTransaction(h) /\ UNCHANGED overlapped /\ \E step \in Steps : Goto(h, step)
  BY <1>2, GoingOnOpens
<1>3. CASE \E r \in Asked : Start(h, r)
  BY <1>3 DEF IInv, ControlInv, Typed, Start, Opening, HasTransaction, Checked, history
<1>4. CASE FastPath(h) /\ ~End(h)
  BY <1>4 DEF IInv, ControlInv, Typed, FastPath, Abort, Goto, Opening, HasTransaction, Checked,
              history
<1>5. CASE CheckBilled(h)
  <2>1. request[h].kind = "bill"
    BY <1>5 DEF CheckBilled
  <2> QED
    BY <1>5, <2>1, NoneFound DEF IInv, ControlInv, Typed, CheckBilled, Abort, End, Goto, Opens, Opening,
              HasTransaction, Checked, Shares, NoRequest, Request
<1>6. CASE ReadNumber(h)
  <2>1. request' = request /\ pc[h] = "number" /\ Goto(h, "insert")
    BY <1>6 DEF ReadNumber, Goto
  <2>2. CASE request[h].kind = "pay" /\ Opens(h)
    BY <2>1, <2>2 DEF Opens, Opening, Checked, Shares
  <2>3. CASE request[h].kind = "bill" /\ UNCHANGED overlapped
    BY <2>1, <2>3, GoingOnOpens DEF HasTransaction
  <2> QED
    BY <1>6, <2>2, <2>3 DEF ReadNumber
<1>7. CASE ReadCredits(h) /\ pc[h] = "begin"
  <2>1. PICK step \in {"commit", "invoices"} : Goto(h, step)
    BY <1>7 DEF ReadCredits, Sweep
  <2>2. Opens(h) /\ request[h].kind = "sweep"
    BY <1>7 DEF ReadCredits
  <2> QED
    BY <2>1, <2>2 DEF IInv, ControlInv, Typed, Goto, Opens, Opening, HasTransaction,
                      Checked, Shares
<1>13. CASE OpenSheet(h)
  BY <1>13 DEF IInv, ControlInv, Typed, Goto, Opens, Opening, OpenSheet, HasTransaction,
               Checked, Shares
<1>14. CASE Import(h) /\ ~End(h)
  <2>1. HasTransaction(h) /\ UNCHANGED overlapped
    BY <1>14 DEF Import, HasTransaction, history
  <2>2. Goto(h, "commit")
    BY <1>14 DEF Import, Abort
  <2> QED
    BY <1>2, <2>1, <2>2 DEF Steps
<1>8. CASE ReadCredits(h) /\ pc[h] # "begin"
  BY <1>8, <1>2 DEF ReadCredits, Sweep, HasTransaction, Steps
<1>9. CASE PostEntry(h) /\ ~End(h)
  BY <1>9 DEF IInv, ControlInv, Typed, PostEntry, Abort, Opening, HasTransaction, Checked,
              history
<1>10. CASE Insert(h) \/ ReadPeriod(h)
  BY <1>1, <1>2, <1>10 DEF Insert, ReadPeriod, Abort, HasTransaction, Steps, history
<1>11. CASE ReadInvoices(h) \/ Allocate(h) \/ UpdateStatus(h)
  BY <1>2, <1>11
     DEF ReadInvoices, Allocate, UpdateStatus, NextCredit, AfterAllocating,
         HasTransaction, Steps, history
<1>12. CASE TimeOut(h) \/ Crash(h) \/ Commit(h)
  BY <1>1, <1>12 DEF TimeOut, Crash, Commit, Abort, history
<1> QED
  BY <1>1, <1>3, <1>4, <1>5, <1>6, <1>7, <1>8, <1>9, <1>10, <1>11, <1>12, <1>13, <1>14
     DEF Step, FastPath, PostEntry, Import, history

LEMMA BillsStep ==
  ASSUME IInv, BillsInv, NEW h \in Handlers, Effect(h), Others(h), Opening(h)
  PROVE  BillsInv'
<1> SUFFICES ASSUME ~overlapped' PROVE
      /\ \A f, g \in Handlers :
           f # g /\ HasTransaction(f)' /\ HasTransaction(g)' => ~Shares(f, g)'
      /\ \A g \in Handlers : Checked(g)' => NotBilled(g)'
      /\ BilledApart'
  BY DEF BillsInv
<1>0. ~overlapped
  BY DEF Opening
<1>1. \A g \in Handlers \ {h} :
        /\ HasTransaction(g)' = HasTransaction(g) /\ Checked(g)' = Checked(g)
        /\ request'[g] = request[g]
  BY DEF Others, HasTransaction, Checked
<1>2. ASSUME NEW f \in Handlers, NEW g \in Handlers, f # g,
             HasTransaction(f)', HasTransaction(g)'
      PROVE  ~Shares(f, g)'
  <2>1. CASE f # h /\ g # h
    BY <1>0, <1>1, <1>2, <2>1 DEF BillsInv, Shares
  <2>2. CASE f = h
    BY <1>0, <1>1, <1>2, <2>2 DEF BillsInv, Opening, Shares
  <2>3. CASE g = h
    BY <1>0, <1>1, <1>2, <2>3 DEF BillsInv, Opening, Shares
  <2> QED
    BY <2>1, <2>2, <2>3
<1>3. CASE ~(Commits(h) /\ request[h].kind = "bill")
  <2>1. \A i \in Billed' : \E j \in Billed : j.source = i.source /\ j.number = i.number
    <3>1. CASE Commits(h)
      <4>1. Own(h, "bill", Invoice(h)) = {}
        BY <1>3, <3>1 DEF Own
      <4> QED
        BY <3>1, <4>1, BillsRestated, Restating
    <3>2. CASE ~Commits(h)
      BY <3>2 DEF Effect, Moves, Clears, Draws, Inserts, Posts, Still, Billed
    <3> QED
      BY <3>1, <3>2
  <2>2. \A g \in Handlers : Checked(g)' => NotBilled(g)'
    BY <1>0, <1>1, <2>1 DEF BillsInv, Opening, NotBilled
  <2>3. BilledApart'
    <3>1. \A i, j \in Billed : i.source = j.source => i = j
      BY <1>0 DEF BillsInv, BilledApart
    <3>2. \A i, j \in Billed' : i.number = j.number => i = j
      <4>1. TablesInv'
        BY QuietData, PostsPreserves, CommitsPreserves DEF Effect
      <4> QED
        BY <4>1 DEF TablesInv, Numbered
    <3> QED
      BY <2>1, <3>1, <3>2 DEF BilledApart
  <2> QED
    BY <1>2, <2>2, <2>3
<1>4. CASE Commits(h) /\ request[h].kind = "bill"
  <2>1. \A i \in Billed' :
          \/ \E j \in Billed : j.source = i.source /\ j.number = i.number
          \/ i.source = request[h].source /\ i.number = Invoice(h).number
    BY <1>4, BillsRestated, Restating DEF Own, Invoice
  <2>2. HasTransaction(h) /\ Checked(h) /\ ~Checked(h)'
    BY <1>4 DEF Commits, HasTransaction, Checked
  <2>3. ASSUME NEW g \in Handlers, Checked(g)' PROVE NotBilled(g)'
    <3>1. g # h /\ Checked(g) /\ request'[g] = request[g]
      BY <1>1, <2>2, <2>3
    <3>2. HasTransaction(g)
      BY <3>1 DEF IInv, ControlInv, Typed, Checked, HasTransaction, Steps
    <3>3. request[g].source # request[h].source
      BY <1>0, <1>4, <2>2, <3>1, <3>2, Kinds
         DEF BillsInv, Shares, Checked, IInv, ControlInv, Typed
    <3> QED
      BY <1>0, <2>1, <3>1, <3>3 DEF BillsInv, NotBilled
  <2>4. BilledApart'
    <3>1. /\ \A i, j \in Billed : i.source = j.source => i = j
          /\ \A i \in Billed : i.source # request[h].source
      BY <1>0, <2>2 DEF BillsInv, BilledApart, NotBilled
    <3>2. \A i, j \in Billed' : i.number = j.number => i = j
      <4>1. TablesInv'
        BY <1>4, CommitsPreserves
      <4> QED
        BY <4>1 DEF TablesInv, Numbered
    <3> QED
      BY <2>1, <3>1, <3>2 DEF BilledApart
  <2> QED
    BY <1>2, <2>3, <2>4
<1> QED
  BY <1>3, <1>4

LEMMA BillsNext ==
  ASSUME IInv, BillsInv, [Next]_vars
  PROVE  BillsInv'
<1>1. ASSUME NEW h \in Handlers,
             Step(h) \/ Crash(h) \/ \E r \in Asked : Start(h, r)
      PROVE  BillsInv'
  BY <1>1, HandlerSteps, StepsOpen, BillsStep
<1>2. CASE Committee \/ UNCHANGED vars
  <2>1. UNCHANGED <<invoices, pc, request, overlapped>>
    BY <1>2 DEF Committee, vars, tables, locals, history
  <2> QED
    BY <2>1 DEF BillsInv, HasTransaction, Shares, Checked, NotBilled, BilledApart, Billed
<1> QED
  BY <1>1, <1>2 DEF Next

LEMMA BilledOnce == Spec => []BillsInv
<1>1. Init => BillsInv
  BY DEF Init, BillsInv, HasTransaction, Checked, BilledApart, Billed
<1>2. IInv /\ BillsInv /\ [Next]_vars => BillsInv'
  BY BillsNext
<1> QED
  BY <1>1, <1>2, Invariance, PTL DEF Spec

(* As long as no two transactions of a flat overlap (issue takes no lock), *)
(* a flat is billed once for a month, however often the run is repeated    *)
(* and wherever it failed.                                                 *)
THEOREM FlatsAreBilledOnce == Spec => []OneBillPerMonth
<1>1. IInv /\ OpeningsInv /\ BillsInv => OneBillPerMonth
  <2> SUFFICES ASSUME IInv, OpeningsInv, BillsInv, ~overlapped,
                      NEW i \in invoices, NEW j \in invoices, i.source = j.source
               PROVE  i = j
    BY DEF OneBillPerMonth
  <2>1. /\ i.number \in Int /\ (i.number > 0 => i.source \in Bills)
        /\ j.number \in Int /\ (j.number > 0 => j.source \in Bills)
    BY DEF IInv, TablesInv
  <2>2. /\ i.number <= 0 => i.source \in Balances /\ i.number = NumberOf[i.source]
        /\ j.number <= 0 => j.source \in Balances /\ j.number = NumberOf[j.source]
        /\ i.number = j.number => i = j
    BY DEF OpeningsInv, OpeningRows
  <2>3. CASE i.number > 0 /\ j.number > 0
    BY <2>3 DEF BillsInv, BilledApart, Billed
  <2>4. CASE i.number <= 0 /\ j.number <= 0
    BY <2>2, <2>4
  <2> QED
    BY <2>1, <2>2, <2>3, <2>4, BooksAssumption
<1> QED
  BY <1>1, Invariance, Openings, BilledOnce, PTL
------------------------------------------------------------------------------
(* Sums of allocations.  The sum over a set of positions is the number of  *)
(* rupees there: so many pairs of a position and a rupee of its amount.    *)
SumAt(rows, S) == MapThenSumSet(LAMBDA k : rows[k].amount, S)

Rupees(rows, S) == {t \in S \X (Nat \ {0}) : t[2] <= rows[t[1]].amount}

LEMMA RupeesOfOne ==
  ASSUME NEW rows, NEW k, rows[k].amount \in Nat
  PROVE  /\ IsFiniteSet(Rupees(rows, {k}))
         /\ Cardinality(Rupees(rows, {k})) = rows[k].amount
<1> DEFINE f == [n \in 1 .. rows[k].amount |-> <<k, n>>]
<1>1. f \in Bijection(1 .. rows[k].amount, Rupees(rows, {k}))
  <2>1. f \in [1 .. rows[k].amount -> Rupees(rows, {k})]
    BY DEF Rupees
  <2>2. \A n, m \in 1 .. rows[k].amount : f[n] = f[m] => n = m
    OBVIOUS
  <2>3. \A t \in Rupees(rows, {k}) : \E n \in 1 .. rows[k].amount : f[n] = t
    BY DEF Rupees
  <2> QED
    BY <2>1, <2>2, <2>3, Zenon DEF Bijection, Injection, Surjection, IsInjective
<1>2. IsFiniteSet(1 .. rows[k].amount) /\ Cardinality(1 .. rows[k].amount) = rows[k].amount
  <2>1. PICK n \in Nat : n = rows[k].amount
    OBVIOUS
  <2>2. IsFiniteSet(1 .. n) /\ Cardinality(1 .. n) = n
    BY FS_Interval
  <2> QED
    BY <2>1, <2>2
<1>3. ExistsBijection(1 .. rows[k].amount, Rupees(rows, {k}))
  BY <1>1 DEF ExistsBijection
<1> QED
  BY <1>2, <1>3, FS_Bijection

LEMMA RupeesAreFinite ==
  ASSUME NEW rows, NEW S, IsFiniteSet(S), \A k \in S : rows[k].amount \in Nat
  PROVE  IsFiniteSet(Rupees(rows, S))
<1> DEFINE Of == [k \in S |-> Rupees(rows, {k})]
           parts == {Rupees(rows, {k}) : k \in S}
<1>1. Of \in Surjection(S, parts)
  BY DEF Surjection
<1>2. IsFiniteSet(parts)
  BY <1>1, FS_Surjection
<1>3. \A T \in parts : IsFiniteSet(T)
  BY RupeesOfOne
<1>4. IsFiniteSet(UNION parts)
  BY <1>2, <1>3, FS_UNION
<1>5. Rupees(rows, S) = UNION parts
  BY DEF Rupees
<1> QED
  BY <1>4, <1>5

LEMMA Disjoint ==
  ASSUME NEW X, IsFiniteSet(X), NEW Y, IsFiniteSet(Y), X \cap Y = {}
  PROVE  /\ Cardinality(X \cup Y) = Cardinality(X) + Cardinality(Y)
         /\ Cardinality(X) \in Nat /\ Cardinality(Y) \in Nat
<1>1. Cardinality(X) \in Nat /\ Cardinality(Y) \in Nat
  BY FS_CardinalityType
<1>2. Cardinality(X \cup Y) = Cardinality(X) + Cardinality(Y) - Cardinality(X \cap Y)
  BY FS_Union
<1>3. Cardinality(X \cap Y) = 0
  BY FS_EmptySet
<1>4. Cardinality(X \cup Y) = Cardinality(X) + Cardinality(Y) - 0
  BY <1>2, <1>3
<1> QED
  BY <1>1, <1>4

(* One position more.                                                      *)
LEMMA OnePositionMore ==
  ASSUME NEW rows, NEW S, IsFiniteSet(S), NEW k, k \notin S,
         \A l \in S \cup {k} : rows[l].amount \in Nat
  PROVE  Cardinality(Rupees(rows, S \cup {k})) = rows[k].amount + Cardinality(Rupees(rows, S))
<1>1. Rupees(rows, S \cup {k}) = Rupees(rows, S) \cup Rupees(rows, {k})
  BY DEF Rupees
<1>2. Rupees(rows, S) \cap Rupees(rows, {k}) = {}
  BY DEF Rupees
<1>3. /\ IsFiniteSet(Rupees(rows, S)) /\ IsFiniteSet(Rupees(rows, {k}))
      /\ Cardinality(Rupees(rows, {k})) = rows[k].amount
  BY RupeesAreFinite, RupeesOfOne
<1>4. PICK one : one = Rupees(rows, {k})
  OBVIOUS
<1>5. PICK others : others = Rupees(rows, S)
  OBVIOUS
<1>6. IsFiniteSet(one) /\ IsFiniteSet(others) /\ others \cap one = {}
  BY <1>2, <1>3, <1>4, <1>5
<1>7. /\ Cardinality(others \cup one) = Cardinality(others) + Cardinality(one)
      /\ Cardinality(others) \in Nat /\ Cardinality(one) \in Nat
  BY <1>6, Disjoint
<1>8. Rupees(rows, S \cup {k}) = others \cup one
  BY <1>1, <1>4, <1>5
<1>9. Cardinality(one) = rows[k].amount
  BY <1>3, <1>4
<1>10. Cardinality(Rupees(rows, S \cup {k})) = Cardinality(others) + rows[k].amount
  BY <1>7, <1>8, <1>9
<1> QED
  BY <1>5, <1>7, <1>9, <1>10

LEMMA SumsCountRupees ==
  ASSUME NEW rows, NEW D, IsFiniteSet(D), \A k \in D : rows[k].amount \in Nat
  PROVE  SumAt(rows, D) = Cardinality(Rupees(rows, D))
<1> DEFINE Some(s) == CHOOSE x \in s : TRUE
           Eqn(it) == it = [s \in SUBSET D |->
                              IF s = {} THEN 0
                              ELSE rows[Some(s)].amount + it[s \ {Some(s)}]]
           g == [s \in SUBSET D |-> Cardinality(Rupees(rows, s))]
<1>1. \A s \in SUBSET D : s # {} => Some(s) \in s
  OBVIOUS
<1>2. \A s \in SUBSET D : IsFiniteSet(s)
  BY FS_Subset
<1>3. ASSUME NEW s \in SUBSET D, s # {}
      PROVE  g[s] = rows[Some(s)].amount + g[s \ {Some(s)}]
  <2>1. PICK k \in s : k = Some(s)
    BY <1>1, <1>3
  <2>2. PICK t : t = s \ {k}
    OBVIOUS
  <2>3. t \in SUBSET D /\ IsFiniteSet(t) /\ k \notin t /\ s = t \cup {k}
    BY <1>2, <2>2
  <2>4. Cardinality(Rupees(rows, s)) = rows[k].amount + Cardinality(Rupees(rows, t))
    BY <2>3, OnePositionMore
  <2> QED
    BY <2>1, <2>2, <2>3, <2>4
<1>4. g[{}] = 0
  <2>1. Rupees(rows, {}) = {}
    BY DEF Rupees
  <2> QED
    BY <2>1, FS_EmptySet
<1>5. Eqn(g)
  <2> DEFINE h == [s \in SUBSET D |->
                     IF s = {} THEN 0 ELSE rows[Some(s)].amount + g[s \ {Some(s)}]]
  <2>1. \A s \in SUBSET D : g[s] = h[s]
    <3> HIDE DEF g, Some
    <3> QED
      BY <1>3, <1>4
  <2>2. g = h
    BY <2>1
  <2> QED
    BY <2>2
<1>6. PICK it : it = CHOOSE f : Eqn(f)
  OBVIOUS
<1> HIDE DEF g, Eqn
<1>7. Eqn(it)
  BY <1>5, <1>6
<1>8. SumAt(rows, D) = it[D]
  BY <1>6 DEF Eqn, SumAt, MapThenSumSet, MapThenFoldSet
<1> HIDE DEF Some
<1>9. \A s \in SUBSET D : it[s] = g[s]
  <2> SUFFICES ASSUME \E s \in SUBSET D : it[s] # g[s] PROVE FALSE
    OBVIOUS
  <2> DEFINE Bad == {s \in SUBSET D : it[s] # g[s]}
  <2>1. IsWellFoundedOn(StrictSubsetOrdering(D), SUBSET D)
    BY FS_StrictSubsetOrderingWellFounded, FS_FiniteSubsetsOfFinite
  <2>2. PICK s \in Bad : \A t \in Bad : <<t, s>> \notin StrictSubsetOrdering(D)
    <3>1. Bad \subseteq SUBSET D /\ Bad # {}
      OBVIOUS
    <3> HIDE DEF Bad
    <3> QED
      BY <2>1, <3>1, WFMin
  <2>3. s # {}
    BY <1>4, <1>7 DEF Eqn
  <2>4. PICK t : t = s \ {Some(s)}
    OBVIOUS
  <2>5. t \in SUBSET D /\ <<t, s>> \in StrictSubsetOrdering(D)
    BY <1>1, <2>3, <2>4 DEF StrictSubsetOrdering
  <2>6. it[t] = g[t]
    BY <2>2, <2>5
  <2>7. it[s] = rows[Some(s)].amount + it[t]
    BY <1>7, <2>3, <2>4 DEF Eqn
  <2> QED
    BY <1>3, <2>3, <2>4, <2>6, <2>7
<1> QED
  BY <1>8, <1>9 DEF g

(* The sum over two lists put together: the positions of the second come   *)
(* after the first.                                                        *)
Within(S, A) == S \subseteq DOMAIN A
After(l, T) == {l + k : k \in T}

LEMMA SumOfBoth ==
  ASSUME NEW A \in Seq(Rows), NEW B \in Seq(Rows),
         NEW S, NEW T, Within(S, A), Within(T, B)
  PROVE  /\ SumAt(A \o B, S \cup After(Len(A), T)) = SumAt(A, S) + SumAt(B, T)
         /\ SumAt(A, S) \in Nat /\ SumAt(B, T) \in Nat
<1>1. PICK m \in Nat : m = Len(A)
  OBVIOUS
<1>2. PICK n \in Nat : n = Len(B)
  OBVIOUS
<1>3. PICK C : C = A \o B
  OBVIOUS
<1>4. /\ DOMAIN A = 1 .. m /\ DOMAIN B = 1 .. n /\ DOMAIN C = 1 .. (m + n)
      /\ S \subseteq DOMAIN A /\ T \subseteq DOMAIN B
  BY <1>1, <1>2, <1>3 DEF Within
<1>5. /\ \A k \in S : C[k] = A[k] /\ A[k].amount \in Nat
      /\ \A k \in T : C[m + k] = B[k] /\ B[k].amount \in Nat
  <2>1. /\ \A k \in 1 .. m : C[k] = A[k] /\ A[k] \in Rows
        /\ \A k \in 1 .. n : C[m + k] = B[k] /\ B[k] \in Rows
    BY <1>1, <1>2, <1>3
  <2> QED
    BY <1>4, <2>1 DEF Rows
<1>6. PICK U : U = {m + k : k \in T} /\ U = After(Len(A), T)
  BY <1>1 DEF After
<1>7. S \subseteq 1 .. (m + n) /\ U \subseteq 1 .. (m + n) /\ S \cap U = {}
  BY <1>4, <1>6
<1>8. IsFiniteSet(S) /\ IsFiniteSet(T) /\ IsFiniteSet(U) /\ IsFiniteSet(S \cup U)
  <2>1. IsFiniteSet(1 .. n) /\ IsFiniteSet(1 .. (m + n))
    BY FS_Interval
  <2>2. S \in SUBSET (1 .. (m + n)) /\ U \in SUBSET (1 .. (m + n)) /\ T \in SUBSET (1 .. n)
    BY <1>4, <1>7
  <2>3. S \cup U \in SUBSET (1 .. (m + n))
    BY <2>2
  <2> QED
    BY <2>1, <2>2, <2>3, FS_Subset
<1>9. \A k \in S \cup U : C[k].amount \in Nat
  BY <1>5, <1>6
<1>10. /\ SumAt(A, S) = Cardinality(Rupees(A, S)) /\ IsFiniteSet(Rupees(A, S))
       /\ SumAt(B, T) = Cardinality(Rupees(B, T)) /\ IsFiniteSet(Rupees(B, T))
       /\ SumAt(C, S \cup U) = Cardinality(Rupees(C, S \cup U)) /\ IsFiniteSet(Rupees(C, U))
  BY <1>5, <1>8, <1>9, SumsCountRupees, RupeesAreFinite
<1>11. /\ Cardinality(Rupees(A, S)) \in Nat /\ Cardinality(Rupees(B, T)) \in Nat
  BY <1>10, FS_CardinalityType
<1>12. Rupees(C, S \cup U) = Rupees(A, S) \cup Rupees(C, U)
  BY <1>5 DEF Rupees
<1>13. Rupees(A, S) \cap Rupees(C, U) = {}
  BY <1>7 DEF Rupees
<1>14. Cardinality(Rupees(C, U)) = Cardinality(Rupees(B, T))
  <2> DEFINE f == [t \in Rupees(B, T) |-> <<m + t[1], t[2]>>]
  <2>0. T \subseteq Int
    BY <1>4
  <2>1. f \in [Rupees(B, T) -> Rupees(C, U)]
    BY <1>5, <1>6 DEF Rupees
  <2>2. ASSUME NEW s \in Rupees(B, T), NEW t \in Rupees(B, T), f[s] = f[t] PROVE s = t
    <3>1. PICK j \in T, x \in Nat : s = <<j, x>>
      BY DEF Rupees
    <3>2. PICK k \in T, y \in Nat : t = <<k, y>>
      BY DEF Rupees
    <3>3. f[s] = <<m + j, x>> /\ f[t] = <<m + k, y>>
      BY <3>1, <3>2
    <3>4. m + j = m + k /\ x = y /\ j \in Int /\ k \in Int
      BY <2>0, <2>2, <3>3
    <3> QED
      BY <3>1, <3>2, <3>4
  <2>3. ASSUME NEW t \in Rupees(C, U) PROVE \E s \in Rupees(B, T) : f[s] = t
    <3>1. PICK k \in T : t[1] = m + k /\ t = <<m + k, t[2]>> /\ t[2] \in Nat \ {0}
                         /\ t[2] <= C[m + k].amount
      BY <1>6 DEF Rupees
    <3>2. <<k, t[2]>> \in Rupees(B, T)
      BY <1>5, <3>1 DEF Rupees
    <3> QED
      BY <3>1, <3>2
  <2>4. f \in Bijection(Rupees(B, T), Rupees(C, U))
    BY <2>1, <2>2, <2>3, Zenon DEF Bijection, Injection, Surjection, IsInjective
  <2> QED
    BY <1>10, <2>4, FS_Bijection DEF ExistsBijection
<1>15. PICK X : X = Rupees(A, S)
  OBVIOUS
<1>16. PICK Y : Y = Rupees(C, U)
  OBVIOUS
<1>17. IsFiniteSet(X) /\ IsFiniteSet(Y) /\ X \cap Y = {}
  BY <1>10, <1>13, <1>15, <1>16
<1>18. Cardinality(X \cup Y) = Cardinality(X) + Cardinality(Y)
  BY <1>17, Disjoint
<1>19. SumAt(C, S \cup U) = SumAt(A, S) + SumAt(B, T)
  BY <1>10, <1>12, <1>14, <1>15, <1>16, <1>18
<1> QED
  BY <1>3, <1>6, <1>10, <1>11, <1>19

(* What is paid of an invoice, and applied of a receipt, adds up.          *)
Paying(A, n) == {k \in DOMAIN A : A[k].invoice = n}
Applying(A, n) == {k \in DOMAIN A : A[k].receipt = n}

LEMMA SumsByRow ==
  ASSUME NEW A, NEW n
  PROVE  PaidIn(A, n) = SumAt(A, Paying(A, n)) /\ AppliedIn(A, n) = SumAt(A, Applying(A, n))
BY DEF PaidIn, AppliedIn, AmountIn, SumAt, Paying, Applying

LEMMA SumsAddUp ==
  ASSUME NEW A \in Seq(Rows), NEW B \in Seq(Rows), NEW n
  PROVE  /\ PaidIn(A \o B, n) = PaidIn(A, n) + PaidIn(B, n)
         /\ AppliedIn(A \o B, n) = AppliedIn(A, n) + AppliedIn(B, n)
         /\ PaidIn(A, n) \in Nat /\ AppliedIn(A, n) \in Nat
         /\ PaidIn(B, n) \in Nat /\ AppliedIn(B, n) \in Nat
<1>1. PICK l \in Nat : l = Len(A)
  OBVIOUS
<1>2. PICK m \in Nat : m = Len(B)
  OBVIOUS
<1>3. PICK C : C = A \o B
  OBVIOUS
<1>4. /\ DOMAIN A = 1 .. l /\ DOMAIN B = 1 .. m /\ DOMAIN C = 1 .. (l + m)
      /\ \A k \in 1 .. l : C[k] = A[k]
      /\ \A k \in 1 .. m : C[l + k] = B[k]
  BY <1>1, <1>2, <1>3
<1>5. \A k \in 1 .. (l + m) : k \in 1 .. l \/ (k - l \in 1 .. m /\ k = l + (k - l))
  OBVIOUS
<1>6. Paying(C, n) = Paying(A, n) \cup {l + k : k \in Paying(B, n)}
  <2>1. \A k \in 1 .. l : k \in Paying(C, n) <=> k \in Paying(A, n)
    BY <1>4 DEF Paying
  <2>2. \A k \in 1 .. m : l + k \in Paying(C, n) <=> k \in Paying(B, n)
    BY <1>4 DEF Paying
  <2>3. /\ Paying(C, n) \subseteq 1 .. (l + m) /\ Paying(A, n) \subseteq 1 .. l
        /\ Paying(B, n) \subseteq 1 .. m
    BY <1>4 DEF Paying
  <2> QED
    BY <1>5, <2>1, <2>2, <2>3
<1>7. Applying(C, n) = Applying(A, n) \cup {l + k : k \in Applying(B, n)}
  <2>1. \A k \in 1 .. l : k \in Applying(C, n) <=> k \in Applying(A, n)
    BY <1>4 DEF Applying
  <2>2. \A k \in 1 .. m : l + k \in Applying(C, n) <=> k \in Applying(B, n)
    BY <1>4 DEF Applying
  <2>3. /\ Applying(C, n) \subseteq 1 .. (l + m) /\ Applying(A, n) \subseteq 1 .. l
        /\ Applying(B, n) \subseteq 1 .. m
    BY <1>4 DEF Applying
  <2> QED
    BY <1>5, <2>1, <2>2, <2>3
<1>8. /\ Paying(A, n) \subseteq DOMAIN A /\ Paying(B, n) \subseteq DOMAIN B
      /\ Applying(A, n) \subseteq DOMAIN A /\ Applying(B, n) \subseteq DOMAIN B
  BY DEF Paying, Applying
<1>9. /\ SumAt(C, Paying(C, n)) = SumAt(A, Paying(A, n)) + SumAt(B, Paying(B, n))
      /\ SumAt(A, Paying(A, n)) \in Nat /\ SumAt(B, Paying(B, n)) \in Nat
  <2>1. PICK S : S = Paying(A, n)
    OBVIOUS
  <2>2. PICK T : T = Paying(B, n)
    OBVIOUS
  <2>3. Within(S, A) /\ Within(T, B)
    BY <1>8, <2>1, <2>2 DEF Within
  <2>4. /\ SumAt(A \o B, S \cup After(Len(A), T)) = SumAt(A, S) + SumAt(B, T)
        /\ SumAt(A, S) \in Nat /\ SumAt(B, T) \in Nat
    BY <2>3, SumOfBoth
  <2>5. Paying(C, n) = S \cup After(Len(A), T)
    BY <1>1, <1>6, <2>1, <2>2 DEF After
  <2> QED
    BY <1>3, <2>1, <2>2, <2>4, <2>5
<1>10. /\ SumAt(C, Applying(C, n)) = SumAt(A, Applying(A, n)) + SumAt(B, Applying(B, n))
      /\ SumAt(A, Applying(A, n)) \in Nat /\ SumAt(B, Applying(B, n)) \in Nat
  <2>1. PICK S : S = Applying(A, n)
    OBVIOUS
  <2>2. PICK T : T = Applying(B, n)
    OBVIOUS
  <2>3. Within(S, A) /\ Within(T, B)
    BY <1>8, <2>1, <2>2 DEF Within
  <2>4. /\ SumAt(A \o B, S \cup After(Len(A), T)) = SumAt(A, S) + SumAt(B, T)
        /\ SumAt(A, S) \in Nat /\ SumAt(B, T) \in Nat
    BY <2>3, SumOfBoth
  <2>5. Applying(C, n) = S \cup After(Len(A), T)
    BY <1>1, <1>7, <2>1, <2>2 DEF After
  <2> QED
    BY <1>3, <2>1, <2>2, <2>4, <2>5
<1> QED
  BY <1>3, <1>9, <1>10, SumsByRow

LEMMA NothingAddsUp ==
  ASSUME NEW A \in Seq(Rows), NEW n
  PROVE  /\ (\A k \in DOMAIN A : A[k].invoice # n) => PaidIn(A, n) = 0
         /\ (\A k \in DOMAIN A : A[k].receipt # n) => AppliedIn(A, n) = 0
<1>1. SumAt(A, {}) = 0
  <2>1. Rupees(A, {}) = {}
    BY DEF Rupees
  <2>2. SumAt(A, {}) = Cardinality(Rupees(A, {}))
    BY SumsCountRupees, FS_EmptySet
  <2> QED
    BY <2>1, <2>2, FS_EmptySet
<1>2. (\A k \in DOMAIN A : A[k].invoice # n) => Paying(A, n) = {}
  BY DEF Paying
<1>3. (\A k \in DOMAIN A : A[k].receipt # n) => Applying(A, n) = {}
  BY DEF Applying
<1> QED
  BY <1>1, <1>2, <1>3, SumsByRow

LEMMA OneAddsUp ==
  ASSUME NEW A \in Seq(Rows), NEW a \in Rows, NEW n
  PROVE  /\ Append(A, a) \in Seq(Rows)
         /\ PaidIn(Append(A, a), n) =
              PaidIn(A, n) + (IF a.invoice = n THEN a.amount ELSE 0)
         /\ AppliedIn(Append(A, a), n) =
              AppliedIn(A, n) + (IF a.receipt = n THEN a.amount ELSE 0)
<1>1. PICK B : B = <<a>>
  OBVIOUS
<1>2. Append(A, a) = A \o B /\ B \in Seq(Rows) /\ Append(A, a) \in Seq(Rows)
  BY <1>1
<1>3. DOMAIN B = {1} /\ B[1] = a
  BY <1>1
<1>4. a.amount \in Nat
  BY DEF Rows
<1>5. SumAt(B, {1}) = a.amount
  <2>1. Cardinality(Rupees(B, {1})) = B[1].amount
    BY <1>3, <1>4, RupeesOfOne
  <2>2. SumAt(B, {1}) = Cardinality(Rupees(B, {1}))
    BY <1>3, <1>4, SumsCountRupees, FS_Singleton
  <2> QED
    BY <1>3, <2>1, <2>2
<1>6. PaidIn(B, n) = IF a.invoice = n THEN a.amount ELSE 0
  <2>1. CASE a.invoice = n
    <3>1. Paying(B, n) = {1}
      BY <1>3, <2>1 DEF Paying
    <3> QED
      BY <1>5, <2>1, <3>1, SumsByRow
  <2>2. CASE a.invoice # n
    BY <1>2, <1>3, <2>2, NothingAddsUp
  <2> QED
    BY <2>1, <2>2
<1>7. AppliedIn(B, n) = IF a.receipt = n THEN a.amount ELSE 0
  <2>1. CASE a.receipt = n
    <3>1. Applying(B, n) = {1}
      BY <1>3, <2>1 DEF Applying
    <3> QED
      BY <1>5, <2>1, <3>1, SumsByRow
  <2>2. CASE a.receipt # n
    BY <1>2, <1>3, <2>2, NothingAddsUp
  <2> QED
    BY <2>1, <2>2
<1>8. /\ PaidIn(A \o B, n) = PaidIn(A, n) + PaidIn(B, n)
      /\ AppliedIn(A \o B, n) = AppliedIn(A, n) + AppliedIn(B, n)
  BY <1>2, SumsAddUp
<1> QED
  BY <1>2, <1>6, <1>7, <1>8

------------------------------------------------------------------------------
(* ORDER BY: Sorted lists every row once.                                  *)
Lists(list, rows) ==
  /\ \E n \in Nat : DOMAIN list = 1 .. n
  /\ \A k \in DOMAIN list : list[k] \in rows
  /\ \A k, l \in DOMAIN list : list[k] = list[l] => k = l
  /\ \A r \in rows : \E k \in DOMAIN list : list[k] = r

IsOrder(rows, before) ==
  /\ \A r \in rows : <<r, r>> \notin before
  /\ \A r, s, t \in rows :
       <<r, s>> \in before /\ <<s, t>> \in before => <<r, t>> \in before
  /\ \A r, s \in rows : r = s \/ <<r, s>> \in before \/ <<s, r>> \in before

Earlier(rows, before, r) == {s \in rows : <<s, r>> \in before}

LEMMA FewerEarlier ==
  ASSUME NEW rows, IsFiniteSet(rows), NEW before, IsOrder(rows, before),
         NEW r \in rows, NEW s \in rows, <<r, s>> \in before
  PROVE  Cardinality(Earlier(rows, before, r)) # Cardinality(Earlier(rows, before, s))
<1>1. PICK R : R = Earlier(rows, before, r)
  OBVIOUS
<1>2. PICK S : S = Earlier(rows, before, s)
  OBVIOUS
<1>3. R \in SUBSET S /\ S \in SUBSET rows /\ R # S
  BY <1>1, <1>2 DEF IsOrder, Earlier
<1>4. IsFiniteSet(S)
  BY <1>3, FS_Subset
<1>5. Cardinality(S) # Cardinality(R)
  BY <1>3, <1>4, FS_Subset
<1> QED
  BY <1>1, <1>2, <1>5

LEMMA SortedLists ==
  ASSUME NEW rows, IsFiniteSet(rows), NEW before, IsOrder(rows, before)
  PROVE  /\ Lists(Sorted(rows, before), rows)
         /\ DOMAIN Sorted(rows, before) = 1 .. Cardinality(rows)
         /\ Cardinality(rows) \in Nat
<1>1. PICK n \in Nat : n = Cardinality(rows)
  BY FS_CardinalityType
<1>2. PICK rank : rank = [r \in rows |-> Cardinality(Earlier(rows, before, r)) + 1]
  OBVIOUS
<1>3. ASSUME NEW r \in rows PROVE rank[r] \in 1 .. n
  <2>1. PICK S : S = Earlier(rows, before, r)
    OBVIOUS
  <2>2. S \in SUBSET rows /\ S # rows
    BY <2>1 DEF Earlier, IsOrder
  <2>3. IsFiniteSet(S) /\ Cardinality(S) <= Cardinality(rows)
        /\ Cardinality(S) # Cardinality(rows)
    BY <2>2, FS_Subset
  <2>4. Cardinality(S) \in Nat
    BY <2>3, FS_CardinalityType
  <2> QED
    BY <1>1, <1>2, <2>1, <2>3, <2>4
<1>4. ASSUME NEW r \in rows, NEW s \in rows, rank[r] = rank[s] PROVE r = s
  <2>1. rank[r] \in 1 .. n /\ rank[s] \in 1 .. n
    BY <1>3
  <2>2. Cardinality(Earlier(rows, before, r)) = Cardinality(Earlier(rows, before, s))
    <3>1. /\ IsFiniteSet(Earlier(rows, before, r))
          /\ IsFiniteSet(Earlier(rows, before, s))
      BY FS_Subset DEF Earlier
    <3>2. /\ Cardinality(Earlier(rows, before, r)) \in Nat
          /\ Cardinality(Earlier(rows, before, s)) \in Nat
      BY <3>1, FS_CardinalityType
    <3> QED
      BY <1>2, <1>4, <3>2
  <2> QED
    BY <2>2, FewerEarlier DEF IsOrder
<1>5. \A k \in 1 .. n : \E r \in rows : rank[r] = k
  <2>1. rank \in Injection(rows, 1 .. n)
    <3>1. rank \in [rows -> 1 .. n]
      BY <1>2, <1>3
    <3> QED
      BY <1>4, <3>1 DEF Injection, IsInjective
  <2>2. IsFiniteSet(1 .. n) /\ Cardinality(1 .. n) = n
    BY FS_Interval
  <2>3. rank \in Surjection(rows, 1 .. n)
    <3>1. PICK T : T = 1 .. n
      OBVIOUS
    <3>2. rank \in Injection(rows, T) /\ IsFiniteSet(T) /\ Cardinality(rows) = Cardinality(T)
      BY <1>1, <2>1, <2>2, <3>1
    <3>3. rank \in Surjection(rows, T)
      BY <3>2, FS_Injection
    <3> QED
      BY <3>1, <3>3
  <2> QED
    BY <2>3 DEF Surjection
<1>6. PICK list : list = Sorted(rows, before)
  OBVIOUS
<1>7. DOMAIN list = 1 .. n
  BY <1>1, <1>6 DEF Sorted
<1>8. \A k \in 1 .. n : list[k] \in rows /\ rank[list[k]] = k
  <2>1. ASSUME NEW k \in 1 .. n PROVE list[k] \in rows /\ rank[list[k]] = k
    <3>1. PICK r \in rows : rank[r] = k
      BY <1>5
    <3>2. \A s \in rows : /\ rank[s] = Cardinality({t \in rows : <<t, s>> \in before}) + 1
                          /\ Cardinality({t \in rows : <<t, s>> \in before}) \in Nat
      <4>1. \A s \in rows : IsFiniteSet(Earlier(rows, before, s))
        BY FS_Subset DEF Earlier
      <4>2. \A s \in rows : Cardinality(Earlier(rows, before, s)) \in Nat
        BY <4>1, FS_CardinalityType
      <4> QED
        BY <1>2, <4>2 DEF Earlier
    <3>3. \E s \in rows : Cardinality({t \in rows : <<t, s>> \in before}) = k - 1
      BY <3>1, <3>2
    <3>4. list[k] = CHOOSE s \in rows : Cardinality({t \in rows : <<t, s>> \in before}) = k - 1
      BY <1>1, <1>6 DEF Sorted
    <3>5. list[k] \in rows /\ Cardinality({t \in rows : <<t, list[k]>> \in before}) = k - 1
      BY <3>3, <3>4
    <3> QED
      BY <3>2, <3>5
  <2> QED
    BY <2>1
<1>9. Lists(list, rows)
  BY <1>3, <1>4, <1>7, <1>8 DEF Lists
<1> QED
  BY <1>1, <1>6, <1>7, <1>9

LEMMA NumberOrder ==
  ASSUME NEW rows, \A r \in rows : r.number \in Nat,
         \A r, s \in rows : r.number = s.number => r = s
  PROVE  IsOrder(rows, ByNumber(rows))
<1>1. \A r, s \in rows : <<r, s>> \in ByNumber(rows) <=> r.number < s.number
  BY DEF ByNumber
<1> QED
  BY <1>1 DEF IsOrder

LEMMA DueDateOrder ==
  ASSUME NEW rows, \A r \in rows : r.number \in Int /\ DueDate(r) \in Nat,
         \A r, s \in rows : r.number = s.number => r = s
  PROVE  IsOrder(rows, ByDueDate(rows))
<1>1. \A r, s \in rows :
        <<r, s>> \in ByDueDate(rows) <=>
          \/ DueDate(r) < DueDate(s)
          \/ DueDate(r) = DueDate(s) /\ r.number < s.number
  BY DEF ByDueDate
<1> QED
  BY <1>1 DEF IsOrder

LEMMA Least ==
  ASSUME NEW a \in Nat, NEW b \in Nat
  PROVE  /\ Min({a, b}) \in Nat /\ Min({a, b}) <= a /\ Min({a, b}) <= b
         /\ Min({a, b}) = a \/ Min({a, b}) = b
<1>1. \E x \in {a, b} : \A y \in {a, b} : x <= y
  OBVIOUS
<1>2. Min({a, b}) \in {a, b} /\ \A y \in {a, b} : Min({a, b}) <= y
  BY <1>1, Zenon DEF Min
<1> QED
  BY <1>2
------------------------------------------------------------------------------
(* The types of the money: what is left of a credit and what is due of a   *)
(* bill are natural numbers.                                               *)
ReceiptRow == [number : Nat, source : Payments, entry : Nat]
InvoiceRow ==
  [number : Int, source : Bills \cup Balances, entry : Nat, status : Statuses]
CreditRow == [receipt : Nat, unit : Units, spare : Nat]
OpenRow == [invoice : Int, total : Nat, due : Nat]
ToDo == [credits : Seq(CreditRow), open : Seq(OpenRow), status : Statuses]

Wrote(w) ==
  /\ w.allocations \in Seq(Rows)
  /\ \A n \in DOMAIN w.status : n \in Int /\ w.status[n] \in Statuses

Held(h) ==
  /\ Wrote(wrote[h]) /\ todo[h] \in ToDo
  /\ pc[h] \in NothingYet => wrote[h].allocations = <<>> /\ wrote[h].status = <<>>
  /\ pc[h] \in {"invoices", "allocate", "status"} => todo[h].credits # <<>>
  /\ pc[h] \in {"allocate", "status"} => todo[h].open # <<>>

TablesTyped ==
  /\ receipts \subseteq ReceiptRow /\ invoices \subseteq InvoiceRow /\ IsFiniteSet(invoices)
  /\ allocations \in Seq(Rows)
  /\ journal \subseteq [number : Nat, source : Sources, amount : Nat]

MoneyTyped ==
  /\ TablesTyped /\ OpeningsInv
  /\ locked \in BOOLEAN /\ overlapped \in BOOLEAN /\ unswept \subseteq Balances
  /\ requests \in Nat /\ crashes \in Nat
  /\ DOMAIN todo = Handlers
  /\ \A h \in Handlers : Held(h)

(* What a handler sees has these types, too, and has each number once.     *)
LEMMA SeenTyped ==
  ASSUME IInv, MoneyTyped, NEW h \in Handlers
  PROVE  /\ SeenReceipts(h) \subseteq ReceiptRow /\ SeenInvoices(h) \subseteq InvoiceRow
         /\ SeenAllocations(h) \in Seq(Rows) /\ IsFiniteSet(SeenInvoices(h))
<1> DEFINE all == invoices \cup Own(h, "bill", Invoice(h)) \cup Imported(h)
<1>1. /\ wrote[h].number \in Nat /\ wrote[h].entry \in Nat
      /\ request[h] \in Asked \cup {NoRequest}
  BY DEF IInv, ControlInv, Typed, Control
<1>2. SeenReceipts(h) \subseteq ReceiptRow
  BY <1>1, Kinds DEF SeenReceipts, Own, Receipt, ReceiptRow, MoneyTyped, TablesTyped
<1>3. all \subseteq InvoiceRow
  <2>1. invoices \cup Own(h, "bill", Invoice(h)) \subseteq InvoiceRow
    BY <1>1, Kinds DEF Own, Invoice, InvoiceRow, MoneyTyped, TablesTyped, Statuses
  <2>2. Imported(h) \subseteq InvoiceRow
    <3>1. wrote[h].balances \subseteq Balances
      BY DEF IInv, ControlInv, Control
    <3> QED
      BY <3>1, BooksAssumption DEF Imported, OpeningInvoice, InvoiceRow, Statuses
  <2> QED
    BY <2>1, <2>2
<1>4. \A i \in InvoiceRow : Restated(h, i) \in InvoiceRow
  <2>1. \A n \in DOMAIN wrote[h].status : wrote[h].status[n] \in Statuses
    BY DEF MoneyTyped, Held, Wrote
  <2> QED
    BY <2>1 DEF Restated, InvoiceRow
<1>5. SeenInvoices(h) \subseteq InvoiceRow
  BY <1>3, <1>4 DEF SeenInvoices
<1>6. SeenAllocations(h) \in Seq(Rows)
  BY DEF SeenAllocations, MoneyTyped, TablesTyped, Held, Wrote
<1>7. IsFiniteSet(SeenInvoices(h))
  <2>1. IsFiniteSet(wrote[h].balances)
    BY BooksAssumption, FS_Subset DEF IInv, ControlInv, Control
  <2>2. IsFiniteSet(Imported(h))
    <3> DEFINE f == [b \in wrote[h].balances |-> OpeningInvoice(b)]
    <3>1. f \in Surjection(wrote[h].balances, Imported(h))
      BY DEF Surjection, Imported
    <3> QED
      BY <2>1, <3>1, FS_Surjection
  <2>3. IsFiniteSet(Own(h, "bill", Invoice(h)))
    BY FS_EmptySet, FS_Singleton DEF Own
  <2>4. IsFiniteSet(invoices)
    BY DEF MoneyTyped, TablesTyped
  <2>5. IsFiniteSet(all)
    BY <2>2, <2>3, <2>4, FS_Union
  <2> HIDE DEF all
  <2>6. IsFiniteSet({Restated(h, i) : i \in all})
    <3> DEFINE seen == {Restated(h, i) : i \in all}
               f == [i \in all |-> Restated(h, i)]
    <3>1. f \in Surjection(all, seen)
      BY DEF Surjection
    <3> QED
      BY <2>5, <3>1, FS_Surjection
  <2> QED
    BY <2>6 DEF SeenInvoices, all
<1> QED
  BY <1>2, <1>5, <1>6, <1>7

LEMMA SeenNumbered ==
  ASSUME IInv, NEW h \in Handlers
  PROVE  \E k : Numbered(SeenReceipts(h), k)
<1>1. Numbered(receipts, Cardinality(receipts))
  BY DEF IInv, TablesInv
<1>2. Documents(h) /\ wrote[h].number # 0 =>
        wrote[h].number = Cardinality(RowsOf(h)) + 1
  BY DEF IInv, UncommittedInv, Uncommitted
<1>3. CASE Own(h, "pay", Receipt(h)) = {}
  BY <1>1, <1>3 DEF SeenReceipts
<1>4. CASE request[h].kind = "pay" /\ wrote[h].number # 0
  <2>1. SeenReceipts(h) = receipts \cup {Receipt(h)}
        /\ Receipt(h).number = Cardinality(receipts) + 1
    BY <1>2, <1>4 DEF SeenReceipts, Own, Receipt, Documents, RowsOf
  <2> QED
    BY <1>1, <2>1, OneMore
<1> QED
  BY <1>3, <1>4 DEF Own

LEMMA SeenApart ==
  ASSUME IInv, OpeningsInv, NEW h \in Handlers
  PROVE  \A i, j \in SeenInvoices(h) : i.number = j.number => i = j
<1> DEFINE own == Own(h, "bill", Invoice(h))
           all == invoices \cup own \cup Imported(h)
<1>1. \A i \in invoices :
        /\ DOMAIN i = {"number", "source", "entry", "status"} /\ i.number \in Int
        /\ i.number > 0 => i.number <= Cardinality(Billed)
        /\ i.number <= 0 => i.source \in Balances /\ i.number = NumberOf[i.source]
  BY DEF IInv, TablesInv, Numbered, Billed, OpeningsInv, OpeningRows
<1>2. \A i \in own :
        /\ DOMAIN i = {"number", "source", "entry", "status"}
        /\ i = Invoice(h) /\ i.number = Cardinality(Billed) + 1
        /\ Cardinality(Billed) \in Nat
  <2>1. request[h].kind = "bill" /\ wrote[h].number # 0 =>
          wrote[h].number = Cardinality(Billed) + 1
    BY DEF IInv, UncommittedInv, Uncommitted, Documents, RowsOf
  <2>2. Cardinality(Billed) \in Nat
    BY DEF IInv, TablesInv, Numbered
  <2> QED
    BY <2>1, <2>2 DEF Own, Invoice
<1>3. \A i \in Imported(h) :
        /\ DOMAIN i = {"number", "source", "entry", "status"}
        /\ i.source \in wrote[h].balances /\ i.source \in Balances
        /\ i = OpeningInvoice(i.source)
        /\ i.number = NumberOf[i.source] /\ i.number \in Int /\ i.number < 0
  <2>1. wrote[h].balances \subseteq Balances
    BY DEF IInv, ControlInv, Control
  <2> QED
    BY <2>1, BooksAssumption DEF Imported, OpeningInvoice
<1> HIDE DEF own
<1>4. \A i, j \in invoices : i.number = j.number => i = j
  BY DEF OpeningsInv, OpeningRows
<1>5. \A i \in invoices \cup Imported(h), j \in own : i.number # j.number
  BY <1>1, <1>2, <1>3
<1>6. \A i \in invoices, j \in Imported(h) : i.number # j.number
  <2>1. \A i \in invoices, j \in Imported(h) : i.source # j.source
    BY <1>3 DEF OpeningsInv, Importing
  <2>2. \A i \in invoices, j \in Imported(h) : i.number = j.number => i.source = j.source
    BY <1>1, <1>3, BooksAssumption
  <2> QED
    BY <2>1, <2>2
<1>7. \A i, j \in Imported(h) : i.number = j.number => i = j
  <2>1. \A i, j \in Imported(h) : i.number = j.number => i.source = j.source
    BY <1>3, BooksAssumption
  <2> QED
    BY <1>3, <2>1
<1>8. \A i, j \in own : i = j
  BY <1>2
<1>9. \A i, j \in all : i.number = j.number => i = j
  BY <1>4, <1>5, <1>6, <1>7, <1>8
<1>10. \A i \in all : Restated(h, i).number = i.number
  <2>1. \A i \in all : DOMAIN i = {"number", "source", "entry", "status"}
    BY <1>1, <1>2, <1>3
  <2> QED
    BY <2>1 DEF Restated
<1>11. SeenInvoices(h) = {Restated(h, i) : i \in all}
  BY DEF SeenInvoices, own
<1> HIDE DEF all
<1> QED
  BY <1>9, <1>10, <1>11

LEMMA Sums ==
  ASSUME NEW A \in Seq(Rows)
  PROVE  /\ \A i \in InvoiceRow : /\ Amount(i.source) \in Nat /\ PaidIn(A, i.number) \in Nat
                                  /\ Due(A, i) \in Int
         /\ \A r \in ReceiptRow : /\ Amount(r.source) \in Nat /\ AppliedIn(A, r.number) \in Nat
                                  /\ Spare(A, r) \in Int
<1>1. \A n : PaidIn(A, n) \in Nat /\ AppliedIn(A, n) \in Nat
  BY SumsAddUp
<1>2. \A r \in ReceiptRow : Amount(r.source) \in Nat
  BY BooksAssumption DEF ReceiptRow, Amount
<1>3. \A i \in InvoiceRow : Amount(i.source) \in Nat
  BY BooksAssumption DEF InvoiceRow, Amount, Bills
<1> QED
  BY <1>1, <1>2, <1>3 DEF Due, Spare

(* What applyAdvancesIn finds: every receipt with credit left, once.       *)
LEMMA CreditsRead ==
  ASSUME IInv, MoneyTyped, NEW h \in Handlers,
         NEW list, list = CreditsSeen(h)
  PROVE  /\ list \in Seq(CreditRow)
         /\ \A k, l \in DOMAIN list : list[k].receipt = list[l].receipt => k = l
         /\ \A k \in DOMAIN list :
              /\ list[k].spare > 0 /\ list[k].unit \in request[h].units
              /\ \E r \in SeenReceipts(h) :
                   /\ r.number = list[k].receipt /\ UnitOf[r.source] = list[k].unit
                   /\ list[k].spare = Spare(SeenAllocations(h), r)
         /\ \A r \in SeenReceipts(h) :
              UnitOf[r.source] \in request[h].units /\ Spare(SeenAllocations(h), r) > 0 =>
                \E k \in DOMAIN list : list[k].receipt = r.number
<1>1. PICK A \in Seq(Rows) : A = SeenAllocations(h)
  BY SeenTyped
<1>2. PICK R : R = SeenReceipts(h)
  OBVIOUS
<1>3. PICK rows : rows = {r \in R : UnitOf[r.source] \in request[h].units /\ Spare(A, r) > 0}
  OBVIOUS
<1>4. /\ R \subseteq ReceiptRow /\ IsFiniteSet(R)
      /\ \A r, s \in R : r.number = s.number => r = s
  <2>1. PICK k : Numbered(R, k)
    BY <1>2, SeenNumbered
  <2> QED
    BY <1>2, <2>1, SeenTyped, NumberedRows DEF Numbered
<1>5. rows \in SUBSET R /\ IsFiniteSet(rows)
  BY <1>3, <1>4, FS_Subset
<1>6. PICK sorted : sorted = Sorted(rows, ByNumber(rows))
  OBVIOUS
<1>7. Lists(sorted, rows)
  <2>1. IsOrder(rows, ByNumber(rows))
    BY <1>4, <1>5, NumberOrder DEF ReceiptRow
  <2> QED
    BY <1>5, <1>6, <2>1, SortedLists
<1>8. list = [k \in DOMAIN sorted |-> Credit(sorted[k].number, sorted[k].source,
                                             Spare(A, sorted[k]))]
  BY <1>1, <1>2, <1>3, <1>6 DEF CreditsSeen
<1>9. DOMAIN list = DOMAIN sorted
  BY <1>8
<1>10. \A k \in DOMAIN list :
         /\ sorted[k] \in rows /\ list[k].receipt = sorted[k].number
         /\ list[k].unit = UnitOf[sorted[k].source] /\ list[k].spare = Spare(A, sorted[k])
         /\ list[k] = [receipt |-> sorted[k].number, unit |-> UnitOf[sorted[k].source],
                       spare |-> Spare(A, sorted[k])]
  BY <1>7, <1>8, <1>9 DEF Credit, Lists
<1>11. \A r \in rows : Spare(A, r) \in Nat /\ Spare(A, r) > 0 /\ r.number \in Nat
                       /\ UnitOf[r.source] \in Units /\ UnitOf[r.source] \in request[h].units
  BY <1>3, <1>4, Sums, BooksAssumption DEF ReceiptRow
<1>12. list \in Seq(CreditRow)
  <2>1. PICK n \in Nat : DOMAIN list = 1 .. n
    BY <1>7, <1>9 DEF Lists
  <2>2. \A k \in 1 .. n : list[k] \in CreditRow
    BY <1>10, <1>11, <2>1 DEF CreditRow
  <2>3. list = [k \in 1 .. n |-> list[k]]
    BY <1>8, <2>1
  <2> QED
    BY <2>2, <2>3
<1>13. \A k, l \in DOMAIN list : list[k].receipt = list[l].receipt => k = l
  BY <1>4, <1>5, <1>7, <1>9, <1>10 DEF Lists
<1>14. \A r \in rows : \E k \in DOMAIN list : list[k].receipt = r.number
  BY <1>7, <1>9, <1>10 DEF Lists
<1> QED
  BY <1>1, <1>2, <1>3, <1>10, <1>11, <1>12, <1>13, <1>14

(* What the sweep of a credit finds: every invoice of the flat that is     *)
(* open and due, once.                                                     *)
LEMMA InvoicesRead ==
  ASSUME IInv, MoneyTyped, NEW h \in Handlers, NEW unit,
         NEW list, list = OpenInvoices(h, unit)
  PROVE  /\ list \in Seq(OpenRow)
         /\ \A k, l \in DOMAIN list : list[k].invoice = list[l].invoice => k = l
         /\ \A k \in DOMAIN list :
              /\ list[k].due > 0
              /\ \E i \in SeenInvoices(h) :
                   /\ i.number = list[k].invoice /\ UnitOfBill(i) = unit
                   /\ list[k].total = Amount(i.source)
                   /\ list[k].due = Due(SeenAllocations(h), i)
         /\ \A i \in SeenInvoices(h) :
              /\ UnitOfBill(i) = unit /\ i.status \in {"issued", "partially_paid"}
              /\ Due(SeenAllocations(h), i) > 0
              => \E k \in DOMAIN list : list[k].invoice = i.number
<1>1. PICK A \in Seq(Rows) : A = SeenAllocations(h)
  BY SeenTyped
<1>2. PICK I : I = SeenInvoices(h)
  OBVIOUS
<1>3. PICK rows : rows = {i \in I : /\ UnitOfBill(i) = unit
                                    /\ i.status \in {"issued", "partially_paid"}
                                    /\ Due(A, i) > 0}
  OBVIOUS
<1>4. /\ I \subseteq InvoiceRow /\ IsFiniteSet(I)
      /\ \A i, j \in I : i.number = j.number => i = j
  BY <1>2, SeenTyped, SeenApart DEF MoneyTyped
<1>5. rows \in SUBSET I /\ IsFiniteSet(rows)
  BY <1>3, <1>4, FS_Subset
<1>6. PICK sorted : sorted = Sorted(rows, ByDueDate(rows))
  OBVIOUS
<1>7. Lists(sorted, rows)
  <2>1. \A i \in rows : i.number \in Int /\ DueDate(i) \in Nat
    <3>1. \A i \in rows : i.number \in Int /\ i.source \in Bills \cup Balances
      BY <1>4, <1>5 DEF InvoiceRow
    <3>2. \A i \in rows : PeriodOf(i) \in Nat
      BY <3>1, BooksAssumption DEF PeriodOf, Bills
    <3> QED
      BY <3>1, <3>2 DEF DueDate
  <2>2. IsOrder(rows, ByDueDate(rows))
    BY <1>4, <1>5, <2>1, DueDateOrder
  <2> QED
    BY <1>5, <1>6, <2>2, SortedLists
<1>8. list = [k \in DOMAIN sorted |-> [invoice |-> sorted[k].number,
                                       total |-> Amount(sorted[k].source),
                                       due |-> Due(A, sorted[k])]]
  BY <1>1, <1>2, <1>3, <1>6 DEF OpenInvoices
<1>9. DOMAIN list = DOMAIN sorted
  BY <1>8
<1>10. \A k \in DOMAIN list :
         /\ sorted[k] \in rows /\ list[k].invoice = sorted[k].number
         /\ list[k].total = Amount(sorted[k].source) /\ list[k].due = Due(A, sorted[k])
         /\ list[k] = [invoice |-> sorted[k].number, total |-> Amount(sorted[k].source),
                       due |-> Due(A, sorted[k])]
  BY <1>7, <1>8, <1>9 DEF Lists
<1>11. \A i \in rows : /\ Due(A, i) \in Nat /\ Due(A, i) > 0 /\ i.number \in Int
                       /\ Amount(i.source) \in Nat /\ UnitOfBill(i) = unit
  BY <1>3, <1>4, Sums DEF InvoiceRow
<1>12. list \in Seq(OpenRow)
  <2>1. PICK n \in Nat : DOMAIN list = 1 .. n
    BY <1>7, <1>9 DEF Lists
  <2>2. \A k \in 1 .. n : list[k] \in OpenRow
    BY <1>10, <1>11, <2>1 DEF OpenRow
  <2>3. list = [k \in 1 .. n |-> list[k]]
    BY <1>8, <2>1
  <2> QED
    BY <2>2, <2>3
<1>13. \A k, l \in DOMAIN list : list[k].invoice = list[l].invoice => k = l
  BY <1>4, <1>5, <1>7, <1>9, <1>10 DEF Lists
<1>14. \A i \in rows : \E k \in DOMAIN list : list[k].invoice = i.number
  BY <1>7, <1>9, <1>10 DEF Lists
<1> QED
  BY <1>1, <1>2, <1>3, <1>5, <1>10, <1>11, <1>12, <1>13, <1>14

------------------------------------------------------------------------------
(* Every step keeps the types.                                             *)
Keeps(h) == DOMAIN todo' = Handlers /\ \A g \in Handlers \ {h} : todo'[g] = todo[g]

LEMMA EndingHolds ==
  ASSUME IInv, MoneyTyped, NEW h \in Handlers, End(h)
  PROVE  Keeps(h) /\ Held(h)'
<1>1. /\ pc'[h] = "idle"
      /\ wrote'[h] = [number |-> 0, entry |-> 0, allocations |-> <<>>, status |-> <<>>,
                      balances |-> {}]
      /\ todo'[h] = [credits |-> <<>>, open |-> <<>>, status |-> "issued"]
  BY DEF IInv, ControlInv, Typed, MoneyTyped, End, NothingWritten, NothingToDo
<1>2. Held(h)'
  BY <1>1 DEF Held, Wrote, ToDo, Statuses
<1> QED
  BY <1>2 DEF Keeps, End, MoneyTyped

LEMMA MovingHolds ==
  ASSUME IInv, MoneyTyped, NEW h \in Handlers, UNCHANGED todo,
         wrote'[h].allocations = wrote[h].allocations, wrote'[h].status = wrote[h].status,
         pc'[h] \notin {"invoices", "allocate", "status"},
         pc'[h] \in NothingYet => pc[h] \in NothingYet
  PROVE  Keeps(h) /\ Held(h)'
BY DEF MoneyTyped, Held, Wrote, Keeps

LEMMA NextCreditHolds ==
  ASSUME IInv, MoneyTyped, NEW h \in Handlers, NextCredit(h),
         pc[h] \in {"invoices", "status"}, Wrote(wrote'[h])
  PROVE  Keeps(h) /\ Held(h)'
<1>1. PICK rest : rest = Tail(todo[h].credits)
  OBVIOUS
<1>2. rest \in Seq(CreditRow)
  BY <1>1 DEF MoneyTyped, Held, ToDo
<1>3. todo' = [todo EXCEPT ![h] = [credits |-> rest, open |-> <<>>, status |-> "issued"]]
  <2>1. PICK t : t = [NothingToDo EXCEPT !.credits = rest]
    OBVIOUS
  <2>2. t = [credits |-> rest, open |-> <<>>, status |-> "issued"]
    BY <2>1 DEF NothingToDo
  <2>3. todo' = [todo EXCEPT ![h] = t]
    BY <1>1, <2>1 DEF NextCredit
  <2> QED
    BY <2>2, <2>3
<1>4. todo'[h] \in ToDo /\ todo'[h].credits = rest
  BY <1>2, <1>3 DEF MoneyTyped, ToDo, Statuses
<1>5. pc'[h] = IF rest = <<>> THEN AfterAllocating(h) ELSE "invoices"
  BY <1>1 DEF NextCredit, Goto, IInv, ControlInv, Typed
<1>6. Held(h)'
  BY <1>4, <1>5 DEF Held, AfterAllocating, NothingYet
<1> QED
  BY <1>3, <1>6 DEF Keeps, MoneyTyped

LEMMA InsertHolds ==
  ASSUME IInv, MoneyTyped, NEW h \in Handlers, Insert(h), ~End(h)
  PROVE  Keeps(h) /\ Held(h)'
<1>1. /\ wrote'[h].allocations = <<>> /\ wrote'[h].status = <<>>
  <2>1. wrote'[h] = [NothingWritten EXCEPT !.number = number[h]]
    BY DEF Insert, Abort, IInv, ControlInv, Typed
  <2> QED
    BY <2>1 DEF NothingWritten
<1>2. Wrote(wrote'[h])
  BY <1>1 DEF Wrote
<1>3. CASE request[h].kind = "bill"
  <2>1. pc'[h] = "period" /\ UNCHANGED todo
    BY <1>3 DEF Insert, Abort, Goto, IInv, ControlInv, Typed
  <2> QED
    BY <1>2, <2>1 DEF Held, Keeps, MoneyTyped, NothingYet
<1>4. CASE request[h].kind = "pay"
  <2>1. PICK c : c = Credit(number[h], request[h].source, Amount(request[h].source))
    OBVIOUS
  <2>2. c \in CreditRow
    <3>1. request[h].source \in Payments /\ number[h] \in Nat
      BY <1>4, Kinds DEF IInv, ControlInv, Typed
    <3> QED
      BY <2>1, <3>1, BooksAssumption DEF Credit, CreditRow, Amount
  <2>3. todo' = [todo EXCEPT ![h].credits = <<c>>] /\ pc'[h] = "invoices"
    BY <1>4, <2>1 DEF Insert, Abort, Goto, IInv, ControlInv, Typed
  <2>4. todo[h] \in ToDo /\ h \in DOMAIN todo
    BY DEF MoneyTyped, Held
  <2>5. todo'[h] \in ToDo /\ todo'[h].credits = <<c>>
    <3>1. PICK list : list = <<c>>
      OBVIOUS
    <3>2. list \in Seq(CreditRow)
      BY <2>2, <3>1
    <3>3. todo'[h] = [todo[h] EXCEPT !.credits = list]
      BY <2>3, <2>4, <3>1
    <3> QED
      BY <2>4, <3>1, <3>2, <3>3 DEF ToDo
  <2> QED
    BY <1>2, <2>3, <2>5 DEF Held, Keeps, MoneyTyped, NothingYet
<1> QED
  BY <1>3, <1>4 DEF Insert, Abort

LEMMA ReadCreditsHolds ==
  ASSUME IInv, MoneyTyped, NEW h \in Handlers, ReadCredits(h)
  PROVE  Keeps(h) /\ Held(h)'
<1>1. PICK list : list = CreditsSeen(h)
  OBVIOUS
<1>2. list \in Seq(CreditRow)
  BY <1>1, CreditsRead
<1>3. /\ todo' = [todo EXCEPT ![h].credits = list] /\ wrote' = wrote
      /\ pc'[h] = IF list = <<>> THEN "commit" ELSE "invoices"
  BY <1>1 DEF ReadCredits, Sweep, Goto, IInv, ControlInv, Typed
<1>4. todo[h] \in ToDo /\ h \in DOMAIN todo /\ Wrote(wrote[h])
  BY DEF MoneyTyped, Held
<1>5. todo'[h] \in ToDo /\ todo'[h].credits = list
  BY <1>2, <1>3, <1>4 DEF ToDo
<1> QED
  BY <1>3, <1>4, <1>5 DEF Held, Keeps, MoneyTyped, NothingYet

LEMMA ReadInvoicesHolds ==
  ASSUME IInv, MoneyTyped, NEW h \in Handlers, ReadInvoices(h)
  PROVE  Keeps(h) /\ Held(h)'
<1>1. PICK open : open = OpenInvoices(h, Head(todo[h].credits).unit)
  OBVIOUS
<1>2. open \in Seq(OpenRow)
  BY <1>1, InvoicesRead
<1>3. todo[h] \in ToDo /\ h \in DOMAIN todo /\ Wrote(wrote[h]) /\ wrote' = wrote
      /\ pc[h] = "invoices" /\ todo[h].credits # <<>>
  BY DEF MoneyTyped, Held, ReadInvoices
<1>4. CASE open = <<>>
  BY <1>1, <1>3, <1>4, NextCreditHolds DEF ReadInvoices
<1>5. CASE open # <<>>
  <2>1. todo' = [todo EXCEPT ![h].open = open] /\ pc'[h] = "allocate"
    BY <1>1, <1>5 DEF ReadInvoices, Goto, IInv, ControlInv, Typed
  <2>2. todo'[h] \in ToDo /\ todo'[h].open = open /\ todo'[h].credits = todo[h].credits
    BY <1>2, <1>3, <2>1 DEF ToDo
  <2> QED
    BY <1>3, <1>5, <2>1, <2>2 DEF Held, Keeps, MoneyTyped, NothingYet
<1> QED
  BY <1>4, <1>5

(* The heads of the lists, and what the next allocation takes.             *)
LEMMA Heads ==
  ASSUME MoneyTyped, NEW h \in Handlers, pc[h] \in {"allocate", "status"}
  PROVE  /\ Head(todo[h].credits) \in CreditRow /\ Head(todo[h].open) \in OpenRow
         /\ Tail(todo[h].credits) \in Seq(CreditRow) /\ Tail(todo[h].open) \in Seq(OpenRow)
         /\ Allocation(h) \in Rows
<1>1. todo[h] \in ToDo /\ todo[h].credits # <<>> /\ todo[h].open # <<>>
  BY DEF MoneyTyped, Held
<1>2. /\ Head(todo[h].credits) \in CreditRow /\ Head(todo[h].open) \in OpenRow
      /\ Tail(todo[h].credits) \in Seq(CreditRow) /\ Tail(todo[h].open) \in Seq(OpenRow)
  BY <1>1 DEF ToDo
<1>3. PICK c \in CreditRow : c = Head(todo[h].credits)
  BY <1>2
<1>4. PICK b \in OpenRow : b = Head(todo[h].open)
  BY <1>2
<1>5. c.spare \in Nat /\ b.due \in Nat /\ c.receipt \in Nat /\ b.invoice \in Int
  BY DEF CreditRow, OpenRow
<1>6. Min({c.spare, b.due}) \in Nat
  BY <1>5, Least
<1>7. Allocation(h) = [receipt |-> c.receipt, invoice |-> b.invoice,
                       amount |-> Min({c.spare, b.due})]
  BY <1>3, <1>4 DEF Allocation
<1> QED
  BY <1>2, <1>5, <1>6, <1>7 DEF Rows

LEMMA AllocateHolds ==
  ASSUME IInv, MoneyTyped, NEW h \in Handlers, Allocate(h)
  PROVE  Keeps(h) /\ Held(h)'
<1>1. PICK a \in Rows : a = Allocation(h)
  BY Heads DEF Allocate
<1>2. PICK s \in Statuses : todo' = [todo EXCEPT ![h].status = s]
  <2>1. \A p, t : StatusOf(p, t) \in Statuses
    BY DEF StatusOf, Statuses
  <2> QED
    BY <2>1, Zenon DEF Allocate
<1>3. /\ wrote' = [wrote EXCEPT ![h].allocations = Append(@, a)] /\ pc'[h] = "status"
      /\ pc[h] = "allocate"
  BY <1>1 DEF Allocate, Goto, IInv, ControlInv, Typed
<1>4. /\ wrote'[h].allocations = Append(wrote[h].allocations, a)
      /\ wrote'[h].status = wrote[h].status
  BY <1>3 DEF IInv, ControlInv, Typed, Control
<1>5. /\ todo[h] \in ToDo /\ h \in DOMAIN todo /\ Wrote(wrote[h])
      /\ todo[h].credits # <<>> /\ todo[h].open # <<>>
  BY <1>3 DEF MoneyTyped, Held
<1>6. Wrote(wrote'[h])
  BY <1>4, <1>5 DEF Wrote
<1>7. /\ todo'[h] \in ToDo /\ todo'[h].credits = todo[h].credits
      /\ todo'[h].open = todo[h].open
  BY <1>2, <1>5 DEF ToDo
<1> QED
  BY <1>2, <1>3, <1>5, <1>6, <1>7 DEF Held, Keeps, MoneyTyped, NothingYet

LEMMA UpdateStatusHolds ==
  ASSUME IInv, MoneyTyped, NEW h \in Handlers, UpdateStatus(h)
  PROVE  Keeps(h) /\ Held(h)'
<1>1. PICK c \in CreditRow : c = Head(todo[h].credits)
  BY Heads DEF UpdateStatus
<1>2. PICK b \in OpenRow : b = Head(todo[h].open)
  BY Heads DEF UpdateStatus
<1>3. PICK left \in Nat : left = c.spare - Min({c.spare, b.due})
  <2>1. c.spare \in Nat /\ b.due \in Nat
    BY DEF CreditRow, OpenRow
  <2> QED
    BY <2>1, Least
<1>4. /\ todo[h] \in ToDo /\ h \in DOMAIN todo /\ Wrote(wrote[h]) /\ pc[h] = "status"
      /\ todo[h].status \in Statuses /\ b.invoice \in Int
  BY DEF MoneyTyped, Held, UpdateStatus, ToDo, OpenRow
<1>5. Wrote(wrote'[h])
  <2>1. PICK st : st = [n \in DOMAIN wrote[h].status \cup {b.invoice} |->
                          IF n = b.invoice THEN todo[h].status ELSE wrote[h].status[n]]
    OBVIOUS
  <2>2. wrote' = [wrote EXCEPT ![h].status = st]
    BY <1>2, <2>1 DEF UpdateStatus
  <2>3. wrote'[h].status = st /\ wrote'[h].allocations = wrote[h].allocations
    BY <2>2 DEF IInv, ControlInv, Typed, Control
  <2>4. \A n \in DOMAIN st : n \in Int /\ st[n] \in Statuses
    BY <1>4, <2>1 DEF Wrote
  <2> QED
    BY <1>4, <2>3, <2>4 DEF Wrote
<1>6. CASE left = 0 \/ Tail(todo[h].open) = <<>>
  <2>1. NextCredit(h)
    BY <1>1, <1>2, <1>3, <1>6 DEF UpdateStatus
  <2> QED
    BY <1>4, <1>5, <2>1, NextCreditHolds
<1>7. CASE ~(left = 0 \/ Tail(todo[h].open) = <<>>)
  <2>1. PICK rest : rest = Tail(todo[h].open)
    OBVIOUS
  <2>2. PICK d : d = [c EXCEPT !.spare = left]
    OBVIOUS
  <2>3. PICK list : list = <<d>> \o Tail(todo[h].credits)
    OBVIOUS
  <2>4. d \in CreditRow
    BY <2>2 DEF CreditRow
  <2>5. list \in Seq(CreditRow) /\ list # <<>> /\ rest \in Seq(OpenRow) /\ rest # <<>>
    BY <1>4, <1>7, <2>1, <2>3, <2>4, Heads
  <2>6. PICK t : t = [NothingToDo EXCEPT !.credits = list, !.open = rest]
    OBVIOUS
  <2>7. t = [credits |-> list, open |-> rest, status |-> "issued"]
    BY <2>6 DEF NothingToDo
  <2>8. todo' = [todo EXCEPT ![h] = t] /\ Goto(h, "allocate")
    BY <1>1, <1>2, <1>3, <1>7, <2>1, <2>2, <2>3, <2>6 DEF UpdateStatus
  <2>9. pc'[h] = "allocate"
    BY <2>8 DEF Goto, IInv, ControlInv, Typed
  <2>10. todo'[h] = t /\ t \in ToDo /\ t.credits # <<>> /\ t.open # <<>>
    BY <1>4, <2>5, <2>7, <2>8 DEF ToDo, Statuses
  <2> QED
    BY <1>5, <2>8, <2>9, <2>10 DEF Held, Keeps, MoneyTyped, NothingYet
<1> QED
  BY <1>6, <1>7

LEMMA StepsHold ==
  ASSUME IInv, MoneyTyped, NEW h \in Handlers,
         Step(h) \/ Crash(h) \/ \E r \in Asked : Start(h, r)
  PROVE  Keeps(h) /\ Held(h)'
<1>1. CASE End(h)
  BY <1>1, EndingHolds
<1>2. CASE Start(h, CHOOSE r \in Asked : Start(h, r))
  BY <1>2, MovingHolds DEF Start, IInv, ControlInv, Typed, NothingYet
<1>3. CASE (FastPath(h) \/ CheckBilled(h)) /\ ~End(h)
  <2>1. Goto(h, "number") /\ UNCHANGED <<wrote, todo>>
    BY <1>3 DEF FastPath, CheckBilled, Abort
  <2> QED
    BY <1>3, <2>1, MovingHolds
       DEF FastPath, CheckBilled, Goto, IInv, ControlInv, Typed, NothingYet
<1>4. CASE ReadNumber(h)
  BY <1>4, MovingHolds DEF ReadNumber, Goto, IInv, ControlInv, Typed, NothingYet
<1>5. CASE ReadPeriod(h) /\ ~End(h)
  BY <1>5, MovingHolds DEF ReadPeriod, Abort, Goto, IInv, ControlInv, Typed, NothingYet
<1>6. CASE PostEntry(h) /\ ~End(h)
  <2>1. /\ wrote' = [wrote EXCEPT ![h].entry = number[h]] /\ UNCHANGED todo
        /\ pc'[h] \in {"commit", "credits"}
    BY <1>6 DEF PostEntry, Abort, IInv, ControlInv, Typed
  <2>2. wrote'[h].allocations = wrote[h].allocations /\ wrote'[h].status = wrote[h].status
    BY <2>1 DEF IInv, ControlInv, Typed, Control
  <2> QED
    BY <2>1, <2>2, MovingHolds DEF NothingYet
<1>7. CASE Insert(h) /\ ~End(h)
  BY <1>7, InsertHolds
<1>8. CASE TimeOut(h) \/ Crash(h) \/ Commit(h)
  BY <1>1, <1>8 DEF TimeOut, Crash, Commit, Abort
<1>9. CASE OpenSheet(h)
  BY <1>9, MovingHolds DEF OpenSheet, Goto, IInv, ControlInv, Typed, NothingYet
<1>10. CASE Import(h) /\ ~End(h)
  <2>1. PICK sheet \in SUBSET Balances :
          /\ wrote' = [wrote EXCEPT ![h].balances = sheet]
          /\ UNCHANGED todo /\ pc[h] = "import" /\ pc' = [pc EXCEPT ![h] = "commit"]
    BY <1>10, Zenon DEF Import, Abort, Goto
  <2>2. /\ wrote'[h].allocations = wrote[h].allocations /\ wrote'[h].status = wrote[h].status
        /\ pc'[h] = "commit" /\ UNCHANGED todo
    BY <2>1 DEF IInv, ControlInv, Typed, Control
  <2> QED
    BY <2>2, MovingHolds DEF NothingYet
<1> QED
  BY <1>1, <1>2, <1>3, <1>4, <1>5, <1>6, <1>7, <1>8, <1>9, <1>10,
     ReadCreditsHolds, ReadInvoicesHolds, AllocateHolds, UpdateStatusHolds DEF Step

LEMMA TablesStay ==
  ASSUME IInv, MoneyTyped, NEW h \in Handlers,
         Step(h) \/ Crash(h) \/ \E r \in Asked : Start(h, r)
  PROVE  /\ TablesTyped' /\ UNCHANGED locked /\ overlapped' \in BOOLEAN
         /\ unswept' \subseteq Balances /\ requests' \in Nat /\ crashes' \in Nat
<1>1. /\ UNCHANGED overlapped \/ Opens(h)
      /\ UNCHANGED locked
      /\ UNCHANGED unswept \/ unswept' = StillUnswept(h)
  BY DEF Step, FastPath, CheckBilled, ReadNumber, Insert, OpenSheet, Import, ReadCredits, Sweep,
         ReadInvoices, Allocate, UpdateStatus, ReadPeriod, PostEntry, Commit, TimeOut, Crash,
         Start, history
<1>2. requests' \in Nat /\ crashes' \in Nat
  <2>1. requests \in Nat /\ crashes \in Nat
    BY DEF MoneyTyped
  <2>2. CASE Step(h)
    <3>1. UNCHANGED counts
      BY <2>2
         DEF Step, FastPath, CheckBilled, ReadNumber, Insert, OpenSheet, Import, ReadCredits,
             Sweep, ReadInvoices, Allocate, UpdateStatus, ReadPeriod, PostEntry, Commit, TimeOut
    <3> QED
      BY <2>1, <3>1 DEF counts
  <2>3. CASE Crash(h) \/ \E r \in Asked : Start(h, r)
    BY <2>1, <2>3 DEF Crash, Start
  <2> QED
    BY <2>2, <2>3
<1>3. overlapped' \in BOOLEAN
  <2>1. overlapped \in BOOLEAN
    BY DEF MoneyTyped
  <2>2. CASE Opens(h)
    BY <2>2, Zenon DEF Opens
  <2>3. UNCHANGED overlapped \/ Opens(h)
    BY <1>1
  <2> QED
    BY <2>1, <2>2, <2>3, Zenon
<1>9. unswept' \subseteq Balances
  <2>1. unswept \subseteq Balances /\ wrote[h].balances \subseteq Balances
    BY DEF MoneyTyped, IInv, ControlInv, Control
  <2> QED
    BY <1>1, <2>1 DEF StillUnswept
<1>4. TablesTyped
  BY DEF MoneyTyped
<1>5. CASE Commit(h)
  <2>1. /\ receipts' = SeenReceipts(h) /\ invoices' = SeenInvoices(h)
        /\ allocations' = SeenAllocations(h) /\ journal' = journal
    BY <1>5 DEF Commit
  <2>2. /\ SeenReceipts(h) \subseteq ReceiptRow /\ SeenInvoices(h) \subseteq InvoiceRow
        /\ SeenAllocations(h) \in Seq(Rows) /\ IsFiniteSet(SeenInvoices(h))
    BY SeenTyped
  <2>3. TablesTyped'
    BY <1>4, <2>1, <2>2 DEF TablesTyped
  <2> QED
    BY <1>1, <1>2, <1>3, <1>9, <2>3
<1>6. CASE PostEntry(h) /\ UNCHANGED tables /\ ~UNCHANGED journal
  <2>1. request[h].kind \in {"pay", "bill"} /\ request[h] \in Asked \cup {NoRequest}
    BY <1>6 DEF PostEntry, IInv, ControlInv, Typed, Control, Documents
  <2>2. request[h].source \in Sources /\ Amount(request[h].source) \in Nat /\ number[h] \in Nat
    BY <2>1, Kinds, BooksAssumption DEF Sources, Amount, Bills, IInv, ControlInv, Typed
  <2>3. journal' = journal \cup {[number |-> number[h], source |-> request[h].source,
                                  amount |-> Amount(request[h].source)]}
    BY <1>6 DEF PostEntry, Abort
  <2>4. journal' \subseteq [number : Nat, source : Sources, amount : Nat]
    BY <1>4, <2>2, <2>3 DEF TablesTyped
  <2>5. UNCHANGED <<receipts, invoices, allocations>>
    BY <1>6 DEF tables
  <2>6. TablesTyped'
    BY <1>4, <2>4, <2>5 DEF TablesTyped
  <2> QED
    BY <1>1, <1>2, <1>3, <1>9, <2>6
<1>7. CASE UNCHANGED <<tables, journal>>
  <2>1. TablesTyped'
    BY <1>4, <1>7 DEF tables, TablesTyped
  <2> QED
    BY <1>1, <1>2, <1>3, <1>9, <2>1
<1>8. \/ Commit(h) \/ UNCHANGED <<tables, journal>>
      \/ PostEntry(h) /\ UNCHANGED tables
  BY DEF Step, FastPath, CheckBilled, ReadNumber, Insert, OpenSheet, Import, ReadCredits, Sweep, ReadInvoices,
         Allocate, UpdateStatus, ReadPeriod, PostEntry, TimeOut, Crash, Start, Goto, Abort,
         NextCredit, tables
<1> QED
  BY <1>5, <1>6, <1>7, <1>8

LEMMA TypesNext ==
  ASSUME IInv, MoneyTyped, [Next]_vars, OpeningsInv'
  PROVE  MoneyTyped'
<1>1. ASSUME NEW h \in Handlers,
             Step(h) \/ Crash(h) \/ \E r \in Asked : Start(h, r)
      PROVE  MoneyTyped'
  <2>1. Keeps(h) /\ Held(h)' /\ Others(h)
    BY <1>1, StepsHold, HandlerSteps
  <2>2. \A g \in Handlers \ {h} : Held(g)'
    BY <2>1 DEF Keeps, Others, MoneyTyped, Held
  <2> QED
    BY <1>1, <2>1, <2>2, TablesStay DEF MoneyTyped, Keeps
<1>2. CASE Committee \/ UNCHANGED vars
  BY <1>2 DEF Committee, LockPeriod, ReopenPeriod, vars, tables, locals, history, counts,
              MoneyTyped, TablesTyped, Held
<1> QED
  BY <1>1, <1>2 DEF Next

LEMMA TypesInit ==
  ASSUME Init
  PROVE  MoneyTyped
<1>1. ASSUME NEW h \in Handlers PROVE Held(h)
  <2>1. /\ wrote[h] = NothingWritten /\ todo[h] = NothingToDo /\ pc[h] = "idle"
    BY DEF Init
  <2>2. Wrote(wrote[h])
    BY <2>1 DEF Wrote, NothingWritten
  <2>3. todo[h] \in ToDo
    BY <2>1 DEF ToDo, NothingToDo, Statuses
  <2> QED
    BY <2>1, <2>2, <2>3 DEF Held, NothingWritten
<1>2. TablesTyped
  BY FS_EmptySet DEF Init, TablesTyped
<1>3. OpeningsInv
  BY DEF Init, OpeningsInv, OpeningRows, Importing, NothingWritten
<1> QED
  BY <1>1, <1>2, <1>3 DEF Init, MoneyTyped

LEMMA Types == Spec => []MoneyTyped
<1>1. Init => MoneyTyped
  BY TypesInit
<1>2. IInv /\ MoneyTyped /\ [Next]_vars /\ OpeningsInv' => MoneyTyped'
  BY TypesNext
<1> QED
  BY <1>1, <1>2, Invariance, Openings, PTL DEF Spec

(* The tables and what the handlers hold keep their shapes: whatever is    *)
(* read, sorted and split, an amount that is written is a natural number   *)
(* and a status is one of the three.                                       *)
THEOREM ShapesAreKept == Spec => []TypeOK
<1>1. IInv /\ MoneyTyped => TypeOK
  BY DEF IInv, ControlInv, Typed, Control, MoneyTyped, TablesTyped, Held, Wrote, TypeOK,
         ReceiptRow, InvoiceRow
<1> QED
  BY <1>1, Invariance, Types, PTL

------------------------------------------------------------------------------
(* Receipts, invoices and allocations of some flats that fit: nothing is   *)
(* applied beyond what there is, an invoice says what was paid of it (one  *)
(* of nothing is issued for good), and no flat owes and is owed; but for   *)
(* invoices that are late to say so, and for pairs that are left to be     *)
(* settled.                                                                *)
Says(paid, total) == IF total = 0 THEN "issued" ELSE StatusOf(paid, total)

NotOverspent(R, A, units) == \A r \in R : UnitOf[r.source] \in units => Spare(A, r) >= 0

SaysWhatIsPaid(I, A, units, late) ==
  \A i \in I : UnitOfBill(i) \in units =>
    /\ Due(A, i) >= 0
    /\ i.number \notin late => i.status = Says(PaidIn(A, i.number), Amount(i.source))

Settled(R, I, A, units, left) ==
  \A r \in R, i \in I :
    UnitOf[r.source] = UnitOfBill(i) /\ UnitOfBill(i) \in units =>
      Spare(A, r) = 0 \/ Due(A, i) = 0 \/ <<r.number, i.number>> \in left

Balanced(R, I, A, units, late, left) ==
  /\ NotOverspent(R, A, units)
  /\ SaysWhatIsPaid(I, A, units, late)
  /\ Settled(R, I, A, units, left)

(* Allocations are of receipts and invoices of these flats.                *)
Known(R, I, A, units) ==
  \A k \in DOMAIN A :
    /\ \E r \in R : r.number = A[k].receipt /\ UnitOf[r.source] \in units
    /\ \E i \in I : i.number = A[k].invoice /\ UnitOfBill(i) \in units

(* Invoices that are restated are of these flats, too.                     *)
Restates(status, I, units) ==
  \A n \in DOMAIN status : \E i \in I : i.number = n /\ UnitOfBill(i) \in units

(* The credits and the open invoices a handler holds: what it has taken of *)
(* the first of either is not subtracted yet.                              *)
CreditsFit(list, R, A, units, taken) ==
  /\ \A k, l \in DOMAIN list : list[k].receipt = list[l].receipt => k = l
  /\ \A k \in DOMAIN list :
       /\ list[k].spare > 0 /\ list[k].unit \in units
       /\ \E r \in R : /\ r.number = list[k].receipt /\ UnitOf[r.source] = list[k].unit
                       /\ list[k].spare = Spare(A, r) + (IF k = 1 THEN taken ELSE 0)

OpenFits(list, I, A, unit, taken) ==
  /\ \A k, l \in DOMAIN list : list[k].invoice = list[l].invoice => k = l
  /\ \A k \in DOMAIN list :
       /\ list[k].due > 0 /\ list[k].total > 0
       /\ \E i \in I : /\ i.number = list[k].invoice /\ UnitOfBill(i) = unit
                       /\ list[k].total = Amount(i.source)
                       /\ list[k].due = Due(A, i) + (IF k = 1 THEN taken ELSE 0)

(* The same rows and the same sums, as far as some flats are concerned.    *)
Alike(R, I, A, Q, J, B, units) ==
  /\ \A q \in Q : UnitOf[q.source] \in units =>
       \E r \in R : r.number = q.number /\ r.source = q.source
  /\ \A r \in R : UnitOf[r.source] \in units =>
       /\ \E q \in Q : q.number = r.number /\ q.source = r.source
       /\ AppliedIn(B, r.number) = AppliedIn(A, r.number)
  /\ \A j \in J : UnitOfBill(j) \in units =>
       \E i \in I : i.number = j.number /\ i.source = j.source /\ i.status = j.status
  /\ \A i \in I : UnitOfBill(i) \in units =>
       /\ \E j \in J : j.number = i.number /\ j.source = i.source
       /\ PaidIn(B, i.number) = PaidIn(A, i.number)

LEMMA AlikeRows ==
  ASSUME NEW R, NEW I, NEW A, NEW Q, NEW J, NEW B, NEW units, Alike(R, I, A, Q, J, B, units)
  PROVE  /\ \A q \in Q : UnitOf[q.source] \in units =>
              \E r \in R : r.number = q.number /\ r.source = q.source /\ Spare(B, q) = Spare(A, r)
         /\ \A r \in R : UnitOf[r.source] \in units =>
              \E q \in Q : q.number = r.number /\ q.source = r.source /\ Spare(B, q) = Spare(A, r)
         /\ \A j \in J : UnitOfBill(j) \in units =>
              \E i \in I : /\ i.number = j.number /\ i.source = j.source /\ i.status = j.status
                           /\ Due(B, j) = Due(A, i)
                           /\ PaidIn(B, j.number) = PaidIn(A, i.number)
         /\ \A i \in I : UnitOfBill(i) \in units =>
              \E j \in J : j.number = i.number /\ j.source = i.source /\ Due(B, j) = Due(A, i)
BY DEF Alike, Spare, Due, UnitOfBill

LEMMA AlikeBalanced ==
  ASSUME NEW R, NEW I, NEW A, NEW Q, NEW J, NEW B, NEW units, Alike(R, I, A, Q, J, B, units),
         NEW late, NEW left, Balanced(R, I, A, units, late, left)
  PROVE  Balanced(Q, J, B, units, late, left)
<1>1. NotOverspent(Q, B, units)
  BY AlikeRows DEF Balanced, NotOverspent
<1>2. SaysWhatIsPaid(J, B, units, late)
  BY AlikeRows DEF Balanced, SaysWhatIsPaid, UnitOfBill
<1>3. Settled(Q, J, B, units, left)
  BY AlikeRows DEF Balanced, Settled, UnitOfBill
<1> QED
  BY <1>1, <1>2, <1>3 DEF Balanced

LEMMA AlikeLists ==
  ASSUME NEW R, NEW I, NEW A, NEW Q, NEW J, NEW B, NEW units, Alike(R, I, A, Q, J, B, units),
         NEW list, NEW taken
  PROVE  /\ CreditsFit(list, R, A, units, taken) => CreditsFit(list, Q, B, units, taken)
         /\ \A unit \in units :
              OpenFits(list, I, A, unit, taken) => OpenFits(list, J, B, unit, taken)
<1>1. ASSUME CreditsFit(list, R, A, units, taken)
      PROVE  CreditsFit(list, Q, B, units, taken)
  <2>1. ASSUME NEW k \in DOMAIN list
        PROVE  \E q \in Q : /\ q.number = list[k].receipt /\ UnitOf[q.source] = list[k].unit
                            /\ list[k].spare = Spare(B, q) + (IF k = 1 THEN taken ELSE 0)
    <3>1. PICK r \in R : /\ r.number = list[k].receipt /\ UnitOf[r.source] = list[k].unit
                         /\ list[k].spare = Spare(A, r) + (IF k = 1 THEN taken ELSE 0)
      BY <1>1, <2>1 DEF CreditsFit
    <3>2. UnitOf[r.source] \in units
      BY <1>1, <2>1, <3>1 DEF CreditsFit
    <3>3. PICK q \in Q : q.number = r.number /\ q.source = r.source /\ Spare(B, q) = Spare(A, r)
      BY <3>2, AlikeRows
    <3> QED
      BY <3>1, <3>3
  <2> QED
    BY <1>1, <2>1 DEF CreditsFit
<1>2. ASSUME NEW unit \in units, OpenFits(list, I, A, unit, taken)
      PROVE  OpenFits(list, J, B, unit, taken)
  <2>1. ASSUME NEW k \in DOMAIN list
        PROVE  \E j \in J : /\ j.number = list[k].invoice /\ UnitOfBill(j) = unit
                            /\ list[k].total = Amount(j.source)
                            /\ list[k].due = Due(B, j) + (IF k = 1 THEN taken ELSE 0)
    <3>1. PICK i \in I : /\ i.number = list[k].invoice /\ UnitOfBill(i) = unit
                         /\ list[k].total = Amount(i.source)
                         /\ list[k].due = Due(A, i) + (IF k = 1 THEN taken ELSE 0)
      BY <1>2, <2>1 DEF OpenFits
    <3>2. PICK j \in J : j.number = i.number /\ j.source = i.source /\ Due(B, j) = Due(A, i)
      BY <3>1, AlikeRows
    <3> QED
      BY <3>1, <3>2 DEF UnitOfBill
  <2> QED
    BY <1>2, <2>1 DEF OpenFits
<1> QED
  BY <1>1, <1>2

------------------------------------------------------------------------------
(* What a handler sees fits while it works, and what is committed fits; as *)
(* long as no two transactions of a flat overlap.                          *)
ReceiptsOf(list) == {list[k].receipt : k \in DOMAIN list}
InvoicesOf(list) == {list[k].invoice : k \in DOMAIN list}

(* Opening balances that nobody has swept; when this handler commits.      *)
Waiting(balances, units) ==
  Nat \X {NumberOf[b] : b \in {c \in balances : UnitOf[c] \in units}}
Asleep(h) == Waiting(StillUnswept(h), request[h].units)

(* A bill that has not been swept yet, and what the sweep has still to do. *)
Sweeping(h) ==
  IF pc[h] \in {"period", "post", "credits"} /\ request[h].kind = "bill" THEN Nat \X Int
  ELSE IF pc[h] = "invoices" THEN ReceiptsOf(todo[h].credits) \X Int
  ELSE IF pc[h] \in {"allocate", "status"}
    THEN (ReceiptsOf(Tail(todo[h].credits)) \X Int)
         \cup ({Head(todo[h].credits).receipt} \X InvoicesOf(todo[h].open))
  ELSE {}

Left(h) == Asleep(h) \cup Sweeping(h)

(* Between the allocation and the update of the status.                    *)
Late(h) == IF pc[h] = "status" THEN {Head(todo[h].open).invoice} ELSE {}
Taken(h) ==
  IF pc[h] = "status" THEN Min({Head(todo[h].credits).spare, Head(todo[h].open).due}) ELSE 0

Fits(h) ==
  /\ Balanced(SeenReceipts(h), SeenInvoices(h), SeenAllocations(h), request[h].units,
              Late(h), Left(h))
  /\ Known(SeenReceipts(h), SeenInvoices(h), wrote[h].allocations, request[h].units)
  /\ Restates(wrote[h].status, SeenInvoices(h), request[h].units)
  /\ pc[h] \in {"invoices", "allocate", "status"} =>
       CreditsFit(todo[h].credits, SeenReceipts(h), SeenAllocations(h), request[h].units,
                  Taken(h))
  /\ pc[h] \in {"allocate", "status"} =>
       OpenFits(todo[h].open, SeenInvoices(h), SeenAllocations(h),
                Head(todo[h].credits).unit, Taken(h))
  /\ pc[h] = "status" =>
       todo[h].status = StatusOf(PaidIn(SeenAllocations(h), Head(todo[h].open).invoice),
                                 Head(todo[h].open).total)

BooksFit ==
  /\ Balanced(receipts, invoices, allocations, Units, {}, Waiting(unswept, Units))
  /\ Known(receipts, invoices, allocations, Units)

Working(h) == pc[h] \notin NothingYet

MoneyInv == ~overlapped => BooksFit /\ \A h \in Handlers : Working(h) => Fits(h)

(* The rows of what is committed, and of what a handler sees.              *)
Tabled(R, I, A) ==
  /\ R \subseteq ReceiptRow /\ I \subseteq InvoiceRow /\ A \in Seq(Rows)
  /\ \A r, s \in R : r.number = s.number => r = s
  /\ \A i, j \in I : i.number = j.number => i = j

AllTabled ==
  /\ Tabled(receipts, invoices, allocations)
  /\ \A h \in Handlers : Tabled(SeenReceipts(h), SeenInvoices(h), SeenAllocations(h))

LEMMA TablesAreTabled == IInv /\ MoneyTyped => AllTabled
<1> SUFFICES ASSUME IInv, MoneyTyped PROVE AllTabled
  OBVIOUS
<1>1. Tabled(receipts, invoices, allocations)
  BY DEF IInv, TablesInv, Numbered, MoneyTyped, TablesTyped, OpeningsInv, OpeningRows, Tabled
<1>2. ASSUME NEW h \in Handlers
      PROVE  Tabled(SeenReceipts(h), SeenInvoices(h), SeenAllocations(h))
  BY SeenTyped, SeenNumbered, SeenApart DEF MoneyTyped, Numbered, Tabled
<1> QED
  BY <1>1, <1>2 DEF AllTabled

LEMMA TabledNext ==
  ASSUME IInv', MoneyTyped'
  PROVE  AllTabled'
BY TablesAreTabled, PTL

LEMMA NoneImported ==
  ASSUME MoneyTyped, NEW h \in Handlers, pc[h] # "commit"
  PROVE  wrote[h].balances = {} /\ Imported(h) = {}
<1>1. wrote[h].balances = {}
  BY DEF MoneyTyped, OpeningsInv, Importing
<1> QED
  BY <1>1 DEF Imported

LEMMA SeenAtFirst ==
  ASSUME IInv, MoneyTyped, NEW h \in Handlers, pc[h] \in NothingYet
  PROVE  /\ SeenReceipts(h) = receipts /\ SeenInvoices(h) = invoices
         /\ SeenAllocations(h) = allocations
<1>1. wrote[h].number = 0 /\ wrote[h].allocations = <<>> /\ wrote[h].status = <<>>
  BY DEF IInv, ControlInv, Control, MoneyTyped, Held
<1>2. \A i \in invoices : Restated(h, i) = i
  BY <1>1 DEF Restated
<1>3. allocations \in Seq(Rows)
  BY DEF MoneyTyped, TablesTyped
<1>4. Imported(h) = {}
  BY NoneImported DEF NothingYet
<1> QED
  BY <1>1, <1>2, <1>3, <1>4 DEF SeenReceipts, SeenInvoices, SeenAllocations, Own

LEMMA UnitsAsked ==
  ASSUME IInv, NEW h \in Handlers
  PROVE  request[h].units \subseteq Units
<1>1. request[h] \in Asked \cup {NoRequest}
  BY DEF IInv, ControlInv, Typed
<1>2. \A sheet \in SUBSET Balances : FlatsOf(sheet) \subseteq Units
  BY BooksAssumption DEF FlatsOf
<1>3. \A r \in Asked : r.units \subseteq Units
  <2> SUFFICES ASSUME NEW r \in Asked PROVE r.units \subseteq Units
    OBVIOUS
  <2>1. CASE \E p \in Payments : r = Request("pay", p, {UnitOf[p]})
    BY <2>1, BooksAssumption DEF Request
  <2>2. CASE \E b \in Bills : r = Request("bill", b, {b[1]})
    BY <2>2 DEF Request, Bills
  <2>3. CASE \E units \in {{u} : u \in Units} \cup {Units} : r = Request("sweep", None, units)
    BY <2>3 DEF Request
  <2>4. CASE \E sheet \in SUBSET Balances : r = Request("import", None, FlatsOf(sheet))
    BY <1>2, <2>4 DEF Request
  <2> QED
    BY <2>1, <2>2, <2>3, <2>4 DEF Asked
<1> QED
  BY <1>1, <1>3 DEF NoRequest, Request

LEMMA StillBalanced ==
  ASSUME NEW R, NEW I, NEW A, NEW units, NEW late, NEW left,
         Balanced(R, I, A, units, late, left),
         NEW u, u \subseteq units, NEW t, late \subseteq t, NEW f, left \subseteq f
  PROVE  Balanced(R, I, A, u, t, f)
<1>1. NotOverspent(R, A, u)
  BY DEF Balanced, NotOverspent
<1>2. SaysWhatIsPaid(I, A, u, t)
  BY DEF Balanced, SaysWhatIsPaid
<1>3. Settled(R, I, A, u, f)
  BY DEF Balanced, Settled
<1> QED
  BY <1>1, <1>2, <1>3 DEF Balanced
------------------------------------------------------------------------------
(* Every step of a handler leaves what it sees fitting.                    *)

(* What has been committed of the flats of a handler.                      *)
LEMMA OwnBooks ==
  ASSUME MoneyTyped, BooksFit, NEW units, units \subseteq Units
  PROVE  Balanced(receipts, invoices, allocations, units, {}, Waiting(unswept, units))
<1>1. Balanced(receipts, invoices, allocations, units, {}, Waiting(unswept, Units))
  BY StillBalanced DEF BooksFit
<1>2. ASSUME NEW i \in invoices, NEW b \in unswept, i.number = NumberOf[b]
      PROVE  UnitOfBill(i) = UnitOf[b]
  <2>1. b \in Balances /\ NumberOf[b] < 0
    BY BooksAssumption DEF MoneyTyped
  <2>2. i.source \in Balances /\ NumberOf[i.source] = NumberOf[b]
    BY <1>2, <2>1, BooksAssumption DEF MoneyTyped, OpeningsInv, OpeningRows
  <2> QED
    BY <2>1, <2>2, BooksAssumption DEF UnitOfBill
<1>3. ASSUME NEW r \in receipts, NEW i \in invoices, UnitOfBill(i) \in units,
             <<r.number, i.number>> \in Waiting(unswept, Units)
      PROVE  <<r.number, i.number>> \in Waiting(unswept, units)
  BY <1>2, <1>3 DEF Waiting
<1> QED
  BY <1>1, <1>3 DEF Balanced, Settled

(* A receipt or an invoice that is new is untouched: nothing refers to it. *)
LEMMA NewReceipt ==
  ASSUME NEW R, NEW I, NEW A, NEW units, NEW left, Balanced(R, I, A, units, {}, left),
         A \in Seq(Rows), Known(R, I, A, Units), NEW q \in ReceiptRow,
         \A r \in R : r.number # q.number, I \subseteq InvoiceRow
  PROVE  /\ Spare(A, q) = Amount(q.source)
         /\ Balanced(R \cup {q}, I, A, units, {}, left \cup ({q.number} \X Int))
<1>1. AppliedIn(A, q.number) = 0
  BY NothingAddsUp DEF Known
<1>2. Amount(q.source) \in Nat
  BY Sums
<1>3. Spare(A, q) = Amount(q.source)
  BY <1>1, <1>2 DEF Spare
<1>4. NotOverspent(R \cup {q}, A, units)
  BY <1>2, <1>3 DEF Balanced, NotOverspent
<1>5. SaysWhatIsPaid(I, A, units, {})
  BY DEF Balanced
<1>6. Settled(R \cup {q}, I, A, units, left \cup ({q.number} \X Int))
  BY DEF Balanced, Settled, InvoiceRow
<1> QED
  BY <1>3, <1>4, <1>5, <1>6 DEF Balanced

LEMMA NewInvoice ==
  ASSUME NEW R, NEW I, NEW A, NEW units, NEW left, Balanced(R, I, A, units, {}, left),
         A \in Seq(Rows), Known(R, I, A, Units), NEW j \in InvoiceRow,
         \A i \in I : i.number # j.number, j.status = "issued",
         R \subseteq ReceiptRow, I \subseteq InvoiceRow
  PROVE  Balanced(R, I \cup {j}, A, units, {}, Nat \X Int)
<1>1. PaidIn(A, j.number) = 0
  BY NothingAddsUp DEF Known
<1>2. Amount(j.source) \in Nat
  BY Sums
<1>3. Due(A, j) >= 0 /\ Says(PaidIn(A, j.number), Amount(j.source)) = "issued"
  BY <1>1, <1>2 DEF Due, Says, StatusOf
<1>4. NotOverspent(R, A, units)
  BY DEF Balanced
<1>5. SaysWhatIsPaid(I \cup {j}, A, units, {})
  BY <1>3 DEF Balanced, SaysWhatIsPaid
<1>6. Settled(R, I \cup {j}, A, units, Nat \X Int)
  BY DEF Settled, ReceiptRow, InvoiceRow
<1> QED
  BY <1>4, <1>5, <1>6 DEF Balanced

LEMMA InsertFits ==
  ASSUME IInv, MoneyTyped, BooksFit, NEW h \in Handlers, Insert(h), ~End(h)
  PROVE  Fits(h)'
<1>1. /\ ~IsDuplicate(h) /\ pc[h] = "insert" /\ number[h] \in Nat
      /\ UNCHANGED <<receipts, invoices, allocations, request, unswept>>
  BY DEF Insert, Abort, Goto, tables, history, IInv, ControlInv, Typed
<1>2. wrote'[h] = [number |-> number[h], entry |-> 0, allocations |-> <<>>, status |-> <<>>,
                   balances |-> {}]
  <2>1. wrote'[h] = [NothingWritten EXCEPT !.number = number[h]]
    BY DEF Insert, Abort, IInv, ControlInv, Typed
  <2> QED
    BY <2>1 DEF NothingWritten
<1>3. number[h] # 0 /\ Documents(h) /\ request[h] \in Asked \cup {NoRequest}
  BY <1>1 DEF IInv, ControlInv, Typed, Control
<1>4. Tabled(receipts, invoices, allocations)
  BY TablesAreTabled DEF AllTabled
<1>5. SeenAllocations(h)' = allocations
  BY <1>1, <1>2, <1>4 DEF SeenAllocations, Tabled
<1>6. \A i : Restated(h, i)' = i
  BY <1>2 DEF Restated
<1>7. /\ SeenReceipts(h)' = receipts \cup Own(h, "pay", Receipt(h))'
      /\ SeenInvoices(h)' = invoices \cup Own(h, "bill", Invoice(h))'
  <2>1. Imported(h)' = {}
    BY <1>2 DEF Imported
  <2> QED
    BY <1>1, <1>6, <2>1 DEF SeenReceipts, SeenInvoices
<1>8. Balanced(receipts, invoices, allocations, request[h].units, {},
               Waiting(unswept, request[h].units))
  BY OwnBooks, UnitsAsked
<1>9. Known(receipts, invoices, allocations, Units)
  BY DEF BooksFit
<1>10. /\ Known(SeenReceipts(h), SeenInvoices(h), wrote[h].allocations, request[h].units)'
       /\ Restates(wrote[h].status, SeenInvoices(h), request[h].units)'
  BY <1>2 DEF Known, Restates
<1>11. CASE request[h].kind = "bill"
  <2>1. PICK j : j = [number |-> number[h], source |-> request[h].source, entry |-> 0,
                      status |-> "issued"]
    OBVIOUS
  <2>2. SeenReceipts(h)' = receipts /\ SeenInvoices(h)' = invoices \cup {j}
    BY <1>1, <1>2, <1>3, <1>7, <1>11, <2>1 DEF Own, Invoice
  <2>3. j \in InvoiceRow /\ j.status = "issued"
    BY <1>1, <1>3, <1>11, <2>1, Kinds DEF InvoiceRow, Statuses
  <2>4. \A i \in invoices : i.number # j.number
    BY <1>1, <1>11, <2>1 DEF IsDuplicate, Clashes
  <2>5. Balanced(receipts, invoices \cup {j}, allocations, request[h].units, {}, Nat \X Int)
    BY <1>4, <1>8, <1>9, <2>3, <2>4, NewInvoice DEF Tabled
  <2>6. pc'[h] = "period"
    BY <1>11 DEF Insert, Abort, Goto, IInv, ControlInv, Typed
  <2>7. Late(h)' = {} /\ Nat \X Int \subseteq Left(h)'
    BY <1>1, <1>11, <2>6 DEF Late, Left, Sweeping
  <2>8. Balanced(receipts, invoices \cup {j}, allocations, request[h].units, {}, Left(h)')
    BY <2>5, <2>7, StillBalanced
  <2> QED
    BY <1>1, <1>5, <1>10, <2>2, <2>6, <2>7, <2>8 DEF Fits
<1>12. CASE request[h].kind = "pay"
  <2>1. PICK q : q = [number |-> number[h], source |-> request[h].source, entry |-> 0]
    OBVIOUS
  <2>2. SeenReceipts(h)' = receipts \cup {q} /\ SeenInvoices(h)' = invoices
    BY <1>1, <1>2, <1>3, <1>7, <1>12, <2>1 DEF Own, Receipt
  <2>3. /\ q \in ReceiptRow /\ request[h].units = {UnitOf[q.source]}
        /\ q.source \in Payments /\ q.source = request[h].source
    BY <1>1, <1>3, <1>12, <2>1, Kinds DEF ReceiptRow
  <2>4. \A r \in receipts : r.number # q.number
    BY <1>1, <1>12, <2>1 DEF IsDuplicate, Clashes
  <2>5. /\ Spare(allocations, q) = Amount(q.source)
        /\ Balanced(receipts \cup {q}, invoices, allocations, request[h].units, {},
                    Waiting(unswept, request[h].units) \cup ({q.number} \X Int))
    BY <1>4, <1>8, <1>9, <2>3, <2>4, NewReceipt DEF Tabled
  <2>6. Amount(q.source) \in Nat /\ Amount(q.source) > 0
    BY <2>3, BooksAssumption DEF Amount
  <2>7. PICK c : c = [receipt |-> q.number, unit |-> UnitOf[q.source],
                      spare |-> Amount(q.source)]
    OBVIOUS
  <2>8. pc'[h] = "invoices" /\ todo'[h].credits = <<c>>
    <3>1. pc'[h] = "invoices" /\ todo' = [todo EXCEPT ![h].credits = <<c>>]
      BY <1>12, <2>1, <2>7 DEF Insert, Abort, Goto, Credit, IInv, ControlInv, Typed
    <3>2. todo[h] \in ToDo /\ h \in DOMAIN todo
      BY DEF MoneyTyped, Held
    <3> QED
      BY <3>1, <3>2 DEF ToDo
  <2>9. /\ Late(h)' = {} /\ Taken(h)' = 0
        /\ Left(h)' = Waiting(unswept, request[h].units) \cup ({q.number} \X Int)
    <3>1. ReceiptsOf(<<c>>) = {q.number}
      BY <2>7 DEF ReceiptsOf
    <3>2. StillUnswept(h)' = unswept
      BY <1>1, <1>2, <1>12 DEF StillUnswept
    <3>3. Asleep(h)' = Waiting(unswept, request[h].units)
      BY <1>1, <3>2 DEF Asleep, Waiting
    <3> QED
      BY <2>8, <3>1, <3>3 DEF Late, Left, Sweeping, Taken
  <2>10. CreditsFit(<<c>>, receipts \cup {q}, allocations, request[h].units, 0)
    BY <2>3, <2>5, <2>6, <2>7 DEF CreditsFit
  <2> QED
    BY <1>1, <1>5, <1>10, <2>2, <2>5, <2>8, <2>9, <2>10 DEF Fits
<1> QED
  BY <1>3, <1>11, <1>12 DEF Documents

LEMMA SameView ==
  ASSUME NEW g, UNCHANGED <<receipts, invoices, allocations>>,
         request'[g] = request[g], wrote'[g] = wrote[g]
  PROVE  /\ SeenReceipts(g)' = SeenReceipts(g) /\ SeenInvoices(g)' = SeenInvoices(g)
         /\ SeenAllocations(g)' = SeenAllocations(g)
<1>1. \A i : Restated(g, i)' = Restated(g, i)
  BY DEF Restated
<1>2. Imported(g)' = Imported(g)
  BY DEF Imported, OpeningInvoice
<1> QED
  BY <1>1, <1>2 DEF SeenReceipts, SeenInvoices, SeenAllocations, Own, Receipt, Invoice

LEMMA SameSleep ==
  ASSUME NEW g, UNCHANGED unswept, request'[g] = request[g],
         wrote'[g].balances = wrote[g].balances
  PROVE  Asleep(g)' = Asleep(g)
BY DEF Asleep, StillUnswept, Waiting

LEMMA OthersFit ==
  ASSUME NEW g, UNCHANGED <<receipts, invoices, allocations, unswept>>, Fits(g),
         request'[g] = request[g], wrote'[g] = wrote[g], pc'[g] = pc[g], todo'[g] = todo[g]
  PROVE  Fits(g)'
<1>1. Left(g)' = Left(g) /\ Late(g)' = Late(g) /\ Taken(g)' = Taken(g)
  BY SameSleep DEF Left, Sweeping, Late, Taken
<1> QED
  BY <1>1, SameView DEF Fits

(* The step before the entry is posted, and the entry.                     *)
LEMMA ReadPeriodFits ==
  ASSUME IInv, NEW h \in Handlers, ReadPeriod(h), ~End(h), Fits(h)
  PROVE  Fits(h)'
<1>1. /\ UNCHANGED <<receipts, invoices, allocations, request, wrote, todo, unswept>>
      /\ pc[h] = "period" /\ pc'[h] = "post"
  BY DEF ReadPeriod, Abort, Goto, tables, history, IInv, ControlInv, Typed
<1>2. Left(h)' = Left(h) /\ Late(h)' = {} /\ Late(h) = {}
  BY <1>1, SameSleep DEF Left, Sweeping, Late
<1> QED
  BY <1>1, <1>2, SameView DEF Fits

LEMMA PostEntryFits ==
  ASSUME IInv, MoneyTyped, NEW h \in Handlers, PostEntry(h), ~End(h), Fits(h)
  PROVE  Fits(h)'
<1>1. /\ UNCHANGED <<receipts, invoices, allocations, request, todo, unswept>>
      /\ wrote' = [wrote EXCEPT ![h].entry = number[h]] /\ pc[h] = "post"
      /\ pc'[h] = IF request[h].kind = "pay" THEN "commit" ELSE "credits"
  BY DEF PostEntry, Abort, tables, history, IInv, ControlInv, Typed
<1>2. /\ wrote'[h].number = wrote[h].number /\ wrote'[h].allocations = wrote[h].allocations
      /\ wrote'[h].status = wrote[h].status /\ wrote'[h].balances = wrote[h].balances
  BY <1>1 DEF IInv, ControlInv, Typed, Control
<1>3. Documents(h)
  BY <1>1 DEF IInv, ControlInv, Control
<1>4. Left(h)' = Left(h) /\ Late(h)' = {} /\ Late(h) = {}
  <2>1. Asleep(h)' = Asleep(h)
    BY <1>1, <1>2, SameSleep
  <2> QED
    BY <1>1, <1>3, <2>1 DEF Left, Sweeping, Late, Documents
<1>5. /\ \A q \in SeenReceipts(h)' : \E r \in SeenReceipts(h) :
           r.number = q.number /\ r.source = q.source
      /\ \A r \in SeenReceipts(h) : \E q \in SeenReceipts(h)' :
           q.number = r.number /\ q.source = r.source
  <2>1. PICK p : p = Receipt(h)
    OBVIOUS
  <2>2. PICK t : t = Receipt(h)'
    OBVIOUS
  <2>3. p.number = t.number /\ p.source = t.source
    BY <1>1, <1>2, <2>1, <2>2 DEF Receipt
  <2>4. SeenReceipts(h) = receipts \cup (IF request[h].kind = "pay" /\ wrote[h].number # 0
                                         THEN {p} ELSE {})
    BY <2>1 DEF SeenReceipts, Own
  <2>5. SeenReceipts(h)' = receipts \cup (IF request[h].kind = "pay" /\ wrote[h].number # 0
                                          THEN {t} ELSE {})
    BY <1>1, <1>2, <2>2 DEF SeenReceipts, Own
  <2> QED
    BY <2>3, <2>4, <2>5
<1>6. \A i : Restated(h, i)' = Restated(h, i)
  BY <1>2 DEF Restated
<1> DEFINE billed == invoices \cup Own(h, "bill", Invoice(h))
           same == invoices \cup Own(h, "bill", Invoice(h))'
<1>7. /\ \A j \in same : \E i \in billed : /\ i.number = j.number /\ i.source = j.source
                                           /\ i.status = j.status
                                           /\ i = j \/ (i = Invoice(h) /\ j = Invoice(h)')
      /\ \A i \in billed : \E j \in same : /\ i.number = j.number /\ i.source = j.source
                                           /\ i.status = j.status
                                           /\ i = j \/ (i = Invoice(h) /\ j = Invoice(h)')
  <2>1. PICK p : p = Invoice(h)
    OBVIOUS
  <2>2. PICK t : t = Invoice(h)'
    OBVIOUS
  <2>3. p.number = t.number /\ p.source = t.source /\ p.status = t.status
    BY <1>1, <1>2, <2>1, <2>2 DEF Invoice
  <2>4. billed = invoices \cup (IF request[h].kind = "bill" /\ wrote[h].number # 0
                                THEN {p} ELSE {})
    BY <2>1 DEF Own
  <2>5. same = invoices \cup (IF request[h].kind = "bill" /\ wrote[h].number # 0
                              THEN {t} ELSE {})
    BY <1>1, <1>2, <2>2 DEF Own
  <2> HIDE DEF billed, same
  <2> QED
    BY <2>1, <2>2, <2>3, <2>4, <2>5
<1>8. /\ Restated(h, Invoice(h)).number = Restated(h, Invoice(h)').number
      /\ Restated(h, Invoice(h)).source = Restated(h, Invoice(h)').source
      /\ Restated(h, Invoice(h)).status = Restated(h, Invoice(h)').status
  BY <1>1, <1>2 DEF Restated, Invoice
<1>9. /\ SeenInvoices(h) = {Restated(h, i) : i \in billed}
      /\ SeenInvoices(h)' = {Restated(h, i) : i \in same}
  <2>1. wrote[h].balances = {}
    BY <1>1, NoneImported
  <2>2. Imported(h) = {} /\ Imported(h)' = {}
    BY <1>2, <2>1 DEF Imported
  <2> QED
    BY <1>1, <1>6, <2>2 DEF SeenInvoices
<1> HIDE DEF billed, same
<1>10. /\ \A j \in SeenInvoices(h)' : \E i \in SeenInvoices(h) :
            i.number = j.number /\ i.source = j.source /\ i.status = j.status
       /\ \A i \in SeenInvoices(h) : \E j \in SeenInvoices(h)' :
            j.number = i.number /\ j.source = i.source
  BY <1>7, <1>8, <1>9
<1>11. SeenAllocations(h)' = SeenAllocations(h)
  BY <1>1, <1>2 DEF SeenAllocations
<1>12. Alike(SeenReceipts(h), SeenInvoices(h), SeenAllocations(h),
             SeenReceipts(h)', SeenInvoices(h)', SeenAllocations(h), request[h].units)
  BY <1>5, <1>10 DEF Alike
<1>13. Balanced(SeenReceipts(h)', SeenInvoices(h)', SeenAllocations(h), request[h].units,
                {}, Left(h))
  BY <1>4, <1>12, AlikeBalanced DEF Fits
<1>14. Known(SeenReceipts(h)', SeenInvoices(h)', wrote[h].allocations, request[h].units)
  BY <1>5, <1>10 DEF Fits, Known, UnitOfBill
<1>15. Restates(wrote[h].status, SeenInvoices(h)', request[h].units)
  BY <1>10 DEF Fits, Restates, UnitOfBill
<1> QED
  BY <1>1, <1>2, <1>4, <1>11, <1>13, <1>14, <1>15 DEF Fits

(* The rows of a sheet are issued and untouched, and wait for a sweep.     *)
LEMMA ImportFits ==
  ASSUME IInv, MoneyTyped, BooksFit, NEW h \in Handlers, Import(h), ~End(h), AllTabled'
  PROVE  Fits(h)'
<1>1. PICK sheet \in SUBSET Balances :
        /\ FlatsOf(sheet) = request[h].units
        /\ ~\E i \in invoices : i.source \in sheet
        /\ wrote' = [wrote EXCEPT ![h].balances = sheet] /\ Goto(h, "commit")
        /\ UNCHANGED unswept
  BY Zenon DEF Import, Abort, history
<1>2. /\ UNCHANGED <<receipts, invoices, allocations, request>>
      /\ pc[h] = "import" /\ pc'[h] = "commit" /\ request[h].kind = "import"
  BY <1>1 DEF Import, Goto, tables, IInv, ControlInv, Typed, Control
<1>3. /\ wrote'[h].allocations = <<>> /\ wrote'[h].status = <<>>
      /\ wrote'[h].balances = sheet /\ wrote'[h].number = 0
  <2>1. wrote[h].allocations = <<>> /\ wrote[h].status = <<>> /\ wrote[h].number = 0
    BY <1>2 DEF MoneyTyped, Held, NothingYet, IInv, ControlInv, Control
  <2> QED
    BY <1>1, <2>1 DEF IInv, ControlInv, Typed, Control
<1>4. PICK new : new = {OpeningInvoice(b) : b \in sheet}
  OBVIOUS
<1>5. PICK A \in Seq(Rows) : A = allocations
  BY DEF MoneyTyped, TablesTyped
<1>6. PICK units : units = request[h].units
  OBVIOUS
<1>7. /\ SeenReceipts(h)' = receipts /\ SeenInvoices(h)' = invoices \cup new
      /\ SeenAllocations(h)' = A
  <2>1. \A i : Restated(h, i)' = i
    BY <1>3 DEF Restated
  <2>2. Imported(h)' = new
    BY <1>3, <1>4 DEF Imported, OpeningInvoice
  <2>3. Own(h, "pay", Receipt(h))' = {} /\ Own(h, "bill", Invoice(h))' = {}
    BY <1>3 DEF Own
  <2> QED
    BY <1>2, <1>3, <1>5, <2>1, <2>2, <2>3 DEF SeenReceipts, SeenInvoices, SeenAllocations
<1>8. /\ Balanced(receipts, invoices, A, units, {}, Waiting(unswept, units))
      /\ Known(receipts, invoices, A, Units)
  BY <1>5, <1>6, OwnBooks, UnitsAsked DEF BooksFit
<1>9. \A i \in invoices, j \in new : i.number # j.number
  <2>1. \A j \in new : j.source \in sheet
    BY <1>4 DEF OpeningInvoice
  <2>2. \A i, j \in invoices \cup new : i.number = j.number => i = j
    BY <1>7 DEF AllTabled, Tabled
  <2> QED
    BY <1>1, <2>1, <2>2
<1>10. ASSUME NEW b \in sheet, NEW j, j = OpeningInvoice(b)
       PROVE  /\ j \in new /\ j.number = NumberOf[b] /\ UnitOf[b] \in units
              /\ Due(A, j) >= 0 /\ j.status = Says(PaidIn(A, j.number), Amount(j.source))
  <2>1. j.source = b /\ j.number = NumberOf[b] /\ j.status = "issued" /\ j \in new
    BY <1>4, <1>10 DEF OpeningInvoice
  <2>2. PaidIn(A, j.number) = 0
    BY <1>8, <1>9, <2>1, NothingAddsUp DEF Known
  <2>3. Amount(j.source) \in Nat
    BY <2>1, BooksAssumption DEF Amount
  <2>4. UnitOf[b] \in units
    BY <1>1, <1>6 DEF FlatsOf
  <2> QED
    BY <2>1, <2>2, <2>3, <2>4 DEF Due, Says, StatusOf
<1>11. SaysWhatIsPaid(invoices \cup new, A, units, {})
  BY <1>4, <1>8, <1>10 DEF Balanced, SaysWhatIsPaid
<1>12. Asleep(h)' = Waiting(unswept \cup sheet, units)
  BY <1>1, <1>2, <1>3, <1>6 DEF Asleep, StillUnswept, Waiting
<1>13. Settled(receipts, invoices \cup new, A, units, Asleep(h)')
  <2>1. \A r \in receipts, j \in new : <<r.number, j.number>> \in Asleep(h)'
    <3>1. receipts \subseteq ReceiptRow
      BY DEF MoneyTyped, TablesTyped
    <3> QED
      BY <1>4, <1>10, <1>12, <3>1 DEF Waiting, ReceiptRow
  <2>2. Waiting(unswept, units) \subseteq Asleep(h)'
    BY <1>12 DEF Waiting
  <2> QED
    BY <1>8, <2>1, <2>2 DEF Balanced, Settled
<1>14. Late(h)' = {} /\ Asleep(h)' \subseteq Left(h)'
  BY <1>2 DEF Late, Left
<1>15. Balanced(receipts, invoices \cup new, A, units, {}, Left(h)')
  BY <1>8, <1>11, <1>13, <1>14 DEF Balanced, Settled
<1> QED
  BY <1>2, <1>3, <1>6, <1>7, <1>14, <1>15 DEF Fits, Known, Restates

(* A credit that is not in the list has nothing left.                      *)
LEMMA ReadCreditsFits ==
  ASSUME IInv, MoneyTyped, BooksFit, NEW h \in Handlers, ReadCredits(h),
         Working(h) => Fits(h)
  PROVE  Fits(h)'
<1>1. /\ UNCHANGED <<receipts, invoices, allocations, request, wrote>>
      /\ todo' = [todo EXCEPT ![h].credits = CreditsSeen(h)]
      /\ pc'[h] = IF CreditsSeen(h) = <<>> THEN "commit" ELSE "invoices"
      /\ request[h].kind \in {"bill", "sweep"}
  BY DEF ReadCredits, Sweep, Goto, tables, IInv, ControlInv, Typed, Control, Documents
<1>2. PICK list : list = CreditsSeen(h)
  OBVIOUS
<1>3. todo'[h].credits = list
  <2>1. todo[h] \in ToDo /\ h \in DOMAIN todo
    BY DEF MoneyTyped, Held
  <2> QED
    BY <1>1, <1>2, <2>1 DEF ToDo
<1>4. PICK R : R = SeenReceipts(h)
  OBVIOUS
<1>5. PICK I : I = SeenInvoices(h)
  OBVIOUS
<1>6. PICK A : A = SeenAllocations(h)
  OBVIOUS
<1>7. SeenReceipts(h)' = R /\ SeenInvoices(h)' = I /\ SeenAllocations(h)' = A
  BY <1>1, <1>4, <1>5, <1>6, SameView
<1>8. Tabled(R, I, A)
  BY <1>4, <1>5, <1>6, TablesAreTabled DEF AllTabled
<1>9. /\ NotOverspent(R, A, request[h].units) /\ SaysWhatIsPaid(I, A, request[h].units, {})
      /\ Known(R, I, wrote[h].allocations, request[h].units)
      /\ Restates(wrote[h].status, I, request[h].units)
  <2>1. CASE pc[h] = "begin"
    <3>1. R = receipts /\ I = invoices /\ A = allocations
      BY <1>4, <1>5, <1>6, <2>1, SeenAtFirst DEF NothingYet
    <3>2. wrote[h].allocations = <<>> /\ wrote[h].status = <<>>
      BY <2>1 DEF MoneyTyped, Held, NothingYet
    <3>3. NotOverspent(R, A, request[h].units) /\ SaysWhatIsPaid(I, A, request[h].units, {})
      BY <3>1, OwnBooks, UnitsAsked DEF Balanced
    <3> QED
      BY <3>2, <3>3 DEF Known, Restates
  <2>2. CASE pc[h] = "credits"
    <3>1. Working(h) /\ Late(h) = {}
      BY <2>2 DEF Working, NothingYet, Late
    <3> QED
      BY <1>4, <1>5, <1>6, <3>1 DEF Fits, Balanced
  <2> QED
    BY <2>1, <2>2 DEF ReadCredits
<1>10. Late(h)' = {} /\ Taken(h)' = 0 /\ ReceiptsOf(list) \X Int \subseteq Left(h)'
  <2>1. CASE list = <<>>
    BY <1>1, <1>2, <2>1 DEF Late, Taken, Left, Sweeping, ReceiptsOf
  <2>2. CASE list # <<>>
    BY <1>1, <1>2, <1>3, <2>2 DEF Late, Taken, Left, Sweeping
  <2> QED
    BY <2>1, <2>2
<1>11. \A r \in R : UnitOf[r.source] \in request[h].units =>
         Spare(A, r) = 0 \/ r.number \in ReceiptsOf(list)
  <2>1. \A r \in R : UnitOf[r.source] \in request[h].units /\ Spare(A, r) > 0 =>
          r.number \in ReceiptsOf(list)
    BY <1>2, <1>4, <1>6, CreditsRead DEF ReceiptsOf
  <2>2. \A r \in R : Spare(A, r) \in Int
    BY <1>8, Sums DEF Tabled
  <2> QED
    BY <1>9, <2>1, <2>2 DEF NotOverspent
<1>12. Settled(R, I, A, request[h].units, ReceiptsOf(list) \X Int)
  BY <1>8, <1>11 DEF Settled, Tabled, InvoiceRow
<1>13. CreditsFit(list, R, A, request[h].units, 0)
  <2>1. \A r \in R : Spare(A, r) + 0 = Spare(A, r)
    BY <1>8, Sums DEF Tabled
  <2> QED
    BY <1>2, <1>4, <1>6, <2>1, CreditsRead DEF CreditsFit
<1>14. Balanced(R, I, A, request[h].units, {}, Left(h)')
  BY <1>9, <1>10, <1>12 DEF Balanced, Settled
<1> QED
  BY <1>1, <1>3, <1>7, <1>9, <1>10, <1>13, <1>14 DEF Fits

(* The first of a list and the rest.                                       *)
LEMMA FirstAndRest ==
  ASSUME NEW S, NEW list \in Seq(S), list # <<>>
  PROVE  /\ 1 \in DOMAIN list /\ list[1] = Head(list) /\ Tail(list) \in Seq(S)
         /\ \A k \in DOMAIN Tail(list) :
              k + 1 \in DOMAIN list /\ k + 1 # 1 /\ Tail(list)[k] = list[k + 1] /\ k \in Int
         /\ \A k \in DOMAIN list : k = 1 \/ \E l \in DOMAIN Tail(list) : k = l + 1
<1>1. PICK n \in Nat : n = Len(list)
  OBVIOUS
<1>2. n # 0 /\ DOMAIN list = 1 .. n /\ DOMAIN Tail(list) = 1 .. (n - 1)
  BY <1>1
<1>3. \A k \in 1 .. (n - 1) : Tail(list)[k] = list[k + 1]
  BY <1>1
<1>4. \A k \in 1 .. n : k = 1 \/ (k - 1 \in 1 .. (n - 1) /\ k = (k - 1) + 1)
  BY <1>2
<1>5. \A k \in 1 .. (n - 1) : k + 1 \in 1 .. n /\ k + 1 # 1 /\ k \in Int
  BY <1>2
<1>6. \A k \in DOMAIN Tail(list) :
        k + 1 \in DOMAIN list /\ k + 1 # 1 /\ Tail(list)[k] = list[k + 1] /\ k \in Int
  BY <1>2, <1>3, <1>5
<1>7. \A k \in DOMAIN list : k = 1 \/ \E l \in DOMAIN Tail(list) : k = l + 1
  BY <1>2, <1>4
<1>8. 1 \in DOMAIN list /\ list[1] = Head(list) /\ Tail(list) \in Seq(S)
  BY <1>1, <1>2
<1> QED
  BY <1>6, <1>7, <1>8

LEMMA NewFirst ==
  ASSUME NEW S, NEW tail \in Seq(S), NEW d \in S
  PROVE  /\ <<d>> \o tail \in Seq(S) /\ Head(<<d>> \o tail) = d /\ Tail(<<d>> \o tail) = tail
         /\ \A k \in DOMAIN (<<d>> \o tail) :
              \/ k = 1 /\ (<<d>> \o tail)[k] = d
              \/ k - 1 \in DOMAIN tail /\ (<<d>> \o tail)[k] = tail[k - 1] /\ k \in Int
<1>1. PICK list \in Seq(S) : list = <<d>> \o tail
  <2>1. <<d>> \o tail \in Seq(S)
    OBVIOUS
  <2> QED
    BY <2>1
<1>2. PICK n \in Nat : n = Len(tail)
  OBVIOUS
<1>3. Len(list) = n + 1 /\ list[1] = d /\ \A k \in 2 .. n + 1 : list[k] = tail[k - 1]
  BY <1>1, <1>2
<1>4. DOMAIN list = 1 .. n + 1 /\ DOMAIN tail = 1 .. n /\ list # <<>> /\ Head(list) = d
  BY <1>2, <1>3
<1>5. Tail(list) = tail
  <2>1. PICK rest \in Seq(S) : rest = Tail(list)
    BY <1>4, FirstAndRest
  <2>2. Len(rest) = n /\ \A k \in 1 .. n : rest[k] = list[k + 1]
    BY <1>2, <1>3, <1>4, <2>1
  <2>3. \A k \in 1 .. n : k + 1 \in 2 .. n + 1 /\ (k + 1) - 1 = k
    OBVIOUS
  <2>4. \A k \in 1 .. n : rest[k] = tail[k]
    BY <1>3, <2>2, <2>3
  <2> QED
    BY <1>2, <2>1, <2>2, <2>4
<1>6. \A k \in DOMAIN list :
        \/ k = 1 /\ list[k] = d
        \/ k - 1 \in DOMAIN tail /\ list[k] = tail[k - 1] /\ k \in Int
  BY <1>3, <1>4
<1> QED
  BY <1>1, <1>4, <1>5, <1>6

LEMMA RestOfCredits ==
  ASSUME NEW list \in Seq(CreditRow), list # <<>>, NEW R, NEW I, NEW A, Tabled(R, I, A),
         NEW units, NEW taken, CreditsFit(list, R, A, units, taken)
  PROVE  /\ CreditsFit(Tail(list), R, A, units, 0)
         /\ ReceiptsOf(list) = {Head(list).receipt} \cup ReceiptsOf(Tail(list))
         /\ Head(list).receipt \notin ReceiptsOf(Tail(list))
         /\ Head(list).spare > 0 /\ Head(list).unit \in units
         /\ \E r \in R : /\ r.number = Head(list).receipt
                         /\ UnitOf[r.source] = Head(list).unit
                         /\ Head(list).spare = Spare(A, r) + taken
<1>1. PICK rest : rest = Tail(list)
  OBVIOUS
<1>2. /\ 1 \in DOMAIN list /\ list[1] = Head(list)
      /\ \A k \in DOMAIN rest :
           k + 1 \in DOMAIN list /\ k + 1 # 1 /\ rest[k] = list[k + 1] /\ k \in Int
      /\ \A k \in DOMAIN list : k = 1 \/ \E l \in DOMAIN rest : k = l + 1
  BY <1>1, FirstAndRest
<1>3. \A r \in R : Spare(A, r) \in Int
  BY Sums DEF Tabled
<1>4. \A k \in DOMAIN rest :
        /\ rest[k].spare > 0 /\ rest[k].unit \in units
        /\ \E r \in R : /\ r.number = rest[k].receipt /\ UnitOf[r.source] = rest[k].unit
                        /\ rest[k].spare = Spare(A, r) + (IF k = 1 THEN 0 ELSE 0)
  <2>1. \A k \in DOMAIN list :
          k # 1 => \E r \in R : /\ r.number = list[k].receipt
                               /\ UnitOf[r.source] = list[k].unit
                               /\ list[k].spare = Spare(A, r) + 0
    BY DEF CreditsFit
  <2>2. \A k \in DOMAIN list : list[k].spare > 0 /\ list[k].unit \in units
    BY DEF CreditsFit
  <2> QED
    BY <1>2, <2>1, <2>2
<1>5. \A k, l \in DOMAIN rest : rest[k].receipt = rest[l].receipt => k = l
  <2>1. \A k, l \in DOMAIN list : list[k].receipt = list[l].receipt => k = l
    BY DEF CreditsFit
  <2>2. ASSUME NEW k \in DOMAIN rest, NEW l \in DOMAIN rest, rest[k].receipt = rest[l].receipt
        PROVE  k = l
    <3>1. k + 1 = l + 1 /\ k \in Int /\ l \in Int
      BY <1>2, <2>1, <2>2
    <3> QED
      BY <3>1
  <2> QED
    BY <2>2
<1>6. CreditsFit(rest, R, A, units, 0)
  BY <1>4, <1>5 DEF CreditsFit
<1>7. /\ ReceiptsOf(list) = {list[1].receipt} \cup ReceiptsOf(rest)
      /\ list[1].receipt \notin ReceiptsOf(rest)
  BY <1>2 DEF ReceiptsOf, CreditsFit
<1>8. /\ list[1].spare > 0 /\ list[1].unit \in units
      /\ \E r \in R : /\ r.number = list[1].receipt /\ UnitOf[r.source] = list[1].unit
                      /\ list[1].spare = Spare(A, r) + taken
  BY <1>2 DEF CreditsFit
<1> QED
  BY <1>1, <1>2, <1>6, <1>7, <1>8

LEMMA RestOfOpen ==
  ASSUME NEW list \in Seq(OpenRow), list # <<>>, NEW R, NEW I, NEW A, Tabled(R, I, A),
         NEW unit, NEW taken, OpenFits(list, I, A, unit, taken)
  PROVE  /\ OpenFits(Tail(list), I, A, unit, 0)
         /\ InvoicesOf(list) = {Head(list).invoice} \cup InvoicesOf(Tail(list))
         /\ Head(list).invoice \notin InvoicesOf(Tail(list))
         /\ Head(list).due > 0 /\ Head(list).total > 0
         /\ \E i \in I : /\ i.number = Head(list).invoice /\ UnitOfBill(i) = unit
                         /\ Head(list).total = Amount(i.source)
                         /\ Head(list).due = Due(A, i) + taken
<1>1. PICK rest : rest = Tail(list)
  OBVIOUS
<1>2. /\ 1 \in DOMAIN list /\ list[1] = Head(list)
      /\ \A k \in DOMAIN rest :
           k + 1 \in DOMAIN list /\ k + 1 # 1 /\ rest[k] = list[k + 1] /\ k \in Int
      /\ \A k \in DOMAIN list : k = 1 \/ \E l \in DOMAIN rest : k = l + 1
  BY <1>1, FirstAndRest
<1>3. \A i \in I : Due(A, i) \in Int
  BY Sums DEF Tabled
<1>4. \A k \in DOMAIN rest :
        /\ rest[k].due > 0 /\ rest[k].total > 0
        /\ \E i \in I : /\ i.number = rest[k].invoice /\ UnitOfBill(i) = unit
                        /\ rest[k].total = Amount(i.source)
                        /\ rest[k].due = Due(A, i) + (IF k = 1 THEN 0 ELSE 0)
  <2>1. \A k \in DOMAIN list :
          k # 1 => \E i \in I : /\ i.number = list[k].invoice /\ UnitOfBill(i) = unit
                               /\ list[k].total = Amount(i.source)
                               /\ list[k].due = Due(A, i) + 0
    BY DEF OpenFits
  <2>2. \A k \in DOMAIN list : list[k].due > 0 /\ list[k].total > 0
    BY DEF OpenFits
  <2> QED
    BY <1>2, <2>1, <2>2
<1>5. \A k, l \in DOMAIN rest : rest[k].invoice = rest[l].invoice => k = l
  <2>1. \A k, l \in DOMAIN list : list[k].invoice = list[l].invoice => k = l
    BY DEF OpenFits
  <2>2. ASSUME NEW k \in DOMAIN rest, NEW l \in DOMAIN rest, rest[k].invoice = rest[l].invoice
        PROVE  k = l
    <3>1. k + 1 = l + 1 /\ k \in Int /\ l \in Int
      BY <1>2, <2>1, <2>2
    <3> QED
      BY <3>1
  <2> QED
    BY <2>2
<1>6. OpenFits(rest, I, A, unit, 0)
  BY <1>4, <1>5 DEF OpenFits
<1>7. /\ InvoicesOf(list) = {list[1].invoice} \cup InvoicesOf(rest)
      /\ list[1].invoice \notin InvoicesOf(rest)
  BY <1>2 DEF InvoicesOf, OpenFits
<1>8. /\ list[1].due > 0 /\ list[1].total > 0
      /\ \E i \in I : /\ i.number = list[1].invoice /\ UnitOfBill(i) = unit
                      /\ list[1].total = Amount(i.source)
                      /\ list[1].due = Due(A, i) + taken
  BY <1>2 DEF OpenFits
<1> QED
  BY <1>1, <1>2, <1>6, <1>7, <1>8

(* On to the next credit: the first one of the list is settled.            *)
LEMMA NextCreditFits ==
  ASSUME IInv, MoneyTyped, NEW h \in Handlers, NextCredit(h),
         NEW R, NEW I, NEW A, SeenReceipts(h)' = R, SeenInvoices(h)' = I,
         SeenAllocations(h)' = A, NEW rest, rest = Tail(todo[h].credits),
         NEW asleep, asleep = Asleep(h)',
         Balanced(R, I, A, request[h].units, {}, asleep \cup (ReceiptsOf(rest) \X Int)),
         Known(R, I, wrote'[h].allocations, request[h].units),
         Restates(wrote'[h].status, I, request[h].units),
         CreditsFit(rest, R, A, request[h].units, 0)
  PROVE  Fits(h)'
<1>1. /\ UNCHANGED request
      /\ pc'[h] = IF rest = <<>> THEN AfterAllocating(h) ELSE "invoices"
  BY DEF NextCredit, Goto, IInv, ControlInv, Typed
<1>2. todo'[h].credits = rest
  <2>1. PICK t : t = [NothingToDo EXCEPT !.credits = rest]
    OBVIOUS
  <2>2. t.credits = rest
    BY <2>1 DEF NothingToDo
  <2>3. todo'[h] = t
    BY <2>1 DEF NextCredit, MoneyTyped
  <2> QED
    BY <2>2, <2>3
<1>3. Late(h)' = {} /\ Taken(h)' = 0 /\ Left(h)' = asleep \cup (ReceiptsOf(rest) \X Int)
  <2>1. CASE rest = <<>>
    <3>1. ReceiptsOf(rest) \X Int = {}
      BY <2>1 DEF ReceiptsOf
    <3>2. pc'[h] \in {"period", "commit"}
      BY <1>1, <2>1 DEF AfterAllocating
    <3>3. pc'[h] = "period" => request[h].kind = "pay"
      BY <1>1, <2>1 DEF AfterAllocating
    <3> QED
      BY <1>1, <3>1, <3>2, <3>3 DEF Late, Taken, Left, Sweeping
  <2>2. CASE rest # <<>>
    BY <1>1, <1>2, <2>2 DEF Late, Taken, Left, Sweeping
  <2> QED
    BY <2>1, <2>2
<1>4. pc'[h] \notin {"allocate", "status"}
  BY <1>1 DEF AfterAllocating
<1> QED
  BY <1>1, <1>2, <1>3, <1>4 DEF Fits

(* An invoice of the flat that is not in the list has nothing due.         *)
LEMMA ReadInvoicesFits ==
  ASSUME IInv, MoneyTyped, NEW h \in Handlers, ReadInvoices(h), Fits(h)
  PROVE  Fits(h)'
<1>1. PICK credits \in Seq(CreditRow) : credits = todo[h].credits
  BY DEF MoneyTyped, Held, ToDo
<1>2. PICK open : open = OpenInvoices(h, Head(credits).unit)
  OBVIOUS
<1>3. PICK R : R = SeenReceipts(h)
  OBVIOUS
<1>4. PICK I : I = SeenInvoices(h)
  OBVIOUS
<1>5. PICK A : A = SeenAllocations(h)
  OBVIOUS
<1>6. PICK units : units = request[h].units
  OBVIOUS
<1>7. /\ UNCHANGED <<receipts, invoices, allocations, request, wrote, unswept>>
      /\ pc[h] = "invoices"
  BY DEF ReadInvoices, NextCredit, Goto, tables, history
<1>8. SeenReceipts(h)' = R /\ SeenInvoices(h)' = I /\ SeenAllocations(h)' = A
  BY <1>3, <1>4, <1>5, <1>7, SameView
<1>9. Tabled(R, I, A)
  BY <1>3, <1>4, <1>5, TablesAreTabled DEF AllTabled
<1>10. credits # <<>>
  BY <1>1, <1>7 DEF MoneyTyped, Held
<1>19. PICK asleep : asleep = Asleep(h)
  OBVIOUS
<1>20. asleep = Asleep(h)'
  BY <1>7, <1>19, SameSleep
<1>11. /\ Balanced(R, I, A, units, {}, asleep \cup (ReceiptsOf(credits) \X Int))
       /\ Known(R, I, wrote[h].allocations, units)
       /\ Restates(wrote[h].status, I, units)
       /\ CreditsFit(credits, R, A, units, 0)
  BY <1>1, <1>3, <1>4, <1>5, <1>6, <1>7, <1>19 DEF Fits, Late, Left, Sweeping, Taken
<1>12. PICK c : c = Head(credits)
  OBVIOUS
<1>13. PICK rest : rest = Tail(credits)
  OBVIOUS
<1>14. /\ CreditsFit(rest, R, A, units, 0)
       /\ ReceiptsOf(credits) = {c.receipt} \cup ReceiptsOf(rest) /\ c.unit \in units
       /\ \E r \in R : r.number = c.receipt /\ UnitOf[r.source] = c.unit
  BY <1>9, <1>10, <1>11, <1>12, <1>13, RestOfCredits
<1>15. \A i \in I : UnitOfBill(i) = c.unit =>
         Due(A, i) = 0 \/ i.number \in InvoicesOf(open)
  <2>1. ASSUME NEW i \in I, UnitOfBill(i) = c.unit, Due(A, i) # 0
        PROVE  i.number \in InvoicesOf(open)
    <3>1. /\ Due(A, i) >= 0 /\ Due(A, i) = Amount(i.source) - PaidIn(A, i.number)
          /\ i.status = Says(PaidIn(A, i.number), Amount(i.source))
      BY <1>11, <1>14, <2>1 DEF Balanced, SaysWhatIsPaid, Due
    <3>2. Amount(i.source) \in Nat /\ PaidIn(A, i.number) \in Nat
      BY <1>9, Sums DEF Tabled
    <3>3. Due(A, i) > 0 /\ i.status \in {"issued", "partially_paid"}
      BY <2>1, <3>1, <3>2 DEF Says, StatusOf
    <3> QED
      BY <1>2, <1>4, <1>5, <1>12, <2>1, <3>3, InvoicesRead DEF InvoicesOf
  <2> QED
    BY <2>1
<1>16. Settled(R, I, A, units, asleep \cup (ReceiptsOf(rest) \X Int)
                                \cup ({c.receipt} \X InvoicesOf(open)))
  <2>1. ASSUME NEW r \in R, NEW i \in I, UnitOf[r.source] = UnitOfBill(i),
               UnitOfBill(i) \in units, Spare(A, r) # 0, Due(A, i) # 0
        PROVE  \/ <<r.number, i.number>> \in asleep
               \/ r.number \in ReceiptsOf(rest) /\ i.number \in Int
               \/ r.number = c.receipt /\ i.number \in InvoicesOf(open)
    <3>1. \/ <<r.number, i.number>> \in asleep
          \/ r.number \in ReceiptsOf(credits) /\ i.number \in Int
      BY <1>9, <1>11, <2>1 DEF Balanced, Settled, Tabled, InvoiceRow
    <3>2. CASE r.number = c.receipt
      BY <1>9, <1>14, <1>15, <2>1, <3>2 DEF Tabled
    <3> QED
      BY <1>14, <3>1, <3>2
  <2> QED
    BY <2>1 DEF Settled
<1>17. CASE open = <<>>
  <2>1. InvoicesOf(open) = {}
    BY <1>17 DEF InvoicesOf
  <2>2. Balanced(R, I, A, units, {}, asleep \cup (ReceiptsOf(rest) \X Int))
    BY <1>11, <1>16, <2>1 DEF Balanced, Settled
  <2>3. NextCredit(h)
    BY <1>1, <1>2, <1>17 DEF ReadInvoices
  <2>4. wrote'[h] = wrote[h]
    BY <1>7
  <2> QED
    BY <1>1, <1>6, <1>8, <1>20, <1>11, <1>13, <1>14, <2>2, <2>3, <2>4, NextCreditFits
<1>18. CASE open # <<>>
  <2>1. todo' = [todo EXCEPT ![h].open = open] /\ pc'[h] = "allocate"
    BY <1>1, <1>2, <1>18 DEF ReadInvoices, Goto, IInv, ControlInv, Typed
  <2>2. todo'[h].open = open /\ todo'[h].credits = credits
    <3>1. todo[h] \in ToDo /\ h \in DOMAIN todo
      BY DEF MoneyTyped, Held
    <3> QED
      BY <1>1, <2>1, <3>1 DEF ToDo
  <2>3. OpenFits(open, I, A, c.unit, 0)
    <3>1. ASSUME NEW i \in I
          PROVE  /\ Due(A, i) + 0 = Due(A, i)
                 /\ Due(A, i) > 0 => Amount(i.source) > 0
      <4>1. PICK paid \in Nat : paid = PaidIn(A, i.number)
        BY <1>9, Sums DEF Tabled
      <4>2. PICK total \in Nat : total = Amount(i.source)
        BY <1>9, Sums DEF Tabled
      <4>3. Due(A, i) = total - paid
        BY <4>1, <4>2 DEF Due
      <4> QED
        BY <4>2, <4>3
    <3>2. \A k \in DOMAIN open : /\ open[k].due > 0
                                 /\ \E i \in I : /\ i.number = open[k].invoice
                                                 /\ UnitOfBill(i) = c.unit
                                                 /\ open[k].total = Amount(i.source)
                                                 /\ open[k].due = Due(A, i)
      BY <1>1, <1>2, <1>4, <1>5, <1>12, InvoicesRead
    <3>3. ASSUME NEW k \in DOMAIN open PROVE open[k].total > 0
      <4>1. PICK i \in I : open[k].total = Amount(i.source) /\ open[k].due = Due(A, i)
        BY <3>2
      <4> QED
        BY <3>1, <3>2, <4>1
    <3> QED
      BY <1>1, <1>2, <1>4, <1>5, <1>12, <3>1, <3>2, <3>3, InvoicesRead DEF OpenFits
  <2>4. /\ Late(h)' = {} /\ Taken(h)' = 0
        /\ Left(h)' = asleep \cup (ReceiptsOf(rest) \X Int)
                      \cup ({c.receipt} \X InvoicesOf(open))
    BY <1>20, <1>12, <1>13, <2>1, <2>2 DEF Late, Taken, Left, Sweeping
  <2>5. Balanced(R, I, A, units, {}, Left(h)')
    BY <1>11, <1>16, <2>4 DEF Balanced
  <2> QED
    BY <1>6, <1>7, <1>8, <1>11, <1>12, <2>1, <2>2, <2>3, <2>4, <2>5 DEF Fits
<1> QED
  BY <1>17, <1>18

(* An allocation of the first credit to the first open invoice.            *)
LEMMA Allocated ==
  ASSUME NEW R, NEW I, NEW A, Tabled(R, I, A), NEW units, NEW left,
         NEW credits \in Seq(CreditRow), credits # <<>>,
         NEW open \in Seq(OpenRow), open # <<>>, NEW a \in Rows,
         a.receipt = Head(credits).receipt, a.invoice = Head(open).invoice,
         a.amount = Min({Head(credits).spare, Head(open).due}),
         Balanced(R, I, A, units, {}, left), CreditsFit(credits, R, A, units, 0),
         OpenFits(open, I, A, Head(credits).unit, 0)
  PROVE  /\ Balanced(R, I, Append(A, a), units, {a.invoice}, left)
         /\ CreditsFit(credits, R, Append(A, a), units, a.amount)
         /\ OpenFits(open, I, Append(A, a), Head(credits).unit, a.amount)
<1>1. PICK B : B = Append(A, a)
  OBVIOUS
<1>2. PICK m \in Nat : m = a.amount
  BY DEF Rows
<1>3. PICK c \in CreditRow : c = Head(credits)
  OBVIOUS
<1>4. PICK b \in OpenRow : b = Head(open)
  OBVIOUS
<1>5. c.spare \in Nat /\ b.due \in Nat /\ m <= c.spare /\ m <= b.due
  <2>1. c.spare \in Nat /\ b.due \in Nat
    BY DEF CreditRow, OpenRow
  <2> QED
    BY <1>2, <1>3, <1>4, <2>1, Least
<1>6. PICK n : n = a.invoice
  OBVIOUS
<1>7. PICK l : l = a.receipt
  OBVIOUS
<1>8. A \in Seq(Rows) /\ R \subseteq ReceiptRow /\ I \subseteq InvoiceRow
  BY DEF Tabled
<1>9. /\ \A x : PaidIn(B, x) = PaidIn(A, x) + (IF n = x THEN m ELSE 0)
      /\ \A x : AppliedIn(B, x) = AppliedIn(A, x) + (IF l = x THEN m ELSE 0)
  <2>1. ASSUME NEW x
        PROVE  /\ PaidIn(B, x) = PaidIn(A, x) + (IF n = x THEN m ELSE 0)
               /\ AppliedIn(B, x) = AppliedIn(A, x) + (IF l = x THEN m ELSE 0)
    BY <1>1, <1>2, <1>6, <1>7, <1>8, OneAddsUp
  <2> QED
    BY <2>1
<1>10. \A r \in R : /\ Spare(A, r) \in Int
                    /\ Spare(B, r) = Spare(A, r) - (IF l = r.number THEN m ELSE 0)
  BY <1>8, <1>9, Sums DEF Spare
<1>11. \A i \in I : /\ Due(A, i) \in Int /\ PaidIn(A, i.number) \in Nat
                    /\ Due(B, i) = Due(A, i) - (IF n = i.number THEN m ELSE 0)
  BY <1>8, <1>9, Sums DEF Due
<1>12. \A r \in R : l = r.number => Spare(A, r) = c.spare
  <2>1. PICK r \in R : r.number = c.receipt /\ c.spare = Spare(A, r) + 0
    BY <1>3, RestOfCredits
  <2>2. Spare(A, r) \in Int
    BY <1>10
  <2> QED
    BY <1>3, <1>7, <2>1, <2>2 DEF Tabled
<1>13. \A i \in I : n = i.number => Due(A, i) = b.due
  <2>1. PICK i \in I : i.number = b.invoice /\ b.due = Due(A, i) + 0
    BY <1>4, RestOfOpen
  <2>2. Due(A, i) \in Int
    BY <1>11
  <2> QED
    BY <1>4, <1>6, <2>1, <2>2 DEF Tabled
<1>14. c.spare > 0 /\ b.due > 0
  <2>1. c.spare > 0
    BY <1>3, RestOfCredits
  <2>2. b.due > 0
    BY <1>4, RestOfOpen
  <2> QED
    BY <2>1, <2>2
<1>15. NotOverspent(R, B, units)
  BY <1>5, <1>10, <1>12 DEF Balanced, NotOverspent
<1>16. SaysWhatIsPaid(I, B, units, {n})
  <2>1. \A i \in I : i.number # n => PaidIn(B, i.number) = PaidIn(A, i.number)
    BY <1>9, <1>11
  <2>2. \A i \in I : UnitOfBill(i) \in units => Due(B, i) >= 0
    BY <1>5, <1>11, <1>13 DEF Balanced, SaysWhatIsPaid
  <2> QED
    BY <2>1, <2>2 DEF Balanced, SaysWhatIsPaid
<1>17. Settled(R, I, B, units, left)
  <2>1. \A r \in R : Spare(A, r) = 0 => Spare(B, r) = 0
    BY <1>10, <1>12, <1>14
  <2>2. \A i \in I : Due(A, i) = 0 => Due(B, i) = 0
    BY <1>11, <1>13, <1>14
  <2> QED
    BY <2>1, <2>2 DEF Balanced, Settled
<1>18. CreditsFit(credits, R, B, units, m)
  <2>1. ASSUME NEW k \in DOMAIN credits
        PROVE  \E r \in R : /\ r.number = credits[k].receipt
                            /\ UnitOf[r.source] = credits[k].unit
                            /\ credits[k].spare = Spare(B, r) + (IF k = 1 THEN m ELSE 0)
    <3>1. PICK r \in R : /\ r.number = credits[k].receipt
                         /\ UnitOf[r.source] = credits[k].unit
                         /\ credits[k].spare = Spare(A, r) + (IF k = 1 THEN 0 ELSE 0)
      BY DEF CreditsFit
    <3>2. 1 \in DOMAIN credits /\ credits[1] = c
      BY <1>3, FirstAndRest
    <3>3. (l = r.number) = (k = 1)
      BY <1>3, <1>7, <3>1, <3>2 DEF CreditsFit
    <3> QED
      BY <1>10, <3>1, <3>3
  <2> QED
    BY <2>1 DEF CreditsFit
<1>19. OpenFits(open, I, B, c.unit, m)
  <2>1. ASSUME NEW k \in DOMAIN open
        PROVE  \E i \in I : /\ i.number = open[k].invoice /\ UnitOfBill(i) = c.unit
                            /\ open[k].total = Amount(i.source)
                            /\ open[k].due = Due(B, i) + (IF k = 1 THEN m ELSE 0)
    <3>1. PICK i \in I : /\ i.number = open[k].invoice /\ UnitOfBill(i) = c.unit
                         /\ open[k].total = Amount(i.source)
                         /\ open[k].due = Due(A, i) + (IF k = 1 THEN 0 ELSE 0)
      BY <1>3 DEF OpenFits
    <3>2. 1 \in DOMAIN open /\ open[1] = b
      BY <1>4, FirstAndRest
    <3>3. (n = i.number) = (k = 1)
      BY <1>4, <1>6, <3>1, <3>2 DEF OpenFits
    <3> QED
      BY <1>11, <3>1, <3>3
  <2> QED
    BY <1>3, <2>1 DEF OpenFits
<1> QED
  BY <1>1, <1>2, <1>3, <1>6, <1>15, <1>16, <1>17, <1>18, <1>19 DEF Balanced

LEMMA AllocateFits ==
  ASSUME IInv, MoneyTyped, NEW h \in Handlers, Allocate(h), Fits(h)
  PROVE  Fits(h)'
<1>1. PICK credits \in Seq(CreditRow) : credits = todo[h].credits
  BY DEF MoneyTyped, Held, ToDo
<1>2. PICK open \in Seq(OpenRow) : open = todo[h].open
  BY DEF MoneyTyped, Held, ToDo
<1>3. PICK a \in Rows : a = Allocation(h)
  BY Heads DEF Allocate
<1>4. PICK R : R = SeenReceipts(h)
  OBVIOUS
<1>5. PICK I : I = SeenInvoices(h)
  OBVIOUS
<1>6. PICK A : A = SeenAllocations(h)
  OBVIOUS
<1>7. PICK units : units = request[h].units
  OBVIOUS
<1>8. PICK s : s = StatusOf(PaidIn(Append(A, a), Head(open).invoice), Head(open).total)
  OBVIOUS
<1>9. /\ UNCHANGED <<receipts, invoices, allocations, request, unswept>> /\ pc[h] = "allocate"
      /\ pc'[h] = "status" /\ todo' = [todo EXCEPT ![h].status = s]
      /\ wrote' = [wrote EXCEPT ![h].allocations = Append(@, a)]
  BY <1>2, <1>3, <1>6, <1>8 DEF Allocate, Goto, tables, history, IInv, ControlInv, Typed
<1>10. /\ wrote'[h].allocations = Append(wrote[h].allocations, a)
       /\ wrote'[h].status = wrote[h].status /\ wrote'[h].number = wrote[h].number
       /\ wrote'[h].entry = wrote[h].entry /\ wrote'[h].balances = wrote[h].balances
  BY <1>9 DEF IInv, ControlInv, Typed, Control
<1>11. todo'[h].credits = credits /\ todo'[h].open = open /\ todo'[h].status = s
  <2>1. todo[h] \in ToDo /\ h \in DOMAIN todo
    BY DEF MoneyTyped, Held
  <2> QED
    BY <1>1, <1>2, <1>9, <2>1 DEF ToDo
<1>12. Tabled(R, I, A) /\ credits # <<>> /\ open # <<>>
  <2>1. Tabled(R, I, A)
    BY <1>4, <1>5, <1>6, TablesAreTabled DEF AllTabled
  <2> QED
    BY <1>1, <1>2, <1>9, <2>1 DEF MoneyTyped, Held
<1>13. SeenReceipts(h)' = R /\ SeenInvoices(h)' = I
  <2>1. \A i : Restated(h, i)' = Restated(h, i)
    BY <1>10 DEF Restated
  <2>2. Imported(h)' = Imported(h)
    BY <1>10 DEF Imported, OpeningInvoice
  <2> QED
    BY <1>4, <1>5, <1>9, <1>10, <2>1, <2>2
       DEF SeenReceipts, SeenInvoices, Own, Receipt, Invoice
<1>14. SeenAllocations(h)' = Append(A, a)
  <2>1. PICK P \in Seq(Rows) : P = allocations
    BY DEF MoneyTyped, TablesTyped
  <2>2. PICK W \in Seq(Rows) : W = wrote[h].allocations
    BY DEF MoneyTyped, Held, Wrote
  <2>3. P \o Append(W, a) = Append(P \o W, a)
    <3>1. PICK S : S = P \o Append(W, a)
      OBVIOUS
    <3>2. PICK T : T = Append(P \o W, a)
      OBVIOUS
    <3>3. S \in Seq(Rows) /\ T \in Seq(Rows) /\ Len(S) = Len(T)
      BY <3>1, <3>2
    <3>4. \A k \in 1 .. Len(S) : S[k] = T[k]
      BY <3>1, <3>2
    <3> QED
      BY <3>1, <3>2, <3>3, <3>4
  <2> QED
    BY <1>6, <1>9, <1>10, <2>1, <2>2, <2>3 DEF SeenAllocations
<1>15. /\ Balanced(R, I, A, units, {}, Left(h))
       /\ Known(R, I, wrote[h].allocations, units)
       /\ Restates(wrote[h].status, I, units)
       /\ CreditsFit(credits, R, A, units, 0)
       /\ OpenFits(open, I, A, Head(credits).unit, 0)
  BY <1>1, <1>2, <1>4, <1>5, <1>6, <1>7, <1>9 DEF Fits, Late, Taken
<1>16. /\ a.receipt = Head(credits).receipt /\ a.invoice = Head(open).invoice
       /\ a.amount = Min({Head(credits).spare, Head(open).due})
  BY <1>1, <1>2, <1>3 DEF Allocation
<1>17. /\ Balanced(R, I, Append(A, a), units, {a.invoice}, Left(h))
       /\ CreditsFit(credits, R, Append(A, a), units, a.amount)
       /\ OpenFits(open, I, Append(A, a), Head(credits).unit, a.amount)
  <2>1. PICK left : left = Left(h)
    OBVIOUS
  <2> QED
    BY <1>12, <1>15, <1>16, <2>1, Allocated
<1>18. Left(h)' = Left(h) /\ Late(h)' = {a.invoice} /\ Taken(h)' = a.amount
  <2>1. Asleep(h)' = Asleep(h)
    BY <1>9, <1>10, SameSleep
  <2> QED
    BY <1>1, <1>2, <1>9, <1>11, <1>16, <2>1 DEF Left, Sweeping, Late, Taken
<1>19. Known(R, I, Append(wrote[h].allocations, a), units)
  <2>1. \E r \in R : r.number = a.receipt /\ UnitOf[r.source] \in units
    <3>1. /\ Head(credits).unit \in units
          /\ \E r \in R : /\ r.number = Head(credits).receipt
                          /\ UnitOf[r.source] = Head(credits).unit
                          /\ Head(credits).spare = Spare(A, r) + 0
      BY <1>12, <1>15, RestOfCredits
    <3> QED
      BY <1>16, <3>1
  <2>2. \E i \in I : i.number = a.invoice /\ UnitOfBill(i) \in units
    <3>1. /\ Head(credits).unit \in units
      BY <1>12, <1>15, RestOfCredits
    <3>2. \E i \in I : /\ i.number = Head(open).invoice
                       /\ UnitOfBill(i) = Head(credits).unit
                       /\ Head(open).total = Amount(i.source)
                       /\ Head(open).due = Due(A, i) + 0
      BY <1>12, <1>15, RestOfOpen
    <3> QED
      BY <1>16, <3>1, <3>2
  <2>3. PICK W \in Seq(Rows) : W = wrote[h].allocations
    BY DEF MoneyTyped, Held, Wrote
  <2>4. \A k \in DOMAIN Append(W, a) :
          (k \in DOMAIN W /\ Append(W, a)[k] = W[k]) \/ Append(W, a)[k] = a
    BY <2>3
  <2> QED
    BY <1>15, <2>1, <2>2, <2>3, <2>4 DEF Known
<1> QED
  BY <1>7, <1>8, <1>9, <1>10, <1>11, <1>13, <1>14, <1>15, <1>16, <1>17, <1>18, <1>19 DEF Fits

(* One invoice says what is paid of it, the others what they said before.  *)
Renewed(I, J, n, s) ==
  /\ \A j \in J : \E i \in I :
       /\ i.number = j.number /\ i.source = j.source
       /\ j.status = IF j.number = n THEN s ELSE i.status
  /\ \A i \in I : \E j \in J : j.number = i.number /\ j.source = i.source

Tells(I, A, n, s) ==
  \A i \in I : i.number = n => s = Says(PaidIn(A, n), Amount(i.source))
Only(late, n) == late = {n}

LEMMA RenewedRows ==
  ASSUME NEW I, NEW J, NEW n, NEW s, Renewed(I, J, n, s), NEW A
  PROVE  /\ \A i \in I : \E j \in J :
              /\ j.number = i.number /\ j.source = i.source /\ Due(A, j) = Due(A, i)
              /\ UnitOfBill(j) = UnitOfBill(i)
         /\ \A j \in J : \E i \in I :
              /\ i.number = j.number /\ i.source = j.source /\ Due(A, j) = Due(A, i)
              /\ UnitOfBill(j) = UnitOfBill(i) /\ j.status = IF j.number = n THEN s ELSE i.status
BY DEF Renewed, Due, UnitOfBill

LEMMA RenewedBalanced ==
  ASSUME NEW R, NEW I, NEW J, NEW A, NEW units, NEW left, NEW n, NEW s, NEW late,
         Renewed(I, J, n, s), Only(late, n), Balanced(R, I, A, units, late, left),
         Tells(I, A, n, s)
  PROVE  Balanced(R, J, A, units, {}, left)
<1>1. \A j \in J : \E i \in I :
        /\ i.number = j.number /\ i.source = j.source /\ Due(A, j) = Due(A, i)
        /\ UnitOfBill(j) = UnitOfBill(i) /\ j.status = IF j.number = n THEN s ELSE i.status
  BY RenewedRows
<1>2. SaysWhatIsPaid(J, A, units, {})
  <2>1. ASSUME NEW j \in J, UnitOfBill(j) \in units
        PROVE  /\ Due(A, j) >= 0
               /\ j.status = Says(PaidIn(A, j.number), Amount(j.source))
    <3>1. PICK i \in I :
            /\ i.number = j.number /\ i.source = j.source /\ Due(A, j) = Due(A, i)
            /\ UnitOfBill(j) = UnitOfBill(i) /\ j.status = IF j.number = n THEN s ELSE i.status
      BY <1>1
    <3>2. Due(A, i) >= 0
      BY <2>1, <3>1 DEF Balanced, SaysWhatIsPaid
    <3>3. CASE j.number = n
      <4>1. s = Says(PaidIn(A, n), Amount(i.source))
        BY <3>1, <3>3 DEF Tells
      <4> QED
        BY <3>1, <3>2, <3>3, <4>1
    <3>4. CASE j.number # n
      <4>1. i.status = Says(PaidIn(A, i.number), Amount(i.source))
        BY <2>1, <3>1, <3>4 DEF Balanced, SaysWhatIsPaid, Only
      <4> QED
        BY <3>1, <3>2, <3>4, <4>1
    <3> QED
      BY <3>3, <3>4
  <2> QED
    BY <2>1 DEF SaysWhatIsPaid
<1>3. Settled(R, J, A, units, left)
  BY <1>1 DEF Balanced, Settled
<1> QED
  BY <1>2, <1>3 DEF Balanced

LEMMA RenewedOpen ==
  ASSUME NEW I, NEW J, NEW n, NEW s, Renewed(I, J, n, s), NEW A,
         NEW list, NEW unit, NEW taken, OpenFits(list, I, A, unit, taken)
  PROVE  OpenFits(list, J, A, unit, taken)
<1>1. \A i \in I : \E j \in J :
        /\ j.number = i.number /\ j.source = i.source /\ Due(A, j) = Due(A, i)
        /\ UnitOfBill(j) = UnitOfBill(i)
  BY RenewedRows
<1>2. ASSUME NEW k \in DOMAIN list
      PROVE  \E j \in J : /\ j.number = list[k].invoice /\ UnitOfBill(j) = unit
                          /\ list[k].total = Amount(j.source)
                          /\ list[k].due = Due(A, j) + (IF k = 1 THEN taken ELSE 0)
  <2>1. PICK i \in I : /\ i.number = list[k].invoice /\ UnitOfBill(i) = unit
                       /\ list[k].total = Amount(i.source)
                       /\ list[k].due = Due(A, i) + (IF k = 1 THEN taken ELSE 0)
    BY <1>2 DEF OpenFits
  <2> QED
    BY <1>1, <2>1
<1> QED
  BY <1>2 DEF OpenFits

LEMMA RenewedKnown ==
  ASSUME NEW I, NEW J, NEW n, NEW s, Renewed(I, J, n, s), NEW units
  PROVE  /\ \A R, W : Known(R, I, W, units) => Known(R, J, W, units)
         /\ \A status : Restates(status, I, units) => Restates(status, J, units)
<1>1. \A l : (\E i \in I : i.number = l /\ UnitOfBill(i) \in units)
             => (\E j \in J : j.number = l /\ UnitOfBill(j) \in units)
  BY RenewedRows
<1> QED
  BY <1>1 DEF Known, Restates

(* What the allocation settled: the credit, or the invoice.                *)
Pending(rest, c, open) == rest \cup ({c.receipt} \X InvoicesOf(open))
Takes(c, open, m) == m = Min({c.spare, Head(open).due})

LEMMA OneOfTheTwo ==
  ASSUME NEW R, NEW I, NEW A, Tabled(R, I, A), NEW units,
         NEW credits \in Seq(CreditRow), credits # <<>>,
         NEW open \in Seq(OpenRow), open # <<>>,
         NEW m, Takes(Head(credits), open, m),
         CreditsFit(credits, R, A, units, m), OpenFits(open, I, A, Head(credits).unit, m),
         NEW rest, Balanced(R, I, A, units, {}, Pending(rest, Head(credits), open))
  PROVE  /\ Head(credits).spare = m \/ Tail(open) = <<>> => Balanced(R, I, A, units, {}, rest)
         /\ Head(credits).spare # m =>
              Balanced(R, I, A, units, {}, Pending(rest, Head(credits), Tail(open)))
         /\ m \in Nat /\ Head(credits).spare - m \in Nat
<1>1. PICK c \in CreditRow : c = Head(credits)
  OBVIOUS
<1>2. PICK b \in OpenRow : b = Head(open)
  OBVIOUS
<1>3. PICK more : more = InvoicesOf(Tail(open))
  OBVIOUS
<1>4. /\ c.spare \in Nat /\ b.due \in Nat /\ m \in Nat /\ m <= c.spare
      /\ m = c.spare \/ m = b.due
  <2>1. c.spare \in Nat /\ b.due \in Nat
    BY DEF CreditRow, OpenRow
  <2> QED
    BY <1>1, <1>2, <2>1, Least DEF Takes
<1>5. \A r \in R : r.number = c.receipt => Spare(A, r) = c.spare - m
  <2>1. PICK r \in R : r.number = c.receipt /\ c.spare = Spare(A, r) + m
    BY <1>1, RestOfCredits
  <2>2. Spare(A, r) \in Int
    BY Sums DEF Tabled
  <2> QED
    BY <1>4, <2>1, <2>2 DEF Tabled
<1>6. \A i \in I : i.number = b.invoice => Due(A, i) = b.due - m
  <2>1. PICK i \in I : i.number = b.invoice /\ b.due = Due(A, i) + m
    BY <1>2, RestOfOpen
  <2>2. Due(A, i) \in Int
    BY Sums DEF Tabled
  <2> QED
    BY <1>4, <2>1, <2>2 DEF Tabled
<1>7. InvoicesOf(open) = {b.invoice} \cup more
  BY <1>2, <1>3, RestOfOpen
<1>8. Settled(R, I, A, units, rest \cup ({c.receipt} \X ({b.invoice} \cup more)))
  BY <1>1, <1>7 DEF Balanced, Pending
<1>9. CASE c.spare = m
  <2>1. Settled(R, I, A, units, rest)
    <3>1. c.spare - m = 0
      BY <1>4, <1>9
    <3>2. \A r \in R : r.number = c.receipt => Spare(A, r) = 0
      BY <1>5, <3>1, Zenon
    <3> QED
      BY <1>8, <3>2 DEF Settled
  <2> QED
    BY <1>1, <1>4, <1>9, <2>1 DEF Balanced
<1>10. CASE c.spare # m
  <2>1. m = b.due
    BY <1>4, <1>10
  <2>2. \A i \in I : i.number = b.invoice => Due(A, i) = 0
    <3>1. b.due - m = 0
      BY <1>4, <2>1
    <3> QED
      BY <1>6, <3>1, Zenon
  <2>3. Settled(R, I, A, units, rest \cup ({c.receipt} \X more))
    BY <1>8, <2>2 DEF Settled
  <2>4. Tail(open) = <<>> => more = {}
    BY <1>3 DEF InvoicesOf
  <2>5. Tail(open) = <<>> => Settled(R, I, A, units, rest)
    BY <2>3, <2>4 DEF Settled
  <2> QED
    BY <1>1, <1>3, <1>4, <1>10, <2>3, <2>5 DEF Balanced, Pending
<1> QED
  BY <1>9, <1>10

(* The update of a status renews one invoice of those that are seen.       *)
LEMMA StatusRenews ==
  ASSUME IInv, MoneyTyped, NEW h \in Handlers, UpdateStatus(h),
         NEW n, n = Head(todo[h].open).invoice
  PROVE  /\ SeenReceipts(h)' = SeenReceipts(h) /\ SeenAllocations(h)' = SeenAllocations(h)
         /\ Renewed(SeenInvoices(h), SeenInvoices(h)', n, todo[h].status)
         /\ request'[h] = request[h]
         /\ wrote'[h].allocations = wrote[h].allocations /\ Asleep(h)' = Asleep(h)
         /\ \A k \in DOMAIN wrote'[h].status : k \in DOMAIN wrote[h].status \/ k = n
<1>1. PICK s : s = todo[h].status
  OBVIOUS
<1>2. PICK old : old = wrote[h].status
  OBVIOUS
<1>3. PICK st : st = [k \in DOMAIN old \cup {n} |-> IF k = n THEN s ELSE old[k]]
  OBVIOUS
<1>4. /\ UNCHANGED <<receipts, invoices, allocations, request, unswept>>
      /\ wrote' = [wrote EXCEPT ![h].status = st]
  BY <1>1, <1>2, <1>3 DEF UpdateStatus, NextCredit, Goto, tables, history
<1>5. /\ wrote'[h].status = st /\ wrote'[h].allocations = wrote[h].allocations
      /\ wrote'[h].number = wrote[h].number /\ wrote'[h].entry = wrote[h].entry
      /\ wrote'[h].balances = wrote[h].balances
  BY <1>4 DEF IInv, ControlInv, Typed, Control
<1>6. /\ SeenReceipts(h)' = SeenReceipts(h) /\ SeenAllocations(h)' = SeenAllocations(h)
      /\ Own(h, "bill", Invoice(h))' = Own(h, "bill", Invoice(h))
  BY <1>4, <1>5 DEF SeenReceipts, SeenAllocations, Own, Receipt, Invoice
<1> DEFINE billed == invoices \cup Own(h, "bill", Invoice(h))
<1>7. \A i \in billed : DOMAIN i = {"number", "source", "entry", "status"}
  BY DEF IInv, TablesInv, Own, Invoice
<1>8. /\ SeenInvoices(h) = {Restated(h, i) : i \in billed}
      /\ SeenInvoices(h)' = {Restated(h, i)' : i \in billed}
  <2>1. wrote[h].balances = {}
    BY NoneImported DEF UpdateStatus
  <2>2. Imported(h) = {} /\ Imported(h)' = {}
    BY <1>5, <2>1 DEF Imported
  <2> QED
    BY <1>4, <1>6, <2>2 DEF SeenInvoices
<1> HIDE DEF billed
<1>9. ASSUME NEW i \in billed
      PROVE  /\ Restated(h, i).number = i.number /\ Restated(h, i).source = i.source
             /\ Restated(h, i)'.number = i.number /\ Restated(h, i)'.source = i.source
             /\ Restated(h, i)'.status = IF i.number = n THEN s ELSE Restated(h, i).status
  <2>1. DOMAIN i = {"number", "source", "entry", "status"}
    BY <1>7, <1>9
  <2>2. Restated(h, i) = IF i.number \in DOMAIN old
                         THEN [i EXCEPT !.status = old[i.number]] ELSE i
    BY <1>2 DEF Restated
  <2>3. Restated(h, i)' = IF i.number \in DOMAIN st
                          THEN [i EXCEPT !.status = st[i.number]] ELSE i
    BY <1>5 DEF Restated
  <2>4. /\ i.number \in DOMAIN st <=> (i.number \in DOMAIN old \/ i.number = n)
        /\ i.number \in DOMAIN st =>
             st[i.number] = IF i.number = n THEN s ELSE old[i.number]
    BY <1>3
  <2>5. /\ Restated(h, i).number = i.number /\ Restated(h, i).source = i.source
        /\ Restated(h, i).status = IF i.number \in DOMAIN old THEN old[i.number] ELSE i.status
    BY <2>1, <2>2
  <2>6. /\ Restated(h, i)'.number = i.number /\ Restated(h, i)'.source = i.source
        /\ Restated(h, i)'.status = IF i.number \in DOMAIN st THEN st[i.number] ELSE i.status
    BY <2>1, <2>3
  <2> QED
    BY <2>4, <2>5, <2>6
<1>10. Renewed(SeenInvoices(h), SeenInvoices(h)', n, s)
  BY <1>8, <1>9 DEF Renewed
<1>11. Asleep(h)' = Asleep(h)
  BY <1>4, <1>5, SameSleep
<1> QED
  BY <1>1, <1>2, <1>3, <1>4, <1>5, <1>6, <1>10, <1>11

(* The bill is brought up to date, and what was taken is subtracted: on to *)
(* the next bill with what is left, or to the next credit.                 *)
LEMMA UpdateStatusFits ==
  ASSUME IInv, MoneyTyped, NEW h \in Handlers, UpdateStatus(h), Fits(h), AllTabled'
  PROVE  Fits(h)'
<1>1. PICK credits \in Seq(CreditRow) : credits = todo[h].credits
  BY DEF MoneyTyped, Held, ToDo
<1>2. PICK open \in Seq(OpenRow) : open = todo[h].open
  BY DEF MoneyTyped, Held, ToDo
<1>3. PICK R : R = SeenReceipts(h)
  OBVIOUS
<1>4. PICK I : I = SeenInvoices(h)
  OBVIOUS
<1>5. PICK J : J = SeenInvoices(h)'
  OBVIOUS
<1>6. PICK A : A = SeenAllocations(h)
  OBVIOUS
<1>7. PICK units : units = request[h].units
  OBVIOUS
<1>8. PICK m : m = Min({Head(credits).spare, Head(open).due})
  OBVIOUS
<1>9. PICK n : n = Head(open).invoice
  OBVIOUS
<1>10. pc[h] = "status" /\ todo[h] \in ToDo /\ credits # <<>> /\ open # <<>>
  BY <1>1, <1>2 DEF UpdateStatus, MoneyTyped, Held
<1>11. /\ SeenReceipts(h)' = R /\ SeenAllocations(h)' = A
       /\ Renewed(I, J, n, todo[h].status)
       /\ request'[h] = request[h] /\ wrote'[h].allocations = wrote[h].allocations
       /\ Asleep(h)' = Asleep(h)
       /\ \A k \in DOMAIN wrote'[h].status : k \in DOMAIN wrote[h].status \/ k = n
  BY <1>2, <1>3, <1>4, <1>5, <1>6, <1>9, StatusRenews
<1>12. Tabled(R, I, A)
  BY <1>3, <1>4, <1>6, TablesAreTabled DEF AllTabled
<1>13. Tabled(R, J, A)
  BY <1>5, <1>11 DEF AllTabled
<1>28. PICK asleep : asleep = Asleep(h)
  OBVIOUS
<1>14. PICK rest : rest = asleep \cup (ReceiptsOf(Tail(credits)) \X Int)
  OBVIOUS
<1>15. PICK unit : unit = Head(credits).unit
  OBVIOUS
<1>16. PICK left : left = rest \cup ({Head(credits).receipt} \X InvoicesOf(open))
  OBVIOUS
<1>17. /\ Balanced(R, I, A, units, {n}, left)
       /\ Known(R, I, wrote[h].allocations, units)
       /\ Restates(wrote[h].status, I, units)
       /\ CreditsFit(credits, R, A, units, m)
       /\ OpenFits(open, I, A, unit, m)
       /\ todo[h].status = StatusOf(PaidIn(A, n), Head(open).total)
  <2>1. Left(h) = left
    BY <1>1, <1>2, <1>10, <1>14, <1>16, <1>28 DEF Left, Sweeping
  <2> QED
    BY <1>1, <1>2, <1>3, <1>4, <1>6, <1>7, <1>8, <1>9, <1>10, <1>15, <2>1 DEF Fits, Late, Taken
<1>18. /\ CreditsFit(Tail(credits), R, A, units, 0) /\ unit \in units
       /\ Head(credits).receipt \notin ReceiptsOf(Tail(credits))
       /\ \E r \in R : /\ r.number = Head(credits).receipt /\ UnitOf[r.source] = unit
                       /\ Head(credits).spare = Spare(A, r) + m
  BY <1>10, <1>12, <1>15, <1>17, RestOfCredits
<1>19. PICK x \in I : /\ x.number = n /\ UnitOfBill(x) = unit
                      /\ Head(open).total = Amount(x.source) /\ Amount(x.source) > 0
  BY <1>9, <1>10, <1>12, <1>17, RestOfOpen
<1>20. PICK s : s = todo[h].status
  OBVIOUS
<1>21. /\ Balanced(R, J, A, units, {}, left)
       /\ OpenFits(open, J, A, unit, m)
       /\ Known(R, J, wrote[h].allocations, units)
       /\ Restates(wrote[h].status, J, units)
  <2>1. Tells(I, A, n, s) /\ Renewed(I, J, n, s)
    <3>1. Amount(x.source) # 0
      BY <1>12, <1>19, Sums DEF Tabled
    <3> QED
      BY <1>11, <1>12, <1>17, <1>19, <1>20, <3>1 DEF Tells, Says, Tabled
  <2>2. PICK late : Only(late, n)
    BY DEF Only
  <2>3. Balanced(R, I, A, units, late, left) /\ OpenFits(open, I, A, unit, m)
    BY <1>17, <2>2 DEF Only
  <2>4. Balanced(R, J, A, units, {}, left)
    BY <2>1, <2>2, <2>3, RenewedBalanced
  <2>5. OpenFits(open, J, A, unit, m)
    BY <2>1, <2>3, RenewedOpen
  <2> QED
    BY <1>17, <2>1, <2>4, <2>5, RenewedKnown
<1>22. Restates(wrote'[h].status, J, units)
  <2>1. \E j \in J : j.number = n /\ UnitOfBill(j) \in units
    BY <1>11, <1>18, <1>19 DEF Renewed, UnitOfBill
  <2> QED
    BY <1>11, <1>21, <2>1 DEF Restates
<1>23. /\ Head(credits).spare = m \/ Tail(open) = <<>> => Balanced(R, J, A, units, {}, rest)
       /\ Head(credits).spare # m =>
            Balanced(R, J, A, units, {},
                     rest \cup ({Head(credits).receipt} \X InvoicesOf(Tail(open))))
       /\ m \in Nat /\ Head(credits).spare - m \in Nat
  <2>1. /\ Takes(Head(credits), open, m) /\ OpenFits(open, J, A, Head(credits).unit, m)
        /\ Balanced(R, J, A, units, {}, Pending(rest, Head(credits), open))
    BY <1>8, <1>15, <1>16, <1>21 DEF Takes, Pending
  <2>2. /\ Head(credits).spare = m \/ Tail(open) = <<>> => Balanced(R, J, A, units, {}, rest)
        /\ Head(credits).spare # m =>
             Balanced(R, J, A, units, {}, Pending(rest, Head(credits), Tail(open)))
        /\ m \in Nat /\ Head(credits).spare - m \in Nat
    BY <1>10, <1>13, <1>17, <2>1, OneOfTheTwo
  <2> QED
    BY <2>2 DEF Pending
<1>24. PICK l \in Nat : l = Head(credits).spare - m
  BY <1>23
<1>25. l = 0 <=> Head(credits).spare = m
  <2>1. PICK c \in CreditRow : c = Head(credits)
    BY <1>10
  <2>2. c.spare \in Nat
    BY DEF CreditRow
  <2>3. m \in Nat /\ l = c.spare - m
    BY <1>23, <1>24, <2>1
  <2>4. l = 0 <=> c.spare = m
    BY <2>2, <2>3
  <2> QED
    BY <2>1, <2>4
<1>26. CASE l = 0 \/ Tail(open) = <<>>
  <2>1. NextCredit(h)
    BY <1>1, <1>2, <1>8, <1>24, <1>26 DEF UpdateStatus
  <2>2. Balanced(R, J, A, units, {}, asleep \cup (ReceiptsOf(Tail(credits)) \X Int))
    BY <1>14, <1>23, <1>25, <1>26
  <2>3. PICK more : more = Tail(credits)
    OBVIOUS
  <2> QED
    BY <1>1, <1>5, <1>7, <1>11, <1>18, <1>21, <1>22, <1>28, <2>1, <2>2, <2>3, NextCreditFits
<1>27. CASE ~(l = 0 \/ Tail(open) = <<>>)
  <2>1. PICK more : more = Tail(open)
    OBVIOUS
  <2>2. PICK c \in CreditRow : c = Head(credits)
    BY <1>10
  <2>3. PICK d : d = [c EXCEPT !.spare = l]
    OBVIOUS
  <2>4. PICK list : list = <<d>> \o Tail(credits)
    OBVIOUS
  <2>5. d \in CreditRow /\ d.spare = l /\ d.receipt = c.receipt /\ d.unit = c.unit
    BY <2>3 DEF CreditRow
  <2>6. /\ Head(list) = d /\ Tail(list) = Tail(credits)
        /\ \A k \in DOMAIN list :
             \/ k = 1 /\ list[k] = d
             \/ k - 1 \in DOMAIN Tail(credits) /\ list[k] = Tail(credits)[k - 1] /\ k \in Int
    <3>1. PICK tail : tail = Tail(credits)
      OBVIOUS
    <3>2. tail \in Seq(CreditRow)
      BY <1>10, <3>1, FirstAndRest
    <3> QED
      BY <2>4, <2>5, <3>1, <3>2, NewFirst
  <2>7. PICK t : t = [NothingToDo EXCEPT !.credits = list, !.open = more]
    OBVIOUS
  <2>8. t.credits = list /\ t.open = more
    BY <2>7 DEF NothingToDo
  <2>9. todo' = [todo EXCEPT ![h] = t] /\ Goto(h, "allocate")
    BY <1>1, <1>2, <1>8, <1>24, <1>27, <2>1, <2>2, <2>3, <2>4, <2>7 DEF UpdateStatus
  <2>10. pc'[h] = "allocate" /\ todo'[h].credits = list /\ todo'[h].open = more
    BY <2>8, <2>9 DEF Goto, IInv, ControlInv, Typed, MoneyTyped
  <2>11. /\ Late(h)' = {} /\ Taken(h)' = 0
         /\ Left(h)' = rest \cup ({Head(credits).receipt} \X InvoicesOf(more))
    BY <1>11, <1>14, <1>28, <2>2, <2>5, <2>6, <2>10 DEF Late, Taken, Left, Sweeping
  <2>12. Balanced(R, J, A, units, {}, Left(h)')
    BY <1>23, <1>25, <1>27, <2>1, <2>11
  <2>13. CreditsFit(list, R, A, units, 0)
    <3>1. PICK tail : tail = Tail(credits)
      OBVIOUS
    <3>2. CreditsFit(tail, R, A, units, 0)
      BY <1>18, <3>1
    <3>3. /\ \A k, j \in DOMAIN tail : tail[k].receipt = tail[j].receipt => k = j
          /\ \A k \in DOMAIN tail :
               /\ tail[k].receipt # d.receipt
               /\ tail[k].spare > 0 /\ tail[k].unit \in units
               /\ \E r \in R : /\ r.number = tail[k].receipt /\ UnitOf[r.source] = tail[k].unit
                               /\ tail[k].spare = Spare(A, r) + 0
      BY <1>18, <2>2, <2>5, <3>1, <3>2 DEF CreditsFit, ReceiptsOf
    <3>4. /\ d.spare > 0 /\ d.unit \in units
          /\ \E r \in R : /\ r.number = d.receipt /\ UnitOf[r.source] = d.unit
                          /\ d.spare = Spare(A, r) + 0
      <4>1. PICK r \in R : /\ r.number = c.receipt /\ UnitOf[r.source] = unit
                           /\ c.spare = Spare(A, r) + m
        BY <1>18, <2>2
      <4>2. Spare(A, r) \in Int /\ c.spare \in Nat
        BY <1>12, <2>2, Sums DEF Tabled, CreditRow
      <4>3. l = Spare(A, r) + 0
        BY <1>23, <1>24, <2>2, <4>1, <4>2
      <4> QED
        BY <1>15, <1>18, <1>27, <2>2, <2>5, <4>1, <4>3
    <3>5. ASSUME NEW k \in DOMAIN list
          PROVE  /\ list[k].spare > 0 /\ list[k].unit \in units
                 /\ \E r \in R : /\ r.number = list[k].receipt
                                 /\ UnitOf[r.source] = list[k].unit
                                 /\ list[k].spare = Spare(A, r) + (IF k = 1 THEN 0 ELSE 0)
      <4>1. CASE list[k] = d
        BY <3>4, <4>1
      <4>2. CASE k - 1 \in DOMAIN tail /\ list[k] = tail[k - 1]
        BY <3>3, <4>2
      <4> QED
        BY <2>6, <3>1, <4>1, <4>2
    <3>6. ASSUME NEW k \in DOMAIN list, NEW j \in DOMAIN list, list[k].receipt = list[j].receipt
          PROVE  k = j
      <4>1. CASE k = 1 \/ j = 1
        BY <2>6, <3>1, <3>3, <3>6, <4>1
      <4>2. CASE k # 1 /\ j # 1
        <5>1. k - 1 = j - 1 /\ k \in Int /\ j \in Int
          BY <2>6, <3>1, <3>3, <3>6, <4>2
        <5> QED
          BY <5>1
      <4> QED
        BY <4>1, <4>2
    <3> QED
      BY <3>5, <3>6 DEF CreditsFit
  <2>14. OpenFits(more, J, A, d.unit, 0)
    <3>1. OpenFits(more, J, A, unit, 0)
      BY <1>10, <1>13, <1>21, <2>1, RestOfOpen
    <3> QED
      BY <1>15, <2>2, <2>5, <3>1
  <2> QED
    BY <1>5, <1>7, <1>11, <1>21, <1>22, <2>6, <2>10, <2>11, <2>12, <2>13, <2>14 DEF Fits
<1> QED
  BY <1>26, <1>27

------------------------------------------------------------------------------
(* A commit: what is committed is what the handler saw, and of the flats   *)
(* of the others nothing has changed.                                      *)
LEMMA Unapplied ==
  ASSUME NEW R, NEW I, NEW A, Tabled(R, I, A), NEW W \in Seq(Rows), NEW units,
         Known(R, I, W, units)
  PROVE  /\ \A r \in R : UnitOf[r.source] \in units \/ AppliedIn(W, r.number) = 0
         /\ \A i \in I : UnitOfBill(i) \in units \/ PaidIn(W, i.number) = 0
<1>1. ASSUME NEW r \in R, UnitOf[r.source] \notin units
      PROVE  AppliedIn(W, r.number) = 0
  <2>1. \A k \in DOMAIN W : W[k].receipt # r.number
    BY <1>1 DEF Known, Tabled
  <2> QED
    BY <2>1, NothingAddsUp
<1>2. ASSUME NEW i \in I, UnitOfBill(i) \notin units
      PROVE  PaidIn(W, i.number) = 0
  <2>1. \A k \in DOMAIN W : W[k].invoice # i.number
    BY <1>2 DEF Known, Tabled
  <2> QED
    BY <2>1, NothingAddsUp
<1> QED
  BY <1>1, <1>2

(* The rows of other flats are seen as they are committed.                 *)
LEMMA Elsewhere ==
  ASSUME IInv, MoneyTyped, NEW h \in Handlers, NEW R, R = SeenReceipts(h),
         NEW I, I = SeenInvoices(h), NEW units, units = request[h].units,
         Restates(wrote[h].status, I, units)
  PROVE  /\ \A r \in receipts : r \in R
         /\ \A q \in R : q \in receipts \/ UnitOf[q.source] \in units
         /\ \A i \in invoices : \E j \in I : j.number = i.number /\ j.source = i.source
         /\ \A i \in invoices : i \in I \/ UnitOfBill(i) \in units
         /\ \A j \in I : j \in invoices \/ UnitOfBill(j) \in units
<1>1. request[h] \in Asked \cup {NoRequest}
  BY DEF IInv, ControlInv, Typed
<1>2. /\ request[h].kind = "pay" => UnitOf[Receipt(h).source] \in units
      /\ request[h].kind = "bill" => UnitOfBill(Invoice(h)) \in units
  BY <1>1, Kinds DEF Receipt, Invoice, UnitOfBill
<1>3. R = receipts \cup Own(h, "pay", Receipt(h))
  BY DEF SeenReceipts
<1>4. /\ \A r \in receipts : r \in R
      /\ \A q \in R : q \in receipts \/ UnitOf[q.source] \in units
  BY <1>2, <1>3 DEF Own
<1> DEFINE billed == invoices \cup Own(h, "bill", Invoice(h)) \cup Imported(h)
<1>14. \A i \in Imported(h) : UnitOfBill(i) \in units
  <2>1. /\ wrote[h].balances \subseteq Balances /\ Balances \cap Bills = {}
        /\ \A b \in wrote[h].balances : UnitOf[b] \in units
    BY BooksAssumption DEF MoneyTyped, OpeningsInv, Importing, IInv, ControlInv, Control
  <2> QED
    BY <2>1 DEF Imported, OpeningInvoice, UnitOfBill
<1>5. \A i \in billed : i \in invoices \/ UnitOfBill(i) \in units
  BY <1>2, <1>14 DEF Own
<1>6. \A i \in billed : DOMAIN i = {"number", "source", "entry", "status"}
  BY DEF IInv, TablesInv, Own, Invoice, Imported, OpeningInvoice
<1>7. I = {Restated(h, i) : i \in billed} /\ \A i \in invoices : i \in billed
  BY DEF SeenInvoices
<1> HIDE DEF billed
<1>8. \A i \in billed : Restated(h, i).number = i.number /\ Restated(h, i).source = i.source
  BY <1>6, Restating
<1>9. \A i, j \in I : i.number = j.number => i = j
  <2>1. Tabled(SeenReceipts(h), I, SeenAllocations(h))
    BY TablesAreTabled DEF AllTabled
  <2> QED
    BY <2>1 DEF Tabled
<1>10. ASSUME NEW i \in billed, UnitOfBill(i) \notin units
       PROVE  Restated(h, i) = i
  <2>1. i.number \notin DOMAIN wrote[h].status
    <3>1. SUFFICES ASSUME i.number \in DOMAIN wrote[h].status PROVE FALSE
      OBVIOUS
    <3>2. PICK j \in I : j.number = i.number /\ UnitOfBill(j) \in units
      BY <3>1 DEF Restates
    <3>3. Restated(h, i) \in I /\ Restated(h, i).number = j.number
      BY <1>7, <1>8, <3>2
    <3>4. j = Restated(h, i)
      BY <1>9, <3>3
    <3>5. j.source = i.source
      BY <1>8, <3>4
    <3> QED
      BY <1>10, <3>2, <3>5 DEF UnitOfBill
  <2> QED
    BY <2>1 DEF Restated
<1>11. \A i \in invoices : \E j \in I : j.number = i.number /\ j.source = i.source
  BY <1>7, <1>8
<1>12. \A i \in invoices : i \in I \/ UnitOfBill(i) \in units
  BY <1>7, <1>10
<1>13. \A j \in I : j \in invoices \/ UnitOfBill(j) \in units
  <2>1. ASSUME NEW j \in I, UnitOfBill(j) \notin units PROVE j \in invoices
    <3>1. PICK i \in billed : j = Restated(h, i)
      BY <1>7
    <3>2. UnitOfBill(i) = UnitOfBill(j)
      BY <1>8, <3>1 DEF UnitOfBill
    <3> QED
      BY <1>5, <1>10, <2>1, <3>1, <3>2
  <2> QED
    BY <2>1
<1> QED
  BY <1>4, <1>11, <1>12, <1>13

LEMMA CommittedFits ==
  ASSUME IInv, MoneyTyped, BooksFit, NEW h \in Handlers, Fits(h), pc[h] = "commit",
         NEW R, R = SeenReceipts(h), NEW I, I = SeenInvoices(h),
         NEW A, A = SeenAllocations(h), NEW s, s = StillUnswept(h)
  PROVE  Balanced(R, I, A, Units, {}, Waiting(s, Units)) /\ Known(R, I, A, Units)
<1>1. PICK units : units = request[h].units
  OBVIOUS
<1>2. PICK W \in Seq(Rows) : W = wrote[h].allocations
  BY DEF MoneyTyped, Held, Wrote
<1>3. PICK P \in Seq(Rows) : P = allocations
  BY DEF MoneyTyped, TablesTyped
<1>4. A = P \o W
  BY <1>2, <1>3 DEF SeenAllocations
<1>5. Tabled(R, I, A)
  BY TablesAreTabled DEF AllTabled
<1>16. PICK waiting : waiting = Waiting(s, Units)
  OBVIOUS
<1>6. /\ Balanced(R, I, A, units, {}, waiting) /\ Known(R, I, W, units)
      /\ Restates(wrote[h].status, I, units)
  <2>1. Left(h) = Asleep(h) /\ Late(h) = {}
    BY DEF Late, Left, Sweeping
  <2>2. Asleep(h) \subseteq waiting
    BY <1>16, UnitsAsked DEF Asleep, Waiting
  <2>3. /\ Balanced(R, I, A, units, {}, Asleep(h)) /\ Known(R, I, W, units)
        /\ Restates(wrote[h].status, I, units)
    BY <1>1, <1>2, <2>1 DEF Fits
  <2> QED
    BY <2>2, <2>3, StillBalanced
<1>7. /\ \A r \in receipts : r \in R
      /\ \A q \in R : q \in receipts \/ UnitOf[q.source] \in units
      /\ \A i \in invoices : \E j \in I : j.number = i.number /\ j.source = i.source
      /\ \A i \in invoices : i \in I \/ UnitOfBill(i) \in units
      /\ \A j \in I : j \in invoices \/ UnitOfBill(j) \in units
  BY <1>1, <1>6, Elsewhere
<1>8. /\ \A r \in R : UnitOf[r.source] \in units \/ AppliedIn(W, r.number) = 0
      /\ \A i \in I : UnitOfBill(i) \in units \/ PaidIn(W, i.number) = 0
  BY <1>5, <1>6, Unapplied
<1>9. \A n : /\ PaidIn(A, n) = PaidIn(P, n) + PaidIn(W, n) /\ PaidIn(P, n) \in Nat
             /\ AppliedIn(A, n) = AppliedIn(P, n) + AppliedIn(W, n) /\ AppliedIn(P, n) \in Nat
  BY <1>4, SumsAddUp
<1>10. PICK others : others = Units \ units
  OBVIOUS
<1>11. Alike(receipts, invoices, P, R, I, A, others)
  <2>1. \A r \in receipts : UnitOf[r.source] \in others =>
          AppliedIn(A, r.number) = AppliedIn(P, r.number)
    BY <1>7, <1>8, <1>9, <1>10
  <2>2. \A i \in invoices : UnitOfBill(i) \in others =>
          PaidIn(A, i.number) = PaidIn(P, i.number)
    BY <1>7, <1>8, <1>9, <1>10
  <2> QED
    BY <1>7, <1>10, <2>1, <2>2 DEF Alike
<1>12. Balanced(R, I, A, others, {}, waiting)
  <2>1. Balanced(receipts, invoices, P, others, {}, Waiting(unswept, others))
    BY <1>3, <1>10, OwnBooks
  <2>2. \A b \in unswept : UnitOf[b] \in others => b \in s /\ UnitOf[b] \in Units
    BY <1>1, <1>10 DEF StillUnswept
  <2>3. Waiting(unswept, others) \subseteq waiting
    BY <1>16, <2>2 DEF Waiting
  <2>4. Balanced(receipts, invoices, P, others, {}, waiting)
    BY <2>1, <2>3, StillBalanced
  <2> QED
    BY <1>11, <2>4, AlikeBalanced
<1>13. \A u \in Units : u \in units \/ u \in others
  BY <1>10
<1>14. Balanced(R, I, A, Units, {}, waiting)
  BY <1>6, <1>12, <1>13 DEF Balanced, NotOverspent, SaysWhatIsPaid, Settled
<1>15. Known(R, I, A, Units)
  <2>1. ASSUME NEW a, \/ \E k \in DOMAIN P : a = P[k]
                      \/ \E k \in DOMAIN W : a = W[k]
        PROVE  /\ \E r \in R : r.number = a.receipt /\ UnitOf[r.source] \in Units
               /\ \E i \in I : i.number = a.invoice /\ UnitOfBill(i) \in Units
    <3>1. CASE \E k \in DOMAIN P : a = P[k]
      <4>1. /\ \E r \in receipts : r.number = a.receipt /\ UnitOf[r.source] \in Units
            /\ \E i \in invoices : i.number = a.invoice /\ UnitOfBill(i) \in Units
        BY <1>3, <3>1 DEF BooksFit, Known
      <4> QED
        BY <1>7, <4>1 DEF UnitOfBill
    <3>2. CASE \E k \in DOMAIN W : a = W[k]
      <4>1. \A u \in units : u \in Units
        BY <1>1, UnitsAsked
      <4>2. /\ \E r \in R : r.number = a.receipt /\ UnitOf[r.source] \in units
            /\ \E i \in I : i.number = a.invoice /\ UnitOfBill(i) \in units
        BY <1>6, <3>2 DEF Known
      <4> QED
        BY <4>1, <4>2
    <3> QED
      BY <2>1, <3>1, <3>2
  <2>2. ASSUME NEW k \in DOMAIN A
        PROVE  \/ \E l \in DOMAIN P : A[k] = P[l]
               \/ \E l \in DOMAIN W : A[k] = W[l]
    <3>1. PICK l \in Nat : l = Len(P)
      OBVIOUS
    <3>2. k \in 1 .. l + Len(W) /\ A[k] = IF k <= l THEN P[k] ELSE W[k - l]
      BY <1>4, <2>2, <3>1
    <3> QED
      BY <3>1, <3>2
  <2> QED
    BY <2>1, <2>2 DEF Known
<1> QED
  BY <1>14, <1>15, <1>16

(* What a handler does fits as long as the rows of its flats stay.         *)
LEMMA AlikeFits ==
  ASSUME IInv, MoneyTyped, NEW g \in Handlers, Fits(g),
         request'[g] = request[g], wrote'[g] = wrote[g], pc'[g] = pc[g], todo'[g] = todo[g],
         Asleep(g)' = Asleep(g), NEW Q, Q = SeenReceipts(g)', NEW J, J = SeenInvoices(g)',
         NEW B, B = SeenAllocations(g)',
         Alike(SeenReceipts(g), SeenInvoices(g), SeenAllocations(g), Q, J, B,
               request[g].units)
  PROVE  Fits(g)'
<1>1. Left(g)' = Left(g) /\ Late(g)' = Late(g) /\ Taken(g)' = Taken(g)
  BY DEF Left, Sweeping, Late, Taken
<1>2. PICK R : R = SeenReceipts(g)
  OBVIOUS
<1>3. PICK I : I = SeenInvoices(g)
  OBVIOUS
<1>4. PICK A : A = SeenAllocations(g)
  OBVIOUS
<1>5. PICK units : units = request[g].units
  OBVIOUS
<1>6. PICK credits : credits = todo[g].credits
  OBVIOUS
<1>7. PICK open : open = todo[g].open
  OBVIOUS
<1>8. PICK late : late = Late(g)
  OBVIOUS
<1>9. PICK left : left = Left(g)
  OBVIOUS
<1>10. PICK taken : taken = Taken(g)
  OBVIOUS
<1>11. PICK W : W = wrote[g].allocations
  OBVIOUS
<1>12. PICK status : status = wrote[g].status
  OBVIOUS
<1>13. /\ Alike(R, I, A, Q, J, B, units) /\ Balanced(R, I, A, units, late, left)
       /\ Known(R, I, W, units) /\ Restates(status, I, units)
  BY <1>2, <1>3, <1>4, <1>5, <1>8, <1>9, <1>11, <1>12 DEF Fits
<1>14. Balanced(Q, J, B, units, late, left)
  BY <1>13, AlikeBalanced
<1>15. Known(Q, J, W, units) /\ Restates(status, J, units)
  <2>1. /\ \A r \in R : UnitOf[r.source] \in units =>
             \E q \in Q : q.number = r.number /\ q.source = r.source
        /\ \A i \in I : UnitOfBill(i) \in units =>
             \E j \in J : j.number = i.number /\ UnitOfBill(j) = UnitOfBill(i)
    BY <1>13 DEF Alike, UnitOfBill
  <2>2. /\ \A n : (\E r \in R : r.number = n /\ UnitOf[r.source] \in units)
                   => (\E q \in Q : q.number = n /\ UnitOf[q.source] \in units)
        /\ \A n : (\E i \in I : i.number = n /\ UnitOfBill(i) \in units)
                   => (\E j \in J : j.number = n /\ UnitOfBill(j) \in units)
    BY <2>1
  <2> QED
    BY <1>13, <2>2 DEF Known, Restates
<1>16. CASE pc[g] \in {"invoices", "allocate", "status"}
  <2>1. CreditsFit(credits, R, A, units, taken)
    BY <1>2, <1>4, <1>5, <1>6, <1>10, <1>16 DEF Fits
  <2>2. CreditsFit(credits, Q, B, units, taken)
    BY <1>13, <2>1, AlikeLists
  <2>3. CASE pc[g] = "invoices"
    BY <1>1, <1>5, <1>6, <1>8, <1>9, <1>10, <1>11, <1>12, <1>14, <1>15, <2>2, <2>3 DEF Fits
  <2>4. CASE pc[g] \in {"allocate", "status"}
    <3>1. PICK unit : unit = Head(credits).unit
      OBVIOUS
    <3>2. OpenFits(open, I, A, unit, taken)
      BY <1>3, <1>4, <1>6, <1>7, <1>10, <2>4, <3>1 DEF Fits
    <3>3. /\ credits \in Seq(CreditRow) /\ credits # <<>>
          /\ open \in Seq(OpenRow) /\ open # <<>>
      BY <1>6, <1>7, <2>4 DEF MoneyTyped, Held, ToDo
    <3>4. Tabled(R, I, A)
      BY <1>2, <1>3, <1>4, TablesAreTabled DEF AllTabled
    <3>5. unit \in units
      BY <2>1, <3>1, <3>3, <3>4, RestOfCredits
    <3>6. OpenFits(open, J, B, unit, taken)
      BY <1>13, <3>2, <3>5, AlikeLists
    <3>7. PaidIn(B, Head(open).invoice) = PaidIn(A, Head(open).invoice)
      <4>1. \E i \in I : /\ i.number = Head(open).invoice /\ UnitOfBill(i) = unit
                         /\ Head(open).total = Amount(i.source)
                         /\ Head(open).due = Due(A, i) + taken
        BY <3>2, <3>3, <3>4, RestOfOpen
      <4> QED
        BY <1>13, <3>5, <4>1 DEF Alike
    <3>8. pc[g] = "status" =>
            todo[g].status = StatusOf(PaidIn(B, Head(open).invoice), Head(open).total)
      BY <1>4, <1>7, <3>7 DEF Fits
    <3> QED
      BY <1>1, <1>5, <1>6, <1>7, <1>8, <1>9, <1>10, <1>11, <1>12, <1>14, <1>15, <2>2, <2>4,
         <3>1, <3>6, <3>8 DEF Fits
  <2> QED
    BY <1>16, <2>3, <2>4
<1>17. CASE pc[g] \notin {"invoices", "allocate", "status"}
  BY <1>1, <1>5, <1>8, <1>9, <1>11, <1>12, <1>14, <1>15, <1>17 DEF Fits
<1> QED
  BY <1>16, <1>17

(* Nothing that another commits concerns the flats of a handler.           *)
LEMMA OthersOfCommit ==
  ASSUME IInv, MoneyTyped, AllTabled', NEW h \in Handlers, NEW g \in Handlers, g # h,
         Commit(h), Fits(h), Fits(g), ~Shares(g, h)
  PROVE  Fits(g)'
<1>1. /\ receipts' = SeenReceipts(h) /\ invoices' = SeenInvoices(h)
      /\ allocations' = SeenAllocations(h) /\ unswept' = StillUnswept(h)
      /\ request'[g] = request[g] /\ wrote'[g] = wrote[g]
      /\ pc'[g] = pc[g] /\ todo'[g] = todo[g]
  BY DEF Commit, End, IInv, ControlInv, Typed, MoneyTyped
<1>2. PICK R : R = SeenReceipts(h)
  OBVIOUS
<1>3. PICK I : I = SeenInvoices(h)
  OBVIOUS
<1>4. PICK units : units = request[h].units
  OBVIOUS
<1>5. PICK P \in Seq(Rows) : P = allocations
  BY DEF MoneyTyped, TablesTyped
<1>6. PICK W \in Seq(Rows) : W = wrote[h].allocations
  BY DEF MoneyTyped, Held, Wrote
<1>7. PICK V \in Seq(Rows) : V = wrote[g].allocations
  BY DEF MoneyTyped, Held, Wrote
<1>8. PICK Q : Q = SeenReceipts(g)'
  OBVIOUS
<1>9. PICK J : J = SeenInvoices(g)'
  OBVIOUS
<1>10. PICK B : B = SeenAllocations(g)'
  OBVIOUS
<1>11. Tabled(Q, J, B)
  BY <1>8, <1>9, <1>10 DEF AllTabled
<1>12. Known(R, I, W, units) /\ Restates(wrote[h].status, I, units)
  BY <1>2, <1>3, <1>4, <1>6 DEF Fits
<1>13. /\ \A r \in receipts : r \in R
       /\ \A q \in R : q \in receipts \/ UnitOf[q.source] \in units
       /\ \A i \in invoices : \E j \in I : j.number = i.number /\ j.source = i.source
       /\ \A i \in invoices : i \in I \/ UnitOfBill(i) \in units
       /\ \A j \in I : j \in invoices \/ UnitOfBill(j) \in units
  BY <1>2, <1>3, <1>4, <1>12, Elsewhere
<1>14. PICK own : own = Own(g, "pay", Receipt(g))
  OBVIOUS
<1>15. PICK bill : bill = Own(g, "bill", Invoice(g)) \cup Imported(g)
  OBVIOUS
<1>16. SeenReceipts(g) = receipts \cup own /\ Q = R \cup own
  BY <1>1, <1>2, <1>8, <1>14 DEF SeenReceipts, Own, Receipt
<1>17. /\ SeenInvoices(g) = {Restated(g, i) : i \in invoices \cup bill}
       /\ J = {Restated(g, i) : i \in I \cup bill}
  <2>1. \A i : Restated(g, i)' = Restated(g, i)
    BY <1>1 DEF Restated
  <2>2. Imported(g)' = Imported(g)
    BY <1>1 DEF Imported, OpeningInvoice
  <2> QED
    BY <1>1, <1>3, <1>9, <1>15, <2>1, <2>2 DEF SeenInvoices, Own, Invoice
<1>18. \A i \in invoices \cup I \cup bill :
         Restated(g, i).number = i.number /\ Restated(g, i).source = i.source
  <2>1. I \subseteq InvoiceRow
    BY <1>3, SeenTyped
  <2>2. \A i \in invoices \cup I \cup bill :
          DOMAIN i = {"number", "source", "entry", "status"}
    BY <1>15, <2>1 DEF IInv, TablesInv, Own, Invoice, Imported, OpeningInvoice, InvoiceRow
  <2> QED
    BY <2>2, Restating
<1>19. Known(Q, J, W, units)
  <2>1. \A x \in I : \E j \in J : j.number = x.number /\ UnitOfBill(j) = UnitOfBill(x)
    BY <1>17, <1>18 DEF UnitOfBill
  <2>2. \A n : (\E i \in I : i.number = n /\ UnitOfBill(i) \in units)
                 => (\E j \in J : j.number = n /\ UnitOfBill(j) \in units)
    BY <2>1
  <2>3. \A n : (\E r \in R : r.number = n /\ UnitOf[r.source] \in units)
                 => (\E q \in Q : q.number = n /\ UnitOf[q.source] \in units)
    BY <1>16
  <2> QED
    BY <1>12, <2>2, <2>3 DEF Known
<1>20. /\ \A r \in Q : UnitOf[r.source] \in units \/ AppliedIn(W, r.number) = 0
       /\ \A i \in J : UnitOfBill(i) \in units \/ PaidIn(W, i.number) = 0
  BY <1>11, <1>19, Unapplied
<1>21. SeenAllocations(g) = P \o V /\ B = (P \o W) \o V
  BY <1>1, <1>5, <1>6, <1>7, <1>10 DEF SeenAllocations
<1>22. /\ \A n : PaidIn(W, n) = 0 => PaidIn(B, n) = PaidIn(P \o V, n)
       /\ \A n : AppliedIn(W, n) = 0 => AppliedIn(B, n) = AppliedIn(P \o V, n)
  <2>1. PICK S \in Seq(Rows) : S = P \o W
    <3>1. P \o W \in Seq(Rows)
      OBVIOUS
    <3> QED
      BY <3>1
  <2>2. ASSUME NEW n
        PROVE  /\ PaidIn(S \o V, n) = PaidIn(S, n) + PaidIn(V, n)
               /\ AppliedIn(S \o V, n) = AppliedIn(S, n) + AppliedIn(V, n)
    BY SumsAddUp
  <2>3. ASSUME NEW n
        PROVE  /\ PaidIn(S, n) = PaidIn(P, n) + PaidIn(W, n) /\ PaidIn(P, n) \in Nat
               /\ AppliedIn(S, n) = AppliedIn(P, n) + AppliedIn(W, n) /\ AppliedIn(P, n) \in Nat
    BY <2>1, SumsAddUp
  <2>4. ASSUME NEW n
        PROVE  /\ PaidIn(P \o V, n) = PaidIn(P, n) + PaidIn(V, n)
               /\ AppliedIn(P \o V, n) = AppliedIn(P, n) + AppliedIn(V, n)
    BY SumsAddUp
  <2> QED
    BY <1>21, <2>1, <2>2, <2>3, <2>4
<1>23. PICK mine : mine = request[g].units
  OBVIOUS
<1>24. \A u \in mine : u \notin units
  BY <1>4, <1>23 DEF Shares
<1>25. \A q \in Q : UnitOf[q.source] \in mine => q \in SeenReceipts(g)
  BY <1>13, <1>16, <1>24
<1>26. \A r \in SeenReceipts(g) : UnitOf[r.source] \in mine =>
         r \in Q /\ AppliedIn(B, r.number) = AppliedIn(P \o V, r.number)
  BY <1>13, <1>16, <1>20, <1>22, <1>24
<1>27. \A j \in J : UnitOfBill(j) \in mine => j \in SeenInvoices(g)
  <2>1. ASSUME NEW i \in I \cup bill, UnitOfBill(Restated(g, i)) \in mine
        PROVE  i \in invoices \cup bill
    BY <1>13, <1>18, <1>24, <2>1 DEF UnitOfBill
  <2> QED
    BY <1>17, <2>1
<1>28. \A i \in SeenInvoices(g) : UnitOfBill(i) \in mine =>
         i \in J /\ PaidIn(B, i.number) = PaidIn(P \o V, i.number)
  <2>1. ASSUME NEW i \in invoices \cup bill, UnitOfBill(Restated(g, i)) \in mine
        PROVE  i \in I \cup bill
    BY <1>13, <1>18, <1>24, <2>1 DEF UnitOfBill
  <2>2. \A i \in SeenInvoices(g) : UnitOfBill(i) \in mine => i \in J
    BY <1>17, <2>1
  <2> QED
    BY <1>20, <1>22, <1>24, <2>2
<1>29. Alike(SeenReceipts(g), SeenInvoices(g), SeenAllocations(g), Q, J, B, mine)
  BY <1>21, <1>25, <1>26, <1>27, <1>28 DEF Alike
<1>30. Asleep(g)' = Asleep(g)
  <2>1. \A b \in wrote[h].balances : UnitOf[b] \in units
    BY <1>4 DEF MoneyTyped, OpeningsInv, Importing
  <2>2. \A b : UnitOf[b] \in mine => (b \in StillUnswept(h) <=> b \in unswept)
    BY <1>4, <1>24, <2>1 DEF StillUnswept
  <2>3. \A b : UnitOf[b] \in mine => (b \in StillUnswept(g)' <=> b \in StillUnswept(g))
    BY <1>1, <1>23, <2>2 DEF StillUnswept
  <2>4. PICK new : new = StillUnswept(g)'
    OBVIOUS
  <2>5. PICK old : old = StillUnswept(g)
    OBVIOUS
  <2>6. {b \in new : UnitOf[b] \in mine} = {b \in old : UnitOf[b] \in mine}
    BY <2>3, <2>4, <2>5
  <2> QED
    BY <1>1, <1>23, <2>4, <2>5, <2>6 DEF Asleep, Waiting
<1> QED
  BY <1>1, <1>8, <1>9, <1>10, <1>23, <1>29, <1>30, AlikeFits

LEMMA CommitFits ==
  ASSUME IInv, BillsInv, MoneyTyped, AllTabled', ~overlapped, NEW h \in Handlers, Commit(h),
         BooksFit, \A g \in Handlers : Working(g) => Fits(g)
  PROVE  BooksFit' /\ \A g \in Handlers : Working(g)' => Fits(g)'
<1>1. /\ receipts' = SeenReceipts(h) /\ invoices' = SeenInvoices(h)
      /\ allocations' = SeenAllocations(h) /\ unswept' = StillUnswept(h)
      /\ pc'[h] = "idle" /\ pc[h] = "commit"
  BY DEF Commit, End, IInv, ControlInv, Typed
<1>2. Working(h) /\ Fits(h)
  BY <1>1 DEF Working, NothingYet
<1>3. BooksFit'
  BY <1>1, <1>2, CommittedFits DEF BooksFit
<1>4. ASSUME NEW g \in Handlers, Working(g)'
      PROVE  Fits(g)'
  <2>1. g # h /\ pc'[g] = pc[g]
    BY <1>1, <1>4 DEF Working, NothingYet, Commit, End, IInv, ControlInv, Typed
  <2>2. Working(g) /\ Fits(g)
    BY <1>4, <2>1 DEF Working
  <2>3. HasTransaction(g) /\ HasTransaction(h)
    BY <1>2, <2>2 DEF Working, NothingYet, HasTransaction, IInv, ControlInv, Typed, Steps
  <2>4. ~Shares(g, h)
    BY <2>1, <2>3 DEF BillsInv
  <2> QED
    BY <1>2, <2>1, <2>2, <2>4, OthersOfCommit
<1> QED
  BY <1>3, <1>4

------------------------------------------------------------------------------
(* Every other step leaves the tables, and what the others hold, alone.    *)
LEMMA QuietFits ==
  ASSUME UNCHANGED <<receipts, invoices, allocations, unswept>>, BooksFit, NEW h,
         \A g \in Handlers : Working(g) => Fits(g),
         \A g \in Handlers \ {h} : /\ request'[g] = request[g] /\ wrote'[g] = wrote[g]
                                   /\ pc'[g] = pc[g] /\ todo'[g] = todo[g],
         Working(h)' => Fits(h)'
  PROVE  BooksFit' /\ \A g \in Handlers : Working(g)' => Fits(g)'
<1>1. BooksFit'
  BY DEF BooksFit
<1>2. ASSUME NEW g \in Handlers \ {h}, Working(g)'
      PROVE  Fits(g)'
  BY <1>2, OthersFit DEF Working
<1> QED
  BY <1>1, <1>2

LEMMA StepFits ==
  ASSUME IInv, MoneyTyped, AllTabled', BooksFit, NEW h \in Handlers,
         Working(h) => Fits(h), Working(h)', ~Commit(h),
         Step(h) \/ Crash(h) \/ \E r \in Asked : Start(h, r)
  PROVE  Fits(h)'
<1>1. ~End(h)
  BY DEF End, Working, NothingYet, IInv, ControlInv, Typed
<1>2. CASE Insert(h)
  BY <1>1, <1>2, InsertFits
<1>3. CASE ReadCredits(h)
  BY <1>3, ReadCreditsFits
<1>4. CASE ReadInvoices(h)
  <2>1. Working(h)
    BY <1>4 DEF ReadInvoices, Working, NothingYet
  <2> QED
    BY <1>4, <2>1, ReadInvoicesFits
<1>5. CASE Allocate(h)
  <2>1. Working(h)
    BY <1>5 DEF Allocate, Working, NothingYet
  <2> QED
    BY <1>5, <2>1, AllocateFits
<1>6. CASE UpdateStatus(h)
  <2>1. Working(h)
    BY <1>6 DEF UpdateStatus, Working, NothingYet
  <2> QED
    BY <1>6, <2>1, UpdateStatusFits
<1>7. CASE ReadPeriod(h)
  <2>1. Working(h)
    BY <1>7 DEF ReadPeriod, Working, NothingYet
  <2> QED
    BY <1>1, <1>7, <2>1, ReadPeriodFits
<1>8. CASE PostEntry(h)
  <2>1. Working(h)
    BY <1>8 DEF PostEntry, Working, NothingYet
  <2> QED
    BY <1>1, <1>8, <2>1, PostEntryFits
<1>9. CASE \/ FastPath(h) \/ CheckBilled(h) \/ ReadNumber(h) \/ OpenSheet(h)
           \/ \E r \in Asked : Start(h, r)
  <2>1. pc'[h] \in NothingYet
    BY <1>1, <1>9 DEF FastPath, CheckBilled, ReadNumber, OpenSheet, Start, Abort, Goto,
                      NothingYet, IInv, ControlInv, Typed
  <2> QED
    BY <2>1 DEF Working
<1>10. CASE TimeOut(h) \/ Crash(h)
  BY <1>1, <1>10 DEF TimeOut, Crash, Abort
<1>11. CASE Import(h)
  BY <1>1, <1>11, ImportFits
<1> QED
  BY <1>2, <1>3, <1>4, <1>5, <1>6, <1>7, <1>8, <1>9, <1>10, <1>11 DEF Step

LEMMA MoneyNext ==
  ASSUME IInv, BillsInv, MoneyTyped, MoneyInv, AllTabled', [Next]_vars
  PROVE  MoneyInv'
<1>1. ASSUME NEW h \in Handlers,
             Step(h) \/ Crash(h) \/ \E r \in Asked : Start(h, r), ~overlapped'
      PROVE  BooksFit' /\ \A g \in Handlers : Working(g)' => Fits(g)'
  <2>1. ~overlapped
    BY <1>1, StepsOpen DEF Opening
  <2>2. BooksFit /\ \A g \in Handlers : Working(g) => Fits(g)
    BY <2>1 DEF MoneyInv
  <2>3. CASE Commit(h)
    BY <2>1, <2>2, <2>3, CommitFits
  <2>4. CASE ~Commit(h)
    <3>1. UNCHANGED <<receipts, invoices, allocations, unswept>>
      BY <1>1, <2>4
         DEF Step, FastPath, CheckBilled, ReadNumber, Insert, OpenSheet, Import, ReadCredits,
             Sweep, ReadInvoices, Allocate, UpdateStatus, ReadPeriod, PostEntry, TimeOut, Crash,
             Start, Goto, Abort, NextCredit, tables, history
    <3>2. \A g \in Handlers \ {h} : /\ request'[g] = request[g] /\ wrote'[g] = wrote[g]
                                    /\ pc'[g] = pc[g] /\ todo'[g] = todo[g]
      BY <1>1, StepsHold, HandlerSteps DEF Keeps, Others
    <3>3. Working(h)' => Fits(h)'
      BY <1>1, <2>2, <2>4, StepFits
    <3> QED
      BY <2>2, <3>1, <3>2, <3>3, QuietFits
  <2> QED
    BY <2>3, <2>4
<1>2. CASE Committee \/ UNCHANGED vars
  <2>1. UNCHANGED <<receipts, invoices, allocations, request, wrote, pc, todo, history>>
    BY <1>2 DEF Committee, vars, tables, locals
  <2>2. ASSUME NEW g \in Handlers, Fits(g) PROVE Fits(g)'
    BY <2>1, <2>2, OthersFit DEF history
  <2> QED
    BY <2>1, <2>2 DEF MoneyInv, BooksFit, Working, history
<1> QED
  BY <1>1, <1>2 DEF Next, MoneyInv

LEMMA Money == Spec => []MoneyInv
<1>1. Init => MoneyInv
  BY DEF Init, MoneyInv, BooksFit, Balanced, NotOverspent, SaysWhatIsPaid, Settled, Known,
         Working, NothingYet
<1>2. IInv /\ MoneyTyped => AllTabled
  BY TablesAreTabled
<1>3. IInv /\ BillsInv /\ MoneyTyped /\ MoneyInv /\ AllTabled' /\ [Next]_vars => MoneyInv'
  BY MoneyNext
<1> QED
  BY <1>1, <1>2, <1>3, BilledOnce, Invariance, Types, PTL DEF Spec

LEMMA BillsOfFlats ==
  ASSUME MoneyTyped
  PROVE  \A i \in invoices : UnitOfBill(i) \in Units
BY BooksAssumption DEF MoneyTyped, TablesTyped, InvoiceRow, UnitOfBill, Bills

(* As long as no two transactions of a flat overlap, no receipt is applied *)
(* beyond its amount and no invoice is paid beyond its total, and the      *)
(* status of one of any amount, a bill or an opening balance, says what    *)
(* was paid of it: whatever failed, was retried or timed out, and whatever *)
(* the other flats' requests were doing.                                   *)
THEOREM NothingIsOverspent == Spec => []AllocationsFit
<1>1. IInv /\ MoneyTyped /\ MoneyInv => AllocationsFit
  <2> SUFFICES ASSUME IInv, MoneyTyped, MoneyInv, ~overlapped PROVE
        /\ \A r \in receipts : Spare(allocations, r) >= 0
        /\ \A i \in invoices :
             /\ Due(allocations, i) >= 0
             /\ (i.status = "paid") = (Amount(i.source) > 0 /\ Due(allocations, i) = 0)
             /\ (i.status = "issued") = (PaidIn(allocations, i.number) = 0)
    BY DEF AllocationsFit
  <2>1. Balanced(receipts, invoices, allocations, Units, {}, Waiting(unswept, Units))
    BY DEF MoneyInv, BooksFit
  <2>2. \A r \in receipts : UnitOf[r.source] \in Units
    BY BooksAssumption DEF IInv, TablesInv
  <2>3. \A i \in invoices : UnitOfBill(i) \in Units
    BY BillsOfFlats
  <2>4. \A r \in receipts : Spare(allocations, r) >= 0
    BY <2>1, <2>2 DEF Balanced, NotOverspent
  <2>5. ASSUME NEW i \in invoices
        PROVE  /\ Due(allocations, i) >= 0
               /\ (i.status = "paid") = (Amount(i.source) > 0 /\ Due(allocations, i) = 0)
               /\ (i.status = "issued") = (PaidIn(allocations, i.number) = 0)
    <3>1. PICK paid : paid = PaidIn(allocations, i.number)
      OBVIOUS
    <3>2. PICK total : total = Amount(i.source)
      OBVIOUS
    <3>3. Due(allocations, i) >= 0 /\ i.status = Says(paid, total)
      BY <2>1, <2>3, <3>1, <3>2 DEF Balanced, SaysWhatIsPaid
    <3>4. Due(allocations, i) = total - paid
      BY <3>1, <3>2 DEF Due
    <3>5. total \in Nat /\ paid \in Nat
      BY <3>1, <3>2, Sums DEF MoneyTyped, TablesTyped
    <3>6. PICK due : due = Due(allocations, i)
      OBVIOUS
    <3>7. PICK status : status = i.status
      OBVIOUS
    <3>8. status = Says(paid, total) /\ due = total - paid /\ due >= 0
      BY <3>3, <3>4, <3>6, <3>7
    <3>9. /\ status = "paid" <=> (total > 0 /\ due = 0)
          /\ status = "issued" <=> paid = 0
      BY <3>5, <3>8 DEF Says, StatusOf
    <3> QED
      BY <3>1, <3>2, <3>3, <3>6, <3>7, <3>9
  <2> QED
    BY <2>4, <2>5
<1> QED
  BY <1>1, Invariance, Types, Money, PTL

(* ... and no flat owes money and is owed money at once: credit has met    *)
(* every invoice that is committed, but for the opening balances that were *)
(* imported since the flat's last bill or sweep, as the import sweeps      *)
(* nothing.                                                                *)
THEOREM CreditIsSwept == Spec => []CreditMeetsTheNextBill
<1>1. IInv /\ MoneyTyped /\ MoneyInv => CreditMeetsTheNextBill
  <2> SUFFICES ASSUME IInv, MoneyTyped, MoneyInv, ~overlapped,
                      NEW r \in receipts, NEW i \in invoices,
                      UnitOf[r.source] = UnitOfBill(i)
               PROVE  \/ Spare(allocations, r) = 0 \/ Due(allocations, i) = 0
                      \/ i.source \in unswept
    BY DEF CreditMeetsTheNextBill
  <2>1. UnitOfBill(i) \in Units
    BY BillsOfFlats
  <2>2. \/ Spare(allocations, r) = 0 \/ Due(allocations, i) = 0
        \/ <<r.number, i.number>> \in Waiting(unswept, Units)
    BY <2>1 DEF MoneyInv, BooksFit, Balanced, Settled
  <2>3. ASSUME NEW b \in unswept, i.number = NumberOf[b]
        PROVE  i.source = b
    <3>1. b \in Balances /\ NumberOf[b] < 0
      BY BooksAssumption DEF MoneyTyped
    <3>2. i.source \in Balances /\ NumberOf[i.source] = NumberOf[b]
      BY <2>3, <3>1, BooksAssumption DEF MoneyTyped, OpeningsInv, OpeningRows
    <3> QED
      BY <3>1, <3>2, BooksAssumption
  <2> QED
    BY <2>2, <2>3 DEF Waiting
<1> QED
  BY <1>1, Invariance, Types, Money, PTL
==============================================================================
