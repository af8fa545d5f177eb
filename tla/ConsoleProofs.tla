---------------------------- MODULE ConsoleProofs ----------------------------
(***************************************************************************)
(* What the console promises about its forms and its offers, for any       *)
(* visits, any number of loads and forms, and any losses.                  *)
(***************************************************************************)
EXTENDS Console, TLAPS

(* The API carries out the route for whoever holds one of the roles.       *)
AllowedTo(roles, route) == \A role \in roles : <<route, role>> \in Lets

(* An offer calls something, and unless it is shown to everybody, the API  *)
(* does what it calls for whoever sees it.                                 *)
Honest(offer) ==
  /\ Len(offer.calls) \in Nat \ {0}
  /\ offer.shown = Anyone \/ \A i \in 1..Len(offer.calls) : AllowedTo(offer.shown, offer.calls[i])

HonestPage(p) == \A name \in DOMAIN p.offers : Honest(p.offers[name])
------------------------------------------------------------------------------
(* What the limited offers call, by whom the guards let through.           *)
AccountingCalls ==
  {"POST billing/issue", "POST billing/preview",
   "POST ledger/periods/:id/lock", "POST ledger/budgets"}

CashierCalls ==
  {"POST payments/manual", "POST payments/destinations"}

CommitteeCalls ==
  {"POST ledger/budgets/:id/approve", "POST notices",
   "POST notices/:id/publish", "POST safety/amenities", "POST documents",
   "POST documents/:id/upload", "POST documents/:id/attach",
   "DELETE documents/:id", "GET gate/register/export",
   "POST parking/vehicles", "DELETE parking/vehicles/:id",
   "POST parking/slots", "POST parking/slots/allot",
   "POST parking/slots/:id/release", "POST society/towers",
   "POST society/units/bulk", "POST society/units",
   "POST society/occupancies", "DELETE society/occupancies/:id", "POST staff",
   "POST staff/:id/status", "POST staff/:id/pin",
   "POST staff/:id/verification", "POST assets", "POST assets/:id/work",
   "POST assets/work/:id/complete", "POST privacy/erasure/:id/complete",
   "POST privacy/notices"}

AdminCalls ==
  {"POST ledger/periods/:id/reopen", "POST society/roles",
   "DELETE society/roles", "POST privacy/retention/purge",
   "POST privacy/retention"}

GateCalls ==
  {"POST staff/attendance/check-in", "POST staff/attendance/check-out"}

(* The guards let through whom the console shows these offers.             *)
LEMMA GuardsLet ==
  /\ \A route \in AccountingCalls : AllowedTo(Accounting, route)
  /\ \A route \in CashierCalls : AllowedTo(Cashiers, route)
  /\ \A route \in CommitteeCalls : AllowedTo(Committee, route)
  /\ \A route \in AdminCalls : AllowedTo(Admin, route)
  /\ \A route \in GateCalls : AllowedTo(GateKeepers, route)
<1>1. \A route \in AccountingCalls : AllowedTo(Accounting, route)
  BY DEF AllowedTo, Lets, Guarded, AccountingCalls, Accounting, BillingRoutes, BudgetDrafting,
         LedgerRoutes
<1>2. \A route \in CashierCalls : AllowedTo(Cashiers, route)
  BY DEF AllowedTo, Lets, Guarded, CashierCalls, Cashiers, PaymentRoutes
<1>3. \A route \in CommitteeCalls : AllowedTo(Committee, route)
  <2>1. \A route \in {"POST ledger/budgets/:id/approve"} :
          AllowedTo(Committee, route)
    BY DEF AllowedTo, Lets, Guarded, BudgetPassing
  <2>2. \A route \in {"POST notices", "POST notices/:id/publish"} :
          AllowedTo(Committee, route)
    BY DEF AllowedTo, Lets, Guarded, NoticeRoutes
  <2>3. \A route \in {"POST safety/amenities"} :
          AllowedTo(Committee, route)
    BY DEF AllowedTo, Lets, Guarded, SafetyRoutes
  <2>4. \A route \in {"POST documents", "POST documents/:id/upload",
                       "POST documents/:id/attach", "DELETE documents/:id"} :
          AllowedTo(Committee, route)
    BY DEF AllowedTo, Lets, Guarded, DocumentRoutes
  <2>5. \A route \in {"GET gate/register/export"} :
          AllowedTo(Committee, route)
    BY DEF AllowedTo, Lets, Guarded, GateRoutes
  <2>6. \A route \in {"POST parking/vehicles", "DELETE parking/vehicles/:id",
                       "POST parking/slots", "POST parking/slots/allot",
                       "POST parking/slots/:id/release"} :
          AllowedTo(Committee, route)
    BY DEF AllowedTo, Lets, Guarded, ParkingRoutes
  <2>7. \A route \in {"POST society/towers", "POST society/units/bulk",
                       "POST society/units", "POST society/occupancies",
                       "DELETE society/occupancies/:id"} :
          AllowedTo(Committee, route)
    BY DEF AllowedTo, Lets, Guarded, SocietyRoutes
  <2>8. \A route \in {"POST staff", "POST staff/:id/status",
                       "POST staff/:id/pin", "POST staff/:id/verification"} :
          AllowedTo(Committee, route)
    BY DEF AllowedTo, Lets, Guarded, StaffRoutes
  <2>9. \A route \in {"POST assets", "POST assets/:id/work",
                       "POST assets/work/:id/complete"} :
          AllowedTo(Committee, route)
    BY DEF AllowedTo, Lets, Guarded, AssetRoutes, IsStaff, BooksReaders
  <2>10. \A route \in {"POST privacy/erasure/:id/complete",
                       "POST privacy/notices"} :
          AllowedTo(Committee, route)
    BY DEF AllowedTo, Lets, Guarded, PrivacyRoutes
  <2> QED
    BY <2>1, <2>2, <2>3, <2>4, <2>5, <2>6, <2>7, <2>8, <2>9, <2>10 DEF CommitteeCalls
<1>4. \A route \in AdminCalls : AllowedTo(Admin, route)
  BY DEF AllowedTo, Lets, Guarded, AdminCalls, Admin, LedgerRoutes, PrivacyRoutes, SocietyRoutes
<1>5. \A route \in GateCalls : AllowedTo(GateKeepers, route)
  BY DEF AllowedTo, Lets, Guarded, GateCalls, GateKeepers, StaffRoutes
<1> QED
  BY <1>1, <1>2, <1>3, <1>4, <1>5

(* Most offers make one call.                                              *)
LEMMA OneCall ==
  ASSUME NEW roles, NEW route, AllowedTo(roles, route)
  PROVE  /\ Honest(Button(roles, <<route>>))
         /\ Honest(Form(roles, <<route>>))
         /\ Honest(Look(roles, <<route>>))
BY DEF Honest, Button, Form, Look

(* Where the page shows it does not matter.                                *)
LEMMA HonestAside ==
  ASSUME NEW roles, NEW routes
  PROVE  /\ Honest(Aside(Button(roles, routes))) <=> Honest(Button(roles, routes))
         /\ Honest(Aside(Form(roles, routes))) <=> Honest(Form(roles, routes))
BY DEF Honest, Aside, Button, Form

LEMMA ShownToAnyone ==
  ASSUME NEW route
  PROVE  /\ Honest(Button(Anyone, <<route>>))
         /\ Honest(Form(Anyone, <<route>>))
         /\ Honest(Look(Anyone, <<route>>))
BY DEF Honest, Button, Form, Look

LEMMA BillingPageIsHonest == HonestPage(BillingPage)
<1>1. BillingPage.offers =
    [RaiseInvoice |-> RaiseInvoice, PreviewInvoice |-> PreviewInvoice,
     DownloadInvoice |-> DownloadInvoice]
  BY DEF BillingPage, Page
<1>2. Honest(DownloadInvoice)
  BY ShownToAnyone DEF DownloadInvoice
<1>3. Honest(RaiseInvoice) /\ Honest(PreviewInvoice)
  BY OneCall, GuardsLet DEF AccountingCalls, RaiseInvoice, PreviewInvoice
<1> QED
  BY <1>1, <1>2, <1>3 DEF HonestPage

LEMMA PaymentsPageIsHonest == HonestPage(PaymentsPage)
<1>1. PaymentsPage.offers =
    [RecordPayment |-> RecordPayment, AddDestination |-> AddDestination,
     DownloadReceipt |-> DownloadReceipt]
  BY DEF PaymentsPage, Page
<1>2. Honest(DownloadReceipt)
  BY ShownToAnyone DEF DownloadReceipt
<1>3. Honest(RecordPayment) /\ Honest(AddDestination)
  BY OneCall, GuardsLet DEF CashierCalls, RecordPayment, AddDestination
<1> QED
  BY <1>1, <1>2, <1>3 DEF HonestPage

LEMMA BudgetPageIsHonest == HonestPage(BudgetPage)
<1>1. BudgetPage.offers =
    [DraftBudget |-> DraftBudget, PassBudget |-> PassBudget]
  BY DEF BudgetPage, Page
<1>2. Honest(DraftBudget) /\ Honest(PassBudget)
  BY OneCall, GuardsLet DEF AccountingCalls, CommitteeCalls, DraftBudget,
                            PassBudget
<1> QED
  BY <1>1, <1>2 DEF HonestPage

LEMMA ComplaintsPageIsHonest == HonestPage(ComplaintsPage)
<1>1. ComplaintsPage.offers =
    [RaiseComplaint |-> RaiseComplaint, PostComment |-> PostComment,
     SetStatus |-> SetStatus, ReopenTicket |-> ReopenTicket]
  BY DEF ComplaintsPage, Page
<1>2./\  Honest(RaiseComplaint) /\ Honest(PostComment) /\ Honest(SetStatus)
     /\ Honest(ReopenTicket)
  BY ShownToAnyone, HonestAside DEF RaiseComplaint, PostComment, SetStatus, ReopenTicket
<1> QED
  BY <1>1, <1>2 DEF HonestPage

LEMMA NoticesPageIsHonest == HonestPage(NoticesPage)
<1>1. NoticesPage.offers =
    [Compose |-> Compose, PublishButton |-> PublishButton]
  BY DEF NoticesPage, Page
<1>2. Honest(Compose) /\ Honest(PublishButton)
  BY OneCall, GuardsLet DEF CommitteeCalls, Compose, PublishButton
<1> QED
  BY <1>1, <1>2 DEF HonestPage

LEMMA AmenitiesPageIsHonest == HonestPage(AmenitiesPage)
<1>1. AmenitiesPage.offers =
    [AddAmenity |-> AddAmenity, BookAmenity |-> BookAmenity,
     CancelButton |-> CancelButton]
  BY DEF AmenitiesPage, Page
<1>2. Honest(BookAmenity) /\ Honest(CancelButton)
  BY ShownToAnyone DEF BookAmenity, CancelButton
<1>3. Honest(AddAmenity)
  BY OneCall, GuardsLet DEF CommitteeCalls, AddAmenity
<1> QED
  BY <1>1, <1>2, <1>3 DEF HonestPage

LEMMA DocumentsPageIsHonest == HonestPage(DocumentsPage)
<1>1. DocumentsPage.offers =
    [AddDocument |-> AddDocument, OpenButton |-> OpenButton,
     RemoveButton |-> RemoveButton]
  BY DEF DocumentsPage, Page
<1>2. Honest(OpenButton)
  BY ShownToAnyone DEF OpenButton
<1>3. Honest(RemoveButton)
  BY OneCall, GuardsLet DEF CommitteeCalls, RemoveButton
<1>4. Honest(AddDocument)
  <2> DEFINE calls == <<"POST documents", "POST documents/:id/upload",
                        "POST documents/:id/attach">>
  <2>1. AddDocument.calls = calls /\ AddDocument.shown = Committee
    BY DEF AddDocument, Form
  <2>2. Len(calls) = 3
    OBVIOUS
  <2>3. calls[1] \in CommitteeCalls /\ calls[2] \in CommitteeCalls /\ calls[3] \in CommitteeCalls
    BY DEF CommitteeCalls
  <2> HIDE DEF calls
  <2> QED
    BY <2>1, <2>2, <2>3, GuardsLet DEF Honest
<1> QED
  BY <1>1, <1>2, <1>3, <1>4 DEF HonestPage

LEMMA GatePageIsHonest == HonestPage(GatePage)
<1>1. GatePage.offers =
    [ApprovalRow |-> ApprovalRow, IssuePass |-> IssuePass,
     ExportRegister |-> ExportRegister]
  BY DEF GatePage, Page
<1>2. Honest(ApprovalRow) /\ Honest(IssuePass)
  BY ShownToAnyone DEF ApprovalRow, IssuePass
<1>3. Honest(ExportRegister)
  BY OneCall, GuardsLet DEF CommitteeCalls, ExportRegister
<1> QED
  BY <1>1, <1>2, <1>3 DEF HonestPage

LEMMA OperationsPageIsHonest == HonestPage(OperationsPage)
<1>1. OperationsPage.offers =
    [AcknowledgeButton |-> AcknowledgeButton, CloseAlert |-> CloseAlert,
     LogParcel |-> LogParcel, AdvanceParcel |-> AdvanceParcel]
  BY DEF OperationsPage, Page
<1>2./\  Honest(AcknowledgeButton) /\ Honest(CloseAlert) /\ Honest(LogParcel)
     /\ Honest(AdvanceParcel)
  BY ShownToAnyone DEF AcknowledgeButton, CloseAlert, LogParcel, AdvanceParcel
<1> QED
  BY <1>1, <1>2 DEF HonestPage

LEMMA ParkingPageIsHonest == HonestPage(ParkingPage)
<1>1. ParkingPage.offers =
    [RegisterVehicle |-> RegisterVehicle,
     DeregisterButton |-> DeregisterButton, AddSlot |-> AddSlot,
     AllotSlot |-> AllotSlot, ReleaseButton |-> ReleaseButton,
     FlagVehicle |-> FlagVehicle, ResolveButton |-> ResolveButton]
  BY DEF ParkingPage, Page
<1>2. Honest(FlagVehicle) /\ Honest(ResolveButton)
  BY ShownToAnyone DEF FlagVehicle, ResolveButton
<1>3./\  Honest(RegisterVehicle) /\ Honest(DeregisterButton) /\ Honest(AddSlot)
     /\ Honest(AllotSlot) /\ Honest(ReleaseButton)
  BY OneCall, GuardsLet DEF CommitteeCalls, RegisterVehicle, DeregisterButton,
                            AddSlot, AllotSlot, ReleaseButton
<1> QED
  BY <1>1, <1>2, <1>3 DEF HonestPage

LEMMA UnitsPageIsHonest == HonestPage(UnitsPage)
<1>1. UnitsPage.offers =
    [AddTower |-> AddTower, AddFlats |-> AddFlats, AddOneFlat |-> AddOneFlat,
     MoveIn |-> MoveIn, MoveOutButton |-> MoveOutButton]
  BY DEF UnitsPage, Page
<1>2./\  Honest(AddTower) /\ Honest(AddFlats) /\ Honest(AddOneFlat)
     /\ Honest(MoveIn) /\ Honest(MoveOutButton)
  BY OneCall, GuardsLet, HonestAside DEF CommitteeCalls, AddTower, AddFlats, AddOneFlat,
                            MoveIn, MoveOutButton
<1> QED
  BY <1>1, <1>2 DEF HonestPage

LEMMA DirectoryPageIsHonest == HonestPage(DirectoryPage)
<1>1. DirectoryPage.offers =
    [GrantRole |-> GrantRole, RevokeButton |-> RevokeButton]
  BY DEF DirectoryPage, Page
<1>2. Honest(GrantRole) /\ Honest(RevokeButton)
  BY OneCall, GuardsLet DEF AdminCalls, GrantRole, RevokeButton
<1> QED
  BY <1>1, <1>2 DEF HonestPage

LEMMA StaffPageIsHonest == HonestPage(StaffPage)
<1>1. StaffPage.offers =
    [CheckInButton |-> CheckInButton, CheckOutButton |-> CheckOutButton,
     AddStaff |-> AddStaff, ManageStatus |-> ManageStatus,
     ManagePin |-> ManagePin, ManageVerification |-> ManageVerification]
  BY DEF StaffPage, Page
<1>2./\  Honest(CheckInButton) /\ Honest(CheckOutButton) /\ Honest(AddStaff)
     /\ Honest(ManageStatus) /\ Honest(ManagePin) /\ Honest(ManageVerification)
  BY OneCall, GuardsLet, HonestAside DEF CommitteeCalls, GateCalls, CheckInButton,
                            CheckOutButton, AddStaff, ManageStatus, ManagePin,
                            ManageVerification
<1> QED
  BY <1>1, <1>2 DEF HonestPage

LEMMA AssetsPageIsHonest == HonestPage(AssetsPage)
<1>1. AssetsPage.offers =
    [AddAsset |-> AddAsset, ScheduleWork |-> ScheduleWork,
     CloseWork |-> CloseWork]
  BY DEF AssetsPage, Page
<1>2. Honest(AddAsset) /\ Honest(ScheduleWork) /\ Honest(CloseWork)
  BY OneCall, GuardsLet DEF CommitteeCalls, AddAsset, ScheduleWork, CloseWork
<1> QED
  BY <1>1, <1>2 DEF HonestPage

LEMMA PrivacyPageIsHonest == HonestPage(PrivacyPage)
<1>1. PrivacyPage.offers =
    [WithdrawButton |-> WithdrawButton, ExportSelfButton |-> ExportSelfButton,
     PurgeButton |-> PurgeButton, EditRetention |-> EditRetention,
     CompleteErasureButton |-> CompleteErasureButton,
     PublishNotice |-> PublishNotice]
  BY DEF PrivacyPage, Page
<1>2. Honest(WithdrawButton) /\ Honest(ExportSelfButton)
  BY ShownToAnyone DEF WithdrawButton, ExportSelfButton
<1>3./\  Honest(PurgeButton) /\ Honest(EditRetention)
     /\ Honest(CompleteErasureButton) /\ Honest(PublishNotice)
  BY OneCall, GuardsLet DEF AdminCalls, CommitteeCalls, PurgeButton,
                            EditRetention, CompleteErasureButton,
                            PublishNotice
<1> QED
  BY <1>1, <1>2, <1>3 DEF HonestPage

LEMMA MigrationPageIsHonest == HonestPage(MigrationPage)
<1>1. MigrationPage.offers =
    [ImportUnits |-> ImportUnits, ImportBalances |-> ImportBalances]
  BY DEF MigrationPage, Page
<1>2. Honest(ImportUnits) /\ Honest(ImportBalances)
  BY ShownToAnyone DEF ImportUnits, ImportBalances
<1> QED
  BY <1>1, <1>2 DEF HonestPage

(* The books are honest but for the reopening of a period.                 *)
LEMMA BooksPageIsHonest ==
  \A name \in DOMAIN BooksPage.offers :
    \/ Honest(BooksPage.offers[name])
    \/ name = "ReopenPeriod" /\ BooksPage.offers[name] = ReopenPeriod
<1>1. BooksPage.offers =
    [LockButton |-> LockButton, ReopenPeriod |-> ReopenPeriod,
     ExportButton |-> ExportButton]
  BY DEF BooksPage, Page
<1>2. Honest(LockButton)
  BY OneCall, GuardsLet DEF AccountingCalls, LockButton
<1>3. Honest(ExportButton)
  BY ShownToAnyone DEF ExportButton
<1> QED
  BY <1>1, <1>2, <1>3

(* Which the API does for the society's admin.                             *)
LEMMA CallsOfAForm ==
  ASSUME NEW roles, NEW route
  PROVE  Len(Form(roles, <<route>>).calls) = 1 /\ Form(roles, <<route>>).calls[1] = route
BY DEF Form

LEMMA AdminMayReopen ==
  Len(ReopenPeriod.calls) = 1 /\ AllowedTo(Admin, ReopenPeriod.calls[1])
<1>1. AllowedTo(Admin, "POST ledger/periods/:id/reopen")
  BY GuardsLet DEF AdminCalls
<1> QED
  BY <1>1, CallsOfAForm DEF ReopenPeriod

(* No page shows to certain roles what the API refuses them, but for the   *)
(* reopening of a period.                                                  *)
LEMMA OffersAreHonest ==
  ASSUME NEW p \in Pages, NEW name \in DOMAIN PageOf[p].offers
  PROVE  \/ Honest(PageOf[p].offers[name])
         \/ p = "books" /\ name = "ReopenPeriod" /\ PageOf[p].offers[name] = ReopenPeriod
<1> DEFINE Plain == {"billing", "payments", "budget", "complaints", "notices", "amenities",
                     "documents", "gate", "operations", "parking", "units", "directory",
                     "staff", "assets", "privacy", "migration"}
<1>1. CASE p \in Plain
  BY <1>1, BillingPageIsHonest, PaymentsPageIsHonest, BudgetPageIsHonest,
     ComplaintsPageIsHonest, NoticesPageIsHonest, AmenitiesPageIsHonest,
     DocumentsPageIsHonest, GatePageIsHonest, OperationsPageIsHonest, ParkingPageIsHonest,
     UnitsPageIsHonest, DirectoryPageIsHonest, StaffPageIsHonest, AssetsPageIsHonest,
     PrivacyPageIsHonest, MigrationPageIsHonest
  DEF PageOf, HonestPage
<1>2. CASE p = "books"
  BY <1>2, BooksPageIsHonest DEF PageOf
<1>3. CASE p \in {"dashboard", "reports", "audit"}
  <2>1. DashboardPage.offers = <<>> /\ ReportsPage.offers = <<>> /\ AuditPage.offers = <<>>
    BY DEF DashboardPage, ReportsPage, AuditPage, Page
  <2> QED
    BY <1>3, <2>1 DEF PageOf
<1> QED
  BY <1>1, <1>2, <1>3 DEF Pages, PageOf
------------------------------------------------------------------------------
Names == UNION {DOMAIN PageOf[p].offers : p \in Pages}

FormRecord ==
  [name : Names, open : BOOLEAN, call : Nat, answer : {"none", "ok", "refused", "lost"},
   ran : Nat, told : Nat, done : Nat, made : Nat]

TypeInv ==
  /\ visit \in Visits /\ written \in Nat
  /\ forms \in Seq(FormRecord)

(* A form was offered; the call it is at exists; an answer is of a call,   *)
(* and a refusal is the API's.  What was carried out can only be pressed   *)
(* again, or be about to be carried out, after its person was shown how it *)
(* ended.                                                                  *)
Offered(r) == r.name \in DOMAIN Offers /\ can(Offers[r.name].shown)

Calling(r) ==
  /\ r.call \in 0..Len(Offers[r.name].calls)
  /\ r.answer # "none" => r.call # 0
  /\ r.answer = "refused" => ~Let(Offers[r.name].calls[r.call])

Counted(r) ==
  /\ r.ran <= 1 + Shown(r)
  /\ r.open /\ r.call = 0 => r.ran <= Shown(r)
  /\ r.call = 1 /\ r.answer = "none" => r.ran <= Shown(r)

FormInv(r) == Offered(r) /\ Calling(r) /\ Counted(r)

FormsInv == \A f \in DOMAIN forms : FormInv(forms[f])

IInv == TypeInv /\ FormsInv

(* Every offer calls something.                                            *)
LEMMA OffersCall ==
  ASSUME TypeInv, NEW name \in DOMAIN Offers
  PROVE  Len(Offers[name].calls) \in Nat \ {0}
<1>1. page \in Pages
  BY ConsoleAssumption DEF TypeInv, page
<1>2. Honest(Offers[name]) \/ Offers[name] = ReopenPeriod
  BY <1>1, OffersAreHonest DEF Offers
<1>3. CASE Honest(Offers[name])
  BY <1>3 DEF Honest
<1>4. CASE Offers[name] = ReopenPeriod
  <2>1. Len(ReopenPeriod.calls) \in Nat \ {0}
    BY AdminMayReopen
  <2> QED
    BY <1>4, <2>1
<1> QED
  BY <1>2, <1>3, <1>4

(* What is said of a form depends on nothing else that changes.            *)
LEMMA FormInvStays ==
  ASSUME UNCHANGED visit, NEW r
  PROVE  FormInv(r)' <=> FormInv(r)
BY DEF FormInv, Offered, Calling, Counted, Shown, Offers, can, Let, page, held

(* Who writes the forms.                                                   *)
LEMMA WhoWritesForms ==
  ASSUME [Next]_vars
  PROVE  /\ UNCHANGED visit
         /\ \/ UNCHANGED forms
            \/ \E name \in DOMAIN Offers : OpenForm(name)
            \/ \E f \in DOMAIN forms : Working(f)
BY DEF Next, vars, Poll, Choose, OthersWrite, Loading, Read, Land, LoseLoad, Load, OpenForm,
       Working, Run, CloseForm, Do, LoseCall, NextCall, Succeed, Complain

(* A form is called for at an offer that calls something.                  *)
LEMMA CallsExist ==
  ASSUME TypeInv, NEW r, Offered(r)
  PROVE  \E n \in Nat \ {0} : Len(Offers[r.name].calls) = n
BY OffersCall DEF Offered

(* One field after another of a form is written.                           *)
LEMMA WorkingForms ==
  ASSUME TypeInv, FormsInv, NEW f \in DOMAIN forms, Working(f)
  PROVE  /\ forms' \in Seq(FormRecord) /\ DOMAIN forms' = DOMAIN forms
         /\ written' \in Nat
         /\ \A g \in DOMAIN forms : FormInv(forms'[g])
<1>0. /\ written \in Nat /\ forms \in Seq(FormRecord)
      /\ \A g \in DOMAIN forms : forms[g] \in FormRecord /\ FormInv(forms[g])
  BY DEF TypeInv, FormsInv
<1>q. PICK q : q = forms[f]
  OBVIOUS
<1>t. /\ q \in FormRecord /\ q.name \in Names /\ q.open \in BOOLEAN /\ q.call \in Nat
      /\ q.answer \in {"none", "ok", "refused", "lost"}
      /\ q.ran \in Nat /\ q.told \in Nat /\ q.done \in Nat /\ q.made \in Nat
  BY <1>0, <1>q DEF FormRecord
<1>i. Offered(q) /\ Calling(q) /\ Counted(q)
  BY <1>0, <1>q DEF FormInv
<1>o. PICK o : o = Offers[q.name]
  OBVIOUS
<1>n. PICK n \in Nat \ {0} : Len(o.calls) = n
  BY <1>i, <1>o, CallsExist
(* A step that writes one form keeps the rest. *)
<1>c. /\ Shown(q) \in Nat
      /\ \A r : r.name = q.name /\ r.told = q.told /\ r.done = q.done => Shown(r) = Shown(q)
  BY <1>t DEF Shown
<1>s. ASSUME NEW r \in FormRecord, r.name = q.name, Calling(r), Counted(r),
             forms' = [forms EXCEPT ![f] = r], written' \in Nat
      PROVE  /\ forms' \in Seq(FormRecord) /\ DOMAIN forms' = DOMAIN forms
             /\ written' \in Nat
             /\ \A g \in DOMAIN forms : FormInv(forms'[g])
  <2>1. FormInv(r)
    BY <1>s, <1>i DEF FormInv, Offered
  <2> QED
    BY <2>1, <1>s, <1>0
<1>1. CASE Run(f)
  <2>1. PICK r : r = [q EXCEPT !.call = 1, !.answer = "none"]
    OBVIOUS
  <2>2. /\ forms' = [forms EXCEPT ![f] = r] /\ written' = written
        /\ q.open /\ q.call = 0
    BY <1>1, <1>q, <2>1 DEF Run, MayRun
  <2>3. /\ r \in FormRecord /\ r.name = q.name /\ r.open = q.open /\ r.call = 1
        /\ r.answer = "none" /\ r.ran = q.ran /\ r.told = q.told /\ r.done = q.done
    BY <1>t, <2>1 DEF FormRecord
  <2>4. Calling(r)
    BY <2>3, <1>o, <1>n DEF Calling
  <2>5. Counted(r)
    BY <2>2, <2>3, <1>t, <1>c, <1>i DEF Counted
  <2> QED
    BY <1>s, <1>0, <2>2, <2>3, <2>4, <2>5
<1>2. CASE CloseForm(f)
  <2>1. PICK r : r = [q EXCEPT !.open = FALSE]
    OBVIOUS
  <2>2. forms' = [forms EXCEPT ![f] = r] /\ written' = written
    BY <1>2, <1>q, <2>1 DEF CloseForm
  <2>3. /\ r \in FormRecord /\ r.name = q.name /\ r.open = FALSE /\ r.call = q.call
        /\ r.answer = q.answer /\ r.ran = q.ran /\ r.told = q.told /\ r.done = q.done
    BY <1>t, <2>1 DEF FormRecord
  <2>4. Calling(r)
    BY <2>3, <1>i DEF Calling
  <2>5. Counted(r)
    BY <2>3, <1>t, <1>c, <1>i DEF Counted
  <2> QED
    BY <1>s, <1>0, <2>2, <2>3, <2>4, <2>5
<1>3. CASE Do(f)
  <2>1. PICK writes : writes = IF Let(Route(f)) /\ Offer(f).kind # "look" THEN 1 ELSE 0
    OBVIOUS
  <2>0. PICK shows : shows = IF Offer(f).inRows THEN writes ELSE 0
    OBVIOUS
  <2>2. PICK r : r = [q EXCEPT !.answer = IF Let(Route(f)) THEN "ok" ELSE "refused",
                        !.made = IF shows = 1 THEN written' ELSE @,
                        !.ran = IF q.call = 1 THEN @ + writes ELSE @]
    OBVIOUS
  <2>3. /\ forms' = [forms EXCEPT ![f] = r] /\ written' = written + shows
        /\ q.call # 0 /\ q.answer = "none"
    BY <1>3, <1>q, <2>0, <2>1, <2>2 DEF Do, AtWork
  <2>4. writes \in {0, 1} /\ shows \in {0, 1}
    BY <2>0, <2>1
  <2>5. written' \in Nat
    BY <1>0, <2>3, <2>4
  <2>6. /\ r.name = q.name /\ r.open = q.open /\ r.call = q.call /\ r.told = q.told
        /\ r.done = q.done
        /\ r.ran = IF q.call = 1 THEN q.ran + writes ELSE q.ran
        /\ r.answer = (IF Let(Route(f)) THEN "ok" ELSE "refused")
    BY <1>t, <2>2 DEF FormRecord
  <2>7. r \in FormRecord
    <3>1. PICK made \in Nat : made = IF shows = 1 THEN written' ELSE q.made
      BY <2>5, <1>t
    <3>2. PICK ran \in Nat : ran = IF q.call = 1 THEN q.ran + writes ELSE q.ran
      BY <2>4, <1>t
    <3>3. PICK answer \in {"ok", "refused"} : answer = IF Let(Route(f)) THEN "ok" ELSE "refused"
      OBVIOUS
    <3>4. r = [q EXCEPT !.answer = answer, !.made = made, !.ran = ran]
      BY <2>2, <3>1, <3>2, <3>3, <1>t DEF FormRecord
    <3> QED
      BY <1>t, <3>4 DEF FormRecord
  <2>8. Calling(r)
    <3>1. Route(f) = Offers[q.name].calls[q.call]
      BY <1>q DEF Route, Offer
    <3> QED
      BY <3>1, <2>3, <2>6, <1>i DEF Calling
  <2>9. Counted(r)
    <3>1. r.ran \in Nat /\ r.ran <= q.ran + 1 /\ (q.call # 1 => r.ran = q.ran)
          /\ r.answer # "none"
      BY <2>4, <2>6, <1>t
    <3> QED
      BY <3>1, <2>3, <2>6, <1>t, <1>c, <1>i DEF Counted
  <2> QED
    BY <1>s, <2>3, <2>5, <2>6, <2>7, <2>8, <2>9
<1>4. CASE LoseCall(f)
  <2>1. PICK r : r = [q EXCEPT !.answer = "lost"]
    OBVIOUS
  <2>2. forms' = [forms EXCEPT ![f] = r] /\ written' = written /\ q.call # 0
    BY <1>4, <1>q, <2>1 DEF LoseCall, AtWork
  <2>3. /\ r \in FormRecord /\ r.name = q.name /\ r.open = q.open /\ r.call = q.call
        /\ r.answer = "lost" /\ r.ran = q.ran /\ r.told = q.told /\ r.done = q.done
    BY <1>t, <2>1 DEF FormRecord
  <2>4. Calling(r)
    BY <2>2, <2>3, <1>i DEF Calling
  <2>5. Counted(r)
    BY <2>3, <1>t, <1>c, <1>i DEF Counted
  <2> QED
    BY <1>s, <1>0, <2>2, <2>3, <2>4, <2>5
<1>5. CASE NextCall(f)
  <2>1. PICK r : r = [q EXCEPT !.call = @ + 1, !.answer = "none"]
    OBVIOUS
  <2>2. /\ forms' = [forms EXCEPT ![f] = r] /\ written' = written
        /\ q.answer = "ok" /\ q.call < n
    BY <1>5, <1>q, <1>o, <1>n, <2>1 DEF NextCall, HasNextCall, Offer
  <2>3. /\ r \in FormRecord /\ r.name = q.name /\ r.open = q.open /\ r.call = q.call + 1
        /\ r.answer = "none" /\ r.ran = q.ran /\ r.told = q.told /\ r.done = q.done
    <3>1. PICK next \in Nat : next = q.call + 1
      BY <1>t
    <3>2. r = [q EXCEPT !.call = next, !.answer = "none"]
      BY <2>1, <3>1
    <3> QED
      BY <1>t, <3>1, <3>2 DEF FormRecord
  <2>4. Calling(r)
    BY <2>2, <2>3, <1>t, <1>o, <1>n DEF Calling
  <2>5. Counted(r)
    <3>1. q.call # 0
      BY <1>i, <2>2 DEF Calling
    <3> QED
      BY <3>1, <2>3, <1>t, <1>c, <1>i DEF Counted
  <2> QED
    BY <1>s, <1>0, <2>2, <2>3, <2>4, <2>5
<1>6. CASE Complain(f)
  <2>1. PICK r : r = [q EXCEPT !.call = 0, !.answer = "none", !.told = @ + 1]
    OBVIOUS
  <2>2. forms' = [forms EXCEPT ![f] = r] /\ written' = written
    BY <1>6, <1>q, <2>1 DEF Complain
  <2>3. /\ r \in FormRecord /\ r.name = q.name /\ r.open = q.open /\ r.call = 0
        /\ r.answer = "none" /\ r.ran = q.ran /\ r.told = q.told + 1 /\ r.done = q.done
    <3>1. PICK more \in Nat : more = q.told + 1
      BY <1>t
    <3>2. r = [q EXCEPT !.call = 0, !.answer = "none", !.told = more]
      BY <2>1, <3>1
    <3> QED
      BY <1>t, <3>1, <3>2 DEF FormRecord
  <2>4. Calling(r)
    BY <2>3, <1>o, <1>n DEF Calling
  <2>5. Counted(r)
    <3>1. Shown(r) = Shown(q) + 1
      BY <2>3, <1>t DEF Shown
    <3> QED
      BY <3>1, <2>3, <1>t, <1>c, <1>i DEF Counted
  <2> QED
    BY <1>s, <1>0, <2>2, <2>3, <2>4, <2>5
<1>7. CASE Succeed(f)
  <2>1. PICK kept : kept = [q EXCEPT !.call = 0, !.answer = "none", !.done = @ + 1]
    OBVIOUS
  <2>2. /\ kept \in FormRecord /\ kept.name = q.name /\ kept.open = q.open /\ kept.call = 0
        /\ kept.answer = "none" /\ kept.ran = q.ran /\ kept.told = q.told
        /\ kept.done = q.done + 1
    <3>1. PICK more \in Nat : more = q.done + 1
      BY <1>t
    <3>2. kept = [q EXCEPT !.call = 0, !.answer = "none", !.done = more]
      BY <2>1, <3>1
    <3> QED
      BY <1>t, <3>1, <3>2 DEF FormRecord
  <2>k. /\ Shown(kept) \in Nat
        /\ Shown(kept) = IF o.kind = "form" THEN Shown(q) ELSE Shown(q) + 1
    BY <2>2, <1>t, <1>o DEF Shown
  <2>3. Offered(kept) /\ Calling(kept)
    BY <2>2, <1>i, <1>o, <1>n DEF Offered, Calling
  <2>4. DOMAIN forms' = DOMAIN forms /\ written' = written
    BY <1>7 DEF Succeed
  <2>5. ASSUME NEW g \in DOMAIN forms
        PROVE  forms'[g] \in FormRecord /\ FormInv(forms'[g])
    <3>1. PICK was : was = IF g = f THEN kept ELSE forms[g]
      OBVIOUS
    <3>2. was \in FormRecord /\ was.name = forms[g].name /\ Offered(was) /\ Calling(was)
      BY <1>0, <1>q, <2>2, <2>3, <3>1 DEF FormInv
    <3>3. forms'[g] = IF forms[g].name = forms[f].name /\ Offer(f).kind = "form"
                      THEN [was EXCEPT !.open = FALSE] ELSE was
      BY <1>7, <1>q, <2>1, <3>1 DEF Succeed
    <3>4. CASE forms[g].name = q.name /\ o.kind = "form"
      <4>1. PICK r : r = [was EXCEPT !.open = FALSE]
        OBVIOUS
      <4>2. /\ r \in FormRecord /\ r.name = was.name /\ r.open = FALSE
            /\ r.call = was.call /\ r.answer = was.answer /\ r.ran = was.ran
            /\ r.told = was.told /\ r.done = was.done
        BY <3>2, <4>1 DEF FormRecord
      <4>3. Offered(r) /\ Calling(r)
        BY <3>2, <4>2 DEF Offered, Calling
      <4>4. was.ran \in Nat /\ was.told \in Nat /\ was.call \in Nat
        BY <3>2 DEF FormRecord
      <4>5. was.ran <= 1 + Shown(was)
        <5>1. CASE g = f
          BY <5>1, <3>1, <3>4, <2>2, <2>k, <1>i DEF Counted
        <5>2. CASE g # f
          BY <5>2, <3>1, <1>0 DEF FormInv, Counted
        <5> QED
          BY <5>1, <5>2
      <4>r. Shown(r) = Shown(was)
        BY <4>2 DEF Shown
      <4>6. r.call = 1 /\ r.answer = "none" => r.ran <= Shown(r)
        <5>1. CASE g = f
          BY <5>1, <3>1, <2>2, <4>2
        <5>2. CASE g # f
          BY <5>2, <3>1, <1>0, <4>2, <4>r DEF FormInv, Counted
        <5> QED
          BY <5>1, <5>2
      <4>7. Counted(r)
        BY <4>2, <4>5, <4>6, <4>r DEF Counted
      <4> QED
        BY <3>3, <3>4, <1>q, <1>o, <4>1, <4>2, <4>3, <4>7 DEF FormInv, Offer
    <3>5. CASE ~(forms[g].name = q.name /\ o.kind = "form")
      <4>1. Counted(was)
        <5>1. CASE g = f
          BY <5>1, <1>q, <1>o, <1>t, <1>c, <1>i, <2>2, <2>k, <3>1, <3>2, <3>5 DEF Counted
        <5>2. CASE g # f
          BY <5>2, <3>1, <1>0 DEF FormInv
        <5> QED
          BY <5>1, <5>2
      <4> QED
        BY <3>2, <3>3, <3>5, <1>q, <1>o, <4>1 DEF FormInv, Offer
    <3> QED
      BY <3>4, <3>5
  <2>6. forms' = [g \in 1..Len(forms) |-> forms'[g]]
    <3>1. PICK new : forms' = [g \in DOMAIN forms |-> new[g]]
      <4> DEFINE New == [g \in DOMAIN forms |->
                 LET was == IF g = f THEN [forms[g] EXCEPT !.call = 0, !.answer = "none", !.done = @ + 1]
                            ELSE forms[g] IN
                 IF forms[g].name = forms[f].name /\ Offer(f).kind = "form"
                 THEN [was EXCEPT !.open = FALSE] ELSE was]
      <4>1. forms' = New
        BY <1>7 DEF Succeed
      <4>2. New = [g \in DOMAIN forms |-> New[g]]
        OBVIOUS
      <4> QED
        BY <4>1, <4>2
    <3> QED
      BY <1>0, <3>1
  <2>7. forms' \in Seq(FormRecord)
    <3>1. Len(forms) \in Nat /\ DOMAIN forms = 1..Len(forms)
      BY <1>0
    <3>2. \A g \in 1..Len(forms) : forms'[g] \in FormRecord
      BY <2>5, <3>1
    <3> QED
      BY <2>6, <3>1, <3>2
  <2> QED
    BY <1>0, <2>4, <2>5, <2>7
<1> QED
  BY <1>1, <1>2, <1>3, <1>4, <1>5, <1>6, <1>7 DEF Working

(* A form is opened at an offer that is shown, and has not been run.       *)
LEMMA OpeningForms ==
  ASSUME TypeInv, FormsInv, NEW name \in DOMAIN Offers, OpenForm(name)
  PROVE  /\ forms' \in Seq(FormRecord) /\ written' \in Nat
         /\ \A g \in DOMAIN forms' : FormInv(forms'[g])
<1>1. PICK r : r = Instance(name)
  OBVIOUS
<1>2. /\ r.name = name /\ r.open = TRUE /\ r.call = 0 /\ r.answer = "none"
      /\ r.ran = 0 /\ r.told = 0 /\ r.done = 0
  BY <1>1 DEF Instance
<1>3. name \in Names
  BY ConsoleAssumption DEF TypeInv, Names, Offers, page
<1>4. r \in FormRecord
  BY <1>1, <1>3 DEF FormRecord, Instance
<1>5. Offered(r)
  BY <1>2 DEF OpenForm, Offered
<1>6. Calling(r)
  BY <1>2, <1>5, CallsExist DEF Calling
<1>7. Counted(r)
  BY <1>2 DEF Counted, Shown
<1>8. forms' = Append(forms, r) /\ written' = written
  BY <1>1 DEF OpenForm
<1>9. FormInv(r)
  BY <1>5, <1>6, <1>7 DEF FormInv
<1>10. written \in Nat /\ forms \in Seq(FormRecord)
  BY DEF TypeInv
<1>11. \A g \in DOMAIN forms : FormInv(forms[g])
  BY DEF FormsInv
<1> QED
  BY <1>4, <1>8, <1>9, <1>10, <1>11

LEMMA InitInv == Init => IInv
BY DEF Init, IInv, TypeInv, FormsInv

LEMMA NextInv == IInv /\ [Next]_vars => IInv'
<1> SUFFICES ASSUME IInv, [Next]_vars
             PROVE  IInv'
  OBVIOUS
<1> USE DEF IInv
<1>1. UNCHANGED visit
  BY WhoWritesForms
<1>2. CASE UNCHANGED forms
  <2>1. written' \in Nat
    <3>1. CASE UNCHANGED written
      BY <3>1 DEF TypeInv
    <3>2. CASE OthersWrite
      BY <3>2 DEF OthersWrite, TypeInv
    <3>3. ASSUME NEW f \in DOMAIN forms, Working(f)
          PROVE  written' \in Nat
      BY <3>3, WorkingForms
    <3> QED
      BY <3>1, <3>2, <3>3 DEF Next, vars, Poll, Choose, Loading, Read, Land, LoseLoad, OpenForm
  <2>2. TypeInv'
    BY <1>1, <1>2, <2>1 DEF TypeInv
  <2>3. \A g \in DOMAIN forms : FormInv(forms[g])'
    BY <1>1, <1>2, FormInvStays DEF FormsInv, FormInv
  <2> QED
    BY <1>2, <2>2, <2>3 DEF FormsInv
<1>3. CASE ~UNCHANGED forms
  <2>1. /\ forms' \in Seq(FormRecord) /\ written' \in Nat
        /\ \A g \in DOMAIN forms' : FormInv(forms'[g])
    BY <1>3, WhoWritesForms, WorkingForms, OpeningForms
  <2>2. PICK new : new = forms'
    OBVIOUS
  <2>3. \A g \in DOMAIN new : FormInv(new[g])
    BY <2>1, <2>2
  <2> QED
    BY <1>1, <2>1 DEF TypeInv, FormsInv, FormInv, Offered, Calling, Counted, Offers, can, Let,
       page, held, Shown
<1> QED
  BY <1>2, <1>3

LEMMA Invariance == Spec => []IInv
BY InitInv, NextInv, PTL DEF Spec

(* However often somebody presses (useAction of Shell.tsx), what they      *)
(* asked for is carried out again only after they were shown how the last  *)
(* press ended: a form that closes, after an error; a button that stays,   *)
(* after an error or when it was done.                                     *)
THEOREM PressesCountOnce == Spec => []AgainOnlyAfterAnAnswer
<1>1. IInv => AgainOnlyAfterAnAnswer
  BY DEF IInv, FormsInv, FormInv, Counted, AgainOnlyAfterAnAnswer
<1> QED
  BY <1>1, Invariance, PTL

(* Whatever the console limits to certain roles, the guards of the API let *)
(* those roles do, but for the reopening of a period by an accountant.     *)
THEOREM NobodyIsOfferedInVain == Spec => []LimitedOffersAreAllowed
<1>1. IInv => LimitedOffersAreAllowed
  <2> SUFFICES ASSUME IInv, NEW f \in DOMAIN forms, forms[f].answer = "refused",
                      Offer(f).shown # Anyone
               PROVE  /\ page = "books" /\ forms[f].name = "ReopenPeriod"
                      /\ "society_admin" \notin held
    BY DEF LimitedOffersAreAllowed
  <2>1. PICK r : r = forms[f]
    OBVIOUS
  <2>2. PICK o : o = Offers[r.name]
    OBVIOUS
  <2>3. Offered(r) /\ Calling(r) /\ r.answer = "refused"
    BY <2>1 DEF IInv, FormsInv, FormInv
  <2>4. PICK n \in Nat \ {0} : Len(o.calls) = n
    BY <2>2, <2>3, CallsExist DEF IInv
  <2>5. r.call \in 1..n /\ ~Passes(held, o.calls[r.call]) /\ held \cap o.shown # {}
    BY <2>2, <2>3, <2>4 DEF Calling, Offered, Let, can
  <2>6. ~AllowedTo(o.shown, o.calls[r.call])
    BY <2>5 DEF AllowedTo, Passes
  <2>7. ~Honest(o)
    BY <2>1, <2>2, <2>4, <2>5, <2>6 DEF Honest, Offer
  <2>8. page \in Pages
    BY ConsoleAssumption DEF IInv, TypeInv, page
  <2>9. page = "books" /\ r.name = "ReopenPeriod" /\ o = ReopenPeriod
    BY <2>2, <2>3, <2>7, <2>8, OffersAreHonest DEF Offered, Offers
  <2>10. n = 1 /\ AllowedTo(Admin, o.calls[r.call])
    <3>1. Len(o.calls) = 1 /\ AllowedTo(Admin, o.calls[1])
      BY <2>9, AdminMayReopen
    <3>2. n = 1
      BY <3>1, <2>4
    <3>3. r.call = 1
      BY <3>2, <2>5
    <3> QED
      BY <3>1, <3>2, <3>3
  <2>11. "society_admin" \notin held
    BY <2>5, <2>10 DEF AllowedTo, Passes, Admin
  <2> QED
    BY <2>1, <2>9, <2>11
<1> QED
  BY <1>1, Invariance, PTL
=============================================================================
