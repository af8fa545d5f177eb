---------------------------- MODULE ConsolePages ----------------------------
(***************************************************************************)
(* The pages of the console (apps/web-admin/src/app): what each page reads *)
(* before it shows anything, and what it offers to whom.  What happens to  *)
(* a page while it is open is the matter of module Console.                *)
(*                                                                         *)
(* Left out: the markup, the fields of a form and what makes them          *)
(* complete, searching and sorting within rows that are there already, and *)
(* the row on which an offer stands (a release on a slot that is taken, a  *)
(* pass on a budget that is a draft).                                      *)
(***************************************************************************)
EXTENDS ApiRoutes, Sequences

(* An offer: the roles it is shown to and the routes that one press of it  *)
(* calls one after the other; whether the rows of the page show what it    *)
(* writes, and whether it loads the page anew when it is done.  A button   *)
(* stands on a row of the page or in a modal and stays there, a form is    *)
(* opened and closes when it is done.  A look only shows or saves what it  *)
(* is given.                                                               *)
Button(roles, routes) ==
  [shown |-> roles, calls |-> routes, kind |-> "button", inRows |-> TRUE, loads |-> TRUE]
Form(roles, routes) ==
  [shown |-> roles, calls |-> routes, kind |-> "form", inRows |-> TRUE, loads |-> TRUE]
Look(roles, routes) ==
  [shown |-> roles, calls |-> routes, kind |-> "look", inRows |-> FALSE, loads |-> FALSE]

(* What is written aside is no part of the page's rows: it is shown by a   *)
(* detail of the page, which asks for itself, or by nothing.  The page is  *)
(* not loaded after it.                                                    *)
Aside(offer) == [offer EXCEPT !.inRows = FALSE, !.loads = FALSE]

(* A page: the section's roles, the routes whose answers it waits for      *)
(* together, those whose failure it survives and those of its details,     *)
(* its offers; whether it asks again by itself, whether a choice on it (a  *)
(* month, a filter, a flat) asks anew, and when an error is taken down (at *)
(* the start of a later load, at its success, or never).                   *)
Page(sections, needs, spares, offers) ==
  [sections |-> sections, needs |-> needs, spares |-> spares, offers |-> offers,
   polls |-> FALSE, chooses |-> FALSE, clears |-> "never"]

(* can() of the pages' callers.                                            *)
Accounting == {"accountant", "society_admin"}
Admin == {"society_admin"}
Cashiers == Committee \cup {"accountant"}
------------------------------------------------------------------------------
(* SECTIONS of the console's frame.                                        *)
MoneySection == BooksReaders
FacilitySection == BooksReaders \cup {"staff"}
AdminSection == Admin
------------------------------------------------------------------------------
(* Today, and the reports.                                                 *)
DashboardPage ==
  [Page(Anyone, {"GET society/summary", "GET tickets", "GET gate/inside"},
        {"GET safety/sos", "GET gate/approvals/pending"}, <<>>)
     EXCEPT !.polls = TRUE]

ReportsPage ==
  [Page(Anyone, {"GET analytics/overview", "GET analytics/footfall",
                 "GET analytics/helpdesk", "GET analytics/staff"},
        {"GET analytics/collections", "GET analytics/defaulters",
         "GET ledger/penalties"}, <<>>)
     EXCEPT !.chooses = TRUE]
------------------------------------------------------------------------------
(* Dues and billing: an invoice is first previewed.                        *)
RaiseInvoice == Form(Accounting, <<"POST billing/issue">>)
PreviewInvoice == Look(Accounting, <<"POST billing/preview">>)
DownloadInvoice == Look(Anyone, <<"GET billing/invoices/:id/pdf">>)

BillingPage ==
  Page(MoneySection,
       {"GET payments/outstanding", "GET society/units", "GET billing/invoices"},
       {"GET payments/credits", "GET billing/charge-types"},
       [RaiseInvoice |-> RaiseInvoice, PreviewInvoice |-> PreviewInvoice,
        DownloadInvoice |-> DownloadInvoice])

RecordPayment == Form(Cashiers, <<"POST payments/manual">>)
AddDestination == Form(Cashiers, <<"POST payments/destinations">>)
DownloadReceipt == Look(Anyone, <<"GET billing/receipts/:id/pdf">>)

PaymentsPage ==
  Page(MoneySection,
       {"GET payments/destinations", "GET payments/outstanding",
        "GET society/units", "GET billing/receipts"}, {},
       [RecordPayment |-> RecordPayment, AddDestination |-> AddDestination,
        DownloadReceipt |-> DownloadReceipt])

LockButton == Button(Accounting, <<"POST ledger/periods/:id/lock">>)
ReopenPeriod == Form(Accounting, <<"POST ledger/periods/:id/reopen">>)
ExportButton == Look(Anyone, <<"GET ledger/export">>)

BooksPage ==
  [Page(MoneySection,
        {"GET ledger/trial-balance", "GET ledger/income-expenditure",
         "GET ledger/balance-sheet", "GET ledger/cash-flow",
         "GET ledger/day-book", "GET ledger/accounts", "GET ledger/periods",
         "GET ledger/invariants"}, {},
        [LockButton |-> LockButton, ReopenPeriod |-> ReopenPeriod,
         ExportButton |-> ExportButton])
     EXCEPT !.chooses = TRUE, !.clears = "start"]

DraftBudget == Form(Accounting, <<"POST ledger/budgets">>)
(* Mutant of PassBudget: shown to those who draft.                         *)
PassBudgetToDrafters == Form(Accounting, <<"POST ledger/budgets/:id/approve">>)

PassBudget == Form(Committee, <<"POST ledger/budgets/:id/approve">>)

BudgetPage ==
  [Page(MoneySection, {"GET ledger/budgets", "GET ledger/budgets/variance"},
        {"GET ledger/accounts"},
        [DraftBudget |-> DraftBudget, PassBudget |-> PassBudget])
     EXCEPT !.chooses = TRUE, !.clears = "success"]
------------------------------------------------------------------------------
(* Complaints; the thread of one has forms of its own.                     *)
RaiseComplaint == Form(Anyone, <<"POST tickets">>)
PostComment == Aside(Button(Anyone, <<"POST tickets/:id/comments">>))
SetStatus == Button(Anyone, <<"POST tickets/:id/status">>)
ReopenTicket == Button(Anyone, <<"POST tickets/:id/reopen">>)
TicketThread == {"GET tickets/:id/events", "GET tickets/:id/attachments"}

ComplaintsPage ==
  [Page(Anyone, {"GET tickets"},
        {"GET tickets/categories", "GET society/units"} \cup TicketThread,
        [RaiseComplaint |-> RaiseComplaint, PostComment |-> PostComment,
         SetStatus |-> SetStatus, ReopenTicket |-> ReopenTicket])
     EXCEPT !.chooses = TRUE]

Compose == Form(Committee, <<"POST notices">>)
PublishButton == Button(Committee, <<"POST notices/:id/publish">>)

(* Who has read a notice is asked for the committee only.                  *)
ViewNotice == {"GET notices/:id/results", "GET notices/:id/reads"}

NoticesPage ==
  Page(Anyone, {"GET notices"}, ViewNotice,
       [Compose |-> Compose, PublishButton |-> PublishButton])

AddAmenity == Form(Committee, <<"POST safety/amenities">>)
BookAmenity == Form(Anyone, <<"POST safety/bookings">>)
CancelButton == Button(Anyone, <<"DELETE safety/bookings/:id">>)

AmenitiesPage ==
  Page(Anyone,
       {"GET safety/amenities", "GET safety/bookings", "GET society/units"}, {},
       [AddAmenity |-> AddAmenity, BookAmenity |-> BookAmenity,
        CancelButton |-> CancelButton])

(* The record first, then a place in the storage, then the file, which     *)
(* does not pass through the API, and then the note that it is there.      *)
AddDocument ==
  Form(Committee, <<"POST documents", "POST documents/:id/upload",
                    "POST documents/:id/attach">>)
OpenButton == Look(Anyone, <<"GET documents/:id/link">>)
RemoveButton == Button(Committee, <<"DELETE documents/:id">>)

DocumentsPage ==
  [Page(Anyone, {"GET documents"}, {"GET society/units"},
        [AddDocument |-> AddDocument, OpenButton |-> OpenButton,
         RemoveButton |-> RemoveButton])
     EXCEPT !.chooses = TRUE]
------------------------------------------------------------------------------
(* The gate: whom a guard has to let in, parcels and alarms, vehicles.     *)
ApprovalRow == Button(Anyone, <<"POST gate/approvals/:id/decision">>)
LadderHistory == {"GET gate/approvals/:id/history"}
IssuePass == Form(Anyone, <<"POST gate/passes">>)
ExportRegister == Look(Committee, <<"GET gate/register/export">>)

(* The register is asked for the committee only.                           *)
GatePage ==
  [Page(Anyone,
        {"GET gate/inside", "GET gate/approvals/pending", "GET society/units"},
        {"GET gate/register"} \cup LadderHistory,
        [ApprovalRow |-> ApprovalRow, IssuePass |-> IssuePass,
         ExportRegister |-> ExportRegister])
     EXCEPT !.polls = TRUE, !.chooses = TRUE]

AcknowledgeButton == Button(Anyone, <<"POST safety/sos/:id/acknowledge">>)
CloseAlert == Form(Anyone, <<"POST safety/sos/:id/close">>)
LogParcel == Form(Anyone, <<"POST deliveries">>)
AdvanceParcel == Form(Anyone, <<"POST deliveries/advance">>)

OperationsPage ==
  [Page(Anyone, {"GET deliveries", "GET safety/sos", "GET society/units"}, {},
        [AcknowledgeButton |-> AcknowledgeButton, CloseAlert |-> CloseAlert,
         LogParcel |-> LogParcel, AdvanceParcel |-> AdvanceParcel])
     EXCEPT !.polls = TRUE]

RegisterVehicle == Form(Committee, <<"POST parking/vehicles">>)
DeregisterButton == Button(Committee, <<"DELETE parking/vehicles/:id">>)
AddSlot == Form(Committee, <<"POST parking/slots">>)
AllotSlot == Form(Committee, <<"POST parking/slots/allot">>)
ReleaseButton == Button(Committee, <<"POST parking/slots/:id/release">>)
FlagVehicle == Form(Anyone, <<"POST parking/violations">>)
ResolveButton == Button(Anyone, <<"POST parking/violations/:id/resolve">>)

ParkingPage ==
  Page(Anyone, {"GET parking/vehicles", "GET parking/slots",
                "GET parking/violations", "GET society/units"}, {},
       [RegisterVehicle |-> RegisterVehicle, DeregisterButton |-> DeregisterButton,
        AddSlot |-> AddSlot, AllotSlot |-> AllotSlot, ReleaseButton |-> ReleaseButton,
        FlagVehicle |-> FlagVehicle, ResolveButton |-> ResolveButton])
------------------------------------------------------------------------------
(* Flats and the people in them, who holds which role, staff.              *)
AddTower == Form(Committee, <<"POST society/towers">>)
AddFlats == Form(Committee, <<"POST society/units/bulk">>)
AddOneFlat == Form(Committee, <<"POST society/units">>)
MoveIn == Form(Committee, <<"POST society/occupancies">>)
MoveOutButton == Aside(Form(Committee, <<"DELETE society/occupancies/:id">>))

UnitsPage ==
  [Page(Anyone, {"GET society/units", "GET society/towers"},
        {"GET society/units/:id/occupants"},
        [AddTower |-> AddTower, AddFlats |-> AddFlats, AddOneFlat |-> AddOneFlat,
         MoveIn |-> MoveIn, MoveOutButton |-> MoveOutButton])
     EXCEPT !.chooses = TRUE]

GrantRole == Form(Admin, <<"POST society/roles">>)
RevokeButton == Button(Admin, <<"DELETE society/roles">>)

DirectoryPage ==
  Page(Anyone, {"GET society/directory"}, {},
       [GrantRole |-> GrantRole, RevokeButton |-> RevokeButton])

CheckInButton == Button(GateKeepers, <<"POST staff/attendance/check-in">>)
CheckOutButton == Button(GateKeepers, <<"POST staff/attendance/check-out">>)
AddStaff == Form(Committee, <<"POST staff">>)
ManageStatus == Form(Committee, <<"POST staff/:id/status">>)
(* When the PIN is set its field is emptied and the modal stays.           *)
ManagePin == Aside(Button(Committee, <<"POST staff/:id/pin">>))
ManageVerification == Form(Committee, <<"POST staff/:id/verification">>)

StaffPage ==
  [Page(Anyone, {"GET staff", "GET staff/attendance/present",
                 "GET staff/timesheet", "GET society/units"}, {},
        [CheckInButton |-> CheckInButton, CheckOutButton |-> CheckOutButton,
         AddStaff |-> AddStaff, ManageStatus |-> ManageStatus,
         ManagePin |-> ManagePin, ManageVerification |-> ManageVerification])
     EXCEPT !.chooses = TRUE]

AddAsset == Form(Committee, <<"POST assets">>)
ScheduleWork == Form(Committee, <<"POST assets/:id/work">>)
CloseWork == Form(Committee, <<"POST assets/work/:id/complete">>)

AssetsPage ==
  [Page(FacilitySection, {"GET assets", "GET assets/due", "GET assets/categories"},
        {"GET society/towers", "GET assets/schedule"},
        [AddAsset |-> AddAsset, ScheduleWork |-> ScheduleWork, CloseWork |-> CloseWork])
     EXCEPT !.clears = "success"]
------------------------------------------------------------------------------
(* What was done and by whom, what is kept about people, the import.       *)
AuditPage ==
  [Page(Anyone, {"GET audit"}, {"GET audit/actions"}, <<>>)
     EXCEPT !.chooses = TRUE, !.clears = "success"]

WithdrawButton == Button(Anyone, <<"DELETE privacy/consents/:id">>)
ExportSelfButton == Look(Anyone, <<"GET privacy/export">>)
PurgeButton == Button(Admin, <<"POST privacy/retention/purge">>)
EditRetention == Form(Admin, <<"POST privacy/retention">>)
CompleteErasureButton == Button(Committee, <<"POST privacy/erasure/:id/complete">>)
PublishNotice == Form(Committee, <<"POST privacy/notices">>)

PrivacyPage ==
  Page(Anyone, {"GET privacy/consents", "GET privacy/notices"},
       {"GET privacy/retention", "GET privacy/retention/runs",
        "GET privacy/erasure", "GET privacy/cctv/access"},
       [WithdrawButton |-> WithdrawButton, ExportSelfButton |-> ExportSelfButton,
        PurgeButton |-> PurgeButton, EditRetention |-> EditRetention,
        CompleteErasureButton |-> CompleteErasureButton,
        PublishNotice |-> PublishNotice])

(* Either sheet is checked first and written when it is clean.             *)
ImportUnits == Button(Anyone, <<"POST migration/units">>)
ImportBalances == Button(Anyone, <<"POST migration/opening-balances">>)

MigrationPage ==
  Page(AdminSection, {"GET migration/state"}, {},
       [ImportUnits |-> ImportUnits, ImportBalances |-> ImportBalances])
------------------------------------------------------------------------------
PageOf ==
  [dashboard |-> DashboardPage, reports |-> ReportsPage, billing |-> BillingPage,
   payments |-> PaymentsPage, books |-> BooksPage, budget |-> BudgetPage,
   complaints |-> ComplaintsPage, notices |-> NoticesPage,
   amenities |-> AmenitiesPage, documents |-> DocumentsPage, gate |-> GatePage,
   operations |-> OperationsPage, parking |-> ParkingPage, units |-> UnitsPage,
   directory |-> DirectoryPage, staff |-> StaffPage, assets |-> AssetsPage,
   audit |-> AuditPage, privacy |-> PrivacyPage, migration |-> MigrationPage]

Pages == DOMAIN PageOf
=============================================================================
