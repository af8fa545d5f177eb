------------------------------ MODULE ApiRoutes ------------------------------
(***************************************************************************)
(* Who the API lets in.  Every controller of apps/api/src/modules answers  *)
(* its routes to anybody signed in to the society, or first calls a guard  *)
(* (requireCommittee, requireGate, ...) that throws 403 unless the token   *)
(* carries one of the guard's roles.  A route is named by its method and   *)
(* path without the v1/ prefix; Lets relates it to the roles that pass.    *)
(*                                                                         *)
(* Left out: which ROWS a caller sees (a resident's own invoices, the      *)
(* documents of a flat), and the routes of "internal" and the webhook,     *)
(* which no signed-in person calls.                                        *)
(***************************************************************************)
Roles == {"society_admin", "mc_member", "accountant", "auditor", "guard",
          "resident", "staff"}

Anyone == Roles
Committee == {"society_admin", "mc_member"}
BooksReaders == Committee \cup {"accountant", "auditor"}
GateKeepers == Committee \cup {"guard"}

(* isStaff() of the request context.                                       *)
IsStaff == BooksReaders \cup {"staff"}

Guarded(routes, roles) == routes \X roles

AnalyticsRoutes ==
  Guarded({"GET analytics/overview", "GET analytics/footfall",
           "GET analytics/collections", "GET analytics/defaulters",
           "GET analytics/helpdesk", "GET analytics/staff"}, BooksReaders)

(* Only the readers' guards and that of disposal; the handlers' work on    *)
(* the register is not followed here.                                      *)
AssetRoutes ==
     Guarded({"GET assets", "GET assets/due", "GET assets/:id/history",
              "POST assets/work/:id/complete"}, IsStaff)
  \cup Guarded({"GET assets/categories"}, Anyone)
  \cup Guarded({"GET assets/schedule"}, BooksReaders)
  \cup Guarded({"POST assets", "PATCH assets/:id", "POST assets/:id/work",
              "POST assets/:id/dispose"}, Committee)

(* Everyone may read the entries of the things they did themselves.        *)
AuditRoutes ==
     Guarded({"GET audit"}, Anyone)
  \cup Guarded({"GET audit/actions"}, Committee \cup {"auditor"})

BillingRoutes ==
     Guarded({"GET billing/charge-types", "POST billing/preview",
              "POST billing/issue"}, {"accountant", "society_admin"})
  \cup Guarded({"GET billing/invoices", "GET billing/receipts",
              "GET billing/invoices/:id/pdf", "GET billing/receipts/:id/pdf"},
             Anyone)

DeliveryRoutes ==
  Guarded({"GET deliveries", "GET deliveries/summary", "POST deliveries",
           "POST deliveries/advance"}, GateKeepers)

DocumentRoutes ==
     Guarded({"GET documents", "GET documents/categories",
              "GET documents/:id/link"}, Anyone)
  \cup Guarded({"GET documents/expiring", "POST documents",
              "POST documents/:id/upload", "POST documents/:id/attach",
              "DELETE documents/:id"}, Committee)

GateRoutes ==
     Guarded({"GET gate/keys", "POST gate/sync", "POST gate/approvals"},
             {"guard", "society_admin"})
  \cup Guarded({"POST gate/passes", "GET gate/passes/:id",
              "POST gate/passes/:id/revoke", "GET gate/approvals/pending",
              "GET gate/approvals/:id", "GET gate/approvals/:id/history",
              "POST gate/approvals/:id/decision", "GET gate/events",
              "GET gate/inside"}, Anyone)
  \cup Guarded({"GET gate/register", "GET gate/register/export"}, Committee)

HelpdeskRoutes ==
  Guarded({"GET tickets", "GET tickets/categories", "POST tickets",
           "GET tickets/:id", "GET tickets/:id/events",
           "POST tickets/:id/attachments/presign",
           "POST tickets/:id/attachments", "GET tickets/:id/attachments",
           "POST tickets/:id/comments", "POST tickets/:id/status",
           "POST tickets/:id/reopen", "POST tickets/:id/rating"}, Anyone)

LedgerReads ==
     Guarded({"GET ledger/accounts", "GET ledger/trial-balance",
              "GET ledger/income-expenditure", "GET ledger/balance-sheet",
              "GET ledger/cash-flow", "GET ledger/penalties",
              "GET ledger/day-book", "GET ledger/export"}, BooksReaders)
  \cup Guarded({"GET ledger/house-statement"}, Anyone)

LedgerRoutes ==
     Guarded({"GET ledger/budgets", "GET ledger/budgets/variance",
              "GET ledger/invariants", "GET ledger/periods"}, BooksReaders)
  \cup Guarded({"POST ledger/periods/:id/lock"}, {"society_admin", "accountant"})
  \cup Guarded({"POST ledger/periods/:id/reopen"}, {"society_admin"})

(* The routes of budgets have their guards in the service.                 *)
BudgetDrafting ==
  Guarded({"POST ledger/budgets", "POST ledger/budgets/:id/lines",
           "DELETE ledger/budgets/:id", "POST ledger/budgets/:id/revise"},
          {"society_admin", "accountant"})
BudgetPassing == Guarded({"POST ledger/budgets/:id/approve"}, Committee)

MigrationRoutes ==
  Guarded({"GET migration/state", "POST migration/units",
           "POST migration/opening-balances"}, {"society_admin"})

NoticeRoutes ==
     Guarded({"GET notices", "POST notices/:id/read", "POST notices/:id/vote",
              "GET notices/:id/results"}, Anyone)
  \cup Guarded({"POST notices", "POST notices/:id/publish",
              "GET notices/:id/reads"}, Committee)

ParkingRoutes ==
     Guarded({"GET parking/vehicles", "GET parking/slots",
              "GET parking/summary"}, Anyone)
  \cup Guarded({"POST parking/vehicles", "DELETE parking/vehicles/:id",
              "POST parking/slots", "POST parking/slots/allot",
              "POST parking/slots/:id/release"}, Committee)
  \cup Guarded({"GET parking/lookup", "GET parking/violations",
              "POST parking/violations", "POST parking/violations/:id/resolve"},
             GateKeepers)

PaymentRoutes ==
  Guarded({"GET payments/destinations", "POST payments/destinations",
           "GET payments/credits", "POST payments/credits/apply",
           "GET payments/outstanding", "POST payments/manual"},
          Committee \cup {"accountant"})

(* A person always reaches what is recorded about themselves.              *)
PrivacyOwnRoutes ==
  Guarded({"GET privacy/notice", "GET privacy/notices", "GET privacy/consents",
           "POST privacy/consents", "DELETE privacy/consents/:id",
           "GET privacy/export", "POST privacy/erasure"}, Anyone)
PrivacyRoutes ==
     Guarded({"POST privacy/notices", "GET privacy/erasure",
              "POST privacy/erasure/:id/complete", "GET privacy/erasure/overdue",
              "GET privacy/retention", "GET privacy/retention/runs",
              "GET privacy/cctv/access"}, Committee)
  \cup Guarded({"POST privacy/retention", "POST privacy/retention/purge"},
             {"society_admin"})
  \cup Guarded({"POST privacy/cctv/access"}, GateKeepers)

SafetyRoutes ==
     Guarded({"POST safety/sos", "GET safety/amenities", "GET safety/bookings",
              "POST safety/bookings", "DELETE safety/bookings/:id",
              "GET safety/summary"}, Anyone)
  \cup Guarded({"GET safety/sos", "POST safety/sos/:id/acknowledge",
              "POST safety/sos/:id/close"}, GateKeepers)
  \cup Guarded({"POST safety/amenities"}, Committee)

SocietyRoutes ==
     Guarded({"GET society/summary", "GET society/towers", "GET society/units",
              "GET society/units/:id/occupants", "GET society/directory"},
             Anyone)
  \cup Guarded({"POST society/towers", "POST society/units",
              "POST society/units/bulk", "POST society/occupancies",
              "DELETE society/occupancies/:id"}, Committee)
  \cup Guarded({"POST society/roles", "DELETE society/roles"}, {"society_admin"})

StaffRoutes ==
     Guarded({"GET staff"}, Anyone)
  \cup Guarded({"POST staff", "POST staff/:id/status", "POST staff/:id/pin",
              "POST staff/:id/verification", "POST staff/attendance/override"},
             Committee)
  \cup Guarded({"POST staff/attendance/check-in",
              "POST staff/attendance/check-out",
              "GET staff/attendance/present"}, GateKeepers)
  \cup Guarded({"GET staff/timesheet"}, Committee \cup {"accountant"})

Lets ==
  AnalyticsRoutes \cup AssetRoutes \cup AuditRoutes \cup BillingRoutes
  \cup DeliveryRoutes \cup DocumentRoutes \cup GateRoutes \cup HelpdeskRoutes
  \cup LedgerReads \cup LedgerRoutes \cup BudgetDrafting \cup BudgetPassing
  \cup MigrationRoutes \cup NoticeRoutes \cup ParkingRoutes \cup PaymentRoutes
  \cup PrivacyOwnRoutes \cup PrivacyRoutes \cup SafetyRoutes \cup SocietyRoutes
  \cup StaffRoutes

(* hasRole: a caller passes when the token carries one of the roles.       *)
Passes(held, route) == \E role \in held : <<route, role>> \in Lets
=============================================================================
