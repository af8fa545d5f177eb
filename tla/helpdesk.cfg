SPECIFICATION McSpec
CONSTANTS
  Handlers = {h1, h2}
  Sweepers = {s1}
  Persons = {p1}
  Reports <- McReports
  EscalationTime = 1
  ReopenWindow = 0
  DuplicateWindow = 0
  MaxAttachments = 1
  Never = Never
  MaxTime = 2
  MaxRequests = 3
  MaxCrashes = 1
INVARIANTS TypeOK ResolutionIsProven OneTicketPerFault
PROPERTIES LateIsEscalated
CHECK_DEADLOCK FALSE
