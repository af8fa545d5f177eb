SPECIFICATION Spec
CONSTANTS
  Visits <- McVisits
  BusyVisits <- McBusyVisits
  MaxLoads = 2
  MaxChoices = 2
  MaxForms = 2
  MaxErrors = 2
  MaxWrites = 2
  MaxLosses = 1
INVARIANTS AgainOnlyAfterAnAnswer LimitedOffersAreAllowed
CHECK_DEADLOCK FALSE
PROPERTIES OwnWritesAreShown PollingPagesCatchUp
