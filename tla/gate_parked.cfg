CONSTANTS
  Devices = {d1}
  Processes = {p1}
  Passes = {pass}
  NoPass = NoPass
  MaxUses <- MCMaxUses
  Visits <- MCGoodVisits
  BatchSize = 2
  MaxAttempts = 2
  MaxRetries = 1
  MaxEvents = 1
  MaxTrouble <- MCOutage
  MaxTroubles = 3
SPECIFICATION Spec
INVARIANT OnlyBadRowsAreParked
CHECK_DEADLOCK FALSE
