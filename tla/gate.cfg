CONSTANTS
  Devices = {d1}
  Processes = {p1, p2}
  Passes = {pass}
  NoPass = NoPass
  MaxUses <- MCMaxUses
  Visits <- MCVisits
  BatchSize = 2
  MaxAttempts = 2
  MaxRetries = 1
  MaxEvents = 2
  MaxTrouble <- MCMuch
  MaxTroubles = 2
SPECIFICATION FairSpec
INVARIANT TypeOK
INVARIANT SentMeansRecorded
INVARIANT NoEntryIsCountedTwice
INVARIANT EveryEntryIsCounted
INVARIANT SpentPassIsRetired
PROPERTY EventsLandInOrder
PROPERTY GoodEventsArrive
PROPERTY EveryRowSettles
CHECK_DEADLOCK FALSE
