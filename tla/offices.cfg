SPECIFICATION OfficesSpec
CONSTANTS
  Calls = {c1, c2}
  MaxCodes = 2
  MaxRows = 3
  MaxLosses = 1
  MaxErrors = 1
  Requests = {r1, r2}
  Slots = {s1, s2}
  Cars = {v1, v2, v3}
  Parcels = {p1}
  Alerts = {a1}
  Guards = {g1, g2}
  Inputs = {june, july}
  None = None
  NoText = NoText
  Blank = Blank
  AnyCategory = AnyCategory
  MaxRules = 3
SYMMETRY Symmetry
INVARIANT OneTokenPerSignIn
INVARIANT OnlyTroubleSignsOut
INVARIANT UndisturbedPreviewIsIssued
INVARIANT ReduceFindsTheWinner
PROPERTY NobodyIsMovedSilently
PROPERTY SettledRecordsStand
PROPERTY LettingInNeedsAMoreSpecificRule
CHECK_DEADLOCK FALSE
