CONSTANTS
  Needles = {}
  NoText = NoText
  Blank = Blank
  Categories = {"delivery"}
  AnyCategory = AnyCategory
  Handlers = {h1}
  People = {p1}
  FlatRules <- MCFlatRules
  Visitors <- MCVisitors
  Instants <- MCInstants
  ClockSkew = 0
  MaxFailures = 1
  MaxRefusals = 0
  MaxAttempts = 3
  Nobody = Nobody
  NoRule = NoRule
SPECIFICATION Spec
CHECK_DEADLOCK FALSE
INVARIANT ExhaustedLadderIsEscalated
