CONSTANTS
  Needles = {}
  NoText = NoText
  Blank = Blank
  Categories = {"delivery"}
  AnyCategory = AnyCategory
  Handlers = {h1, h2}
  People = {p1}
  FlatRules <- MCContradiction
  Visitors <- MCVisitors
  Instants <- MCInstants
  ClockSkew = 0
  MaxFailures = 1
  MaxRefusals = 1
  MaxAttempts = 3
  Nobody = Nobody
  NoRule = NoRule
SPECIFICATION FairSpec
INVARIANT PendingIsDriven
CHECK_DEADLOCK FALSE
PROPERTY EveryRungIsTried
PROPERTY SomebodyAnswers
