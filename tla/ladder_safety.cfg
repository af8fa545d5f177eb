CONSTANTS
  Needles = {}
  NoText = NoText
  Blank = Blank
  Categories = {"delivery"}
  AnyCategory = AnyCategory
  Handlers = {h1, h2}
  People = {p1, p2}
  FlatRules <- MCFlatRules
  Visitors <- MCVisitors
  Instants <- MCSkewedInstants
  ClockSkew = 1
  MaxFailures = 1
  MaxRefusals = 0
  MaxAttempts = 3
  Nobody = Nobody
  NoRule = NoRule
SPECIFICATION Spec
SYMMETRY MCSymmetry
INVARIANT TypeOK
INVARIANT DecisionHasOneAuthor
PROPERTY LadderIsClimbedInOrder
INVARIANT EscalationIsTheLastResort
PROPERTY DecisionIsFinal
PROPERTY ImplementsPromise
CHECK_DEADLOCK FALSE
