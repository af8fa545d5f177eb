SPECIFICATION Spec
CONSTANTS
  Inputs = {june, july}
  None = None
INVARIANT IssuedAsPreviewed
