\* Two leads, a list of two elements of which one may be run, four requests.
CONSTANTS
  a = a
  b = b
  x = x
  y = y
  Leads = {a, b}
  Entities = {x, y}
  MaxSelected = 1
  Choices = {w}
  None = None
  MaxRetries = 1
  MaxCalls = 4
  MaxPages = 4
SPECIFICATION Spec
SYMMETRY Symmetry
CHECK_DEADLOCK FALSE
INVARIANTS FlagsAreHeld
PROPERTIES RunsAreMeant
