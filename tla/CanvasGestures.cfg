SPECIFICATION Spec
CONSTANTS
  s = s
  l = l
  a = a
  m = m
  b = b
  Nodes = {s, l, a, m, b}
  Kind <- KindOf
  First <- LoopWithBody
  Pointers = {p1, p2}
  UndoLimit = 2
  MaxInputs = 3
  None = None
SYMMETRY Symmetry
INVARIANTS EdgesJoinNodes ShownIsStored GesturesAreHeld
PROPERTIES InsertionsKeepControl 
CHECK_DEADLOCK FALSE
