SPECIFICATION Spec
CONSTANTS
  s = s
  t = t
  l = l
  c = c
  a = a
  b = b
  Nodes = {s, t, l, c, a, b}
  Kind <- MCKindLoops
  None = None
  Main = s
  Names = {s, t, l, c, a, b}
  Texts = {"v", "w"}
  StartTypes = {"event", "schedule"}
  FormTypes = {"plain"}
  First <- MCFirstLoops
  FirstNode <- MCNode
  NewText = "v"
  MaxEdits = 1
INVARIANTS CyclesControlled
CHECK_DEADLOCK FALSE
