SPECIFICATION Spec
CONSTANTS
  s = s
  t = t
  l = l
  c = c
  a = a
  b = b
  Nodes = {s, t, l, c, a, b}
  Kind <- MCKind
  None = None
  Main = s
  Names = {s, l, c, a, b}
  Texts = {"v", "w"}
  StartTypes = {"event", "schedule"}
  FormTypes = {"plain"}
  First <- MCFirst
  FirstNode <- MCNode
  NewText = "v"
  MaxEdits = 2
INVARIANTS TypeOK CyclesHaveLoops FormIsStored TitleIsForms
PROPERTIES RefsFollow
CHECK_DEADLOCK FALSE
