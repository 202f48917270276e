SPECIFICATION FairSpec
CONSTANTS
  Docs = {d1, d2}
  FirstDocs = {d1, None}
  Nodes = {n1, n2}
  Imports = {{n2}}
  FirstNodes = {n1, n2}
  UndoLimit = 2
  MaxEdits = 2
  MaxRivals = 1
  MaxRevision = 3
  MaxCalls = 1
  None = None
INVARIANTS TypeOK CleanMeansStored
PROPERTIES TypingSurvives RivalsSurvive RenamesSettle
CHECK_DEADLOCK FALSE
