SPECIFICATION FairSpec
CONSTANTS
  Rows = {1}
  Appts = {a1}
  ApptOf <- OneAppt
  Jobs = {j1, j2}
  Clis = {}
  Leads = {l1, l2}
  FreeLeads = {}
  MaxTries = 2
  MaxTransport = 2
  RecordIdMapped = TRUE
  WebMayDie = TRUE
  None = None
  FirstAppt = a1
  SecondAppt = a1
INVARIANTS WorkersExclusive SuccessIsCurrent NoteOncePerEvent
PROPERTIES OutcomeFromItsWorker PendingSettles LeadsCreatedOnce
CHECK_DEADLOCK FALSE
