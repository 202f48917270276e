SPECIFICATION Spec
CONSTANTS
  Rows = {1, 2, 3}
  Appts = {a1, a2}
  ApptOf <- TwinAppts
  Jobs = {j1}
  Clis = {c1}
  Leads = {l1, l2}
  FreeLeads = {}
  MaxTries = 2
  MaxTransport = 1
  RecordIdMapped = TRUE
  WebMayDie = FALSE
  None = None
  FirstAppt = a1
  SecondAppt = a2
SYMMETRY Symmetry
INVARIANTS TypeOK OneLeadPerAppointment ReceiptNamesItsLead
CHECK_DEADLOCK FALSE
