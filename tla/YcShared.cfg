SPECIFICATION Spec
CONSTANTS
  Rows = {1, 2}
  Appts = {a1, a2}
  ApptOf <- OwnAppt
  Jobs = {j1, j2}
  Clis = {}
  Leads = {l1, l2}
  FreeLeads = {}
  MaxTries = 3
  MaxTransport = 2
  RecordIdMapped = TRUE
  WebMayDie = TRUE
  None = None
  FirstAppt = a1
  SecondAppt = a2
INVARIANT LeadServesOneAppointment
SYMMETRY Symmetry
CHECK_DEADLOCK FALSE
