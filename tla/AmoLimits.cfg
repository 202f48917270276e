SPECIFICATION Spec
CONSTANTS
  Callers = {"http", "sdk", "token"}
  Integrations = {"i1", "i2"}
  IntegrationOf <- MCIntegrationOf
  KindOf <- MCKindOf
  Interval = 2
  AccountInterval = 1
  KeyMargin = 1
  Fallback = 1
  RetryAfters = {0, 3}
  MaxWait = 3
  MaxNow = 3
INVARIANTS
  TypeOK
  NoReplay
PROPERTIES
  AdmissionsSpaced
  PausesHold
