CONSTANTS
  nil = nil
  DayLen = 1
  Offset <- NoOffset
  MonthStart <- ShortMonths
  CheckinDay = 2
  SendTime = 0
  ReminderInterval <- One
  PasswordDelay <- One
  FileDelay <- One
  Beneficiaries <- OneBeneficiary
  Owner = "owner"
  ReminderCount = 1
  HeartbeatInterval = nil
  Overlap = TRUE
  OwnerClicks = TRUE
  FreeFailures = FALSE
  Urgent = FALSE
  FaultKinds = {"crash", "abort", "dbError", "lostAck", "sendFails"}
  MaxFaults = 1
  MaxTime = 6
SPECIFICATION Spec
INVARIANTS TypeOK StagesInOrder Cancellable RestartCarriesOn DelaysHonoured
PROPERTY KeepsPromise
