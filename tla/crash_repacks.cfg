CONSTANTS
  nil = nil
  DayLen = 1
  Offset <- NoOffset
  MonthStart <- ShortMonths
  CheckinDay = 2
  SendTime = 0
  ReminderInterval <- One
  PasswordDelay <- One
  FileDelay <- One
  Beneficiaries <- TwoBeneficiaries
  Owner = "owner"
  ReminderCount = 1
  HeartbeatInterval = nil
  Overlap = FALSE
  OwnerClicks = TRUE
  FreeFailures = TRUE
  Urgent = FALSE
  FaultKinds = {"crash"}
  MaxFaults = 1
  MaxTime = 8
SPECIFICATION Spec
INVARIANT PasswordsOpenTheArchive
