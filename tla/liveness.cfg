CONSTANTS
  nil = nil
  DayLen = 1
  Offset <- NoOffset
  MonthStart <- LongMonth
  CheckinDay = 2
  SendTime = 0
  ReminderInterval <- One
  PasswordDelay <- One
  FileDelay <- One
  Beneficiaries <- TwoBeneficiaries
  Owner = "owner"
  ReminderCount = 1
  HeartbeatInterval = 2
  Overlap = FALSE
  OwnerClicks = FALSE
  FreeFailures = FALSE
  Urgent = TRUE
  FaultKinds = {"crash", "abort", "dbError", "lostAck", "sendFails"}
  MaxFaults = 1
  MaxTime = 12
SPECIFICATION FairSpec
PROPERTY EventuallyDisclosed
