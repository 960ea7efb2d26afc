CONSTANTS
  nil = nil
  DayLen = 1
  Offset <- NoOffset
  MonthStart <- LongMonth
  CheckinDay = 2
  SendTime = 0
  ReminderInterval <- One
  PasswordDelay <- One
  FileDelay <- One
  Beneficiaries <- OneBeneficiary
  Owner = "owner"
  ReminderCount = 1
  HeartbeatInterval = nil
  Overlap = FALSE
  OwnerClicks = TRUE
  FreeFailures = FALSE
  Urgent = FALSE
  FaultKinds = {"crash", "abort", "dbError", "sendFails"}
  MaxFaults = 1
  MaxTime = 5
  KeepArchives = 1
  SavesState = TRUE
  MaxManual = 1
SPECIFICATION ArchSpec
INVARIANTS ArchTypeOK StagesInOrder Cancellable RestartCarriesOn RowArchiveUsable DiskBounded
PROPERTY DryRunForetells
