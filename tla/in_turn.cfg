CONSTANTS
  nil = nil
  DayLen = 1
  Offset <- NoOffset
  MonthStart <- ShortMonths
  CheckinDay = 1
  SendTime = 0
  ReminderInterval <- One
  PasswordDelay <- One
  FileDelay <- One
  Beneficiaries <- TwoBeneficiaries
  Owner = "owner"
  ReminderCount = 1
  HeartbeatInterval = nil
  Overlap = FALSE
  OwnerClicks = TRUE
  FreeFailures = TRUE
  Urgent = FALSE
  FaultKinds = {}
  MaxFaults = 0
  MaxTime = 7
SPECIFICATION LegacySpec
INVARIANTS Cancellable OncePerRound WholeFlowEachRound PasswordsOpenTheArchive
