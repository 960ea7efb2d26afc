CONSTANTS
  nil = nil
  DayLen = 6
  Offset <- WestOffset
  MonthStart <- MCMonthStart
  CheckinDay = 3
  SendTime = 1
  ReminderInterval <- TwoDays
  PasswordDelay <- TwoDays
  FileDelay <- ThreeUnits
  Start = 2
  Horizon = 70
SPECIFICATION Spec
CHECK_DEADLOCK FALSE
INVARIANT OutageIsMadeUp
