CONSTANTS
  nil = nil
  DayLen = 6
  Offset <- EastOffset
  MonthStart <- MCMonthStart
  CheckinDay = 3
  SendTime = 3
  ReminderInterval <- OneDay
  PasswordDelay <- TwoDays
  FileDelay <- ThreeUnits
  Start = 2
  Horizon = 70
SPECIFICATION Spec
INVARIANTS DelayLandsOnItsDay DryRunIsRight RemindersAreSendTimesPassed OneCheckinPerMonth EveryMonthServed
CHECK_DEADLOCK FALSE
