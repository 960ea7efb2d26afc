----------------------------- MODULE TargetFlow -----------------------------
(***************************************************************************)
(* The calendar of the switch: the pure functions of                       *)
(* internal/scheduler/scheduler.go that turn persisted UTC instants and    *)
(* the current time into "is the monthly check-in due", "how many          *)
(* reminders are due" and "is the next mail stage due".                    *)
(*                                                                         *)
(* An instant is a natural number of time units since an epoch.  A local   *)
(* date is the number of local days since the epoch, so that adding days   *)
(* to a date is an addition; MonthStart lists the first day of each month. *)
(***************************************************************************)
EXTENDS StateStore, Sequences, FiniteSets

CONSTANTS
  DayLen,            \* time units of a local day
  Offset(_),         \* zone offset (local - UTC) in force at an instant
  MonthStart,        \* first local day of each month, ascending
  CheckinDay,        \* target_flow.checkin_day_of_month
  SendTime,          \* target_flow.send_time_of_day, units after midnight
  ReminderInterval,  \* target_flow.reminder_interval
  PasswordDelay,     \* target_flow.password_delay_after_warn
  FileDelay          \* target_flow.file_delay_after_password

(* config.Duration: "3d" counts local days, "72h" counts exact time.       *)
Duration == [dayBased : BOOLEAN, n : Nat \ {0}]

(* What Config.Validate accepts.                                           *)
ASSUME TargetFlowAssumption ==
  /\ DayLen \in Nat \ {0}
  /\ SendTime \in 0 .. DayLen - 1
  /\ CheckinDay \in 1 .. 31
  /\ {ReminderInterval, PasswordDelay, FileDelay} \subseteq Duration

-----------------------------------------------------------------------------
(* package time *)

Local(t) == t + Offset(t)

DayOf(t) == Local(t) \div DayLen

(* time.Date: the offset in force at the wall clock read as UTC is a first *)
(* guess, corrected once by the offset at the instant that guess gives.    *)
FromLocal(wall) ==
  LET guess == Offset(wall)
  IN IF guess = 0 THEN wall ELSE wall - Offset(wall - guess)

-----------------------------------------------------------------------------

localDateTime(day, time) == FromLocal(day * DayLen + time)

(* Variant of addLocalDaysAtTime: days of a fixed length.                  *)
AddFixedDays(base, days) == localDateTime(DayOf(base + days * DayLen), SendTime)

(* AddDate keeps the wall clock of base on the later day and normalises it *)
(* to an instant; only the date of that instant is used.                   *)
addLocalDaysAtTime(base, days) ==
  localDateTime(DayOf(FromLocal(Local(base) + days * DayLen)), SendTime)

nextStageTime(base, delay) ==
  IF delay.dayBased THEN addLocalDaysAtTime(base, delay.n) ELSE base + delay.n

(* Variant of dueAt: the hour of the base is kept.                         *)
DueAtHourOfBase(base, delay) ==
  IF delay.dayBased THEN FromLocal(Local(base) + delay.n * DayLen)
  ELSE base + delay.n

(* The copy of nextStageTime that ifgonectl announces the next mails with; *)
(* it builds the target from the date of the day that AddDate reaches.     *)
dueAt(base, delay) ==
  IF delay.dayBased
  THEN FromLocal(DayOf(FromLocal(Local(base) + delay.n * DayLen)) * DayLen + SendTime)
  ELSE base + delay.n

stageDue(t, delay, now) == t # nil => now >= nextStageTime(t, delay)

(* Variant of countElapsedDayBasedStages: a stage is not due at its instant. *)
CountStagesPast(base, now, dayStep) ==
  Cardinality({count \in 1 .. (now - base) \div DayLen + 3 :
    \A k \in 1 .. count : now > addLocalDaysAtTime(base, k * dayStep)})

(* The loop stops at the first stage that is not due: it counts the stages *)
(* all of whose predecessors are due as well.  Past the bound none is, for *)
(* a zone offset never moves by as much as two days.                       *)
countElapsedDayBasedStages(base, now, dayStep) ==
  Cardinality({count \in 1 .. (now - base) \div DayLen + 3 :
    \A k \in 1 .. count : now >= addLocalDaysAtTime(base, k * dayStep)})

remindersSent(checkinSentAt, now) ==
  IF ReminderInterval.dayBased
  THEN countElapsedDayBasedStages(checkinSentAt, now, ReminderInterval.n)
  ELSE IF now < checkinSentAt + ReminderInterval.n THEN 0
  ELSE (now - checkinSentAt) \div ReminderInterval.n

MonthOf(day) ==
  CHOOSE m \in 1 .. Len(MonthStart) - 1 :
    MonthStart[m] <= day /\ day < MonthStart[m + 1]

daysInMonth(m) == MonthStart[m + 1] - MonthStart[m]

(* Variant of monthlyCheckinTime: a day the month does not have is not     *)
(* clamped.                                                                *)
UnclampedCheckinTime(now) ==
  localDateTime(MonthStart[MonthOf(DayOf(now))] + CheckinDay - 1, SendTime)

monthlyCheckinTime(now) ==
  LET m == MonthOf(DayOf(now))
      day == IF CheckinDay > daysInMonth(m) THEN daysInMonth(m) ELSE CheckinDay
  IN localDateTime(MonthStart[m] + day - 1, SendTime)

(* Variant of shouldSendMonthlyCheckin: sending at the very instant does   *)
(* not count.                                                              *)
CheckinDueAgain(lastSent, now) ==
  LET current == monthlyCheckinTime(now)
  IN now >= current /\ (lastSent # nil => lastSent <= current)

shouldSendMonthlyCheckin(lastSent, now) ==
  LET current == monthlyCheckinTime(now)
  IN now >= current /\ (lastSent # nil => lastSent < current)

-----------------------------------------------------------------------------
(* What some of the proofs ask of a zone; Go's time package promises none  *)
(* of it, and most zones do all of it.                                     *)

(* No instant is on an earlier date than one before it, a wall clock time  *)
(* is found on its own day, and the send time of a later day is no         *)
(* earlier.  Zones that change their offset at midnight may fail it.       *)
DaysFollowIn(T, D) ==
  /\ \A t \in T : Offset(t) \in Int
  /\ \A s \in T, t \in T : s <= t => DayOf(s) <= DayOf(t)
  /\ \A wall \in T : DayOf(FromLocal(wall)) = wall \div DayLen
  /\ \A d \in D, e \in D :
       /\ localDateTime(d, SendTime) \in Int
       /\ d <= e => localDateTime(d, SendTime) <= localDateTime(e, SendTime)

(* A clock past the send time says that the day's has passed: false when   *)
(* the hour of the send time is repeated and time.Date gives its second.   *)
SendTimesPassIn(T) ==
  \A t \in T : Local(t) % DayLen > SendTime => t >= localDateTime(DayOf(t), SendTime)

(* A zone's offset never moves by as much as two days.                     *)
OffsetsAreCloseIn(T) ==
  \A s \in T, t \in T : Offset(t) - Offset(s) < 2 * DayLen
=============================================================================
