--------------------------- MODULE CalendarProofs ---------------------------
(***************************************************************************)
(* Proofs about Calendar for every zone that does what each of them asks   *)
(* of it, months of any length and every check-in day.                     *)
(***************************************************************************)
EXTENDS Calendar, TargetFlowProofs

(* The check-in time of a month: what monthlyCheckinTime says at every     *)
(* instant of it.                                                          *)
CheckinOf(m) ==
  localDateTime(MonthStart[m] + (IF CheckinDay > daysInMonth(m)
                                 THEN daysInMonth(m) ELSE CheckinDay) - 1,
                SendTime)

ClockInv ==
  /\ base \in Start .. Horizon /\ now \in base .. Horizon
  /\ lastSent # nil => lastSent \in Start .. now

(* A month has at most one check-in, and then not before its check-in time *)
(* was the last one sent.                                                  *)
OnceAMonth ==
  /\ sentIn \in [1 .. Len(MonthStart) -> {0, 1}]
  /\ \A m \in 1 .. Len(MonthStart) - 1 :
       sentIn[m] = 1 => lastSent # nil /\ CheckinOf(m) <= lastSent

(* The month of the last check-in has had one, and a tick past a month's   *)
(* check-in time leaves none to be sent.                                   *)
Served ==
  /\ lastSent # nil => sentIn[MonthOf(DayOf(lastSent))] = 1
  /\ ticked /\ now >= CheckinOf(Month) =>
       lastSent # nil /\ lastSent >= CheckinOf(Month)

CalendarInv == ClockInv /\ OnceAMonth /\ Served

(* Every instant the clock reaches is in one month.                        *)
LEMMA OneMonth ==
  ASSUME NEW t \in Start .. Horizon
  PROVE  LET m == MonthOf(DayOf(t))
         IN /\ m \in 1 .. Len(MonthStart) - 1
            /\ MonthStart[m] <= DayOf(t) /\ DayOf(t) < MonthStart[m + 1]
<1> DEFINE In(m) == MonthStart[m] <= DayOf(t) /\ DayOf(t) < MonthStart[m + 1]
<1>1. \E m \in 1 .. Len(MonthStart) - 1 : In(m)
  BY CalendarAssumption
<1>2. MonthOf(DayOf(t)) = CHOOSE m \in 1 .. Len(MonthStart) - 1 : In(m)
  BY DEF MonthOf
<1> HIDE DEF In
<1>3. MonthOf(DayOf(t)) \in 1 .. Len(MonthStart) - 1 /\ In(MonthOf(DayOf(t)))
  BY <1>1, <1>2
<1> QED
  BY <1>3 DEF In

LEMMA NoOtherMonth ==
  ASSUME NEW m \in 1 .. Len(MonthStart) - 1, NEW n \in 1 .. Len(MonthStart) - 1,
         NEW d \in Int, MonthStart[m] <= d, d < MonthStart[m + 1],
         MonthStart[n] <= d, d < MonthStart[n + 1]
  PROVE  m = n
<1>1. /\ m \in Int /\ n \in Int
      /\ \A i \in {m, m + 1, n, n + 1} : i \in DOMAIN MonthStart /\ MonthStart[i] \in Int
  BY CalendarAssumption
<1>2. \A i \in {m, n}, j \in {m, n} : i < j => MonthStart[i + 1] <= MonthStart[j]
  <2> SUFFICES ASSUME NEW i \in {m, n}, NEW j \in {m, n}, i < j
               PROVE  MonthStart[i + 1] <= MonthStart[j]
    OBVIOUS
  <2>1. /\ i \in Int /\ j \in Int /\ i + 1 \in DOMAIN MonthStart
        /\ j \in DOMAIN MonthStart
        /\ MonthStart[i + 1] \in Int /\ MonthStart[j] \in Int
    BY <1>1
  <2>2. CASE i + 1 = j
    BY <2>1, <2>2
  <2>3. CASE i + 1 # j
    <3>1. i + 1 < j
      BY <2>1, <2>3
    <3>2. MonthStart[i + 1] < MonthStart[j]
      BY <2>1, <3>1, CalendarAssumption
    <3> QED
      BY <2>1, <3>2
  <2> QED
    BY <2>2, <2>3
<1>3. ~ (m < n) /\ ~ (n < m)
  BY <1>1, <1>2
<1> QED
  BY <1>1, <1>3

(* The check-in day is a day of its month.                                 *)
LEMMA CheckinDayInMonth ==
  ASSUME NEW m \in 1 .. Len(MonthStart) - 1
  PROVE  \E d \in Int : /\ MonthStart[m] <= d /\ d < MonthStart[m + 1]
                        /\ CheckinOf(m) = localDateTime(d, SendTime)
<1> DEFINE n == daysInMonth(m)
           day == IF CheckinDay > n THEN n ELSE CheckinDay
<1>1. /\ MonthStart[m] \in Int /\ MonthStart[m + 1] \in Int
      /\ MonthStart[m] < MonthStart[m + 1]
      /\ CheckinDay \in Int /\ CheckinDay >= 1
  <2>1. MonthStart \in Seq(Int) /\ {m, m + 1} \subseteq DOMAIN MonthStart /\ m < m + 1
    BY CalendarAssumption
  <2> QED
    BY <2>1, CalendarAssumption, TargetFlowAssumption
<1>2. n = MonthStart[m + 1] - MonthStart[m]
  BY DEF daysInMonth
<1>3. /\ MonthStart[m] + day - 1 \in Int
      /\ MonthStart[m] <= MonthStart[m] + day - 1
      /\ MonthStart[m] + day - 1 < MonthStart[m + 1]
  <2> HIDE DEF n
  <2> QED
    BY <1>1, <1>2
<1>4. CheckinOf(m) = localDateTime(MonthStart[m] + day - 1, SendTime)
  BY DEF CheckinOf
<1> QED
  BY <1>3, <1>4

(* Offsets are numbers: then all times are.                                *)
OffsetsAreNumbers == \A t \in Int : Offset(t) \in Int

LEMMA CheckinIsATime ==
  ASSUME OffsetsAreNumbers, NEW m \in 1 .. Len(MonthStart) - 1
  PROVE  CheckinOf(m) \in Int
<1>1. PICK d \in Int : CheckinOf(m) = localDateTime(d, SendTime)
  BY CheckinDayInMonth
<1>2. d * DayLen + SendTime \in Int
  <2>1. d * DayLen \in Int /\ SendTime \in Int
    BY DivisionByDays, TargetFlowAssumption
  <2> QED
    BY <2>1
<1>3. \A wall \in Int : FromLocal(wall) \in Int
  BY DEF FromLocal, OffsetsAreNumbers
<1> QED
  BY <1>1, <1>2, <1>3 DEF localDateTime

LEMMA CheckinOfMonth ==
  ASSUME NEW t
  PROVE  monthlyCheckinTime(t) = CheckinOf(MonthOf(DayOf(t)))
BY DEF monthlyCheckinTime, CheckinOf

-----------------------------------------------------------------------------
(* The walk through the calendar.                                          *)

LEMMA CalendarBegins == Init => CalendarInv
<1> SUFFICES ASSUME Init PROVE CalendarInv
  OBVIOUS
<1>1. /\ base \in Start .. Horizon /\ now = base /\ lastSent = nil
      /\ sentIn = [m \in 1 .. Len(MonthStart) |-> 0] /\ ticked = FALSE
  BY DEF Init
<1>2. \A m \in 1 .. Len(MonthStart) - 1 : sentIn[m] = 0
  BY <1>1, CalendarAssumption
<1>3. ClockInv /\ OnceAMonth /\ Served
  BY <1>1, <1>2, CalendarAssumption DEF ClockInv, OnceAMonth, Served
<1> QED
  BY <1>3 DEF CalendarInv

LEMMA CalendarGoesOn ==
  ASSUME OffsetsAreNumbers, CalendarInv, [Next]_vars
  PROVE  CalendarInv'
<1>0. /\ Start \in Nat /\ Horizon \in Nat /\ nil \notin Nat
      /\ base \in Start .. Horizon /\ now \in base .. Horizon
      /\ now \in Start .. Horizon
      /\ lastSent # nil => lastSent \in Start .. now
  BY CalendarAssumption, StateStoreAssumption DEF CalendarInv, ClockInv
<1>1. CASE Clock
  <2>1. /\ now < Horizon /\ now' = now + 1 /\ ticked' = FALSE
        /\ UNCHANGED <<base, lastSent, sentIn>>
    BY <1>1 DEF Clock
  <2>2. ClockInv'
    BY <1>0, <2>1 DEF ClockInv
  <2> QED
    BY <2>1, <2>2 DEF CalendarInv, OnceAMonth, Served
<1>2. CASE Tick
  <2>1. UNCHANGED <<base, now>> /\ Month' = Month
    BY <1>2 DEF Tick, Month
  <2>2. /\ Month \in 1 .. Len(MonthStart) - 1
        /\ \A m \in 1 .. Len(MonthStart) - 1 : CheckinOf(m) \in Int
        /\ monthlyCheckinTime(now) = CheckinOf(Month)
    BY <1>0, OneMonth, CheckinIsATime, CheckinOfMonth DEF Month
  <2>3. CASE shouldSendMonthlyCheckin(lastSent, now)
    <3>1. /\ now >= CheckinOf(Month) /\ (lastSent # nil => lastSent < CheckinOf(Month))
          /\ lastSent' = now /\ sentIn' = [sentIn EXCEPT ![Month] = @ + 1]
      BY <1>2, <2>2, <2>3 DEF Tick, shouldSendMonthlyCheckin
    <3>2. sentIn[Month] = 0
      <4>1. sentIn[Month] # 1
        BY <1>0, <2>2, <3>1 DEF CalendarInv, OnceAMonth
      <4> QED
        BY <2>2, <4>1 DEF CalendarInv, OnceAMonth
    <3>3. /\ sentIn \in [1 .. Len(MonthStart) -> {0, 1}]
          /\ Month \in 1 .. Len(MonthStart)
          /\ sentIn' = [sentIn EXCEPT ![Month] = 1]
      BY <2>2, <3>1, <3>2, CalendarAssumption DEF CalendarInv, OnceAMonth
    <3>4. /\ sentIn' \in [1 .. Len(MonthStart) -> {0, 1}]
          /\ sentIn'[Month] = 1
          /\ \A m \in 1 .. Len(MonthStart) : m # Month => sentIn'[m] = sentIn[m]
      BY <3>3
    <3>5. ASSUME NEW m \in 1 .. Len(MonthStart) - 1, sentIn'[m] = 1
          PROVE  CheckinOf(m) <= now
      <4>1. CASE m = Month
        BY <1>0, <2>2, <3>1, <4>1
      <4>2. CASE m # Month
        <5>1. sentIn[m] = 1
          BY <3>4, <3>5, <4>2, CalendarAssumption
        <5>2. lastSent # nil /\ CheckinOf(m) <= lastSent
          BY <5>1 DEF CalendarInv, OnceAMonth
        <5> QED
          BY <1>0, <2>2, <5>2
      <4> QED
        BY <4>1, <4>2
    <3>6. now # nil /\ now \in Start .. now
      BY <1>0
    <3>7. ClockInv'
      BY <1>0, <2>1, <3>1, <3>6 DEF ClockInv
    <3>8. OnceAMonth'
      BY <3>1, <3>4, <3>5, <3>6 DEF OnceAMonth, CheckinOf, daysInMonth
    <3>9. Served'
      BY <2>1, <3>1, <3>4, <3>6 DEF Served, Month
    <3> QED
      BY <3>7, <3>8, <3>9 DEF CalendarInv
  <2>4. CASE ~ shouldSendMonthlyCheckin(lastSent, now)
    <3>1. UNCHANGED <<lastSent, sentIn>>
      BY <1>2, <2>4 DEF Tick
    <3>2. now >= CheckinOf(Month) => lastSent # nil /\ lastSent >= CheckinOf(Month)
      BY <1>0, <2>2, <2>4 DEF shouldSendMonthlyCheckin
    <3>3. ClockInv' /\ OnceAMonth' /\ Served'
      BY <2>1, <3>1, <3>2 DEF CalendarInv, ClockInv, OnceAMonth, Served
    <3> QED
      BY <3>3 DEF CalendarInv
  <2> QED
    BY <2>3, <2>4
<1>3. CASE UNCHANGED vars
  <2>1. UNCHANGED <<base, now, lastSent, sentIn, ticked>> /\ Month' = Month
    BY <1>3 DEF vars, Month
  <2> QED
    BY <2>1 DEF CalendarInv, ClockInv, OnceAMonth, Served
<1> QED
  BY <1>1, <1>2, <1>3 DEF Next

LEMMA AlwaysCalendarInv ==
  ASSUME OffsetsAreNumbers
  PROVE  Spec => []CalendarInv
BY CalendarBegins, CalendarGoesOn, PTL DEF Spec

(* No month sees two check-ins, in any zone, whatever the months' lengths  *)
(* and however often the process is down (shouldSendMonthlyCheckin): the   *)
(* check-in time is the same at every instant of a month.                  *)
THEOREM OneCheckinAMonth ==
  ASSUME OffsetsAreNumbers
  PROVE  Spec => []OneCheckinPerMonth
<1>1. CalendarInv => OneCheckinPerMonth
  <2> SUFFICES ASSUME CalendarInv, NEW m \in DOMAIN sentIn PROVE sentIn[m] <= 1
    BY DEF OneCheckinPerMonth
  <2>1. sentIn[m] \in {0, 1}
    BY DEF CalendarInv, OnceAMonth
  <2> QED
    BY <2>1
<1> QED
  BY <1>1, AlwaysCalendarInv, PTL

(* When the last day of a month is past the send time a tick has sent the  *)
(* month's check-in, even when the month does not have the day it is       *)
(* configured for (monthlyCheckinTime), in every zone whose days follow    *)
(* each other and whose clock passes the send time once.                   *)
THEOREM MonthsAreServed ==
  ASSUME DaysFollow, SendTimesPass
  PROVE  Spec => []EveryMonthServed
<1>0. OffsetsAreNumbers
  BY DEF DaysFollow, DaysFollowIn, OffsetsAreNumbers
<1>1. CalendarInv => EveryMonthServed
  <2> SUFFICES ASSUME CalendarInv, ticked,
                      DayOf(now) = MonthStart[Month + 1] - 1,
                      Local(now) % DayLen > SendTime
               PROVE  sentIn[Month] = 1
    BY DEF EveryMonthServed
  <2>1. /\ now \in Start .. Horizon /\ now \in Int
        /\ lastSent # nil => lastSent \in Start .. Horizon /\ lastSent <= now
    BY CalendarAssumption DEF CalendarInv, ClockInv
  <2>2. /\ Month \in 1 .. Len(MonthStart) - 1 /\ MonthStart[Month] <= DayOf(now)
        /\ DayOf(now) \in Int
    BY <2>1, OneMonth, DayReached DEF Month
  <2>3. PICK d \in Int : /\ MonthStart[Month] <= d /\ d < MonthStart[Month + 1]
                         /\ CheckinOf(Month) = localDateTime(d, SendTime)
    BY <2>2, CheckinDayInMonth
  <2>4. MonthStart[Month] \in Int /\ MonthStart[Month + 1] \in Int
    BY <2>2, CalendarAssumption
  <2>5. d <= DayOf(now)
    BY <2>2, <2>3, <2>4
  <2>6. /\ CheckinOf(Month) \in Int /\ DayOf(CheckinOf(Month)) = d
        /\ CheckinOf(Month) <= localDateTime(DayOf(now), SendTime)
        /\ localDateTime(DayOf(now), SendTime) \in Int
    BY <2>2, <2>3, <2>5, SendTimeOnItsDay DEF DaysFollow, DaysFollowIn
  <2>7. now >= CheckinOf(Month)
    <3>1. now >= localDateTime(DayOf(now), SendTime)
      BY <2>1 DEF SendTimesPass, SendTimesPassIn
    <3> QED
      BY <2>1, <2>6, <3>1
  <2>8. lastSent # nil /\ lastSent >= CheckinOf(Month)
    BY <2>7 DEF CalendarInv, Served
  <2>9. /\ lastSent \in Start .. Horizon /\ lastSent \in Int /\ DayOf(lastSent) \in Int
        /\ d <= DayOf(lastSent) /\ DayOf(lastSent) <= DayOf(now)
    <3>1. lastSent \in Start .. Horizon /\ lastSent \in Int /\ lastSent <= now
      BY <2>1, <2>8, CalendarAssumption
    <3>2. DayOf(lastSent) \in Int
      BY <3>1, DayReached
    <3>3. DayOf(CheckinOf(Month)) <= DayOf(lastSent) /\ DayOf(lastSent) <= DayOf(now)
      BY <2>1, <2>6, <2>8, <3>1 DEF DaysFollow, DaysFollowIn
    <3> QED
      BY <2>6, <3>1, <3>2, <3>3
  <2>10. MonthOf(DayOf(lastSent)) = Month
    <3> DEFINE n == MonthOf(DayOf(lastSent))
    <3>1. /\ n \in 1 .. Len(MonthStart) - 1
          /\ MonthStart[n] <= DayOf(lastSent) /\ DayOf(lastSent) < MonthStart[n + 1]
      BY <2>9, OneMonth
    <3>2. /\ MonthStart[Month] <= DayOf(lastSent)
          /\ DayOf(lastSent) < MonthStart[Month + 1]
      BY <2>2, <2>3, <2>4, <2>9
    <3> HIDE DEF n
    <3>3. n = Month
      BY <2>2, <2>9, <3>1, <3>2, NoOtherMonth
    <3> QED
      BY <3>3 DEF n
  <2> QED
    BY <2>8, <2>10 DEF CalendarInv, Served
<1> QED
  BY <1>0, <1>1, AlwaysCalendarInv, PTL

LEMMA AlwaysClockInv == Spec => []ClockInv
<1>1. Init => ClockInv
  BY CalendarAssumption DEF Init, ClockInv
<1>2. ClockInv /\ [Next]_vars => ClockInv'
  <2> SUFFICES ASSUME ClockInv, [Next]_vars PROVE ClockInv'
    OBVIOUS
  <2>1. /\ base \in Int /\ now \in Int /\ Horizon \in Int /\ Start \in Int
        /\ Start <= base /\ base <= now /\ now <= Horizon
        /\ lastSent # nil => lastSent \in Start .. now
    BY CalendarAssumption DEF ClockInv
  <2>2. /\ base' = base
        /\ now' = now \/ (now < Horizon /\ now' = now + 1)
        /\ lastSent' = lastSent \/ (lastSent' = now /\ now' = now)
    BY DEF Next, Clock, Tick, vars
  <2> QED
    BY <2>1, <2>2 DEF ClockInv
<1> QED
  BY <1>1, <1>2, PTL DEF Spec

(* What "ifgonectl dry-run" announces is when a tick sends, in any zone:   *)
(* its calendar is a copy (dueAt, stageDue).                               *)
THEOREM DryRunAgrees == Spec => []DryRunIsRight
<1>1. ClockInv => DryRunIsRight
  <2> SUFFICES ASSUME ClockInv,
                      NEW delay \in {Days(n) : n \in 1 .. 3} \cup {Exact(n) : n \in 1 .. 3}
               PROVE  now >= dueAt(base, delay) <=> stageDue(base, delay, now)
    BY DEF DryRunIsRight
  <2>1. base # nil
    BY CalendarAssumption, StateStoreAssumption DEF ClockInv
  <2>2. dueAt(base, delay) = nextStageTime(base, delay)
    BY DEF dueAt, nextStageTime, addLocalDaysAtTime, localDateTime
  <2> QED
    BY <2>1, <2>2 DEF stageDue
<1> QED
  BY <1>1, AlwaysClockInv, PTL

(* A delay in days ends after the instant it is counted from, at the send  *)
(* time of the day so many days later (addLocalDaysAtTime), in every zone  *)
(* whose days follow each other.                                           *)
THEOREM DelaysLandOnTheirDay ==
  ASSUME DaysFollow
  PROVE  Spec => []DelayLandsOnItsDay
<1>1. ClockInv => DelayLandsOnItsDay
  <2> SUFFICES ASSUME ClockInv, NEW n \in 1 .. 3
               PROVE  LET due == nextStageTime(base, Days(n))
                      IN due > base /\ DayOf(due) = DayOf(base) + Days(n).n
    BY DEF DelayLandsOnItsDay
  <2> DEFINE due == addLocalDaysAtTime(base, n)
  <2>1. base \in Int /\ n \in Int /\ n > 0
    BY CalendarAssumption DEF ClockInv
  <2>2. /\ DayOf(base) \in Int /\ DayOf(base) + n \in Int
        /\ due = localDateTime(DayOf(base) + n, SendTime)
    BY <2>1, DayReached
  <2>3. due \in Int /\ DayOf(due) = DayOf(base) + n
    BY <2>2, SendTimeOnItsDay
  <2> HIDE DEF due
  <2>4. due > base
    <3>1. ~ (DayOf(due) <= DayOf(base))
      BY <2>1, <2>2, <2>3
    <3>2. ~ (due <= base)
      BY <2>1, <2>3, <3>1 DEF DaysFollow, DaysFollowIn
    <3> QED
      BY <2>1, <2>3, <3>2
  <2>5. nextStageTime(base, Days(n)) = due /\ Days(n).n = n
    BY DEF nextStageTime, Days, due
  <2> QED
    BY <2>3, <2>4, <2>5
<1> QED
  BY <1>1, AlwaysClockInv, PTL

-----------------------------------------------------------------------------
(* Reminders.                                                              *)

LEMMA Multiples ==
  ASSUME NEW n \in Nat \ {0}
  PROVE  /\ \A k \in Int : k * n \in Int
         /\ \A j \in Nat, k \in Nat : j <= k => j * n <= k * n
         /\ \A k \in Nat : k <= k * n
OBVIOUS

(* The days between two instants are bounded by the time between them,     *)
(* which is why the loop of countElapsedDayBasedStages ends where the      *)
(* model's does.                                                           *)
LEMMA DaysBetween ==
  ASSUME OffsetsAreNumbers, OffsetsAreClose, NEW s \in Int, NEW t \in Int, s <= t
  PROVE  /\ DayOf(s) \in Int /\ DayOf(t) \in Int
         /\ (t - s) \div DayLen \in Int
         /\ DayOf(t) - DayOf(s) <= (t - s) \div DayLen + 3
<1>0. DayLen \in Nat \ {0}
  BY TargetFlowAssumption
<1> DEFINE a == Local(s)  b == Local(t)  x == t - s  q == x \div DayLen
<1>1. /\ a \in Int /\ b \in Int /\ x \in Int /\ b < a + x + 2 * DayLen
      /\ DayOf(s) = a \div DayLen /\ DayOf(t) = b \div DayLen
  <2>1. Offset(s) \in Int /\ Offset(t) \in Int /\ Offset(t) - Offset(s) < 2 * DayLen
    BY DEF OffsetsAreNumbers, OffsetsAreClose, OffsetsAreCloseIn
  <2> QED
    BY <1>0, <2>1 DEF Local, DayOf
<1> HIDE DEF a, b
<1>2. q \in Int /\ q * DayLen \in Int /\ x <= (q + 1) * DayLen
  <2> HIDE DEF x
  <2>1. q \in Int /\ q * DayLen \in Int
    BY <1>1, DivisionByDays
  <2> QED
    BY <1>0, <1>1, <2>1
<1> HIDE DEF x, q
<1> DEFINE c == q + 3
<1>3. c \in Int /\ c * DayLen \in Int /\ b <= a + c * DayLen
  <2>1. c * DayLen = (q + 1) * DayLen + 2 * DayLen /\ c * DayLen \in Int
    BY <1>0, <1>2
  <2>2. (q + 1) * DayLen \in Int
    BY <1>2, DivisionByDays
  <2> DEFINE y == (q + 1) * DayLen  z == c * DayLen
  <2>3. y \in Int /\ z \in Int /\ z = y + 2 * DayLen /\ x <= y
    BY <1>2, <2>1, <2>2
  <2> HIDE DEF y, z, c
  <2>4. b <= a + z
    BY <1>0, <1>1, <2>3
  <2> QED
    BY <1>2, <2>3, <2>4 DEF z, c
<1> HIDE DEF c
<1>4. b \div DayLen <= (a + c * DayLen) \div DayLen
  <2>1. a + c * DayLen \in Int
    BY <1>1, <1>3
  <2> QED
    BY <1>1, <1>3, <2>1, DivisionByDays
<1>5. (a + c * DayLen) \div DayLen = a \div DayLen + c
  BY <1>1, <1>3, DivisionByDays
<1>6. a \div DayLen \in Int /\ b \div DayLen \in Int
  BY <1>1, DivisionByDays
<1>7. DayOf(t) <= DayOf(s) + c
  BY <1>1, <1>4, <1>5
<1>8. DayOf(t) - DayOf(s) <= c
  BY <1>1, <1>3, <1>6, <1>7
<1> QED
  BY <1>1, <1>2, <1>6, <1>8 DEF c, q, x

(* The reminders due are the send times passed on the days the interval    *)
(* designates (countElapsedDayBasedStages): the loop, which stops at the   *)
(* first that has not passed, misses none of them, in every zone whose     *)
(* days follow each other.                                                 *)
THEOREM RemindersAreCounted ==
  ASSUME DaysFollow, OffsetsAreClose
  PROVE  Spec => []RemindersAreSendTimesPassed
<1>0. OffsetsAreNumbers
  BY DEF DaysFollow, DaysFollowIn, OffsetsAreNumbers
<1>1. ClockInv => RemindersAreSendTimesPassed
  <2> SUFFICES ASSUME ClockInv, ReminderInterval.dayBased
               PROVE  remindersSent(base, now) =
                        Cardinality({k \in 1 .. DayOf(now) - DayOf(base) :
                          now >= localDateTime(DayOf(base) + k * ReminderInterval.n,
                                               SendTime)})
    BY DEF RemindersAreSendTimesPassed
  <2> DEFINE n == ReminderInterval.n
             At(k) == localDateTime(DayOf(base) + k * n, SendTime)
             most == (now - base) \div DayLen + 3
             Counted == {count \in 1 .. most :
               \A k \in 1 .. count : now >= addLocalDaysAtTime(base, k * n)}
             Passed == {k \in 1 .. DayOf(now) - DayOf(base) : now >= At(k)}
  <2>1. /\ n \in Nat \ {0} /\ base \in Int /\ now \in Int /\ base <= now
    BY CalendarAssumption, TargetFlowAssumption DEF ClockInv, Duration
  <2>2. /\ DayOf(base) \in Int /\ DayOf(now) \in Int /\ most \in Int
        /\ DayOf(now) - DayOf(base) <= most
    BY <1>0, <2>1, DaysBetween
  <2> HIDE DEF n, most
  <2>3. ASSUME NEW k \in Nat
        PROVE  /\ k * n \in Int /\ k <= k * n
               /\ addLocalDaysAtTime(base, k * n) = At(k)
               /\ At(k) \in Int /\ DayOf(At(k)) = DayOf(base) + k * n
    <3>1. k * n \in Int /\ k <= k * n
      BY <2>1, Multiples
    <3> DEFINE m == k * n
    <3> HIDE DEF m
    <3>2. m \in Int
      BY <3>1 DEF m
    <3>3. /\ DayOf(base) + m \in Int
          /\ addLocalDaysAtTime(base, m) = localDateTime(DayOf(base) + m, SendTime)
      BY <2>1, <3>2, DayReached
    <3>4. /\ localDateTime(DayOf(base) + m, SendTime) \in Int
          /\ DayOf(localDateTime(DayOf(base) + m, SendTime)) = DayOf(base) + m
      BY <3>3, SendTimeOnItsDay
    <3> QED
      BY <3>1, <3>3, <3>4 DEF m
  <2>4. ASSUME NEW j \in Nat, NEW k \in Nat, j <= k
        PROVE  At(j) <= At(k)
    <3>1. j * n \in Int /\ k * n \in Int /\ j * n <= k * n
      BY <2>1, <2>4, Multiples
    <3> DEFINE d == DayOf(base) + j * n  e == DayOf(base) + k * n
    <3>2. d \in Int /\ e \in Int /\ d <= e
      BY <2>2, <3>1
    <3> HIDE DEF d, e
    <3>3. localDateTime(d, SendTime) <= localDateTime(e, SendTime)
      BY <3>2 DEF DaysFollow, DaysFollowIn
    <3> QED
      BY <3>3 DEF d, e
  <2>5. ASSUME NEW k \in Nat, now >= At(k)
        PROVE  k <= DayOf(now) - DayOf(base)
    <3> HIDE DEF At
    <3>1. DayOf(At(k)) <= DayOf(now) /\ k * n \in Int /\ k <= k * n
      BY <2>1, <2>3, <2>5 DEF DaysFollow, DaysFollowIn
    <3> DEFINE m == k * n
    <3>2. m \in Int /\ k <= m /\ DayOf(base) + m <= DayOf(now)
      BY <2>3, <3>1
    <3> HIDE DEF m
    <3> QED
      BY <2>2, <3>2
  <2> HIDE DEF At
  <2>6. Counted \subseteq Passed
    <3> SUFFICES ASSUME NEW c \in Counted PROVE c \in Passed
      OBVIOUS
    <3>1. c \in Nat /\ c \in 1 .. c /\ now >= addLocalDaysAtTime(base, c * n)
      BY <2>2
    <3>2. now >= At(c)
      BY <2>3, <3>1
    <3> QED
      BY <2>2, <2>5, <3>1, <3>2
  <2>7. Passed \subseteq Counted
    <3> SUFFICES ASSUME NEW c \in Passed PROVE c \in Counted
      OBVIOUS
    <3>1. c \in Nat /\ c \in 1 .. most /\ now >= At(c)
      BY <2>2
    <3>2. ASSUME NEW k \in 1 .. c PROVE now >= addLocalDaysAtTime(base, k * n)
      <4>1. k \in Nat /\ k <= c
        BY <3>1
      <4>2. At(k) <= At(c) /\ At(k) \in Int /\ At(c) \in Int
        BY <2>3, <2>4, <3>1, <4>1
      <4>3. now >= At(k)
        BY <2>1, <3>1, <4>2
      <4> QED
        BY <2>3, <4>1, <4>3
    <3> QED
      BY <3>1, <3>2
  <2>8. remindersSent(base, now) = Cardinality(Counted)
    BY DEF remindersSent, countElapsedDayBasedStages, n, most
  <2>9. Counted = Passed
    BY <2>6, <2>7
  <2> QED
    BY <2>8, <2>9 DEF At, n
<1> QED
  BY <1>1, AlwaysClockInv, PTL

(* Zones that keep their offset do all that was asked of a zone: there the *)
(* calendar is right for every check-in day, send time and delay in days   *)
(* (monthlyCheckinTime, addLocalDaysAtTime, countElapsedDayBasedStages).   *)
THEOREM CalendarOfSteadyZone ==
  ASSUME NEW k \in Int, \A t \in Int : Offset(t) = k
  PROVE  Spec => []( /\ EveryMonthServed /\ DelayLandsOnItsDay
                     /\ RemindersAreSendTimesPassed)
<1>1. DaysFollow /\ SendTimesPass /\ OffsetsAreClose
  BY SteadyZoneFollows, SteadyZonePasses
<1> QED
  BY <1>1, MonthsAreServed, DelaysLandOnTheirDay, RemindersAreCounted, PTL
=============================================================================
