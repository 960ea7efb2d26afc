------------------------------ MODULE Calendar ------------------------------
(***************************************************************************)
(* The check-in branch of the ticks of a living owner, who confirms every  *)
(* check-in, over a stretch of the calendar: the clock moves on, the       *)
(* process runs at some instants and is down at others.  Beside it an      *)
(* instant from which delays and reminders are counted, for the functions  *)
(* of TargetFlow to be held against what they mean.                        *)
(***************************************************************************)
EXTENDS TargetFlow

CONSTANTS
  Start,   \* the first
  Horizon  \* and the last instant the clock reaches

(* The months are the calendar's, and cover the stretch.                   *)
ASSUME CalendarAssumption ==
  /\ Start \in Nat /\ Horizon \in Nat
  /\ MonthStart \in Seq(Int)
  /\ \A i, j \in DOMAIN MonthStart : i < j => MonthStart[i] < MonthStart[j]
  /\ \A t \in Start .. Horizon : \E m \in 1 .. Len(MonthStart) - 1 :
       MonthStart[m] <= DayOf(t) /\ DayOf(t) < MonthStart[m + 1]

Days(n) == [dayBased |-> TRUE, n |-> n]
Exact(n) == [dayBased |-> FALSE, n |-> n]

VARIABLES
  base,    \* when the check-in, or the mail stage waited on, was recorded
  now,
  lastSent,\* last_checkin_sent_at of an owner who confirms every check-in
  sentIn,  \* how many check-ins each month has seen
  ticked   \* a tick has run at this instant

vars == <<base, now, lastSent, sentIn, ticked>>

Month == MonthOf(DayOf(now))

Init ==
  /\ base \in Start .. Horizon
  /\ now = base
  /\ lastSent = nil
  /\ sentIn = [m \in 1 .. Len(MonthStart) |-> 0]
  /\ ticked = FALSE

(* Time passes; without a Tick in between the process was down.            *)
Clock ==
  /\ now < Horizon
  /\ now' = now + 1
  /\ ticked' = FALSE
  /\ UNCHANGED <<base, lastSent, sentIn>>

(* The check-in branch of a tick.                                          *)
Tick ==
  /\ ~ticked
  /\ ticked' = TRUE
  /\ IF shouldSendMonthlyCheckin(lastSent, now)
     THEN lastSent' = now /\ sentIn' = [sentIn EXCEPT ![Month] = @ + 1]
     ELSE UNCHANGED <<lastSent, sentIn>>
  /\ UNCHANGED <<base, now>>

Next == Clock \/ Tick
Spec == Init /\ [][Next]_vars

-----------------------------------------------------------------------------
(* A day-based delay falls after the instant it starts from, on the local  *)
(* date so many days later, whatever zone transition lies in between       *)
(* (addLocalDaysAtTime).                                                   *)
DelayLandsOnItsDay ==
  \A delay \in {Days(n) : n \in 1 .. 3} :
    LET due == nextStageTime(base, delay)
    IN due > base /\ DayOf(due) = DayOf(base) + delay.n

(* The instant "ifgonectl dry-run" announces for the next mails (dueAt) is *)
(* the one from which a tick sends them (stageDue), though the command has *)
(* a calendar of its own.                                                  *)
DryRunIsRight ==
  \A delay \in {Days(n) : n \in 1 .. 3} \cup {Exact(n) : n \in 1 .. 3} :
    now >= dueAt(base, delay) <=> stageDue(base, delay, now)

(* The number of reminders due is the number of send times that have       *)
(* passed on the days the interval designates, counted by definition       *)
(* rather than by the loop of countElapsedDayBasedStages.                  *)
RemindersAreSendTimesPassed ==
  ReminderInterval.dayBased =>
    remindersSent(base, now) =
      Cardinality({k \in 1 .. DayOf(now) - DayOf(base) :
        now >= localDateTime(DayOf(base) + k * ReminderInterval.n, SendTime)})

(* A month never sees two check-ins, though the same test is evaluated at  *)
(* every tick of the month (shouldSendMonthlyCheckin).                     *)
OneCheckinPerMonth == \A m \in DOMAIN sentIn : sentIn[m] <= 1

(* Once a tick has run on the last day of a month past the send time, the  *)
(* month has had its check-in, even when checkin_day_of_month is a day the *)
(* month does not have (monthlyCheckinTime clamps it).                     *)
EveryMonthServed ==
  /\ ticked
  /\ DayOf(now) = MonthStart[Month + 1] - 1
  /\ Local(now) % DayLen > SendTime
  => sentIn[Month] = 1

(* README.md:25 of the repository: after an outage a single tick makes up  *)
(* for what was missed.  After a tick, the latest check-in that fell due   *)
(* since the clock started has been sent.                                  *)
OutageIsMadeUp ==
  ticked =>
    \A t \in base .. now :
      monthlyCheckinTime(t) \in base .. now =>
        lastSent # nil /\ lastSent >= monthlyCheckinTime(t)
=============================================================================
