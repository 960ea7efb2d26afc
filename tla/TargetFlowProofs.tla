-------------------------- MODULE TargetFlowProofs --------------------------
(***************************************************************************)
(* The functions of TargetFlow, for any calendar: what a zone must do for  *)
(* days to be counted, and lemmas about the times of later days.           *)
(***************************************************************************)
EXTENDS TargetFlow, FiniteSetTheorems, TLAPS

(* A stage that was reached later is due no earlier.                       *)
KeepsOrder(delay) ==
  \A s \in Instant, t \in Instant :
    /\ nextStageTime(s, delay) \in Int
    /\ s <= t => nextStageTime(s, delay) <= nextStageTime(t, delay)

(* The assumptions on zones, at every instant there is.                    *)
DaysFollow == DaysFollowIn(Int, Int)
SendTimesPass == SendTimesPassIn(Int)
OffsetsAreClose == OffsetsAreCloseIn(Int)

(* Exact delays keep the order in any zone.                                *)
LEMMA ExactDelaysKeepOrder ==
  ASSUME NEW delay \in Duration, ~delay.dayBased
  PROVE  KeepsOrder(delay)
BY DEF KeepsOrder, nextStageTime, Duration, Instant

(* The quotient by the length of a day grows with the dividend, and a day  *)
(* more is one more.                                                       *)
LEMMA DivisionByDays ==
  ASSUME NEW a \in Int
  PROVE  /\ a \div DayLen \in Int
         /\ \A b \in Int : a <= b => a \div DayLen <= b \div DayLen
         /\ \A n \in Int : (a + n * DayLen) \div DayLen = a \div DayLen + n
         /\ \A n \in Int : n * DayLen \in Int
         /\ \A n \in Int : a <= n => a * DayLen <= n * DayLen
<1>0. DayLen \in Nat \ {0}
  BY TargetFlowAssumption
<1>1. a \div DayLen \in Int
  BY <1>0
<1>2. \A b \in Int : a <= b => a \div DayLen <= b \div DayLen
  BY <1>0
<1>3. \A n \in Int : (a + n * DayLen) \div DayLen = a \div DayLen + n
  BY <1>0
<1>4. \A n \in Int : a <= n => a * DayLen <= n * DayLen
  BY <1>0
<1> QED
  BY <1>0, <1>1, <1>2, <1>3, <1>4

(* The send time of a day is on that day.                                  *)
LEMMA SendTimeOnItsDay ==
  ASSUME DaysFollow, NEW d \in Int
  PROVE  /\ localDateTime(d, SendTime) \in Int
         /\ DayOf(localDateTime(d, SendTime)) = d
<1>0. DayLen \in Nat \ {0} /\ SendTime \in 0 .. DayLen - 1
  BY TargetFlowAssumption
<1> DEFINE wall == d * DayLen + SendTime
<1>1. wall \in Int
  <2>1. d * DayLen \in Int
    BY DivisionByDays
  <2> QED
    BY <1>0, <2>1
<1>2. wall \div DayLen = d
  <2>1. SendTime \in Int /\ SendTime \div DayLen = 0
    BY <1>0
  <2>2. (SendTime + d * DayLen) \div DayLen = SendTime \div DayLen + d
    BY <2>1, DivisionByDays
  <2>3. d * DayLen \in Int
    BY DivisionByDays
  <2>4. wall = SendTime + d * DayLen
    BY <2>1, <2>3
  <2> QED
    BY <2>1, <2>2, <2>4
<1>3. DayOf(FromLocal(wall)) = d
  BY <1>1, <1>2 DEF DaysFollow, DaysFollowIn
<1> QED
  BY <1>3 DEF localDateTime, DaysFollow, DaysFollowIn

(* Days counted from an instant lead to the send time of the day so many   *)
(* days after the instant's.                                               *)
LEMMA DayReached ==
  ASSUME DaysFollow, NEW s \in Int, NEW n \in Int
  PROVE  /\ DayOf(s) \in Int /\ DayOf(s) + n \in Int
         /\ addLocalDaysAtTime(s, n) = localDateTime(DayOf(s) + n, SendTime)
<1>0. DayLen \in Nat \ {0}
  BY TargetFlowAssumption
<1> DEFINE wall == Local(s)
<1>1. wall \in Int /\ DayOf(s) = wall \div DayLen
  BY DEF DaysFollow, DaysFollowIn, Local, DayOf
<1> HIDE DEF wall
<1>2. /\ wall \div DayLen \in Int /\ n * DayLen \in Int
      /\ (wall + n * DayLen) \div DayLen = wall \div DayLen + n
  BY <1>1, DivisionByDays
<1>3. DayOf(FromLocal(wall + n * DayLen)) = DayOf(s) + n
  <2>1. wall + n * DayLen \in Int
    BY <1>1, <1>2
  <2> QED
    BY <1>1, <1>2, <2>1 DEF DaysFollow, DaysFollowIn
<1> QED
  BY <1>1, <1>2, <1>3 DEF addLocalDaysAtTime, wall

(* So do delays in days where the days follow each other: the day reached  *)
(* is the one delay.n after the day of the base.                           *)
LEMMA DayDelaysKeepOrder ==
  ASSUME DaysFollow, NEW delay \in Duration, delay.dayBased
  PROVE  KeepsOrder(delay)
<1>0. delay.n \in Int
  BY DEF Duration
<1>1. ASSUME NEW s \in Instant
      PROVE  /\ s \in Int /\ DayOf(s) \in Int /\ DayOf(s) + delay.n \in Int
             /\ nextStageTime(s, delay) = localDateTime(DayOf(s) + delay.n, SendTime)
  <2> DEFINE n == delay.n
  <2>1. s \in Int /\ n \in Int /\ nextStageTime(s, delay) = addLocalDaysAtTime(s, n)
    BY <1>0 DEF nextStageTime, Instant
  <2> HIDE DEF n
  <2>2. /\ DayOf(s) \in Int /\ DayOf(s) + n \in Int
        /\ addLocalDaysAtTime(s, n) = localDateTime(DayOf(s) + n, SendTime)
    BY <2>1, DayReached
  <2> QED
    BY <2>1, <2>2 DEF n
<1>2. ASSUME NEW s \in Instant, NEW t \in Instant, s <= t
      PROVE  DayOf(s) + delay.n <= DayOf(t) + delay.n
  BY <1>0, <1>1, <1>2 DEF DaysFollow, DaysFollowIn
<1> QED
  BY <1>1, <1>2 DEF KeepsOrder, DaysFollow, DaysFollowIn

(* Days follow each other in every zone that keeps its offset.             *)
LEMMA SteadyZoneFollows ==
  ASSUME NEW k \in Int, \A t \in Int : Offset(t) = k
  PROVE  DaysFollow
<1>0. DayLen \in Nat \ {0} /\ SendTime \in Int
  BY TargetFlowAssumption
<1>1. \A wall \in Int : FromLocal(wall) = wall - k
  BY DEF FromLocal
<1>2. \A t \in Int : DayOf(t) = (t + k) \div DayLen
  BY DEF DayOf, Local
<1>3. \A s \in Int, t \in Int : s <= t => DayOf(s) <= DayOf(t)
  <2> SUFFICES ASSUME NEW s \in Int, NEW t \in Int, s <= t
               PROVE  DayOf(s) <= DayOf(t)
    OBVIOUS
  <2>1. s + k \in Int /\ t + k \in Int /\ s + k <= t + k
    OBVIOUS
  <2>2. (s + k) \div DayLen <= (t + k) \div DayLen
    BY <2>1, DivisionByDays
  <2> QED
    BY <1>2, <2>2
<1>4. \A wall \in Int : DayOf(FromLocal(wall)) = wall \div DayLen
  <2> SUFFICES ASSUME NEW wall \in Int
               PROVE  DayOf(FromLocal(wall)) = wall \div DayLen
    OBVIOUS
  <2>1. wall - k \in Int /\ wall - k + k = wall
    OBVIOUS
  <2> QED
    BY <1>1, <1>2, <2>1
<1>5. ASSUME NEW d \in Int, NEW e \in Int
      PROVE  /\ localDateTime(d, SendTime) \in Int
             /\ d <= e => localDateTime(d, SendTime) <= localDateTime(e, SendTime)
  <2>1. /\ d * DayLen \in Int /\ e * DayLen \in Int
        /\ d <= e => d * DayLen <= e * DayLen
    BY DivisionByDays
  <2>2. /\ localDateTime(d, SendTime) = d * DayLen + SendTime - k
        /\ localDateTime(e, SendTime) = e * DayLen + SendTime - k
    BY <1>0, <1>1, <2>1 DEF localDateTime
  <2> QED
    BY <1>0, <2>1, <2>2
<1>6. \A t \in Int : Offset(t) \in Int
  OBVIOUS
<1> QED
  BY <1>3, <1>4, <1>5, <1>6 DEF DaysFollow, DaysFollowIn

(* In such a zone a clock past the send time says that the day's has       *)
(* passed, and offsets are close.                                          *)
LEMMA SteadyZonePasses ==
  ASSUME NEW k \in Int, \A t \in Int : Offset(t) = k
  PROVE  SendTimesPass /\ OffsetsAreClose
<1>0. DayLen \in Nat \ {0} /\ SendTime \in Int
  BY TargetFlowAssumption
<1>1. \A wall \in Int : FromLocal(wall) = wall - k
  BY DEF FromLocal
<1>2. \A d \in Int : localDateTime(d, SendTime) = d * DayLen + SendTime - k
  <2> SUFFICES ASSUME NEW d \in Int
               PROVE  localDateTime(d, SendTime) = d * DayLen + SendTime - k
    OBVIOUS
  <2>1. d * DayLen \in Int
    BY DivisionByDays
  <2> QED
    BY <1>0, <1>1, <2>1 DEF localDateTime
<1>3. ASSUME NEW t \in Int, Local(t) % DayLen > SendTime
      PROVE  t >= localDateTime(DayOf(t), SendTime)
  <2> DEFINE wall == t + k  q == wall \div DayLen  r == wall % DayLen
  <2>1. wall \in Int /\ Local(t) = wall /\ DayOf(t) = q
    BY DEF DayOf, Local
  <2>2. q \in Int /\ r \in Int /\ wall = q * DayLen + r /\ q * DayLen \in Int
    <3> HIDE DEF wall
    <3>1. q \in Int /\ r \in Int /\ wall = q * DayLen + r
      BY <1>0, <2>1
    <3> QED
      BY <3>1, DivisionByDays
  <2>3. r > SendTime
    BY <1>3, <2>1
  <2>4. localDateTime(DayOf(t), SendTime) = q * DayLen + SendTime - k
    <3> HIDE DEF q
    <3> QED
      BY <1>2, <2>1, <2>2
  <2> DEFINE day == q * DayLen
  <2>5. t = day + r - k
    <3> HIDE DEF day, r
    <3>1. t = wall - k
      OBVIOUS
    <3> HIDE DEF wall
    <3> QED
      BY <2>2, <3>1 DEF day
  <2> HIDE DEF day, r
  <2>6. day \in Int /\ r \in Int
    BY <2>2 DEF day
  <2> QED
    BY <1>0, <2>3, <2>4, <2>5, <2>6 DEF day
<1>4. \A s \in Int, t \in Int : Offset(t) - Offset(s) < 2 * DayLen
  BY <1>0
<1> QED
  BY <1>3, <1>4 DEF SendTimesPass, SendTimesPassIn, OffsetsAreClose, OffsetsAreCloseIn
=============================================================================
