---------------------------- MODULE MCTargetFlow ----------------------------
(***************************************************************************)
(* Walks the clock over a small calendar with two zone transitions and     *)
(* checks the functions of TargetFlow at every instant, for every instant  *)
(* a check-in or a mail stage may have been recorded at.                   *)
(***************************************************************************)
EXTENDS Calendar

(* Six units a day; months of 3, 2, 4, 3 and 3 days.                       *)
MCMonthStart == <<0, 3, 5, 9, 12, 15>>

(* East of Greenwich: the clock jumps over the 3rd unit of local day 3 and *)
(* repeats the 3rd unit of local day 8.                                    *)
EastOffset(t) == IF t \in 20 .. 49 THEN 2 ELSE 1
(* West of Greenwich, with the jumps at other local times.                 *)
WestOffset(t) == IF t \in 27 .. 52 THEN -1 ELSE -2

OneDay == Days(1)
TwoDays == Days(2)
ThreeUnits == Exact(3)

(* Both zones do what the proofs ask of a zone, around the stretch the     *)
(* clock walks.                                                            *)
ASSUME ZoneAssumption ==
  /\ DaysFollowIn(-DayLen .. Horizon + 4 * DayLen, -2 .. Horizon \div DayLen + 4)
  /\ SendTimesPassIn(-DayLen .. Horizon + 4 * DayLen)
  /\ OffsetsAreCloseIn(-DayLen .. Horizon + 4 * DayLen)
=============================================================================
