---------------------------- MODULE MCScheduler ----------------------------
(***************************************************************************)
(* Instances of Scheduler for TLC: exact delays of one unit, days of one   *)
(* unit without zone transitions, and short months.                        *)
(***************************************************************************)
EXTENDS Scheduler

One == [dayBased |-> FALSE, n |-> 1]
NoOffset(t) == 0
ShortMonths == <<0, 3, 6, 9, 12>>
LongMonth == <<0, 40>>
TwoBeneficiaries == <<"ann", "bob">>
OneBeneficiary == <<"ann">>
=============================================================================
