----------------------------- MODULE MCPolling -----------------------------
(***************************************************************************)
(* Instances of Polling for TLC, with the calendar of MCScheduler.         *)
(***************************************************************************)
EXTENDS Polling

One == [dayBased |-> FALSE, n |-> 1]
NoOffset(t) == 0
ShortMonths == <<0, 3, 6, 9, 12>>
LongMonth == <<0, 40>>
TwoBeneficiaries == <<"ann", "bob">>
OneBeneficiary == <<"ann">>
=============================================================================
