----------------------------- MODULE MCArchives -----------------------------
(***************************************************************************)
(* Instances of Archives for TLC, with the calendar of MCScheduler.        *)
(***************************************************************************)
EXTENDS Archives

One == [dayBased |-> FALSE, n |-> 1]
NoOffset(t) == 0
LongMonth == <<0, 40>>
OneBeneficiary == <<"ann">>
=============================================================================
