----------------------------- MODULE Disclosure -----------------------------
(***************************************************************************)
(* What the switch promises about who learns what, and in which order,     *)
(* with no word on how: no row, no ticks, no retries and no failures.      *)
(* A stage opens when everybody has had the one before it; the owner is    *)
(* reminded of a stage before any beneficiary hears of it.                 *)
(***************************************************************************)
CONSTANTS Owner, Recipient

VARIABLE had  \* for each stage, who has had its message

Stages == {"WARN", "PASSWORD", "FILE"}
StageBefore == [PASSWORD |-> "WARN", FILE |-> "PASSWORD"]

Init == had = [s \in Stages |-> {}]

Open(s) == s = "WARN" \/ had[StageBefore[s]] = Recipient

RemindOwner(s) ==
  /\ Open(s)
  /\ had' = [had EXCEPT ![s] = @ \cup {Owner}]

Inform(s, r) ==
  /\ Open(s)
  /\ Owner \in had[s]
  /\ had' = [had EXCEPT ![s] = @ \cup {r}]

Next == \E s \in Stages : RemindOwner(s) \/ \E r \in Recipient : Inform(s, r)

Spec == Init /\ [][Next]_had
=============================================================================
