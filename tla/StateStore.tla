----------------------------- MODULE StateStore -----------------------------
(***************************************************************************)
(* The persisted state of the switch (internal/state): the single row of   *)
(* table "state", what a confirmation and a start-up normalisation make of *)
(* it, and the rows a start-up refuses to continue from.                   *)
(***************************************************************************)
EXTENDS Integers

CONSTANT nil  \* an absent value: a NULL column, an empty string

Phases == {"ALIVE", "GRACE", "PENDING_TRIGGER", "WARNED", "PASSWORD_SENT",
           "FILE_SENT", "COMPLETED"}
LegacyPhase == "LEGACY"  \* any text in the phase column that is none of them

Instant == Nat
Token == Nat \ {0}
Archive == Nat \ {0}
Maybe(S) == S \cup {nil}

ASSUME StateStoreAssumption == nil \notin Nat

(* Type State, without the columns no decision reads (last_pack_at,        *)
(* final_warning_at, file_sent_at, current_archive_sha256).  An archive    *)
(* stands for its path together with its password: every writer writes the *)
(* two together.                                                           *)
Row == [phase : Phases \cup {LegacyPhase},
        lastConfirmedAt : Maybe(Instant),
        lastCheckinSentAt : Maybe(Instant),
        lastHeartbeatAt : Maybe(Instant),
        missCount : Nat,
        warnedAt : Maybe(Instant),
        passwordSentAt : Maybe(Instant),
        pendingToken : Maybe(Token),
        archive : Maybe(Archive)]

(* ensureInitialRow: a first start counts as a sign of life.               *)
InitialRow ==
  [phase |-> "ALIVE", lastConfirmedAt |-> 0, lastCheckinSentAt |-> nil,
   lastHeartbeatAt |-> nil, missCount |-> 0, warnedAt |-> nil,
   passwordSentAt |-> nil, pendingToken |-> nil, archive |-> nil]

(* Variant of Confirmed: the sign of life without a reset of the token.    *)
ConfirmedKeepsToken(st, t) ==
  [st EXCEPT !.phase = "ALIVE", !.lastConfirmedAt = t, !.missCount = 0]

(* The columns a confirmation resets first, in any phase.                  *)
Confirmed(st, t) ==
  [st EXCEPT !.phase = "ALIVE", !.lastConfirmedAt = t, !.missCount = 0,
             !.pendingToken = nil, !.warnedAt = nil, !.passwordSentAt = nil]

WithoutArchive(st) == [st EXCEPT !.archive = nil]

resetToAlive(st, t) == WithoutArchive(Confirmed(st, t))

(* Variant of targetFlowNormalizationReason: a row without a token is kept. *)
ReasonIgnoresToken(st) ==
  IF st.phase \notin Phases THEN "unknown_phase"
  ELSE IF st.phase \in {"ALIVE", "COMPLETED", "FILE_SENT"} THEN ""
  ELSE IF st.lastCheckinSentAt = nil THEN "missing_last_checkin_sent_at"
  ELSE ""

(* Why NormalizeForTargetFlow resets a row at start-up; "" to keep it.     *)
targetFlowNormalizationReason(st) ==
  IF st.phase \notin Phases THEN "unknown_phase"
  ELSE IF st.phase \in {"ALIVE", "COMPLETED", "FILE_SENT"} THEN ""
  ELSE IF st.lastCheckinSentAt = nil THEN "missing_last_checkin_sent_at"
  ELSE IF st.pendingToken = nil THEN "missing_pending_token"
  ELSE IF st.phase = "PASSWORD_SENT" /\ st.archive = nil
       THEN "missing_archive_after_password_sent"
  ELSE ""
=============================================================================
