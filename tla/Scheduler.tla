----------------------------- MODULE Scheduler -----------------------------
(***************************************************************************)
(* The dead man's switch at run time: the tick loop and the Telegram       *)
(* confirmation handler of internal/scheduler, which share one SQLite row  *)
(* (internal/state) without a lock, the boot sequence of cmd/ifgone, and   *)
(* the messages that leave for the owner and the beneficiaries.            *)
(*                                                                         *)
(* A tick decides on the snapshot of the row it loaded and writes the      *)
(* whole row back at its end; a confirmation does the same, so that either *)
(* can overwrite the other.  Every write of the database and every send is *)
(* a step of its own.                                                      *)
(***************************************************************************)
EXTENDS TargetFlow

CONSTANTS
  Beneficiaries,      \* cfg.Beneficiaries, a sequence of mail addresses
  Owner,              \* "__owner_telegram__", the owner's delivery key
  ReminderCount,      \* target_flow.reminder_count
  HeartbeatInterval,  \* reliability.heartbeat_interval, nil when disabled
  \* The environment and the bounds of a check:
  Overlap,            \* a tick and a confirmation may run at the same time
  OwnerClicks,        \* the owner is there to press a button
  FreeFailures,       \* a send may fail without drawing on MaxFaults
  Urgent,             \* a tick completes in every unit of time
  FaultKinds,         \* the faults considered, of AllFaultKinds
  MaxFaults,          \* how many of them may happen
  MaxTime             \* the last instant the clock reaches

AllFaultKinds == {"crash", "abort", "dbError", "lostAck", "sendFails"}

ASSUME SchedulerAssumption ==
  /\ Beneficiaries \in Seq(STRING)
  /\ Len(Beneficiaries) > 0
  /\ Owner \in STRING
  /\ \A k \in 1 .. Len(Beneficiaries) : Beneficiaries[k] # Owner
  /\ ReminderCount \in Nat \ {0}
  /\ HeartbeatInterval \in Maybe(Int)
  /\ {Overlap, OwnerClicks, FreeFailures, Urgent} \subseteq BOOLEAN
  /\ FaultKinds \subseteq AllFaultKinds
  /\ MaxFaults \in Nat
  /\ MaxTime \in Nat

(* The owner comes first: his stage reminder is a delivery like the mails. *)
To(i) == IF i = 0 THEN Owner ELSE Beneficiaries[i]
Recipient == {To(i) : i \in 0 .. Len(Beneficiaries)}

(* The stage a tick works on in a phase.                                   *)
Stages == {"WARN", "PASSWORD", "FILE"}
StageOf == [PENDING_TRIGGER |-> "WARN", WARNED |-> "PASSWORD",
            PASSWORD_SENT |-> "FILE"]

hasOutstandingCheckin(st) ==
  /\ st.lastCheckinSentAt # nil
  /\ st.pendingToken # nil
  /\ st.lastConfirmedAt # nil => st.lastConfirmedAt < st.lastCheckinSentAt

(* Variant of StageReady: the password waits from the check-in on.         *)
ReadySinceCheckin(st, t) ==
  CASE st.phase = "WARNED" -> stageDue(st.lastCheckinSentAt, PasswordDelay, t)
    [] st.phase = "PASSWORD_SENT" -> stageDue(st.passwordSentAt, FileDelay, t)
    [] OTHER -> TRUE

(* tickPendingTrigger has no wait of its own.                              *)
StageReady(st, t) ==
  CASE st.phase = "WARNED" -> stageDue(st.warnedAt, PasswordDelay, t)
    [] st.phase = "PASSWORD_SENT" -> stageDue(st.passwordSentAt, FileDelay, t)
    [] OTHER -> TRUE

(* Variant of Advanced: the last stage is stored in place of the phase.    *)
AdvancedToStage(st, t) ==
  CASE st.phase = "PENDING_TRIGGER" ->
         [st EXCEPT !.phase = "WARNED", !.warnedAt = t]
    [] st.phase = "WARNED" ->
         [st EXCEPT !.phase = "PASSWORD_SENT", !.passwordSentAt = t]
    [] OTHER -> [st EXCEPT !.phase = "FILE"]

(* The row once every recipient has had the message of its stage.          *)
Advanced(st, t) ==
  CASE st.phase = "PENDING_TRIGGER" ->
         [st EXCEPT !.phase = "WARNED", !.warnedAt = t]
    [] st.phase = "WARNED" ->
         [st EXCEPT !.phase = "PASSWORD_SENT", !.passwordSentAt = t]
    [] OTHER -> [st EXCEPT !.phase = "FILE_SENT"]

(* What maybeHeartbeat may leave of a row: its send may fail.              *)
AfterHeartbeat(st, t) ==
  IF /\ HeartbeatInterval # nil
     /\ st.lastHeartbeatAt = nil \/ t - st.lastHeartbeatAt >= HeartbeatInterval
  THEN {st, [st EXCEPT !.lastHeartbeatAt = t]}
  ELSE {st}

VARIABLES
  now,
  db,         \* the state row
  delivered,  \* rows of table deliveries with status OK: <<recipient, stage>>
  tpc,        \* the tick loop: where it is,
  tst,        \*   the row it loaded and edits,
  tnow,       \*   the time it was started with,
  ti,         \*   the recipient it is at (0 is the owner),
  tall,       \*   allDelivered
  ticked,     \* a tick has completed at this instant (kept when Urgent)
  cpc,        \* the confirmation handler: where it is,
  cst,        \*   the row it loaded and edits,
  ctok,       \*   the token it was called with
  buttons,    \* tokens of the confirmation buttons in the owner's chat
  tokens,     \* number of the last token that reached the chat
  packs,      \* number of the last archive built
  faults,     \* faults so far
  mail,       \* the latest message of each stage each recipient has had
  accepted    \* tokens of which the owner was told they are confirmed

tickVars == <<tpc, tst, tnow, ti, tall, ticked>>
confVars == <<cpc, cst, ctok>>
worldVars == <<buttons, tokens, packs, mail>>
vars == <<now, db, delivered, tickVars, confVars, worldVars, faults, accepted>>

TickPC == {"boot", "bootClear", "idle", "alive", "deliver", "record", "pack",
           "save"}
ConfPC == {"idle", "save", "saveTriggering", "saveWithoutArchive",
           "clearDeliveries"}

(* A message a recipient has had: in which round (the round's check-in     *)
(* token), at which tick, for which archive, and how often in that round   *)
(* (1, or 2 for more than once).                                           *)
Message == [round : Maybe(Token), at : Instant, archive : Maybe(Archive),
            copies : {1, 2}]

ASSUME MessageAssumption == nil \notin Message

TypeOK ==
  /\ now \in Instant
  /\ db \in Row
  /\ delivered \subseteq Recipient \X Stages
  /\ tpc \in TickPC /\ tst \in Row /\ tnow \in Instant
  /\ ti \in 0 .. Len(Beneficiaries) /\ tall \in BOOLEAN /\ ticked \in BOOLEAN
  /\ cpc \in ConfPC /\ cst \in Row /\ ctok \in Maybe(Token)
  /\ buttons \subseteq Token /\ tokens \in Nat /\ packs \in Nat
  /\ faults \in Nat
  /\ mail \in [Recipient \X Stages -> Maybe(Message)]
  /\ accepted \subseteq Token

Init ==
  /\ now = 0
  /\ db = InitialRow
  /\ delivered = {}
  /\ tpc = "boot" /\ tst = InitialRow /\ tnow = 0 /\ ti = 0 /\ tall = TRUE
  /\ ticked = FALSE
  /\ cpc = "idle" /\ cst = InitialRow /\ ctok = nil
  /\ buttons = {} /\ tokens = 0 /\ packs = 0
  /\ faults = 0
  /\ mail = [x \in Recipient \X Stages |-> nil]
  /\ accepted = {}

-----------------------------------------------------------------------------
(* The environment's failures.                                             *)

Fault(kind) == kind \in FaultKinds /\ faults < MaxFaults /\ faults' = faults + 1

SendFails == (FreeFailures /\ UNCHANGED faults) \/ Fault("sendFails")

-----------------------------------------------------------------------------
(* Tick: one pass of the main loop.                                        *)

BeginTick(pc, st) ==
  /\ tpc = "idle"
  /\ Overlap \/ cpc = "idle"
  /\ tpc' = pc /\ tst' = st /\ tnow' = now /\ ti' = 0 /\ tall' = TRUE
  /\ UNCHANGED <<now, db, delivered, ticked, confVars, worldVars, faults, accepted>>

EndTick ==
  /\ tpc' = "idle" /\ tst' = InitialRow /\ tnow' = 0 /\ ti' = 0 /\ tall' = TRUE
  /\ ticked' = Urgent

TickAlive == db.phase \in {"ALIVE", "GRACE"} /\ BeginTick("alive", db)

TickStage ==
  /\ db.phase \in DOMAIN StageOf
  /\ BeginTick(IF StageReady(db, now) THEN "deliver" ELSE "save", db)

TickFileSent ==
  /\ db.phase = "FILE_SENT"
  /\ BeginTick("save", [db EXCEPT !.phase = "COMPLETED"])

(* A completed flow, or a phase the switch statement does not know.        *)
TickNothing ==
  /\ tpc = "idle"
  /\ db.phase \in {"COMPLETED", LegacyPhase}
  /\ ticked' = Urgent
  /\ UNCHANGED <<now, db, delivered, tpc, tst, tnow, ti, tall, confVars,
                 worldVars, faults, accepted>>

(* tickAlive and tickOutstandingCheckin end with the heartbeat and Save.   *)
ThenSave(st) ==
  /\ tpc' = "save" /\ tst' \in AfterHeartbeat(st, tnow)
  /\ UNCHANGED <<now, db, delivered, tnow, ti, tall, ticked, confVars, packs,
                 mail, accepted>>

ReachesChat(token) == buttons' = buttons \cup {token}

CheckinDue ==
  /\ tpc = "alive"
  /\ ~hasOutstandingCheckin(tst)
  /\ shouldSendMonthlyCheckin(tst.lastCheckinSentAt, tnow)

SendCheckin ==
  /\ CheckinDue
  /\ ReachesChat(tokens + 1) /\ tokens' = tokens + 1
  /\ ThenSave([tst EXCEPT !.pendingToken = tokens + 1,
                          !.lastCheckinSentAt = tnow, !.missCount = 0])
  /\ UNCHANGED faults

(* Variant of SendCheckinFails: the token is kept though its message never *)
(* left.                                                                   *)
UnsentTokenKept ==
  /\ CheckinDue
  /\ ThenSave([tst EXCEPT !.pendingToken = tokens + 1,
                          !.lastCheckinSentAt = tnow, !.missCount = 0])
  /\ SendFails /\ UNCHANGED <<buttons, tokens>>

(* The send fails, or the message arrives and its acknowledgement is lost: *)
(* the row keeps no trace of the token, and the next tick makes another.   *)
SendCheckinFails ==
  /\ CheckinDue
  /\ ThenSave(tst)
  /\ \/ SendFails /\ UNCHANGED <<buttons, tokens>>
     \/ Fault("lostAck") /\ ReachesChat(tokens + 1) /\ tokens' = tokens + 1

Missed == remindersSent(tst.lastCheckinSentAt, tnow)

Grace(st) == [st EXCEPT !.phase = "GRACE"]

ReminderDue ==
  /\ tpc = "alive"
  /\ hasOutstandingCheckin(tst)
  /\ Missed \in 1 .. ReminderCount

SendReminder ==
  /\ ReminderDue /\ tst.missCount < Missed
  /\ ReachesChat(tst.pendingToken) /\ UNCHANGED tokens
  /\ ThenSave([Grace(tst) EXCEPT !.missCount = Missed])
  /\ UNCHANGED faults

(* As with the check-in, a reminder may arrive and be reported as failed.  *)
SendReminderFails ==
  /\ ReminderDue /\ tst.missCount < Missed
  /\ ThenSave(Grace(tst))
  /\ UNCHANGED tokens
  /\ \/ SendFails /\ UNCHANGED buttons
     \/ Fault("lostAck") /\ ReachesChat(tst.pendingToken)

AlreadyReminded ==
  /\ ReminderDue /\ tst.missCount >= Missed
  /\ ThenSave(Grace(tst))
  /\ UNCHANGED <<buttons, tokens, faults>>

(* Variant of EnterPendingTrigger: the token is dropped with the reminders. *)
TriggerDropsToken ==
  /\ tpc = "alive"
  /\ hasOutstandingCheckin(tst)
  /\ Missed > ReminderCount
  /\ ThenSave([tst EXCEPT !.phase = "PENDING_TRIGGER", !.missCount = Missed,
                          !.pendingToken = nil])
  /\ UNCHANGED <<buttons, tokens, faults>>

EnterPendingTrigger ==
  /\ tpc = "alive"
  /\ hasOutstandingCheckin(tst)
  /\ Missed > ReminderCount
  /\ ThenSave([tst EXCEPT !.phase = "PENDING_TRIGGER", !.missCount = Missed])
  /\ UNCHANGED <<buttons, tokens, faults>>

NothingDue ==
  /\ tpc = "alive"
  /\ IF hasOutstandingCheckin(tst) THEN Missed < 1
     ELSE ~shouldSendMonthlyCheckin(tst.lastCheckinSentAt, tnow)
  /\ ThenSave(tst)
  /\ UNCHANGED <<buttons, tokens, faults>>

-----------------------------------------------------------------------------
(* deliver: once per recipient and stage, the owner's stage reminder first. *)

Stage == StageOf[tst.phase]
Key == <<To(ti), Stage>>

(* Variant of AllDelivered: failures are not remembered.                   *)
FailuresForgotten(ok) == TRUE

AllDelivered(ok) == tall /\ ok

(* What follows a deliver that returned ok: without the owner's reminder   *)
(* the tick ends, with it the password stage packs first; a beneficiary's  *)
(* failure is remembered and the loop goes on.                             *)
AfterDeliver(ok) ==
  /\ UNCHANGED <<tnow, ticked>>
  /\ \/ /\ ti = 0 /\ ~ok
        /\ tpc' = "save" /\ UNCHANGED <<tst, ti, tall>>
     \/ /\ ti = 0 /\ ok /\ Stage = "PASSWORD"
        /\ tpc' = "pack" /\ UNCHANGED <<tst, ti, tall>>
     \/ /\ ti = 0 /\ ok /\ Stage # "PASSWORD"
        /\ tpc' = "deliver" /\ ti' = 1 /\ UNCHANGED <<tst, tall>>
     \/ /\ ti \in 1 .. Len(Beneficiaries) - 1
        /\ tpc' = "deliver" /\ ti' = ti + 1 /\ tall' = AllDelivered(ok)
        /\ UNCHANGED tst
     \/ /\ ti = Len(Beneficiaries)
        /\ tpc' = "save" /\ tall' = AllDelivered(ok) /\ UNCHANGED ti
        /\ tst' = IF AllDelivered(ok) THEN Advanced(tst, tnow) ELSE tst

(* The message of the stage arrives.  The owner's reminder of the first    *)
(* stage carries a button with the token then in the database.             *)
Arrives ==
  LET last == mail[Key]
  IN /\ mail' = [mail EXCEPT ![Key] =
           [round |-> tst.pendingToken, at |-> tnow, archive |-> tst.archive,
            copies |-> IF last # nil /\ last.round = tst.pendingToken
                       THEN 2 ELSE 1]]
     /\ buttons' = buttons \cup
          (IF Key = <<Owner, "WARN">> THEN {db.pendingToken} \ {nil} ELSE {})
     /\ UNCHANGED <<tokens, packs>>

(* A mail of the last stage needs the stored password; the owner's         *)
(* reminder of that stage does not.                                        *)
MayBuild == Stage = "FILE" /\ ti > 0 => tst.archive # nil

DeliverVars == <<now, db, confVars, accepted>>

(* Variant of DeliverSkips: what was delivered before counts as missing.   *)
SkipsCountAsFailed ==
  /\ tpc = "deliver" /\ Key \in delivered
  /\ AfterDeliver(FALSE)
  /\ UNCHANGED <<DeliverVars, delivered, worldVars, faults>>

DeliverSkips ==
  /\ tpc = "deliver" /\ Key \in delivered
  /\ AfterDeliver(TRUE)
  /\ UNCHANGED <<DeliverVars, delivered, worldVars, faults>>

DeliverSends ==
  /\ tpc = "deliver" /\ Key \notin delivered
  /\ MayBuild
  /\ Arrives
  /\ tpc' = "record"
  /\ UNCHANGED <<DeliverVars, delivered, tst, tnow, ti, tall, ticked, faults>>

(* Variant of DeliverFails: the mails leave without the owner's reminder.  *)
OwnerNotWaitedFor ==
  /\ tpc = "deliver"
  /\ (Key \notin delivered /\ SendFails) \/ Fault("dbError")
  /\ AfterDeliver(ti = 0)
  /\ UNCHANGED <<DeliverVars, delivered, worldVars>>

(* The send fails, and FAILED is recorded for a pair that was not OK; or   *)
(* the query for an earlier delivery does.                                 *)
DeliverFails ==
  /\ tpc = "deliver"
  /\ (Key \notin delivered /\ SendFails) \/ Fault("dbError")
  /\ AfterDeliver(FALSE)
  /\ UNCHANGED <<DeliverVars, delivered, worldVars>>

(* The message arrives but its send is reported as failed.                 *)
DeliverLosesAck ==
  /\ tpc = "deliver" /\ Key \notin delivered
  /\ MayBuild
  /\ Arrives
  /\ Fault("lostAck")
  /\ AfterDeliver(FALSE)
  /\ UNCHANGED <<DeliverVars, delivered>>

(* Variant of RecordDelivery: only the owner's reminders are recorded.     *)
MailsNotRecorded ==
  /\ tpc = "record"
  /\ delivered' = delivered \cup (IF ti = 0 THEN {Key} ELSE {})
  /\ AfterDeliver(TRUE)
  /\ UNCHANGED <<DeliverVars, worldVars, faults>>

RecordDelivery ==
  /\ tpc = "record"
  /\ delivered' = delivered \cup {Key}
  /\ AfterDeliver(TRUE)
  /\ UNCHANGED <<DeliverVars, worldVars, faults>>

(* An error is reported of the record, which may have been made all the    *)
(* same.                                                                   *)
RecordDeliveryFails ==
  /\ tpc = "record"
  /\ Fault("dbError")
  /\ delivered' \in {delivered, delivered \cup {Key}}
  /\ AfterDeliver(FALSE)
  /\ UNCHANGED <<DeliverVars, worldVars>>

(* Variant of Pack: every attempt of the stage packs.                      *)
PacksAgain ==
  /\ tpc = "pack"
  /\ tst' = [tst EXCEPT !.archive = packs + 1] /\ packs' = packs + 1
  /\ tpc' = "deliver" /\ ti' = 1
  /\ UNCHANGED <<DeliverVars, delivered, tnow, tall, ticked, buttons, tokens,
                 mail, faults>>

(* doPack, unless the row already has an archive, then archivePassword.    *)
Pack ==
  /\ tpc = "pack"
  /\ tst' = IF tst.archive = nil THEN [tst EXCEPT !.archive = packs + 1] ELSE tst
  /\ packs' = IF tst.archive = nil THEN packs + 1 ELSE packs
  /\ tpc' = "deliver" /\ ti' = 1
  /\ UNCHANGED <<DeliverVars, delivered, tnow, tall, ticked, buttons, tokens,
                 mail, faults>>

(* Packing fails, or the stored password cannot be decrypted, or the new   *)
(* password cannot be encrypted: then the row has its archive already, and *)
(* the password as it is.                                                  *)
PackFails ==
  /\ tpc = "pack"
  /\ SendFails
  /\ tpc' = "save"
  /\ \/ UNCHANGED <<tst, packs>>
     \/ /\ tst.archive = nil
        /\ tst' = [tst EXCEPT !.archive = packs + 1] /\ packs' = packs + 1
  /\ UNCHANGED <<DeliverVars, delivered, tnow, ti, tall, ticked, buttons, tokens,
                 mail>>

TickSave ==
  /\ tpc = "save"
  /\ db' = tst
  /\ EndTick
  /\ UNCHANGED <<now, delivered, confVars, worldVars, faults, accepted>>

(* A panic runTick recovers from, or an error of Load, tokenGen or Save:   *)
(* the tick ends and the row stays as it was.  (A Save that is made and    *)
(* reports an error is a TickSave: the loop only logs what Tick returns.)  *)
TickAborts ==
  /\ tpc \notin {"boot", "bootClear", "idle"}
  /\ Fault("abort")
  /\ EndTick
  /\ UNCHANGED <<now, db, delivered, confVars, worldVars, accepted>>

-----------------------------------------------------------------------------
(* Confirm: the owner presses a button.  A token that is not the pending   *)
(* one is refused and changes nothing.                                     *)

EndConfirm == cpc' = "idle" /\ cst' = InitialRow /\ ctok' = nil

ConfirmLoad ==
  /\ OwnerClicks
  /\ cpc = "idle" /\ tpc \notin {"boot", "bootClear"}
  /\ Overlap \/ tpc = "idle"
  /\ db.pendingToken \in buttons
  /\ cpc' = IF db.phase \in {"ALIVE", "GRACE"} THEN "save" ELSE "saveTriggering"
  /\ cst' = Confirmed(db, now)
  /\ ctok' = db.pendingToken
  /\ UNCHANGED <<now, db, delivered, tickVars, worldVars, faults, accepted>>

ConfirmSave ==
  /\ cpc \in {"save", "saveTriggering"}
  /\ db' = cst
  /\ IF cpc = "save"
     THEN EndConfirm /\ accepted' = accepted \cup {ctok}
     ELSE /\ cpc' = "saveWithoutArchive" /\ cst' = WithoutArchive(cst)
          /\ UNCHANGED <<ctok, accepted>>
  /\ UNCHANGED <<now, delivered, tickVars, worldVars, faults>>

ConfirmSaveWithoutArchive ==
  /\ cpc = "saveWithoutArchive"
  /\ db' = cst
  /\ cpc' = "clearDeliveries"
  /\ UNCHANGED <<now, delivered, tickVars, cst, ctok, worldVars, faults, accepted>>

(* Variant of ConfirmClearDeliveries: the deliveries stay.                 *)
DeliveriesStay ==
  /\ cpc = "clearDeliveries"
  /\ accepted' = accepted \cup {ctok}
  /\ EndConfirm
  /\ UNCHANGED <<now, db, delivered, tickVars, worldVars, faults>>

ConfirmClearDeliveries ==
  /\ cpc = "clearDeliveries"
  /\ delivered' = {}
  /\ accepted' = accepted \cup {ctok}
  /\ EndConfirm
  /\ UNCHANGED <<now, db, tickVars, worldVars, faults>>

(* Variant of ConfirmFails: the owner is told that he has confirmed.       *)
ErrorSwallowed ==
  /\ cpc # "idle"
  /\ Fault("dbError")
  /\ accepted' = accepted \cup {ctok}
  /\ EndConfirm
  /\ UNCHANGED <<now, db, delivered, tickVars, worldVars>>

(* A database error: the owner is told that the confirmation failed,       *)
(* although the write the error is reported of may have been made.         *)
ConfirmFails ==
  /\ cpc # "idle"
  /\ Fault("dbError")
  /\ EndConfirm
  /\ \/ UNCHANGED <<db, delivered>>
     \/ cpc # "clearDeliveries" /\ db' = cst /\ UNCHANGED delivered
     \/ cpc = "clearDeliveries" /\ delivered' = {} /\ UNCHANGED db
  /\ UNCHANGED <<now, tickVars, worldVars, accepted>>

-----------------------------------------------------------------------------
(* The process.                                                            *)

(* NormalizeForTargetFlow, before the tick loop and the polling start.     *)
BootKeeps ==
  /\ tpc = "boot"
  /\ targetFlowNormalizationReason(db) = ""
  /\ tpc' = "idle"
  /\ UNCHANGED <<now, db, delivered, tst, tnow, ti, tall, ticked, confVars,
                 worldVars, faults, accepted>>

BootResets ==
  /\ tpc = "boot"
  /\ targetFlowNormalizationReason(db) # ""
  /\ db' = resetToAlive(db, now)
  /\ tpc' = "bootClear"
  /\ UNCHANGED <<now, delivered, tst, tnow, ti, tall, ticked, confVars,
                 worldVars, faults, accepted>>

BootClearsDeliveries ==
  /\ tpc = "bootClear"
  /\ delivered' = {}
  /\ tpc' = "idle"
  /\ UNCHANGED <<now, db, tst, tnow, ti, tall, ticked, confVars, worldVars,
                 faults, accepted>>

(* The process dies and is restarted; only the database survives.          *)
Crash ==
  /\ tpc # "boot"
  /\ Fault("crash")
  /\ tpc' = "boot" /\ tst' = InitialRow /\ tnow' = 0 /\ ti' = 0 /\ tall' = TRUE
  /\ EndConfirm
  /\ UNCHANGED <<now, db, delivered, ticked, worldVars, accepted>>

Clock ==
  /\ now < MaxTime
  /\ Urgent => ticked
  /\ now' = now + 1 /\ ticked' = FALSE
  /\ UNCHANGED <<db, delivered, tpc, tst, tnow, ti, tall, confVars, worldVars,
                 faults, accepted>>

-----------------------------------------------------------------------------

BeginStep == TickAlive \/ TickStage \/ TickFileSent \/ TickNothing

AliveStep ==
  \/ SendCheckin \/ SendCheckinFails \/ SendReminder \/ SendReminderFails
  \/ AlreadyReminded \/ EnterPendingTrigger \/ NothingDue

DeliverStep ==
  \/ DeliverSkips \/ DeliverSends \/ DeliverFails \/ DeliverLosesAck
  \/ RecordDelivery \/ RecordDeliveryFails \/ Pack \/ PackFails

TickStep == BeginStep \/ AliveStep \/ DeliverStep \/ TickSave

ConfirmStep ==
  \/ ConfirmSave \/ ConfirmSaveWithoutArchive \/ ConfirmClearDeliveries

BootStep == BootKeeps \/ BootResets \/ BootClearsDeliveries

Next ==
  \/ TickStep \/ TickAborts
  \/ ConfirmLoad \/ ConfirmStep \/ ConfirmFails
  \/ BootStep \/ Crash \/ Clock

Spec == Init /\ [][Next]_vars

(* A start on the database of an earlier version: any phase, with or       *)
(* without the columns that version did not fill.                          *)
LegacyRow == [phase : Phases \cup {LegacyPhase},
              lastConfirmedAt : {0}, lastCheckinSentAt : {nil, 1},
              lastHeartbeatAt : {nil}, missCount : {0},
              warnedAt : {nil, 1}, passwordSentAt : {nil, 1},
              pendingToken : {nil, 1}, archive : {nil, 1}]

StagesDone(phase) ==
  CASE phase \in {"WARNED", LegacyPhase} -> {"WARN"}
    [] phase = "PASSWORD_SENT" -> {"WARN", "PASSWORD"}
    [] phase \in {"FILE_SENT", "COMPLETED"} -> Stages
    [] OTHER -> {}

StageNow(phase) == IF phase \in DOMAIN StageOf THEN {StageOf[phase]} ELSE {}

(* The deliveries it may have recorded: the stages before the row's phase  *)
(* and any part of the one it was at, the owner's reminder first; passwords *)
(* only of an archive the row has.  (Records an earlier round left behind  *)
(* are out: run crash_skips shows what becomes of them.)                   *)
LegacyDeliveries(row, d) ==
  /\ Recipient \X StagesDone(row.phase) \subseteq d
  /\ d \subseteq Recipient \X (StagesDone(row.phase) \cup StageNow(row.phase))
  /\ \A x \in d : <<Owner, x[2]>> \in d
  /\ row.phase = "WARNED" /\ row.archive = nil =>
       \A x \in d : x[2] = "PASSWORD" => x[1] = Owner

LegacyInit ==
  /\ now = 2
  /\ db \in LegacyRow
  /\ delivered \in {d \in SUBSET (Recipient \X Stages) : LegacyDeliveries(db, d)}
  /\ tpc = "boot" /\ tst = InitialRow /\ tnow = 0 /\ ti = 0 /\ tall = TRUE
  /\ ticked = FALSE
  /\ cpc = "idle" /\ cst = InitialRow /\ ctok = nil
  /\ buttons = {db.pendingToken} \ {nil}
  /\ tokens = 1 /\ packs = 1 /\ faults = 0
  /\ mail = [x \in Recipient \X Stages |->
               IF x \notin delivered THEN nil
               ELSE [round |-> db.pendingToken, at |-> 1,
                     archive |-> db.archive, copies |-> 1]]
  /\ accepted = {}

LegacySpec == LegacyInit /\ [][Next]_vars

-----------------------------------------------------------------------------
(* What holds whatever overlaps, crashes and failures there are.           *)

Had(stage) == {r \in Recipient : mail[<<r, stage>>] # nil}

(* The promise of Disclosure, in every step.                               *)
Promise == INSTANCE Disclosure WITH had <- [s \in Stages |-> Had(s)]
KeepsPromise == Promise!Spec

(* The order of the stages (tickPendingTrigger, tickWarned,                *)
(* tickPasswordSent).  Nobody has been sent a password before everybody    *)
(* was warned, nor a link before everybody was sent a password; and no     *)
(* beneficiary hears of a stage before the owner was reminded of it.       *)
StagesInOrder ==
  /\ Had("PASSWORD") # {} => Had("WARN") = Recipient
  /\ Had("FILE") # {} => Had("PASSWORD") = Recipient
  /\ \A s \in Stages : Had(s) # {} => Owner \in Had(s)

(* While messages of a stage go out the owner holds a button of the round  *)
(* they belong to, and the pending token is always one he has a button     *)
(* for, although two writers overwrite each other's rows.                  *)
Cancellable ==
  /\ tpc \in {"deliver", "record", "pack"} => tst.pendingToken \in buttons
  /\ db.pendingToken # nil => db.pendingToken \in buttons

(* A restart carries on with every row the program writes: start-up        *)
(* normalisation (NormalizeForTargetFlow) never takes one for a leftover   *)
(* of the old flow, so no crash cancels a flow behind everybody's back.    *)
RestartCarriesOn == targetFlowNormalizationReason(db) = ""

(* A password mail leaves no earlier than password_delay_after_warn after  *)
(* the last warning of the same round, a link mail no earlier than         *)
(* file_delay_after_password after the last password mail, by the times of *)
(* the ticks that sent them.                                               *)
Waited(earlier, delay, later) ==
  \A r \in Recipient, b \in Recipient \ {Owner} :
    LET m == mail[<<r, earlier>>]  n == mail[<<b, later>>]
    IN (m # nil /\ n # nil /\ m.round = n.round) => stageDue(m.at, delay, n.at)

DelaysHonoured ==
  /\ Waited("WARN", PasswordDelay, "PASSWORD")
  /\ Waited("PASSWORD", FileDelay, "FILE")

-----------------------------------------------------------------------------
(* What holds when a confirmation and a tick do not overlap.               *)

(* README.md:20 of the repository, "a confirmation at any stage cancels    *)
(* everything that follows": once the owner has been told so, the round is *)
(* over; its token is no longer pending (Confirm) ...                      *)
ConfirmationSticks == cpc = "idle" => db.pendingToken \notin accepted

(* ... and no message of that round leaves any more.                       *)
NothingAfterConfirmation ==
  [][\A x \in DOMAIN mail :
       mail'[x] # mail[x] => mail'[x].round \notin accepted]_vars

(* README.md:26, "each beneficiary gets each stage once": no recipient is  *)
(* sent the same stage of a round twice (deliver, RecordDelivery).         *)
OncePerRound == \A x \in DOMAIN mail : mail[x] # nil => mail[x].copies = 1

(* scheduler.go:91, "the next trigger goes through the whole flow again":  *)
(* whoever has had a message of a later stage in a round, everybody has    *)
(* had the stages before it in that round, or in a later one.              *)
Round(s, r) == IF mail[<<r, s>>] = nil THEN nil ELSE mail[<<r, s>>].round

Reached(s, r, round) == Round(s, r) # nil /\ Round(s, r) >= round

WholeFlowEachRound ==
  \A r \in Recipient :
    /\ \A s \in Stages : Round(s, r) # nil => Reached(s, Owner, Round(s, r))
    /\ Round("PASSWORD", r) # nil =>
         \A q \in Recipient : Reached("WARN", q, Round("PASSWORD", r))
    /\ Round("FILE", r) # nil =>
         \A q \in Recipient : Reached("PASSWORD", q, Round("FILE", r))

(* docs/telegram-to-delivery-flow.md:282: the password every beneficiary   *)
(* was sent in a round opens the archive anyone is linked to in that round *)
(* (tickWarned packs only when the row has no archive).                    *)
PasswordsOpenTheArchive ==
  \A r \in Recipient \ {Owner}, q \in Recipient \ {Owner} :
    LET m == mail[<<r, "PASSWORD">>]  n == mail[<<q, "FILE">>]
    IN (m # nil /\ n # nil /\ m.round = n.round) => m.archive = n.archive

-----------------------------------------------------------------------------
(* When the owner never answers, everybody is sent the link: the main      *)
(* loop, the boot and the clock keep going, and Urgent says that a tick    *)
(* completes in every unit of time.                                        *)
Fairness ==
  /\ WF_vars(TickStep)
  /\ WF_vars(BootStep)
  /\ WF_vars(Clock)

FairSpec == Spec /\ Fairness

EventuallyDisclosed == <>(Had("FILE") = Recipient /\ db.phase = "COMPLETED")
=============================================================================
