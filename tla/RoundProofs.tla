---------------------------- MODULE RoundProofs ----------------------------
(***************************************************************************)
(* What each round is worth: proofs that nobody is sent a stage twice in a *)
(* round, that a round goes through all stages in order however the one    *)
(* before it ended, and that the passwords of a round open its archive,    *)
(* under the faults for which that is so, from a new database or from one  *)
(* of an earlier version; and that the stages of a round keep their        *)
(* distance, in a zone whose days follow each other.                       *)
(*                                                                         *)
(* Each fact about a round is a fact about the row that carries its token. *)
(* Such rows are in two places, the database and the tick, so that each    *)
(* part of the invariants is stated of a row and asked of both.            *)
(***************************************************************************)
EXTENDS SchedulerProofs, TargetFlowProofs

(* The messages of the round a row is in.                                  *)
InRound(m, st, r, s) ==
  st.pendingToken # nil /\ m[<<r, s>>] # nil /\ m[<<r, s>>].round = st.pendingToken

(* The stages of which messages may have left when a row is in a phase.    *)
Begun(phase) ==
  CASE phase \in {"ALIVE", "GRACE"} -> {}
    [] phase = "PENDING_TRIGGER" -> {"WARN"}
    [] phase = "WARNED" -> {"WARN", "PASSWORD"}
    [] OTHER -> Stages

(* No message is ahead of the phase of the row that has its token: no row  *)
(* falls back to an earlier phase and keeps its token.                     *)
NoneAhead(m, st) ==
  \A r \in Recipient, s \in Stages :
    InRound(m, st, r, s) => s \in Begun(st.phase)

(* No message is of a later round than a row's.                            *)
Latest(m, st) ==
  st.pendingToken # nil =>
    \A r \in Recipient, s \in Stages :
      m[<<r, s>>] # nil /\ m[<<r, s>>].round # nil =>
        m[<<r, s>>].round <= st.pendingToken

(* Whatever overlaps and fails.  While a tick sends the messages of a      *)
(* round, the database has the row of that round, in the phase the tick    *)
(* found it in, or one without a token.                                    *)
RoundInv ==
  /\ SafeInv
  /\ buttons \subseteq 1 .. tokens
  /\ \A r \in Recipient, s \in Stages :
       mail[<<r, s>>] # nil => mail[<<r, s>>].round \in Maybe(1 .. tokens)
  /\ NoneAhead(mail, db) /\ NoneAhead(mail, tst)
  /\ Latest(mail, db) /\ Latest(mail, tst)
  /\ Working /\ db.pendingToken # nil =>
       db.pendingToken = tst.pendingToken /\ db.phase = tst.phase

-----------------------------------------------------------------------------
(* What the steps do to the rows and the messages.                         *)

(* Check-ins and reminders.                                                *)
LEMMA AliveEffect ==
  ASSUME SafeInv, buttons \subseteq 1 .. tokens, AliveStep
  PROVE  /\ tpc = "alive" /\ tpc' = "save"
         /\ UNCHANGED <<now, db, delivered, tnow, ti, tall, cpc, cst, packs, mail>>
         /\ tst'.archive = tst.archive /\ tst'.warnedAt = tst.warnedAt
         /\ tst'.passwordSentAt = tst.passwordSentAt
         /\ tst.phase \in {"ALIVE", "GRACE"}
         /\ tst'.phase \in {"ALIVE", "GRACE", "PENDING_TRIGGER"}
         /\ tokens' \in {tokens, tokens + 1} /\ buttons' \subseteq 1 .. tokens'
         /\ \/ tst'.pendingToken = tst.pendingToken
            \/ /\ tst'.pendingToken = tokens + 1 /\ tokens' = tokens + 1
               /\ tst'.phase \in {"ALIVE", "GRACE"}
<1>0. /\ tst \in Row /\ tokens \in Nat /\ RowSane(tst) /\ tpc = "alive"
      /\ tst.phase \in {"ALIVE", "GRACE"}
  BY DEF SafeInv, TypeInv, TypeOK, AlivePhase, AliveStep, SendCheckin,
         CheckinDue, SendCheckinFails, SendReminder, SendReminderFails,
         ReminderDue, AlreadyReminded, EnterPendingTrigger, NothingDue
<1>1. ASSUME NEW st \in Row, ThenSave(st)
      PROVE  /\ tst'.pendingToken = st.pendingToken /\ tst'.phase = st.phase
             /\ tst'.archive = st.archive /\ tst'.warnedAt = st.warnedAt
             /\ tst'.passwordSentAt = st.passwordSentAt
             /\ tpc' = "save"
             /\ UNCHANGED <<now, db, delivered, tnow, ti, tall, cpc, cst, packs, mail>>
  BY <1>1 DEF ThenSave, AfterHeartbeat, confVars, Row
<1>2. /\ 1 .. tokens \subseteq 1 .. tokens + 1
      /\ tokens + 1 \in 1 .. tokens + 1
  BY <1>0
<1>3. tst.pendingToken # nil => tst.pendingToken \in buttons
  BY <1>0 DEF RowSane
<1>4. CASE SendCheckin
  <2> DEFINE st == [tst EXCEPT !.pendingToken = tokens + 1,
                               !.lastCheckinSentAt = tnow, !.missCount = 0]
  <2>1. tokens + 1 \in Token /\ tnow \in Instant
    BY <1>0 DEF Token, SafeInv, TypeInv, TypeOK
  <2>2. /\ st \in Row /\ st.phase = tst.phase /\ st.pendingToken = tokens + 1
        /\ st.archive = tst.archive /\ st.warnedAt = tst.warnedAt
        /\ st.passwordSentAt = tst.passwordSentAt
    BY <1>0, <2>1 DEF Row, Maybe
  <2>3. /\ ThenSave(st) /\ buttons' = buttons \cup {tokens + 1}
        /\ tokens' = tokens + 1
    BY <1>4 DEF SendCheckin, ReachesChat
  <2> HIDE DEF st
  <2> QED
    BY <1>0, <1>1, <1>2, <2>2, <2>3
<1>5. CASE SendCheckinFails \/ NothingDue
  <2>1. ThenSave(tst)
    BY <1>5 DEF SendCheckinFails, NothingDue
  <2>2. tokens' \in {tokens, tokens + 1} /\ buttons' \subseteq 1 .. tokens'
    BY <1>2, <1>5 DEF SendCheckinFails, NothingDue, ReachesChat
  <2> QED
    BY <1>0, <1>1, <2>1, <2>2
<1>6. hasOutstandingCheckin(tst) => Missed \in Nat /\ tst.pendingToken \in buttons
  BY <1>0, <1>3, RemindersAreCounted
     DEF hasOutstandingCheckin, Missed, Row, Maybe, SafeInv, TypeInv, TypeOK
<1>7. ASSUME NEW phase \in {"GRACE", "PENDING_TRIGGER"},
             NEW count \in {tst.missCount, Missed},
             ThenSave([tst EXCEPT !.phase = phase, !.missCount = count]),
             hasOutstandingCheckin(tst)
      PROVE  /\ tst'.pendingToken = tst.pendingToken /\ tst'.phase = phase
             /\ tst'.archive = tst.archive /\ tst'.warnedAt = tst.warnedAt
             /\ tst'.passwordSentAt = tst.passwordSentAt
             /\ tpc' = "save"
             /\ UNCHANGED <<now, db, delivered, tnow, ti, tall, cpc, cst, packs, mail>>
  <2> DEFINE st == [tst EXCEPT !.phase = phase, !.missCount = count]
  <2>1. /\ st \in Row /\ st.phase = phase
        /\ st.pendingToken = tst.pendingToken
        /\ st.archive = tst.archive /\ st.warnedAt = tst.warnedAt
        /\ st.passwordSentAt = tst.passwordSentAt
    BY <1>0, <1>6, <1>7 DEF Row, Phases
  <2>2. ThenSave(st)
    BY <1>7
  <2> HIDE DEF st
  <2> QED
    BY <1>1, <2>1, <2>2
<1>8. CASE SendReminder \/ SendReminderFails \/ AlreadyReminded
  <2>1. PICK count \in {tst.missCount, Missed} :
          ThenSave([tst EXCEPT !.phase = "GRACE", !.missCount = count])
    <3>1. Grace(tst) = [tst EXCEPT !.phase = "GRACE", !.missCount = tst.missCount]
      BY <1>0 DEF Grace, Row
    <3>2. [Grace(tst) EXCEPT !.missCount = Missed]
            = [tst EXCEPT !.phase = "GRACE", !.missCount = Missed]
      BY DEF Grace
    <3> QED
      BY <1>8, <3>1, <3>2 DEF SendReminder, SendReminderFails, AlreadyReminded
  <2>2. /\ hasOutstandingCheckin(tst) /\ tokens' = tokens
        /\ buttons' \subseteq buttons \cup {tst.pendingToken}
    BY <1>8
       DEF SendReminder, SendReminderFails, AlreadyReminded, ReachesChat,
           ReminderDue
  <2>3. buttons' \subseteq 1 .. tokens'
    BY <1>6, <2>2
  <2> QED
    BY <1>0, <1>7, <2>1, <2>2, <2>3
<1>9. CASE EnterPendingTrigger
  <2>1. /\ ThenSave([tst EXCEPT !.phase = "PENDING_TRIGGER", !.missCount = Missed])
        /\ hasOutstandingCheckin(tst) /\ tokens' = tokens /\ buttons' = buttons
    BY <1>9 DEF EnterPendingTrigger
  <2> QED
    BY <1>0, <1>7, <2>1
<1> QED
  BY <1>4, <1>5, <1>8, <1>9 DEF AliveStep

(* Deliveries and packing.                                                 *)
LEMMA DeliverEffect ==
  ASSUME SafeInv, DeliverStep
  PROVE  /\ Working /\ tpc' \in {"deliver", "record", "pack", "save"}
         /\ UNCHANGED <<now, db, cpc, cst, tnow, tokens>>
         /\ tst'.pendingToken = tst.pendingToken
         /\ \/ tst' = tst
            \/ /\ tpc = "pack" /\ tst.archive = nil /\ tst'.archive # nil
               /\ tst'.phase = tst.phase /\ tst'.warnedAt = tst.warnedAt
               /\ tst'.passwordSentAt = tst.passwordSentAt
            \/ /\ tpc \in {"deliver", "record"} /\ tpc' = "save"
               /\ tst' = Advanced(tst, tnow) /\ tst'.archive = tst.archive
         /\ UNCHANGED <<mail, buttons>> \/ (tpc = "deliver" /\ Arrives)
<1>0. tst \in Row /\ packs + 1 # nil
  BY StateStoreAssumption DEF SafeInv, TypeInv, TypeOK
<1>1. Advanced(tst, tnow).pendingToken = tst.pendingToken
      /\ Advanced(tst, tnow).archive = tst.archive
  BY <1>0 DEF Advanced, Row
<1>2. CASE Pack \/ PackFails
  <2>1. /\ tpc = "pack" /\ tpc' \in {"deliver", "save"} /\ Working
        /\ UNCHANGED <<now, db, cpc, cst, tnow, tokens, mail, buttons>>
    BY <1>2 DEF Pack, PackFails, DeliverVars, confVars, Working
  <2>2. \/ tst' = tst
        \/ (tst.archive = nil /\ tst' = [tst EXCEPT !.archive = packs + 1])
    BY <1>2 DEF Pack, PackFails
  <2> QED
    BY <1>0, <2>1, <2>2 DEF Row
<1>3. CASE DeliverSends
  BY <1>3 DEF DeliverSends, DeliverVars, confVars, Working, Arrives
<1>4. CASE ~(DeliverSends \/ Pack \/ PackFails)
  <2>1. PICK ok \in BOOLEAN : AfterDeliver(ok) /\ tpc \in {"deliver", "record"}
    BY <1>4 DEF DeliverStep, DeliverSkips, DeliverFails, DeliverLosesAck,
                RecordDelivery, RecordDeliveryFails
  <2>2. UNCHANGED <<now, db, cpc, cst>>
    BY <1>4 DEF DeliverStep, DeliverSkips, DeliverFails, DeliverLosesAck,
                RecordDelivery, RecordDeliveryFails, DeliverVars, confVars
  <2>3. /\ tokens' = tokens
        /\ UNCHANGED <<mail, buttons>> \/ (tpc = "deliver" /\ Arrives)
    BY <1>4 DEF DeliverStep, DeliverSkips, DeliverFails, DeliverLosesAck,
                RecordDelivery, RecordDeliveryFails, worldVars, Arrives
  <2>4. /\ tpc' \in {"save", "pack", "deliver"} /\ tnow' = tnow
        /\ tst' = tst \/ (tpc' = "save" /\ tst' = Advanced(tst, tnow))
    BY <2>1 DEF AfterDeliver
  <2> QED
    BY <1>1, <2>1, <2>2, <2>3, <2>4 DEF Working
<1> QED
  BY <1>2, <1>3, <1>4

(* A message that arrives.                                                 *)
LEMMA ArrivesEffect ==
  ASSUME SafeInv, Working, Arrives
  PROVE  /\ mail'[Key] # nil
         /\ mail'[Key].round = tst.pendingToken /\ mail'[Key].at = tnow
         /\ mail'[Key].archive = tst.archive
         /\ mail'[Key].copies = IF mail[Key] # nil /\ mail[Key].round = tst.pendingToken
                                THEN 2 ELSE 1
         /\ \A x \in Recipient \X Stages : x # Key => mail'[x] = mail[x]
         /\ DOMAIN mail' = DOMAIN mail
         /\ buttons' \subseteq buttons
<1>1. mail'[Key] # nil /\ \A x \in Recipient \X Stages : x # Key => mail'[x] = mail[x]
  BY MailGrows DEF SafeInv
<1>2. Key \in Recipient \X Stages /\ mail \in [Recipient \X Stages -> Maybe(Message)]
  BY StageFacts DEF SafeInv, TypeInv, TypeOK
<1>3. buttons' \subseteq buttons
  BY DEF Arrives, SafeInv, RowSane
<1> DEFINE copies == IF mail[Key] # nil /\ mail[Key].round = tst.pendingToken
                     THEN 2 ELSE 1
           message == [round |-> tst.pendingToken, at |-> tnow,
                       archive |-> tst.archive, copies |-> copies]
<1>4. mail' = [mail EXCEPT ![Key] = message]
  BY DEF Arrives
<1>5. mail'[Key] = message /\ DOMAIN mail' = DOMAIN mail
  BY <1>2, <1>4
<1> QED
  BY <1>1, <1>3, <1>5

-----------------------------------------------------------------------------
(* RoundInv is inductive.                                                  *)

(* A row that goes on with the round of another one, or has none.          *)
Follows(later, st) ==
  later.pendingToken # nil =>
    /\ later.pendingToken = st.pendingToken
    /\ Begun(st.phase) \subseteq Begun(later.phase)

(* What the messages say of a row they say of the rows that follow it.     *)
LEMMA FollowingRow ==
  ASSUME NEW m, NEW st, NEW later,
         NoneAhead(m, st), Latest(m, st), Follows(later, st)
  PROVE  NoneAhead(m, later) /\ Latest(m, later)
BY DEF NoneAhead, Latest, Follows, InRound

(* Phases only go forward within a round.                                  *)
LEMMA PhasesBegun ==
  /\ Begun("ALIVE") = {} /\ Begun("GRACE") = {}
  /\ Begun("PENDING_TRIGGER") = {"WARN"}
  /\ Begun("WARNED") = {"WARN", "PASSWORD"}
  /\ Begun("PASSWORD_SENT") = Stages /\ Begun("FILE_SENT") = Stages
  /\ Begun("COMPLETED") = Stages
BY DEF Begun

(* Steps that send no stage message, with rows that follow the ones there  *)
(* were or have a token made in the step.                                  *)
LEMMA QuietRound ==
  ASSUME RoundInv, SafeInv', mail' = mail,
         tokens' \in {tokens, tokens + 1}, buttons' \subseteq 1 .. tokens',
         Follows(db', db) \/ Follows(db', tst),
         \/ Follows(tst', db) \/ Follows(tst', tst)
         \/ tst'.pendingToken = tokens + 1 /\ tokens' = tokens + 1,
         Working' /\ db'.pendingToken # nil =>
           db'.pendingToken = tst'.pendingToken /\ db'.phase = tst'.phase
  PROVE  RoundInv'
<1>0. tokens \in Nat /\ tokens' \in Nat /\ 1 .. tokens \subseteq 1 .. tokens'
  BY DEF RoundInv, SafeInv, TypeInv, TypeOK
<1>1. \A r \in Recipient, s \in Stages :
        mail[<<r, s>>] # nil => mail[<<r, s>>].round \in Maybe(1 .. tokens)
  BY DEF RoundInv
<1>2. \A r \in Recipient, s \in Stages :
        mail'[<<r, s>>] # nil => mail'[<<r, s>>].round \in Maybe(1 .. tokens')
  BY <1>0, <1>1 DEF Maybe
<1>3. NoneAhead(mail, db') /\ Latest(mail, db')
  BY FollowingRow DEF RoundInv
<1>4. NoneAhead(mail, tst') /\ Latest(mail, tst')
  <2>1. CASE tst'.pendingToken = tokens + 1
    <3>1. tokens + 1 \notin Maybe(1 .. tokens) /\ tokens + 1 # nil
      BY <1>0, StateStoreAssumption DEF Maybe
    <3>2. NoneAhead(mail, tst')
      BY <1>1, <2>1, <3>1 DEF NoneAhead, InRound
    <3>3. \A k \in 1 .. tokens : k <= tokens + 1
      BY <1>0
    <3> QED
      BY <1>1, <2>1, <3>2, <3>3 DEF Latest, Maybe
  <2> QED
    BY <2>1, FollowingRow DEF RoundInv
<1>5. (NoneAhead(mail, db) /\ Latest(mail, db))'
      /\ (NoneAhead(mail, tst) /\ Latest(mail, tst))'
  BY <1>3, <1>4
<1> QED
  BY <1>2, <1>5 DEF RoundInv

LEMMA RoundSends ==
  ASSUME RoundInv, SafeInv', tpc = "deliver", Arrives,
         UNCHANGED <<db, tokens>>, Follows(tst', tst),
         tst'.pendingToken = tst.pendingToken,
         Working' => tst'.phase = tst.phase
  PROVE  RoundInv'
<1>0. /\ Working /\ SafeInv /\ tokens \in Nat /\ TypeInv
      /\ buttons \subseteq 1 .. tokens /\ RowSane(tst)
  BY DEF RoundInv, Working, SafeInv, TypeInv, TypeOK
<1>1. /\ mail'[Key].round = tst.pendingToken
      /\ \A x \in Recipient \X Stages : x # Key => mail'[x] = mail[x]
      /\ buttons' \subseteq buttons
  BY <1>0, ArrivesEffect
<1>2. /\ tst.phase \in {"PENDING_TRIGGER", "WARNED", "PASSWORD_SENT"}
      /\ Key \in Recipient \X Stages /\ Stage \in Begun(tst.phase)
  BY <1>0, StageFacts, PhasesBegun DEF Stages
<1>3. tst.pendingToken \in 1 .. tokens
  BY <1>0, <1>2 DEF RowSane
<1>4. \A r \in Recipient, s \in Stages :
        mail'[<<r, s>>] # nil =>
          \/ <<r, s>> # Key /\ mail[<<r, s>>] # nil
                            /\ mail'[<<r, s>>].round = mail[<<r, s>>].round
          \/ s = Stage /\ mail'[<<r, s>>].round = tst.pendingToken
  BY <1>1 DEF Key
<1>5. \A r \in Recipient, s \in Stages :
        mail'[<<r, s>>] # nil => mail'[<<r, s>>].round \in Maybe(1 .. tokens)
  BY <1>3, <1>4 DEF RoundInv, Maybe
<1>6. ASSUME NEW st, NoneAhead(mail, st), Latest(mail, st),
             st.pendingToken # nil =>
               st.pendingToken = tst.pendingToken /\ st.phase = tst.phase
      PROVE  NoneAhead(mail', st) /\ Latest(mail', st)
  <2>1. NoneAhead(mail', st)
    BY <1>2, <1>4, <1>6 DEF NoneAhead, InRound
  <2>2. tst.pendingToken <= tst.pendingToken
    BY <1>0, <1>3
  <2> QED
    BY <1>4, <1>6, <2>1, <2>2 DEF Latest
<1>7. NoneAhead(mail', db) /\ Latest(mail', db)
      /\ NoneAhead(mail', tst) /\ Latest(mail', tst)
  BY <1>0, <1>6 DEF RoundInv
<1>8. (NoneAhead(mail, db) /\ Latest(mail, db))'
      /\ (NoneAhead(mail, tst) /\ Latest(mail, tst))'
  BY <1>7, FollowingRow
<1>9. (Working /\ db.pendingToken # nil =>
         db.pendingToken = tst.pendingToken /\ db.phase = tst.phase)'
  BY <1>0 DEF RoundInv
<1> QED
  BY <1>0, <1>1, <1>5, <1>8, <1>9 DEF RoundInv

(* A flow is at its messages only between its begin and its end, and goes  *)
(* on with the row it loaded.                                              *)
LEMMA RoundNext == RoundInv /\ [Next]_vars => RoundInv'
<1> SUFFICES ASSUME RoundInv, [Next]_vars
             PROVE  RoundInv'
  OBVIOUS
<1>0. /\ SafeInv' /\ SafeInv /\ db \in Row /\ tst \in Row
      /\ buttons \subseteq 1 .. tokens
      /\ cst.pendingToken = nil /\ InitialRow.pendingToken = nil
  BY SafeNext DEF RoundInv, SafeInv, TypeInv, TypeOK, InitialRow
<1>1. ASSUME UNCHANGED <<mail, buttons, tokens>>,
             Follows(db', db) \/ Follows(db', tst),
             Follows(tst', db) \/ Follows(tst', tst),
             \/ ~Working'
             \/ db' = tst'
             \/ db'.pendingToken = nil
             \/ tst' = tst /\ db' = db /\ Working
      PROVE  RoundInv'
  BY <1>0, <1>1, QuietRound DEF RoundInv
<1>2. \A st : Follows(st, st)
  BY DEF Follows
<1>3. CASE UNCHANGED vars
  BY <1>1, <1>2, <1>3 DEF vars, tickVars, worldVars, Working
<1>4. CASE AliveStep
  <2>1. /\ mail' = mail /\ db' = db /\ tpc' = "save" /\ tpc = "alive"
        /\ tokens' \in {tokens, tokens + 1} /\ buttons' \subseteq 1 .. tokens'
        /\ tst.phase \in {"ALIVE", "GRACE"}
        /\ \/ tst'.pendingToken = tst.pendingToken
           \/ tst'.pendingToken = tokens + 1 /\ tokens' = tokens + 1
    BY <1>0, <1>4, AliveEffect
  <2>2. Begun(tst.phase) \subseteq Begun(tst'.phase)
    BY <2>1, PhasesBegun
  <2>3. \/ Follows(tst', tst)
        \/ tst'.pendingToken = tokens + 1 /\ tokens' = tokens + 1
    BY <2>1, <2>2 DEF Follows
  <2> QED
    BY <1>0, <1>2, <2>1, <2>3, QuietRound DEF Working
<1>5. CASE DeliverStep
  <2>1. /\ Working /\ UNCHANGED <<db, tokens>>
        /\ tst'.pendingToken = tst.pendingToken
        /\ \/ tst'.phase = tst.phase
           \/ tpc' = "save" /\ tst' = Advanced(tst, tnow)
        /\ UNCHANGED <<mail, buttons>> \/ (tpc = "deliver" /\ Arrives)
    BY <1>0, <1>5, DeliverEffect
  <2>2. Begun(tst.phase) \subseteq Begun(Advanced(tst, tnow).phase)
    <3>1. tst.phase \in {"PENDING_TRIGGER", "WARNED", "PASSWORD_SENT"}
      BY <1>0, <2>1, StageFacts DEF SafeInv
    <3> QED
      BY <1>0, <3>1, PhasesBegun DEF Advanced, Row, Stages
  <2>3. Follows(tst', tst) /\ (Working' => tst'.phase = tst.phase)
    BY <2>1, <2>2 DEF Follows, Working
  <2>4. CASE tpc = "deliver" /\ Arrives
    BY <1>0, <2>1, <2>3, <2>4, RoundSends
  <2>5. CASE UNCHANGED <<mail, buttons>>
    BY <1>0, <1>2, <2>1, <2>3, <2>5, QuietRound DEF RoundInv
  <2> QED
    BY <2>1, <2>4, <2>5
<1>6. CASE TickAlive \/ TickStage \/ TickFileSent
  <2>1. PICK st \in {db, [db EXCEPT !.phase = "COMPLETED"]} :
          /\ tst' = st /\ db' = db /\ UNCHANGED <<mail, buttons, tokens>>
          /\ tpc' \in {"alive", "save"} \/ st = db
    BY <1>6 DEF TickAlive, TickStage, TickFileSent, BeginTick, worldVars
  <2>2. db.phase \in Phases
    BY <1>0 DEF SafeInv, RowSane
  <2>3. Begun(db.phase) \subseteq Begun("COMPLETED")
    BY <2>2, PhasesBegun DEF Phases, Stages
  <2>4. Follows(st, db)
    BY <1>0, <2>3 DEF Follows, Row
  <2> QED
    BY <1>1, <1>2, <2>1, <2>4 DEF Working
<1>7. CASE TickNothing \/ Clock
  BY <1>1, <1>2, <1>7 DEF TickNothing, Clock, worldVars, Working
<1>8. CASE TickSave
  BY <1>0, <1>1, <1>2, <1>8
     DEF TickSave, EndTick, worldVars, Working, Follows
<1>9. CASE TickAborts \/ Crash
  BY <1>0, <1>1, <1>2, <1>9
     DEF TickAborts, Crash, EndTick, worldVars, Working, Follows
<1>10. CASE ConfirmLoad \/ ConfirmStep \/ ConfirmFails
  <2>1. /\ db' \in {db, cst} /\ UNCHANGED <<tst, tpc, mail, buttons, tokens>>
    BY <1>10 DEF ConfirmLoad, ConfirmStep, ConfirmSave,
                 ConfirmSaveWithoutArchive, ConfirmClearDeliveries,
                 ConfirmFails, tickVars, worldVars
  <2> QED
    BY <1>0, <1>1, <1>2, <2>1 DEF Working, Follows
<1>11. CASE BootStep
  <2>1. /\ tpc' \in {"idle", "bootClear"} /\ tst' = tst
        /\ db' \in {db, resetToAlive(db, now)}
        /\ UNCHANGED <<mail, buttons, tokens>>
    BY <1>11
       DEF BootStep, BootKeeps, BootResets, BootClearsDeliveries, worldVars
  <2>2. resetToAlive(db, now).pendingToken = nil
    BY <1>0 DEF resetToAlive, WithoutArchive, Confirmed, Row
  <2> QED
    BY <1>1, <1>2, <2>1, <2>2 DEF Working, Follows
<1> QED
  BY <1>3, <1>4, <1>5, <1>6, <1>7, <1>8, <1>9, <1>10, <1>11
     DEF Next, TickStep, BeginStep

LEMMA RoundInit == Init => RoundInv
<1> SUFFICES ASSUME Init PROVE RoundInv
  OBVIOUS
<1>1. \A r \in Recipient, s \in Stages : mail[<<r, s>>] = nil
  BY DEF Init
<1>2. db.pendingToken = nil /\ tst.pendingToken = nil
  BY DEF Init, InitialRow
<1> QED
  BY SafeInit, <1>1, <1>2
     DEF RoundInv, Init, NoneAhead, Latest, InRound, Working

-----------------------------------------------------------------------------
(* A start on an earlier version's database.                               *)

(* What a start finds that has not written anything yet, with the row of   *)
(* an earlier version.                                                     *)
EarlierVersion(row) ==
  /\ row \in LegacyRow
  /\ now \in Instant
  /\ delivered \subseteq Recipient \X Stages /\ LegacyDeliveries(row, delivered)
  /\ tst = InitialRow /\ tnow = 0 /\ ti = 0 /\ tall = TRUE
  /\ ticked = FALSE
  /\ cpc = "idle" /\ cst = InitialRow /\ ctok = nil
  /\ buttons = {row.pendingToken} \ {nil}
  /\ tokens = 1 /\ packs = 1 /\ faults = 0
  /\ mail = [x \in Recipient \X Stages |->
               IF x \notin delivered THEN nil
               ELSE [round |-> row.pendingToken, at |-> 1,
                     archive |-> row.archive, copies |-> 1]]
  /\ accepted = {}

LegacyStart == tpc = "boot" /\ EarlierVersion(db)

(* The first step keeps the row, or resets it and is about to delete its   *)
(* deliveries.                                                             *)
LegacyLoaded(row) ==
  /\ EarlierVersion(row)
  /\ \/ tpc = "idle" /\ db = row /\ targetFlowNormalizationReason(row) = ""
     \/ tpc = "bootClear" /\ \E t \in Instant : db = resetToAlive(row, t)

LEMMA LegacyBegins == LegacyInit => LegacyStart
BY DEF LegacyInit, LegacyStart, EarlierVersion, Instant

(* Nothing but the clock and normalisation can take a step before the      *)
(* database has been looked at.                                            *)
LEMMA LegacyLoads ==
  LegacyStart /\ [Next]_vars => LegacyStart' \/ \E row : LegacyLoaded(row)'
<1> SUFFICES ASSUME LegacyStart, [Next]_vars
             PROVE  LegacyStart' \/ \E row : LegacyLoaded(row)'
  OBVIOUS
<1>1. BootKeeps \/ BootResets \/ Clock \/ UNCHANGED vars
  BY DEF LegacyStart, EarlierVersion, Next, TickStep, BeginStep, AliveStep, DeliverStep,
         ConfirmStep, BootStep, TickAlive, TickStage, TickFileSent, TickNothing,
         BeginTick, SendCheckin, SendCheckinFails, SendReminder,
         SendReminderFails, AlreadyReminded, EnterPendingTrigger, NothingDue,
         CheckinDue, ReminderDue, DeliverSkips, DeliverSends, DeliverFails,
         DeliverLosesAck, RecordDelivery, RecordDeliveryFails, Pack, PackFails,
         TickSave, TickAborts, ConfirmLoad, ConfirmSave,
         ConfirmSaveWithoutArchive, ConfirmClearDeliveries, ConfirmFails,
         BootClearsDeliveries, Crash
<1>2. CASE BootKeeps
  <2>1. LegacyLoaded(db)'
    BY <1>2 DEF LegacyStart, LegacyLoaded, EarlierVersion, BootKeeps, confVars,
                worldVars
  <2> QED
    BY <2>1
<1>3. CASE BootResets
  <2>1. /\ UNCHANGED <<now, delivered, tst, tnow, ti, tall, ticked, cpc, cst,
                       ctok, buttons, tokens, packs, mail, faults, accepted>>
        /\ tpc' = "bootClear" /\ db' = resetToAlive(db, now)
    BY <1>3 DEF BootResets, confVars, worldVars
  <2> QED
    BY <2>1 DEF LegacyStart, LegacyLoaded, EarlierVersion
<1>4. CASE Clock
  BY <1>4 DEF Clock, LegacyStart, EarlierVersion, confVars, worldVars, Instant
<1>5. CASE UNCHANGED vars
  BY <1>5 DEF vars, tickVars, confVars, worldVars, LegacyStart, EarlierVersion
<1> QED
  BY <1>1, <1>2, <1>3, <1>4, <1>5

(* The facts about such a database the invariants are about.               *)
LEMMA EarlierFacts ==
  ASSUME NEW row, EarlierVersion(row)
  PROVE  /\ row \in Row /\ InitialRow \in Row
         /\ InitialRow.pendingToken = nil /\ InitialRow.phase = "ALIVE"
         /\ \A r \in Recipient, s \in Stages :
              /\ mail[<<r, s>>] # nil <=> <<r, s>> \in delivered
              /\ mail[<<r, s>>] # nil =>
                   /\ mail[<<r, s>>].round = row.pendingToken
                   /\ mail[<<r, s>>].archive = row.archive
                   /\ mail[<<r, s>>].copies = 1
         /\ mail \in [Recipient \X Stages -> Maybe(Message)]
         /\ row.pendingToken \in {nil, 1} /\ buttons \subseteq {1}
<1>1. /\ 0 \in Instant /\ 1 \in Instant /\ 1 \in Token /\ 1 \in Archive
      /\ nil \notin Nat
  BY StateStoreAssumption DEF Instant, Token, Archive
<1>2. row \in Row /\ row.pendingToken \in {nil, 1} /\ row.archive \in {nil, 1}
  BY <1>1 DEF EarlierVersion, LegacyRow, Row, Maybe
<1>3. /\ InitialRow \in Row
      /\ InitialRow.pendingToken = nil /\ InitialRow.phase = "ALIVE"
  BY <1>1 DEF InitialRow, Row, Phases, Maybe
<1> DEFINE message == [round |-> row.pendingToken, at |-> 1,
                       archive |-> row.archive, copies |-> 1]
<1>4. message \in Message /\ message # nil
  <2>1. message \in Message
    BY <1>1, <1>2 DEF Message, Maybe
  <2> QED
    BY <2>1, MessageAssumption
<1>5. mail = [x \in Recipient \X Stages |->
                IF x \notin delivered THEN nil ELSE message]
  BY DEF EarlierVersion
<1>6. mail \in [Recipient \X Stages -> Maybe(Message)]
  <2> HIDE DEF message
  <2> QED
    BY <1>4, <1>5 DEF Maybe
<1>7. \A r \in Recipient, s \in Stages :
        /\ mail[<<r, s>>] # nil <=> <<r, s>> \in delivered
        /\ mail[<<r, s>>] # nil =>
             /\ mail[<<r, s>>].round = row.pendingToken
             /\ mail[<<r, s>>].archive = row.archive
             /\ mail[<<r, s>>].copies = 1
  <2>1. /\ message.round = row.pendingToken /\ message.archive = row.archive
        /\ message.copies = 1
    OBVIOUS
  <2> HIDE DEF message
  <2> QED
    BY <1>4, <1>5, <2>1
<1>8. buttons \subseteq {1}
  BY <1>2 DEF EarlierVersion
<1> QED
  BY <1>2, <1>3, <1>6, <1>7, <1>8

(* Its deliveries are in the order of the stages, and none is ahead of the *)
(* phase.                                                                  *)
LEMMA EarlierOrder ==
  ASSUME NEW row, EarlierVersion(row)
  PROVE  /\ {"WARN", "PASSWORD", "FILE"} = Stages /\ Owner \in Recipient
         /\ \A r \in Recipient, s \in StagesDone(row.phase) : <<r, s>> \in delivered
         /\ \A r \in Recipient, s \in Stages :
              <<r, s>> \in delivered =>
                /\ <<Owner, s>> \in delivered
                /\ row.phase \in Phases => s \in Begun(row.phase)
         /\ \A r \in Recipient, q \in Recipient :
              /\ <<r, "PASSWORD">> \in delivered => <<q, "WARN">> \in delivered
              /\ <<r, "FILE">> \in delivered => <<q, "PASSWORD">> \in delivered
<1>1. {"WARN", "PASSWORD", "FILE"} = Stages /\ Owner \in Recipient
  BY BeneficiariesAreCounted DEF Stages, Recipient, To
<1>2. /\ row.phase \in Phases \cup {LegacyPhase}
      /\ \A r \in Recipient, s \in StagesDone(row.phase) : <<r, s>> \in delivered
      /\ \A r \in Recipient, s \in Stages :
           <<r, s>> \in delivered =>
             /\ s \in StagesDone(row.phase) \/ s \in StageNow(row.phase)
             /\ <<Owner, s>> \in delivered
  <2>1. /\ Recipient \X StagesDone(row.phase) \subseteq delivered
        /\ delivered \subseteq
             Recipient \X (StagesDone(row.phase) \cup StageNow(row.phase))
        /\ \A x \in delivered : <<Owner, x[2]>> \in delivered
    BY DEF EarlierVersion, LegacyDeliveries
  <2> QED
    BY <2>1 DEF EarlierVersion, LegacyRow
<1>3. /\ StageNow("PENDING_TRIGGER") = {"WARN"} /\ StageNow("WARNED") = {"PASSWORD"}
      /\ StageNow("PASSWORD_SENT") = {"FILE"}
      /\ \A phase \in {"ALIVE", "GRACE", "FILE_SENT", "COMPLETED", LegacyPhase} :
           StageNow(phase) = {}
  BY DEF StageNow, StageOf, LegacyPhase
<1>4. /\ StagesDone("ALIVE") = {} /\ StagesDone("GRACE") = {}
      /\ StagesDone("PENDING_TRIGGER") = {} /\ StagesDone("WARNED") = {"WARN"}
      /\ StagesDone(LegacyPhase) = {"WARN"}
      /\ StagesDone("PASSWORD_SENT") = {"WARN", "PASSWORD"}
      /\ StagesDone("FILE_SENT") = Stages /\ StagesDone("COMPLETED") = Stages
  BY DEF StagesDone, LegacyPhase
<1>5. LegacyPhase \notin Phases
  BY DEF LegacyPhase, Phases
<1> QED
  BY <1>1, <1>2, <1>3, <1>4, <1>5, PhasesBegun DEF Phases

LEMMA LegacyFacts ==
  ASSUME NEW row, LegacyLoaded(row)
  PROVE  /\ EarlierVersion(row) /\ tpc \in {"idle", "bootClear"}
         /\ tpc = "bootClear" => db.phase = "ALIVE" /\ db.pendingToken = nil
         /\ tpc = "idle" =>
              /\ db = row /\ row.phase \in Phases
              /\ targetFlowNormalizationReason(row) = ""
         /\ db \in Row
<1>1. EarlierVersion(row) /\ row \in Row
  BY EarlierFacts DEF LegacyLoaded
<1>2. \A t \in Instant : /\ resetToAlive(row, t) \in Row
                         /\ resetToAlive(row, t).phase = "ALIVE"
                         /\ resetToAlive(row, t).pendingToken = nil
  BY <1>1 DEF resetToAlive, WithoutArchive, Confirmed, Row, Phases, Maybe
<1>3. targetFlowNormalizationReason(row) = "" => row.phase \in Phases
  BY DEF targetFlowNormalizationReason
<1> QED
  BY <1>1, <1>2, <1>3 DEF LegacyLoaded

LEMMA LegacySafe == \A row : LegacyLoaded(row) => SafeInv
<1> SUFFICES ASSUME NEW row, LegacyLoaded(row)
             PROVE  SafeInv
  OBVIOUS
<1>0. EarlierVersion(row) /\ tpc \in {"idle", "bootClear"}
  BY LegacyFacts
<1>1. /\ row \in Row /\ InitialRow \in Row
      /\ InitialRow.pendingToken = nil /\ InitialRow.phase = "ALIVE"
      /\ \A r \in Recipient, s \in Stages :
           mail[<<r, s>>] # nil <=> <<r, s>> \in delivered
      /\ mail \in [Recipient \X Stages -> Maybe(Message)]
      /\ row.pendingToken \in {nil, 1} /\ buttons \subseteq {1}
      /\ tpc = "bootClear" => db.phase = "ALIVE" /\ db.pendingToken = nil
      /\ tpc = "idle" => db = row /\ row.phase \in Phases
      /\ db \in Row
  BY <1>0, EarlierFacts, LegacyFacts
<1>2. delivered \subseteq Recipient \X Stages
  BY <1>0 DEF EarlierVersion
<1>3. TypeInv
  <2>1. delivered \subseteq Recipient \X Stages
    BY <1>2
  <2>2. buttons \subseteq Token /\ 0 \in 0 .. Len(Beneficiaries) /\ 0 \in Instant
    BY <1>1, BeneficiariesAreCounted DEF Token, Instant
  <2> QED
    BY <1>0, <1>1, <2>1, <2>2
       DEF EarlierVersion, TypeInv, TypeOK, Working, TickPC, ConfPC, Maybe
<1>6. InOrder
  BY <1>0, <1>1, EarlierOrder DEF InOrder, Warned, Unlocked
<1>7. RowSane(InitialRow)
  BY <1>1 DEF RowSane, Phases
<1>8. RowSane(db)
  <2>1. CASE tpc = "bootClear"
    BY <1>1, <2>1 DEF RowSane, Phases
  <2>2. CASE tpc = "idle"
    <3>1. db = row /\ targetFlowNormalizationReason(row) = ""
      BY <2>2, LegacyFacts
    <3>2. /\ row.phase \in Phases
          /\ row.phase \in {"GRACE", "PENDING_TRIGGER", "WARNED", "PASSWORD_SENT"} =>
               row.pendingToken # nil /\ row.lastCheckinSentAt # nil
          /\ row.phase = "PASSWORD_SENT" => row.archive # nil
      BY <3>1 DEF targetFlowNormalizationReason, Phases
    <3>3. row.pendingToken # nil => row.pendingToken \in buttons
      BY <1>0 DEF EarlierVersion
    <3>4. /\ row.phase \in {"WARNED", "PASSWORD_SENT", "FILE_SENT", "COMPLETED"} => Warned
          /\ row.phase \in {"PASSWORD_SENT", "FILE_SENT", "COMPLETED"} => Unlocked
      <4>1. /\ row.phase \in {"WARNED", "PASSWORD_SENT", "FILE_SENT", "COMPLETED"} =>
                 "WARN" \in StagesDone(row.phase)
            /\ row.phase \in {"PASSWORD_SENT", "FILE_SENT", "COMPLETED"} =>
                 "PASSWORD" \in StagesDone(row.phase)
            /\ "WARN" \in Stages /\ "PASSWORD" \in Stages
        BY DEF StagesDone, Stages
      <4> QED
        BY <1>0, <1>1, <4>1, EarlierOrder DEF Warned, Unlocked
    <3> QED
      BY <3>1, <3>2, <3>3, <3>4 DEF RowSane
  <2> QED
    BY <1>0, <2>1, <2>2
<1>9. \A x \in delivered : mail[x] # nil
  BY <1>1, <1>2
<1> QED
  BY <1>0, <1>1, <1>3, <1>6, <1>7, <1>8, <1>9
     DEF SafeInv, EarlierVersion, AlivePhase, Progress

LEMMA LegacyRound == \A row : LegacyLoaded(row) => RoundInv
<1> SUFFICES ASSUME NEW row, LegacyLoaded(row)
             PROVE  RoundInv
  OBVIOUS
<1>0. EarlierVersion(row) /\ tpc \in {"idle", "bootClear"} /\ SafeInv
  BY LegacySafe, LegacyFacts
<1>1. /\ InitialRow.pendingToken = nil
      /\ \A r \in Recipient, s \in Stages :
           /\ mail[<<r, s>>] # nil <=> <<r, s>> \in delivered
           /\ mail[<<r, s>>] # nil => mail[<<r, s>>].round = row.pendingToken
      /\ row.pendingToken \in {nil, 1} /\ buttons \subseteq {1}
      /\ tpc = "bootClear" => db.pendingToken = nil
      /\ tpc = "idle" => db = row /\ row.phase \in Phases
  BY <1>0, EarlierFacts, LegacyFacts
<1>2. tokens = 1 /\ tst = InitialRow
  BY <1>0 DEF EarlierVersion
<1>3. \A r \in Recipient, s \in Stages :
        <<r, s>> \in delivered /\ row.phase \in Phases => s \in Begun(row.phase)
  BY <1>0, EarlierOrder
<1>4. NoneAhead(mail, db)
  BY <1>0, <1>1, <1>3 DEF NoneAhead, InRound
<1>5. Latest(mail, db)
  BY <1>0, <1>1 DEF Latest
<1>6. NoneAhead(mail, tst) /\ Latest(mail, tst)
  BY <1>1, <1>2 DEF NoneAhead, Latest, InRound
<1> QED
  BY <1>0, <1>1, <1>2, <1>4, <1>5, <1>6 DEF RoundInv, Working, Maybe

-----------------------------------------------------------------------------
(* The passwords of a round open its archive, unless a tick's row is lost. *)

(* The row a decision is about.                                            *)
Idle == tpc \in {"boot", "bootClear", "idle"}
Current == IF Idle THEN db ELSE tst

(* Password mails of the round a row is in were sent for the archive the   *)
(* row has.                                                                *)
ArchiveKept(m, st) ==
  \A r \in Recipient \ {Owner} :
    InRound(m, st, r, "PASSWORD") =>
      /\ m[<<r, "PASSWORD">>].archive = st.archive
      /\ st.phase = "WARNED" => st.archive # nil

ArchiveInv ==
  /\ RoundInv
  /\ ArchiveKept(mail, Current)
  /\ PasswordsOpenTheArchive

LEMMA ArchiveFollows ==
  ASSUME NEW m, NEW st, NEW later, ArchiveKept(m, st),
         later.pendingToken # nil =>
           /\ later.pendingToken = st.pendingToken
           /\ later.archive = st.archive
           /\ later.phase = "WARNED" => st.phase = "WARNED"
  PROVE  ArchiveKept(m, later)
BY DEF ArchiveKept, InRound

(* A message that arrives is for the archive of the row, and before the    *)
(* password stage there is none that could be for another one.             *)
LEMMA ArchiveArrives ==
  ASSUME ArchiveInv, tpc = "deliver", Arrives
  PROVE  /\ ArchiveKept(mail', tst) /\ PasswordsOpenTheArchive'
         /\ tst.phase = "PENDING_TRIGGER" =>
              \A r \in Recipient : ~InRound(mail', tst, r, "PASSWORD")
<1>0. /\ Working /\ SafeInv /\ TypeInv /\ RowSane(tst) /\ Current = tst
      /\ NoneAhead(mail, tst) /\ ArchiveKept(mail, tst)
  BY DEF ArchiveInv, RoundInv, SafeInv, Working, Current, Idle
<1>1. /\ mail'[Key].round = tst.pendingToken /\ mail'[Key] # nil
      /\ mail'[Key].archive = tst.archive
      /\ \A x \in Recipient \X Stages : x # Key => mail'[x] = mail[x]
  BY <1>0, ArrivesEffect
<1>2. /\ tst.phase \in {"PENDING_TRIGGER", "WARNED", "PASSWORD_SENT"}
      /\ tst.phase = "WARNED" <=> Stage = "PASSWORD"
      /\ tst.phase = "PASSWORD_SENT" <=> Stage = "FILE"
      /\ {"PASSWORD", "FILE"} \subseteq Stages
  BY <1>0, StageFacts DEF Stages
<1>3. tst.pendingToken # nil
  BY <1>0, <1>2 DEF RowSane
<1>4. tst.phase = "PENDING_TRIGGER" =>
        \A r \in Recipient : ~InRound(mail', tst, r, "PASSWORD")
  BY <1>0, <1>1, <1>2, PhasesBegun DEF NoneAhead, InRound, Key
<1>5. Stage = "PASSWORD" /\ To(ti) # Owner => tst.archive # nil
  BY <1>0, <1>2 DEF SafeInv, Progress, TypeInv, TypeOK, To
<1>6. ArchiveKept(mail', tst)
  <2> SUFFICES ASSUME NEW r \in Recipient \ {Owner},
                      InRound(mail', tst, r, "PASSWORD")
               PROVE  /\ mail'[<<r, "PASSWORD">>].archive = tst.archive
                      /\ tst.phase = "WARNED" => tst.archive # nil
    BY DEF ArchiveKept
  <2>1. CASE <<r, "PASSWORD">> = Key
    BY <1>1, <1>5, <2>1 DEF Key
  <2>2. CASE <<r, "PASSWORD">> # Key
    BY <1>0, <1>1, <1>2, <2>2 DEF ArchiveKept, InRound
  <2> QED
    BY <2>1, <2>2
<1>7. PasswordsOpenTheArchive'
  <2> SUFFICES ASSUME NEW r \in Recipient \ {Owner}, NEW q \in Recipient \ {Owner},
                      mail'[<<r, "PASSWORD">>] # nil, mail'[<<q, "FILE">>] # nil,
                      mail'[<<r, "PASSWORD">>].round = mail'[<<q, "FILE">>].round
               PROVE  mail'[<<r, "PASSWORD">>].archive = mail'[<<q, "FILE">>].archive
    BY DEF PasswordsOpenTheArchive
  <2>1. CASE <<q, "FILE">> = Key
    <3>1. mail'[<<r, "PASSWORD">>].archive = tst.archive
      BY <1>1, <1>3, <1>6, <2>1 DEF ArchiveKept, InRound
    <3> QED
      BY <1>1, <2>1, <3>1
  <2>2. CASE <<q, "FILE">> # Key /\ <<r, "PASSWORD">> = Key
    <3>1. InRound(mail, tst, q, "FILE") /\ tst.phase = "WARNED"
      BY <1>1, <1>2, <1>3, <2>2 DEF InRound, Key
    <3> QED
      BY <1>0, <1>2, <3>1, PhasesBegun DEF NoneAhead
  <2>3. CASE <<q, "FILE">> # Key /\ <<r, "PASSWORD">> # Key
    <3>1. mail'[<<q, "FILE">>] = mail[<<q, "FILE">>]
          /\ mail'[<<r, "PASSWORD">>] = mail[<<r, "PASSWORD">>]
      BY <1>1, <1>2, <2>3
    <3> QED
      BY <3>1 DEF ArchiveInv, PasswordsOpenTheArchive
  <2> QED
    BY <2>1, <2>2, <2>3
<1> QED
  BY <1>4, <1>6, <1>7

LEMMA ArchiveNext ==
  ASSUME "crash" \notin FaultKinds, "abort" \notin FaultKinds
  PROVE  ArchiveInv /\ [Next]_vars => ArchiveInv'
<1> SUFFICES ASSUME ArchiveInv, [Next]_vars
             PROVE  ArchiveInv'
  OBVIOUS
<1>0. /\ RoundInv' /\ RoundInv /\ SafeInv /\ TypeInv /\ db \in Row /\ tst \in Row
      /\ buttons \subseteq 1 .. tokens /\ tokens \in Nat
      /\ NoneAhead(mail, tst) /\ ArchiveKept(mail, Current)
      /\ PasswordsOpenTheArchive
      /\ cst.pendingToken = nil /\ InitialRow.pendingToken = nil
  BY RoundNext DEF ArchiveInv, RoundInv, SafeInv, TypeInv, TypeOK, InitialRow
<1>1. ASSUME mail' = mail,
             Current'.pendingToken # nil =>
               /\ Current'.pendingToken = Current.pendingToken
               /\ Current'.archive = Current.archive
               /\ Current'.phase = "WARNED" => Current.phase = "WARNED"
      PROVE  ArchiveInv'
  <2>1. ArchiveKept(mail, Current')
    BY <1>0, <1>1, ArchiveFollows
  <2>2. ArchiveKept(mail, Current)'
    BY <1>1, <2>1
  <2> QED
    BY <1>0, <1>1, <2>2 DEF ArchiveInv, PasswordsOpenTheArchive
<1>2. CASE UNCHANGED vars
  BY <1>1, <1>2 DEF vars, tickVars, worldVars, Current, Idle
<1>3. CASE AliveStep
  <2>1. /\ mail' = mail /\ db' = db /\ tpc' = "save" /\ tpc = "alive"
        /\ tst'.archive = tst.archive
        /\ tst'.phase \in {"ALIVE", "GRACE", "PENDING_TRIGGER"}
        /\ \/ tst'.pendingToken = tst.pendingToken
           \/ tst'.pendingToken = tokens + 1
    BY <1>0, <1>3, AliveEffect
  <2>2. Current = tst /\ Current' = tst'
    BY <2>1 DEF Current, Idle
  <2>3. CASE tst'.pendingToken = tst.pendingToken
    BY <1>1, <2>1, <2>2, <2>3
  <2>4. CASE tst'.pendingToken = tokens + 1
    <3>1. tokens + 1 \notin Maybe(1 .. tokens)
      BY <1>0, StateStoreAssumption DEF Maybe
    <3>2. ArchiveKept(mail, tst')
      BY <1>0, <2>4, <3>1 DEF ArchiveKept, InRound, RoundInv, Stages
    <3>3. ArchiveKept(mail, Current)'
      BY <2>1, <2>2, <3>2
    <3> QED
      BY <1>0, <2>1, <3>3 DEF ArchiveInv, PasswordsOpenTheArchive
  <2> QED
    BY <2>1, <2>3, <2>4
<1>4. CASE DeliverStep
  <2>1. /\ Working /\ tpc' \in {"deliver", "record", "pack", "save"}
        /\ tst'.pendingToken = tst.pendingToken
        /\ \/ tst' = tst
           \/ /\ tpc = "pack" /\ tst.archive = nil
              /\ tst'.phase = tst.phase
           \/ /\ tpc \in {"deliver", "record"}
              /\ tst' = Advanced(tst, tnow) /\ tst'.archive = tst.archive
        /\ UNCHANGED <<mail, buttons>> \/ (tpc = "deliver" /\ Arrives)
    BY <1>0, <1>4, DeliverEffect
  <2>2. Current = tst /\ Current' = tst'
    BY <2>1 DEF Current, Idle, Working
  <2>3. tst.phase \in {"PENDING_TRIGGER", "WARNED", "PASSWORD_SENT"}
    BY <1>0, <2>1, StageFacts
  <2>4. ArchiveKept(mail', tst) /\ PasswordsOpenTheArchive'
        /\ (tst.phase = "PENDING_TRIGGER" =>
              \A r \in Recipient : ~InRound(mail', tst, r, "PASSWORD"))
    <3>1. CASE tpc = "deliver" /\ Arrives
      BY <3>1, ArchiveArrives
    <3>2. CASE mail' = mail
      BY <1>0, <2>2, <3>2, PhasesBegun
         DEF PasswordsOpenTheArchive, NoneAhead, Stages
    <3> QED
      BY <2>1, <3>1, <3>2
  <2>5. ArchiveKept(mail', tst')
    <3>1. CASE tst' = tst
      BY <2>4, <3>1
    <3>2. CASE tpc = "pack" /\ tst.archive = nil /\ tst'.phase = tst.phase
      <4>1. tst.phase = "WARNED"
        BY <1>0, <3>2 DEF SafeInv, Progress
      <4> QED
        BY <2>1, <2>4, <3>2, <4>1 DEF ArchiveKept, InRound
    <3>3. CASE tst' = Advanced(tst, tnow) /\ tst'.archive = tst.archive
      <4>1. CASE tst.phase = "PENDING_TRIGGER"
        BY <2>1, <2>4, <4>1 DEF ArchiveKept, InRound
      <4>2. CASE tst.phase # "PENDING_TRIGGER"
        <5>1. tst'.phase # "WARNED"
          BY <1>0, <2>3, <3>3, <4>2 DEF Advanced, Row
        <5> QED
          BY <2>1, <2>4, <3>3, <5>1, ArchiveFollows
      <4> QED
        BY <4>1, <4>2
    <3> QED
      BY <2>1, <3>1, <3>2, <3>3
  <2>6. ArchiveKept(mail, Current)'
    BY <2>2, <2>5
  <2> QED
    BY <1>0, <2>4, <2>6 DEF ArchiveInv
<1>5. CASE TickAlive \/ TickStage \/ TickFileSent
  <2>1. PICK st \in {db, [db EXCEPT !.phase = "COMPLETED"]} :
          /\ tst' = st /\ db' = db /\ mail' = mail /\ tpc = "idle"
          /\ tpc' \in {"alive", "save", "deliver"}
    BY <1>5 DEF TickAlive, TickStage, TickFileSent, BeginTick, worldVars
  <2>2. Current = db /\ Current' = st
    BY <2>1 DEF Current, Idle
  <2> QED
    BY <1>0, <1>1, <2>1, <2>2 DEF Row
<1>6. CASE TickNothing \/ Clock
  BY <1>1, <1>6 DEF TickNothing, Clock, worldVars, Current, Idle
<1>7. CASE TickSave
  <2>1. Current = tst /\ Current' = tst /\ mail' = mail
    BY <1>7 DEF TickSave, EndTick, worldVars, Current, Idle
  <2> QED
    BY <1>1, <2>1
<1>8. ~TickAborts /\ ~Crash
  BY DEF TickAborts, Crash, Fault
<1>9. CASE ConfirmLoad \/ ConfirmStep \/ ConfirmFails
  <2>1. /\ db' \in {db, cst} /\ UNCHANGED <<tst, tpc, mail>>
    BY <1>9 DEF ConfirmLoad, ConfirmStep, ConfirmSave,
                ConfirmSaveWithoutArchive, ConfirmClearDeliveries,
                ConfirmFails, tickVars, worldVars
  <2>2. Current' \in {Current, cst}
    BY <2>1 DEF Current, Idle
  <2> QED
    BY <1>0, <1>1, <2>1, <2>2
<1>10. CASE BootStep
  <2>1. /\ tpc \in {"boot", "bootClear"} /\ tpc' \in {"idle", "bootClear"}
        /\ db' \in {db, resetToAlive(db, now)} /\ mail' = mail
    BY <1>10
       DEF BootStep, BootKeeps, BootResets, BootClearsDeliveries, worldVars
  <2>2. resetToAlive(db, now).pendingToken = nil
    BY <1>0 DEF resetToAlive, WithoutArchive, Confirmed, Row
  <2>3. Current = db /\ Current' = db'
    BY <2>1 DEF Current, Idle
  <2> QED
    BY <1>1, <2>1, <2>2, <2>3
<1> QED
  BY <1>2, <1>3, <1>4, <1>5, <1>6, <1>7, <1>8, <1>9, <1>10
     DEF Next, TickStep, BeginStep

LEMMA ArchiveInit == Init => ArchiveInv
<1> SUFFICES ASSUME Init PROVE ArchiveInv
  OBVIOUS
<1>1. /\ \A r \in Recipient, s \in Stages : mail[<<r, s>>] = nil
      /\ {"PASSWORD", "FILE"} \subseteq Stages
  BY DEF Init, Stages
<1> QED
  BY RoundInit, <1>1 DEF ArchiveInv, ArchiveKept, InRound, PasswordsOpenTheArchive

LEMMA EarlierArchive ==
  ASSUME NEW row, EarlierVersion(row)
  PROVE  PasswordsOpenTheArchive
<1>1. {"PASSWORD", "FILE"} \subseteq Stages
  BY DEF Stages
<1> QED
  BY <1>1, EarlierFacts DEF PasswordsOpenTheArchive

LEMMA LegacyArchive == \A row : LegacyLoaded(row) => ArchiveInv
<1> SUFFICES ASSUME NEW row, LegacyLoaded(row)
             PROVE  ArchiveInv
  OBVIOUS
<1>0. /\ EarlierVersion(row) /\ Current = db
      /\ tpc = "bootClear" => db.pendingToken = nil
      /\ tpc = "idle" => db = row
      /\ tpc \in {"idle", "bootClear"}
  BY LegacyFacts DEF Current, Idle
<1>1. /\ row.phase = "WARNED" /\ row.archive = nil =>
           \A x \in delivered : x[2] = "PASSWORD" => x[1] = Owner
      /\ "PASSWORD" \in Stages
  BY <1>0 DEF EarlierVersion, LegacyDeliveries, Stages
<1>2. ArchiveKept(mail, db)
  BY <1>0, <1>1, EarlierFacts DEF ArchiveKept, InRound
<1> QED
  BY <1>0, <1>2, LegacyRound, EarlierArchive DEF ArchiveInv

(* The password every beneficiary was sent in a round opens the archive    *)
(* anyone is linked to in that round (tickWarned, doPack), although a      *)
(* confirmation may run at the same time, sends and acknowledgements get   *)
(* lost and database errors cut confirmations short, on a new database and *)
(* on one of an earlier version.  What it takes is that no tick loses its  *)
(* row after packing: run crash_repacks shows that a crash there is enough *)
(* to break it.                                                            *)
THEOREM PasswordsOpenArchives ==
  ASSUME "crash" \notin FaultKinds, "abort" \notin FaultKinds
  PROVE  (Spec \/ LegacySpec) => []PasswordsOpenTheArchive
<1>1. Spec => []ArchiveInv
  BY ArchiveInit, ArchiveNext, PTL DEF Spec
<1>2. LegacyStart => PasswordsOpenTheArchive
  BY EarlierArchive DEF LegacyStart
<1>3. ArchiveInv => PasswordsOpenTheArchive
  BY DEF ArchiveInv
<1>4. (LegacyStart \/ ArchiveInv) /\ [Next]_vars => (LegacyStart \/ ArchiveInv)'
  <2>1. (\A row : LegacyLoaded(row) => ArchiveInv)'
    BY LegacyArchive, PTL
  <2> QED
    BY <2>1, LegacyLoads, ArchiveNext
<1>5. LegacySpec => [](LegacyStart \/ ArchiveInv)
  BY <1>4, LegacyBegins, PTL DEF LegacySpec
<1> QED
  BY <1>1, <1>2, <1>3, <1>5, PTL

-----------------------------------------------------------------------------
(* Every round goes through all stages, unless a confirmation is cut short *)
(* after it has been stored.                                               *)

(* What table deliveries says is about the round of the row: nothing       *)
(* before it triggers, then this round's messages, and for a phase that    *)
(* has been reached all of those of the stages before it.                  *)
Recorded(del, m, st) ==
  /\ st.phase \in {"ALIVE", "GRACE"} => del = {}
  /\ \A x \in del : m[x].round = st.pendingToken
  /\ st.phase \in {"WARNED", "PASSWORD_SENT"} =>
       \A r \in Recipient : <<r, "WARN">> \in del
  /\ st.phase = "PASSWORD_SENT" => \A r \in Recipient : <<r, "PASSWORD">> \in del

(* How far a tick is, by what is recorded.                                 *)
RecordedSoFar ==
  /\ tpc = "record" => mail[Key].round = tst.pendingToken
  /\ tpc = "pack" => <<Owner, "PASSWORD">> \in delivered
  /\ tpc \in {"deliver", "record"} /\ ti > 0 =>
       /\ <<Owner, Stage>> \in delivered
       /\ tall => \A j \in 1 .. ti - 1 : <<Beneficiaries[j], Stage>> \in delivered

(* The deliveries are deleted with the row's reset when nothing comes in   *)
(* between.                                                                *)
FlowInv ==
  /\ RoundInv
  /\ cpc # "idle" => tpc = "idle"
  /\ cpc = "save" => db.phase \in {"ALIVE", "GRACE"}
  /\ cpc \in {"saveWithoutArchive", "clearDeliveries"} => db.phase = "ALIVE"
  /\ tpc = "bootClear" => db.phase = "ALIVE"
  /\ Working => db.pendingToken = tst.pendingToken
  /\ ~Idle => Recorded(delivered, mail, tst)
  /\ tpc # "bootClear" /\ cpc \notin {"saveWithoutArchive", "clearDeliveries"} =>
       Recorded(delivered, mail, db)
  /\ RecordedSoFar
  /\ WholeFlowEachRound

(* A message that arrives is of the latest round, and its stage was        *)
(* reached in it.                                                          *)
LEMMA WholeFlowArrives ==
  ASSUME FlowInv, tpc = "deliver", Arrives
  PROVE  WholeFlowEachRound'
<1> DEFINE p == tst.pendingToken
<1>1. Working /\ ~Idle /\ SafeInv /\ TypeInv /\ RowSane(tst)
  BY DEF FlowInv, RoundInv, SafeInv, Working, Idle
<1>2. /\ Recorded(delivered, mail, tst) /\ RecordedSoFar /\ WholeFlowEachRound
      /\ Latest(mail, tst)
  BY <1>1 DEF FlowInv, RoundInv
<1>3. /\ Owner \in Recipient /\ {"WARN", "PASSWORD", "FILE"} = Stages
      /\ \A r \in Recipient, s \in Stages : <<r, s>> \in Recipient \X Stages
  BY BeneficiariesAreCounted DEF Recipient, To, Stages
<1>4. /\ tst.phase \in {"PENDING_TRIGGER", "WARNED", "PASSWORD_SENT"}
      /\ tst.phase = "WARNED" <=> Stage = "PASSWORD"
      /\ tst.phase = "PASSWORD_SENT" <=> Stage = "FILE"
      /\ Stage \in Stages /\ To(ti) \in Recipient
      /\ Key \in Recipient \X Stages
  BY <1>1, StageFacts
<1>5. /\ mail'[Key] # nil /\ mail'[Key].round = p
      /\ \A x \in Recipient \X Stages : x # Key => mail'[x] = mail[x]
  BY <1>1, ArrivesEffect
<1>6. p \in Nat /\ p # nil
  <2>1. p # nil /\ p \in buttons
    BY <1>1, <1>4 DEF RowSane
  <2>2. buttons \subseteq Nat
    BY DEF FlowInv, RoundInv
  <2> QED
    BY <2>1, <2>2
<1>7. \A r \in Recipient, s \in Stages :
        Round(s, r)' = IF <<r, s>> = Key THEN p ELSE Round(s, r)
  <2> TAKE r \in Recipient, s \in Stages
  <2>1. <<r, s>> = Key => mail'[<<r, s>>] # nil /\ mail'[<<r, s>>].round = p
    BY <1>5
  <2>2. <<r, s>> # Key => mail'[<<r, s>>] = mail[<<r, s>>]
    BY <1>3, <1>5
  <2> QED
    BY <2>1, <2>2 DEF Round
<1>8. \A r \in Recipient, s \in Stages :
        Round(s, r) # nil => Round(s, r) \in Nat /\ p >= Round(s, r)
  <2>1. \A r \in Recipient, s \in Stages :
          mail[<<r, s>>] # nil => mail[<<r, s>>].round \in Maybe(1 .. tokens)
    BY DEF FlowInv, RoundInv
  <2>2. \A k : k \in Maybe(1 .. tokens) /\ k # nil => k \in Nat
    BY DEF Maybe
  <2> QED
    BY <1>2, <1>6, <2>1, <2>2 DEF Latest, Round
<1>9. ASSUME NEW r \in Recipient, NEW s \in Stages, NEW round \in Nat,
             round <= p, Reached(s, r, round)
      PROVE  Reached(s, r, round)'
  BY <1>6, <1>7, <1>8, <1>9 DEF Reached
<1>10. ASSUME NEW r \in Recipient, NEW s \in Stages, <<r, s>> \in delivered
       PROVE  Round(s, r)' = p
  <2>1. mail[<<r, s>>] # nil /\ mail[<<r, s>>].round = p
    BY <1>1, <1>2, <1>10 DEF Recorded, SafeInv
  <2> QED
    BY <1>7, <2>1 DEF Round
<1>11. ASSUME NEW s \in Stages, s = Stage
       PROVE  Round(s, Owner)' = p
  <2>1. CASE ti = 0
    BY <1>3, <1>7, <1>11, <2>1 DEF Key, To
  <2>2. CASE ti # 0
    <3>1. <<Owner, Stage>> \in delivered
      BY <1>1, <1>2, <2>2 DEF RecordedSoFar, TypeInv, TypeOK
    <3> QED
      BY <1>3, <1>10, <1>11, <3>1
  <2> QED
    BY <2>1, <2>2
<1>12. ASSUME NEW r \in Recipient, NEW s \in Stages, Round(s, r)' # nil,
              NEW round, round = Round(s, r)'
       PROVE  Reached(s, Owner, round)'
  <2>1. CASE <<r, s>> = Key
    <3>1. s = Stage /\ round = p
      BY <1>7, <1>12, <2>1 DEF Key
    <3> QED
      BY <1>6, <1>11, <3>1 DEF Reached
  <2>2. CASE <<r, s>> # Key
    <3>1. Round(s, r) = round /\ round # nil
      BY <1>7, <1>12, <2>2
    <3>2. Reached(s, Owner, round)
      BY <1>2, <3>1 DEF WholeFlowEachRound
    <3> QED
      BY <1>3, <1>8, <1>9, <3>1, <3>2
  <2> QED
    BY <2>1, <2>2
<1>13. ASSUME NEW s \in {"PASSWORD", "FILE"}, NEW r \in Recipient,
              Round(s, r)' # nil, NEW q \in Recipient,
              NEW round, round = Round(s, r)',
              NEW before \in Stages,
              before = IF s = "PASSWORD" THEN "WARN" ELSE "PASSWORD"
       PROVE  Reached(before, q, round)'
  <2>1. CASE <<r, s>> = Key
    <3>1. s = Stage /\ round = p
      BY <1>3, <1>7, <1>13, <2>1 DEF Key
    <3>2. <<q, before>> \in delivered
      BY <1>2, <1>4, <1>13, <3>1 DEF Recorded
    <3>3. Round(before, q)' = p
      BY <1>10, <3>2
    <3> QED
      BY <1>6, <3>1, <3>3 DEF Reached
  <2>2. CASE <<r, s>> # Key
    <3>1. Round(s, r) = round /\ round # nil
      BY <1>3, <1>7, <1>13, <2>2
    <3>2. Reached(before, q, round)
      BY <1>2, <1>13, <3>1 DEF WholeFlowEachRound
    <3> QED
      BY <1>3, <1>8, <1>9, <3>1, <3>2
  <2> QED
    BY <2>1, <2>2
<1> QED
  <2>1. \A r \in Recipient, s \in Stages :
          Round(s, r)' # nil =>
            Round(s, Owner)' # nil /\ Round(s, Owner)' >= Round(s, r)'
    BY <1>12 DEF Reached
  <2>2. \A r \in Recipient, q \in Recipient :
          /\ Round("PASSWORD", r)' # nil =>
               Round("WARN", q)' # nil /\ Round("WARN", q)' >= Round("PASSWORD", r)'
          /\ Round("FILE", r)' # nil =>
               Round("PASSWORD", q)' # nil /\ Round("PASSWORD", q)' >= Round("FILE", r)'
    BY <1>3, <1>13 DEF Reached
  <2> QED
    BY <2>1, <2>2 DEF WholeFlowEachRound, Reached

(* What follows a delivery is about recorded messages only: the phase      *)
(* advances when all of its stage are.                                     *)
LEMMA AfterDeliverRecorded ==
  ASSUME FlowInv, NEW ok \in BOOLEAN, tpc \in {"deliver", "record"},
         AfterDeliver(ok), delivered \subseteq delivered',
         ok => Key \in delivered',
         \A x \in delivered' : mail'[x].round = tst.pendingToken
  PROVE  RecordedSoFar' /\ Recorded(delivered', mail', tst')
<1>0. /\ SafeInv /\ TypeInv /\ Working /\ ti \in 0 .. Len(Beneficiaries)
      /\ tst \in Row /\ Len(Beneficiaries) \in Nat \ {0}
  BY BeneficiariesAreCounted
     DEF FlowInv, RoundInv, SafeInv, Working, TypeInv, TypeOK
<1>1. Recorded(delivered, mail, tst) /\ RecordedSoFar
  BY DEF FlowInv, Idle
<1>2. /\ tst.phase \in {"PENDING_TRIGGER", "WARNED", "PASSWORD_SENT"}
      /\ tst.phase = "PENDING_TRIGGER" <=> Stage = "WARN"
      /\ tst.phase = "WARNED" <=> Stage = "PASSWORD"
  BY <1>0, StageFacts
<1>3. Recorded(delivered', mail', tst)
  BY <1>1, <1>2 DEF Recorded
<1>4. CASE ti = 0
  <2>1. ok => <<Owner, Stage>> \in delivered'
    BY <1>4 DEF Key, To
  <2>2. /\ tst' = tst /\ tpc' \in {"save", "pack", "deliver"}
        /\ tpc' = "pack" => ok /\ Stage = "PASSWORD"
        /\ tpc' = "deliver" => ok /\ ti' = 1
    BY <1>0, <1>4 DEF AfterDeliver, AllDelivered
  <2>3. Stage' = Stage
    BY <2>2 DEF Stage
  <2> QED
    BY <1>3, <2>1, <2>2, <2>3 DEF RecordedSoFar
<1>5. CASE ti > 0
  <2>1. /\ <<Owner, Stage>> \in delivered'
        /\ tall => \A j \in 1 .. ti - 1 : <<Beneficiaries[j], Stage>> \in delivered'
    BY <1>1, <1>5 DEF RecordedSoFar
  <2>2. tall /\ ok => \A j \in 1 .. ti : <<Beneficiaries[j], Stage>> \in delivered'
    <3>1. Key = <<Beneficiaries[ti], Stage>>
      BY <1>5 DEF Key, To
    <3>2. \A j \in 1 .. ti : j = ti \/ j \in 1 .. ti - 1
      BY <1>0
    <3> QED
      BY <2>1, <3>1, <3>2
  <2>3. CASE ti < Len(Beneficiaries)
    <3>1. tpc' = "deliver" /\ ti' = ti + 1 /\ tall' = (tall /\ ok) /\ tst' = tst
      BY <1>0, <1>5, <2>3 DEF AfterDeliver, AllDelivered
    <3>2. Stage' = Stage /\ ti' - 1 = ti
      BY <1>0, <3>1 DEF Stage
    <3> QED
      BY <1>3, <2>1, <2>2, <3>1, <3>2 DEF RecordedSoFar
  <2>4. CASE ti = Len(Beneficiaries)
    <3>1. tpc' = "save" /\ tst' = IF tall /\ ok THEN Advanced(tst, tnow) ELSE tst
      BY <1>0, <1>5, <2>4 DEF AfterDeliver, AllDelivered
    <3>2. CASE ~(tall /\ ok)
      BY <1>3, <3>1, <3>2 DEF RecordedSoFar
    <3>3. CASE tall /\ ok
      <4>1. \A r \in Recipient : <<r, Stage>> \in delivered'
        BY <2>1, <2>2, <2>4, <3>3 DEF Recipient, To
      <4>2. /\ tst'.pendingToken = tst.pendingToken
            /\ tst.phase = "PENDING_TRIGGER" => tst'.phase = "WARNED"
            /\ tst.phase = "WARNED" => tst'.phase = "PASSWORD_SENT"
            /\ tst.phase = "PASSWORD_SENT" => tst'.phase = "FILE_SENT"
        BY <1>0, <3>1, <3>3 DEF Advanced, Row
      <4>3. Recorded(delivered', mail', tst')
        BY <1>2, <1>3, <4>1, <4>2 DEF Recorded
      <4> QED
        BY <3>1, <4>3 DEF RecordedSoFar
    <3> QED
      BY <3>2, <3>3
  <2> QED
    BY <1>0, <2>3, <2>4
<1> QED
  BY <1>0, <1>4, <1>5

LEMMA FlowDeliver ==
  ASSUME FlowInv, RoundInv', DeliverStep, "dbError" \notin FaultKinds
  PROVE  FlowInv'
<1>0. SafeInv /\ TypeInv /\ RoundInv /\ delivered \subseteq Recipient \X Stages
  BY DEF FlowInv, RoundInv, SafeInv, TypeInv, TypeOK
<1>1. /\ Working /\ tpc' \in {"deliver", "record", "pack", "save"}
      /\ UNCHANGED <<db, cpc>> /\ tst'.pendingToken = tst.pendingToken
      /\ UNCHANGED <<mail, buttons>> \/ (tpc = "deliver" /\ Arrives)
  BY <1>0, DeliverEffect
<1>2. /\ Recorded(delivered, mail, tst) /\ Recorded(delivered, mail, db)
      /\ RecordedSoFar /\ WholeFlowEachRound
      /\ db.pendingToken = tst.pendingToken /\ cpc = "idle" /\ ~Idle /\ ~Idle'
      /\ tpc' # "bootClear" /\ db.phase = tst.phase
  <2>1. ~Idle /\ ~Idle' /\ tpc # "idle" /\ tpc # "bootClear" /\ tpc' # "bootClear"
    BY <1>1 DEF Idle, Working
  <2>2. cpc = "idle" /\ db.pendingToken = tst.pendingToken
    BY <1>1, <2>1 DEF FlowInv
  <2>3. db.pendingToken # nil
    BY <1>0, <1>1, <2>2, StageFacts DEF SafeInv, RowSane
  <2> QED
    BY <1>1, <2>1, <2>2, <2>3 DEF FlowInv, RoundInv
<1>3. /\ tst.phase \in {"PENDING_TRIGGER", "WARNED", "PASSWORD_SENT"}
      /\ Key \in Recipient \X Stages
      /\ tst.phase = "WARNED" <=> Stage = "PASSWORD"
  BY <1>0, <1>1, StageFacts
<1>4. ASSUME WholeFlowEachRound', RecordedSoFar',
             Recorded(delivered', mail', tst'),
             delivered \subseteq delivered',
             \A x \in delivered' : mail'[x].round = tst.pendingToken
      PROVE  FlowInv'
  <2>1. Recorded(delivered', mail', db)
    BY <1>2, <1>3, <1>4 DEF Recorded
  <2>2. Recorded(delivered, mail, tst)' /\ Recorded(delivered, mail, db)'
    BY <1>1, <1>4, <2>1
  <2> QED
    BY <1>1, <1>2, <1>4, <2>2 DEF FlowInv
<1>5. WholeFlowEachRound'
  <2>1. CASE tpc = "deliver" /\ Arrives
    BY <2>1, WholeFlowArrives
  <2>2. CASE UNCHANGED <<mail, buttons>>
    BY <1>2, <2>2 DEF WholeFlowEachRound, Reached, Round
  <2> QED
    BY <1>1, <2>1, <2>2
<1>6. \A x \in delivered : mail'[x].round = tst.pendingToken
  <2>1. \A x \in delivered : mail[x].round = tst.pendingToken
    BY <1>2 DEF Recorded
  <2>2. CASE tpc = "deliver" /\ Arrives
    BY <1>0, <1>1, <2>1, <2>2, ArrivesEffect
  <2>3. CASE UNCHANGED <<mail, buttons>>
    BY <2>1, <2>3
  <2> QED
    BY <1>1, <2>2, <2>3
<1>7. CASE DeliverSkips \/ DeliverFails \/ DeliverLosesAck
  <2>1. PICK ok \in BOOLEAN : AfterDeliver(ok) /\ (ok => Key \in delivered)
    BY <1>7 DEF DeliverSkips, DeliverFails, DeliverLosesAck
  <2>2. tpc \in {"deliver", "record"} /\ delivered' = delivered
    BY <1>7 DEF DeliverSkips, DeliverFails, DeliverLosesAck
  <2>3. RecordedSoFar' /\ Recorded(delivered', mail', tst')
    BY <1>6, <2>1, <2>2, AfterDeliverRecorded
  <2> QED
    BY <1>4, <1>5, <1>6, <2>2, <2>3
<1>8. CASE DeliverSends
  <2>1. /\ tpc = "deliver" /\ Arrives /\ tpc' = "record" /\ delivered' = delivered
        /\ UNCHANGED <<tst, ti, tall>>
    BY <1>8 DEF DeliverSends
  <2>2. Key' = Key /\ Stage' = Stage
    BY <2>1 DEF Key, Stage
  <2>3. mail'[Key].round = tst.pendingToken
    BY <1>0, <1>1, <2>1, ArrivesEffect
  <2>4. RecordedSoFar'
    BY <1>2, <2>1, <2>2, <2>3 DEF RecordedSoFar
  <2>5. Recorded(delivered', mail', tst')
    BY <1>2, <1>6, <2>1 DEF Recorded
  <2> QED
    BY <1>4, <1>5, <1>6, <2>1, <2>4, <2>5
<1>9. CASE RecordDelivery
  <2>1. /\ tpc = "record" /\ delivered' = delivered \cup {Key}
        /\ AfterDeliver(TRUE) /\ mail' = mail
    BY <1>9 DEF RecordDelivery, worldVars
  <2>2. mail[Key].round = tst.pendingToken
    BY <1>2, <2>1 DEF RecordedSoFar
  <2>3. \A x \in delivered' : mail'[x].round = tst.pendingToken
    BY <1>6, <2>1, <2>2
  <2>4. RecordedSoFar' /\ Recorded(delivered', mail', tst')
    BY <2>1, <2>3, AfterDeliverRecorded
  <2> QED
    BY <1>4, <1>5, <2>1, <2>3, <2>4
<1>10. ~RecordDeliveryFails
  BY DEF RecordDeliveryFails, Fault
<1>11. CASE Pack
  <2>1. /\ tpc = "pack" /\ tpc' = "deliver" /\ ti' = 1
        /\ UNCHANGED <<mail, delivered, tall>>
    BY <1>11 DEF Pack, DeliverVars
  <2>2. tst.phase = "WARNED" /\ tst'.phase = "WARNED"
    <3>1. tst.phase = "WARNED" /\ tst \in Row
      BY <1>0, <2>1 DEF SafeInv, Progress, TypeInv, TypeOK
    <3> QED
      BY <1>11, <3>1 DEF Pack, Row
  <2>3. Stage' = "PASSWORD"
    BY <2>2 DEF Stage, StageOf
  <2>4. RecordedSoFar'
    BY <1>2, <2>1, <2>3 DEF RecordedSoFar
  <2>5. Recorded(delivered', mail', tst')
    BY <1>1, <1>2, <2>1, <2>2 DEF Recorded
  <2> QED
    BY <1>4, <1>5, <1>6, <2>1, <2>4, <2>5
<1>12. CASE PackFails
  <2>1. tpc = "pack" /\ tpc' = "save" /\ UNCHANGED <<mail, delivered>>
    BY <1>12 DEF PackFails, DeliverVars
  <2>2. tst'.phase = tst.phase
    <3>1. tst \in Row
      BY <1>0 DEF TypeInv, TypeOK
    <3> QED
      BY <1>12, <3>1 DEF PackFails, Row
  <2>3. RecordedSoFar'
    BY <2>1 DEF RecordedSoFar
  <2>4. Recorded(delivered', mail', tst')
    BY <1>1, <1>2, <2>1, <2>2 DEF Recorded
  <2> QED
    BY <1>4, <1>5, <1>6, <2>1, <2>3, <2>4
<1> QED
  BY <1>7, <1>8, <1>9, <1>10, <1>11, <1>12 DEF DeliverStep

LEMMA FlowNext ==
  ASSUME Overlap = FALSE, "crash" \notin FaultKinds, "dbError" \notin FaultKinds
  PROVE  FlowInv /\ [Next]_vars => FlowInv'
<1> SUFFICES ASSUME FlowInv, [Next]_vars
             PROVE  FlowInv'
  OBVIOUS
<1>0. /\ RoundInv' /\ SafeInv /\ db \in Row /\ tst \in Row
      /\ buttons \subseteq 1 .. tokens
      /\ cst.pendingToken = nil /\ cst.phase = "ALIVE"
  BY RoundNext DEF FlowInv, RoundInv, SafeInv, TypeInv, TypeOK
<1>1. ASSUME mail' = mail
      PROVE  WholeFlowEachRound'
  BY <1>1 DEF FlowInv, WholeFlowEachRound, Reached, Round
<1>2. CASE UNCHANGED <<db, delivered, tst, tpc, ti, tall, cpc, mail>>
  BY <1>0, <1>1, <1>2
     DEF FlowInv, RecordedSoFar, Recorded, Idle, Working, Key, Stage, To
<1>3. CASE AliveStep
  <2>1. /\ mail' = mail /\ db' = db /\ tpc' = "save" /\ tpc = "alive"
        /\ UNCHANGED <<delivered, cpc>>
        /\ tst.phase \in {"ALIVE", "GRACE"}
        /\ tst'.phase \in {"ALIVE", "GRACE", "PENDING_TRIGGER"}
    BY <1>0, <1>3, AliveEffect
  <2>2. delivered = {} /\ cpc = "idle"
    BY <2>1 DEF FlowInv, Recorded, Idle
  <2>3. Recorded(delivered, mail, tst)' /\ Recorded(delivered, mail, db)'
    BY <2>1, <2>2 DEF Recorded, FlowInv
  <2> QED
    BY <1>0, <1>1, <2>1, <2>2, <2>3 DEF FlowInv, RecordedSoFar, Working
<1>4. CASE DeliverStep
  BY <1>0, <1>4, FlowDeliver
<1>5. CASE TickAlive \/ TickStage \/ TickFileSent
  <2>1. PICK st \in {db, [db EXCEPT !.phase = "COMPLETED"]} :
          /\ tst' = st /\ UNCHANGED <<db, mail, delivered, cpc>>
          /\ cpc = "idle" /\ tpc = "idle" /\ ti' = 0
          /\ tpc' \in {"alive", "save", "deliver"}
    BY <1>5 DEF TickAlive, TickStage, TickFileSent, BeginTick, worldVars, confVars
  <2>2. Recorded(delivered, mail, db) /\ st.pendingToken = db.pendingToken
    BY <1>0, <2>1 DEF FlowInv, Row
  <2>3. Recorded(delivered, mail, st)
    BY <1>0, <2>2 DEF Recorded, Row
  <2>4. Recorded(delivered, mail, tst)' /\ Recorded(delivered, mail, db)'
    BY <2>1, <2>2, <2>3
  <2> QED
    BY <1>0, <1>1, <2>1, <2>2, <2>4 DEF FlowInv, RecordedSoFar, Working
<1>6. CASE TickNothing \/ Clock
  BY <1>2, <1>6 DEF TickNothing, Clock, worldVars, confVars
<1>7. CASE TickSave
  <2>1. /\ db' = tst /\ tpc' = "idle" /\ tpc = "save"
        /\ UNCHANGED <<delivered, cpc, mail>>
    BY <1>7 DEF TickSave, EndTick, worldVars, confVars
  <2>2. cpc = "idle" /\ Recorded(delivered, mail, tst)
    BY <2>1 DEF FlowInv, Idle
  <2>3. Recorded(delivered, mail, db)'
    BY <2>1, <2>2
  <2> QED
    BY <1>0, <1>1, <2>1, <2>2, <2>3 DEF FlowInv, RecordedSoFar, Working, Idle
<1>8. CASE TickAborts
  <2>1. /\ tpc' = "idle" /\ tpc \notin {"boot", "bootClear", "idle"}
        /\ UNCHANGED <<db, delivered, cpc, mail>>
    BY <1>8 DEF TickAborts, EndTick, worldVars, confVars
  <2>2. cpc = "idle" /\ Recorded(delivered, mail, db)
    BY <2>1 DEF FlowInv
  <2>3. Recorded(delivered, mail, db)'
    BY <2>1, <2>2
  <2> QED
    BY <1>0, <1>1, <2>1, <2>2, <2>3 DEF FlowInv, RecordedSoFar, Working, Idle
<1>9. CASE ConfirmLoad
  <2>1. /\ tpc = "idle" /\ cpc = "idle" /\ UNCHANGED <<db, delivered, tpc, mail>>
        /\ cpc' = IF db.phase \in {"ALIVE", "GRACE"} THEN "save" ELSE "saveTriggering"
    BY <1>9 DEF ConfirmLoad, tickVars, worldVars
  <2>2. Recorded(delivered, mail, db)'
    BY <2>1 DEF FlowInv
  <2> QED
    BY <1>0, <1>1, <2>1, <2>2 DEF FlowInv, RecordedSoFar, Working, Idle
<1>10. CASE ConfirmStep
  <2>1. /\ UNCHANGED <<tpc, mail>> /\ tpc = "idle" /\ cpc # "idle"
    BY <1>10 DEF ConfirmStep, ConfirmSave, ConfirmSaveWithoutArchive,
                 ConfirmClearDeliveries, tickVars, worldVars, FlowInv
  <2>2. CASE ConfirmSave
    <3>1. /\ db' = cst /\ delivered' = delivered
          /\ (cpc = "save" /\ cpc' = "idle") \/ cpc' = "saveWithoutArchive"
      BY <2>2 DEF ConfirmSave, EndConfirm
    <3>2. cpc = "save" => delivered = {}
      BY <2>1 DEF FlowInv, Recorded
    <3>3. cpc = "save" => Recorded(delivered, mail, db)'
      BY <1>0, <2>1, <3>1, <3>2 DEF Recorded
    <3> QED
      BY <1>0, <1>1, <2>1, <3>1, <3>3 DEF FlowInv, RecordedSoFar, Working, Idle
  <2>3. CASE ConfirmSaveWithoutArchive
    <3>1. db' = cst /\ cpc' = "clearDeliveries"
      BY <2>3 DEF ConfirmSaveWithoutArchive
    <3> QED
      BY <1>0, <1>1, <2>1, <3>1 DEF FlowInv, RecordedSoFar, Working, Idle
  <2>4. CASE ConfirmClearDeliveries
    <3>1. db' = db /\ cpc' = "idle" /\ delivered' = {} /\ db.phase = "ALIVE"
      BY <2>4 DEF ConfirmClearDeliveries, EndConfirm, FlowInv
    <3>2. Recorded(delivered, mail, db)'
      BY <3>1 DEF Recorded
    <3> QED
      BY <1>0, <1>1, <2>1, <3>1, <3>2 DEF FlowInv, RecordedSoFar, Working, Idle
  <2> QED
    BY <1>10, <2>2, <2>3, <2>4 DEF ConfirmStep
<1>11. ~ConfirmFails /\ ~Crash
  BY DEF ConfirmFails, Crash, Fault
<1>12. CASE BootStep
  <2>1. /\ tpc \in {"boot", "bootClear"} /\ cpc = "idle" /\ UNCHANGED <<cpc, mail>>
    BY <1>12 DEF BootStep, BootKeeps, BootResets, BootClearsDeliveries,
                 confVars, worldVars, FlowInv
  <2>2. CASE BootKeeps
    <3>1. tpc' = "idle" /\ UNCHANGED <<db, delivered>> /\ tpc = "boot"
      BY <2>2 DEF BootKeeps
    <3>2. Recorded(delivered, mail, db)'
      BY <2>1, <3>1 DEF FlowInv
    <3> QED
      BY <1>0, <1>1, <2>1, <3>1, <3>2 DEF FlowInv, RecordedSoFar, Working, Idle
  <2>3. CASE BootResets
    <3>1. tpc' = "bootClear" /\ db' = resetToAlive(db, now)
      BY <2>3 DEF BootResets
    <3>2. db'.phase = "ALIVE"
      BY <1>0, <3>1 DEF resetToAlive, WithoutArchive, Confirmed, Row
    <3> QED
      BY <1>0, <1>1, <2>1, <3>1, <3>2 DEF FlowInv, RecordedSoFar, Working, Idle
  <2>4. CASE BootClearsDeliveries
    <3>1. /\ tpc' = "idle" /\ db' = db /\ delivered' = {} /\ db.phase = "ALIVE"
      BY <2>4 DEF BootClearsDeliveries, FlowInv
    <3>2. Recorded(delivered, mail, db)'
      BY <3>1 DEF Recorded
    <3> QED
      BY <1>0, <1>1, <2>1, <3>1, <3>2 DEF FlowInv, RecordedSoFar, Working, Idle
  <2> QED
    BY <1>12, <2>2, <2>3, <2>4 DEF BootStep
<1>13. CASE UNCHANGED vars
  BY <1>2, <1>13 DEF vars, tickVars, confVars, worldVars
<1> QED
  BY <1>3, <1>4, <1>5, <1>6, <1>7, <1>8, <1>9, <1>10, <1>11, <1>12, <1>13
     DEF Next, TickStep, BeginStep

LEMMA FlowInit == Init => FlowInv
<1> SUFFICES ASSUME Init PROVE FlowInv
  OBVIOUS
<1>1. /\ \A r \in Recipient, s \in Stages : mail[<<r, s>>] = nil
      /\ {"PASSWORD", "FILE"} \subseteq Stages
      /\ db.phase = "ALIVE" /\ delivered = {} /\ tpc = "boot" /\ cpc = "idle"
  BY DEF Init, InitialRow, Stages
<1>2. WholeFlowEachRound
  BY <1>1 DEF WholeFlowEachRound, Round
<1>3. Recorded(delivered, mail, db) /\ RecordedSoFar
  BY <1>1 DEF Recorded, RecordedSoFar
<1> QED
  BY RoundInit, <1>1, <1>2, <1>3 DEF FlowInv, Working, Idle

LEMMA EarlierWholeFlow ==
  ASSUME NEW row, EarlierVersion(row)
  PROVE  WholeFlowEachRound
<1>1. \A r \in Recipient, s \in Stages :
        Round(s, r) = IF <<r, s>> \in delivered THEN row.pendingToken ELSE nil
  BY EarlierFacts DEF Round
<1>2. row.pendingToken # nil => row.pendingToken \in Nat
  BY EarlierFacts
<1>3. /\ \A r \in Recipient, s \in Stages :
           Round(s, r) # nil => Reached(s, Owner, Round(s, r))
      /\ \A r \in Recipient, q \in Recipient :
           /\ Round("PASSWORD", r) # nil => Reached("WARN", q, Round("PASSWORD", r))
           /\ Round("FILE", r) # nil => Reached("PASSWORD", q, Round("FILE", r))
  <2>1. /\ {"WARN", "PASSWORD", "FILE"} = Stages /\ Owner \in Recipient
        /\ \A r \in Recipient, s \in Stages :
             <<r, s>> \in delivered => <<Owner, s>> \in delivered
        /\ \A r \in Recipient, q \in Recipient :
             /\ <<r, "PASSWORD">> \in delivered => <<q, "WARN">> \in delivered
             /\ <<r, "FILE">> \in delivered => <<q, "PASSWORD">> \in delivered
    BY EarlierOrder
  <2>2. \A r \in Recipient, s \in Stages :
          <<r, s>> \in delivered /\ row.pendingToken # nil =>
            Reached(s, r, row.pendingToken)
    BY <1>1, <1>2 DEF Reached
  <2> QED
    BY <1>1, <2>1, <2>2
<1> QED
  BY <1>3 DEF WholeFlowEachRound

LEMMA LegacyFlow == \A row : LegacyLoaded(row) => FlowInv
<1> SUFFICES ASSUME NEW row, LegacyLoaded(row)
             PROVE  FlowInv
  OBVIOUS
<1>0. /\ EarlierVersion(row) /\ tpc \in {"idle", "bootClear"} /\ cpc = "idle"
      /\ tpc = "bootClear" => db.phase = "ALIVE"
      /\ tpc = "idle" => db = row
      /\ delivered \subseteq Recipient \X Stages
  BY LegacyFacts DEF EarlierVersion
<1>1. /\ "WARN" \in StagesDone("WARNED")
      /\ {"WARN", "PASSWORD"} \subseteq StagesDone("PASSWORD_SENT")
  BY DEF StagesDone, LegacyPhase
<1>2. Recorded(delivered, mail, row)
  <2>1. \A x \in delivered : mail[x].round = row.pendingToken
    BY <1>0, <1>1, EarlierFacts
  <2> QED
    <3>1. row.phase \in {"ALIVE", "GRACE"} => delivered = {}
      <4> SUFFICES ASSUME row.phase \in {"ALIVE", "GRACE"}, NEW x \in delivered
                   PROVE  FALSE
        OBVIOUS
      <4>1. Begun(row.phase) = {} /\ row.phase \in Phases
        BY PhasesBegun DEF Phases
      <4>2. PICK r \in Recipient, s \in Stages : x = <<r, s>>
        BY <1>0
      <4> QED
        BY <1>0, <4>1, <4>2, EarlierOrder
    <3>2. \A r \in Recipient, s \in StagesDone(row.phase) : <<r, s>> \in delivered
      BY <1>0, EarlierOrder
    <3> QED
      BY <1>1, <2>1, <3>1, <3>2 DEF Recorded
<1>3. RecordedSoFar /\ ~Working /\ Idle
  BY <1>0 DEF RecordedSoFar, Working, Idle
<1> QED
  BY <1>0, <1>2, <1>3, LegacyRound, EarlierWholeFlow DEF FlowInv

(* "The next trigger goes through the whole flow again" (scheduler.go:91): *)
(* whoever has had a message of a later stage in a round, everybody has    *)
(* had the stages before it in that round or a later one, from a new       *)
(* database and from one of an earlier version.  Lost acknowledgements,    *)
(* failed sends and aborted ticks change nothing about it; what it takes   *)
(* is that a stored confirmation also deletes the deliveries (Confirm,     *)
(* ClearDeliveries): run crash_skips shows what a crash in between does.   *)
THEOREM EachRoundGoesThroughAllStages ==
  ASSUME Overlap = FALSE, "crash" \notin FaultKinds, "dbError" \notin FaultKinds
  PROVE  (Spec \/ LegacySpec) => []WholeFlowEachRound
<1>1. Spec => []FlowInv
  BY FlowInit, FlowNext, PTL DEF Spec
<1>2. LegacyStart => WholeFlowEachRound
  BY EarlierWholeFlow DEF LegacyStart
<1>3. FlowInv => WholeFlowEachRound
  BY DEF FlowInv
<1>4. (LegacyStart \/ FlowInv) /\ [Next]_vars => (LegacyStart \/ FlowInv)'
  <2>1. (\A row : LegacyLoaded(row) => FlowInv)'
    BY LegacyFlow, PTL
  <2> QED
    BY <2>1, LegacyLoads, FlowNext
<1>5. LegacySpec => [](LegacyStart \/ FlowInv)
  BY <1>4, LegacyBegins, PTL DEF LegacySpec
<1> QED
  BY <1>1, <1>2, <1>3, <1>5, PTL

-----------------------------------------------------------------------------
(* Nobody has a stage twice in a round, while sends fail or succeed        *)
(* outright.                                                               *)

(* A message of the row's round is recorded, or about to be.               *)
Remembered(del, m, st, at, key) ==
  \A r \in Recipient, s \in Stages :
    InRound(m, st, r, s) =>
      <<r, s>> \in del \/ (at = "record" /\ <<r, s>> = key)

OnceInv ==
  /\ RoundInv
  /\ cpc # "idle" => tpc = "idle"
  /\ Idle => tst.pendingToken = nil
  /\ cpc \in {"saveWithoutArchive", "clearDeliveries"} => db.pendingToken = nil
  /\ tpc = "bootClear" => db.pendingToken = nil
  /\ Remembered(delivered, mail, db, tpc, Key)
  /\ Remembered(delivered, mail, tst, tpc, Key)
  /\ OncePerRound

(* Steps that send no stage message, with rows that have the token of a    *)
(* row there was, or one no message has.                                   *)
LEMMA QuietOnce ==
  ASSUME OnceInv, RoundInv', mail' = mail,
         tpc # "record" \/ (tpc' = "record" /\ Key' = Key),
         delivered \subseteq delivered',
         db'.pendingToken \in {nil, db.pendingToken, tst.pendingToken},
         \/ tst'.pendingToken \in {nil, db.pendingToken, tst.pendingToken}
         \/ tst'.pendingToken = tokens + 1,
         cpc' # "idle" => tpc' = "idle",
         Idle' => tst'.pendingToken = nil,
         cpc' \in {"saveWithoutArchive", "clearDeliveries"} =>
           db'.pendingToken = nil,
         tpc' = "bootClear" => db'.pendingToken = nil
  PROVE  OnceInv'
<1>1. OncePerRound'
  BY DEF OnceInv, OncePerRound
<1>2. Remembered(delivered', mail, db', tpc', Key')
  BY DEF OnceInv, Remembered, InRound
<1>3. Remembered(delivered', mail, tst', tpc', Key')
  <2>1. CASE tst'.pendingToken = tokens + 1
    <3>1. tokens + 1 \notin Maybe(1 .. tokens)
      BY StateStoreAssumption
         DEF Maybe, OnceInv, RoundInv, SafeInv, TypeInv, TypeOK
    <3> QED
      BY <2>1, <3>1 DEF Remembered, InRound, OnceInv, RoundInv
  <2>2. CASE tst'.pendingToken \in {nil, db.pendingToken, tst.pendingToken}
    BY <2>2 DEF OnceInv, Remembered, InRound
  <2> QED
    BY <2>1, <2>2
<1>4. Remembered(delivered, mail, db, tpc, Key)'
      /\ Remembered(delivered, mail, tst, tpc, Key)'
  BY <1>2, <1>3
<1> QED
  BY <1>1, <1>4 DEF OnceInv

(* A message is sent once: one of this round would be recorded.            *)
LEMMA OnceSends ==
  ASSUME OnceInv, RoundInv', DeliverSends
  PROVE  OnceInv'
<1>0. /\ Working /\ SafeInv /\ TypeInv /\ RoundInv /\ RowSane(tst)
      /\ tpc = "deliver" /\ Arrives /\ tpc' = "record" /\ Key \notin delivered
      /\ UNCHANGED <<db, tst, ti, delivered, cpc>>
      /\ mail \in [Recipient \X Stages -> Maybe(Message)]
  BY DEF OnceInv, RoundInv, SafeInv, TypeInv, TypeOK, Working, DeliverSends,
         DeliverVars, confVars
<1>1. /\ Key \in Recipient \X Stages /\ Key = <<To(ti), Stage>>
      /\ To(ti) \in Recipient /\ Stage \in Stages
      /\ tst.phase \in {"PENDING_TRIGGER", "WARNED", "PASSWORD_SENT"}
  BY <1>0, StageFacts DEF Key
<1>2. tst.pendingToken # nil /\ Key' = Key
  BY <1>0, <1>1 DEF RowSane, Key, Stage
<1>3. ~(mail[Key] # nil /\ mail[Key].round = tst.pendingToken)
  BY <1>0, <1>1, <1>2 DEF OnceInv, Remembered, InRound
<1>4. /\ mail'[Key] # nil /\ mail'[Key].copies = 1
      /\ \A x \in Recipient \X Stages : x # Key => mail'[x] = mail[x]
      /\ DOMAIN mail' = DOMAIN mail
  BY <1>0, <1>3, ArrivesEffect
<1>5. OncePerRound'
  BY <1>0, <1>4 DEF OnceInv, OncePerRound
<1>6. /\ Remembered(delivered, mail', db, "record", Key)
      /\ Remembered(delivered, mail', tst, "record", Key)
  BY <1>0, <1>4 DEF OnceInv, Remembered, InRound
<1>7. Remembered(delivered, mail, db, tpc, Key)'
      /\ Remembered(delivered, mail, tst, tpc, Key)'
  BY <1>0, <1>2, <1>6
<1> QED
  BY <1>0, <1>5, <1>7 DEF OnceInv, Idle

LEMMA OnceNext ==
  ASSUME Overlap = FALSE, FaultKinds \subseteq {"sendFails"}
  PROVE  OnceInv /\ [Next]_vars => OnceInv'
<1> SUFFICES ASSUME OnceInv, [Next]_vars
             PROVE  OnceInv'
  OBVIOUS
<1>0. /\ RoundInv' /\ SafeInv /\ db \in Row /\ tst \in Row
      /\ buttons \subseteq 1 .. tokens
      /\ cst.pendingToken = nil /\ InitialRow.pendingToken = nil
  BY RoundNext DEF OnceInv, RoundInv, SafeInv, TypeInv, TypeOK, InitialRow
<1>1. CASE UNCHANGED <<db, delivered, tst, tpc, ti, cpc, mail>>
  <2>1. Key' = Key /\ Idle' = Idle
    BY <1>1 DEF Key, Stage, Idle
  <2> QED
    BY <1>0, <1>1, <2>1, QuietOnce DEF OnceInv
<1>2. CASE AliveStep
  <2>1. /\ mail' = mail /\ db' = db /\ tpc' = "save" /\ tpc = "alive"
        /\ UNCHANGED <<delivered, cpc>>
        /\ \/ tst'.pendingToken = tst.pendingToken
           \/ tst'.pendingToken = tokens + 1
    BY <1>0, <1>2, AliveEffect
  <2> QED
    BY <1>0, <2>1, QuietOnce DEF OnceInv, Idle
<1>3. CASE DeliverStep
  <2>1. ~DeliverLosesAck /\ ~RecordDeliveryFails
    BY DEF DeliverLosesAck, RecordDeliveryFails, Fault
  <2>2. CASE DeliverSends
    BY <1>0, <2>2, OnceSends
  <2>3. CASE RecordDelivery
    <3>1. /\ Working /\ tpc = "record" /\ delivered' = delivered \cup {Key}
          /\ UNCHANGED <<db, cpc, mail>> /\ tst'.pendingToken = tst.pendingToken
          /\ tpc' \in {"deliver", "record", "pack", "save"} /\ tpc' # "record"
      BY <1>0, <1>3, <2>3, DeliverEffect
         DEF RecordDelivery, worldVars, AfterDeliver
    <3>2. /\ Remembered(delivered', mail, db, tpc', Key')
          /\ Remembered(delivered', mail, tst', tpc', Key')
      BY <3>1 DEF OnceInv, Remembered, InRound
    <3>3. Remembered(delivered, mail, db, tpc, Key)'
          /\ Remembered(delivered, mail, tst, tpc, Key)'
      BY <3>1, <3>2
    <3> QED
      BY <1>0, <3>1, <3>3 DEF OnceInv, OncePerRound, Idle
  <2>4. CASE DeliverSkips \/ DeliverFails \/ Pack \/ PackFails
    <3>1. /\ tpc \in {"deliver", "pack"}
          /\ UNCHANGED <<mail, delivered>>
      BY <2>4 DEF DeliverSkips, DeliverFails, Pack, PackFails, worldVars
    <3>2. /\ Working /\ tst'.pendingToken = tst.pendingToken /\ UNCHANGED <<db, cpc>>
          /\ tpc' \in {"deliver", "record", "pack", "save"}
      BY <1>0, <1>3, DeliverEffect
    <3> QED
      BY <1>0, <3>1, <3>2, QuietOnce DEF OnceInv, Idle
  <2> QED
    BY <1>3, <2>1, <2>2, <2>3, <2>4 DEF DeliverStep
<1>4. CASE TickAlive \/ TickStage \/ TickFileSent
  <2>1. PICK st \in {db, [db EXCEPT !.phase = "COMPLETED"]} :
          /\ tst' = st /\ UNCHANGED <<db, mail, delivered, cpc>>
          /\ cpc = "idle" /\ tpc = "idle"
          /\ tpc' \in {"alive", "save", "deliver"}
    BY <1>4 DEF TickAlive, TickStage, TickFileSent, BeginTick, worldVars, confVars
  <2>2. st.pendingToken = db.pendingToken
    BY <1>0 DEF Row
  <2> QED
    BY <1>0, <2>1, <2>2, QuietOnce DEF Idle
<1>5. CASE TickNothing \/ Clock
  BY <1>1, <1>5 DEF TickNothing, Clock, worldVars, confVars
<1>6. CASE TickSave
  <2>1. /\ db' = tst /\ tst' = InitialRow /\ tpc' = "idle" /\ tpc = "save"
        /\ UNCHANGED <<delivered, cpc, mail>>
    BY <1>6 DEF TickSave, EndTick, worldVars, confVars
  <2> QED
    BY <1>0, <2>1, QuietOnce DEF OnceInv
<1>7. ~TickAborts /\ ~ConfirmFails /\ ~Crash
  BY DEF TickAborts, ConfirmFails, Crash, Fault
<1>8. CASE ConfirmLoad
  BY <1>0, <1>8, QuietOnce
     DEF ConfirmLoad, tickVars, worldVars, OnceInv, Idle
<1>9. CASE ConfirmSave \/ ConfirmSaveWithoutArchive
  <2>1. /\ db' = cst /\ UNCHANGED <<tst, tpc, delivered, mail>> /\ tpc = "idle"
    BY <1>9 DEF ConfirmSave, ConfirmSaveWithoutArchive, tickVars, worldVars, OnceInv
  <2> QED
    BY <1>0, <2>1, QuietOnce DEF OnceInv, Idle
<1>10. CASE ConfirmClearDeliveries \/ BootClearsDeliveries
  <2>1. /\ UNCHANGED <<db, tst, mail>> /\ tpc' = "idle" /\ cpc' = "idle"
        /\ db.pendingToken = nil /\ tst.pendingToken = nil
    BY <1>10
       DEF ConfirmClearDeliveries, EndConfirm, BootClearsDeliveries, tickVars,
           confVars, worldVars, OnceInv, Idle
  <2>2. Remembered(delivered, mail, db, tpc, Key)'
        /\ Remembered(delivered, mail, tst, tpc, Key)'
    BY <2>1 DEF Remembered, InRound
  <2> QED
    BY <1>0, <2>1, <2>2 DEF OnceInv, OncePerRound, Idle
<1>11. CASE BootKeeps \/ BootResets
  <2>1. /\ tpc = "boot" /\ tpc' \in {"idle", "bootClear"}
        /\ UNCHANGED <<tst, delivered, mail, cpc>>
        /\ db' = db \/ db' = resetToAlive(db, now)
        /\ tpc' = "bootClear" => db' = resetToAlive(db, now)
    BY <1>11 DEF BootKeeps, BootResets, confVars, worldVars
  <2>2. resetToAlive(db, now).pendingToken = nil
    BY <1>0 DEF resetToAlive, WithoutArchive, Confirmed, Row
  <2>3. cpc = "idle" /\ tst.pendingToken = nil
    BY <2>1 DEF OnceInv, Idle
  <2> QED
    BY <1>0, <2>1, <2>2, <2>3, QuietOnce
<1>12. CASE UNCHANGED vars
  BY <1>1, <1>12 DEF vars, tickVars, confVars, worldVars
<1> QED
  BY <1>2, <1>3, <1>4, <1>5, <1>6, <1>7, <1>8, <1>9, <1>10, <1>11, <1>12
     DEF Next, TickStep, BeginStep, ConfirmStep, BootStep

LEMMA OnceInit == Init => OnceInv
<1> SUFFICES ASSUME Init PROVE OnceInv
  OBVIOUS
<1>1. /\ \A x \in DOMAIN mail : mail[x] = nil
      /\ db.pendingToken = nil /\ tst.pendingToken = nil /\ cpc = "idle"
  BY DEF Init, InitialRow
<1>2. /\ Remembered(delivered, mail, db, tpc, Key)
      /\ Remembered(delivered, mail, tst, tpc, Key)
  BY <1>1 DEF Remembered, InRound
<1> QED
  BY RoundInit, <1>1, <1>2 DEF OnceInv, OncePerRound

LEMMA EarlierOnce ==
  ASSUME NEW row, EarlierVersion(row)
  PROVE  OncePerRound
<1>1. DOMAIN mail = Recipient \X Stages
  BY EarlierFacts
<1> QED
  BY <1>1, EarlierFacts DEF OncePerRound

LEMMA LegacyOnce == \A row : LegacyLoaded(row) => OnceInv
<1> SUFFICES ASSUME NEW row, LegacyLoaded(row)
             PROVE  OnceInv
  OBVIOUS
<1>0. /\ EarlierVersion(row) /\ tpc \in {"idle", "bootClear"} /\ cpc = "idle"
      /\ tpc = "bootClear" => db.pendingToken = nil
      /\ tpc = "idle" => db = row
      /\ delivered \subseteq Recipient \X Stages
      /\ tst.pendingToken = nil
  BY LegacyFacts, EarlierFacts DEF EarlierVersion
<1>1. \A r \in Recipient, s \in Stages : mail[<<r, s>>] # nil => <<r, s>> \in delivered
  BY <1>0, EarlierFacts
<1>2. /\ Remembered(delivered, mail, db, tpc, Key)
      /\ Remembered(delivered, mail, tst, tpc, Key)
  BY <1>0, <1>1 DEF Remembered, InRound
<1> QED
  BY <1>0, <1>2, LegacyRound, EarlierOnce DEF OnceInv

(* "Each beneficiary gets each stage once" (README.md:26): no recipient is *)
(* sent the same stage of a round twice however often the sends of others  *)
(* fail and are retried (deliver, RecordDelivery), from a new database and *)
(* from one of an earlier version.  That a send's outcome is known and     *)
(* recorded before anything else happens is what it takes: an              *)
(* acknowledgement or a record that is lost repeats the message.           *)
THEOREM NobodyHasAStageTwice ==
  ASSUME Overlap = FALSE, FaultKinds \subseteq {"sendFails"}
  PROVE  (Spec \/ LegacySpec) => []OncePerRound
<1>1. Spec => []OnceInv
  BY OnceInit, OnceNext, PTL DEF Spec
<1>2. LegacyStart => OncePerRound
  BY EarlierOnce DEF LegacyStart
<1>3. OnceInv => OncePerRound
  BY DEF OnceInv
<1>4. (LegacyStart \/ OnceInv) /\ [Next]_vars => (LegacyStart \/ OnceInv)'
  <2>1. (\A row : LegacyLoaded(row) => OnceInv)'
    BY LegacyOnce, PTL
  <2> QED
    BY <2>1, LegacyLoads, OnceNext
<1>5. LegacySpec => [](LegacyStart \/ OnceInv)
  BY <1>4, LegacyBegins, PTL DEF LegacySpec
<1> QED
  BY <1>1, <1>2, <1>3, <1>5, PTL

(* A start on the database of an earlier version is as good as a new one:  *)
(* whatever overlaps and fails, the order of the stages holds and the      *)
(* owner can cancel, whether normalisation resets the row it finds or      *)
(* keeps it (NormalizeForTargetFlow).                                      *)
THEOREM EarlierDatabasesAreSafe ==
  LegacySpec => [](StagesInOrder /\ Cancellable)
<1>1. SafeInv => StagesInOrder /\ Cancellable
  BY SafeStagesInOrder, SafeCancellable
<1>2. LegacyStart => StagesInOrder /\ Cancellable
  <2> SUFFICES ASSUME LegacyStart
               PROVE  StagesInOrder /\ Cancellable
    OBVIOUS
  <2>1. EarlierVersion(db) /\ tpc = "boot"
    BY DEF LegacyStart
  <2>2. \A s \in Stages : Had(s) = {r \in Recipient : <<r, s>> \in delivered}
    BY <2>1, EarlierFacts DEF Had
  <2>4. StagesInOrder
    BY <2>1, <2>2, EarlierOrder DEF StagesInOrder
  <2> QED
    BY <2>1, <2>4 DEF Cancellable, EarlierVersion
<1>3. (LegacyStart \/ SafeInv) /\ [Next]_vars => (LegacyStart \/ SafeInv)'
  <2>1. (\A row : LegacyLoaded(row) => SafeInv)'
    BY LegacySafe, PTL
  <2> QED
    BY <2>1, LegacyLoads, SafeNext
<1>4. LegacySpec => [](LegacyStart \/ SafeInv)
  BY <1>3, LegacyBegins, PTL DEF LegacySpec
<1> QED
  BY <1>1, <1>2, <1>4, PTL

-----------------------------------------------------------------------------
(* The delays between the stages.                                          *)

(* No message left after a time.                                           *)
SentBy(m, t) ==
  \A r \in Recipient, s \in Stages : m[<<r, s>>] # nil => m[<<r, s>>].at <= t

(* A row that waits for a stage has a time for the stage before it at      *)
(* which all of that stage's messages of its round had left.               *)
TimesKept(m, st) ==
  /\ st.phase = "WARNED" =>
       /\ st.warnedAt # nil
       /\ \A r \in Recipient :
            InRound(m, st, r, "WARN") => m[<<r, "WARN">>].at <= st.warnedAt
  /\ st.phase = "PASSWORD_SENT" =>
       /\ st.passwordSentAt # nil
       /\ \A r \in Recipient :
            InRound(m, st, r, "PASSWORD") =>
              m[<<r, "PASSWORD">>].at <= st.passwordSentAt

(* A tick goes on with the time it began at, however late its sends are:   *)
(* it is no later than the clock and no earlier than any message, and the  *)
(* stage it is at was due then.                                            *)
DelayInv ==
  /\ RoundInv
  /\ tnow <= now
  /\ SentBy(mail, now)
  /\ Working => SentBy(mail, tnow) /\ StageReady(tst, tnow)
  /\ TimesKept(mail, db) /\ TimesKept(mail, tst)
  /\ DelaysHonoured

(* The rows for which that stays so when no message is sent.               *)
LEMMA TimesFollow ==
  ASSUME NEW m, NEW st, TimesKept(m, st), NEW later,
         \/ later.phase \notin {"WARNED", "PASSWORD_SENT"}
         \/ /\ later.phase = st.phase /\ later.pendingToken = st.pendingToken
            /\ later.warnedAt = st.warnedAt
            /\ later.passwordSentAt = st.passwordSentAt
  PROVE  TimesKept(m, later)
BY DEF TimesKept, InRound

(* The row a stage ends with is stamped with the time of the tick.         *)
LEMMA TimesStamped ==
  ASSUME TypeInv, Working, NEW m, SentBy(m, tnow)
  PROVE  TimesKept(m, Advanced(tst, tnow))
<1>0. /\ tst.phase \in {"PENDING_TRIGGER", "WARNED", "PASSWORD_SENT"}
      /\ tst \in Row /\ tnow # nil
  BY StageFacts, StateStoreAssumption DEF TypeInv, TypeOK, Instant
<1>1. "WARN" \in Stages /\ "PASSWORD" \in Stages
  BY DEF Stages
<1>2. CASE tst.phase = "PENDING_TRIGGER"
  <2>1. Advanced(tst, tnow).phase = "WARNED" /\ Advanced(tst, tnow).warnedAt = tnow
    BY <1>0, <1>2 DEF Advanced, Row
  <2> QED
    BY <1>0, <1>1, <2>1 DEF TimesKept, InRound, SentBy
<1>3. CASE tst.phase = "WARNED"
  <2>1. /\ Advanced(tst, tnow).phase = "PASSWORD_SENT"
        /\ Advanced(tst, tnow).passwordSentAt = tnow
    BY <1>0, <1>3 DEF Advanced, Row
  <2> QED
    BY <1>0, <1>1, <2>1 DEF TimesKept, InRound, SentBy
<1>4. CASE tst.phase = "PASSWORD_SENT"
  <2>1. Advanced(tst, tnow).phase = "FILE_SENT"
    BY <1>0, <1>4 DEF Advanced, Row
  <2> QED
    BY <2>1 DEF TimesKept
<1> QED
  BY <1>0, <1>2, <1>3, <1>4

(* Steps that send no stage message.                                       *)
LEMMA QuietDelay ==
  ASSUME DelayInv, RoundInv', mail' = mail, now <= now', tnow' <= now',
         TimesKept(mail, db'), TimesKept(mail, tst'),
         Working' => SentBy(mail, tnow') /\ StageReady(tst', tnow')
  PROVE  DelayInv'
<1>1. SentBy(mail, now')
  <2>1. /\ now \in Nat /\ now' \in Nat
        /\ mail \in [Recipient \X Stages -> Maybe(Message)]
    BY DEF DelayInv, RoundInv, SafeInv, TypeInv, TypeOK, Instant
  <2>2. ASSUME NEW r \in Recipient, NEW s \in Stages, mail[<<r, s>>] # nil
        PROVE  mail[<<r, s>>].at <= now'
    <3>1. mail[<<r, s>>].at \in Nat /\ mail[<<r, s>>].at <= now
      BY <2>1, <2>2 DEF DelayInv, SentBy, Maybe, Message, Instant
    <3> QED
      BY <2>1, <3>1
  <2> QED
    BY <2>2 DEF SentBy
<1>2. DelaysHonoured'
  BY DEF DelayInv, DelaysHonoured, Waited
<1>3. SentBy(mail, now)' /\ (Working => SentBy(mail, tnow) /\ StageReady(tst, tnow))'
  BY <1>1
<1>4. TimesKept(mail, db)' /\ TimesKept(mail, tst)'
  OBVIOUS
<1> QED
  BY <1>2, <1>3, <1>4 DEF DelayInv

(* The message of a stage leaves when the stage was due after the last     *)
(* message of the one before it: the row the tick works on says when that  *)
(* was.  A message of the stage before it cannot leave after it, for none  *)
(* of the round's is ahead of the row.                                     *)
LEMMA ArrivesAfterDelay ==
  ASSUME DelayInv, tpc = "deliver", Arrives,
         KeepsOrder(PasswordDelay), KeepsOrder(FileDelay)
  PROVE  DelaysHonoured'
<1>0. /\ SafeInv /\ TypeInv /\ Working /\ tst \in Row /\ tnow \in Instant
      /\ RowSane(tst) /\ NoneAhead(mail, tst) /\ TimesKept(mail, tst)
      /\ StageReady(tst, tnow)
      /\ mail \in [Recipient \X Stages -> Maybe(Message)]
      /\ nil \notin Instant
  BY StateStoreAssumption
     DEF DelayInv, RoundInv, SafeInv, TypeInv, TypeOK, Working, Instant
<1>1. /\ tst.phase = "PENDING_TRIGGER" <=> Stage = "WARN"
      /\ tst.phase = "WARNED" <=> Stage = "PASSWORD"
      /\ tst.phase = "PASSWORD_SENT" <=> Stage = "FILE"
      /\ Stage \in Stages /\ {"WARN", "PASSWORD", "FILE"} \subseteq Stages
      /\ tst.pendingToken # nil
  BY <1>0, StageFacts DEF RowSane, Stages
<1>2. /\ mail'[Key] # nil /\ mail'[Key].round = tst.pendingToken
      /\ mail'[Key].at = tnow
      /\ \A x \in Recipient \X Stages : x # Key => mail'[x] = mail[x]
      /\ Key = <<To(ti), Stage>>
  BY <1>0, ArrivesEffect DEF Key
<1>3. ASSUME NEW r \in Recipient, NEW b \in Recipient,
             NEW earlier \in Stages, NEW later \in Stages, earlier # later,
             NEW delay,
             Waited(earlier, delay, later), b # Owner,
             mail'[<<r, earlier>>] # nil, mail'[<<b, later>>] # nil,
             mail'[<<r, earlier>>].round = mail'[<<b, later>>].round,
             Stage = earlier => ~InRound(mail, tst, b, later),
             Stage = later /\ InRound(mail, tst, r, earlier) =>
               stageDue(mail[<<r, earlier>>].at, delay, tnow)
      PROVE  stageDue(mail'[<<r, earlier>>].at, delay, mail'[<<b, later>>].at)
  <2>1. CASE <<r, earlier>> = Key
    <3>1. <<b, later>> # Key /\ mail'[<<b, later>>] = mail[<<b, later>>]
      BY <1>2, <1>3, <2>1
    <3>2. InRound(mail, tst, b, later)
      BY <1>1, <1>2, <1>3, <2>1, <3>1 DEF InRound
    <3> QED
      BY <1>2, <1>3, <2>1, <3>2
  <2>2. CASE <<r, earlier>> # Key /\ <<b, later>> = Key
    <3>1. mail'[<<r, earlier>>] = mail[<<r, earlier>>]
      BY <1>2, <2>2
    <3>2. InRound(mail, tst, r, earlier) /\ Stage = later
      BY <1>1, <1>2, <1>3, <2>2, <3>1 DEF InRound
    <3> QED
      BY <1>2, <1>3, <2>2, <3>1, <3>2
  <2>3. CASE <<r, earlier>> # Key /\ <<b, later>> # Key
    <3>1. /\ mail'[<<r, earlier>>] = mail[<<r, earlier>>]
          /\ mail'[<<b, later>>] = mail[<<b, later>>]
      BY <1>2, <2>3
    <3> QED
      BY <1>3, <3>1 DEF Waited
  <2> QED
    BY <2>1, <2>2, <2>3
<1>4. ASSUME NEW r \in Recipient, NEW s \in Stages, InRound(mail, tst, r, s)
      PROVE  mail[<<r, s>>].at \in Instant
  BY <1>0, <1>4 DEF InRound, Maybe, Message
<1>5. ASSUME NEW at \in Instant, NEW base \in Instant, at <= base,
             NEW delay, KeepsOrder(delay), stageDue(base, delay, tnow)
      PROVE  stageDue(at, delay, tnow)
  BY <1>0, <1>5 DEF KeepsOrder, stageDue, Instant
<1>6. Waited("WARN", PasswordDelay, "PASSWORD")'
  <2>1. Stage = "WARN" => \A b \in Recipient : ~InRound(mail, tst, b, "PASSWORD")
    BY <1>0, <1>1, PhasesBegun DEF NoneAhead
  <2>2. ASSUME NEW r \in Recipient, Stage = "PASSWORD", InRound(mail, tst, r, "WARN")
        PROVE  stageDue(mail[<<r, "WARN">>].at, PasswordDelay, tnow)
    <3>1. /\ tst.warnedAt \in Instant
          /\ mail[<<r, "WARN">>].at <= tst.warnedAt
          /\ stageDue(tst.warnedAt, PasswordDelay, tnow)
      BY <1>0, <1>1, <2>2 DEF TimesKept, StageReady, Row, Maybe
    <3> QED
      BY <1>1, <1>4, <1>5, <2>2, <3>1
  <2>3. Waited("WARN", PasswordDelay, "PASSWORD")
    BY DEF DelayInv, DelaysHonoured
  <2> QED
    BY <1>1, <1>3, <2>1, <2>2, <2>3 DEF Waited
<1>7. Waited("PASSWORD", FileDelay, "FILE")'
  <2>1. Stage = "PASSWORD" => \A b \in Recipient : ~InRound(mail, tst, b, "FILE")
    BY <1>0, <1>1, PhasesBegun DEF NoneAhead
  <2>2. ASSUME NEW r \in Recipient, Stage = "FILE", InRound(mail, tst, r, "PASSWORD")
        PROVE  stageDue(mail[<<r, "PASSWORD">>].at, FileDelay, tnow)
    <3>1. /\ tst.passwordSentAt \in Instant
          /\ mail[<<r, "PASSWORD">>].at <= tst.passwordSentAt
          /\ stageDue(tst.passwordSentAt, FileDelay, tnow)
      BY <1>0, <1>1, <2>2 DEF TimesKept, StageReady, Row, Maybe
    <3> QED
      BY <1>1, <1>4, <1>5, <2>2, <3>1
  <2>3. Waited("PASSWORD", FileDelay, "FILE")
    BY DEF DelayInv, DelaysHonoured
  <2> QED
    BY <1>1, <1>3, <2>1, <2>2, <2>3 DEF Waited
<1> QED
  BY <1>6, <1>7 DEF DelaysHonoured

(* The steps of a tick that sends the messages of a stage.                 *)
LEMMA DeliverDelay ==
  ASSUME DelayInv, RoundInv', DeliverStep,
         KeepsOrder(PasswordDelay), KeepsOrder(FileDelay)
  PROVE  DelayInv'
<1>0. /\ SafeInv /\ TypeInv /\ SentBy(mail, now) /\ tnow <= now
      /\ TimesKept(mail, tst) /\ TimesKept(mail, db)
      /\ tst \in Row /\ tnow \in Nat /\ now \in Nat
      /\ mail \in [Recipient \X Stages -> Maybe(Message)]
  BY DEF DelayInv, RoundInv, SafeInv, TypeInv, TypeOK, Instant
<1>1. /\ Working /\ tpc' \in {"deliver", "record", "pack", "save"}
      /\ UNCHANGED <<now, db, tnow>>
      /\ tst'.pendingToken = tst.pendingToken
      /\ \/ tst' = tst
         \/ /\ tst'.phase = tst.phase /\ tst'.warnedAt = tst.warnedAt
            /\ tst'.passwordSentAt = tst.passwordSentAt
         \/ tpc' = "save" /\ tst' = Advanced(tst, tnow)
      /\ UNCHANGED <<mail, buttons>> \/ (tpc = "deliver" /\ Arrives)
  BY <1>0, DeliverEffect
<1>2. SentBy(mail, tnow) /\ StageReady(tst, tnow)
  BY <1>1 DEF DelayInv
<1>3. Working' => StageReady(tst', tnow)
  BY <1>1, <1>2 DEF StageReady, Working
<1>4. ASSUME NEW m, SentBy(m, tnow), TimesKept(m, tst)
      PROVE  TimesKept(m, tst')
  BY <1>0, <1>1, <1>4, TimesFollow, TimesStamped
<1>5. CASE UNCHANGED mail
  BY <1>0, <1>1, <1>2, <1>3, <1>4, <1>5, QuietDelay
<1>6. CASE tpc = "deliver" /\ Arrives
  <2>1. /\ mail'[Key].at = tnow
        /\ \A x \in Recipient \X Stages : x # Key => mail'[x] = mail[x]
        /\ mail'[Key].round = tst.pendingToken
    BY <1>0, <1>1, <1>6, ArrivesEffect
  <2>2. tnow <= tnow /\ \A r \in Recipient, s \in Stages :
          <<r, s>> # Key => mail'[<<r, s>>] = mail[<<r, s>>]
    BY <1>0, <2>1
  <2>3. SentBy(mail', now) /\ SentBy(mail', tnow)
    BY <1>0, <1>2, <2>1, <2>2 DEF SentBy
  <2>4. /\ tst.phase = "PENDING_TRIGGER" <=> Stage = "WARN"
        /\ tst.phase = "WARNED" <=> Stage = "PASSWORD"
        /\ tst.phase = "PASSWORD_SENT" <=> Stage = "FILE"
        /\ Stage \in Stages /\ {"WARN", "PASSWORD"} \subseteq Stages
        /\ Key = <<To(ti), Stage>>
    BY <1>0, <1>1, StageFacts DEF Stages, Key
  <2>5. ASSUME NEW st, TimesKept(mail, st),
               st.pendingToken # nil => st.phase = tst.phase
        PROVE  TimesKept(mail', st)
    <3>1. ASSUME NEW r \in Recipient, NEW s \in {"WARN", "PASSWORD"},
                 s # Stage, InRound(mail', st, r, s)
          PROVE  InRound(mail, st, r, s) /\ mail'[<<r, s>>] = mail[<<r, s>>]
      BY <2>2, <2>4, <3>1 DEF InRound
    <3>2. st.phase \in {"WARNED", "PASSWORD_SENT"} /\ st.pendingToken # nil =>
            /\ st.phase = "WARNED" => Stage # "WARN"
            /\ st.phase = "PASSWORD_SENT" => Stage # "PASSWORD"
      BY <2>4, <2>5
    <3> QED
      BY <2>5, <3>1, <3>2 DEF TimesKept, InRound
  <2>6. TimesKept(mail', db) /\ TimesKept(mail', tst)
    BY <1>0, <1>1, <2>5 DEF DelayInv, RoundInv
  <2>7. TimesKept(mail', tst')
    BY <1>4, <2>3, <2>6
  <2>8. /\ (TimesKept(mail, db) /\ TimesKept(mail, tst))'
        /\ SentBy(mail, now)'
        /\ (Working => SentBy(mail, tnow) /\ StageReady(tst, tnow))'
        /\ (tnow <= now)'
    BY <1>0, <1>1, <1>3, <2>3, <2>6, <2>7
  <2>9. DelaysHonoured'
    BY <1>6, ArrivesAfterDelay
  <2> QED
    BY <2>8, <2>9 DEF DelayInv
<1> QED
  BY <1>1, <1>5, <1>6

LEMMA DelayInit == Init => DelayInv
<1> SUFFICES ASSUME Init PROVE DelayInv
  OBVIOUS
<1>1. \A x \in Recipient \X Stages : mail[x] = nil
  BY DEF Init
<1>2. DelaysHonoured
  BY <1>1 DEF DelaysHonoured, Waited, Stages
<1>3. db.phase = "ALIVE" /\ tst.phase = "ALIVE" /\ tnow <= now
  BY DEF Init, InitialRow
<1> QED
  BY RoundInit, <1>1, <1>2, <1>3
     DEF DelayInv, SentBy, TimesKept, Init, Working

(* DelayInv is inductive when stages reached later are due no earlier.     *)
LEMMA DelayNext ==
  ASSUME KeepsOrder(PasswordDelay), KeepsOrder(FileDelay), DelayInv, [Next]_vars
  PROVE  DelayInv'
<1>0. /\ RoundInv' /\ SafeInv /\ TypeInv /\ tnow <= now
      /\ TimesKept(mail, tst) /\ TimesKept(mail, db) /\ SentBy(mail, now)
      /\ db \in Row /\ now \in Nat /\ tnow \in Nat
      /\ cst.phase = "ALIVE" /\ InitialRow.phase = "ALIVE"
      /\ Working => SentBy(mail, tnow) /\ StageReady(tst, tnow)
  BY RoundNext
     DEF DelayInv, RoundInv, SafeInv, TypeInv, TypeOK, Instant, InitialRow
<1>1. \A m, st : st.phase \notin {"WARNED", "PASSWORD_SENT"} => TimesKept(m, st)
  BY DEF TimesKept
<1>2. now <= now /\ 0 <= now /\ now <= now + 1 /\ tnow <= now + 1
  BY <1>0
<1>3. CASE DeliverStep
  BY <1>0, <1>3, DeliverDelay
<1>4. CASE AliveStep
  <2>1. /\ UNCHANGED <<mail, db, now, tnow>> /\ tpc' = "save"
        /\ tst'.phase \in {"ALIVE", "GRACE", "PENDING_TRIGGER"}
    BY <1>0, <1>4, AliveEffect DEF DelayInv, RoundInv
  <2>2. tst'.phase \notin {"WARNED", "PASSWORD_SENT"} /\ ~Working'
    BY <2>1 DEF Working
  <2> QED
    BY <1>0, <1>1, <1>2, <2>1, <2>2, QuietDelay
<1>5. CASE TickAlive \/ TickStage \/ TickFileSent
  <2>1. /\ UNCHANGED <<mail, db, now>> /\ tnow' = now
        /\ \/ tst' = db
           \/ tst' = [db EXCEPT !.phase = "COMPLETED"]
        /\ tpc' \in {"alive", "save"} \/ (tst' = db /\ StageReady(db, now))
    BY <1>5 DEF TickAlive, TickStage, TickFileSent, BeginTick, worldVars
  <2>2. TimesKept(mail, tst')
    BY <1>0, <1>1, <2>1 DEF Row
  <2>3. Working' => SentBy(mail, tnow') /\ StageReady(tst', tnow')
    BY <1>0, <2>1 DEF Working
  <2> QED
    BY <1>0, <1>2, <2>1, <2>2, <2>3, QuietDelay
<1>6. CASE TickNothing
  <2>1. UNCHANGED <<mail, db, now, tnow, tst, tpc>>
    BY <1>6 DEF TickNothing, worldVars
  <2> QED
    BY <1>0, <1>2, <2>1, QuietDelay DEF Working
<1>7. CASE TickSave \/ TickAborts \/ Crash
  <2>1. /\ UNCHANGED <<mail, now>> /\ tnow' = 0 /\ tst' = InitialRow
        /\ db' \in {db, tst} /\ tpc' \in {"idle", "boot"}
    BY <1>7 DEF TickSave, TickAborts, Crash, EndTick, worldVars
  <2> QED
    BY <1>0, <1>1, <1>2, <2>1, QuietDelay DEF Working
<1>8. CASE ConfirmLoad \/ ConfirmStep \/ ConfirmFails
  <2>1. UNCHANGED <<mail, now, tnow, tst, tpc>> /\ db' \in {db, cst}
    BY <1>8 DEF ConfirmLoad, ConfirmStep, ConfirmSave,
                ConfirmSaveWithoutArchive, ConfirmClearDeliveries,
                ConfirmFails, tickVars, worldVars
  <2> QED
    BY <1>0, <1>1, <1>2, <2>1, QuietDelay DEF Working
<1>9. CASE BootStep
  <2>1. /\ UNCHANGED <<mail, now, tnow, tst>> /\ tpc' \in {"idle", "bootClear"}
        /\ db' \in {db, resetToAlive(db, now)}
    BY <1>9
       DEF BootStep, BootKeeps, BootResets, BootClearsDeliveries, worldVars
  <2>2. resetToAlive(db, now).phase = "ALIVE"
    BY <1>0 DEF resetToAlive, WithoutArchive, Confirmed, Row
  <2> QED
    BY <1>0, <1>1, <1>2, <2>1, <2>2, QuietDelay DEF Working
<1>10. CASE Clock
  <2>1. UNCHANGED <<mail, db, tnow, tst, tpc>> /\ now' = now + 1
    BY <1>10 DEF Clock, worldVars
  <2> QED
    BY <1>0, <1>2, <2>1, QuietDelay DEF Working
<1>11. CASE UNCHANGED vars
  <2>1. UNCHANGED <<mail, db, now, tnow, tst, tpc>>
    BY <1>11 DEF vars, tickVars, worldVars
  <2> QED
    BY <1>0, <1>2, <2>1, QuietDelay DEF Working
<1> QED
  BY <1>3, <1>4, <1>5, <1>6, <1>7, <1>8, <1>9, <1>10, <1>11
     DEF Next, TickStep, BeginStep

-----------------------------------------------------------------------------
(* The stages keep their distance, whatever overlaps, fails or crashes: a  *)
(* password mail leaves no earlier than the password delay after the last  *)
(* warning of its round, a link no earlier than the file delay after the   *)
(* last password (tickWarned, tickPasswordSent, nextStageTime), when both  *)
(* delays keep the order of what they are counted from.                    *)
THEOREM StagesKeepTheirDistance ==
  ASSUME KeepsOrder(PasswordDelay), KeepsOrder(FileDelay)
  PROVE  Spec => []DelaysHonoured
<1>1. DelayInv => DelaysHonoured
  BY DEF DelayInv
<1> QED
  BY DelayInit, DelayNext, <1>1, PTL DEF Spec

(* In a zone whose days follow each other, as they do in every zone that   *)
(* keeps its offset (SteadyZoneFollows), no mail comes early, whatever the *)
(* delays are (addLocalDaysAtTime), ...                                    *)
THEOREM DistanceWhereDaysFollow ==
  ASSUME DaysFollow
  PROVE  Spec => []DelaysHonoured
<1>1. ASSUME NEW delay \in {PasswordDelay, FileDelay}
      PROVE  KeepsOrder(delay)
  BY TargetFlowAssumption, ExactDelaysKeepOrder, DayDelaysKeepOrder
<1> QED
  BY <1>1, StagesKeepTheirDistance

(* ... nor, in any zone at all, when the delays count hours rather than    *)
(* days (nextStageTime).                                                   *)
THEOREM DistanceOfExactDelays ==
  ASSUME ~PasswordDelay.dayBased, ~FileDelay.dayBased
  PROVE  Spec => []DelaysHonoured
<1>1. KeepsOrder(PasswordDelay) /\ KeepsOrder(FileDelay)
  BY TargetFlowAssumption, ExactDelaysKeepOrder
<1> QED
  BY <1>1, StagesKeepTheirDistance
=============================================================================
