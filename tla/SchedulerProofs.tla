-------------------------- MODULE SchedulerProofs --------------------------
(***************************************************************************)
(* Proofs about Scheduler for any number of beneficiaries, any delays and  *)
(* calendar, any overlap of tick and confirmation, and any number of       *)
(* crashes, lost acknowledgements and errors.                              *)
(*                                                                         *)
(* SafeInv is the inductive invariant: both copies of the row the program  *)
(* may write, the database's and the tick's, are sane on their own, so     *)
(* that it does not matter which of them overwrites the other.  TurnInv,   *)
(* at the end, adds what a confirmation is worth when no tick overlaps it. *)
(***************************************************************************)
EXTENDS Scheduler, FiniteSetTheorems, TLAPS

-----------------------------------------------------------------------------
(* The reminders due are a number, whichever kind of interval counts them. *)
LEMMA RemindersAreCounted ==
  ASSUME NEW s \in Instant, NEW t \in Instant
  PROVE  remindersSent(s, t) \in Nat
<1>1. CASE ReminderInterval.dayBased
  <2> DEFINE n == (t - s) \div DayLen + 3
             due == {count \in 1 .. n :
                       \A k \in 1 .. count :
                         t >= addLocalDaysAtTime(s, k * ReminderInterval.n)}
  <2>1. n \in Int
    BY TargetFlowAssumption DEF Instant
  <2>2. IsFiniteSet(1 .. n)
    BY <2>1, FS_Interval
  <2>3. due \subseteq 1 .. n
    OBVIOUS
  <2>4. IsFiniteSet(due)
    BY <2>2, <2>3, FS_Subset
  <2>5. Cardinality(due) \in Nat
    BY <2>4, FS_CardinalityType
  <2> QED
    BY <1>1, <2>5 DEF remindersSent, countElapsedDayBasedStages
<1>2. CASE ~ReminderInterval.dayBased
  <2>1. ReminderInterval.n \in Nat \ {0}
    BY TargetFlowAssumption DEF Duration
  <2>2. CASE t >= s + ReminderInterval.n
    BY <1>2, <2>1, <2>2 DEF remindersSent, Instant
  <2>3. CASE t < s + ReminderInterval.n
    BY <1>2, <2>1, <2>3 DEF remindersSent, Instant
  <2> QED
    BY <2>1, <2>2, <2>3 DEF Instant
<1> QED
  BY <1>1, <1>2

-----------------------------------------------------------------------------
(* A tick is at the messages of a stage.                                   *)
Working == tpc \in {"deliver", "record", "pack"}

(* Type correctness as it is inductive: Key and StageOf are only applied   *)
(* to phases that have a stage, and a confirmation has a token.            *)
TypeInv ==
  /\ TypeOK
  /\ Working => tst.phase \in DOMAIN StageOf
  /\ cpc # "idle" => ctok \in Token

(* There is at least one beneficiary (Validate).                           *)
LEMMA BeneficiariesAreCounted == Len(Beneficiaries) \in Nat \ {0}
BY SchedulerAssumption

(* Type correctness, first of a start, then of each group of steps.        *)
LEMMA TypeInit == Init => TypeInv
<1> SUFFICES ASSUME Init PROVE TypeInv
  OBVIOUS
<1>1. InitialRow \in Row
  BY DEF InitialRow, Row, Phases, Maybe, Instant
<1>2. ti \in 0 .. Len(Beneficiaries)
  BY BeneficiariesAreCounted DEF Init
<1>3. tokens \in Nat /\ packs \in Nat /\ faults \in Nat /\ now \in Instant
      /\ tnow \in Instant
  BY DEF Init, Instant
<1>4. mail \in [Recipient \X Stages -> Maybe(Message)]
  BY DEF Init, Maybe
<1> QED
  BY <1>1, <1>2, <1>3, <1>4
     DEF Init, TypeInv, TypeOK, Working, TickPC, ConfPC, Maybe

LEMMA AliveType ==
  ASSUME TypeInv, AliveStep
  PROVE  TypeInv'
<1>0. /\ tst \in Row /\ tokens \in Nat /\ faults \in Nat
      /\ buttons \subseteq Nat \ {0} /\ tnow \in Nat
  BY DEF TypeInv, TypeOK, Instant, Token
<1>1. hasOutstandingCheckin(tst) => Missed \in Nat
  BY <1>0, RemindersAreCounted
     DEF hasOutstandingCheckin, Missed, Row, Maybe, Instant
<1>2. ASSUME NEW st \in Row, ThenSave(st), tokens' \in Nat, faults' \in Nat,
             buttons' \subseteq Nat \ {0}
      PROVE  TypeInv'
  <2>1. AfterHeartbeat(st, tnow) \subseteq Row
    BY <1>0, <1>2 DEF AfterHeartbeat, Row, Maybe, Instant
  <2> QED
    BY <1>2, <2>1
       DEF ThenSave, TypeInv, TypeOK, Working, confVars, TickPC, Token
<1>3. tokens + 1 \in Nat \ {0} /\ faults + 1 \in Nat
  BY <1>0
<1>4. CASE SendCheckin
  <2>1. [tst EXCEPT !.pendingToken = tokens + 1, !.lastCheckinSentAt = tnow,
                    !.missCount = 0] \in Row
    BY <1>0, <1>3 DEF Row, Maybe, Token, Instant
  <2> QED
    BY <1>0, <1>2, <1>3, <1>4, <2>1 DEF SendCheckin, ReachesChat
<1>5. CASE SendCheckinFails
  BY <1>0, <1>2, <1>3, <1>5
     DEF SendCheckinFails, ReachesChat, SendFails, Fault
<1>6. Grace(tst) \in Row
  BY <1>0 DEF Grace, Row, Phases
<1>7. CASE SendReminder
  <2>1. [Grace(tst) EXCEPT !.missCount = Missed] \in Row
    BY <1>1, <1>6, <1>7 DEF SendReminder, ReminderDue, Row
  <2>2. tst.pendingToken \in Nat \ {0}
    BY <1>0, <1>7
       DEF SendReminder, ReminderDue, hasOutstandingCheckin, Row, Maybe, Token
  <2> QED
    BY <1>0, <1>2, <1>7, <2>1, <2>2 DEF SendReminder, ReachesChat
<1>8. CASE SendReminderFails
  <2>1. tst.pendingToken \in Nat \ {0}
    BY <1>0, <1>8
       DEF SendReminderFails, ReminderDue, hasOutstandingCheckin, Row, Maybe, Token
  <2>2. buttons' \subseteq Nat \ {0} /\ tokens' \in Nat /\ faults' \in Nat
    BY <1>0, <1>3, <1>8, <2>1 DEF SendReminderFails, SendFails, Fault, ReachesChat
  <2> QED
    BY <1>2, <1>6, <1>8, <2>2 DEF SendReminderFails
<1>9. CASE AlreadyReminded
  BY <1>0, <1>2, <1>6, <1>9 DEF AlreadyReminded
<1>10. CASE EnterPendingTrigger
  <2>1. [tst EXCEPT !.phase = "PENDING_TRIGGER", !.missCount = Missed] \in Row
    BY <1>0, <1>1, <1>10 DEF EnterPendingTrigger, Row, Phases
  <2> QED
    BY <1>0, <1>2, <1>10, <2>1 DEF EnterPendingTrigger
<1>11. CASE NothingDue
  BY <1>0, <1>2, <1>11 DEF NothingDue
<1> QED
  BY <1>4, <1>5, <1>7, <1>8, <1>9, <1>10, <1>11 DEF AliveStep

LEMMA DeliverType ==
  ASSUME TypeInv, DeliverStep
  PROVE  TypeInv'
<1>0. /\ tst \in Row /\ packs \in Nat /\ faults \in Nat
      /\ buttons \subseteq Nat \ {0} /\ tnow \in Nat /\ db \in Row
      /\ tall \in BOOLEAN /\ ti \in 0 .. Len(Beneficiaries)
  BY DEF TypeInv, TypeOK, Instant, Token
<1>1. Working => Key \in Recipient \X Stages
  BY <1>0 DEF TypeInv, Key, Recipient, Stage, Stages, StageOf
<1>2. ASSUME NEW ok \in BOOLEAN, AfterDeliver(ok), tst.phase \in DOMAIN StageOf
      PROVE  /\ tpc' \in {"save", "pack", "deliver"} /\ tst' \in Row
             /\ ti' \in 0 .. Len(Beneficiaries) /\ tall' \in BOOLEAN
             /\ UNCHANGED <<tnow, ticked>>
             /\ tpc' # "save" => tst' = tst
  <2>1. Advanced(tst, tnow) \in Row
    BY <1>0 DEF Advanced, Row, Phases, Maybe, Instant
  <2>2. tst' \in Row /\ tpc' \in {"save", "pack", "deliver"}
        /\ (tpc' # "save" => tst' = tst)
    BY <1>0, <1>2, <2>1 DEF AfterDeliver, AllDelivered
  <2>3. ti' \in 0 .. Len(Beneficiaries)
    BY <1>0, <1>2, BeneficiariesAreCounted DEF AfterDeliver, AllDelivered
  <2>4. tall' \in BOOLEAN /\ UNCHANGED <<tnow, ticked>>
    BY <1>0, <1>2 DEF AfterDeliver, AllDelivered
  <2> QED
    BY <2>2, <2>3, <2>4
<1>3. ASSUME Arrives
      PROVE  /\ mail' \in [Recipient \X Stages -> Maybe(Message)]
             /\ buttons' \subseteq Token /\ UNCHANGED <<tokens, packs>>
  <2>1. ASSUME NEW c \in {1, 2}
        PROVE  [round |-> tst.pendingToken, at |-> tnow,
                archive |-> tst.archive, copies |-> c] \in Message
    BY <1>0 DEF Message, Row, Instant
  <2> DEFINE copies == IF mail[Key] # nil /\ mail[Key].round = tst.pendingToken
                       THEN 2 ELSE 1
             message == [round |-> tst.pendingToken, at |-> tnow,
                         archive |-> tst.archive, copies |-> copies]
  <2>2. message \in Maybe(Message)
    BY <2>1 DEF Maybe
  <2>3. mail' = [mail EXCEPT ![Key] = message]
    BY <1>3 DEF Arrives
  <2>4. mail' \in [Recipient \X Stages -> Maybe(Message)]
    <3> HIDE DEF message
    <3> QED
      BY <2>2, <2>3 DEF TypeInv, TypeOK
  <2>5. buttons' \subseteq Token
    BY <1>0, <1>3 DEF Arrives, Row, Maybe, Token
  <2> QED
    BY <1>3, <2>4, <2>5 DEF Arrives
<1>4. faults + 1 \in Nat /\ packs + 1 \in Nat
  BY <1>0
<1>5. CASE DeliverSkips
  BY <1>2, <1>5
     DEF DeliverSkips, DeliverVars, TypeInv, TypeOK, Working, confVars,
         worldVars, TickPC
<1>6. CASE DeliverSends
  BY <1>3, <1>6
     DEF DeliverSends, DeliverVars, TypeInv, TypeOK, Working, confVars, TickPC
<1>7. CASE DeliverFails
  <2>1. faults' \in Nat
    BY <1>0, <1>4, <1>7 DEF DeliverFails, SendFails, Fault
  <2> QED
    BY <1>2, <1>7, <2>1
       DEF DeliverFails, DeliverVars, TypeInv, TypeOK, Working, confVars,
           worldVars, TickPC
<1>8. CASE DeliverLosesAck
  <2>1. faults' \in Nat
    BY <1>4, <1>8 DEF DeliverLosesAck, Fault
  <2> QED
    BY <1>2, <1>3, <1>8, <2>1
       DEF DeliverLosesAck, DeliverVars, TypeInv, TypeOK, Working, confVars,
           TickPC
<1>9. CASE RecordDelivery
  <2>1. delivered' \subseteq Recipient \X Stages
    BY <1>1, <1>9 DEF RecordDelivery, TypeInv, TypeOK, Working
  <2> QED
    BY <1>2, <1>9, <2>1
       DEF RecordDelivery, DeliverVars, TypeInv, TypeOK, Working, confVars,
           worldVars, TickPC
<1>10. CASE RecordDeliveryFails
  <2>1. faults' \in Nat
    BY <1>4, <1>10 DEF RecordDeliveryFails, Fault
  <2>2. delivered' \subseteq Recipient \X Stages
    BY <1>1, <1>10 DEF RecordDeliveryFails, TypeInv, TypeOK, Working
  <2> QED
    BY <1>2, <1>10, <2>1, <2>2
       DEF RecordDeliveryFails, DeliverVars, TypeInv, TypeOK, Working,
           confVars, worldVars, TickPC
<1>11. CASE Pack
  <2>1. packs' \in Nat /\ packs + 1 \in Archive
    BY <1>0, <1>4, <1>11 DEF Pack, Archive
  <2>2. tst' \in Row /\ tst'.phase = tst.phase
    BY <1>0, <1>11, <2>1 DEF Pack, Row, Maybe
  <2>3. ti' \in 0 .. Len(Beneficiaries)
    BY <1>11, BeneficiariesAreCounted DEF Pack
  <2> QED
    BY <1>11, <2>1, <2>2, <2>3
       DEF Pack, DeliverVars, TypeInv, TypeOK, Working, confVars, TickPC
<1>12. CASE PackFails
  <2>1. faults' \in Nat
    BY <1>0, <1>4, <1>12 DEF PackFails, SendFails, Fault
  <2>2. packs' \in Nat /\ packs + 1 \in Archive
    BY <1>0, <1>4, <1>12 DEF PackFails, Archive
  <2>3. tst' \in Row /\ tst'.phase = tst.phase
    BY <1>0, <1>12, <2>2 DEF PackFails, Row, Maybe
  <2> QED
    BY <1>12, <2>1, <2>2, <2>3
       DEF PackFails, DeliverVars, TypeInv, TypeOK, Working, confVars, TickPC
<1> QED
  BY <1>5, <1>6, <1>7, <1>8, <1>9, <1>10, <1>11, <1>12 DEF DeliverStep

LEMMA OtherTickType ==
  ASSUME TypeInv, BeginStep \/ TickSave \/ TickAborts
  PROVE  TypeInv'
<1>0. /\ db \in Row /\ tst \in Row /\ InitialRow \in Row /\ now \in Nat
      /\ 0 \in 0 .. Len(Beneficiaries) /\ Urgent \in BOOLEAN
  BY BeneficiariesAreCounted, SchedulerAssumption
     DEF TypeInv, TypeOK, InitialRow, Row, Phases, Maybe, Instant
<1>1. ASSUME NEW pc \in {"alive", "save", "deliver"}, NEW st \in Row,
             BeginTick(pc, st), pc = "deliver" => st.phase \in DOMAIN StageOf
      PROVE  TypeInv'
  BY <1>0, <1>1
     DEF BeginTick, TypeInv, TypeOK, Working, confVars, worldVars, TickPC,
         Instant
<1>2. CASE TickAlive
  BY <1>0, <1>1, <1>2 DEF TickAlive
<1>3. CASE TickStage
  BY <1>0, <1>1, <1>3 DEF TickStage
<1>4. CASE TickFileSent
  <2>1. [db EXCEPT !.phase = "COMPLETED"] \in Row
    BY <1>0 DEF Row, Phases
  <2> QED
    BY <1>1, <1>4, <2>1 DEF TickFileSent
<1>5. CASE TickNothing
  BY <1>0, <1>5
     DEF TickNothing, TypeInv, TypeOK, Working, confVars, worldVars
<1>6. CASE TickSave
  BY <1>0, <1>6
     DEF TickSave, EndTick, TypeInv, TypeOK, Working, confVars, worldVars,
         TickPC, Instant
<1>7. CASE TickAborts
  <2>1. faults' \in Nat
    BY <1>7 DEF TickAborts, Fault, TypeInv, TypeOK
  <2> QED
    BY <1>0, <1>7, <2>1
       DEF TickAborts, EndTick, TypeInv, TypeOK, Working, confVars, worldVars,
           TickPC, Instant
<1> QED
  BY <1>2, <1>3, <1>4, <1>5, <1>6, <1>7 DEF BeginStep

LEMMA ConfirmType ==
  ASSUME TypeInv, ConfirmLoad \/ ConfirmStep \/ ConfirmFails
  PROVE  TypeInv'
<1>0. db \in Row /\ cst \in Row /\ InitialRow \in Row /\ now \in Instant
  BY DEF TypeInv, TypeOK, InitialRow, Row, Phases, Maybe, Instant
<1>1. CASE ConfirmLoad
  <2>1. Confirmed(db, now) \in Row
    BY <1>0 DEF Confirmed, Row, Phases, Maybe
  <2>2. db.pendingToken \in Token /\ db.pendingToken \in Maybe(Token)
    BY <1>1 DEF ConfirmLoad, TypeInv, TypeOK, Maybe
  <2> QED
    BY <1>1, <2>1, <2>2
       DEF ConfirmLoad, TypeInv, TypeOK, Working, tickVars, worldVars, ConfPC
<1>2. CASE ConfirmSave
  <2>1. WithoutArchive(cst) \in Row
    BY <1>0 DEF WithoutArchive, Row, Maybe
  <2>2. ctok \in Token /\ ctok \in Maybe(Token) /\ nil \in Maybe(Token)
    BY <1>2 DEF ConfirmSave, TypeInv, TypeOK, Maybe
  <2> QED
    BY <1>0, <1>2, <2>1, <2>2
       DEF ConfirmSave, EndConfirm, TypeInv, TypeOK, Working, tickVars,
           worldVars, ConfPC
<1>3. CASE ConfirmSaveWithoutArchive
  BY <1>0, <1>3
     DEF ConfirmSaveWithoutArchive, TypeInv, TypeOK, Working, tickVars,
         worldVars, ConfPC
<1>4. CASE ConfirmClearDeliveries
  BY <1>0, <1>4
     DEF ConfirmClearDeliveries, EndConfirm, TypeInv, TypeOK, Working,
         tickVars, worldVars, ConfPC, Maybe
<1>5. CASE ConfirmFails
  <2>1. faults' \in Nat
    BY <1>5 DEF ConfirmFails, Fault, TypeInv, TypeOK
  <2> QED
    BY <1>0, <1>5, <2>1
       DEF ConfirmFails, EndConfirm, TypeInv, TypeOK, Working, tickVars,
           worldVars, ConfPC, Maybe
<1> QED
  BY <1>1, <1>2, <1>3, <1>4, <1>5 DEF ConfirmStep

LEMMA ProcessType ==
  ASSUME TypeInv, BootStep \/ Crash \/ Clock
  PROVE  TypeInv'
<1>0. /\ db \in Row /\ InitialRow \in Row /\ now \in Instant
      /\ 0 \in 0 .. Len(Beneficiaries)
  BY BeneficiariesAreCounted
     DEF TypeInv, TypeOK, InitialRow, Row, Phases, Maybe, Instant
<1>1. CASE BootKeeps
  BY <1>1
     DEF BootKeeps, TypeInv, TypeOK, Working, confVars, worldVars, TickPC
<1>2. CASE BootResets
  <2>1. resetToAlive(db, now) \in Row
    BY <1>0 DEF resetToAlive, WithoutArchive, Confirmed, Row, Phases, Maybe
  <2> QED
    BY <1>2, <2>1
       DEF BootResets, TypeInv, TypeOK, Working, confVars, worldVars, TickPC
<1>3. CASE BootClearsDeliveries
  BY <1>3
     DEF BootClearsDeliveries, TypeInv, TypeOK, Working, confVars, worldVars,
         TickPC
<1>4. CASE Crash
  <2>1. faults' \in Nat
    BY <1>4 DEF Crash, Fault, TypeInv, TypeOK
  <2> QED
    BY <1>0, <1>4, <2>1
       DEF Crash, EndConfirm, TypeInv, TypeOK, Working, worldVars, TickPC,
           ConfPC, Instant, Maybe
<1>5. CASE Clock
  <2>1. now' \in Instant
    BY <1>0, <1>5 DEF Clock, Instant
  <2> QED
    BY <1>5, <2>1 DEF Clock, TypeInv, TypeOK, Working, confVars, worldVars
<1> QED
  BY <1>1, <1>2, <1>3, <1>4, <1>5 DEF BootStep

(* Every step keeps the types.                                             *)
LEMMA TypeNext == TypeInv /\ [Next]_vars => TypeInv'
<1>1. CASE UNCHANGED vars
  BY <1>1 DEF vars, tickVars, confVars, worldVars, TypeInv, TypeOK, Working
<1> QED
  BY <1>1, AliveType, DeliverType, OtherTickType, ConfirmType, ProcessType
     DEF Next, TickStep

(* Every variable has its type in every state: in particular the row both  *)
(* writers store is always one the program can load again (State, Save),   *)
(* and the tick never applies StageOf to a phase that has no stage.        *)
THEOREM TypeCorrect == Spec => []TypeOK
<1>1. TypeInv => TypeOK
  BY DEF TypeInv
<1> QED
  BY <1>1, TypeInit, TypeNext, PTL DEF Spec

-----------------------------------------------------------------------------
(* Everybody has had the message of the stage.                             *)
Warned == \A r \in Recipient : mail[<<r, "WARN">>] # nil
Unlocked == \A r \in Recipient : mail[<<r, "PASSWORD">>] # nil

(* What a row claims is so: a pending token has a button in the chat, a    *)
(* flow has a check-in it counts from, a row past packing has an archive,  *)
(* and a phase is reached only when everybody has had the stages before    *)
(* it.                                                                     *)
RowSane(st) ==
  /\ st.phase \in Phases
  /\ st.pendingToken # nil => st.pendingToken \in buttons
  /\ st.phase \in {"GRACE", "PENDING_TRIGGER", "WARNED", "PASSWORD_SENT"} =>
       st.pendingToken # nil /\ st.lastCheckinSentAt # nil
  /\ st.phase = "PASSWORD_SENT" => st.archive # nil
  /\ st.phase \in {"WARNED", "PASSWORD_SENT", "FILE_SENT", "COMPLETED"} => Warned
  /\ st.phase \in {"PASSWORD_SENT", "FILE_SENT", "COMPLETED"} => Unlocked

(* tickAlive only runs in the phases Tick calls it in.                     *)
AlivePhase == tpc = "alive" => tst.phase \in {"ALIVE", "GRACE"}

(* How far a tick is in the messages of its stage: the one it is about to  *)
(* record has left, the owner was reminded before the first beneficiary,   *)
(* and unless a failure is remembered everybody before ti has had his.     *)
Progress ==
  /\ tpc = "record" => mail[Key] # nil
  /\ tpc = "pack" => tst.phase = "WARNED" /\ mail[<<Owner, "PASSWORD">>] # nil
  /\ tpc \in {"deliver", "record"} /\ ti > 0 =>
       /\ mail[<<Owner, Stage>>] # nil
       /\ tst.phase = "WARNED" => tst.archive # nil
       /\ tall => \A j \in 1 .. ti - 1 : mail[<<Beneficiaries[j], Stage>>] # nil

(* StagesInOrder, recipient by recipient.                                  *)
InOrder ==
  \A r \in Recipient :
    /\ mail[<<r, "PASSWORD">>] # nil => Warned
    /\ mail[<<r, "FILE">>] # nil => Unlocked
    /\ \A s \in Stages : mail[<<r, s>>] # nil => mail[<<Owner, s>>] # nil

(* The inductive invariant.  The row a confirmation writes is harmless by  *)
(* itself: it is ALIVE and has no token.                                   *)
SafeInv ==
  /\ TypeInv
  /\ RowSane(db)
  /\ RowSane(tst)
  /\ cst.phase = "ALIVE" /\ cst.pendingToken = nil
  /\ AlivePhase
  /\ Progress
  /\ \A x \in delivered : mail[x] # nil
  /\ InOrder

(* The invariant holds at a start.                                         *)
LEMMA SafeInit == Init => SafeInv
<1> SUFFICES ASSUME Init PROVE SafeInv
  OBVIOUS
<1>1. RowSane(InitialRow)
  BY DEF RowSane, InitialRow, Phases
<1>2. \A r \in Recipient, s \in Stages : mail[<<r, s>>] = nil
  BY DEF Init
<1>3. InOrder
  BY <1>2 DEF InOrder, Stages
<1>4. AlivePhase /\ Progress /\ cst.phase = "ALIVE" /\ cst.pendingToken = nil
  BY DEF Init, AlivePhase, Progress, InitialRow
<1> QED
  BY TypeInit, <1>1, <1>3, <1>4 DEF Init, SafeInv

(* Check-ins and reminders keep it: a token is written only with its       *)
(* button sent, and the trigger keeps token and check-in.                  *)
LEMMA AliveSafe ==
  ASSUME SafeInv, TypeInv', AliveStep
  PROVE  SafeInv'
<1>0. /\ tst \in Row /\ TypeInv /\ RowSane(tst) /\ RowSane(db)
  BY DEF SafeInv, TypeInv, TypeOK
<1>1. ASSUME NEW st \in Row, ThenSave(st), buttons \subseteq buttons',
             st.phase \in {"ALIVE", "GRACE", "PENDING_TRIGGER"},
             st.pendingToken # nil => st.pendingToken \in buttons',
             st.phase # "ALIVE" =>
               st.pendingToken # nil /\ st.lastCheckinSentAt # nil
      PROVE  SafeInv'
  <2>1. \A row \in AfterHeartbeat(st, tnow) :
          /\ row.phase = st.phase /\ row.pendingToken = st.pendingToken
          /\ row.lastCheckinSentAt = st.lastCheckinSentAt
    BY <1>1 DEF AfterHeartbeat, Row
  <2>2. RowSane(tst)' /\ RowSane(db)'
    BY <1>0, <1>1, <2>1 DEF ThenSave, RowSane, Phases, Warned, Unlocked
  <2> QED
    BY <1>1, <2>2
       DEF ThenSave, SafeInv, AlivePhase, Progress, InOrder, Warned, Unlocked, confVars
<1>2. CASE SendCheckin
  <2> DEFINE st == [tst EXCEPT !.pendingToken = tokens + 1,
                               !.lastCheckinSentAt = tnow, !.missCount = 0]
  <2>0. tokens + 1 \in Token /\ tokens + 1 # nil /\ tnow \in Instant /\ tnow # nil
    BY <1>0, StateStoreAssumption DEF Token, Instant, TypeInv, TypeOK
  <2>1. /\ st \in Row /\ st.phase = tst.phase /\ st.pendingToken = tokens + 1
        /\ st.lastCheckinSentAt # nil /\ st.pendingToken # nil
    BY <1>0, <2>0 DEF Row, Maybe
  <2>2. st.phase \in {"ALIVE", "GRACE"}
    BY <1>2, <2>1 DEF SendCheckin, CheckinDue, SafeInv, AlivePhase
  <2>3. ThenSave(st) /\ buttons' = buttons \cup {tokens + 1}
    BY <1>2 DEF SendCheckin, ReachesChat
  <2> HIDE DEF st
  <2> QED
    BY <1>1, <2>1, <2>2, <2>3
<1>3. CASE SendCheckinFails
  BY <1>0, <1>1, <1>3
     DEF SendCheckinFails, CheckinDue, ReachesChat, RowSane, SafeInv, AlivePhase
<1>4. hasOutstandingCheckin(tst) => Missed \in Nat
  BY <1>0, RemindersAreCounted
     DEF hasOutstandingCheckin, Missed, Row, Maybe, TypeInv, TypeOK
<1>5. ASSUME ReminderDue \/ EnterPendingTrigger,
             NEW phase \in {"GRACE", "PENDING_TRIGGER"},
             NEW count \in {tst.missCount, Missed}
      PROVE  LET st == [tst EXCEPT !.phase = phase, !.missCount = count]
             IN /\ st \in Row /\ st.phase = phase
                /\ st.pendingToken = tst.pendingToken /\ tst.pendingToken # nil
                /\ st.lastCheckinSentAt # nil /\ st.pendingToken \in buttons
  BY <1>0, <1>4, <1>5
     DEF ReminderDue, EnterPendingTrigger, hasOutstandingCheckin, RowSane, Row,
         Phases
<1>6. CASE SendReminder
  <2> DEFINE st == [tst EXCEPT !.phase = "GRACE", !.missCount = Missed]
  <2>1. ThenSave(st) /\ ReminderDue /\ buttons \subseteq buttons'
    BY <1>6 DEF SendReminder, Grace, ReachesChat
  <2>2. /\ st \in Row /\ st.phase = "GRACE"
        /\ st.pendingToken # nil /\ st.lastCheckinSentAt # nil
        /\ st.pendingToken \in buttons
    BY <1>5, <2>1
  <2> HIDE DEF st
  <2> QED
    BY <1>1, <2>1, <2>2
<1>7. CASE SendReminderFails \/ AlreadyReminded
  <2> DEFINE st == [tst EXCEPT !.phase = "GRACE", !.missCount = tst.missCount]
  <2>1. Grace(tst) = st
    BY <1>0 DEF Grace, Row
  <2>2. ThenSave(st) /\ ReminderDue /\ buttons \subseteq buttons'
    BY <1>7, <2>1 DEF SendReminderFails, AlreadyReminded, ReachesChat
  <2>3. /\ st \in Row /\ st.phase = "GRACE"
        /\ st.pendingToken # nil /\ st.lastCheckinSentAt # nil
        /\ st.pendingToken \in buttons
    BY <1>5, <2>2
  <2> HIDE DEF st
  <2> QED
    BY <1>1, <2>2, <2>3
<1>8. CASE EnterPendingTrigger
  BY <1>1, <1>5, <1>8 DEF EnterPendingTrigger
<1>9. CASE NothingDue
  BY <1>0, <1>1, <1>9 DEF NothingDue, RowSane, SafeInv, AlivePhase
<1> QED
  BY <1>2, <1>3, <1>6, <1>7, <1>8, <1>9 DEF AliveStep

(* The stage a tick works on, and what its row says of the stages before.  *)
LEMMA StageFacts ==
  ASSUME TypeInv, Working
  PROVE  /\ tst.phase \in {"PENDING_TRIGGER", "WARNED", "PASSWORD_SENT"}
         /\ tst.phase = "PENDING_TRIGGER" <=> Stage = "WARN"
         /\ tst.phase = "WARNED" <=> Stage = "PASSWORD"
         /\ tst.phase = "PASSWORD_SENT" <=> Stage = "FILE"
         /\ Stage \in Stages /\ To(ti) \in Recipient
         /\ Key \in Recipient \X Stages
BY DEF TypeInv, TypeOK, Stage, StageOf, Stages, Recipient, Key

(* A message is added to what a recipient has had and takes nothing away.  *)
LEMMA MailGrows ==
  ASSUME TypeInv, Working, Arrives
  PROVE  /\ mail'[Key] # nil
         /\ \A x \in Recipient \X Stages : x # Key => mail'[x] = mail[x]
         /\ buttons \subseteq buttons'
<1> DEFINE copies == IF mail[Key] # nil /\ mail[Key].round = tst.pendingToken
                     THEN 2 ELSE 1
           message == [round |-> tst.pendingToken, at |-> tnow,
                       archive |-> tst.archive, copies |-> copies]
<1>1. message \in Message
  <2>1. copies \in {1, 2}
    OBVIOUS
  <2> HIDE DEF copies
  <2> QED
    BY <2>1 DEF Message, TypeInv, TypeOK, Row, Instant
<1>2. message # nil
  BY <1>1, MessageAssumption
<1>3. mail' = [mail EXCEPT ![Key] = message] /\ buttons \subseteq buttons'
  BY DEF Arrives
<1>4. mail \in [Recipient \X Stages -> Maybe(Message)]
  BY DEF TypeInv, TypeOK
<1> HIDE DEF message
<1> QED
  BY <1>2, <1>3, <1>4, StageFacts

(* A message that arrives keeps the order of the stages.                   *)
LEMMA ArrivesInOrder ==
  ASSUME SafeInv, tpc = "deliver", Arrives
  PROVE  InOrder'
<1>1. TypeInv /\ Working
  BY DEF SafeInv, Working
<1>2. \A x \in Recipient \X Stages :
        /\ mail[x] # nil => mail'[x] # nil
        /\ mail'[x] # nil => x = Key \/ mail[x] # nil
  BY <1>1, MailGrows
<1>3. (Warned => Warned') /\ (Unlocked => Unlocked')
  BY <1>2 DEF Warned, Unlocked, Stages
<1>4. (Stage = "PASSWORD" => Warned) /\ (Stage = "FILE" => Unlocked)
  BY <1>1, StageFacts DEF SafeInv, RowSane
<1>5. ASSUME NEW r \in Recipient, NEW s \in Stages, mail'[<<r, s>>] # nil
      PROVE  /\ s = "PASSWORD" => Warned
             /\ s = "FILE" => Unlocked
             /\ mail'[<<Owner, s>>] # nil
  <2>0. <<r, s>> \in Recipient \X Stages /\ <<Owner, s>> \in Recipient \X Stages
    BY BeneficiariesAreCounted DEF Recipient, To
  <2>1. CASE <<r, s>> = Key
    <3>1. r = To(ti) /\ s = Stage
      BY <2>1 DEF Key
    <3>2. CASE ti = 0
      BY <1>4, <1>5, <3>1, <3>2 DEF To
    <3>3. CASE ti # 0
      <4>1. mail[<<Owner, Stage>>] # nil
        BY <3>3, <1>1 DEF SafeInv, Progress, TypeInv, TypeOK
      <4> QED
        BY <1>2, <1>4, <2>0, <3>1, <4>1
    <3> QED
      BY <3>2, <3>3
  <2>2. CASE <<r, s>> # Key
    <3>1. mail[<<r, s>>] # nil
      BY <1>2, <1>5, <2>0, <2>2
    <3> QED
      BY <1>2, <2>0, <3>1 DEF SafeInv, InOrder
  <2> QED
    BY <2>1, <2>2
<1> QED
  BY <1>3, <1>5 DEF InOrder, Stages

(* What follows a delivery keeps the invariant: the phase advances only    *)
(* when no failure is remembered and the last recipient is done.           *)
LEMMA AfterDeliverSafe ==
  ASSUME SafeInv, NEW ok \in BOOLEAN, tpc \in {"deliver", "record"},
         AfterDeliver(ok),
         \A x \in Recipient \X Stages : mail[x] # nil => mail'[x] # nil,
         ok => mail'[Key] # nil,
         buttons \subseteq buttons'
  PROVE  RowSane(tst)' /\ AlivePhase' /\ Progress'
<1>0. /\ TypeInv /\ Working /\ RowSane(tst) /\ ti \in 0 .. Len(Beneficiaries)
      /\ tst \in Row /\ tnow \in Instant /\ Len(Beneficiaries) \in Nat
  BY BeneficiariesAreCounted DEF SafeInv, Working, TypeInv, TypeOK
<1>1. (Warned => Warned') /\ (Unlocked => Unlocked')
  BY DEF Warned, Unlocked, Stages
<1>2. \A i \in 0 .. Len(Beneficiaries), s \in Stages :
        <<To(i), s>> \in Recipient \X Stages
  BY DEF Recipient
<1>3. ASSUME NEW st \in Row, RowSane(st), tst' = st
      PROVE  RowSane(tst)'
  BY <1>1, <1>3 DEF RowSane
<1>4. CASE ti = 0
  <2>1. ok => mail'[<<Owner, Stage>>] # nil
    BY <1>4 DEF Key, To
  <2>2. tst' = tst /\ tpc' \in {"save", "pack", "deliver"}
    BY <1>4, <1>0, BeneficiariesAreCounted DEF AfterDeliver, AllDelivered
  <2>3. CASE tpc' = "save"
    BY <1>0, <1>3, <2>2, <2>3 DEF AlivePhase, Progress
  <2>4. CASE tpc' = "pack"
    <3>1. ok /\ Stage = "PASSWORD"
      BY <1>4, <1>0, <2>4 DEF AfterDeliver, AllDelivered
    <3> QED
      BY <1>0, <1>3, <2>1, <2>2, <2>4, <3>1, StageFacts
         DEF AlivePhase, Progress
  <2>5. CASE tpc' = "deliver"
    <3>1. ok /\ Stage # "PASSWORD" /\ ti' = 1
      BY <1>4, <1>0, <2>5 DEF AfterDeliver, AllDelivered
    <3>2. Stage' = Stage
      BY <2>2 DEF Stage
    <3> QED
      BY <1>0, <1>3, <2>1, <2>2, <2>5, <3>1, <3>2, StageFacts
         DEF AlivePhase, Progress
  <2> QED
    BY <2>2, <2>3, <2>4, <2>5
<1>5. CASE ti > 0
  <2>1. /\ mail[<<Owner, Stage>>] # nil
        /\ tst.phase = "WARNED" => tst.archive # nil
        /\ tall => \A j \in 1 .. ti - 1 : mail[<<Beneficiaries[j], Stage>>] # nil
    BY <1>5 DEF SafeInv, Progress
  <2>2. mail'[<<Owner, Stage>>] # nil
    BY <1>0, <1>2, <2>1, StageFacts DEF To
  <2>3. tall /\ ok => \A j \in 1 .. ti : mail'[<<Beneficiaries[j], Stage>>] # nil
    <3> SUFFICES ASSUME tall, ok, NEW j \in 1 .. ti
                 PROVE  mail'[<<Beneficiaries[j], Stage>>] # nil
      OBVIOUS
    <3>1. j \in 0 .. Len(Beneficiaries) /\ To(j) = Beneficiaries[j]
      BY <1>0 DEF To
    <3>2. CASE j = ti
      BY <3>1, <3>2 DEF Key
    <3>3. CASE j # ti
      <4>1. mail[<<Beneficiaries[j], Stage>>] # nil
        BY <1>0, <2>1, <3>3
      <4> QED
        BY <1>0, <1>2, <3>1, <4>1, StageFacts
    <3> QED
      BY <3>2, <3>3
  <2>4. CASE ti < Len(Beneficiaries)
    <3>1. tpc' = "deliver" /\ ti' = ti + 1 /\ tall' = (tall /\ ok) /\ tst' = tst
      BY <1>0, <1>5, <2>4 DEF AfterDeliver, AllDelivered
    <3>2. Stage' = Stage /\ ti' - 1 = ti
      BY <1>0, <3>1 DEF Stage
    <3>3. tall' => \A j \in 1 .. ti' - 1 : mail'[<<Beneficiaries[j], Stage>>] # nil
      BY <2>3, <3>1, <3>2
    <3> QED
      BY <1>0, <1>3, <2>1, <2>2, <3>1, <3>2, <3>3 DEF AlivePhase, Progress
  <2>5. CASE ti = Len(Beneficiaries)
    <3>1. tpc' = "save" /\ tst' = IF tall /\ ok THEN Advanced(tst, tnow) ELSE tst
      BY <1>0, <1>5, <2>5 DEF AfterDeliver, AllDelivered
    <3>2. CASE ~(tall /\ ok)
      BY <1>0, <1>3, <3>1, <3>2 DEF AlivePhase, Progress
    <3>3. CASE tall /\ ok
      <4>1. \A r \in Recipient : mail'[<<r, Stage>>] # nil
        BY <2>2, <2>3, <2>5, <3>3 DEF Recipient, To
      <4>2. (Stage = "WARN" => Warned') /\ (Stage = "PASSWORD" => Unlocked')
        BY <4>1 DEF Warned, Unlocked
      <4>3. tst' = Advanced(tst, tnow)
        BY <3>1, <3>3
      <4>4. RowSane(tst)'
        BY <1>0, <1>1, <2>1, <4>2, <4>3, StageFacts
           DEF RowSane, Advanced, Row, Phases
      <4> QED
        BY <3>1, <4>4 DEF AlivePhase, Progress
    <3> QED
      BY <3>2, <3>3
  <2> QED
    BY <1>0, <2>4, <2>5
<1> QED
  BY <1>0, <1>4, <1>5

(* Deliveries and packing keep the invariant.                              *)
LEMMA DeliverSafe ==
  ASSUME SafeInv, TypeInv', DeliverStep
  PROVE  SafeInv'
<1>0. /\ TypeInv /\ RowSane(tst) /\ RowSane(db) /\ tst \in Row
      /\ delivered \subseteq Recipient \X Stages
  BY DEF SafeInv, TypeInv, TypeOK
<1>1. ASSUME UNCHANGED <<db, confVars>>,
             \A x \in Recipient \X Stages : mail[x] # nil => mail'[x] # nil,
             buttons \subseteq buttons',
             RowSane(tst)', AlivePhase', Progress', InOrder',
             \A x \in delivered' : mail'[x] # nil
      PROVE  SafeInv'
  <2>1. (Warned => Warned') /\ (Unlocked => Unlocked')
    BY <1>1 DEF Warned, Unlocked, Stages
  <2>2. RowSane(db)'
    BY <1>0, <1>1, <2>1 DEF RowSane
  <2> QED
    BY <1>1, <2>2 DEF SafeInv, confVars
<1>2. ASSUME UNCHANGED <<db, confVars, worldVars>>,
             NEW ok \in BOOLEAN, AfterDeliver(ok),
             tpc \in {"deliver", "record"}, ok => mail[Key] # nil,
             \A x \in delivered' : mail[x] # nil
      PROVE  SafeInv'
  <2>1. mail' = mail /\ buttons' = buttons /\ InOrder'
    BY <1>2 DEF worldVars, SafeInv, InOrder, Warned, Unlocked
  <2>2. RowSane(tst)' /\ AlivePhase' /\ Progress'
    BY <1>2, <2>1, AfterDeliverSafe
  <2> QED
    BY <1>1, <1>2, <2>1, <2>2
<1>3. CASE DeliverSkips
  <2>1. mail[Key] # nil
    BY <1>3 DEF DeliverSkips, SafeInv
  <2> QED
    BY <1>2, <1>3, <2>1 DEF DeliverSkips, DeliverVars, SafeInv
<1>4. CASE DeliverSends
  <2>1. InOrder'
    BY <1>4, ArrivesInOrder DEF DeliverSends
  <2>2. /\ mail'[Key] # nil /\ buttons \subseteq buttons'
        /\ \A x \in Recipient \X Stages : mail[x] # nil => mail'[x] # nil
    BY <1>0, <1>4, MailGrows DEF DeliverSends, Working
  <2>3. RowSane(tst)'
    <3>1. (Warned => Warned') /\ (Unlocked => Unlocked')
      BY <2>2 DEF Warned, Unlocked, Stages
    <3> QED
      BY <1>0, <1>4, <2>2, <3>1 DEF DeliverSends, RowSane
  <2>4. AlivePhase' /\ Progress'
    <3>1. /\ tpc = "deliver" /\ tpc' = "record"
          /\ UNCHANGED <<tst, ti, tall>>
      BY <1>4 DEF DeliverSends
    <3>2. Stage' = Stage /\ Key' = Key
      BY <3>1 DEF Stage, Key, To
    <3>3. ti > 0 =>
            /\ mail'[<<Owner, Stage>>] # nil
            /\ tst.phase = "WARNED" => tst.archive # nil
            /\ tall => \A j \in 1 .. ti - 1 :
                         mail'[<<Beneficiaries[j], Stage>>] # nil
      <4> SUFFICES ASSUME ti > 0
                   PROVE  /\ mail'[<<Owner, Stage>>] # nil
                          /\ tst.phase = "WARNED" => tst.archive # nil
                          /\ tall => \A j \in 1 .. ti - 1 :
                               mail'[<<Beneficiaries[j], Stage>>] # nil
        OBVIOUS
      <4>1. /\ mail[<<Owner, Stage>>] # nil
            /\ tst.phase = "WARNED" => tst.archive # nil
            /\ tall => \A j \in 1 .. ti - 1 :
                         mail[<<Beneficiaries[j], Stage>>] # nil
        BY <3>1 DEF SafeInv, Progress
      <4>2. /\ Stage \in Stages /\ Owner \in Recipient
            /\ \A j \in 1 .. ti - 1 : Beneficiaries[j] \in Recipient
        <5>1. ti \in 0 .. Len(Beneficiaries) /\ Len(Beneficiaries) \in Nat
          BY <1>0, BeneficiariesAreCounted DEF TypeInv, TypeOK
        <5>2. \A j \in 0 .. Len(Beneficiaries) : To(j) \in Recipient
          BY DEF Recipient
        <5>3. Stage \in Stages
          BY <1>0, <3>1, StageFacts DEF Working
        <5> QED
          BY <5>1, <5>2, <5>3 DEF To
      <4> QED
        BY <2>2, <4>1, <4>2
    <3> QED
      BY <2>2, <3>1, <3>2, <3>3 DEF AlivePhase, Progress
  <2>5. \A x \in delivered' : mail'[x] # nil
    BY <1>0, <1>4, <2>2 DEF DeliverSends, SafeInv
  <2> QED
    BY <1>1, <1>4, <2>1, <2>2, <2>3, <2>4, <2>5 DEF DeliverSends, DeliverVars
<1>5. CASE DeliverFails
  BY <1>2, <1>5 DEF DeliverFails, DeliverVars, SafeInv
<1>6. CASE DeliverLosesAck
  <2>1. InOrder'
    BY <1>6, ArrivesInOrder DEF DeliverLosesAck
  <2>2. /\ buttons \subseteq buttons'
        /\ \A x \in Recipient \X Stages : mail[x] # nil => mail'[x] # nil
    BY <1>0, <1>6, MailGrows DEF DeliverLosesAck, Working
  <2>3. RowSane(tst)' /\ AlivePhase' /\ Progress'
    BY <1>6, <2>2, AfterDeliverSafe DEF DeliverLosesAck
  <2>4. \A x \in delivered' : mail'[x] # nil
    BY <1>0, <1>6, <2>2 DEF DeliverLosesAck, DeliverVars, SafeInv
  <2> QED
    BY <1>1, <1>6, <2>1, <2>2, <2>3, <2>4 DEF DeliverLosesAck, DeliverVars
<1>7. CASE RecordDelivery
  <2>1. mail[Key] # nil
    BY <1>7 DEF RecordDelivery, SafeInv, Progress
  <2> QED
    BY <1>2, <1>7, <2>1 DEF RecordDelivery, DeliverVars, SafeInv
<1>8. CASE RecordDeliveryFails
  <2>1. mail[Key] # nil
    BY <1>8 DEF RecordDeliveryFails, SafeInv, Progress
  <2> QED
    BY <1>2, <1>8, <2>1 DEF RecordDeliveryFails, DeliverVars, SafeInv
<1>9. CASE Pack
  <2>1. /\ mail' = mail /\ buttons' = buttons /\ UNCHANGED <<db, confVars, delivered>>
        /\ tpc' = "deliver" /\ ti' = 1
    BY <1>9 DEF Pack, DeliverVars
  <2>2. tst.phase = "WARNED" /\ mail[<<Owner, "PASSWORD">>] # nil
    BY <1>9 DEF Pack, SafeInv, Progress
  <2>3. packs + 1 # nil
    BY StateStoreAssumption DEF SafeInv, TypeInv, TypeOK
  <2>4. /\ tst'.archive # nil /\ tst'.phase = tst.phase
        /\ tst'.pendingToken = tst.pendingToken
        /\ tst'.lastCheckinSentAt = tst.lastCheckinSentAt
    BY <1>0, <1>9, <2>3 DEF Pack, Row
  <2>5. RowSane(tst)'
    BY <1>0, <2>1, <2>4 DEF RowSane, Warned, Unlocked
  <2>6. Stage' = "PASSWORD"
    BY <2>2, <2>4 DEF Stage, StageOf
  <2>7. Progress' /\ AlivePhase'
    BY <2>1, <2>2, <2>4, <2>6 DEF Progress, AlivePhase
  <2>8. InOrder' /\ \A x \in delivered' : mail'[x] # nil
    BY <2>1 DEF SafeInv, InOrder, Warned, Unlocked
  <2> QED
    BY <1>1, <2>1, <2>5, <2>7, <2>8
<1>10. CASE PackFails
  <2>1. /\ mail' = mail /\ buttons' = buttons
        /\ UNCHANGED <<db, confVars, delivered>> /\ tpc' = "save"
    BY <1>10 DEF PackFails, DeliverVars
  <2>2. packs + 1 # nil
    BY StateStoreAssumption DEF SafeInv, TypeInv, TypeOK
  <2>3. /\ tst'.archive = tst.archive \/ tst'.archive # nil
        /\ tst'.phase = tst.phase
        /\ tst'.pendingToken = tst.pendingToken
        /\ tst'.lastCheckinSentAt = tst.lastCheckinSentAt
    BY <1>0, <1>10, <2>2 DEF PackFails, Row
  <2>4. RowSane(tst)' /\ Progress' /\ AlivePhase'
    BY <1>0, <2>1, <2>3 DEF RowSane, Warned, Unlocked, Progress, AlivePhase
  <2>5. InOrder' /\ \A x \in delivered' : mail'[x] # nil
    BY <2>1 DEF SafeInv, InOrder, Warned, Unlocked
  <2> QED
    BY <1>1, <2>1, <2>4, <2>5
<1> QED
  BY <1>3, <1>4, <1>5, <1>6, <1>7, <1>8, <1>9, <1>10 DEF DeliverStep

(* Steps that send nothing keep the invariant when the rows they leave are *)
(* sane.                                                                   *)
LEMMA OtherSafe ==
  ASSUME SafeInv, TypeInv', UNCHANGED <<mail, buttons>>,
         delivered' \subseteq delivered,
         RowSane(db)  => RowSane(db'),
         RowSane(tst) => RowSane(tst'),
         cst'.phase = "ALIVE" /\ cst'.pendingToken = nil,
         AlivePhase',
         \/ ~Working'
         \/ tpc' = "deliver" /\ ti' = 0
         \/ UNCHANGED <<tpc, tst, ti, tall>>
  PROVE  SafeInv'
<1>1. (\A x \in delivered' : mail'[x] # nil) /\ InOrder'
  BY DEF SafeInv, InOrder, Warned, Unlocked
<1>2. RowSane(db)' /\ RowSane(tst)'
  BY DEF SafeInv, RowSane, Warned, Unlocked
<1>3. Progress'
  BY DEF SafeInv, Progress, Working, Key, Stage, To
<1> QED
  BY <1>1, <1>2, <1>3 DEF SafeInv

(* The other steps of a tick do: what TickSave writes is sane though a     *)
(* confirmation may have come in between.                                  *)
LEMMA OtherTickSafe ==
  ASSUME SafeInv, TypeInv', BeginStep \/ TickSave \/ TickAborts
  PROVE  SafeInv'
<1>0. /\ RowSane(db) /\ RowSane(tst) /\ RowSane(InitialRow) /\ db \in Row
      /\ cst.phase = "ALIVE" /\ cst.pendingToken = nil
  BY DEF SafeInv, TypeInv, TypeOK, RowSane, InitialRow, Phases
<1>1. CASE TickAlive
  BY <1>0, <1>1, OtherSafe
     DEF TickAlive, BeginTick, confVars, worldVars, AlivePhase, Working
<1>2. CASE TickStage
  BY <1>0, <1>2, OtherSafe
     DEF TickStage, BeginTick, confVars, worldVars, AlivePhase, Working
<1>3. CASE TickFileSent
  <2> DEFINE st == [db EXCEPT !.phase = "COMPLETED"]
  <2>1. RowSane(st)
    BY <1>0, <1>3 DEF TickFileSent, RowSane, Row, Phases
  <2>2. /\ tst' = st /\ tpc' = "save"
        /\ UNCHANGED <<mail, buttons, db, delivered, cst>>
    BY <1>3 DEF TickFileSent, BeginTick, confVars, worldVars
  <2> QED
    BY <1>0, <2>1, <2>2, OtherSafe DEF AlivePhase, Working
<1>4. CASE TickNothing
  BY <1>0, <1>4, OtherSafe
     DEF TickNothing, confVars, worldVars, AlivePhase, SafeInv
<1>5. CASE TickSave
  BY <1>0, <1>5, OtherSafe
     DEF TickSave, EndTick, confVars, worldVars, AlivePhase, Working
<1>6. CASE TickAborts
  BY <1>0, <1>6, OtherSafe
     DEF TickAborts, EndTick, confVars, worldVars, AlivePhase, Working
<1> QED
  BY <1>1, <1>2, <1>3, <1>4, <1>5, <1>6 DEF BeginStep

(* So do the steps of a confirmation, though a tick may be running.        *)
LEMMA ConfirmSafe ==
  ASSUME SafeInv, TypeInv', ConfirmLoad \/ ConfirmStep \/ ConfirmFails
  PROVE  SafeInv'
<1>0. /\ db \in Row /\ cst \in Row /\ AlivePhase
      /\ cst.phase = "ALIVE" /\ cst.pendingToken = nil
      /\ InitialRow.phase = "ALIVE" /\ InitialRow.pendingToken = nil
  BY DEF SafeInv, TypeInv, TypeOK, InitialRow
<1>1. UNCHANGED <<tpc, tst, ti, tall, mail, buttons>>
  BY DEF ConfirmLoad, ConfirmStep, ConfirmSave, ConfirmSaveWithoutArchive,
         ConfirmClearDeliveries, ConfirmFails, tickVars, worldVars
<1>2. delivered' \subseteq delivered
  BY DEF ConfirmLoad, ConfirmStep, ConfirmSave, ConfirmSaveWithoutArchive,
         ConfirmClearDeliveries, ConfirmFails
<1>3. db' \in {db, cst}
  BY DEF ConfirmLoad, ConfirmStep, ConfirmSave, ConfirmSaveWithoutArchive,
         ConfirmClearDeliveries, ConfirmFails
<1>4. cst'.phase = "ALIVE" /\ cst'.pendingToken = nil
  <2>1. CASE ConfirmLoad
    BY <1>0, <2>1 DEF ConfirmLoad, Confirmed, Row
  <2>2. CASE ConfirmSave
    BY <1>0, <2>2 DEF ConfirmSave, EndConfirm, WithoutArchive, Row
  <2>3. CASE ConfirmSaveWithoutArchive
    BY <1>0, <2>3 DEF ConfirmSaveWithoutArchive
  <2>4. CASE ConfirmClearDeliveries
    BY <1>0, <2>4 DEF ConfirmClearDeliveries, EndConfirm
  <2>5. CASE ConfirmFails
    BY <1>0, <2>5 DEF ConfirmFails, EndConfirm
  <2> QED
    BY <2>1, <2>2, <2>3, <2>4, <2>5 DEF ConfirmStep
<1>5. RowSane(cst)
  BY <1>0 DEF RowSane, Phases
<1> QED
  BY <1>0, <1>1, <1>2, <1>3, <1>4, <1>5, OtherSafe DEF AlivePhase

(* So do restarts, normalisation, and time.                                *)
LEMMA ProcessSafe ==
  ASSUME SafeInv, TypeInv', BootStep \/ Crash \/ Clock
  PROVE  SafeInv'
<1>0. /\ db \in Row /\ AlivePhase /\ RowSane(InitialRow)
      /\ cst.phase = "ALIVE" /\ cst.pendingToken = nil
      /\ InitialRow.phase = "ALIVE" /\ InitialRow.pendingToken = nil
  BY DEF SafeInv, TypeInv, TypeOK, InitialRow, RowSane, Phases
<1>1. RowSane(resetToAlive(db, now))
  BY <1>0 DEF resetToAlive, WithoutArchive, Confirmed, RowSane, Row, Phases
<1>2. CASE BootKeeps
  BY <1>0, <1>2, OtherSafe
     DEF BootKeeps, confVars, worldVars, AlivePhase, Working
<1>3. CASE BootResets
  BY <1>0, <1>1, <1>3, OtherSafe
     DEF BootResets, confVars, worldVars, AlivePhase, Working
<1>4. CASE BootClearsDeliveries
  BY <1>0, <1>4, OtherSafe
     DEF BootClearsDeliveries, confVars, worldVars, AlivePhase, Working
<1>5. CASE Crash
  BY <1>0, <1>5, OtherSafe
     DEF Crash, EndConfirm, worldVars, AlivePhase, Working
<1>6. CASE Clock
  BY <1>0, <1>6, OtherSafe DEF Clock, confVars, worldVars, AlivePhase
<1> QED
  BY <1>2, <1>3, <1>4, <1>5, <1>6 DEF BootStep

(* Every step keeps the invariant.                                         *)
LEMMA SafeNext == SafeInv /\ [Next]_vars => SafeInv'
<1> SUFFICES ASSUME SafeInv, [Next]_vars
             PROVE  SafeInv'
  OBVIOUS
<1>1. TypeInv'
  BY TypeNext DEF SafeInv
<1>2. CASE UNCHANGED vars
  BY <1>1, <1>2, OtherSafe
     DEF vars, tickVars, confVars, worldVars, SafeInv, AlivePhase
<1> QED
  BY <1>1, <1>2, AliveSafe, DeliverSafe, OtherTickSafe, ConfirmSafe, ProcessSafe
     DEF Next, TickStep

(* The invariant holds in every state.                                     *)
LEMMA AlwaysSafe == Spec => []SafeInv
BY SafeInit, SafeNext, PTL DEF Spec

(* What the invariant is for.                                              *)
LEMMA SafeStagesInOrder == SafeInv => StagesInOrder
<1> SUFFICES ASSUME SafeInv PROVE StagesInOrder
  OBVIOUS
<1>1. Owner \in Recipient
  BY BeneficiariesAreCounted DEF Recipient, To
<1>2. InOrder
  BY DEF SafeInv
<1>3. Had("PASSWORD") # {} => Had("WARN") = Recipient
  BY <1>2 DEF InOrder, Warned, Had
<1>4. Had("FILE") # {} => Had("PASSWORD") = Recipient
  BY <1>2 DEF InOrder, Unlocked, Had
<1>5. \A s \in Stages : Had(s) # {} => Owner \in Had(s)
  BY <1>1, <1>2 DEF InOrder, Had
<1> QED
  BY <1>3, <1>4, <1>5 DEF StagesInOrder

LEMMA SafeCancellable == SafeInv => Cancellable
<1> SUFFICES ASSUME SafeInv PROVE Cancellable
  OBVIOUS
<1>1. RowSane(db) /\ RowSane(tst)
  BY DEF SafeInv
<1>2. Working => tst.phase \in {"PENDING_TRIGGER", "WARNED", "PASSWORD_SENT"}
  BY StageFacts DEF SafeInv
<1> QED
  BY <1>1, <1>2 DEF Cancellable, RowSane, Working

LEMMA SafeRestart == SafeInv => RestartCarriesOn
<1>1. RowSane(db) => targetFlowNormalizationReason(db) = ""
  BY DEF RowSane, targetFlowNormalizationReason, Phases
<1> QED
  BY <1>1 DEF SafeInv, RestartCarriesOn

(* Nobody is sent a password before everybody was warned, nor a link       *)
(* before everybody was sent a password, and no beneficiary hears of a     *)
(* stage before the owner was reminded of it: partial failures, retries,   *)
(* restarts and confirmations that overlap a tick change nothing about it  *)
(* (tickPendingTrigger, tickWarned, tickPasswordSent, deliver).            *)
THEOREM StagesKeepTheirOrder == Spec => []StagesInOrder
BY SafeStagesInOrder, AlwaysSafe, PTL

(* The owner always holds the button of the round whose messages are going *)
(* out, and of the token the database waits for, although two writers      *)
(* overwrite each other's rows and check-ins may get lost (tickAlive,      *)
(* SendReminder, Confirm).                                                 *)
THEOREM OwnerCanAlwaysCancel == Spec => []Cancellable
BY SafeCancellable, AlwaysSafe, PTL

(* Start-up normalisation never resets a row this program wrote: wherever  *)
(* a crash cuts a tick or a confirmation short, the next start goes on     *)
(* from there (NormalizeForTargetFlow, targetFlowNormalizationReason).     *)
THEOREM RestartsCarryOn == Spec => []RestartCarriesOn
BY SafeRestart, AlwaysSafe, PTL

(* Only deliver sends the messages of a stage.                             *)
LEMMA OnlySendsReachAnyone ==
  ASSUME [Next]_vars, mail' # mail
  PROVE  tpc = "deliver" /\ Arrives
BY DEF Next, TickStep, BeginStep, AliveStep, DeliverStep, ConfirmStep, BootStep,
       TickAlive, TickStage, TickFileSent, TickNothing, BeginTick, SendCheckin,
       SendCheckinFails, SendReminder, SendReminderFails, AlreadyReminded,
       EnterPendingTrigger, NothingDue, ThenSave, DeliverSkips, DeliverSends,
       DeliverFails, DeliverLosesAck, RecordDelivery, RecordDeliveryFails, Pack,
       PackFails, TickSave, TickAborts, ConfirmLoad, ConfirmSave,
       ConfirmSaveWithoutArchive, ConfirmClearDeliveries, ConfirmFails,
       BootKeeps, BootResets, BootClearsDeliveries, Crash, Clock, vars, worldVars

(* A message that arrives is RemindOwner or Inform of its stage, and every *)
(* other step leaves Disclosure as it is.                                  *)
LEMMA EachStepKeepsPromise ==
  SafeInv /\ [Next]_vars => [Promise!Next]_([s \in Stages |-> Had(s)])
<1> DEFINE had == [s \in Stages |-> Had(s)]
<1> SUFFICES ASSUME SafeInv, [Next]_vars
             PROVE  Promise!Next \/ had' = had
  OBVIOUS
<1>1. CASE mail' = mail
  BY <1>1 DEF Had
<1>2. CASE mail' # mail
  <2>1. tpc = "deliver" /\ Arrives /\ Working /\ TypeInv /\ RowSane(tst)
    BY <1>2, OnlySendsReachAnyone DEF Working, SafeInv
  <2>2. /\ mail'[Key] # nil
        /\ \A x \in Recipient \X Stages : x # Key => mail'[x] = mail[x]
    BY <2>1, MailGrows
  <2>3. /\ Stage \in Stages /\ To(ti) \in Recipient
        /\ Stage = "PASSWORD" => Warned
        /\ Stage = "FILE" => Unlocked
    BY <2>1, StageFacts DEF RowSane
  <2>4. had' = [had EXCEPT ![Stage] = @ \cup {To(ti)}]
    <3>1. \A s \in Stages \ {Stage} : Had(s)' = Had(s)
      BY <2>2 DEF Had, Key
    <3>2. ASSUME NEW s \in Stages, s = Stage
          PROVE  Had(s)' = Had(s) \cup {To(ti)}
      BY <2>2, <2>3, <3>2 DEF Had, Key
    <3> QED
      BY <2>3, <3>1, <3>2
  <2>5. Promise!Open(Stage)
    BY <2>3 DEF Promise!Open, Promise!StageBefore, Warned, Unlocked, Had, Stages
  <2>6. CASE ti = 0
    <3>1. Promise!RemindOwner(Stage)
      BY <2>4, <2>5, <2>6 DEF Promise!RemindOwner, To
    <3> QED
      BY <2>3, <3>1 DEF Promise!Next, Promise!Stages, Stages
  <2>7. CASE ti # 0
    <3>1. Owner \in had[Stage]
      <4>1. mail[<<Owner, Stage>>] # nil /\ Owner \in Recipient
        BY <2>1, <2>7, BeneficiariesAreCounted
           DEF SafeInv, Progress, TypeInv, TypeOK, Recipient, To
      <4> QED
        BY <2>3, <4>1 DEF Had
    <3>2. Promise!Inform(Stage, To(ti))
      BY <2>4, <2>5, <3>1 DEF Promise!Inform
    <3> QED
      BY <2>3, <3>2 DEF Promise!Next, Promise!Stages, Stages
  <2> QED
    BY <2>6, <2>7
<1> QED
  BY <1>1, <1>2

(* A start maps to the initial state.                                      *)
LEMMA PromiseInit == Init => Promise!Init
BY DEF Init, Promise!Init, Promise!Stages, Stages, Had

(* The scheduler implements Disclosure: whatever fails, overlaps or is     *)
(* restarted, who learns what and in which order is as promised there.     *)
THEOREM ImplementsDisclosure == Spec => KeepsPromise
BY PromiseInit, EachStepKeepsPromise, AlwaysSafe, PTL
   DEF Spec, KeepsPromise, Promise!Spec

-----------------------------------------------------------------------------
(* What a confirmation is worth when no tick overlaps it: an accepted      *)
(* token is never pending again and no message of its round leaves any     *)
(* more, whatever crashes and failures there are.                          *)

(* The tick and the confirmation take turns; a token is numbered when it   *)
(* is made, so an accepted one differs from every later one.               *)
TurnInv ==
  /\ SafeInv
  /\ buttons \subseteq 1 .. tokens
  /\ accepted \subseteq 1 .. tokens
  /\ cpc # "idle" => tpc = "idle" /\ ctok \in 1 .. tokens
  /\ tpc \in {"boot", "bootClear", "idle"} => tst.pendingToken = nil
  /\ cpc \in {"saveWithoutArchive", "clearDeliveries"} => db.pendingToken = nil
  /\ tst.pendingToken \notin accepted
  /\ db.pendingToken \notin accepted

LEMMA TurnInit == Init => TurnInv
<1> SUFFICES ASSUME Init PROVE TurnInv
  OBVIOUS
<1>1. InitialRow.pendingToken = nil
  BY DEF InitialRow
<1> QED
  BY SafeInit, <1>1 DEF Init, TurnInv

(* Steps that make no token, accept none and leave the handler alone.      *)
LEMMA TurnKept ==
  ASSUME TurnInv, SafeInv', UNCHANGED <<accepted, tokens>>,
         buttons' \subseteq 1 .. tokens,
         tst'.pendingToken \in {nil, tst.pendingToken, db.pendingToken},
         db'.pendingToken \in {nil, tst.pendingToken, db.pendingToken},
         tpc' \in {"boot", "bootClear", "idle"} => tst'.pendingToken = nil,
         \/ cpc' = "idle"
         \/ UNCHANGED <<cpc, ctok, db, tpc>>
  PROVE  TurnInv'
<1>1. nil \notin accepted
  BY StateStoreAssumption DEF TurnInv, SafeInv, TypeInv, TypeOK, Token
<1> QED
  BY <1>1 DEF TurnInv

LEMMA AliveTurn ==
  ASSUME TurnInv, SafeInv', AliveStep
  PROVE  TurnInv'
<1>0. /\ tst \in Row /\ tokens \in Nat /\ SafeInv /\ tpc = "alive"
      /\ cpc = "idle" /\ RowSane(tst)
  BY DEF TurnInv, SafeInv, TypeInv, TypeOK, AliveStep, SendCheckin, CheckinDue,
         SendCheckinFails, SendReminder, SendReminderFails, ReminderDue,
         AlreadyReminded, EnterPendingTrigger, NothingDue
<1>1. ASSUME NEW st \in Row, ThenSave(st)
      PROVE  /\ tst'.pendingToken = st.pendingToken /\ tpc' = "save"
             /\ UNCHANGED <<db, cpc, ctok, accepted>>
  BY <1>1 DEF ThenSave, AfterHeartbeat, Row, confVars
<1>2. CASE SendCheckin
  <2> DEFINE st == [tst EXCEPT !.pendingToken = tokens + 1,
                               !.lastCheckinSentAt = tnow, !.missCount = 0]
  <2>0. /\ tokens + 1 \in Token /\ tnow \in Instant
        /\ 1 .. tokens \subseteq 1 .. tokens + 1
        /\ tokens + 1 \in 1 .. tokens + 1 /\ tokens + 1 \notin 1 .. tokens
    BY <1>0 DEF Token, SafeInv, TypeInv, TypeOK
  <2>1. st \in Row /\ st.pendingToken = tokens + 1
    BY <1>0, <2>0 DEF Row, Maybe
  <2>2. /\ ThenSave(st) /\ buttons' = buttons \cup {tokens + 1}
        /\ tokens' = tokens + 1
    BY <1>2 DEF SendCheckin, ReachesChat
  <2> HIDE DEF st
  <2>3. /\ tst'.pendingToken = tokens + 1 /\ tpc' = "save"
        /\ UNCHANGED <<db, cpc, ctok, accepted>>
    BY <1>1, <2>1, <2>2
  <2> QED
    BY <1>0, <2>0, <2>2, <2>3 DEF TurnInv
<1>3. CASE SendCheckinFails
  <2>1. /\ tst'.pendingToken = tst.pendingToken /\ tpc' = "save"
        /\ UNCHANGED <<db, cpc, ctok, accepted>>
    BY <1>0, <1>1, <1>3 DEF SendCheckinFails
  <2>2. \/ UNCHANGED <<buttons, tokens>>
        \/ buttons' = buttons \cup {tokens + 1} /\ tokens' = tokens + 1
    BY <1>3 DEF SendCheckinFails, ReachesChat
  <2>3. /\ 1 .. tokens \subseteq 1 .. tokens + 1
        /\ tokens + 1 \in 1 .. tokens + 1
    BY <1>0
  <2> QED
    BY <1>0, <2>1, <2>2, <2>3 DEF TurnInv
<1>4. ASSUME NEW st \in Row, ThenSave(st), st.pendingToken = tst.pendingToken,
             buttons' \subseteq buttons, tokens' = tokens
      PROVE  TurnInv'
  <2>1. buttons' \subseteq 1 .. tokens
    BY <1>4 DEF TurnInv
  <2> QED
    BY <1>0, <1>1, <1>4, <2>1, TurnKept
<1>5. hasOutstandingCheckin(tst) => Missed \in Nat /\ tst.pendingToken \in buttons
  BY <1>0, RemindersAreCounted
     DEF hasOutstandingCheckin, Missed, Row, Maybe, RowSane, SafeInv, TypeInv,
         TypeOK
<1>6. CASE SendReminder
  <2> DEFINE st == [tst EXCEPT !.phase = "GRACE", !.missCount = Missed]
  <2>1. /\ ThenSave(st) /\ buttons' = buttons \cup {tst.pendingToken}
        /\ tokens' = tokens /\ hasOutstandingCheckin(tst)
    BY <1>6 DEF SendReminder, Grace, ReachesChat, ReminderDue
  <2>2. st \in Row /\ st.pendingToken = tst.pendingToken
    BY <1>0, <1>5, <2>1 DEF Row, Phases
  <2> HIDE DEF st
  <2> QED
    BY <1>4, <1>5, <2>1, <2>2
<1>7. CASE SendReminderFails \/ AlreadyReminded
  <2>1. Grace(tst) \in Row /\ Grace(tst).pendingToken = tst.pendingToken
    BY <1>0 DEF Grace, Row, Phases
  <2> QED
    <3>1. /\ ThenSave(Grace(tst)) /\ tokens' = tokens /\ hasOutstandingCheckin(tst)
          /\ buttons' \subseteq buttons \cup {tst.pendingToken}
      BY <1>7 DEF SendReminderFails, AlreadyReminded, ReachesChat, ReminderDue
    <3> QED
      BY <1>4, <1>5, <2>1, <3>1
<1>8. CASE EnterPendingTrigger
  <2> DEFINE st == [tst EXCEPT !.phase = "PENDING_TRIGGER", !.missCount = Missed]
  <2>1. /\ ThenSave(st) /\ UNCHANGED <<buttons, tokens>>
        /\ hasOutstandingCheckin(tst)
    BY <1>8 DEF EnterPendingTrigger
  <2>2. st \in Row /\ st.pendingToken = tst.pendingToken
    BY <1>0, <1>5, <2>1 DEF Row, Phases
  <2> HIDE DEF st
  <2> QED
    BY <1>4, <2>1, <2>2
<1>9. CASE NothingDue
  BY <1>0, <1>4, <1>9 DEF NothingDue
<1> QED
  BY <1>2, <1>3, <1>6, <1>7, <1>8, <1>9 DEF AliveStep

LEMMA DeliverTurn ==
  ASSUME TurnInv, SafeInv', DeliverStep
  PROVE  TurnInv'
<1>0. /\ UNCHANGED <<db, cpc, ctok, accepted, tokens>> /\ tst \in Row
      /\ tpc \notin {"boot", "bootClear", "idle"}
      /\ tpc' \notin {"boot", "bootClear", "idle"}
  BY DEF DeliverStep, DeliverSkips, DeliverSends, DeliverFails, DeliverLosesAck,
         RecordDelivery, RecordDeliveryFails, Pack, PackFails, AfterDeliver,
         Arrives, DeliverVars, confVars, worldVars, TurnInv, SafeInv, TypeInv,
         TypeOK
<1>1. cpc' = "idle"
  BY <1>0 DEF TurnInv
<1>2. tst'.pendingToken = tst.pendingToken
  BY <1>0 DEF DeliverStep, DeliverSkips, DeliverSends, DeliverFails,
              DeliverLosesAck, RecordDelivery, RecordDeliveryFails, Pack,
              PackFails, AfterDeliver, Advanced, Row
<1>3. buttons' \subseteq 1 .. tokens
  <2>1. buttons' \subseteq buttons \cup ({db.pendingToken} \ {nil})
    BY DEF DeliverStep, DeliverSkips, DeliverSends, DeliverFails,
           DeliverLosesAck, RecordDelivery, RecordDeliveryFails, Pack,
           PackFails, Arrives, worldVars
  <2>2. {db.pendingToken} \ {nil} \subseteq buttons
    BY DEF TurnInv, SafeInv, RowSane
  <2> QED
    BY <2>1, <2>2 DEF TurnInv
<1> QED
  BY <1>0, <1>1, <1>2, <1>3, TurnKept

LEMMA ConfirmTurn ==
  ASSUME TurnInv, SafeInv', Overlap = FALSE,
         ConfirmLoad \/ ConfirmStep \/ ConfirmFails
  PROVE  TurnInv'
<1>0. /\ UNCHANGED <<tpc, tst, buttons, tokens>> /\ cst.pendingToken = nil
      /\ nil \notin 1 .. tokens
  BY StateStoreAssumption
     DEF ConfirmLoad, ConfirmStep, ConfirmSave, ConfirmSaveWithoutArchive,
         ConfirmClearDeliveries, ConfirmFails, tickVars, worldVars, TurnInv,
         SafeInv, TypeInv, TypeOK
<1>1. CASE ConfirmLoad
  BY <1>0, <1>1 DEF ConfirmLoad, TurnInv
<1>2. CASE ConfirmSave
  BY <1>0, <1>2 DEF ConfirmSave, EndConfirm, TurnInv
<1>3. CASE ConfirmSaveWithoutArchive
  BY <1>0, <1>3 DEF ConfirmSaveWithoutArchive, TurnInv
<1>4. CASE ConfirmClearDeliveries
  BY <1>0, <1>4 DEF ConfirmClearDeliveries, EndConfirm, TurnInv
<1>5. CASE ConfirmFails
  BY <1>0, <1>5 DEF ConfirmFails, EndConfirm, TurnInv
<1> QED
  BY <1>1, <1>2, <1>3, <1>4, <1>5 DEF ConfirmStep

LEMMA OtherTurn ==
  ASSUME TurnInv, SafeInv', Overlap = FALSE,
         BeginStep \/ TickSave \/ TickAborts \/ BootStep \/ Crash \/ Clock
  PROVE  TurnInv'
<1>0. /\ UNCHANGED <<buttons, tokens, accepted>> /\ buttons \subseteq 1 .. tokens
      /\ db \in Row /\ InitialRow.pendingToken = nil
  BY DEF BeginStep, TickAlive, TickStage, TickFileSent, TickNothing, BeginTick,
         TickSave, TickAborts, BootStep, BootKeeps, BootResets,
         BootClearsDeliveries, Crash, Clock, worldVars, TurnInv, SafeInv,
         TypeInv, TypeOK, InitialRow
<1>1. CASE TickAlive \/ TickStage \/ TickFileSent
  <2>1. PICK pc \in {"alive", "deliver", "save"}, st \in {db, [db EXCEPT !.phase = "COMPLETED"]} :
          BeginTick(pc, st)
    BY <1>1 DEF TickAlive, TickStage, TickFileSent
  <2>2. st.pendingToken = db.pendingToken
    BY <1>0 DEF Row
  <2>3. tst'.pendingToken = db.pendingToken /\ db' = db /\ cpc' = "idle"
        /\ tpc' \notin {"boot", "bootClear", "idle"}
    BY <2>1, <2>2 DEF BeginTick, confVars
  <2> QED
    BY <1>0, <2>3, TurnKept
<1>2. CASE TickNothing
  BY <1>0, <1>2, TurnKept DEF TickNothing, confVars, TurnInv
<1>3. CASE TickSave
  <2>1. cpc' = "idle"
    BY <1>3 DEF TickSave, TurnInv, confVars
  <2> QED
    BY <1>0, <1>3, <2>1, TurnKept DEF TickSave, EndTick
<1>4. CASE TickAborts
  <2>1. cpc' = "idle"
    BY <1>4 DEF TickAborts, TurnInv, confVars
  <2> QED
    BY <1>0, <1>4, <2>1, TurnKept DEF TickAborts, EndTick
<1>5. CASE BootStep
  <2>1. tpc \in {"boot", "bootClear"} /\ UNCHANGED <<cpc, tst>>
    BY <1>5
       DEF BootStep, BootKeeps, BootResets, BootClearsDeliveries, confVars
  <2>2. cpc' = "idle" /\ tst'.pendingToken = nil
    BY <2>1 DEF TurnInv
  <2>3. db'.pendingToken \in {nil, db.pendingToken}
    BY <1>0, <1>5
       DEF BootStep, BootKeeps, BootResets, BootClearsDeliveries, resetToAlive,
           WithoutArchive, Confirmed, Row
  <2> QED
    BY <1>0, <2>2, <2>3, TurnKept
<1>6. CASE Crash
  BY <1>0, <1>6, TurnKept DEF Crash, EndConfirm
<1>7. CASE Clock
  BY <1>0, <1>7, TurnKept DEF Clock, confVars, TurnInv
<1> QED
  BY <1>1, <1>2, <1>3, <1>4, <1>5, <1>6, <1>7 DEF BeginStep

LEMMA TurnNext ==
  ASSUME Overlap = FALSE
  PROVE  TurnInv /\ [Next]_vars => TurnInv'
<1> SUFFICES ASSUME TurnInv, [Next]_vars
             PROVE  TurnInv'
  OBVIOUS
<1>1. SafeInv'
  BY SafeNext DEF TurnInv
<1>2. CASE UNCHANGED vars
  BY <1>1, <1>2, TurnKept
     DEF vars, tickVars, confVars, worldVars, TurnInv
<1> QED
  BY <1>1, <1>2, AliveTurn, DeliverTurn, ConfirmTurn, OtherTurn
     DEF Next, TickStep

(* When a confirmation and a tick take turns, an accepted confirmation     *)
(* stays in force: its token is never pending again (Confirm), though the  *)
(* process may die between any two writes.                                 *)
THEOREM ConfirmationsStick ==
  ASSUME Overlap = FALSE
  PROVE  Spec => []ConfirmationSticks
<1>1. TurnInv => ConfirmationSticks
  BY DEF TurnInv, ConfirmationSticks
<1> QED
  BY <1>1, TurnInit, TurnNext, PTL DEF Spec

(* Under the same condition no stage message of a confirmed round leaves   *)
(* any more, neither by mail nor to the owner's chat (deliver).            *)
THEOREM SilenceAfterConfirmation ==
  ASSUME Overlap = FALSE
  PROVE  Spec => NothingAfterConfirmation
<1> DEFINE Silent == \A x \in DOMAIN mail :
                       mail'[x] # mail[x] => mail'[x].round \notin accepted
<1>1. TurnInv /\ [Next]_vars => [Silent]_vars
  <2> SUFFICES ASSUME TurnInv, [Next]_vars, NEW x \in DOMAIN mail,
                      mail'[x] # mail[x]
               PROVE  mail'[x].round \notin accepted
    OBVIOUS
  <2>1. tpc = "deliver" /\ Arrives
    BY OnlySendsReachAnyone
  <2>2. PICK c \in {1, 2} :
          mail' = [mail EXCEPT ![Key] =
                     [round |-> tst.pendingToken, at |-> tnow,
                      archive |-> tst.archive, copies |-> c]]
    BY <2>1 DEF Arrives
  <2>3. mail'[x].round = tst.pendingToken
    BY <2>2
  <2> QED
    BY <2>3 DEF TurnInv
<1> QED
  BY <1>1, TurnInit, TurnNext, PTL DEF Spec, NothingAfterConfirmation
=============================================================================
