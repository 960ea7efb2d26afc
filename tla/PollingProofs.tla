--------------------------- MODULE PollingProofs ---------------------------
(***************************************************************************)
(* Confirmations that come through Telegram's queue: the composed system   *)
(* does nothing Scheduler does not do, so that what is proved of Scheduler *)
(* holds of it; no press is forgotten before it was handled; and nothing   *)
(* is confirmed but by a press of the owner.                               *)
(***************************************************************************)
EXTENDS Polling, RoundProofs

(* Polling and other people's presses are steps of the world outside       *)
(* Scheduler; the handler's steps are those of its Confirm.                *)
LEMMA PollNextIsNext == [PollNext]_allVars => [Next]_vars
<1> SUFFICES ASSUME [PollNext]_allVars PROVE [Next]_vars
  OBVIOUS
<1>1. CASE UNCHANGED allVars
  BY <1>1 DEF allVars
<1>2. CASE OwnerPresses \/ OtherUpdate \/ Poll \/ PollFails
  BY <1>2 DEF OwnerPresses, OtherUpdate, Press, Poll, PollFails
<1>3. CASE \E i \in batch : HandleOther(i) \/ HandleForeign(i) \/ HandleExpired(i)
  BY <1>3 DEF HandleOther, HandleForeign, HandleExpired
<1>4. CASE \E i \in batch : HandlePending(i)
  BY <1>4 DEF HandlePending, Next
<1>5. CASE HandlerStep \/ HandlerFails \/ CrashOfBoth
  BY <1>5 DEF HandlerStep, HandlerFails, CrashOfBoth, Next
<1>6. CASE \/ Alone(TickStep) \/ Alone(TickAborts) \/ Alone(BootStep)
           \/ Alone(Clock)
  BY <1>6 DEF Alone, Next
<1> QED
  BY <1>1, <1>2, <1>3, <1>4, <1>5, <1>6 DEF PollNext, PollStep

(* The scheduler behind Telegram's queue behaves as Scheduler does.        *)
THEOREM PollingImplementsScheduler == PollSpec => Spec
<1>1. PollInit => Init
  BY DEF PollInit
<1> QED
  BY <1>1, PollNextIsNext, PTL DEF PollSpec, Spec

(* So that, whatever is pressed, fetched twice or lost, a confirmation the *)
(* owner was told of ends its round for good, if ticks take turns with it. *)
THEOREM ConfirmationsStickBehindTelegram ==
  ASSUME Overlap = FALSE
  PROVE  PollSpec => []ConfirmationSticks /\ NothingAfterConfirmation
BY PollingImplementsScheduler, ConfirmationsStick, SilenceAfterConfirmation, PTL

-----------------------------------------------------------------------------
(* Everything up to the last update the bot turned to, or Telegram has     *)
(* forgotten, is handled, but for the one that is being handled; what the  *)
(* bot fetched follows without a gap.                                      *)
Turned == Larger(acked, offset)

PollInv ==
  /\ updates \in Seq(Update) /\ Len(updates) <= MaxUpdates
  /\ acked \in 0 .. Len(updates) /\ offset \in 0 .. Len(updates)
  /\ said \in [1 .. MaxUpdates -> SUBSET Answer]
  /\ batch \subseteq Turned + 1 .. Len(updates)
  /\ \A i \in batch : \A j \in Turned + 1 .. i : j \in batch
  /\ \A i \in 1 .. Turned : said[i] = {} => cpc # "idle" /\ i = offset
  /\ cpc # "idle" =>
       offset > acked /\ updates[offset] = [owner |-> TRUE, token |-> ctok]

LEMMA LargerIsMax ==
  ASSUME NEW i \in Nat, NEW j \in Nat
  PROVE  Larger(i, j) \in {i, j} /\ i <= Larger(i, j) /\ j <= Larger(i, j)
BY DEF Larger

LEMMA PollInitially == PollInit => PollInv
<1> SUFFICES ASSUME PollInit PROVE PollInv
  OBVIOUS
<1>1. Len(updates) = 0 /\ updates \in Seq(Update)
  BY DEF PollInit
<1>2. Turned = 0 /\ batch = {} /\ cpc = "idle" /\ acked = 0 /\ offset = 0
  BY DEF PollInit, Turned, Larger, Init
<1>3. said \in [1 .. MaxUpdates -> SUBSET Answer]
  BY DEF PollInit
<1> QED
  BY <1>1, <1>2, <1>3, PollingAssumption DEF PollInv

(* A step that leaves the queue and the bot alone, and the handler where   *)
(* it is unless it was idle or ends with an answer.                        *)
LEMMA QueueStays ==
  ASSUME PollInv, UNCHANGED <<updates, acked, offset, batch>>,
         \/ UNCHANGED <<said, cpc, ctok>>
         \/ UNCHANGED said /\ cpc # "idle" /\ cpc' # "idle" /\ ctok' = ctok
         \/ /\ cpc # "idle" /\ cpc' = "idle"
            /\ \E answer \in Answer : Say(offset, answer)
  PROVE  PollInv'
<1>1. Turned' = Turned /\ offset \in Nat /\ acked \in Nat /\ Len(updates) \in Nat
  BY DEF Turned, Larger, PollInv
<1>2. CASE UNCHANGED <<said, cpc, ctok>>
  BY <1>1, <1>2 DEF PollInv
<1>3. CASE UNCHANGED said /\ cpc # "idle" /\ cpc' # "idle" /\ ctok' = ctok
  BY <1>1, <1>3 DEF PollInv
<1>4. CASE /\ cpc # "idle" /\ cpc' = "idle"
           /\ \E answer \in Answer : Say(offset, answer)
  <2>1. PICK answer \in Answer : Say(offset, answer)
    BY <1>4
  <2>2. said' \in [1 .. MaxUpdates -> SUBSET Answer]
    BY <2>1 DEF Say, PollInv
  <2>3. \A i \in 1 .. Turned : said'[i] # {}
    <3> SUFFICES ASSUME NEW i \in 1 .. Turned PROVE said'[i] # {}
      OBVIOUS
    <3>1. Turned <= MaxUpdates /\ Turned \in Nat /\ MaxUpdates \in Nat
      BY <1>1, PollingAssumption DEF Turned, Larger, PollInv
    <3>2. i \in 1 .. MaxUpdates /\ said \in [1 .. MaxUpdates -> SUBSET Answer]
      BY <3>1 DEF PollInv
    <3>3. i # offset => said[i] # {}
      BY DEF PollInv
    <3> QED
      BY <2>1, <3>2, <3>3 DEF Say
  <2> QED
    BY <1>1, <1>4, <2>2, <2>3 DEF PollInv
<1> QED
  BY <1>2, <1>3, <1>4

LEMMA PressKept ==
  ASSUME PollInv, NEW u \in Update, Press(u)
  PROVE  PollInv'
<1>1. /\ updates' = Append(updates, u) /\ Len(updates) < MaxUpdates
      /\ UNCHANGED <<acked, offset, batch, said, cpc, ctok>>
  BY DEF Press, vars, confVars
<1>2. /\ updates \in Seq(Update) /\ Len(updates) \in Nat
      /\ acked \in 0 .. Len(updates) /\ offset \in 0 .. Len(updates)
  BY DEF PollInv
<1>3. /\ updates' \in Seq(Update) /\ Len(updates') = Len(updates) + 1
      /\ \A i \in 1 .. Len(updates) : updates'[i] = updates[i]
  BY <1>1, <1>2
<1>4. Turned' = Turned /\ Turned \in Nat
  BY <1>1, <1>2 DEF Turned, Larger
<1>5. /\ Len(updates') <= MaxUpdates /\ acked' \in 0 .. Len(updates')
      /\ offset' \in 0 .. Len(updates')
  BY <1>1, <1>2, <1>3, PollingAssumption
<1>6. batch' \subseteq Turned' + 1 .. Len(updates')
  BY <1>1, <1>2, <1>3, <1>4 DEF PollInv
<1>7. cpc' # "idle" =>
        offset' > acked' /\ updates'[offset'] = [owner |-> TRUE, token |-> ctok']
  <2> SUFFICES ASSUME cpc # "idle"
               PROVE  offset > acked /\ updates'[offset] = [owner |-> TRUE, token |-> ctok]
    BY <1>1
  <2>1. offset > acked /\ updates[offset] = [owner |-> TRUE, token |-> ctok]
    BY DEF PollInv
  <2>2. offset \in 1 .. Len(updates)
    BY <1>2, <2>1
  <2> QED
    BY <1>3, <2>1, <2>2
<1> QED
  BY <1>1, <1>3, <1>4, <1>5, <1>6, <1>7 DEF PollInv

LEMMA PollKept ==
  ASSUME PollInv, Poll \/ PollFails
  PROVE  PollInv'
<1>1. /\ cpc = "idle" /\ batch = {} /\ acked' = Turned
      /\ UNCHANGED <<updates, offset, said, cpc, ctok>>
      /\ batch' \in {{}, acked' + 1 .. Len(updates)}
  BY DEF Poll, PollFails, Polling, Turned, vars, confVars
<1>2. /\ Len(updates) \in Nat
      /\ acked \in 0 .. Len(updates) /\ offset \in 0 .. Len(updates)
  BY DEF PollInv
<1>3. Turned' = Turned /\ Turned \in 0 .. Len(updates)
  BY <1>1, <1>2 DEF Turned, Larger
<1>4. \A i \in 1 .. Turned : said[i] # {}
  BY <1>1 DEF PollInv
<1>5. \A i \in batch' : \A j \in Turned + 1 .. i : j \in batch'
  BY <1>1, <1>2, <1>3
<1> QED
  BY <1>1, <1>2, <1>3, <1>4, <1>5 DEF PollInv

(* The next update the bot turns to follows the one before.                *)
LEMMA TurnsToTheNext ==
  ASSUME PollInv, NEW i \in batch, TurnTo(i)
  PROVE  /\ Turned \in Nat /\ i = Turned + 1 /\ i \in 1 .. Len(updates) /\ i \in 1 .. MaxUpdates
         /\ Turned' = i /\ cpc = "idle" /\ offset' = i /\ i > acked
         /\ UNCHANGED <<updates, acked>>
         /\ batch' \subseteq i + 1 .. Len(updates)
         /\ \A k \in batch' : \A j \in i + 1 .. k : j \in batch'
<1>1. /\ Len(updates) \in Nat /\ Turned \in Nat
      /\ acked \in 0 .. Len(updates) /\ offset \in 0 .. Len(updates)
      /\ Len(updates) <= MaxUpdates /\ MaxUpdates \in Nat
  BY PollingAssumption DEF PollInv, Turned, Larger
<1>2. i \in Turned + 1 .. Len(updates)
  BY DEF PollInv
<1>3. acked <= Turned
  BY <1>1 DEF Turned, Larger
<1>4. i = Turned + 1
  <2>1. Turned + 1 \in Turned + 1 .. i
    BY <1>1, <1>2
  <2>2. Turned + 1 \in batch
    BY <2>1 DEF PollInv
  <2>3. i <= Turned + 1
    BY <2>2 DEF TurnTo
  <2> QED
    BY <1>1, <1>2, <2>3
<1>5. /\ cpc = "idle" /\ offset' = i /\ batch' = batch \ {i}
      /\ UNCHANGED <<updates, acked>>
  BY DEF TurnTo, Polling
<1>6. Turned' = i
  BY <1>1, <1>2, <1>3, <1>5 DEF Turned, Larger
<1>7. batch' \subseteq i + 1 .. Len(updates)
  <2>1. \A k \in batch : k \in Turned + 1 .. Len(updates)
    BY DEF PollInv
  <2> QED
    BY <1>1, <1>4, <1>5, <2>1
<1>8. ASSUME NEW k \in batch', NEW j \in i + 1 .. k
      PROVE  j \in batch'
  <2>1. k \in batch /\ k \in i + 1 .. Len(updates)
    BY <1>5, <1>7
  <2>2. j \in Turned + 1 .. k /\ j # i
    BY <1>1, <1>2, <1>4, <2>1
  <2> QED
    BY <1>5, <2>1, <2>2 DEF PollInv
<1> QED
  BY <1>1, <1>2, <1>3, <1>4, <1>5, <1>6, <1>7, <1>8

LEMMA HandledKept ==
  ASSUME PollInv, NEW i \in batch, TurnTo(i),
         UNCHANGED <<cpc, ctok>>,
         \E answer \in Answer : Say(i, answer)
  PROVE  PollInv'
<1>1. PICK answer \in Answer : Say(i, answer)
  OBVIOUS
<1>2. said \in [1 .. MaxUpdates -> SUBSET Answer]
  BY DEF PollInv
<1>3. /\ said' \in [1 .. MaxUpdates -> SUBSET Answer] /\ said'[i] # {}
      /\ \A j \in 1 .. MaxUpdates : j # i => said'[j] = said[j]
  BY <1>1, <1>2, TurnsToTheNext DEF Say
<1>4. Len(updates) <= MaxUpdates /\ MaxUpdates \in Nat /\ Len(updates) \in Nat
  BY PollingAssumption DEF PollInv
<1>5. \A j \in 1 .. i : said'[j] # {}
  <2> SUFFICES ASSUME NEW j \in 1 .. i, j # i PROVE said'[j] # {}
    BY <1>3
  <2>1. j \in 1 .. Turned /\ j \in 1 .. MaxUpdates
    BY <1>4, TurnsToTheNext
  <2>2. said[j] # {}
    BY <2>1, TurnsToTheNext DEF PollInv
  <2> QED
    BY <1>3, <2>1, <2>2
<1>6. /\ updates' \in Seq(Update) /\ Len(updates') <= MaxUpdates
      /\ acked' \in 0 .. Len(updates') /\ offset' \in 0 .. Len(updates')
  BY <1>4, TurnsToTheNext DEF PollInv
<1>7. /\ batch' \subseteq Turned' + 1 .. Len(updates')
      /\ \A k \in batch' : \A j \in Turned' + 1 .. k : j \in batch'
  BY TurnsToTheNext
<1>8. cpc' = "idle" /\ Turned' = i
  BY TurnsToTheNext
<1> QED
  BY <1>3, <1>5, <1>6, <1>7, <1>8 DEF PollInv

LEMMA PendingKept ==
  ASSUME PollInv, NEW i \in batch, HandlePending(i)
  PROVE  PollInv'
<1>1. /\ TurnTo(i) /\ UNCHANGED said
      /\ updates[i].owner /\ updates[i].token = db.pendingToken
      /\ ctok' = db.pendingToken /\ cpc' # "idle"
  BY DEF HandlePending, Authorised, Expired, ConfirmLoad
<1>2. updates[i] = [owner |-> TRUE, token |-> ctok']
  <2>1. updates \in Seq(Update) /\ i \in 1 .. Len(updates)
    BY <1>1, TurnsToTheNext DEF PollInv
  <2>2. updates[i] \in Update
    BY <2>1
  <2>3. updates[i].owner = TRUE
    BY <1>1, <2>2 DEF Update
  <2> QED
    BY <1>1, <2>2, <2>3 DEF Update
<1>3. Len(updates) \in Nat /\ Len(updates) <= MaxUpdates
  BY DEF PollInv
<1>4. \A j \in 1 .. i : said[j] = {} => j = i
  <2> SUFFICES ASSUME NEW j \in 1 .. i, j # i PROVE said[j] # {}
    OBVIOUS
  <2>1. j \in 1 .. Turned
    BY <1>1, TurnsToTheNext
  <2> QED
    BY <1>1, <2>1, TurnsToTheNext DEF PollInv
<1>5. /\ updates' \in Seq(Update) /\ Len(updates') <= MaxUpdates
      /\ acked' \in 0 .. Len(updates') /\ offset' \in 0 .. Len(updates')
      /\ said' \in [1 .. MaxUpdates -> SUBSET Answer]
  BY <1>1, <1>3, TurnsToTheNext DEF PollInv
<1>6. /\ batch' \subseteq Turned' + 1 .. Len(updates')
      /\ \A k \in batch' : \A j \in Turned' + 1 .. k : j \in batch'
  BY <1>1, TurnsToTheNext
<1>7. /\ Turned' = i /\ offset' = i /\ i > acked' /\ UNCHANGED updates
  BY <1>1, TurnsToTheNext
<1>8. \A j \in 1 .. Turned' : said'[j] = {} => cpc' # "idle" /\ j = offset'
  BY <1>1, <1>4, <1>7
<1> QED
  BY <1>1, <1>2, <1>5, <1>6, <1>7, <1>8 DEF PollInv

LEMMA CrashKept ==
  ASSUME PollInv, CrashOfBoth
  PROVE  PollInv'
<1>1. /\ cpc' = "idle" /\ offset' = 0 /\ batch' = {}
      /\ UNCHANGED <<updates, acked, said>>
  BY DEF CrashOfBoth, Crash, EndConfirm
<1>2. Len(updates) \in Nat /\ acked \in 0 .. Len(updates) /\ offset \in 0 .. Len(updates)
  BY DEF PollInv
<1>3. Turned' = acked
  BY <1>1, <1>2 DEF Turned, Larger
<1>4. ASSUME NEW i \in 1 .. acked PROVE said[i] # {}
  <2>1. i \in 1 .. Turned /\ i <= acked
    BY <1>2 DEF Turned, Larger
  <2>2. said[i] = {} => offset > acked /\ i = offset
    BY <2>1 DEF PollInv
  <2> QED
    BY <1>2, <2>1, <2>2
<1>5. /\ updates' \in Seq(Update) /\ Len(updates') <= MaxUpdates
      /\ acked' \in 0 .. Len(updates') /\ offset' \in 0 .. Len(updates')
      /\ said' \in [1 .. MaxUpdates -> SUBSET Answer]
  BY <1>1, <1>2 DEF PollInv
<1> QED
  BY <1>1, <1>3, <1>4, <1>5 DEF PollInv

(* Ticks, the start and the clock leave a running Confirm alone.           *)
LEMMA OthersLeaveConfirmAlone ==
  TickStep \/ TickAborts \/ BootStep \/ Clock => UNCHANGED <<cpc, ctok, accepted>>
<1>1. BeginStep => UNCHANGED <<cpc, ctok, accepted>>
  BY DEF BeginStep, TickAlive, TickStage, TickFileSent, TickNothing, BeginTick,
         confVars
<1>2. AliveStep => UNCHANGED <<cpc, ctok, accepted>>
  BY DEF AliveStep, SendCheckin, SendCheckinFails, SendReminder,
         SendReminderFails, AlreadyReminded, EnterPendingTrigger, NothingDue,
         ThenSave, confVars
<1>3. DeliverStep => UNCHANGED <<cpc, ctok, accepted>>
  BY DEF DeliverStep, DeliverSkips, DeliverSends, DeliverFails,
         DeliverLosesAck, RecordDelivery, RecordDeliveryFails, Pack, PackFails,
         DeliverVars, confVars
<1>4. TickSave \/ TickAborts \/ BootStep \/ Clock => UNCHANGED <<cpc, ctok, accepted>>
  BY DEF TickSave, TickAborts, BootStep, BootKeeps, BootResets,
         BootClearsDeliveries, Clock, confVars
<1> QED
  BY <1>1, <1>2, <1>3, <1>4 DEF TickStep

LEMMA HandlerKept ==
  ASSUME PollInv, HandlerStep \/ HandlerFails
  PROVE  PollInv'
<1>1. CASE HandlerFails
  <2>1. /\ UNCHANGED <<updates, acked, offset, batch>> /\ Say(offset, "error")
        /\ cpc # "idle" /\ cpc' = "idle"
    BY <1>1 DEF HandlerFails, ConfirmFails, EndConfirm
  <2> QED
    BY <2>1, QueueStays DEF Answer
<1>2. CASE HandlerStep
  <2>1. /\ UNCHANGED <<updates, acked, offset, batch>> /\ ConfirmStep
        /\ IF cpc' = "idle" THEN Say(offset, "confirmed") ELSE UNCHANGED said
    BY <1>2 DEF HandlerStep
  <2>2. cpc # "idle" /\ (cpc' = "idle" \/ ctok' = ctok)
    BY <2>1 DEF ConfirmStep, ConfirmSave, ConfirmSaveWithoutArchive,
                ConfirmClearDeliveries, EndConfirm
  <2> QED
    BY <2>1, <2>2, QueueStays DEF Answer
<1> QED
  BY <1>1, <1>2

LEMMA PollInvNext == TypeOK /\ PollInv /\ [PollNext]_allVars => PollInv'
<1> SUFFICES ASSUME TypeOK, PollInv, [PollNext]_allVars PROVE PollInv'
  OBVIOUS
<1>1. CASE OwnerPresses \/ OtherUpdate
  <2>1. \E u \in Update : Press(u)
    <3>1. buttons \subseteq Maybe(Token) /\ nil \in Maybe(Token)
      BY DEF Maybe, TypeOK
    <3> QED
      BY <1>1, <3>1 DEF OwnerPresses, OtherUpdate, Update
  <2> QED
    BY <2>1, PressKept
<1>2. CASE Poll \/ PollFails
  BY <1>2, PollKept
<1>3. CASE \E i \in batch : HandleOther(i) \/ HandleForeign(i) \/ HandleExpired(i)
  <2>1. PICK i \in batch :
          /\ TurnTo(i) /\ UNCHANGED vars
          /\ \E answer \in Answer : Say(i, answer)
    BY <1>3 DEF HandleOther, HandleForeign, HandleExpired, Answer
  <2> QED
    BY <2>1, HandledKept DEF vars, confVars
<1>4. CASE \E i \in batch : HandlePending(i)
  BY <1>4, PendingKept
<1>5. CASE HandlerStep \/ HandlerFails
  BY <1>5, HandlerKept
<1>6. CASE CrashOfBoth
  BY <1>6, CrashKept
<1>7. CASE \/ Alone(TickStep) \/ Alone(TickAborts) \/ Alone(BootStep)
           \/ Alone(Clock) \/ UNCHANGED allVars
  <2>1. UNCHANGED <<pollVars, cpc, ctok>>
    BY <1>7, OthersLeaveConfirmAlone DEF Alone, allVars, vars, confVars
  <2> QED
    BY <2>1, QueueStays DEF pollVars
<1> QED
  BY <1>1, <1>2, <1>3, <1>4, <1>5, <1>6, <1>7 DEF PollNext, PollStep

LEMMA AlwaysPolling == PollSpec => []PollInv
<1>1. PollSpec => []TypeOK
  BY PollingImplementsScheduler, TypeCorrect, PTL
<1> QED
  BY <1>1, PollInitially, PollInvNext, PTL DEF PollSpec

(* Types of the queue, of what the bot holds of it and of the answers      *)
(* (getUpdates, PollConfirmations).                                        *)
THEOREM PollTypes == PollSpec => []PollTypeOK
<1>1. PollInv => PollTypeOK
  <2> SUFFICES ASSUME PollInv PROVE PollTypeOK
    OBVIOUS
  <2>1. /\ Len(updates) \in Nat
        /\ acked \in 0 .. Len(updates) /\ offset \in 0 .. Len(updates)
    BY DEF PollInv
  <2>2. Turned \in Nat /\ batch \subseteq Turned + 1 .. Len(updates)
    BY <2>1 DEF PollInv, Turned, Larger
  <2>3. batch \subseteq 1 .. Len(updates)
    BY <2>1, <2>2
  <2> QED
    BY <2>1, <2>3 DEF PollInv, PollTypeOK
<1> QED
  BY <1>1, AlwaysPolling, PTL

(* Telegram forgets no press before it was handled to its end              *)
(* (PollConfirmations), however many presses, restarts and lost answers    *)
(* there are, and whether or not ticks and confirmations take turns.       *)
THEOREM NoPressIsLost == PollSpec => []NothingForgottenUnhandled
<1>1. PollInv => NothingForgottenUnhandled
  <2> SUFFICES ASSUME PollInv, NEW i \in 1 .. acked PROVE said[i] # {}
    BY DEF NothingForgottenUnhandled
  <2>1. Len(updates) \in Nat /\ acked \in 0 .. Len(updates) /\ offset \in 0 .. Len(updates)
    BY DEF PollInv
  <2>2. i \in 1 .. Turned /\ i <= acked
    BY <2>1 DEF Turned, Larger
  <2>3. said[i] = {} => offset > acked /\ i = offset
    BY <2>2 DEF PollInv
  <2> QED
    BY <2>1, <2>2, <2>3
<1> QED
  BY <1>1, AlwaysPolling, PTL

(* Presses in other chats, forwarded buttons among them, never confirm     *)
(* (the callback's chat check and Confirm): README.md:28 of the            *)
(* repository, for any number of presses.                                  *)
THEOREM ForeignPressesConfirmNothing == PollSpec => []OnlyTheOwnerConfirms
<1>1. PollInit => OnlyTheOwnerConfirms
  BY DEF PollInit, Init, OnlyTheOwnerConfirms
<1>2. PollInv /\ OnlyTheOwnerConfirms /\ [PollNext]_allVars
      => OnlyTheOwnerConfirms'
  <2> SUFFICES ASSUME PollInv, OnlyTheOwnerConfirms, [PollNext]_allVars,
                      NEW token \in accepted'
               PROVE  \E i \in DOMAIN updates' :
                        updates'[i].owner /\ updates'[i].token = token
    BY DEF OnlyTheOwnerConfirms
  <2>1. updates \in Seq(Update)
    BY DEF PollInv
  <2>2. token \in accepted =>
          \E i \in DOMAIN updates : updates[i].owner /\ updates[i].token = token
    BY DEF OnlyTheOwnerConfirms
  <2>3. CASE OwnerPresses \/ OtherUpdate
    <3>1. PICK u : updates' = Append(updates, u) /\ accepted' = accepted
      BY <2>3 DEF OwnerPresses, OtherUpdate, Press, vars
    <3>2. PICK i \in DOMAIN updates : updates[i].owner /\ updates[i].token = token
      BY <2>2, <3>1
    <3>3. i \in DOMAIN updates' /\ updates'[i] = updates[i]
      BY <2>1, <3>1
    <3> QED
      BY <3>2, <3>3
  <2>4. CASE HandlerStep
    <3>1. /\ UNCHANGED updates /\ cpc # "idle"
          /\ accepted' \in {accepted, accepted \cup {ctok}}
      BY <2>4 DEF HandlerStep, ConfirmStep, ConfirmSave,
                  ConfirmSaveWithoutArchive, ConfirmClearDeliveries
    <3>2. updates[offset] = [owner |-> TRUE, token |-> ctok] /\ offset \in DOMAIN updates
      BY <2>1, <3>1 DEF PollInv
    <3> QED
      BY <2>2, <3>1, <3>2
  <2>5. CASE \/ PollStep /\ ~HandlerStep
             \/ PollFails \/ HandlerFails \/ CrashOfBoth
             \/ Alone(TickStep) \/ Alone(TickAborts) \/ Alone(BootStep)
             \/ Alone(Clock) \/ UNCHANGED allVars
    <3>1. PollStep /\ ~HandlerStep => UNCHANGED <<updates, accepted>>
      BY DEF PollStep, Poll, HandleOther, HandleForeign, HandleExpired,
             HandlePending, ConfirmLoad, TurnTo, vars
    <3>2. PollFails \/ HandlerFails \/ CrashOfBoth => UNCHANGED <<updates, accepted>>
      BY DEF PollFails, HandlerFails, ConfirmFails, CrashOfBoth, Crash, vars
    <3>3. \/ Alone(TickStep) \/ Alone(TickAborts) \/ Alone(BootStep)
          \/ Alone(Clock) \/ UNCHANGED allVars
          => UNCHANGED <<updates, accepted>>
      BY OthersLeaveConfirmAlone DEF Alone, pollVars, allVars, vars
    <3> QED
      BY <2>2, <2>5, <3>1, <3>2, <3>3
  <2> QED
    BY <2>3, <2>4, <2>5 DEF PollNext
<1> QED
  BY <1>1, <1>2, AlwaysPolling, PTL DEF PollSpec

-----------------------------------------------------------------------------
(* A button the owner was told is expired.                                 *)

(* No step gives a row an older token than the two rows have: a new one is *)
(* numbered after all that ever reached the chat.                          *)
LEMMA TokensMove ==
  ASSUME TurnInv, [Next]_vars
  PROVE  /\ db'.pendingToken \in {nil, db.pendingToken, tst.pendingToken}
         /\ \/ tst'.pendingToken \in {nil, db.pendingToken, tst.pendingToken}
            \/ tst'.pendingToken = tokens + 1
         /\ tokens' \in {tokens, tokens + 1}
<1>0. /\ SafeInv /\ buttons \subseteq 1 .. tokens /\ db \in Row /\ tst \in Row
      /\ cst.pendingToken = nil /\ InitialRow.pendingToken = nil
  BY DEF TurnInv, SafeInv, TypeInv, TypeOK, InitialRow
<1>1. CASE UNCHANGED vars
  BY <1>1 DEF vars, tickVars, worldVars
<1>2. CASE AliveStep
  BY <1>0, <1>2, AliveEffect
<1>3. CASE DeliverStep
  BY <1>0, <1>3, DeliverEffect
<1>4. CASE BeginStep
  BY <1>0, <1>4
     DEF BeginStep, TickAlive, TickStage, TickFileSent, TickNothing, BeginTick,
         worldVars, Row
<1>5. CASE TickSave \/ TickAborts \/ Crash \/ Clock
  BY <1>0, <1>5 DEF TickSave, TickAborts, Crash, Clock, EndTick, worldVars
<1>6. CASE ConfirmLoad \/ ConfirmStep \/ ConfirmFails
  BY <1>0, <1>6
     DEF ConfirmLoad, ConfirmStep, ConfirmSave, ConfirmSaveWithoutArchive,
         ConfirmClearDeliveries, ConfirmFails, tickVars, worldVars
<1>7. CASE BootStep
  <2>1. resetToAlive(db, now).pendingToken = nil
    BY <1>0 DEF resetToAlive, WithoutArchive, Confirmed, Row
  <2> QED
    BY <1>7, <2>1
       DEF BootStep, BootKeeps, BootResets, BootClearsDeliveries, worldVars
<1> QED
  BY <1>1, <1>2, <1>3, <1>4, <1>5, <1>6, <1>7 DEF Next, TickStep

(* Every token in the queue is that of a button there was; an expired one  *)
(* is in neither row, so that none can write it.                           *)
ExpiredInv ==
  /\ TurnInv
  /\ PollInv
  /\ \A i \in DOMAIN updates : updates[i].token \in Maybe(1 .. tokens)
  /\ \A i \in DOMAIN said : i \notin DOMAIN updates => said[i] = {}
  /\ \A i \in DOMAIN updates :
       "expired" \in said[i] =>
         updates[i].token \notin {nil, db.pendingToken, tst.pendingToken}

LEMMA ExpiredInit == PollInit => ExpiredInv
<1> SUFFICES ASSUME PollInit PROVE ExpiredInv
  OBVIOUS
<1>1. TurnInv /\ PollInv
  BY TurnInit, PollInitially DEF PollInit
<1>2. DOMAIN updates = {} /\ \A i \in DOMAIN said : said[i] = {}
  BY DEF PollInit
<1> QED
  BY <1>1, <1>2 DEF ExpiredInv

(* Steps that add no update, and no answer but to what is in neither row.  *)
LEMMA ExpiredKept ==
  ASSUME ExpiredInv, (TurnInv /\ PollInv)', [Next]_vars, UNCHANGED updates,
         \/ UNCHANGED said
         \/ \E i \in DOMAIN updates, answer \in Answer :
              /\ Say(i, answer)
              /\ answer = "expired" =>
                   /\ UNCHANGED vars
                   /\ updates[i].token \notin {nil, db.pendingToken, tst.pendingToken}
  PROVE  ExpiredInv'
<1>1. /\ db'.pendingToken \in {nil, db.pendingToken, tst.pendingToken}
      /\ \/ tst'.pendingToken \in {nil, db.pendingToken, tst.pendingToken}
         \/ tst'.pendingToken = tokens + 1
      /\ tokens' \in {tokens, tokens + 1}
  BY TokensMove DEF ExpiredInv
<1>2. tokens \in Nat /\ nil \notin Nat
  BY StateStoreAssumption DEF ExpiredInv, TurnInv, SafeInv, TypeInv, TypeOK
<1>3. 1 .. tokens \subseteq 1 .. tokens' /\ tokens + 1 \notin Maybe(1 .. tokens)
  BY <1>1, <1>2 DEF Maybe
<1>4. \A i \in DOMAIN updates : updates[i].token \in Maybe(1 .. tokens')
  BY <1>3 DEF ExpiredInv, Maybe
<1>5. \A i \in DOMAIN updates :
        updates[i].token \notin {nil, db.pendingToken, tst.pendingToken} =>
          updates[i].token \notin {nil, db'.pendingToken, tst'.pendingToken}
  BY <1>1, <1>3 DEF ExpiredInv
<1>6. CASE UNCHANGED said
  BY <1>4, <1>5, <1>6 DEF ExpiredInv
<1>7. CASE \E i \in DOMAIN updates, answer \in Answer :
             /\ Say(i, answer)
             /\ answer = "expired" =>
                  /\ UNCHANGED vars
                  /\ updates[i].token \notin {nil, db.pendingToken, tst.pendingToken}
  <2>1. PICK i \in DOMAIN updates, answer \in Answer :
          /\ Say(i, answer)
          /\ answer = "expired" =>
               /\ UNCHANGED vars
               /\ updates[i].token \notin {nil, db.pendingToken, tst.pendingToken}
    BY <1>7
  <2>2. said' = [said EXCEPT ![i] = @ \cup {answer}] /\ DOMAIN said' = DOMAIN said
    BY <2>1 DEF Say
  <2>3. \A j \in DOMAIN said : j # i => said'[j] = said[j]
    BY <2>2
  <2>4. DOMAIN updates \subseteq DOMAIN said
    <3>1. /\ Len(updates) \in Nat /\ MaxUpdates \in Nat /\ Len(updates) <= MaxUpdates
          /\ DOMAIN updates = 1 .. Len(updates) /\ DOMAIN said = 1 .. MaxUpdates
      BY PollingAssumption DEF ExpiredInv, PollInv
    <3> QED
      BY <3>1
  <2>5. said'[i] = said[i] \cup {answer}
    BY <2>1, <2>2, <2>4
  <2>6. \A j \in DOMAIN updates :
          "expired" \in said'[j] =>
            updates[j].token \notin {nil, db.pendingToken, tst.pendingToken}
    BY <2>1, <2>3, <2>4, <2>5 DEF ExpiredInv
  <2>7. \A j \in DOMAIN said' : j \notin DOMAIN updates' => said'[j] = {}
    BY <2>1, <2>2, <2>3 DEF ExpiredInv
  <2>8. \A j \in DOMAIN updates' :
          "expired" \in said'[j] =>
            updates'[j].token \notin {nil, db'.pendingToken, tst'.pendingToken}
    BY <1>5, <2>6
  <2> QED
    BY <1>4, <2>7, <2>8 DEF ExpiredInv
<1> QED
  BY <1>6, <1>7

(* A press adds an update that nobody has been told anything about.        *)
LEMMA ExpiredPress ==
  ASSUME ExpiredInv, (TurnInv /\ PollInv)', NEW u \in Update, Press(u),
         u.token \in buttons \cup {nil}
  PROVE  ExpiredInv'
<1>1. /\ updates' = Append(updates, u) /\ Len(updates) < MaxUpdates
      /\ UNCHANGED <<said, db, tst, tokens>>
  BY DEF Press, vars, tickVars, worldVars
<1>2. /\ updates \in Seq(Update) /\ Len(updates) \in Nat
      /\ said \in [1 .. MaxUpdates -> SUBSET Answer]
      /\ MaxUpdates \in Nat /\ buttons \subseteq 1 .. tokens
  BY PollingAssumption DEF ExpiredInv, PollInv, TurnInv
<1> DEFINE last == Len(updates) + 1
<1>3. /\ DOMAIN updates' = DOMAIN updates \cup {last}
      /\ last \notin DOMAIN updates /\ last \in DOMAIN said
      /\ \A i \in DOMAIN updates : updates'[i] = updates[i]
      /\ updates'[last] = u
  BY <1>1, <1>2
<1>4. said[last] = {}
  BY <1>3 DEF ExpiredInv
<1>5. u.token \in Maybe(1 .. tokens)
  BY <1>2 DEF Maybe
<1>6. \A i \in DOMAIN updates' : updates'[i].token \in Maybe(1 .. tokens)
  BY <1>3, <1>5 DEF ExpiredInv
<1>7. \A i \in DOMAIN updates' :
        "expired" \in said[i] =>
          updates'[i].token \notin {nil, db.pendingToken, tst.pendingToken}
  BY <1>3, <1>4 DEF ExpiredInv
<1>8. \A i \in DOMAIN said : i \notin DOMAIN updates' => said[i] = {}
  BY <1>3 DEF ExpiredInv
<1> QED
  BY <1>1, <1>6, <1>7, <1>8 DEF ExpiredInv

LEMMA ExpiredNext ==
  ASSUME Overlap = FALSE
  PROVE  ExpiredInv /\ [PollNext]_allVars => ExpiredInv'
<1> SUFFICES ASSUME ExpiredInv, [PollNext]_allVars PROVE ExpiredInv'
  OBVIOUS
<1>0. /\ (TurnInv /\ PollInv)' /\ [Next]_vars /\ TurnInv /\ PollInv
      /\ buttons \subseteq Token
      /\ updates \in Seq(Update)
  <2>1. TypeOK /\ TurnInv /\ PollInv /\ updates \in Seq(Update)
    BY DEF ExpiredInv, TurnInv, SafeInv, TypeInv, PollInv
  <2>2. [Next]_vars
    BY PollNextIsNext
  <2> QED
    BY <2>1, <2>2, TurnNext, PollInvNext DEF TypeOK
<1>1. CASE OwnerPresses \/ OtherUpdate
  <2>1. PICK token \in buttons \cup {nil}, owner \in BOOLEAN :
          Press([owner |-> owner, token |-> token])
    BY <1>1 DEF OwnerPresses, OtherUpdate
  <2>2. [owner |-> owner, token |-> token] \in Update
    BY <1>0 DEF Update, Maybe
  <2> QED
    BY <1>0, <2>1, <2>2, ExpiredPress
<1>2. CASE Poll \/ PollFails \/ \E i \in batch : HandlePending(i)
  <2>1. UNCHANGED <<updates, said>>
    BY <1>2 DEF Poll, PollFails, HandlePending, TurnTo
  <2> QED
    BY <1>0, <2>1, ExpiredKept
<1>3. CASE \E i \in batch : HandleOther(i) \/ HandleForeign(i) \/ HandleExpired(i)
  <2>1. PICK i \in batch, answer \in Answer :
          /\ TurnTo(i) /\ UNCHANGED vars /\ Say(i, answer)
          /\ answer = "expired" =>
               updates[i].token # nil /\ updates[i].token # db.pendingToken
    BY <1>3 DEF HandleOther, HandleForeign, HandleExpired, Expired, Answer
  <2>2. i \in DOMAIN updates /\ UNCHANGED updates
    BY <1>0, <2>1, TurnsToTheNext
  <2>3. tst.pendingToken = nil
    BY <1>0, <2>1 DEF TurnTo, Polling, MyTurn, TurnInv
  <2> QED
    BY <1>0, <2>1, <2>2, <2>3, ExpiredKept
<1>4. CASE HandlerStep \/ HandlerFails
  <2>1. /\ UNCHANGED updates /\ cpc # "idle"
        /\ UNCHANGED said \/ \E answer \in Answer \ {"expired"} : Say(offset, answer)
    BY <1>4 DEF HandlerStep, HandlerFails, ConfirmStep, ConfirmSave,
                ConfirmSaveWithoutArchive, ConfirmClearDeliveries, ConfirmFails,
                Answer
  <2>2. offset \in DOMAIN updates
    BY <1>0, <2>1 DEF PollInv
  <2> QED
    BY <1>0, <2>1, <2>2, ExpiredKept
<1>5. CASE CrashOfBoth
  BY <1>0, <1>5, ExpiredKept DEF CrashOfBoth
<1>6. CASE \/ Alone(TickStep) \/ Alone(TickAborts) \/ Alone(BootStep)
           \/ Alone(Clock) \/ UNCHANGED allVars
  <2>1. UNCHANGED <<updates, said>>
    BY <1>6 DEF Alone, allVars, pollVars
  <2> QED
    BY <1>0, <2>1, ExpiredKept
<1> QED
  BY <1>1, <1>2, <1>3, <1>4, <1>5, <1>6 DEF PollNext, PollStep

(* A button the owner was told is expired stays so (Confirm and main.go's *)
(* answer "use the newest message"), for any number of presses, crashes    *)
(* and lost messages, when confirmations and ticks take turns.             *)
THEOREM ExpiredForGood ==
  ASSUME Overlap = FALSE
  PROVE  PollSpec => []ExpiredIsFinal
<1>1. ExpiredInv => ExpiredIsFinal
  BY DEF ExpiredInv, ExpiredIsFinal
<1> QED
  BY <1>1, ExpiredInit, ExpiredNext, PTL DEF PollSpec
=============================================================================
