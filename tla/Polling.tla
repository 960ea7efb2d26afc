------------------------------ MODULE Polling ------------------------------
(***************************************************************************)
(* The way of a confirmation: from the button in the owner's chat through  *)
(* Telegram's queue of updates and the polling goroutine of                *)
(* internal/telegram to Confirm, composed with the scheduler.              *)
(*                                                                         *)
(* Telegram keeps an update until a getUpdates asks for a later one.  The  *)
(* offset the bot asks with lives in its memory: a restart asks for        *)
(* everything Telegram still holds, and what was handled is handled again. *)
(***************************************************************************)
EXTENDS Scheduler

CONSTANT MaxUpdates  \* bound: updates that reach Telegram

ASSUME PollingAssumption == MaxUpdates \in Nat

(* A press of a button, in the owner's chat or in another one; no token    *)
(* for an update that is no press of a confirmation button.  An update's   *)
(* id is its place among all updates.                                      *)
Update == [owner : BOOLEAN, token : Maybe(Token)]

Answer == {"confirmed", "expired", "error", "refused", "ignored"}

VARIABLES
  updates,  \* the updates so far
  acked,    \* Telegram has forgotten the updates up to this one
  offset,   \* the bot: the last update it turned to, 0 after a start,
  batch,    \*   the updates it fetched and has not turned to
  said      \* for each update, the answers its handling came to

pollVars == <<updates, acked, offset, batch, said>>
allVars == <<vars, pollVars>>

PollTypeOK ==
  /\ updates \in Seq(Update)
  /\ acked \in Nat /\ offset \in Nat
  /\ batch \subseteq 1 .. Len(updates)
  /\ said \in [1 .. MaxUpdates -> SUBSET Answer]

PollInit ==
  /\ Init
  /\ updates = <<>> /\ acked = 0
  /\ offset = 0 /\ batch = {}
  /\ said = [i \in 1 .. MaxUpdates |-> {}]

-----------------------------------------------------------------------------
(* Telegram and the people who press buttons.                              *)

(* Where polling and ticks take turns, presses come between ticks: one in  *)
(* the middle of a tick would wait in the queue until its end.             *)
MyTurn == Overlap \/ tpc = "idle"

Press(u) ==
  /\ Len(updates) < MaxUpdates
  /\ MyTurn
  /\ updates' = Append(updates, u)
  /\ UNCHANGED <<vars, acked, offset, batch, said>>

(* Any button that is still in the chat may be pressed, the oldest too.    *)
OwnerPresses ==
  /\ OwnerClicks
  /\ \E token \in buttons : Press([owner |-> TRUE, token |-> token])

(* A message to the bot, or any press in a foreign chat.                   *)
OtherUpdate ==
  \E token \in buttons \cup {nil} : Press([owner |-> token = nil, token |-> token])

-----------------------------------------------------------------------------
(* PollConfirmations: getUpdates, then one update after the other.         *)

Polling == cpc = "idle" /\ tpc \notin {"boot", "bootClear"} /\ MyTurn

Larger(i, j) == IF i > j THEN i ELSE j

(* Variant of Poll: fetching an update acknowledges it.                    *)
AckedWhenFetched ==
  /\ Polling /\ batch = {}
  /\ acked' = Len(updates)
  /\ batch' = Larger(acked, offset) + 1 .. Len(updates)
  /\ UNCHANGED <<vars, updates, offset, said>>

(* Variant of Poll: the offset is the last update's id, not the next one.  *)
LastUpdateAgain ==
  /\ Polling /\ batch = {}
  /\ acked' = Larger(acked, offset)
  /\ batch' = acked' .. Len(updates)
  /\ UNCHANGED <<vars, updates, offset, said>>

(* Variant of Poll: the loop ends after the first batch.                   *)
OneBatchOnly ==
  /\ Polling /\ batch = {} /\ offset = 0
  /\ acked' = Larger(acked, offset)
  /\ batch' = acked' + 1 .. Len(updates)
  /\ UNCHANGED <<vars, updates, offset, said>>

(* Asking for the updates after offset lets Telegram forget those before.  *)
Poll ==
  /\ Polling /\ batch = {}
  /\ acked' = Larger(acked, offset)
  /\ batch' = acked' + 1 .. Len(updates)
  /\ UNCHANGED <<vars, updates, offset, said>>

(* The request arrives and its answer is lost: the loop backs off and asks *)
(* again.  A request that does not arrive changes nothing.                 *)
PollFails ==
  /\ Polling /\ batch = {}
  /\ acked' = Larger(acked, offset)
  /\ UNCHANGED <<vars, updates, offset, batch, said>>

TurnTo(i) ==
  /\ Polling
  /\ i \in batch /\ \A j \in batch : i <= j
  /\ offset' = i /\ batch' = batch \ {i}
  /\ UNCHANGED <<updates, acked>>

Say(i, answer) == said' = [said EXCEPT ![i] = @ \cup {answer}]

(* Variant of Authorised: whoever has the token may confirm.               *)
AnyoneAuthorised(u) == TRUE

Authorised(u) == u.owner

HandleOther(i) ==
  /\ updates[i].token = nil
  /\ TurnTo(i) /\ Say(i, "ignored")
  /\ UNCHANGED vars

HandleForeign(i) ==
  /\ updates[i].token # nil /\ ~Authorised(updates[i])
  /\ TurnTo(i) /\ Say(i, "refused")
  /\ UNCHANGED vars

(* Variant of Expired: too late once the mails have begun.                 *)
ExpiredOnceTriggered(token) ==
  token # db.pendingToken \/ db.phase \notin {"ALIVE", "GRACE"}

Expired(token) == token # db.pendingToken

(* Confirm refuses an old token and changes nothing; its Load may fail.    *)
HandleExpired(i) ==
  /\ updates[i].token # nil /\ Authorised(updates[i])
  /\ Expired(updates[i].token)
  /\ TurnTo(i)
  /\ \/ Say(i, "expired")
     \/ "dbError" \in FaultKinds /\ Say(i, "error")
  /\ UNCHANGED vars

(* A Load that fails here is told as a first Save that fails (HandlerFails). *)
HandlePending(i) ==
  /\ updates[i].token # nil /\ Authorised(updates[i])
  /\ ~Expired(updates[i].token)
  /\ TurnTo(i)
  /\ ConfirmLoad
  /\ UNCHANGED said

(* Confirm runs on in the polling goroutine, and its outcome is the answer *)
(* to the update it turned to last.                                        *)
HandlerStep ==
  /\ ConfirmStep
  /\ IF cpc' = "idle" THEN Say(offset, "confirmed") ELSE UNCHANGED said
  /\ UNCHANGED <<updates, acked, offset, batch>>

(* Variant of HandlerFails: after an error the rest of the batch is given  *)
(* up, and the offset is past it.                                          *)
RestGivenUp ==
  /\ ConfirmFails
  /\ Say(offset, "error")
  /\ batch' = {}
  /\ offset' \in batch \cup {offset} /\ \A j \in batch : j <= offset'
  /\ UNCHANGED <<updates, acked>>

HandlerFails ==
  /\ ConfirmFails
  /\ Say(offset, "error")
  /\ UNCHANGED <<updates, acked, offset, batch>>

-----------------------------------------------------------------------------

(* Offset and batch are gone with the process.                             *)
CrashOfBoth ==
  /\ Crash
  /\ offset' = 0 /\ batch' = {}
  /\ UNCHANGED <<updates, acked, said>>

Alone(A) == A /\ UNCHANGED pollVars

PollStep ==
  \/ Poll
  \/ \E i \in batch :
       HandleOther(i) \/ HandleForeign(i) \/ HandleExpired(i) \/ HandlePending(i)
  \/ HandlerStep

PollNext ==
  \/ OwnerPresses \/ OtherUpdate
  \/ PollStep \/ PollFails \/ HandlerFails
  \/ CrashOfBoth
  \/ Alone(TickStep) \/ Alone(TickAborts) \/ Alone(BootStep) \/ Alone(Clock)

PollSpec == PollInit /\ [][PollNext]_allVars

-----------------------------------------------------------------------------
(* Telegram never forgets an update that was not handled to its end: no    *)
(* crash, no lost answer of getUpdates and no failure half-way through a   *)
(* batch loses a press (PollConfirmations, getUpdates).                    *)
NothingForgottenUnhandled == \A i \in 1 .. acked : said[i] # {}

(* README.md:28 of the repository, only the configured chat confirms:      *)
(* whatever is pressed in other chats, forwarded buttons included, every   *)
(* accepted token was pressed by the owner.                                *)
OnlyTheOwnerConfirms ==
  accepted \subseteq {updates[i].token : i \in {k \in DOMAIN updates : updates[k].owner}}

(* cmd/ifgone/main.go:91, "this confirmation has expired, use the newest   *)
(* message": a button the owner was told this of never becomes the pending *)
(* one (again).  Confirmations and ticks must take turns for this: a press *)
(* between the send of a check-in and the Save of its token is told so.    *)
ExpiredIsFinal ==
  \A i \in DOMAIN updates :
    "expired" \in said[i] => updates[i].token # db.pendingToken

-----------------------------------------------------------------------------
(* The polling goroutine never stops.  Where ticks and confirmations take  *)
(* turns, ticks are minutes apart and a press finds its turn: strong       *)
(* fairness.                                                               *)
PollFairness ==
  /\ WF_allVars(Alone(TickStep))
  /\ WF_allVars(Alone(BootStep))
  /\ WF_allVars(Alone(Clock))
  /\ SF_allVars(PollStep)

FairPollSpec == PollSpec /\ PollFairness

(* README.md:20: a press of the pending button ends its round, at any      *)
(* stage and through any crash, unless the owner is told of an error.      *)
Pending(i) ==
  i \in DOMAIN updates /\ updates[i] = [owner |-> TRUE, token |-> db.pendingToken]

PressEndsTheRound ==
  \A i \in 1 .. MaxUpdates :
    (Pending(i) /\ db.pendingToken # nil) ~> (~Pending(i) \/ "error" \in said[i])

(* The owner who is told of an error presses again: more presses of the    *)
(* pending button than things can fail end its round, whatever fails half- *)
(* way through Confirm or through a batch (Confirm, PollConfirmations).    *)
PressingAgainEndsTheRound ==
  \A S \in {T \in SUBSET (1 .. MaxUpdates) : Cardinality(T) > MaxFaults} :
    (db.pendingToken # nil /\ \A i \in S : Pending(i)) ~> (\E i \in S : ~Pending(i))
=============================================================================
