# A formal model of if-i-am-gone

*if-i-am-gone* is a dead man's switch: once a month it asks its owner, over
Telegram, to press a button; when several reminders stay unanswered it warns the
beneficiaries by mail, some days later mails them the password of an encrypted
archive, and some days after that a link to it. These modules model the part of
the program on which that promise rests, the TLC configurations check it on small
instances, and eight modules of TLAPS proofs establish every safety property those
runs check for any number of beneficiaries, requests, presses and archives, any
delays and any number of failures of the kinds a property tolerates.

Paths such as `scheduler.go:67` are relative to the package's directory in the
repository (`internal/scheduler`, `internal/state`, `internal/app`,
`internal/download`, `internal/telegram`, `internal/packer`, `internal/config`,
`cmd/ifgone`, `cmd/ifgonectl`).

## 1. The system

| component | state | operations | interacts with |
|---|---|---|---|
| scheduler (`scheduler.go`) | none of its own: it edits a copy of the state row | `Tick` (one handler per phase, `deliver`, `doPack`, `maybeHeartbeat`), `Confirm` | store, notifier, packer |
| calendar (`scheduler.go:406-519`) | none, pure functions | monthly check-in, reminders due, stage due | `time` package |
| state store (`state.go`) | one row `state`; tables `deliveries`, `download_tokens`, `audit` (SQLite) | `Load`, `Save` (whole row), `AlreadyDelivered`, `RecordDelivery`, `ClearDeliveries`, token functions, `NormalizeForTargetFlow` | everybody |
| process (`cmd/ifgone/main.go`) | a tick loop and a polling goroutine | boot, `runTick` with recover, confirmation callback | all |
| notifier (`notifier.go`) | none | `SendCheckin`, `SendReminder`, `SendStageReminder`, `Deliver*` | telegram, mailer, download |
| telegram bot (`bot.go`) | update offset, in memory | `PollConfirmations`, `SendCheckin`, `SendMessage` | the owner |
| downloads (`service.go`, `server.go`) | `download_tokens` | `CreateLink`, `handleDownload` | beneficiaries, archives on disk |
| packer (`packer.go`) | `archives/` | `Build`, `CleanupOld` | disk |
| configuration (`config.go`) | read once | `Load`: `applyDefaults`, `Validate`; `Lang` | everybody |
| ifgonectl (`cmd/ifgonectl/main.go`) | a second process on the same database and disk | `pack [--save-state]`, `dry-run`, `cleanup-tokens`, `status`, `test-email` | store, packer |
| mailer, secretbox, templates, s3, health check | none that decides | sending, cryptography, text, upload, ping | |

What is hard about it:

* **Three writers.** The tick loop, the polling goroutine and `ifgonectl pack
  --save-state` each load the whole row, act (a tick sends mails in between, for
  minutes perhaps) and save the whole row. There is no lock, no transaction and no
  version column.
* **A queue with a cursor in memory.** Telegram keeps the owner's presses until a
  later `getUpdates` acknowledges them; the cursor moves before a press is handled
  and is lost with the process.
* **Files that are replaced and removed.** An archive is named for a second and
  written in place; only the newest are kept.
* **Crashes.** The database is the only memory. A send, its record, the packing,
  the save of the row and the clearing of records are separate steps.
* **Partial failure.** A stage has one message per recipient; any of them may
  fail, or arrive and be reported as failed.
* **The calendar.** Delays in days are local days at a fixed time of day, across
  zone transitions; the check-in day may not exist in a month.
* **Concurrent downloads.** A request decides on a row it read and counts later.

What makes the components correct, and the property that says so:

* scheduler: stages in order and after their waits (`StagesInOrder`,
  `DelaysHonoured`, `KeepsPromise`), a confirmation ends its round
  (`ConfirmationSticks`, `NothingAfterConfirmation`), the owner can always press
  one (`Cancellable`), each round runs whole and once (`WholeFlowEachRound`,
  `OncePerRound`), with one archive (`PasswordsOpenTheArchive`), and if the
  owner never answers it completes (`EventuallyDisclosed`);
* store: a restart carries on (`RestartCarriesOn`);
* calendar: `DelayLandsOnItsDay`, `RemindersAreSendTimesPassed`,
  `OneCheckinPerMonth`, `EveryMonthServed`, `OutageIsMadeUp`;
* telegram bot: no press is lost (`NothingForgottenUnhandled`), each pending one ends
  its round or is answered with an error (`PressEndsTheRound`), after which
  pressing again helps (`PressingAgainEndsTheRound`), only the owner confirms
  (`OnlyTheOwnerConfirms`), a button called expired is (`ExpiredIsFinal`);
* packer: the row's archive can be opened for as long as `keep_archives` promises
  (`RowArchiveUsable`), files do not pile up (`DiskBounded`);
* ifgonectl: `pack --save-state` breaks neither the order of the stages nor the
  owner's way out (`StagesInOrder`, `Cancellable`, `RestartCarriesOn`), `dry-run`
  tells the truth (`DryRunIsRight`, `DryRunForetells`);
* configuration: what is accepted is what the rest assumes
  (`AcceptedFitsScheduler` and the theorems next to it);
* downloads: `WithinLimit`, `OvershootBounded`, `EveryDownloadIsCounted`,
  `DeadForGood`, `ExtraLinksAreFaults`.

`PROJECT.json` lists the hazards line by line with the properties that catch them,
and, for those no property covers yet, why.

## 2. The modules

```
StateStore <- TargetFlow <- Scheduler <- Polling   <- MCPolling
                                      <- Archives  <- MCArchives
                                      <- MCScheduler
                         <- Calendar  <- MCTargetFlow
Download   <- MCDownload
Config

TargetFlow <- TargetFlowProofs <---+-----------------+
Scheduler  <- SchedulerProofs  <- RoundProofs        |
                 ^                  ^           CalendarProofs -> Calendar
           ArchivesProofs      PollingProofs
                 |                  |
              Archives           Polling
Download   <- DownloadProofs      Config <- ConfigProofs
```

An arrow points from a module to the one it extends: `RoundProofs` extends
`SchedulerProofs` and `TargetFlowProofs`, `PollingProofs` extends `Polling` and
`RoundProofs`, `ArchivesProofs` extends `Archives` and `SchedulerProofs`,
`CalendarProofs` extends `Calendar` and `TargetFlowProofs`. `Scheduler` takes
`Disclosure` by `INSTANCE`.

**StateStore** is the row of table `state` and its pure functions: `InitialRow`
(`ensureInitialRow`), `Confirmed` (the columns a confirmation resets),
`resetToAlive` and `targetFlowNormalizationReason`. Columns no decision reads are
left out (`last_pack_at`, `final_warning_at`, `file_sent_at`, the checksum). An
archive is a number that stands for path and password together, because every
writer writes the two together.

**TargetFlow** is the calendar. An instant is a number of time units, a local date
a number of days; the zone is a function `Offset` from instants to offsets and
the months are the sequence `MonthStart`. `dueAt` is the copy of the delay
arithmetic that `ifgonectl` has for itself. `FromLocal` models the way `time.Date`
finds an instant for a wall clock (external code, from its documentation and
use). `countElapsedDayBasedStages` is a loop in the code and a counting of the
stages all of whose predecessors are due here, which is what the loop returns.

At its end, `TargetFlow` defines what some proofs ask of a zone (section 4).

**Calendar** is the check-in branch of the ticks of an owner who confirms every
check-in, over a stretch of the calendar: the clock moves on, and at each instant
the process may run or be down. `base` is any instant of it, from which the other
functions of `TargetFlow` count.

**Scheduler** is the program at run time.

* `db` and `delivered` are the database; `tpc`, `tst`, `tnow`, `ti`, `tall` the
  tick (where it is, the row it loaded, its `now`, the recipient it is at,
  `allDelivered`); `cpc`, `cst`, `ctok` the confirmation handler.
* Every write of the database and every send is one action. `BeginTick` is `Load`
  with the dispatch on the phase; `SendCheckin` ... `NothingDue` are the paths of
  `tickAlive` and `tickOutstandingCheckin`, each with the heartbeat that ends
  them; `DeliverSkips`, `DeliverSends`, `DeliverFails`, `RecordDelivery`, ... are
  `deliver` for the owner (`ti = 0`) and each beneficiary; `Pack` is `doPack` with
  its guard; `TickSave` is `Save`. `ConfirmLoad`, `ConfirmSave`,
  `ConfirmSaveWithoutArchive`, `ConfirmClearDeliveries` are `Confirm`; `BootKeeps`,
  `BootResets`, `BootClearsDeliveries` are `NormalizeForTargetFlow`.
* `buttons` are the tokens of the buttons in the owner's chat. A click on any
  other token than the pending one changes nothing (`scheduler.go:73`) and is no
  action.
* `mail` and `accepted` record what the outside world has seen: for each
  recipient and stage the latest message with its round (the round's check-in
  token), time, archive, and whether it came more than once; and the tokens of
  which the owner was told they are confirmed. No guard of the program reads them.
* Failures: `Crash` loses everything but the database and boots again;
  `TickAborts` is a panic `runTick` recovers from, or an error of `Load`,
  `tokenGen` or `Save`; a send can fail, or arrive and be reported as failed
  (`lostAck`); a database call can fail (`dbError`), and a write that is reported
  as failed may have been made all the same: `ConfirmFails` and
  `RecordDeliveryFails` have both outcomes, and a tick's `Save` that was made is a
  `TickSave`, since nothing follows it but a line in the log.
* `LegacyInit` starts on the database of an earlier version: a row in any phase, with
  or without the columns that version did not fill, and the deliveries of the stages
  before that phase with any part of the stage it was at, the owner's reminder first.
  Records that a cancelled round left behind are not among them: what becomes of
  those is the finding of `crash_skips`.

The check of the table and the send that follows it are one step (nothing else
reads or deletes a record in between but `ClearDeliveries`, whose effect on a tick
that had already read is that of a click a moment later). In `AfterDeliver` the
owner's reminder is recipient 0; its failure ends the tick, a beneficiary's is
remembered and the loop goes on, as in `tickPendingTrigger`.

**Polling** puts Telegram between the owner and `Confirm`.

* `updates` is Telegram's queue, by id; `acked` what it has forgotten; `offset` and
  `batch` are the bot's cursor and the updates it fetched and has not turned to;
  `said` is what the owner was answered, for each update.
* `Poll` is `getUpdates`; asking from an offset on is what makes Telegram forget what
  precedes it, so `PollFails`, a request whose answer is lost, acknowledges too.
  `HandleOther`, `HandleForeign`, `HandleExpired` and `HandlePending` are the branches
  of `PollConfirmations`; the last runs `ConfirmLoad` and the steps of `Confirm` that
  follow, whose outcome is the answer (`HandlerStep`, `HandlerFails`).
* `CrashOfBoth` loses cursor and batch: Telegram delivers again what it still holds,
  confirmations that were handled included.
* `updates`, and with them repeated presses of old buttons and presses in other
  chats, replace the free choice of a button in `ConfirmLoad`. Every behaviour of
  the composition is one of `Scheduler` (`PollingImplementsScheduler`).
* Where `Overlap` is FALSE, presses and the handling of them come between ticks
  (`MyTurn`).

**Archives** puts the disk under the scheduler, and the operator beside it.

* `disk` maps names, the seconds archives were begun in, to what is in the file: an
  archive, or something nobody can open (`Half`). `nameOf` and `opened` remember what
  was written where; no guard reads `opened`.
* A tick packs under the time it began at (`tnow`) and then keeps the newest
  `keep_archives` names. A failed `Build` removes its file or never opened it; a
  crash in the middle leaves it.
* `OperatorOpens`, `OperatorBuilds`, `OperatorLoads`, `OperatorSaves` are `ifgonectl
  pack --save-state`, which may stop at each of them. `ost` is the row it loaded.
* `describeNextAction` and `dueText` are `ifgonectl dry-run`, reduced to the instant
  it announces the next mails for.

**Config** is `config.Load` on a parsed file: durations with their two kinds (and the
wrap-around of `time.Duration`), `applyDefaults`, `Validate`, and `Lang`. A value that
is missing is the zero value of its type, as it is for the YAML decoder. It has no
behaviours and no run; `ConfigProofs` proves that an accepted configuration satisfies
what the other modules assume of their constants.

**Disclosure** is what the switch promises with no word on how: who has had the
message of which stage, and that a stage opens when everybody has had the one
before it and the owner's reminder comes first. `Scheduler` implements it under
the mapping `had[s] = {r : mail[r, s] # nil}` (`KeepsPromise`).

**Download** is the self-hosted download: one delivery attempt at a time makes a
link and mails it (`createSelfHostedLink`, `MailArrives`, ..., or `CreateLinkFails`
where there is no token or no row), and each HTTP
request is a handler that looks its link up, decides on the row it read, counts
with one UPDATE statement, and serves. Each link has the `max_downloads` of the
configuration it was made with in its own row (`LimitOf`). Expiry, count and the file's
presence are decided in one step (`MayDownload`): the first two are checked on the row
the handler holds, and a file that vanishes later is an answer of its own. Expired rows
are deleted at any time (by ticks of a finished flow and by `ifgonectl cleanup-tokens`),
the archive may vanish (`CleanupOld`), and the process may crash. A link is only asked
for when it reached a mailbox, or is not in the table.

The definitions called "Variant of ..." are plausible mistakes in the definition
that follows them. Nothing uses them; each property is shown to fail when its
variant takes the definition's place, so that none holds for want of behaviours.

## 3. The runs

| run | what it shows | instance |
|---|---|---|
| `calendar` | the calendar functions against their definitions, and `dueAt` against `stageDue` | 70 instants, 6 units a day, months of 2 to 4 days, two zone transitions, day 3 of the month (which one month does not have), any base instant, ticks at any instants |
| `robust` | order, waits, button, restart, refinement | ticks and confirmations overlap at every step, one failure of any kind anywhere, one beneficiary |
| `in_turn` | rounds are whole, single, with one archive | no overlap, no crash, sends and packing fail freely, two beneficiaries, any database of an earlier version as a start, partly delivered stages included |
| `in_turn_faults` | the way of a press: none is lost, each pending one ends its round for good, pressing again after an error helps, nobody else's counts | `Polling`, no overlap, two updates, one beneficiary, one crash, abort, database error, lost acknowledgement or failed send; `getUpdates` fails freely |
| `operator` | a manual packing leaves order, button and restart alone; archives on disk; dry-run | `Archives`, one `pack --save-state` at any moment, `keep_archives` 1, one crash, abort, database error or failed send |
| `liveness` | everybody is sent the link | owner absent, two beneficiaries, one failure of any kind, heartbeat enabled |
| `download` | counting and limits | two handlers, two links, limit 2, one failure |
| `lost_confirmation` | finding: `ConfirmationSticks` fails | overlap, no failures at all |
| `crash_repacks` | finding: `PasswordsOpenTheArchive` fails | one crash |
| `crash_skips` | finding: `WholeFlowEachRound` fails | one crash |
| `calendar_outage` | finding: `OutageIsMadeUp` fails | ticks at any instants |
| `download_limit` | finding: `WithinLimit` fails | two handlers |

The five findings are disagreements between the code and what its own documents
or comments say; `PROJECT.json` quotes the lines. Each is paired with the run that
shows under which condition the statement does hold: the three about the
scheduler without overlap or without crashes (`in_turn`, `in_turn_faults`), the limit up to
one download per further request (`OvershootBounded`), the month as long as a tick
runs late on its last day (`EveryMonthServed`).

Three more disagreements have no run of their own:

* A crash between a send and its record sends the message again, although
  `README.md:26` of the repository says that a restart never sends twice: `deliver` sends
  first (`scheduler.go:314`) and records afterwards (`scheduler.go:321`). With the
  constants of `crash_repacks` and `OncePerRound` as the invariant, TLC finds
  `DeliverSends`, `Crash`, `BootKeeps`, `TickStage`, `DeliverSends`: the second message
  is of the same round, for the owner or, a message later, for a beneficiary. What
  `in_turn` shows of `OncePerRound` is therefore the part that holds: retries of failed
  sends repeat nothing that arrived.
* A press between the send of a check-in (`scheduler.go:142`) and the `Save` of its token
  (`scheduler.go:155`) is answered "expired, use the newest message"
  (`cmd/ifgone/main.go:91`), and the same button becomes valid a moment later. With
  `Overlap` TRUE in `in_turn_faults`, `FaultKinds` empty and `MaxUpdates` 1, TLC finds
  `ExpiredIsFinal` violated.
* `pack --save-state` can write back the row of before a confirmation, and can change
  the archive between the password mails and the link. `README.md:130` of the
  repository advises to use it only when it is really needed; what survives it is
  what `operator` checks.

### Bounds

* `MaxTime` is the last instant of the clock. A round needs a check-in, two
  reminder intervals, and the two waits. In `robust` (6) one round reaches its
  link mail with a unit to spare; in `in_turn` (7) a second round runs after a
  confirmed or a completed one, which every property about rounds needs. In
  `in_turn_faults` (5) check-ins are three units apart: a confirmed round is followed
  by another, with its own button, while the old button is still in the chat. In
  `operator` (5) the round reaches its link mail. `liveness` has 12 units for a flow
  of 5 in a month of 40 days.
* `MaxFaults` (1) bounds the failures drawn from `FaultKinds`. Where
  `FreeFailures` is TRUE, failing sends and packings are not counted. One
  failure is placed at every step of every behaviour; what is proved (section 4)
  has no such bound.
* `MaxUpdates` (2): a press and a second one, of the same button, of an older or a
  newer one, by the owner or from another chat; with a lost answer or a crash each is
  delivered any number of times.
* `MaxManual` (1) and `KeepArchives` (1): a single manual archive is enough to push
  the row's archive off the disk, and to write a row back at any moment.
* One beneficiary where the owner and one recipient already make every pair of
  steps (`robust`, `in_turn_faults`, `operator`), two where the property is about
  different beneficiaries (`in_turn`, `liveness`, the crash runs).
* `ReminderCount` is 1, and every delay is one unit: the reminder, the trigger and
  each wait still happen at different instants.
* `MaxLinks` (2), `MaxDownloads` (2, the largest limit a link may be made with) and two
  handlers in `Download`: a first link and a retry, a link that is used up by two
  requests at once.
* `Horizon` (70) in `calendar` is four months.

`CHECK_DEADLOCK FALSE` is set in the two calendar runs only, whose clock stops at
`Horizon`. In `Scheduler` a tick of a finished flow, and before that one that finds
nothing due, is always possible.

### Fairness

`FairSpec` asks for weak fairness of the tick's steps, of the boot steps and of the
clock: the main loop of `main.go:103-111` never leaves but on a signal, boot is a
sequence of statements, and time passes. `Urgent` says that a tick completes in
every unit of time, as the ticker's period (a minute) is far below the delays (a
day); without it the clock could run out before the program acted. Confirmations,
failures and crashes get no fairness.

`FairPollSpec` of `Polling` asks the same without `Urgent`, and strong fairness of the
polling goroutine's steps: its loop never leaves but on a signal, `getUpdates` is
retried for ever, and ticks are a minute apart, so that between them it finds its turn
again and again. Weak fairness would not do where polling is disabled during each
tick. That a `getUpdates` gets through now and then is part of the assumption.
`PressEndsTheRound` needs it: a press of the pending button leads to the end of its
round, or the owner is told of an error; and `PressingAgainEndsTheRound`: more presses
of it than things can fail do end the round. That a send returns is part of the
assumption: neither `tls.Dial` nor `smtp.SendMail` has a deadline in `mailer.go`, so
a mail server that never answers would stop the loop (listed as a hazard).

## 4. The proofs

For every value of the constants that the modules' assumptions allow
(`StateStoreAssumption`, `TargetFlowAssumption`, `SchedulerAssumption`,
`MessageAssumption`, `PollingAssumption`, `ArchivesAssumption`, `DownloadAssumption`,
`CalendarAssumption`); a start is on a new database unless the table says otherwise:

| module | theorem | establishes | beyond the constants' assumptions |
|---|---|---|---|
| `SchedulerProofs` | `TypeCorrect` | `[]TypeOK` | |
| | `StagesKeepTheirOrder` | `[]StagesInOrder` | |
| | `OwnerCanAlwaysCancel` | `[]Cancellable` | |
| | `RestartsCarryOn` | `[]RestartCarriesOn` | |
| | `ImplementsDisclosure` | `KeepsPromise`: every step maps to a step of Disclosure or a stutter | |
| | `ConfirmationsStick` | `[]ConfirmationSticks` | no overlap |
| | `SilenceAfterConfirmation` | `NothingAfterConfirmation` | no overlap |
| `RoundProofs` | `PasswordsOpenArchives` | `[]PasswordsOpenTheArchive`, from earlier versions' rows too | no crash, no aborted tick |
| | `EachRoundGoesThroughAllStages` | `[]WholeFlowEachRound`, from earlier versions' rows too | no overlap, no crash, no database error |
| | `NobodyHasAStageTwice` | `[]OncePerRound`, from earlier versions' rows too | no overlap, sends fail outright or succeed |
| | `EarlierDatabasesAreSafe` | `[](StagesInOrder /\ Cancellable)` of `LegacySpec` | |
| | `StagesKeepTheirDistance` | `[]DelaysHonoured` | both delays keep the order of instants |
| | `DistanceWhereDaysFollow` | the same | the zone: `DaysFollow` |
| | `DistanceOfExactDelays` | the same | delays that are no days, any zone |
| `PollingProofs` | `PollingImplementsScheduler` | `PollSpec => Spec`: the queue adds no behaviour | |
| | `ConfirmationsStickBehindTelegram` | `ConfirmationSticks`, `NothingAfterConfirmation` of the composition | no overlap |
| | `PollTypes` | `[]PollTypeOK` | |
| | `NoPressIsLost` | `[]NothingForgottenUnhandled` | |
| | `ForeignPressesConfirmNothing` | `[]OnlyTheOwnerConfirms` | |
| | `ExpiredForGood` | `[]ExpiredIsFinal` | no overlap |
| `ArchivesProofs` | `OperatorKeepsTheOrder` | `[]StagesInOrder` beside `pack --save-state` | |
| | `OperatorLeavesItCancellable` | `[]Cancellable` beside it | |
| | `OperatorKeepsRestarts` | `[]RestartCarriesOn` beside it | |
| | `OperatorKeepsThePromise` | `KeepsPromise` beside it | |
| | `ArchivesDoNotPileUp` | `[]DiskBounded` | |
| | `ArchiveTypes` | `[]ArchTypeOK` | |
| | `RowsKeepTheirArchive` | `[]RowArchiveUsable` | |
| | `DryRunIsRightAboutTheNextTick` | `DryRunForetells` | any zone |
| `DownloadProofs` | `DownloadTypes` | `[]TypeOK` of Download | |
| | `DeadLinksStayDead` | `DeadForGood` | |
| | `DownloadsAreCounted` | `[]EveryDownloadIsCounted` | |
| | `LimitIsNearlyKept` | `[]OvershootBounded` | |
| | `LinksAreAccountedFor` | `[]ExtraLinksAreFaults` | |
| `CalendarProofs` | `OneCheckinAMonth` | `[]OneCheckinPerMonth` | offsets are numbers |
| | `DryRunAgrees` | `[]DryRunIsRight` | any zone |
| | `DelaysLandOnTheirDay` | `[]DelayLandsOnItsDay` | `DaysFollow` |
| | `MonthsAreServed` | `[]EveryMonthServed` | `DaysFollow`, `SendTimesPass` |
| | `RemindersAreCounted` | `[]RemindersAreSendTimesPassed` | `DaysFollow`, `OffsetsAreClose` |
| | `CalendarOfSteadyZone` | the last three | only that the offset never changes |
| `ConfigProofs` | `AcceptedFitsTargetFlow`, `AcceptedFitsScheduler`, `AcceptedFitsDownload` | what `Load` accepts is what the other modules assume | |
| | `DefaultsAreAccepted` | `Validate` accepts the defaults | |
| | `TextsAreThere` | a template set for everybody, complete texts for the owner and for `zh` | |

"No overlap" is `Overlap = FALSE`; "no crash" and the like are the kinds that
`FaultKinds` does not contain. The exclusions are what section 3 finds to break the
property: `lost_confirmation` the overlap of `ConfirmationsStick`, `crash_repacks` the
crash of `PasswordsOpenArchives`, `crash_skips` that of
`EachRoundGoesThroughAllStages`, and the disagreements without a run the overlap of
`ExpiredForGood` and the crash of `NobodyHasAStageTwice`. Everything not excluded may
happen any number of times.

`TargetFlowProofs` holds the lemmas about the calendar's functions that the
scheduler's and the calendar's proofs share.

**The scheduler, whatever overlaps and fails.** The first five theorems, and
`EarlierDatabasesAreSafe`, hold with any number of beneficiaries, overlaps, crashes
and failures. Their argument is the invariant `SafeInv`. None of the
properties is inductive: what the database says may at any moment be overwritten by
the row a tick has held since long before. `SafeInv` therefore asks of *both* rows,
`db` and `tst`, that they are sane on their own (`RowSane`): a pending token has a
button, a phase past the check-in has a token and a check-in time, PASSWORD_SENT has
an archive, and a phase is reached only when everybody has had the stages before it.
What messages reached their recipients only grows, so a row stays sane however old
it is, and it does not matter which of the two is written last. The row a
confirmation writes (`cst`) is harmless by itself: ALIVE and without a token.
`Progress` says how far the tick is in its stage: unless a failure is remembered,
every recipient before `ti` has had his message, which is what lets the phase
advance. Type correctness needs `TypeInv`, which adds that a tick at its messages
is in a phase that has a stage.

Confirmations use `TurnInv`: tokens are numbered as they are made, so that a
new one differs from all accepted ones, and while a confirmation runs no tick holds a
row. `TurnKept` is the step all of the others share. Without `Overlap = FALSE` the
claim is false, and `lost_confirmation` shows it.

**Rounds.** What the properties say of a round has to be said of the row that carries
its token, and there are two such rows. `RoundInv` holds whatever happens: no message
is of a later round than a row's (`Latest`) or ahead of the phase of the row that has
its token (`NoneAhead`), and while a tick sends, the database has that tick's round in
that tick's phase, or a row without a token. On top of it,

* `ArchiveInv`: the password messages of a row's round are for the row's archive. The
  tick's row counts as soon as it has packed, the database's before; a tick that ends
  without its `Save` would leave the two apart, which is why crashes and aborts are
  excluded and overlapping confirmations, lost answers and database errors are not.
* `FlowInv`: table `deliveries` speaks of the round of the row and of no other
  (`Recorded`): empty before a round triggers, and complete for each stage the phase
  has left behind. It is suspended while a confirmation or the boot is between its save
  and `ClearDeliveries`; a crash or a database error right there is what breaks it.
* `OnceInv`: a message of the row's round is in `deliveries` or about to be recorded
  there, so the check that precedes a send sees it.
* `DelayInv`: a row that waits for a stage is stamped no earlier than the last message
  of the stage before; a tick works with the time it began at, which its sends can only
  be later than. A retry can only prolong the wait, never shorten it. What is
  left is that a later stamp is due no earlier (`KeepsOrder`). For delays in hours this is
  arithmetic; for days it is `DayDelaysKeepOrder`.

From the row of an earlier version the invariants do not hold at once: such a row may be
in any phase without a token or an archive. `LegacyStart` describes the wait
for the boot, in which nothing has been sent and every property holds, and
`LegacyLoads` that the boot's decision resets the row or finds one that is sane
already, from which each of the invariants holds. `DelaysHonoured` is not claimed there: an
old row may be in WARNED and have no time of it, and its next mails leave at once.

**The queue.** Presses, polling and refused updates are stutters of `Scheduler`, the
handler's steps are those of its `Confirm`; hence the refinement, and what is proved of
`Scheduler` holds behind the queue. That no press is lost is not inductive either:
`PollInv` says that everything up to the cursor, or up to what Telegram has forgotten,
was answered but for the one press under way, and that what was fetched follows without
a gap, which is why turning to the least of it skips nothing. `ExpiredInv` adds that an
expired button's token is in neither row, so that no later save can bring it back, and
that new tokens are larger than any in the queue.

**A third writer.** `ArchInv` asks of the operator's row what `SafeInv` asks of the
tick's. `SanityLasts` is the point: a row that is sane stays so whoever keeps a copy
of it, for how long, because buttons and mails are never taken back. Setting the
archive of a sane row leaves it sane, so a fourth or fifth writer would do as little
harm to these properties. `DiskBounded` rests on `CleanupLeavesFew` (counting the names
newer than the least one kept) and on counting each file that is not an archive
against the crash, the failure or the manual packing that left it.

**The row's archive.** `RowArchiveUsable` excuses an archive whose file was written again
in its second or outlived by `keep_archives` newer ones. `FilesInv` calls an archive
sound when it can be opened or is excused, and asks that *each of the four rows*
(`db`, `tst`, `cst`, `ost`) refers to a sound one, since each may be saved over the
others. Soundness never ends (`SoundLasts`): a step that takes a file away either writes
its name again or cleans up, and what `CleanupOld` removes has `keep_archives` newer
names (`CleanupOutlives`). A new archive is sound when it is finished
(`ProgramFiles`, `BuiltIsSound`), even where the clean-up that follows the packing
removes the very file, because the tick's name is older than the operator's.

**The calendar.** What a zone may do is the question here. `OneCheckinAMonth` and
`DryRunAgrees` need nothing of it: a month's check-in time is the same instant whenever it
is asked for (`CheckinOf`), and the two copies of the delay arithmetic agree on each zone.
The others ask for one or more of these, and each names the least it needs:

* `DaysFollow`: the local date never goes back, a wall clock time is found on its own
  day, and later days have later send times. A zone that repeats or skips midnight
  fails it.
* `SendTimesPass`: a clock past the send time implies that the day's send time has passed.
  A zone that repeats the hour of the send time may fail it, where `time.Date` may answer
  with the second of the two instants.
* `OffsetsAreClose`: an offset never moves by two days.

No document of Go's `time` package promises these, so they are not assumptions of the
modules; they are hypotheses of the theorems that need them. They are not empty: every
zone that keeps its offset has all three (`SteadyZoneFollows`, `SteadyZonePasses`, and
so `CalendarOfSteadyZone`), and TLC evaluates them for the two zones with transitions of
the calendar runs, over the stretch the clock walks (`ZoneAssumption` of
`MCTargetFlow`). `CalendarInv` carries that the last check-in was sent no
earlier than the check-in time of any month that has had one, and that a tick past
a month's check-in time leaves none to send. The reminders are counted by following the loop: the
days that count are a beginning of all days, because later days have later send times
(`RemindersAreCounted`), and the bound the model puts on the loop is beyond the last of
them, which is where `OffsetsAreClose` comes in.

**Downloads.** `Counts` adds to the equation of served and counted downloads the
handlers that have counted and not yet served; `Within` adds to those served the
handlers that may still pass on the row they read, of which there are at most as many
as handlers. Both are sums over a set of handlers that gains or loses one member in a
step, by the library's facts on finite sets. `HeldInv` counts the links in mailboxes
against the beneficiaries whose delivery is recorded, or about to be (`Settled`), and
the faults: only a fault leaves a mailed link's holder unsettled, to be mailed another.

**The configuration.** `Sections` and `Checked` split `Load` and `Validate` by section;
the rest is that a default is accepted wherever a value may be missing, and that a
number of days is positive though its length in nanoseconds may have wrapped around.

What stays with TLC:

* liveness: `EventuallyDisclosed`, `PressEndsTheRound` and `PressingAgainEndsTheRound`
  need fairness and ENABLED, which the prover cannot reason about;
* that the assumptions of section 3's findings are needed: the counterexamples;
* that zones *with* transitions do what the theorems ask: `ZoneAssumption` evaluates it
  for two of them over the stretch of the calendar runs, and no theorem says which do;
* `DelaysHonoured` and the order of delays from rows of earlier versions, as said above,
  are claimed by no run and no theorem.

## 5. What is not modelled

* What Telegram does with updates nobody asks for in 24 hours (it drops them), and the
  order in which it numbers them: `updates` is kept for ever and in order. The HTTP
  client and its 65 seconds' timeout are `PollFails`.
* What is in a zip file, the drawing of passwords, and disk errors of `CleanupOld`,
  which the program ignores and `ifgonectl` stops at.
* The password's form in the row, plain or encrypted: path and password are one
  archive value. Two hazards of `PROJECT.json` concern it (a failing encryption, and
  encryption switched off between two starts).
* Changes of the configuration between two starts: it is constant in every run.
* Reading YAML, byte sizes such as "20MB", `${ENV}` and the checks of paths; what makes
  a text an address, a URL or a zone is a constant of `Config`.
* Several beneficiaries behind one address: recipients are addresses, the key of
  table `deliveries`.
* Zones that skip midnight: for a wall clock that does not exist, `FromLocal` is what
  `time.Date` computes, but the calendar of the runs has its transitions elsewhere.
* `ifgonectl status` and `test-email`: they print the row, or send one mail.
* S3 downloads, the health check, templates, MIME and the cryptography of secretbox:
  they keep no state the switch decides on. The health check's loop is independent of
  the tick loop, so there is no property of the two together to state beyond the
  hazard that it goes on while the tick loop hangs.
* The audit table and the log; sub-second time, which the database does not keep.

## 6. Plan

Done: StateStore, TargetFlow with Calendar, Scheduler with Disclosure, Polling,
Archives, Download and Config, their runs, and the proofs of section 4. What would
add most next, in this order:

1. **Rounds**: an abstract specification of rounds (check-in, confirmed or disclosed,
   never both) that `Scheduler` implements when ticks and confirmations take turns,
   with the step-by-step refinement proved from `TurnInv` and `FlowInv`.
2. **Beside the operator**: which of the properties of rounds survive `pack
   --save-state`, and at which of its steps; today only those of `SafeInv` are
   proved there.
3. **Archives and Download together**: the link's file is the row's archive, under
   `keep_archives` and repeated rounds.
4. **The password's form**: plain or encrypted in the row, across restarts that switch
   `encrypt_password_field` or change the passphrase.
