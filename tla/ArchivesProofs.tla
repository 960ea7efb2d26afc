--------------------------- MODULE ArchivesProofs ---------------------------
(***************************************************************************)
(* What the proofs about Scheduler say of the program beside a third       *)
(* writer of the row: "ifgonectl pack --save-state" may write back, at any *)
(* time, a row it read long ago.  Such a row is old but sane, and sane     *)
(* stays sane: buttons and mails are never taken back.                     *)
(***************************************************************************)
EXTENDS Archives, SchedulerProofs

ArchInv ==
  /\ SafeInv
  /\ ost \in Row /\ RowSane(ost)
  /\ oarc \in Maybe(Archive) /\ (opc # "idle" => oarc # nil)

(* A row that is sane stays so, whoever keeps a copy of it.                *)
LEMMA SanityLasts ==
  ASSUME SafeInv, [Next]_vars, NEW st, RowSane(st)
  PROVE  RowSane(st)'
<1>1. \A x \in Recipient \X Stages : mail[x] # nil => mail'[x] # nil
  <2>1. CASE mail' = mail
    BY <2>1
  <2>2. CASE mail' # mail
    <3>1. TypeInv /\ Working /\ Arrives
      BY <2>2, OnlySendsReachAnyone DEF SafeInv, Working
    <3> QED
      BY <3>1, MailGrows
  <2> QED
    BY <2>1, <2>2
<1>2. buttons \subseteq buttons'
  BY DEF Next, TickStep, BeginStep, AliveStep, DeliverStep, ConfirmStep,
         BootStep, TickAlive, TickStage, TickFileSent, TickNothing, BeginTick,
         SendCheckin, SendCheckinFails, SendReminder, SendReminderFails,
         AlreadyReminded, EnterPendingTrigger, NothingDue, ReachesChat,
         DeliverSkips, DeliverSends, DeliverFails, DeliverLosesAck, Arrives,
         RecordDelivery, RecordDeliveryFails, Pack, PackFails, TickSave,
         TickAborts, ConfirmLoad, ConfirmSave, ConfirmSaveWithoutArchive,
         ConfirmClearDeliveries, ConfirmFails, BootKeeps, BootResets,
         BootClearsDeliveries, Crash, Clock, vars, worldVars
<1>3. (Warned => Warned') /\ (Unlocked => Unlocked')
  BY <1>1 DEF Warned, Unlocked, Stages
<1> QED
  BY <1>2, <1>3 DEF RowSane

(* Every step but the operator's is one of Scheduler.                      *)
LEMMA ArchNextIsNext ==
  [ArchNext]_archVars =>
    OperatorStep \/ ([Next]_vars /\ UNCHANGED operatorVars)
BY DEF ArchNext, PackOnDisk, PackFailsOnDisk, CrashOnDisk, OffDisk, archVars,
       Next, TickStep, DeliverStep

(* The operator's steps change the number of archives, or the row.         *)
LEMMA OperatorKeeps ==
  ASSUME ArchInv, OperatorStep
  PROVE  ArchInv'
<1>0. /\ SafeInv /\ TypeInv /\ TypeOK /\ AlivePhase /\ RowSane(ost) /\ ost \in Row
      /\ cst.phase = "ALIVE" /\ cst.pendingToken = nil
      /\ InitialRow \in Row /\ RowSane(InitialRow)
      /\ packs + 1 \in Archive /\ nil \notin Archive /\ db \in Row
      /\ nil \in Maybe(Archive)
  BY StateStoreAssumption
     DEF ArchInv, SafeInv, TypeInv, TypeOK, InitialRow, Row, RowSane, Phases,
         Maybe, Archive, Instant
<1>1. CASE OperatorOpens
  <2>1. /\ packs' = packs + 1 /\ oarc' = packs + 1
        /\ UNCHANGED <<SchedulerButPacks, db, ost>>
    BY <1>1 DEF OperatorOpens
  <2>2. TypeInv'
    BY <1>0, <2>1
       DEF TypeInv, TypeOK, SchedulerButPacks, tickVars, confVars, Working
  <2>3. SafeInv'
    BY <1>0, <2>1, <2>2, OtherSafe
       DEF SchedulerButPacks, tickVars, confVars, AlivePhase
  <2>4. RowSane(ost)'
    BY <1>0, <2>1 DEF SchedulerButPacks, RowSane, Warned, Unlocked
  <2> QED
    BY <1>0, <2>1, <2>3, <2>4 DEF ArchInv, Maybe
<1>2. CASE OperatorSaves
  <2> DEFINE row == [ost EXCEPT !.archive = oarc]
  <2>1. /\ db' = row /\ OperatorIdle /\ UNCHANGED <<SchedulerButPacks, packs>>
        /\ oarc \in Maybe(Archive) /\ oarc # nil
    BY <1>2 DEF OperatorSaves, ArchInv
  <2>2. row \in Row /\ RowSane(row)
    BY <1>0, <2>1 DEF Row, RowSane
  <2>3. TypeInv'
    BY <1>0, <2>1, <2>2
       DEF TypeInv, TypeOK, SchedulerButPacks, tickVars, confVars, Working
  <2>4. SafeInv'
    BY <1>0, <2>1, <2>2, <2>3, OtherSafe
       DEF SchedulerButPacks, tickVars, confVars, AlivePhase
  <2>5. RowSane(ost)'
    BY <1>0, <2>1
       DEF OperatorIdle, SchedulerButPacks, RowSane, Warned, Unlocked
  <2> QED
    BY <1>0, <2>1, <2>4, <2>5 DEF ArchInv, OperatorIdle
<1>3. CASE OperatorBuilds \/ OperatorLoads \/ OperatorStops
  <2>1. /\ UNCHANGED vars
        /\ (UNCHANGED oarc /\ oarc # nil) \/ OperatorIdle
        /\ ost' \in {ost, db, InitialRow}
    BY <1>3 DEF OperatorBuilds, OperatorLoads, OperatorStops, OperatorIdle,
                ArchInv
  <2>2. SafeInv'
    BY <1>0, <2>1, SafeNext
  <2>3. \A st \in {ost, db, InitialRow} : RowSane(st)'
    BY <1>0, <2>1, SanityLasts DEF SafeInv
  <2> QED
    BY <1>0, <2>1, <2>2, <2>3 DEF ArchInv, OperatorIdle
<1> QED
  BY <1>1, <1>2, <1>3 DEF OperatorStep

LEMMA AlwaysArchInv == ArchSpec => []ArchInv
<1>1. ArchInit => ArchInv
  <2> SUFFICES ASSUME ArchInit PROVE ArchInv
    OBVIOUS
  <2>1. SafeInv
    BY SafeInit DEF ArchInit
  <2>2. InitialRow \in Row /\ RowSane(InitialRow) /\ nil \in Maybe(Archive)
    BY DEF InitialRow, Row, RowSane, Phases, Maybe, Instant
  <2> QED
    BY <2>1, <2>2 DEF ArchInit, ArchInv
<1>2. ArchInv /\ [ArchNext]_archVars => ArchInv'
  <2> SUFFICES ASSUME ArchInv, [Next]_vars, UNCHANGED operatorVars
               PROVE  ArchInv'
    BY ArchNextIsNext, OperatorKeeps
  <2>1. SafeInv'
    BY SafeNext DEF ArchInv
  <2>2. RowSane(ost)'
    <3>1. RowSane(ost)
      BY DEF ArchInv
    <3>2. ost' = ost
      BY DEF operatorVars
    <3> QED
      BY <3>1, <3>2, SanityLasts DEF ArchInv
  <2> QED
    BY <2>1, <2>2 DEF ArchInv, operatorVars
<1> QED
  BY <1>1, <1>2, PTL DEF ArchSpec

(* Beside an operator who packs with --save-state, at any moment and any   *)
(* number of times, the stages still go out in order (tickPendingTrigger,  *)
(* tickWarned, tickPasswordSent, and runPack of ifgonectl), ...            *)
THEOREM OperatorKeepsTheOrder == ArchSpec => []StagesInOrder
BY SafeStagesInOrder, AlwaysArchInv, PTL DEF ArchInv

(* ... the owner holds a button for every round that is on its way and for *)
(* every token the database waits for, ...                                 *)
THEOREM OperatorLeavesItCancellable == ArchSpec => []Cancellable
BY SafeCancellable, AlwaysArchInv, PTL DEF ArchInv

(* ... and no restart takes the row for a leftover of the old flow         *)
(* (NormalizeForTargetFlow).                                               *)
THEOREM OperatorKeepsRestarts == ArchSpec => []RestartCarriesOn
BY SafeRestart, AlwaysArchInv, PTL DEF ArchInv

(* What is promised of who learns what holds beside the operator, too.     *)
THEOREM OperatorKeepsThePromise == ArchSpec => KeepsPromise
<1>1. ArchInit => Promise!Init
  BY PromiseInit DEF ArchInit
<1>2. ArchInv /\ [ArchNext]_archVars
      => [Promise!Next]_([s \in Stages |-> Had(s)])
  <2>1. OperatorStep => UNCHANGED mail
    BY DEF OperatorStep, OperatorOpens, OperatorBuilds, OperatorLoads,
           OperatorSaves, OperatorStops, SchedulerButPacks, vars, worldVars
  <2>2. UNCHANGED mail => UNCHANGED [s \in Stages |-> Had(s)]
    BY DEF Had
  <2> QED
    BY <2>1, <2>2, ArchNextIsNext, EachStepKeepsPromise DEF ArchInv
<1> QED
  BY <1>1, <1>2, AlwaysArchInv, PTL DEF ArchSpec, KeepsPromise, Promise!Spec

-----------------------------------------------------------------------------
(* The archives on disk.                                                   *)

LEMMA NaturalsHaveALeast ==
  ASSUME NEW S, S \subseteq Nat, S # {}
  PROVE  \E least \in S : \A n \in S : least <= n
<1> DEFINE R == OpToRel(<, Nat)
<1>1. PICK least \in S : \A n \in S : ~ (<<n, least>> \in R)
  <2>1. IsWellFoundedOn(R, Nat)
    BY NatLessThanWellFounded
  <2> HIDE DEF R
  <2> QED
    BY <2>1, WFMin
<1>2. \A n \in S : ~ (n < least)
  BY <1>1 DEF OpToRel
<1> QED
  BY <1>2

(* CleanupOld leaves at most keep_archives files.                          *)
LEMMA CleanupLeavesFew ==
  ASSUME NEW d, IsFiniteSet(DOMAIN d), DOMAIN d \subseteq Nat
  PROVE  /\ DOMAIN CleanupOld(d) \subseteq DOMAIN d
         /\ IsFiniteSet(DOMAIN CleanupOld(d))
         /\ Cardinality(DOMAIN CleanupOld(d)) <= Keep
<1> DEFINE Newer(n) == {m \in DOMAIN d : m > n}
           S == {n \in DOMAIN d : Cardinality(Newer(n)) < Keep}
<1>1. DOMAIN CleanupOld(d) = S
  BY DEF CleanupOld, Restrict
<1>2. S \subseteq DOMAIN d /\ IsFiniteSet(S) /\ Cardinality(S) \in Nat
  BY FS_Subset, FS_CardinalityType
<1>3. Keep \in Nat \ {0}
  BY ArchivesAssumption DEF Keep
<1>4. Cardinality(S) <= Keep
  <2>1. CASE S = {}
    <3> HIDE DEF S
    <3>1. Cardinality(S) = 0
      BY <2>1, FS_EmptySet
    <3> QED
      BY <1>3, <3>1
  <2>2. CASE S # {}
    <3>1. PICK least \in S : \A n \in S : least <= n
      BY <1>2, <2>2, NaturalsHaveALeast
    <3>2. S \ {least} \subseteq Newer(least)
      BY <1>2, <3>1
    <3>3. IsFiniteSet(Newer(least)) /\ Cardinality(Newer(least)) \in Nat
      BY FS_Subset, FS_CardinalityType
    <3>4. Cardinality(S \ {least}) <= Cardinality(Newer(least))
      BY <3>2, <3>3, FS_Subset
    <3>5. Cardinality(S \ {least}) = Cardinality(S) - 1
      BY <1>2, <3>1, FS_RemoveElement
    <3>6. Cardinality(Newer(least)) < Keep
      BY <3>1
    <3> QED
      BY <1>2, <1>3, <3>3, <3>4, <3>5, <3>6
  <2> QED
    BY <2>1, <2>2
<1> QED
  BY <1>1, <1>2, <1>4

DiskInv ==
  /\ DOMAIN disk \subseteq Name /\ IsFiniteSet(DOMAIN disk)
  /\ manual \in Nat
  /\ DiskBounded

Whole(d) == {n \in DOMAIN d : d[n] # Half}

(* Files come and go in four ways.                                         *)
LEMMA FilesKept ==
  ASSUME NEW d, NEW n \in Nat, NEW m \in Nat,
         DOMAIN disk \subseteq Name, IsFiniteSet(DOMAIN disk),
         Cardinality(Whole(disk)) <= Keep,
         Cardinality(DOMAIN disk) <= Keep + n,
         n <= m,
         \/ d = disk
         \/ \E name \in Name : \E c : d = CleanupOld(Put(disk, name, c))
         \/ \E name : d = Remove(disk, name)
         \/ n < m /\ \E name \in Name : d = Put(disk, name, Half)
  PROVE  /\ DOMAIN d \subseteq Name /\ IsFiniteSet(DOMAIN d)
         /\ Cardinality(Whole(d)) <= Keep
         /\ Cardinality(DOMAIN d) <= Keep + m
<1>0. Keep \in Nat \ {0} /\ Cardinality(DOMAIN disk) \in Nat
  BY ArchivesAssumption, FS_CardinalityType DEF Keep
<1>1. \A S : S \subseteq Whole(disk) =>
        IsFiniteSet(S) /\ Cardinality(S) \in Nat /\ Cardinality(S) <= Keep
  <2>1. IsFiniteSet(Whole(disk)) /\ Cardinality(Whole(disk)) \in Nat
    BY FS_Subset, FS_CardinalityType DEF Whole
  <2> SUFFICES ASSUME NEW S, S \subseteq Whole(disk)
               PROVE  IsFiniteSet(S) /\ Cardinality(S) \in Nat /\ Cardinality(S) <= Keep
    OBVIOUS
  <2>2. IsFiniteSet(S) /\ Cardinality(S) <= Cardinality(Whole(disk))
    BY <2>1, FS_Subset
  <2>3. Cardinality(S) \in Nat
    BY <2>2, FS_CardinalityType
  <2> QED
    BY <1>0, <2>1, <2>2, <2>3
<1>2. CASE d = disk
  BY <1>0, <1>2
<1>3. ASSUME NEW name \in Name, NEW c, d = CleanupOld(Put(disk, name, c))
      PROVE  /\ DOMAIN d \subseteq Name /\ IsFiniteSet(DOMAIN d)
             /\ Cardinality(Whole(d)) <= Keep
             /\ Cardinality(DOMAIN d) <= Keep + m
  <2> DEFINE before == Put(disk, name, c)
  <2>1. DOMAIN before = DOMAIN disk \cup {name}
    BY DEF Put
  <2>2. IsFiniteSet(DOMAIN before) /\ DOMAIN before \subseteq Nat
    BY <2>1, FS_AddElement DEF Name, Instant
  <2>3. /\ DOMAIN d \subseteq Nat /\ IsFiniteSet(DOMAIN d)
        /\ Cardinality(DOMAIN d) <= Keep
    BY <1>3, <2>2, CleanupLeavesFew
  <2>4. Cardinality(DOMAIN d) \in Nat /\ Whole(d) \subseteq DOMAIN d
    BY <2>3, FS_CardinalityType DEF Whole
  <2>5. Cardinality(Whole(d)) <= Cardinality(DOMAIN d) /\ Cardinality(Whole(d)) \in Nat
    BY <2>3, <2>4, FS_Subset, FS_CardinalityType
  <2> QED
    BY <1>0, <2>3, <2>4, <2>5 DEF Name, Instant
<1>4. ASSUME NEW name, d = Remove(disk, name)
      PROVE  /\ DOMAIN d \subseteq Name /\ IsFiniteSet(DOMAIN d)
             /\ Cardinality(Whole(d)) <= Keep
             /\ Cardinality(DOMAIN d) <= Keep + m
  <2>1. DOMAIN d = DOMAIN disk \ {name} /\ Whole(d) \subseteq Whole(disk)
    BY <1>4 DEF Remove, Restrict, Whole
  <2>2. IsFiniteSet(DOMAIN d) /\ Cardinality(DOMAIN d) <= Cardinality(DOMAIN disk)
    BY <2>1, FS_Subset
  <2>3. Cardinality(DOMAIN d) \in Nat
    BY <2>2, FS_CardinalityType
  <2> QED
    BY <1>0, <1>1, <2>1, <2>2, <2>3
<1>5. ASSUME n < m, NEW name \in Name, d = Put(disk, name, Half)
      PROVE  /\ DOMAIN d \subseteq Name /\ IsFiniteSet(DOMAIN d)
             /\ Cardinality(Whole(d)) <= Keep
             /\ Cardinality(DOMAIN d) <= Keep + m
  <2>1. DOMAIN d = DOMAIN disk \cup {name} /\ Whole(d) \subseteq Whole(disk)
    BY <1>5 DEF Put, Whole
  <2>2. /\ IsFiniteSet(DOMAIN d)
        /\ Cardinality(DOMAIN d) \in
             {Cardinality(DOMAIN disk), Cardinality(DOMAIN disk) + 1}
    BY <2>1, FS_AddElement
  <2> QED
    BY <1>0, <1>1, <1>5, <2>1, <2>2
<1> QED
  BY <1>2, <1>3, <1>4, <1>5

LEMMA FaultsAreCounted ==
  [Next]_vars => faults' \in {faults, faults + 1}
BY DEF Next, TickStep, BeginStep, AliveStep, DeliverStep, ConfirmStep, BootStep,
       TickAlive, TickStage, TickFileSent, TickNothing, BeginTick, SendCheckin,
       SendCheckinFails, SendReminder, SendReminderFails, AlreadyReminded,
       EnterPendingTrigger, NothingDue, DeliverSkips, DeliverSends,
       DeliverFails, DeliverLosesAck, RecordDelivery, RecordDeliveryFails, Pack,
       PackFails, TickSave, TickAborts, ConfirmLoad, ConfirmSave,
       ConfirmSaveWithoutArchive, ConfirmClearDeliveries, ConfirmFails,
       BootKeeps, BootResets, BootClearsDeliveries, Crash, Clock, vars,
       SendFails, Fault

(* What a step does to the files.                                          *)
LEMMA FilesOfAStep ==
  ASSUME TypeOK, DiskInv, [ArchNext]_archVars
  PROVE  /\ faults' \in Nat /\ manual' \in Nat
         /\ faults + manual <= faults' + manual'
         /\ \/ disk' = disk
            \/ \E name \in Name : \E c : disk' = CleanupOld(Put(disk, name, c))
            \/ \E name : disk' = Remove(disk, name)
            \/ /\ faults + manual < faults' + manual'
               /\ \E name \in Name : disk' = Put(disk, name, Half)
<1>0. /\ now \in Name /\ tnow \in Name /\ faults \in Nat /\ manual \in Nat
      /\ DOMAIN disk \subseteq Name
  BY DEF TypeOK, DiskInv, Name
<1>1. CASE [Next]_vars /\ UNCHANGED operatorVars /\ UNCHANGED disk
  BY <1>0, <1>1, FaultsAreCounted DEF operatorVars
<1>2. CASE PackOnDisk \/ PackFailsOnDisk
  <2>1. UNCHANGED manual /\ faults' \in {faults, faults + 1}
    BY <1>2 DEF PackOnDisk, PackFailsOnDisk, Pack, PackFails, SendFails, Fault,
                operatorVars
  <2>2. \/ disk' = disk \/ disk' = Remove(disk, tnow)
        \/ disk' = CleanupOld(Put(disk, tnow, packs + 1))
    BY <1>2 DEF PackOnDisk, PackFailsOnDisk, Build, BuildStops, diskVars
  <2>3. /\ faults' \in Nat /\ manual' \in Nat
        /\ faults + manual <= faults' + manual'
    <3>1. faults \in Nat /\ manual \in Nat /\ manual' = manual
      BY <1>0, <2>1
    <3>2. faults' = faults \/ faults' = faults + 1
      BY <2>1
    <3> QED
      BY <3>1, <3>2
  <2>4. \/ disk' = disk \/ \E name : disk' = Remove(disk, name)
        \/ \E name \in Name : \E c : disk' = CleanupOld(Put(disk, name, c))
    BY <1>0, <2>2, Zenon
  <2> QED
    BY <2>3, <2>4
<1>3. CASE CrashOnDisk
  <2>1. UNCHANGED manual /\ faults' = faults + 1
    BY <1>3 DEF CrashOnDisk, Crash, Fault, operatorVars
  <2>2. disk' = disk \/ disk' = Put(disk, tnow, Half)
    BY <1>3 DEF CrashOnDisk, BuildStops, diskVars
  <2> QED
    BY <1>0, <2>1, <2>2
<1>4. CASE OperatorOpens
  BY <1>0, <1>4 DEF OperatorOpens, SchedulerButPacks
<1>5. CASE OperatorBuilds
  <2>1. UNCHANGED <<faults, manual>>
    BY <1>5 DEF OperatorBuilds, vars
  <2>2. disk' = disk \/ \E name \in Name : \E c : disk' = CleanupOld(Put(disk, name, c))
    BY <1>0, <1>5 DEF OperatorBuilds
  <2> QED
    BY <1>0, <2>1, <2>2
<1>6. CASE OperatorLoads \/ OperatorSaves \/ OperatorStops
  BY <1>0, <1>6 DEF OperatorLoads, OperatorSaves, OperatorStops, vars, diskVars,
                    SchedulerButPacks
<1>7. \/ PackOnDisk \/ PackFailsOnDisk \/ CrashOnDisk \/ OperatorStep
      \/ [Next]_vars /\ UNCHANGED operatorVars /\ UNCHANGED disk
  BY DEF ArchNext, OffDisk, archVars, diskVars, Next
<1> QED
  BY <1>1, <1>2, <1>3, <1>4, <1>5, <1>6, <1>7 DEF OperatorStep

(* However often packing fails, crashes or is done by hand, CleanupOld     *)
(* keeps what can be opened to keep_archives files, and what broke off     *)
(* adds one file each.                                                     *)
THEOREM ArchivesDoNotPileUp == ArchSpec => []DiskBounded
<1>1. ArchInit => DiskInv
  <2> SUFFICES ASSUME ArchInit PROVE DiskInv
    OBVIOUS
  <2>1. DOMAIN disk = {} /\ faults = 0 /\ manual = 0
    BY DEF ArchInit, NoFiles, Init
  <2>2. {n \in DOMAIN disk : disk[n] # Half} = {}
    BY <2>1
  <2>3. Keep \in Nat
    BY ArchivesAssumption DEF Keep
  <2> QED
    BY <2>1, <2>2, <2>3, FS_EmptySet DEF DiskInv, DiskBounded
<1>2. TypeOK /\ DiskInv /\ [ArchNext]_archVars => DiskInv'
  <2> SUFFICES ASSUME TypeOK, DiskInv, [ArchNext]_archVars PROVE DiskInv'
    OBVIOUS
  <2> DEFINE n == faults + manual  m == faults' + manual'
  <2>1. /\ n \in Nat /\ m \in Nat /\ n <= m /\ manual' \in Nat /\ Keep \in Nat
        /\ faults \in Nat /\ manual \in Nat /\ faults' \in Nat
    BY FilesOfAStep, ArchivesAssumption DEF TypeOK, DiskInv, Keep
  <2>2. /\ DOMAIN disk \subseteq Name /\ IsFiniteSet(DOMAIN disk)
        /\ Cardinality(Whole(disk)) <= Keep
        /\ Cardinality(DOMAIN disk) <= Keep + n
    BY <2>1 DEF DiskInv, DiskBounded, Whole
  <2>3. /\ DOMAIN disk' \subseteq Name /\ IsFiniteSet(DOMAIN disk')
        /\ Cardinality(Whole(disk')) <= Keep
        /\ Cardinality(DOMAIN disk') <= Keep + m
    BY <2>1, <2>2, FilesOfAStep, FilesKept
  <2> QED
    BY <2>1, <2>3 DEF DiskInv, DiskBounded, Whole
<1>3. ArchInv => TypeOK
  BY DEF ArchInv, SafeInv, TypeInv
<1>4. DiskInv => DiskBounded
  BY DEF DiskInv
<1> QED
  BY <1>1, <1>2, <1>3, <1>4, AlwaysArchInv, PTL DEF ArchSpec

-----------------------------------------------------------------------------
(* Dry-run.                                                                *)

(* The calendar of ifgonectl is the scheduler's: what it announces for an  *)
(* instant and what is due then are the same, in every zone (dueAt,        *)
(* nextStageTime).                                                         *)
LEMMA AnnouncedIsDue ==
  ASSUME TypeOK, NEW t \in Maybe(Instant), NEW delay
  PROVE  dueText(t, delay) = now <=> stageDue(t, delay, now)
<1>1. dueAt(t, delay) = nextStageTime(t, delay)
  BY DEF dueAt, nextStageTime, addLocalDaysAtTime, localDateTime
<1>2. now \in Nat
  BY DEF TypeOK, Instant
<1> QED
  BY <1>1, <1>2 DEF dueText, stageDue

(* What "ifgonectl dry-run" announces for this instant is what the next    *)
(* tick does, though the command computes it with code of its own          *)
(* (describeNextAction, tickWarned, tickPasswordSent): in every zone, for  *)
(* every row the program or the operator may have written.                 *)
THEOREM DryRunIsRightAboutTheNextTick == ArchSpec => DryRunForetells
<1> DEFINE Foretold == (tpc = "idle" /\ tpc' \notin {"idle", "boot"}) =>
                         (tpc' = "deliver" <=> describeNextAction(db) = now)
<1>1. ArchInv /\ [ArchNext]_archVars => [Foretold]_archVars
  <2> SUFFICES ASSUME ArchInv, [ArchNext]_archVars,
                      tpc = "idle", tpc' \notin {"idle", "boot"}
               PROVE  tpc' = "deliver" <=> describeNextAction(db) = now
    OBVIOUS
  <2>1. /\ TypeOK /\ now \in Nat /\ nil \notin Nat
        /\ db.warnedAt \in Maybe(Instant) /\ db.passwordSentAt \in Maybe(Instant)
    BY StateStoreAssumption DEF ArchInv, SafeInv, TypeInv, TypeOK, Instant, Row
  <2>2. TickAlive \/ TickStage \/ TickFileSent
    <3>1. ~OperatorStep
      BY DEF OperatorStep, OperatorOpens, OperatorBuilds, OperatorLoads,
             OperatorSaves, OperatorStops, SchedulerButPacks, vars, tickVars
    <3>2. [Next]_vars
      BY <3>1, ArchNextIsNext
    <3> QED
      BY <3>2
         DEF Next, TickStep, BeginStep, AliveStep, DeliverStep, ConfirmStep,
             BootStep, TickNothing, SendCheckin, SendCheckinFails, CheckinDue,
             SendReminder, SendReminderFails, ReminderDue, AlreadyReminded,
             EnterPendingTrigger, NothingDue, DeliverSkips, DeliverSends,
             DeliverFails, DeliverLosesAck, RecordDelivery,
             RecordDeliveryFails, Pack, PackFails, TickSave, TickAborts,
             ConfirmLoad, ConfirmSave, ConfirmSaveWithoutArchive,
             ConfirmClearDeliveries, ConfirmFails, BootKeeps, BootResets,
             BootClearsDeliveries, Crash, Clock, vars, tickVars, EndTick
  <2>3. CASE TickAlive \/ TickFileSent
    BY <2>1, <2>3 DEF TickAlive, TickFileSent, BeginTick, describeNextAction
  <2>4. CASE TickStage
    <3>1. /\ db.phase \in {"PENDING_TRIGGER", "WARNED", "PASSWORD_SENT"}
          /\ tpc' = "deliver" <=> StageReady(db, now)
      BY <2>4 DEF TickStage, BeginTick, StageOf
    <3>2. CASE db.phase = "PENDING_TRIGGER"
      BY <3>1, <3>2 DEF StageReady, describeNextAction
    <3>3. CASE db.phase = "WARNED"
      BY <2>1, <3>1, <3>3, AnnouncedIsDue DEF StageReady, describeNextAction
    <3>4. CASE db.phase = "PASSWORD_SENT"
      BY <2>1, <3>1, <3>4, AnnouncedIsDue DEF StageReady, describeNextAction
    <3> QED
      BY <3>1, <3>2, <3>3, <3>4
  <2> QED
    BY <2>2, <2>3, <2>4
<1> QED
  BY <1>1, AlwaysArchInv, PTL DEF ArchSpec, DryRunForetells

-----------------------------------------------------------------------------
(* The archive a row refers to.                                            *)

(* The archives of which RowArchiveUsable holds.                           *)
Rewritten == {k \in 1 .. packs : WrittenAgain(k)}

SoundArchives ==
  {k \in 1 .. packs : Usable(k) \/ k \in Rewritten \/ Outlived(k)}

(* Archives have names that were opened, and those of the same name were   *)
(* made in the same second.                                                *)
NamesInv ==
  /\ IsFiniteSet(Range(opened))
  /\ \A k \in 1 .. packs : nameOf[k] \in Range(opened)
  /\ \A i, j \in 1 .. packs : i # j /\ nameOf[i] = nameOf[j] => i \in Rewritten

(* A file has one of the archives of its name, or nothing of use.          *)
ContentsInv ==
  /\ DOMAIN disk \subseteq Range(opened)
  /\ \A n \in DOMAIN disk :
       disk[n] # Half => disk[n] \in 1 .. packs /\ nameOf[disk[n]] = n

(* The archive the operator is writing is in no file before its end, and   *)
(* the one the operator has built is sound.                                *)
OperatorInv ==
  /\ opc = "building" => \A n \in DOMAIN disk : disk[n] # oarc
  /\ opc \in {"load", "save"} => oarc \in SoundArchives

(* Whichever of the four rows there are overwrites another, the archive in *)
(* it is sound.                                                            *)
RowsSound ==
  \A st \in {db, tst, cst, ost} : st.archive # nil => st.archive \in SoundArchives

FilesInv ==
  ArchTypeOK /\ NamesInv /\ ContentsInv /\ OperatorInv /\ RowsSound

(* What a step does to the rows: none gets an archive that was in no row,  *)
(* but the one that is packed.                                             *)
LEMMA ArchivesMove ==
  ASSUME TypeOK, [Next]_vars
  PROVE  /\ db'.archive \in {nil, db.archive, tst.archive, cst.archive}
         /\ cst'.archive \in {nil, db.archive, cst.archive}
         /\ \/ /\ packs' = packs
               /\ tst'.archive \in {nil, db.archive, tst.archive}
            \/ /\ packs' = packs + 1 /\ tst'.archive = packs + 1
               /\ Packing /\ (Pack \/ PackFails)
<1>0. /\ db \in Row /\ tst \in Row /\ cst \in Row
      /\ InitialRow.archive = nil
  BY DEF TypeOK, InitialRow
<1>1. CASE UNCHANGED vars
  BY <1>1 DEF vars, tickVars, confVars, worldVars
<1>2. CASE AliveStep
  <2>2. tst'.archive = tst.archive
    BY <1>0, <1>2
       DEF AliveStep, SendCheckin, SendCheckinFails, SendReminder,
           SendReminderFails, AlreadyReminded, EnterPendingTrigger, NothingDue,
           ThenSave, AfterHeartbeat, Row, Grace
  <2>3. UNCHANGED <<db, cst, packs>>
    BY <1>2
       DEF AliveStep, SendCheckin, SendCheckinFails, SendReminder,
           SendReminderFails, AlreadyReminded, EnterPendingTrigger, NothingDue,
           ThenSave, confVars
  <2> QED
    BY <2>2, <2>3
<1>3. CASE Pack \/ PackFails
  <2>1. UNCHANGED <<db, cst>>
    BY <1>3 DEF Pack, PackFails, DeliverVars, confVars
  <2>2. \/ packs' = packs /\ tst' = tst
        \/ /\ packs' = packs + 1 /\ tst' = [tst EXCEPT !.archive = packs + 1]
           /\ Packing
    BY <1>3 DEF Pack, PackFails, Packing
  <2> QED
    BY <1>0, <1>3, <2>1, <2>2 DEF Row
<1>4. CASE DeliverStep /\ ~(Pack \/ PackFails)
  <2>1. UNCHANGED <<db, cst, packs>>
    BY <1>4
       DEF DeliverStep, DeliverSkips, DeliverSends, DeliverFails,
           DeliverLosesAck, RecordDelivery, RecordDeliveryFails, DeliverVars,
           confVars, worldVars, Arrives
  <2>2. tst' \in {tst, Advanced(tst, tnow)}
    BY <1>4
       DEF DeliverStep, DeliverSkips, DeliverSends, DeliverFails,
           DeliverLosesAck, RecordDelivery, RecordDeliveryFails, AfterDeliver
  <2>3. Advanced(tst, tnow).archive = tst.archive
    BY <1>0 DEF Advanced, Row
  <2> QED
    BY <2>1, <2>2, <2>3
<1>5. CASE BeginStep
  BY <1>0, <1>5
     DEF BeginStep, TickAlive, TickStage, TickFileSent, TickNothing, BeginTick,
         confVars, worldVars, Row
<1>6. CASE TickSave \/ TickAborts \/ Clock
  BY <1>0, <1>6 DEF TickSave, TickAborts, Clock, EndTick, confVars, worldVars
<1>7. CASE Crash
  BY <1>0, <1>7 DEF Crash, EndConfirm, worldVars
<1>8. CASE ConfirmLoad \/ ConfirmStep \/ ConfirmFails
  <2>1. /\ UNCHANGED <<tst, packs>> /\ db' \in {db, cst}
        /\ cst' \in {cst, InitialRow, WithoutArchive(cst), Confirmed(db, now)}
    BY <1>8
       DEF ConfirmLoad, ConfirmStep, ConfirmSave, ConfirmSaveWithoutArchive,
           ConfirmClearDeliveries, ConfirmFails, EndConfirm, tickVars, worldVars
  <2>2. /\ WithoutArchive(cst).archive = nil
        /\ Confirmed(db, now).archive = db.archive
    BY <1>0 DEF WithoutArchive, Confirmed, Row
  <2> QED
    BY <1>0, <2>1, <2>2
<1>9. CASE BootStep
  <2>1. /\ UNCHANGED <<tst, cst, packs>> /\ db' \in {db, resetToAlive(db, now)}
    BY <1>9
       DEF BootStep, BootKeeps, BootResets, BootClearsDeliveries, confVars,
           worldVars
  <2>2. resetToAlive(db, now).archive = nil
    BY <1>0 DEF resetToAlive, WithoutArchive, Confirmed, Row
  <2> QED
    BY <2>1, <2>2
<1> QED
  BY <1>1, <1>2, <1>3, <1>4, <1>5, <1>6, <1>7, <1>8, <1>9 DEF Next, TickStep

(* How often, in s, n was opened: a function of the sequence, so that what *)
(* holds of it holds of opened before and after a step.                    *)
Times(s, n) == Cardinality({i \in DOMAIN s : s[i] = n})

LEMMA TimesIsANumber ==
  ASSUME NEW s \in Seq(Name), NEW n
  PROVE  /\ IsFiniteSet({i \in DOMAIN s : s[i] = n})
         /\ Times(s, n) \in Nat
         /\ IsFiniteSet(DOMAIN s)
<1>1. DOMAIN s = 1 .. Len(s) /\ Len(s) \in Nat
  OBVIOUS
<1>2. IsFiniteSet(DOMAIN s)
  BY <1>1, FS_Interval
<1> QED
  BY <1>2, FS_Subset, FS_CardinalityType DEF Times

(* A name opened at two places was opened more than once, and stays so; a  *)
(* name that is opened again was opened more than once.                    *)
LEMMA TwoTimes ==
  ASSUME NEW s \in Seq(Name), NEW i \in DOMAIN s, NEW j \in DOMAIN s, i # j,
         s[i] = s[j]
  PROVE  Times(s, s[i]) > 1
<1> DEFINE At == {k \in DOMAIN s : s[k] = s[i]}
<1>1. IsFiniteSet(At) /\ Cardinality(At) \in Nat /\ Times(s, s[i]) = Cardinality(At)
  BY TimesIsANumber DEF Times
<1>2. IsFiniteSet({i}) /\ Cardinality({i}) = 1
  BY FS_Singleton
<1>3. Cardinality({i} \cup {j}) = 2
  <2>1. Cardinality({i} \cup {j}) =
          IF j \in {i} THEN Cardinality({i}) ELSE Cardinality({i}) + 1
    BY <1>2, FS_AddElement, Zenon
  <2>2. j \notin {i}
    OBVIOUS
  <2>3. Cardinality({i} \cup {j}) = Cardinality({i}) + 1
    BY <2>1, <2>2, Zenon
  <2> DEFINE c == Cardinality({i})  d == Cardinality({i} \cup {j})
  <2>4. c = 1 /\ d = c + 1
    BY <1>2, <2>3, Zenon
  <2> HIDE DEF c, d
  <2>5. d = 2
    BY <2>4
  <2> QED
    BY <2>5 DEF d
<1>4. {i} \cup {j} \subseteq At
  OBVIOUS
<1>5. Cardinality({i} \cup {j}) <= Cardinality(At)
  BY <1>1, <1>4, FS_Subset
<1> QED
  BY <1>1, <1>3, <1>5

LEMMA OpenedAgain ==
  ASSUME NEW s \in Seq(Name), NEW x \in Name, NEW n
  PROVE  LET t == Append(s, x)
         IN /\ t \in Seq(Name)
            /\ Range(t) = Range(s) \cup {x}
            /\ Times(s, n) > 1 => Times(t, n) > 1
            /\ x \in Range(s) => Times(t, x) > 1
<1> DEFINE t == Append(s, x)
<1>1. /\ t \in Seq(Name) /\ DOMAIN s = 1 .. Len(s) /\ Len(s) \in Nat
      /\ DOMAIN t = 1 .. Len(s) + 1 /\ t[Len(s) + 1] = x
      /\ \A i \in DOMAIN s : i \in DOMAIN t /\ t[i] = s[i]
  OBVIOUS
<1> HIDE DEF t
<1>2. Range(t) = Range(s) \cup {x}
  <2>1. \A i \in DOMAIN t : i \in DOMAIN s \/ i = Len(s) + 1
    BY <1>1
  <2> QED
    BY <1>1, <2>1 DEF Range
<1>3. Times(s, n) > 1 => Times(t, n) > 1
  <2>1. /\ IsFiniteSet({i \in DOMAIN t : t[i] = n})
        /\ Times(s, n) \in Nat /\ Times(t, n) \in Nat
    BY <1>1, TimesIsANumber
  <2>2. {i \in DOMAIN s : s[i] = n} \subseteq {i \in DOMAIN t : t[i] = n}
    BY <1>1
  <2>3. Times(s, n) <= Times(t, n)
    BY <2>1, <2>2, FS_Subset DEF Times
  <2> QED
    BY <2>1, <2>3
<1>4. x \in Range(s) => Times(t, x) > 1
  <2> SUFFICES ASSUME x \in Range(s) PROVE Times(t, x) > 1
    OBVIOUS
  <2>1. PICK i \in DOMAIN s : s[i] = x
    BY DEF Range
  <2>2. i \in DOMAIN t /\ Len(s) + 1 \in DOMAIN t /\ i # Len(s) + 1 /\ t[i] = x
    BY <1>1, <2>1
  <2> QED
    BY <1>1, <2>2, TwoTimes
<1> QED
  BY <1>1, <1>2, <1>3, <1>4 DEF t

(* A file that CleanupOld removes has keep_archives newer ones, and no     *)
(* other file changes.                                                     *)
LEMMA CleanupOutlives ==
  ASSUME NEW d, NEW S, S \subseteq Nat, IsFiniteSet(S), DOMAIN d \subseteq S,
         NEW n \in DOMAIN d
  PROVE  \/ n \in DOMAIN CleanupOld(d) /\ CleanupOld(d)[n] = d[n]
         \/ Cardinality({m \in S : m > n}) >= Keep
<1> DEFINE Newer == {m \in DOMAIN d : m > n}
<1>1. CASE Cardinality(Newer) < Keep
  BY <1>1 DEF CleanupOld, Restrict
<1>2. CASE ~(Cardinality(Newer) < Keep)
  <2> DEFINE Later == {m \in S : m > n}
  <2>1. IsFiniteSet(Later) /\ Cardinality(Later) \in Nat
    BY FS_Subset, FS_CardinalityType
  <2>2. Newer \subseteq Later
    OBVIOUS
  <2>3. /\ IsFiniteSet(Newer) /\ Cardinality(Newer) \in Nat
        /\ Cardinality(Newer) <= Cardinality(Later)
    BY <2>1, <2>2, FS_Subset, FS_CardinalityType
  <2>4. Keep \in Nat
    BY ArchivesAssumption DEF Keep
  <2> HIDE DEF Newer, Later
  <2>5. Cardinality(Later) >= Keep
    BY <1>2, <2>1, <2>3, <2>4
  <2> QED
    BY <2>5 DEF Later
<1> QED
  BY <1>1, <1>2

(* Nothing comes to be by cleaning up.                                     *)
LEMMA CleanupAddsNothing ==
  ASSUME NEW d
  PROVE  /\ DOMAIN CleanupOld(d) \subseteq DOMAIN d
         /\ \A n \in DOMAIN CleanupOld(d) : CleanupOld(d)[n] = d[n]
BY DEF CleanupOld, Restrict

(* What a step may do to the names: archives keep theirs, and one more     *)
(* file may be opened.                                                     *)
NamesGrow ==
  /\ packs' \in Nat /\ packs <= packs'
  /\ \A i \in 1 .. packs : nameOf'[i] = nameOf[i]
  /\ opened' = opened \/ \E x \in Name : opened' = Append(opened, x)

(* A sound archive stays so when a file is written or removed, unless the  *)
(* file is its own and was not opened again.                               *)
LEMMA SoundLasts ==
  ASSUME TypeOK, FilesInv, NamesGrow, NEW name \in Range(opened'), NEW c,
         disk' \in {disk, Put(disk, name, c), CleanupOld(Put(disk, name, c)),
                    Remove(disk, name)},
         NEW k, k \in SoundArchives,
         \/ disk' = disk \/ name # nameOf[k] \/ k \in Rewritten'
         \/ name \in DOMAIN disk => disk[name] # k
  PROVE  k \in SoundArchives'
<1>1. /\ packs \in Nat /\ packs' \in Nat /\ packs <= packs'
      /\ k \in 1 .. packs /\ k \in 1 .. packs' /\ nameOf'[k] = nameOf[k]
      /\ opened \in Seq(Name)
      /\ IsFiniteSet(Range(opened)) /\ DOMAIN disk \subseteq Range(opened)
      /\ nameOf[k] \in Range(opened) /\ Keep \in Nat
  BY ArchivesAssumption
     DEF TypeOK, FilesInv, ArchTypeOK, NamesInv, ContentsInv, NamesGrow,
         SoundArchives, Keep
<1>2. /\ opened' \in Seq(Name) /\ IsFiniteSet(Range(opened'))
      /\ Range(opened) \subseteq Range(opened')
      /\ \A n : Times(opened, n) > 1 => Times(opened', n) > 1
  <2>1. CASE opened' = opened
    BY <1>1, <2>1
  <2>2. CASE \E x \in Name : opened' = Append(opened, x)
    <3>1. PICK x \in Name : opened' = Append(opened, x)
      BY <2>2
    <3>2. /\ opened' \in Seq(Name) /\ Range(opened') = Range(opened) \cup {x}
          /\ \A n : Times(opened, n) > 1 => Times(opened', n) > 1
      BY <1>1, <3>1, OpenedAgain
    <3>3. IsFiniteSet(Range(opened) \cup {x})
      BY <1>1, FS_AddElement
    <3> QED
      BY <3>2, <3>3
  <2> QED
    BY <2>1, <2>2 DEF NamesGrow
<1>3. Range(opened') \subseteq Nat
  BY <1>2 DEF Range, Name, Instant
<1>4. k \in Rewritten => k \in Rewritten'
  BY <1>1, <1>2 DEF Rewritten, WrittenAgain, Times
<1>5. Outlived(k) => Outlived(k)'
  <2> DEFINE S == {n \in Range(opened) : n > nameOf[k]}
             T == {n \in Range(opened') : n > nameOf[k]}
  <2>1. IsFiniteSet(T) /\ S \subseteq T
    BY <1>2, FS_Subset
  <2>2. /\ Cardinality(S) <= Cardinality(T)
        /\ Cardinality(S) \in Nat /\ Cardinality(T) \in Nat
    BY <2>1, FS_Subset, FS_CardinalityType
  <2>3. (Cardinality(T) >= Keep) => Outlived(k)'
    BY <1>1 DEF Outlived
  <2>4. Outlived(k) => Cardinality(S) >= Keep
    BY DEF Outlived
  <2> HIDE DEF S, T
  <2> QED
    BY <1>1, <2>2, <2>3, <2>4
<1>6. ASSUME Usable(k), disk' = disk \/ name # nameOf[k]
      PROVE  Usable(k)' \/ Outlived(k)'
  <2>1. nameOf[k] \in DOMAIN disk /\ disk[nameOf[k]] = k
    BY <1>6 DEF Usable
  <2>2. CASE disk' = disk
    BY <1>1, <2>1, <2>2 DEF Usable
  <2>3. CASE name # nameOf[k] /\ disk' \in {Put(disk, name, c), Remove(disk, name)}
    BY <1>1, <2>1, <2>3 DEF Usable, Put, Remove, Restrict
  <2>4. CASE name # nameOf[k] /\ disk' = CleanupOld(Put(disk, name, c))
    <3> DEFINE d == Put(disk, name, c)
    <3>1. /\ DOMAIN d \subseteq Range(opened') /\ nameOf[k] \in DOMAIN d
          /\ d[nameOf[k]] = k
      BY <1>1, <1>2, <2>1, <2>4 DEF Put
    <3> HIDE DEF d
    <3>2. \/ nameOf[k] \in DOMAIN CleanupOld(d) /\ CleanupOld(d)[nameOf[k]] = k
          \/ Cardinality({m \in Range(opened') : m > nameOf[k]}) >= Keep
      BY <1>2, <1>3, <3>1, CleanupOutlives
    <3> QED
      BY <1>1, <2>4, <3>2 DEF d, Usable, Outlived
  <2> QED
    BY <1>6, <2>2, <2>3, <2>4
<1> QED
  BY <1>1, <1>4, <1>5, <1>6 DEF SoundArchives, Usable

(* Another archive, or another file of the name it had begun: the names    *)
(* stay in order.                                                          *)
LEMMA NewArchive ==
  ASSUME TypeOK, ArchTypeOK, NamesInv, NEW name \in Name,
         opened' = Append(opened, name),
         \/ packs' = packs + 1 /\ nameOf' = Append(nameOf, name)
         \/ packs' = packs /\ nameOf' = nameOf
  PROVE  /\ NamesInv' /\ NamesGrow
         /\ nameOf' \in Seq(Name) /\ opened' \in Seq(Name) /\ Len(nameOf') = packs'
         /\ Range(opened') = Range(opened) \cup {name}
         /\ packs' = packs + 1 => nameOf'[packs + 1] = name
         /\ \A k \in 1 .. packs : nameOf[k] = name => k \in Rewritten'
<1>1. /\ packs \in Nat /\ nameOf \in Seq(Name) /\ opened \in Seq(Name)
      /\ Len(nameOf) = packs
  BY DEF TypeOK, ArchTypeOK
<1>2. /\ packs' \in Nat /\ packs <= packs'
      /\ \A k \in 1 .. packs : k \in 1 .. packs' /\ nameOf'[k] = nameOf[k]
      /\ \A k \in 1 .. packs' : k \in 1 .. packs \/ (k = packs + 1 /\ nameOf'[k] = name)
      /\ nameOf' \in Seq(Name) /\ Len(nameOf') = packs'
      /\ packs' = packs + 1 => nameOf'[packs + 1] = name
  <2>1. CASE packs' = packs + 1 /\ nameOf' = Append(nameOf, name)
    <3>1. /\ nameOf' \in Seq(Name) /\ Len(nameOf') = packs + 1
          /\ nameOf'[packs + 1] = name
          /\ \A k \in 1 .. packs : nameOf'[k] = nameOf[k]
      BY <1>1, <2>1
    <3>2. \A k \in 1 .. packs + 1 : k \in 1 .. packs \/ k = packs + 1
      BY <1>1
    <3> QED
      BY <1>1, <2>1, <3>1, <3>2
  <2>2. CASE packs' = packs /\ nameOf' = nameOf
    BY <1>1, <2>2
  <2> QED
    BY <2>1, <2>2
<1>3. /\ opened' \in Seq(Name) /\ Range(opened') = Range(opened) \cup {name}
      /\ \A n : Times(opened, n) > 1 => Times(opened', n) > 1
      /\ name \in Range(opened) => Times(opened', name) > 1
  BY <1>1, OpenedAgain
<1>4. IsFiniteSet(Range(opened'))
  <2>1. IsFiniteSet(Range(opened) \cup {name})
    BY FS_AddElement DEF NamesInv
  <2> QED
    BY <1>3, <2>1
<1>5. \A k \in 1 .. packs : nameOf[k] = name => k \in Rewritten'
  BY <1>2, <1>3 DEF NamesInv, Rewritten, WrittenAgain, Times
<1>6. \A k \in 1 .. packs : k \in Rewritten => k \in Rewritten'
  <2> SUFFICES ASSUME NEW k \in 1 .. packs, WrittenAgain(k) PROVE k \in Rewritten'
    BY DEF Rewritten
  <2>1. k \in 1 .. packs' /\ nameOf'[k] = nameOf[k] /\ Times(opened, nameOf[k]) > 1
    BY <1>2 DEF WrittenAgain, Times
  <2>2. Times(opened', nameOf'[k]) > 1
    BY <1>3, <2>1
  <2> QED
    BY <2>1, <2>2 DEF Rewritten, WrittenAgain, Times
<1>7. \A k \in 1 .. packs' : nameOf'[k] \in Range(opened')
  BY <1>2, <1>3 DEF NamesInv
<1>8. ASSUME NEW i \in 1 .. packs', NEW j \in 1 .. packs', i # j,
             nameOf'[i] = nameOf'[j]
      PROVE  i \in Rewritten'
  <2>1. CASE i \in 1 .. packs /\ j \in 1 .. packs
    BY <1>2, <1>6, <1>8, <2>1 DEF NamesInv
  <2>2. CASE i \in 1 .. packs /\ j \notin 1 .. packs
    BY <1>2, <1>5, <1>8, <2>2
  <2>3. CASE i \notin 1 .. packs /\ j \in 1 .. packs
    <3>1. nameOf'[i] = name /\ nameOf[j] = name
      BY <1>2, <1>8, <2>3
    <3>2. Times(opened', name) > 1
      BY <1>3, <2>3, <3>1 DEF NamesInv
    <3> QED
      BY <3>1, <3>2 DEF Rewritten, WrittenAgain, Times
  <2>4. CASE i \notin 1 .. packs /\ j \notin 1 .. packs
    BY <1>2, <1>8, <2>4
  <2> QED
    BY <2>1, <2>2, <2>3, <2>4
<1>9. NamesGrow
  BY <1>2 DEF NamesGrow
<1> QED
  BY <1>2, <1>3, <1>4, <1>5, <1>7, <1>8, <1>9 DEF NamesInv

(* A file is written, with nothing or an archive of its name, or removed:  *)
(* no other comes to be.                                                   *)
LEMMA ContentsKept ==
  ASSUME TypeOK, ArchTypeOK, ContentsInv, NamesGrow,
         opened' \in Seq(Name), Range(opened) \subseteq Range(opened'),
         NEW name \in Range(opened'), NEW c,
         c = Half \/ (c \in 1 .. packs' /\ nameOf'[c] = name),
         disk' \in {disk, Put(disk, name, c), CleanupOld(Put(disk, name, c)),
                    Remove(disk, name)}
  PROVE  /\ ContentsInv'
         /\ DOMAIN disk' \subseteq Name /\ Range(disk') \subseteq Archive \cup {Half}
         /\ \A n \in DOMAIN disk' :
              \/ n \in DOMAIN disk /\ disk'[n] = disk[n]
              \/ n = name /\ disk'[n] = c
<1>1. \A n \in DOMAIN disk' : \/ n \in DOMAIN disk /\ disk'[n] = disk[n]
                              \/ n = name /\ disk'[n] = c
  <2>1. CASE disk' \in {disk, Put(disk, name, c), Remove(disk, name)}
    BY <2>1 DEF Put, Remove, Restrict
  <2>2. CASE disk' = CleanupOld(Put(disk, name, c))
    <3> DEFINE d == Put(disk, name, c)
    <3>1. \A n \in DOMAIN d : \/ n \in DOMAIN disk /\ d[n] = disk[n]
                              \/ n = name /\ d[n] = c
      BY DEF Put
    <3> HIDE DEF d
    <3>2. /\ DOMAIN CleanupOld(d) \subseteq DOMAIN d
          /\ \A n \in DOMAIN CleanupOld(d) : CleanupOld(d)[n] = d[n]
      BY CleanupAddsNothing
    <3>3. disk' = CleanupOld(d)
      BY <2>2 DEF d
    <3> QED
      BY <3>1, <3>2, <3>3
  <2> QED
    BY <2>1, <2>2
<1>2. /\ packs \in Nat /\ packs' \in Nat /\ packs <= packs'
      /\ \A k \in 1 .. packs : k \in 1 .. packs' /\ nameOf'[k] = nameOf[k]
  BY DEF TypeOK, NamesGrow
<1>3. \A n \in DOMAIN disk' :
        /\ n \in Range(opened')
        /\ disk'[n] # Half => disk'[n] \in 1 .. packs' /\ nameOf'[disk'[n]] = n
  <2> SUFFICES ASSUME NEW n \in DOMAIN disk'
               PROVE  /\ n \in Range(opened')
                      /\ disk'[n] # Half => /\ disk'[n] \in 1 .. packs'
                                            /\ nameOf'[disk'[n]] = n
    OBVIOUS
  <2>1. CASE n \in DOMAIN disk /\ disk'[n] = disk[n]
    BY <1>2, <2>1 DEF ContentsInv
  <2>2. CASE n = name /\ disk'[n] = c
    BY <2>2
  <2> QED
    BY <1>1, <2>1, <2>2
<1>4. Range(opened') \subseteq Name
  BY DEF Range
<1>5. \A n \in DOMAIN disk' : disk'[n] \in Archive \cup {Half}
  BY <1>2, <1>3 DEF Archive
<1> QED
  BY <1>1, <1>3, <1>4, <1>5 DEF ContentsInv, Range

(* What a step that opens a file leaves: the names and contents are in     *)
(* order, and sound archives sound.                                        *)
LEMMA OpenedFile ==
  ASSUME TypeOK, FilesInv, NEW name \in Name, NEW c,
         opened' = Append(opened, name),
         \/ packs' = packs + 1 /\ nameOf' = Append(nameOf, name)
         \/ packs' = packs /\ nameOf' = nameOf,
         c = Half \/ (c = packs + 1 /\ packs' = packs + 1),
         disk' \in {disk, Put(disk, name, c), CleanupOld(Put(disk, name, c)),
                    Remove(disk, name)}
  PROVE  /\ NamesInv' /\ ContentsInv'
         /\ nameOf' \in Seq(Name) /\ opened' \in Seq(Name) /\ Len(nameOf') = packs'
         /\ DOMAIN disk' \subseteq Name /\ Range(disk') \subseteq Archive \cup {Half}
         /\ \A n \in DOMAIN disk' :
              \/ n \in DOMAIN disk /\ disk'[n] = disk[n]
              \/ n = name /\ disk'[n] = c
         /\ \A k : k \in SoundArchives => k \in SoundArchives'
         /\ packs' = packs + 1 => nameOf'[packs + 1] = name
         /\ name \in Range(opened') /\ Range(opened') \subseteq Nat
         /\ IsFiniteSet(Range(opened'))
<1>1. ArchTypeOK /\ NamesInv /\ ContentsInv /\ packs \in Nat
  BY DEF FilesInv, TypeOK
<1>2. /\ NamesInv' /\ NamesGrow
      /\ nameOf' \in Seq(Name) /\ opened' \in Seq(Name) /\ Len(nameOf') = packs'
      /\ Range(opened') = Range(opened) \cup {name}
      /\ packs' = packs + 1 => nameOf'[packs + 1] = name
      /\ \A k \in 1 .. packs : nameOf[k] = name => k \in Rewritten'
  BY <1>1, NewArchive
<1>3. name \in Range(opened') /\ Range(opened) \subseteq Range(opened')
  BY <1>2
<1>4. c = Half \/ (c \in 1 .. packs' /\ nameOf'[c] = name)
  BY <1>1, <1>2
<1>5. /\ ContentsInv'
      /\ DOMAIN disk' \subseteq Name /\ Range(disk') \subseteq Archive \cup {Half}
      /\ \A n \in DOMAIN disk' : \/ n \in DOMAIN disk /\ disk'[n] = disk[n]
                                 \/ n = name /\ disk'[n] = c
  BY <1>1, <1>2, <1>3, <1>4, ContentsKept
<1>6. ASSUME NEW k, k \in SoundArchives PROVE k \in SoundArchives'
  <2>1. name # nameOf[k] \/ k \in Rewritten'
    BY <1>2, <1>6 DEF SoundArchives
  <2>2. \/ disk' = disk \/ name # nameOf[k] \/ k \in Rewritten'
        \/ name \in DOMAIN disk => disk[name] # k
    BY <2>1
  <2>3. NamesGrow /\ name \in Range(opened')
    BY <1>2, <1>3
  <2> QED
    BY <1>6, <2>2, <2>3, SoundLasts, SMTT(60)
<1>7. Range(opened') \subseteq Nat /\ IsFiniteSet(Range(opened'))
  <2>1. Range(opened') \subseteq Name
    BY <1>2 DEF Range
  <2>2. IsFiniteSet(Range(opened'))
    BY <1>2 DEF NamesInv
  <2> QED
    BY <2>1, <2>2 DEF Name, Instant
<1> QED
  BY <1>2, <1>3, <1>5, <1>6, <1>7

(* What a step of the program does to the files.                           *)
ProgramOnDisk ==
  /\ [Next]_vars /\ UNCHANGED operatorVars
  /\ \/ packs' = packs + 1 /\ Build(tnow)
     \/ packs' = packs /\ (UNCHANGED diskVars \/ \E b \in BOOLEAN : BuildStops(tnow, b))

LEMMA ProgramFiles ==
  ASSUME TypeOK, [ArchNext]_archVars, ~OperatorStep
  PROVE  ProgramOnDisk
<1>1. [Next]_vars /\ UNCHANGED operatorVars
  BY ArchNextIsNext
<1>2. packs \in Nat
  BY DEF TypeOK
<1>3. CASE PackOnDisk
  BY <1>1, <1>2, <1>3 DEF PackOnDisk, Pack, Packing, ProgramOnDisk
<1>4. CASE PackFailsOnDisk
  BY <1>1, <1>2, <1>4 DEF PackFailsOnDisk, PackFails, ProgramOnDisk
<1>5. CASE CrashOnDisk
  BY <1>1, <1>5 DEF CrashOnDisk, Crash, worldVars, ProgramOnDisk
<1>6. CASE OffDisk(tpc # "pack" /\ TickStep)
  <2>1. ~(Pack \/ PackFails)
    BY <1>6 DEF OffDisk, Pack, PackFails
  <2>2. packs' = packs
    BY <1>1, <2>1, ArchivesMove
  <2> QED
    BY <1>1, <1>6, <2>2 DEF OffDisk, ProgramOnDisk
<1>7. CASE \/ OffDisk(TickAborts) \/ OffDisk(ConfirmLoad) \/ OffDisk(ConfirmStep)
           \/ OffDisk(ConfirmFails) \/ OffDisk(BootStep) \/ OffDisk(Clock)
  <2>1. packs' = packs
    BY <1>7 DEF OffDisk, TickAborts, ConfirmLoad, ConfirmStep, ConfirmSave,
                ConfirmSaveWithoutArchive, ConfirmClearDeliveries,
                ConfirmFails, BootStep, BootKeeps, BootResets,
                BootClearsDeliveries, Clock, worldVars
  <2> QED
    BY <1>1, <1>7, <2>1 DEF OffDisk, ProgramOnDisk
<1>8. CASE UNCHANGED archVars
  BY <1>1, <1>8 DEF archVars, vars, worldVars, ProgramOnDisk
<1> QED
  BY <1>3, <1>4, <1>5, <1>6, <1>7, <1>8 DEF ArchNext

(* The program keeps the archives of the rows sound: the one it packs is   *)
(* usable at the end of Build, or has been outlived already.               *)
LEMMA ProgramKeepsFiles ==
  ASSUME TypeOK, FilesInv, ProgramOnDisk
  PROVE  FilesInv'
<1>1. /\ packs \in Nat /\ tnow \in Name /\ nil \notin Archive
      /\ UNCHANGED <<opc, oarc, ost, manual>>
  BY StateStoreAssumption
     DEF TypeOK, ProgramOnDisk, operatorVars, Name, Archive
<1>2. /\ ArchTypeOK /\ NamesInv /\ ContentsInv /\ OperatorInv /\ RowsSound
      /\ opc # "idle" => oarc \in 1 .. packs
  BY DEF FilesInv, ArchTypeOK
<1>3. /\ db'.archive \in {nil, db.archive, tst.archive, cst.archive}
      /\ cst'.archive \in {nil, db.archive, cst.archive}
      /\ \/ packs' = packs /\ tst'.archive \in {nil, db.archive, tst.archive}
         \/ packs' = packs + 1 /\ tst'.archive = packs + 1
  BY ArchivesMove DEF ProgramOnDisk
<1>4. CASE UNCHANGED <<packs, nameOf, disk, opened>>
  <2>1. NamesInv' /\ ContentsInv' /\ ArchTypeOK' /\ OperatorInv'
    BY <1>1, <1>2, <1>4
       DEF NamesInv, ContentsInv, ArchTypeOK, OperatorInv, Rewritten,
           WrittenAgain, SoundArchives,
           Usable, Outlived
  <2>2. \A k : k \in SoundArchives => k \in SoundArchives'
    BY <1>4 DEF SoundArchives, Usable, Rewritten, WrittenAgain, Outlived
  <2>3. RowsSound'
    BY <1>1, <1>2, <1>3, <1>4, <2>2 DEF RowsSound
  <2> QED
    BY <2>1, <2>3 DEF FilesInv
<1>5. ASSUME NEW c, c = Half \/ (c = packs + 1 /\ packs' = packs + 1),
             opened' = Append(opened, tnow),
             \/ /\ packs' = packs + 1 /\ nameOf' = Append(nameOf, tnow)
                /\ c = packs + 1 /\ disk' = CleanupOld(Put(disk, tnow, c))
             \/ packs' = packs /\ nameOf' = nameOf,
             disk' \in {disk, Put(disk, tnow, c), CleanupOld(Put(disk, tnow, c)),
                        Remove(disk, tnow)}
      PROVE  FilesInv'
  <2>1. /\ NamesInv' /\ ContentsInv'
        /\ nameOf' \in Seq(Name) /\ opened' \in Seq(Name) /\ Len(nameOf') = packs'
        /\ DOMAIN disk' \subseteq Name /\ Range(disk') \subseteq Archive \cup {Half}
        /\ \A n \in DOMAIN disk' :
             \/ n \in DOMAIN disk /\ disk'[n] = disk[n]
             \/ n = tnow /\ disk'[n] = c
        /\ \A k : k \in SoundArchives => k \in SoundArchives'
        /\ packs' = packs + 1 => nameOf'[packs + 1] = tnow
        /\ tnow \in Range(opened') /\ Range(opened') \subseteq Nat
        /\ IsFiniteSet(Range(opened'))
    BY <1>1, <1>5, OpenedFile
  <2>2. ArchTypeOK'
    <3>1. opc # "idle" => oarc \in 1 .. packs'
      BY <1>1, <1>2, <1>5
    <3> QED
      BY <1>1, <1>2, <2>1, <3>1 DEF ArchTypeOK
  <2>3. OperatorInv'
    <3>1. opc = "building" => \A n \in DOMAIN disk' : disk'[n] # oarc
      <4>1. opc = "building" => oarc \in 1 .. packs /\ c # oarc
        BY <1>1, <1>2, <1>5 DEF Half
      <4> QED
        BY <1>2, <2>1, <4>1 DEF OperatorInv
    <3> QED
      BY <1>1, <1>2, <2>1, <3>1 DEF OperatorInv
  <2>4. packs' = packs + 1 => packs + 1 \in SoundArchives'
    <3> SUFFICES ASSUME packs' = packs + 1 PROVE packs + 1 \in SoundArchives'
      OBVIOUS
    <3> DEFINE d == Put(disk, tnow, c)
    <3>1. c = packs + 1 /\ disk' = CleanupOld(d)
      BY <1>1, <1>5
    <3>2. /\ DOMAIN d \subseteq Range(opened') /\ tnow \in DOMAIN d
          /\ d[tnow] = packs + 1
      <4>1. Range(opened) \subseteq Range(opened')
        BY <1>1, <1>2, <1>5, OpenedAgain DEF ArchTypeOK
      <4> QED
        BY <1>2, <2>1, <3>1, <4>1 DEF Put, ContentsInv
    <3> HIDE DEF d
    <3>3. \/ tnow \in DOMAIN CleanupOld(d) /\ CleanupOld(d)[tnow] = packs + 1
          \/ Cardinality({m \in Range(opened') : m > tnow}) >= Keep
      BY <2>1, <3>2, CleanupOutlives
    <3>4. packs + 1 \in 1 .. packs' /\ nameOf'[packs + 1] = tnow
      BY <1>1, <2>1
    <3> QED
      BY <3>1, <3>3, <3>4 DEF SoundArchives, Usable, Outlived
  <2>5. RowsSound'
    BY <1>1, <1>2, <1>3, <2>1, <2>4
       DEF RowsSound
  <2> QED
    BY <2>1, <2>2, <2>3, <2>5 DEF FilesInv
<1>6. CASE packs' = packs + 1 /\ Build(tnow)
  BY <1>5, <1>6 DEF Build
<1>7. CASE packs' = packs /\ (UNCHANGED diskVars \/ \E b \in BOOLEAN : BuildStops(tnow, b))
  <2>1. \/ UNCHANGED <<packs, nameOf, disk, opened>>
        \/ /\ opened' = Append(opened, tnow) /\ packs' = packs /\ nameOf' = nameOf
           /\ disk' \in {Put(disk, tnow, Half), Remove(disk, tnow)}
    BY <1>7 DEF BuildStops, diskVars
  <2> QED
    BY <1>4, <1>5, <2>1
<1> QED
  BY <1>6, <1>7 DEF ProgramOnDisk

(* What is in the file the operator writes is not needed: another archive  *)
(* of its name was written in the same second.                             *)
LEMMA OwnFile ==
  ASSUME TypeOK, FilesInv, opc = "building", UNCHANGED <<packs, nameOf, opened>>,
         NEW c \in {Half, oarc},
         disk' \in {disk, Put(disk, nameOf[oarc], c),
                    CleanupOld(Put(disk, nameOf[oarc], c)),
                    Remove(disk, nameOf[oarc])}
  PROVE  /\ NamesInv' /\ ContentsInv'
         /\ DOMAIN disk' \subseteq Name /\ Range(disk') \subseteq Archive \cup {Half}
         /\ \A k : k \in SoundArchives => k \in SoundArchives'
<1> DEFINE name == nameOf[oarc]
<1>1. /\ ArchTypeOK /\ NamesInv /\ ContentsInv /\ OperatorInv
      /\ packs \in Nat /\ oarc \in 1 .. packs /\ opened \in Seq(Name)
      /\ name \in Range(opened)
  BY DEF FilesInv, ArchTypeOK, TypeOK, NamesInv
<1>2. NamesInv' /\ NamesGrow /\ opened' \in Seq(Name) /\ Rewritten' = Rewritten
  BY <1>1 DEF NamesInv, NamesGrow, Rewritten, WrittenAgain
<1>3. /\ name \in Range(opened') /\ Range(opened) \subseteq Range(opened')
      /\ c = Half \/ (c \in 1 .. packs' /\ nameOf'[c] = name)
  BY <1>1
<1>4. disk' \in {disk, Put(disk, name, c), CleanupOld(Put(disk, name, c)),
                 Remove(disk, name)}
  OBVIOUS
<1>5. ASSUME NEW k, k \in SoundArchives PROVE k \in SoundArchives'
  <2>1. \/ disk' = disk \/ name # nameOf[k] \/ k \in Rewritten'
        \/ name \in DOMAIN disk => disk[name] # k
    BY <1>1, <1>2, <1>5 DEF NamesInv, OperatorInv, SoundArchives
  <2> HIDE DEF name
  <2> QED
    BY <1>2, <1>3, <1>4, <1>5, <2>1, SoundLasts, SMTT(60)
<1> HIDE DEF name
<1>6. /\ ContentsInv' /\ DOMAIN disk' \subseteq Name
      /\ Range(disk') \subseteq Archive \cup {Half}
  BY <1>1, <1>2, <1>3, <1>4, ContentsKept
<1> QED
  BY <1>2, <1>5, <1>6

(* The archive the operator has built is in its file, unless the file had  *)
(* another archive of the same second or has been outlived already.        *)
LEMMA BuiltIsSound ==
  ASSUME TypeOK, FilesInv, opc = "building", UNCHANGED <<packs, nameOf, opened>>,
         nameOf[oarc] \in DOMAIN disk,
         disk' = CleanupOld(Put(disk, nameOf[oarc],
                   IF disk[nameOf[oarc]] = Half THEN oarc ELSE Half))
  PROVE  oarc \in SoundArchives'
<1>1. /\ packs \in Nat /\ oarc \in 1 .. packs /\ opened \in Seq(Name)
      /\ NamesInv /\ ContentsInv /\ OperatorInv
  BY DEF FilesInv, ArchTypeOK, TypeOK
<1>2. CASE disk[nameOf[oarc]] = Half
  <2> DEFINE d == Put(disk, nameOf[oarc], oarc)
  <2>1. /\ DOMAIN d \subseteq Range(opened) /\ nameOf[oarc] \in DOMAIN d
        /\ d[nameOf[oarc]] = oarc /\ disk' = CleanupOld(d)
    BY <1>1, <1>2 DEF Put, ContentsInv
  <2>2. IsFiniteSet(Range(opened)) /\ Range(opened) \subseteq Nat
    <3>1. Range(opened) \subseteq Name
      BY <1>1 DEF Range
    <3> QED
      BY <1>1, <3>1 DEF NamesInv, Name, Instant
  <2> HIDE DEF d
  <2>3. \/ /\ nameOf[oarc] \in DOMAIN CleanupOld(d)
           /\ CleanupOld(d)[nameOf[oarc]] = oarc
        \/ Cardinality({m \in Range(opened) : m > nameOf[oarc]}) >= Keep
    BY <2>1, <2>2, CleanupOutlives
  <2> QED
    BY <1>1, <2>1, <2>3 DEF SoundArchives, Usable, Outlived
<1>3. CASE disk[nameOf[oarc]] # Half
  <2> DEFINE j == disk[nameOf[oarc]]
  <2>1. j \in 1 .. packs /\ nameOf[j] = nameOf[oarc] /\ j # oarc
    BY <1>1, <1>3 DEF ContentsInv, OperatorInv
  <2>2. oarc \in Rewritten
    BY <1>1, <2>1 DEF NamesInv
  <2>3. oarc \in Rewritten'
    BY <1>1, <2>2 DEF Rewritten, WrittenAgain
  <2> QED
    BY <1>1, <2>3 DEF SoundArchives
<1> QED
  BY <1>2, <1>3

LEMMA OperatorKeepsFiles ==
  ASSUME ArchInv, FilesInv, OperatorStep
  PROVE  FilesInv'
<1>1. /\ TypeOK /\ packs \in Nat /\ now \in Name /\ nil \notin Archive
      /\ db \in Row /\ InitialRow \in Row /\ InitialRow.archive = nil
      /\ ArchTypeOK /\ NamesInv /\ ContentsInv /\ OperatorInv /\ RowsSound
      /\ nil \in Maybe(Archive) /\ packs + 1 \in Maybe(Archive)
  BY StateStoreAssumption
     DEF ArchInv, SafeInv, TypeInv, TypeOK, FilesInv, Name, Archive, Maybe,
         InitialRow, Row, Phases, Instant
<1>2. CASE OperatorOpens
  <2>1. /\ packs' = packs + 1 /\ nameOf' = Append(nameOf, now)
        /\ opened' = Append(opened, now) /\ disk' = Put(disk, now, Half)
        /\ oarc' = packs + 1 /\ opc' = "building"
        /\ manual < MaxManual /\ manual' = manual + 1
        /\ UNCHANGED <<db, tst, cst, ost>>
    BY <1>2 DEF OperatorOpens, SchedulerButPacks, tickVars, confVars
  <2>2. /\ NamesInv' /\ ContentsInv'
        /\ nameOf' \in Seq(Name) /\ opened' \in Seq(Name) /\ Len(nameOf') = packs'
        /\ DOMAIN disk' \subseteq Name /\ Range(disk') \subseteq Archive \cup {Half}
        /\ \A n \in DOMAIN disk' :
             \/ n \in DOMAIN disk /\ disk'[n] = disk[n]
             \/ n = now /\ disk'[n] = Half
        /\ \A k : k \in SoundArchives => k \in SoundArchives'
    BY <1>1, <2>1, OpenedFile
  <2>3. ArchTypeOK'
    <3>1. manual' \in 0 .. MaxManual
      BY <1>1, <2>1, ArchivesAssumption DEF ArchTypeOK
    <3>2. oarc' \in 1 .. packs' /\ oarc' \in Maybe(Archive) /\ ost' \in Row
      BY <1>1, <2>1 DEF ArchTypeOK
    <3> QED
      BY <2>1, <2>2, <3>1, <3>2 DEF ArchTypeOK
  <2>4. OperatorInv'
    <3>1. \A n \in DOMAIN disk : disk[n] # packs + 1
      BY <1>1 DEF ContentsInv, Half
    <3>2. Half # packs + 1
      BY <1>1 DEF Half
    <3>3. \A n \in DOMAIN disk' : disk'[n] # oarc'
      BY <2>1, <2>2, <3>1, <3>2
    <3> QED
      BY <2>1, <3>3 DEF OperatorInv
  <2>5. RowsSound'
    BY <1>1, <2>1, <2>2 DEF RowsSound
  <2> QED
    BY <2>2, <2>3, <2>4, <2>5 DEF FilesInv
<1>3. CASE OperatorBuilds \/ OperatorStops
  <2>1. UNCHANGED <<vars, nameOf, opened, manual>>
    BY <1>3 DEF OperatorBuilds, OperatorStops
  <2>2. UNCHANGED <<db, tst, cst, packs>>
    BY <2>1 DEF vars, tickVars, confVars, worldVars
  <2>3. ASSUME NamesInv', ContentsInv', DOMAIN disk' \subseteq Name,
               Range(disk') \subseteq Archive \cup {Half},
               \A k : k \in SoundArchives => k \in SoundArchives',
               \/ OperatorIdle
               \/ /\ UNCHANGED <<oarc, ost>> /\ opc = "building" /\ opc' = "load"
                  /\ oarc \in SoundArchives'
        PROVE  FilesInv'
    <3>1. ArchTypeOK'
      BY <1>1, <2>1, <2>2, <2>3 DEF ArchTypeOK, OperatorIdle
    <3>2. OperatorInv'
      BY <2>3 DEF OperatorInv, OperatorIdle
    <3>3. RowsSound'
      BY <1>1, <2>2, <2>3 DEF RowsSound, OperatorIdle
    <3> QED
      BY <2>3, <3>1, <3>2, <3>3 DEF FilesInv
  <2>4. CASE OperatorIdle /\ disk' = disk
    <3>1. /\ NamesInv' /\ ContentsInv' /\ SoundArchives' = SoundArchives
          /\ DOMAIN disk' \subseteq Name /\ Range(disk') \subseteq Archive \cup {Half}
      BY <1>1, <2>1, <2>2, <2>4
         DEF SoundArchives, Usable, Rewritten, WrittenAgain, Outlived, NamesInv,
             ContentsInv, ArchTypeOK
    <3> QED
      BY <2>3, <2>4, <3>1
  <2>5. CASE /\ OperatorIdle /\ opc = "building"
             /\ disk' = Remove(disk, nameOf[oarc])
    <3>1. /\ NamesInv' /\ ContentsInv'
          /\ DOMAIN disk' \subseteq Name /\ Range(disk') \subseteq Archive \cup {Half}
          /\ \A k : k \in SoundArchives => k \in SoundArchives'
      BY <1>1, <2>1, <2>2, <2>5, OwnFile
    <3> QED
      BY <2>3, <2>5, <3>1
  <2>6. ASSUME NEW c, opc = "building", nameOf[oarc] \in DOMAIN disk,
               c = (IF disk[nameOf[oarc]] = Half THEN oarc ELSE Half),
               disk' = CleanupOld(Put(disk, nameOf[oarc], c)),
               \/ OperatorIdle
               \/ UNCHANGED <<oarc, ost>> /\ opc' = "load"
        PROVE  FilesInv'
    <3>1. c \in {Half, oarc}
      BY <2>6
    <3>2. /\ NamesInv' /\ ContentsInv'
          /\ DOMAIN disk' \subseteq Name /\ Range(disk') \subseteq Archive \cup {Half}
          /\ \A k : k \in SoundArchives => k \in SoundArchives'
      BY <1>1, <2>1, <2>2, <2>6, <3>1, OwnFile
    <3>3. oarc \in SoundArchives'
      BY <1>1, <2>1, <2>2, <2>6, BuiltIsSound
    <3> QED
      BY <2>3, <2>6, <3>2, <3>3
  <2>7. \/ OperatorIdle /\ disk' = disk
        \/ OperatorIdle /\ opc = "building" /\ disk' = Remove(disk, nameOf[oarc])
        \/ /\ opc = "building" /\ nameOf[oarc] \in DOMAIN disk
           /\ disk' = CleanupOld(Put(disk, nameOf[oarc],
                        IF disk[nameOf[oarc]] = Half THEN oarc ELSE Half))
           /\ OperatorIdle \/ (UNCHANGED <<oarc, ost>> /\ opc' = "load")
    BY <1>3 DEF OperatorBuilds, OperatorStops
  <2> QED
    BY <2>4, <2>5, <2>6, <2>7
<1>4. CASE OperatorLoads
  <2>1. UNCHANGED <<vars, diskVars, oarc, manual>> /\ opc' = "save" /\ ost' = db
        /\ opc = "load"
    BY <1>4 DEF OperatorLoads
  <2>2. UNCHANGED <<db, tst, cst, packs, disk, nameOf, opened>>
    BY <2>1 DEF vars, tickVars, confVars, worldVars, diskVars
  <2>3. SoundArchives' = SoundArchives /\ NamesInv' /\ ContentsInv'
    BY <1>1, <2>2
       DEF SoundArchives, Usable, Rewritten, WrittenAgain, Outlived, NamesInv,
           ContentsInv
  <2>4. ArchTypeOK' /\ OperatorInv' /\ RowsSound'
    BY <1>1, <2>1, <2>2, <2>3 DEF ArchTypeOK, OperatorInv, RowsSound
  <2> QED
    BY <2>3, <2>4 DEF FilesInv
<1>5. CASE OperatorSaves
  <2>1. /\ UNCHANGED <<SchedulerButPacks, packs, diskVars, manual>>
        /\ opc = "save" /\ db' = [ost EXCEPT !.archive = oarc] /\ OperatorIdle
    BY <1>5 DEF OperatorSaves
  <2>2. UNCHANGED <<tst, cst, packs, disk, nameOf, opened>>
    BY <2>1 DEF SchedulerButPacks, tickVars, confVars, diskVars
  <2>3. SoundArchives' = SoundArchives /\ NamesInv' /\ ContentsInv'
    BY <1>1, <2>2
       DEF SoundArchives, Usable, Rewritten, WrittenAgain, Outlived, NamesInv,
           ContentsInv
  <2>4. db'.archive = oarc /\ oarc \in SoundArchives
    BY <1>1, <2>1 DEF OperatorInv, ArchTypeOK, Row
  <2>5. ArchTypeOK' /\ OperatorInv' /\ RowsSound'
    BY <1>1, <2>1, <2>2, <2>3, <2>4
       DEF ArchTypeOK, OperatorInv, RowsSound, OperatorIdle
  <2> QED
    BY <2>3, <2>5 DEF FilesInv
<1> QED
  BY <1>2, <1>3, <1>4, <1>5 DEF OperatorStep

LEMMA AlwaysFilesInv == ArchSpec => []FilesInv
<1>1. ArchInit => FilesInv
  <2> SUFFICES ASSUME ArchInit PROVE FilesInv
    OBVIOUS
  <2>1. /\ DOMAIN disk = {} /\ nameOf = <<>> /\ opened = <<>> /\ opc = "idle"
        /\ oarc = nil /\ ost = InitialRow /\ manual = 0 /\ packs = 0
        /\ \A st \in {db, tst, cst, ost} : st.archive = nil
    BY DEF ArchInit, NoFiles, Init, InitialRow
  <2>2. InitialRow \in Row /\ nil \in Maybe(Archive)
    BY DEF InitialRow, Row, Phases, Maybe, Instant
  <2>3. Range(disk) = {} /\ Range(opened) = {} /\ 1 .. packs = {}
    BY <2>1 DEF Range
  <2>4. ArchTypeOK
    BY <2>1, <2>2, <2>3, ArchivesAssumption DEF ArchTypeOK
  <2>5. NamesInv
    BY <2>3, FS_EmptySet DEF NamesInv
  <2>6. ContentsInv /\ OperatorInv /\ RowsSound
    BY <2>1 DEF ContentsInv, OperatorInv, RowsSound
  <2> QED
    BY <2>4, <2>5, <2>6 DEF FilesInv
<1>2. ArchInv /\ FilesInv /\ [ArchNext]_archVars => FilesInv'
  BY ProgramFiles, ProgramKeepsFiles, OperatorKeepsFiles
     DEF ArchInv, SafeInv, TypeInv
<1> QED
  BY <1>1, <1>2, AlwaysArchInv, PTL DEF ArchSpec

(* Files have the names and contents they can have, and an archive is      *)
(* numbered before the operator fills it (Build, runPack).                 *)
THEOREM ArchiveTypes == ArchSpec => []ArchTypeOK
BY AlwaysFilesInv, PTL DEF FilesInv

(* Whatever crashes, fails or is packed by hand meanwhile, and whichever   *)
(* writer saved the row last, the archive the row refers to opens with its *)
(* password, unless the file was written again in the second it was begun  *)
(* in or keep_archives newer ones were begun (Build, CleanupOld, doPack,   *)
(* runPack).                                                               *)
THEOREM RowsKeepTheirArchive == ArchSpec => []RowArchiveUsable
<1>1. FilesInv => RowArchiveUsable
  BY DEF FilesInv, RowsSound, SoundArchives, Rewritten, RowArchiveUsable
<1> QED
  BY <1>1, AlwaysFilesInv, PTL
=============================================================================
