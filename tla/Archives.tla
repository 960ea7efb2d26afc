------------------------------ MODULE Archives ------------------------------
(***************************************************************************)
(* The archives on disk (internal/packer) and the operator's commands of   *)
(* cmd/ifgonectl, a process of its own, composed with the scheduler.       *)
(*                                                                         *)
(* An archive is a file named for the second it was begun in, encrypted    *)
(* with a password made for it; Scheduler numbers them in the order their  *)
(* passwords are made.  Packing writes the file in place, and keeps only   *)
(* the newest by name.  "pack --save-state" is a third writer of the row.  *)
(***************************************************************************)
EXTENDS Scheduler, Functions

CONSTANTS
  KeepArchives,  \* archive.keep_archives
  SavesState,    \* whether the operator packs with --save-state
  MaxManual      \* bound: archives the operator packs

ASSUME ArchivesAssumption ==
  KeepArchives \in Int /\ SavesState \in BOOLEAN /\ MaxManual \in Nat

(* The content of a file nobody has the password of: it was not written to *)
(* its end, or the process that made it is gone.                           *)
Half == 0

Name == Instant

VARIABLES
  disk,    \* the files archive-*.zip: which archive is in which file
  nameOf,  \* for each archive, the name of its file
  opened,  \* the names that were opened for writing, in this order
  opc,     \* ifgonectl pack: where it is,
  oarc,    \*   the archive it makes,
  ost,     \*   the row it loaded
  manual   \* archives the operator has packed

operatorVars == <<opc, oarc, ost, manual>>
diskVars == <<disk, nameOf, opened>>
archVars == <<vars, diskVars, operatorVars>>

ArchTypeOK ==
  /\ DOMAIN disk \subseteq Name /\ Range(disk) \subseteq Archive \cup {Half}
  /\ nameOf \in Seq(Name) /\ opened \in Seq(Name)
  /\ Len(nameOf) = packs
  /\ opc \in {"idle", "building", "load", "save"}
  /\ oarc \in Maybe(Archive) /\ ost \in Row /\ manual \in 0 .. MaxManual
  /\ opc # "idle" => oarc \in 1 .. packs

NoFiles == [n \in {} |-> Half]

ArchInit ==
  /\ Init
  /\ disk = NoFiles /\ nameOf = <<>> /\ opened = <<>>
  /\ opc = "idle" /\ oarc = nil /\ ost = InitialRow /\ manual = 0

-----------------------------------------------------------------------------
(* package packer *)

Keep == IF KeepArchives <= 0 THEN 1 ELSE KeepArchives

(* Variant of CleanupOld: the oldest are kept.                             *)
KeepsTheOldest(d) ==
  Restrict(d, {n \in DOMAIN d : Cardinality({m \in DOMAIN d : m < n}) < Keep})

(* Variant of CleanupOld: one file too many stays.                         *)
KeepsOneMore(d) ==
  Restrict(d, {n \in DOMAIN d : Cardinality({m \in DOMAIN d : m > n}) <= Keep})

(* The newest by name stay, half-written ones included.                    *)
CleanupOld(d) ==
  Restrict(d, {n \in DOMAIN d : Cardinality({m \in DOMAIN d : m > n}) < Keep})

Put(d, name, content) ==
  [n \in DOMAIN d \cup {name} |-> IF n = name THEN content ELSE d[n]]

Remove(d, name) == Restrict(d, DOMAIN d \ {name})

(* Build of a new archive, to its end, and PackerAdapter's CleanupOld.     *)
Build(name) ==
  /\ nameOf' = Append(nameOf, name) /\ opened' = Append(opened, name)
  /\ disk' = CleanupOld(Put(disk, name, packs + 1))

(* Build stops before it opens the file, or removes the file on an error,  *)
(* or leaves it when the process dies.                                     *)
BuildStops(name, leavesHalf) ==
  /\ UNCHANGED nameOf
  /\ \/ UNCHANGED <<disk, opened>>
     \/ /\ opened' = Append(opened, name)
        /\ disk' = IF leavesHalf THEN Put(disk, name, Half) ELSE Remove(disk, name)

-----------------------------------------------------------------------------
(* The scheduler's steps.  A tick packs under the time it began at.        *)

Packing == tpc = "pack" /\ tst.archive = nil

PackOnDisk ==
  /\ Pack
  /\ IF Packing THEN Build(tnow) ELSE UNCHANGED diskVars
  /\ UNCHANGED operatorVars

PackFailsOnDisk ==
  /\ PackFails
  /\ IF packs' # packs THEN Build(tnow)
     ELSE IF Packing THEN BuildStops(tnow, FALSE)
     ELSE UNCHANGED diskVars
  /\ UNCHANGED operatorVars

CrashOnDisk ==
  /\ Crash
  /\ IF Packing THEN BuildStops(tnow, TRUE) ELSE UNCHANGED diskVars
  /\ UNCHANGED operatorVars

-----------------------------------------------------------------------------
(* ifgonectl pack.  It may stop at any step, on an error or interrupted.   *)

SchedulerButPacks ==
  <<now, delivered, tickVars, confVars, buttons, tokens, mail, faults, accepted>>

OperatorIdle == opc' = "idle" /\ oarc' = nil /\ ost' = InitialRow

(* Variant of OperatorOpens: the password of the last archive is used.     *)
OpensWithTheLastPassword ==
  /\ opc = "idle" /\ manual < MaxManual /\ packs > 0
  /\ manual' = manual + 1
  /\ oarc' = packs /\ opc' = "building"
  /\ nameOf' = Append(nameOf, now) /\ opened' = Append(opened, now)
  /\ disk' = Put(disk, now, Half)
  /\ UNCHANGED <<SchedulerButPacks, packs, db, ost>>

OperatorOpens ==
  /\ opc = "idle" /\ manual < MaxManual
  /\ manual' = manual + 1
  /\ packs' = packs + 1 /\ oarc' = packs + 1 /\ opc' = "building"
  /\ nameOf' = Append(nameOf, now) /\ opened' = Append(opened, now)
  /\ disk' = Put(disk, now, Half)
  /\ UNCHANGED <<SchedulerButPacks, db, ost>>

(* The file may have been written by the program meanwhile, under the same *)
(* name: what two writers leave is no archive.  Or CleanupOld has removed  *)
(* it, and hashing it fails.                                               *)
OperatorBuilds ==
  /\ opc = "building"
  /\ LET name == nameOf[oarc]
     IN IF name \in DOMAIN disk
        THEN /\ disk' = CleanupOld(Put(disk, name,
                          IF disk[name] = Half THEN oarc ELSE Half))
             /\ IF SavesState THEN opc' = "load" /\ UNCHANGED <<oarc, ost>>
                ELSE OperatorIdle
        ELSE OperatorIdle /\ UNCHANGED disk
  /\ UNCHANGED <<vars, nameOf, opened, manual>>

OperatorLoads ==
  /\ opc = "load"
  /\ opc' = "save" /\ ost' = db
  /\ UNCHANGED <<vars, diskVars, oarc, manual>>

(* Variant of OperatorSaves: the phase is set for the password stage.      *)
SavesForThePasswordStage ==
  /\ opc = "save"
  /\ db' = [ost EXCEPT !.archive = oarc, !.phase = "WARNED"]
  /\ OperatorIdle
  /\ UNCHANGED <<SchedulerButPacks, packs, diskVars, manual>>

(* Variant of OperatorSaves: the row is written without its token.         *)
SavesWithoutToken ==
  /\ opc = "save"
  /\ db' = [ost EXCEPT !.archive = oarc, !.pendingToken = nil]
  /\ OperatorIdle
  /\ UNCHANGED <<SchedulerButPacks, packs, diskVars, manual>>

OperatorSaves ==
  /\ opc = "save"
  /\ db' = [ost EXCEPT !.archive = oarc]
  /\ OperatorIdle
  /\ UNCHANGED <<SchedulerButPacks, packs, diskVars, manual>>

OperatorStops ==
  /\ opc # "idle"
  /\ OperatorIdle
  /\ \/ UNCHANGED disk
     \/ opc = "building" /\ disk' = Remove(disk, nameOf[oarc])
  /\ UNCHANGED <<vars, nameOf, opened, manual>>

OperatorStep ==
  \/ OperatorOpens \/ OperatorBuilds \/ OperatorLoads \/ OperatorSaves
  \/ OperatorStops

-----------------------------------------------------------------------------

OffDisk(A) == A /\ UNCHANGED <<diskVars, operatorVars>>

ArchNext ==
  \/ PackOnDisk \/ PackFailsOnDisk \/ CrashOnDisk
  \/ OffDisk(tpc # "pack" /\ TickStep) \/ OffDisk(TickAborts)
  \/ OffDisk(ConfirmLoad) \/ OffDisk(ConfirmStep) \/ OffDisk(ConfirmFails)
  \/ OffDisk(BootStep) \/ OffDisk(Clock)
  \/ OperatorStep

ArchSpec == ArchInit /\ [][ArchNext]_archVars

-----------------------------------------------------------------------------
(* The archive the row refers to, and with it every link of the round, can *)
(* be opened with the row's password, unless its file was written again in *)
(* the same second or keep_archives newer ones were begun: no crash in the *)
(* middle of a Build, no failed one and no manual packing takes it away    *)
(* otherwise (Build, CleanupOld).                                          *)
Usable(k) == nameOf[k] \in DOMAIN disk /\ disk[nameOf[k]] = k

WrittenAgain(k) == Cardinality({i \in DOMAIN opened : opened[i] = nameOf[k]}) > 1

Outlived(k) == Cardinality({n \in Range(opened) : n > nameOf[k]}) >= Keep

RowArchiveUsable ==
  db.archive # nil =>
    Usable(db.archive) \/ WrittenAgain(db.archive) \/ Outlived(db.archive)

(* The archives on disk do not pile up: at most keep_archives can be       *)
(* opened by anybody, and each packing that is under way or broke off adds *)
(* at most one file to them (CleanupOld).                                  *)
DiskBounded ==
  /\ Cardinality({n \in DOMAIN disk : disk[n] # Half}) <= Keep
  /\ Cardinality(DOMAIN disk) <= Keep + faults + manual

-----------------------------------------------------------------------------
(* ifgonectl dry-run: the time it announces the next mails for, nil when   *)
(* it announces none (describeNextAction, dueText).                        *)

dueText(t, delay) ==
  IF t = nil \/ now >= dueAt(t, delay) THEN now ELSE dueAt(t, delay)

describeNextAction(st) ==
  CASE st.phase = "PENDING_TRIGGER" -> now
    [] st.phase = "WARNED" -> dueText(st.warnedAt, PasswordDelay)
    [] st.phase = "PASSWORD_SENT" -> dueText(st.passwordSentAt, FileDelay)
    [] OTHER -> nil

(* docs/state-migration.md:104 of the repository, "dry-run shows what the  *)
(* next tick will do": a tick turns to the mails of a stage exactly when   *)
(* dry-run would have announced them for that instant.                     *)
DryRunForetells ==
  [][(tpc = "idle" /\ tpc' \notin {"idle", "boot"}) =>
       (tpc' = "deliver" <=> describeNextAction(db) = now)]_archVars
=============================================================================
