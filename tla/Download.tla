------------------------------ MODULE Download ------------------------------
(***************************************************************************)
(* The self-hosted download links: internal/download with table            *)
(* download_tokens of internal/state.  Every attempt of the file stage to  *)
(* reach a beneficiary makes a link and mails it; every HTTP request runs  *)
(* in a handler of its own, which looks the link up, decides on the row it *)
(* read, counts and serves; ticks and ifgonectl delete expired rows.       *)
(***************************************************************************)
EXTENDS Integers, FiniteSets

CONSTANTS
  nil,
  Beneficiaries,  \* the mail addresses of cfg.Beneficiaries
  Handlers,       \* requests served at the same time
  LinkExpiry,     \* download.link_expiry
  MaxDownloads,   \* the largest download.max_downloads it is run with
  \* Bounds of a check:
  MaxLinks, MaxFaults, MaxTime

Link == 1 .. MaxLinks
Mailed == Beneficiaries \X Link
LinkRow == [expiresAt : Nat, downloadCount : Nat,
            maxDownloads : 1 .. MaxDownloads]

ASSUME DownloadAssumption ==
  /\ {LinkExpiry, MaxDownloads} \subseteq Nat \ {0}
  /\ {MaxLinks, MaxFaults, MaxTime} \subseteq Nat
  /\ IsFiniteSet(Handlers) /\ Handlers # {}
  /\ nil \notin Int /\ nil \notin LinkRow

VARIABLES
  now,
  table,      \* table download_tokens: the row of each link, nil without one
  links,      \* links made so far
  onDisk,     \* the archive the links lead to is there
  dpc,        \* deliver of the file stage: "idle", "mail" or "record"
  mailing,    \*   the beneficiary and the link it is at
  delivered,  \* beneficiaries whose delivery is recorded as OK
  known,      \* the links that reached a mailbox
  hpc,        \* each request: "idle", "decide", "count" or "serve"
  hlink,      \*   its link
  hrow,       \*   the row it read
  served,     \* how often the archive was sent for each link
  faults

deliverVars == <<links, dpc, mailing, delivered, known>>
handlerVars == <<hpc, hlink, hrow>>
vars == <<now, table, onDisk, deliverVars, handlerVars, served, faults>>

TypeOK ==
  /\ now \in 0 .. MaxTime
  /\ table \in [Link -> LinkRow \cup {nil}]
  /\ links \in 0 .. MaxLinks
  /\ onDisk \in BOOLEAN
  /\ dpc \in {"idle", "mail", "record"}
  /\ mailing \in Mailed \cup {nil}
  /\ delivered \subseteq Beneficiaries
  /\ known \subseteq Mailed
  /\ hpc \in [Handlers -> {"idle", "decide", "count", "serve"}]
  /\ hlink \in [Handlers -> Link \cup {nil}]
  /\ hrow \in [Handlers -> LinkRow \cup {nil}]
  /\ served \in [Link -> Nat]
  /\ faults \in 0 .. MaxFaults

Init ==
  /\ now = 0
  /\ table = [l \in Link |-> nil]
  /\ links = 0
  /\ onDisk = TRUE
  /\ dpc = "idle" /\ mailing = nil
  /\ delivered = {} /\ known = {}
  /\ hpc = [h \in Handlers |-> "idle"]
  /\ hlink = [h \in Handlers |-> nil] /\ hrow = [h \in Handlers |-> nil]
  /\ served = [l \in Link |-> 0]
  /\ faults = 0

Fault == faults < MaxFaults /\ faults' = faults + 1

-----------------------------------------------------------------------------
(* The file stage: DeliverFile under deliver, one attempt at a time.       *)

NewRow(expiry, max) ==
  [expiresAt |-> expiry, downloadCount |-> 0, maxDownloads |-> max]

(* Variant of createSelfHostedLink: the expiry is in the past.             *)
LinkMadeExpired(b) ==
  /\ dpc = "idle" /\ b \notin delivered
  /\ links < MaxLinks
  /\ links' = links + 1
  /\ \E max \in 1 .. MaxDownloads :
       table' = [table EXCEPT ![links + 1] = NewRow(now - LinkExpiry, max)]
  /\ dpc' = "mail" /\ mailing' = <<b, links + 1>>
  /\ UNCHANGED <<now, onDisk, delivered, known, handlerVars, served, faults>>

(* A beneficiary not recorded as reached gets a new link, whatever became  *)
(* of the ones made for him before.  The link keeps the max_downloads of   *)
(* the configuration it was made with; the next start may have another.    *)
createSelfHostedLink(b) ==
  /\ dpc = "idle" /\ b \notin delivered
  /\ links < MaxLinks
  /\ links' = links + 1
  /\ \E max \in 1 .. MaxDownloads :
       table' = [table EXCEPT ![links + 1] = NewRow(now + LinkExpiry, max)]
  /\ dpc' = "mail" /\ mailing' = <<b, links + 1>>
  /\ UNCHANGED <<now, onDisk, delivered, known, handlerVars, served, faults>>

(* No token, no URL or no row: the attempt ends with nothing changed.  (A  *)
(* row that is inserted with an error reported is a link whose mail fails.) *)
CreateLinkFails(b) ==
  /\ dpc = "idle" /\ b \notin delivered
  /\ UNCHANGED vars

EndDelivery == dpc' = "idle" /\ mailing' = nil

MailArrives ==
  /\ dpc = "mail"
  /\ known' = known \cup {mailing}
  /\ dpc' = "record"
  /\ UNCHANGED <<now, table, links, onDisk, mailing, delivered, handlerVars,
                 served, faults>>

MailFails ==
  /\ dpc = "mail"
  /\ EndDelivery
  /\ UNCHANGED <<now, table, links, onDisk, delivered, known, handlerVars,
                 served, faults>>

(* The mail arrives and is reported as failed.                             *)
MailLosesAck ==
  /\ dpc = "mail"
  /\ known' = known \cup {mailing}
  /\ Fault
  /\ EndDelivery
  /\ UNCHANGED <<now, table, links, onDisk, delivered, handlerVars, served>>

(* Variant of RecordDelivery: nothing is recorded.                         *)
NothingRecorded ==
  /\ dpc = "record"
  /\ EndDelivery
  /\ UNCHANGED <<now, table, links, onDisk, delivered, known, handlerVars,
                 served, faults>>

RecordDelivery ==
  /\ dpc = "record"
  /\ delivered' = delivered \cup {mailing[1]}
  /\ EndDelivery
  /\ UNCHANGED <<now, table, links, onDisk, known, handlerVars, served, faults>>

(* An error is reported of the record, which may have been made.           *)
RecordDeliveryFails ==
  /\ dpc = "record"
  /\ Fault
  /\ delivered' \in {delivered, delivered \cup {mailing[1]}}
  /\ EndDelivery
  /\ UNCHANGED <<now, table, links, onDisk, known, handlerVars, served>>

-----------------------------------------------------------------------------
(* handleDownload: one request from its lookup to its answer.  Only a link *)
(* that reached a mailbox is asked for, or one that is not in the table.   *)

AnswerTo(h) ==
  /\ hpc' = [hpc EXCEPT ![h] = "idle"]
  /\ hlink' = [hlink EXCEPT ![h] = nil]
  /\ hrow' = [hrow EXCEPT ![h] = nil]

HandlerStays == UNCHANGED <<now, onDisk, deliverVars>>

GetDownloadToken(h, l) ==
  /\ hpc[h] = "idle"
  /\ table[l] # nil
  /\ \E b \in Beneficiaries : <<b, l>> \in known
  /\ hpc' = [hpc EXCEPT ![h] = "decide"]
  /\ hlink' = [hlink EXCEPT ![h] = l]
  /\ hrow' = [hrow EXCEPT ![h] = table[l]]
  /\ HandlerStays /\ UNCHANGED <<table, served, faults>>

TokenMissing(h) ==
  /\ hpc[h] = "idle"
  /\ \E l \in Link : table[l] = nil
  /\ UNCHANGED vars

(* Variant of MayDownload: one download too many.                          *)
MayDownloadOnceMore(row) ==
  /\ now < row.expiresAt
  /\ row.downloadCount <= row.maxDownloads
  /\ onDisk

(* Expiry and count are of the row the handler read, which nobody else     *)
(* changes, so that looking at them in one step with os.Stat loses nothing. *)
MayDownload(row) ==
  /\ now < row.expiresAt
  /\ row.downloadCount < row.maxDownloads
  /\ onDisk

Admit(h) ==
  /\ hpc[h] = "decide"
  /\ MayDownload(hrow[h])
  /\ hpc' = [hpc EXCEPT ![h] = "count"]
  /\ HandlerStays /\ UNCHANGED <<table, hlink, hrow, served, faults>>

Refuse(h) ==
  /\ hpc[h] = "decide"
  /\ ~MayDownload(hrow[h])
  /\ AnswerTo(h)
  /\ HandlerStays /\ UNCHANGED <<table, served, faults>>

(* Variant of Counted: one more than the handler read.                     *)
CountedFromRead(h) ==
  IF table[hlink[h]] = nil THEN table
  ELSE [table EXCEPT ![hlink[h]].downloadCount = hrow[h].downloadCount + 1]

(* The row counts one more; without a row the statement changes nothing.   *)
Counted(h) ==
  IF table[hlink[h]] = nil THEN table
  ELSE [table EXCEPT ![hlink[h]].downloadCount = @ + 1]

IncrementDownloadCount(h) ==
  /\ hpc[h] = "count"
  /\ table' = Counted(h)
  /\ hpc' = [hpc EXCEPT ![h] = "serve"]
  /\ HandlerStays /\ UNCHANGED <<hlink, hrow, served, faults>>

(* Variant of IncrementFails: the archive is sent all the same.            *)
ServedUncounted(h) ==
  /\ hpc[h] = "count"
  /\ Fault
  /\ hpc' = [hpc EXCEPT ![h] = "serve"]
  /\ HandlerStays /\ UNCHANGED <<table, hlink, hrow, served>>

IncrementFails(h) ==
  /\ hpc[h] = "count"
  /\ Fault
  /\ AnswerTo(h)
  /\ HandlerStays /\ UNCHANGED <<table, served>>

(* http.ServeFile: the archive may have gone since the handler saw it.     *)
ServeFile(h) ==
  /\ hpc[h] = "serve"
  /\ served' = [served EXCEPT ![hlink[h]] = IF onDisk THEN @ + 1 ELSE @]
  /\ AnswerTo(h)
  /\ HandlerStays /\ UNCHANGED <<table, faults>>

-----------------------------------------------------------------------------
(* The rest of the program, and time.                                      *)

(* By every tick of a finished flow, and by "ifgonectl cleanup-tokens".    *)
CleanupExpiredTokens ==
  /\ table' = [l \in Link |->
                 IF table[l] # nil /\ table[l].expiresAt < now THEN nil
                 ELSE table[l]]
  /\ UNCHANGED <<now, onDisk, deliverVars, handlerVars, served, faults>>

(* A later packing keeps archive.keep_archives files and removes this one. *)
CleanupOld ==
  /\ onDisk
  /\ onDisk' = FALSE
  /\ UNCHANGED <<now, table, deliverVars, handlerVars, served, faults>>

Crash ==
  /\ Fault
  /\ EndDelivery
  /\ hpc' = [h \in Handlers |-> "idle"]
  /\ hlink' = [h \in Handlers |-> nil] /\ hrow' = [h \in Handlers |-> nil]
  /\ UNCHANGED <<now, table, links, onDisk, delivered, known, served>>

Clock ==
  /\ now < MaxTime
  /\ now' = now + 1
  /\ UNCHANGED <<table, onDisk, deliverVars, handlerVars, served, faults>>

Handle(h) ==
  \/ \E l \in Link : GetDownloadToken(h, l)
  \/ TokenMissing(h) \/ Admit(h) \/ Refuse(h)
  \/ IncrementDownloadCount(h) \/ IncrementFails(h) \/ ServeFile(h)

DeliverFile ==
  \/ \E b \in Beneficiaries : createSelfHostedLink(b) \/ CreateLinkFails(b)
  \/ MailArrives \/ MailFails \/ MailLosesAck
  \/ RecordDelivery \/ RecordDeliveryFails

Next ==
  \/ DeliverFile
  \/ \E h \in Handlers : Handle(h)
  \/ CleanupExpiredTokens \/ CleanupOld \/ Crash \/ Clock

Spec == Init /\ [][Next]_vars

-----------------------------------------------------------------------------
(* The limit of a link, by its row while that is there.                    *)
LimitOf(l) == IF table[l] = nil THEN MaxDownloads ELSE table[l].maxDownloads

(* docs/quick-flow-drill.md:129 of the repository, "refused past the       *)
(* largest number of downloads" (handleDownload).                          *)
WithinLimit == \A l \in Link : served[l] <= LimitOf(l)

(* What does hold of the limit: requests that decided on the same row can  *)
(* exceed it, by no more than the number of them but one (handleDownload   *)
(* decides before it counts).                                              *)
OvershootBounded ==
  \A l \in Link : served[l] <= LimitOf(l) + Cardinality(Handlers) - 1

(* No download escapes the count: while a link has its row, the archive    *)
(* was not sent more often than the row says, requests about to send it    *)
(* included (IncrementDownloadCount before ServeFile), though crashes come *)
(* between the two.                                                        *)
EveryDownloadIsCounted ==
  \A l \in Link : table[l] # nil =>
    served[l] + Cardinality({h \in Handlers : hpc[h] = "serve" /\ hlink[h] = l})
      <= table[l].downloadCount

(* A link that is used up or expired stays so: no lost update of two       *)
(* requests counting at once, and no clean-up, revives it                  *)
(* (IncrementDownloadCount, CleanupExpiredTokens).                         *)
Dead(l) ==
  /\ l <= links
  /\ table[l] # nil =>
       \/ table[l].downloadCount >= table[l].maxDownloads
       \/ now >= table[l].expiresAt

DeadForGood == [][\A l \in Link : Dead(l) => Dead(l)']_vars

(* A retry makes a new link and leaves the old one valid, so a beneficiary *)
(* may hold several; each beyond the first is explained by a lost          *)
(* acknowledgement, a failed record or a crash (deliver, DeliverFile).     *)
ExtraLinksAreFaults ==
  Cardinality(known) <= Cardinality({m[1] : m \in known}) + faults
=============================================================================
