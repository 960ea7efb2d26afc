--------------------------- MODULE DownloadProofs ---------------------------
(***************************************************************************)
(* Proofs about Download for any number of requests at the same time, any  *)
(* limit and any expiry: every archive sent is counted, the limit is       *)
(* exceeded by fewer than there are requests at once, and what is used up  *)
(* or expired stays so.                                                    *)
(***************************************************************************)
EXTENDS Download, FiniteSetTheorems, TLAPS

(* Type correctness as it is inductive: a delivery under way has its link, *)
(* a request the link and the row it read, and links are numbered as they  *)
(* are made.                                                               *)
Asked(h) == hlink[h] \in Link /\ hlink[h] <= links /\ hrow[h] \in LinkRow

LinkInv ==
  /\ TypeOK
  /\ dpc # "idle" => mailing \in Mailed
  /\ \A h \in Handlers : hpc[h] # "idle" => Asked(h)
  /\ \A l \in Link : l > links => table[l] = nil /\ served[l] = 0

LEMMA LinkInit == Init => LinkInv
<1> SUFFICES ASSUME Init PROVE LinkInv
  OBVIOUS
<1>1. TypeOK
  BY DownloadAssumption DEF Init, TypeOK
<1> QED
  BY <1>1 DEF Init, LinkInv

LEMMA FaultsAreCounted ==
  ASSUME LinkInv, faults' = faults \/ Fault
  PROVE  faults' \in 0 .. MaxFaults
<1>1. faults \in 0 .. MaxFaults /\ MaxFaults \in Nat
  BY DownloadAssumption DEF LinkInv, TypeOK
<1>2. faults' = faults \/ (faults < MaxFaults /\ faults' = faults + 1)
  BY DEF Fault
<1> QED
  BY <1>1, <1>2

(* A new link.                                                             *)
LEMMA NewLink ==
  ASSUME LinkInv, NEW b \in Beneficiaries, createSelfHostedLink(b)
  PROVE  LinkInv'
<1>0. PICK max \in 1 .. MaxDownloads :
        table' = [table EXCEPT ![links + 1] = NewRow(now + LinkExpiry, max)]
  BY DEF createSelfHostedLink
<1> DEFINE row == NewRow(now + LinkExpiry, max)
<1>1. /\ links' = links + 1 /\ table' = [table EXCEPT ![links + 1] = row]
      /\ dpc' = "mail" /\ mailing' = <<b, links + 1>>
      /\ UNCHANGED <<now, onDisk, delivered, known, hpc, hlink, hrow, served, faults>>
  BY <1>0 DEF createSelfHostedLink, handlerVars
<1>2. row \in LinkRow
  BY DownloadAssumption DEF NewRow, LinkRow, LinkInv, TypeOK
<1>3. links + 1 \in Link /\ links \in Nat /\ MaxLinks \in Nat
  BY DownloadAssumption DEF createSelfHostedLink, Link, LinkInv, TypeOK
<1> HIDE DEF row
<1>4. TypeOK'
  <2>1. table' \in [Link -> LinkRow \cup {nil}]
    BY <1>1, <1>2, <1>3 DEF LinkInv, TypeOK
  <2>2. links' \in 0 .. MaxLinks /\ mailing' \in Mailed
    BY <1>1, <1>3 DEF Link, Mailed
  <2> QED
    BY <1>1, <2>1, <2>2 DEF LinkInv, TypeOK
<1>5. \A l \in Link : l > links' => table'[l] = nil /\ served'[l] = 0
  <2> SUFFICES ASSUME NEW l \in Link, l > links + 1
               PROVE  table'[l] = nil /\ served[l] = 0
    BY <1>1
  <2>1. l > links /\ l # links + 1
    BY <1>3 DEF Link
  <2> QED
    BY <1>1, <2>1 DEF LinkInv, TypeOK
<1>6. \A h \in Handlers : hpc'[h] # "idle" => Asked(h)'
  <2> SUFFICES ASSUME NEW h \in Handlers, hpc[h] # "idle" PROVE Asked(h)'
    BY <1>1
  <2>1. hlink[h] \in Link /\ hlink[h] <= links /\ hrow[h] \in LinkRow
    BY DEF LinkInv, Asked
  <2> QED
    BY <1>1, <1>3, <2>1 DEF Asked, Link
<1> QED
  BY <1>1, <1>3, <1>4, <1>5, <1>6 DEF LinkInv, Mailed

(* The mail with it, and its record.                                       *)
LEMMA DeliveryLinks ==
  ASSUME LinkInv,
         \/ MailArrives \/ MailFails \/ MailLosesAck
         \/ RecordDelivery \/ RecordDeliveryFails
  PROVE  LinkInv'
<1>1. UNCHANGED <<now, table, links, onDisk, hpc, hlink, hrow, served>>
  BY DEF MailArrives, MailFails, MailLosesAck, RecordDelivery,
         RecordDeliveryFails, handlerVars
<1>2. mailing \in Mailed /\ dpc # "idle"
  BY DEF MailArrives, MailFails, MailLosesAck, RecordDelivery,
         RecordDeliveryFails, LinkInv
<1>3. /\ known' \subseteq known \cup {mailing}
      /\ delivered' \subseteq delivered \cup {mailing[1]}
  BY DEF MailArrives, MailFails, MailLosesAck, RecordDelivery,
         RecordDeliveryFails
<1>4. \/ dpc' = "idle" /\ mailing' = nil
      \/ dpc' = "record" /\ mailing' = mailing
  BY DEF MailArrives, MailFails, MailLosesAck, RecordDelivery,
         RecordDeliveryFails, EndDelivery
<1>5. faults' \in 0 .. MaxFaults
  <2>1. faults' = faults \/ Fault
    BY DEF MailArrives, MailFails, MailLosesAck, RecordDelivery,
           RecordDeliveryFails
  <2> QED
    BY <2>1, FaultsAreCounted
<1>6. mailing[1] \in Beneficiaries
  BY <1>2 DEF Mailed
<1>7. TypeOK'
  BY <1>1, <1>2, <1>3, <1>4, <1>5, <1>6 DEF LinkInv, TypeOK
<1> QED
  BY <1>1, <1>2, <1>4, <1>7 DEF LinkInv, Asked

(* Counting touches one row, and only its counter.                         *)
LEMMA CountedIsTyped ==
  ASSUME table \in [Link -> LinkRow \cup {nil}],
         NEW h \in Handlers, hlink[h] \in Link
  PROVE  /\ Counted(h) \in [Link -> LinkRow \cup {nil}]
         /\ \A l \in Link : table[l] = nil <=> Counted(h)[l] = nil
         /\ \A l \in Link : l # hlink[h] => Counted(h)[l] = table[l]
         /\ table[hlink[h]] # nil =>
              /\ Counted(h)[hlink[h]].expiresAt = table[hlink[h]].expiresAt
              /\ Counted(h)[hlink[h]].maxDownloads = table[hlink[h]].maxDownloads
              /\ Counted(h)[hlink[h]].downloadCount =
                   table[hlink[h]].downloadCount + 1
<1> DEFINE k == hlink[h]  row == table[k]
           more == [row EXCEPT !.downloadCount = @ + 1]
<1>1. CASE row = nil
  BY <1>1 DEF Counted
<1>2. CASE row # nil
  <2>1. Counted(h) = [table EXCEPT ![k] = more]
    BY <1>2 DEF Counted
  <2>2. /\ more \in LinkRow /\ more # nil
        /\ more.expiresAt = row.expiresAt
        /\ more.maxDownloads = row.maxDownloads
        /\ more.downloadCount = row.downloadCount + 1
    BY <1>2, DownloadAssumption DEF LinkRow
  <2> HIDE DEF more
  <2> QED
    BY <1>2, <2>1, <2>2
<1> QED
  BY <1>1, <1>2

(* A request.                                                              *)
LEMMA RequestLinks ==
  ASSUME LinkInv, NEW h \in Handlers, Handle(h)
  PROVE  LinkInv'
<1>1. UNCHANGED <<now, onDisk, links, dpc, mailing, delivered, known>>
  BY DEF Handle, GetDownloadToken, TokenMissing, Admit, Refuse,
         IncrementDownloadCount, IncrementFails, ServeFile, HandlerStays,
         deliverVars, vars
<1>2. faults' \in 0 .. MaxFaults
  <2>1. faults' = faults \/ Fault
    BY DEF Handle, GetDownloadToken, TokenMissing, Admit, Refuse,
           IncrementDownloadCount, IncrementFails, ServeFile, vars
  <2> QED
    BY <2>1, FaultsAreCounted
<1>3. /\ table \in [Link -> LinkRow \cup {nil}]
      /\ hpc \in [Handlers -> {"idle", "decide", "count", "serve"}]
      /\ hlink \in [Handlers -> Link \cup {nil}]
      /\ hrow \in [Handlers -> LinkRow \cup {nil}]
      /\ served \in [Link -> Nat]
      /\ \A l \in Link : l > links => table[l] = nil /\ served[l] = 0
      /\ \A k \in Handlers : hpc[k] # "idle" => Asked(k)
      /\ links \in Nat
  BY DEF LinkInv, TypeOK
<1> DEFINE Kept ==
        /\ table' \in [Link -> LinkRow \cup {nil}]
        /\ hpc' \in [Handlers -> {"idle", "decide", "count", "serve"}]
        /\ hlink' \in [Handlers -> Link \cup {nil}]
        /\ hrow' \in [Handlers -> LinkRow \cup {nil}]
        /\ served' \in [Link -> Nat]
        /\ \A l \in Link : l > links => table'[l] = nil /\ served'[l] = 0
        /\ \A k \in Handlers : hpc'[k] # "idle" => Asked(k)'
<1>5. ASSUME NEW l \in Link, GetDownloadToken(h, l) PROVE Kept
  <2>1. l <= links /\ table[l] \in LinkRow
    BY <1>3, <1>5 DEF GetDownloadToken, Link
  <2>2. /\ hpc' = [hpc EXCEPT ![h] = "decide"]
        /\ hlink' = [hlink EXCEPT ![h] = l]
        /\ hrow' = [hrow EXCEPT ![h] = table[l]]
        /\ UNCHANGED <<table, served, links>>
    BY <1>1, <1>5 DEF GetDownloadToken
  <2> QED
    BY <1>3, <2>1, <2>2 DEF Asked
<1>6. ASSUME TokenMissing(h) PROVE Kept
  BY <1>3, <1>6 DEF TokenMissing, vars, deliverVars, handlerVars, Asked
<1>7. ASSUME Admit(h) PROVE Kept
  BY <1>1, <1>3, <1>7 DEF Admit, Asked
<1>8. ASSUME Refuse(h) \/ IncrementFails(h) PROVE Kept
  BY <1>1, <1>3, <1>8 DEF Refuse, IncrementFails, AnswerTo, Asked
<1>9. ASSUME IncrementDownloadCount(h) PROVE Kept
  <2>1. /\ hpc[h] = "count" /\ hpc' = [hpc EXCEPT ![h] = "serve"]
        /\ UNCHANGED <<hlink, hrow, served, links>>
        /\ hlink[h] \in Link
    BY <1>1, <1>3, <1>9 DEF IncrementDownloadCount, Asked
  <2>2. /\ table' \in [Link -> LinkRow \cup {nil}]
        /\ \A l \in Link : table[l] = nil => table'[l] = nil
    BY <1>9, CountedIsTyped, <1>3, <2>1 DEF IncrementDownloadCount
  <2> QED
    BY <1>3, <2>1, <2>2 DEF Asked
<1>10. ASSUME ServeFile(h) PROVE Kept
  <2>1. /\ hpc[h] = "serve" /\ UNCHANGED <<table, links>> /\ AnswerTo(h)
        /\ Asked(h)
        /\ served' = [served EXCEPT ![hlink[h]] = IF onDisk THEN @ + 1 ELSE @]
    BY <1>1, <1>3, <1>10 DEF ServeFile
  <2>2. served' \in [Link -> Nat] /\ \A l \in Link : l > links => served'[l] = 0
    BY <1>3, <2>1 DEF Asked, Link
  <2> QED
    BY <1>3, <2>1, <2>2 DEF AnswerTo, Asked
<1>11. Kept
  BY <1>5, <1>6, <1>7, <1>8, <1>9, <1>10 DEF Handle
<1> QED
  BY <1>1, <1>2, <1>11 DEF LinkInv, TypeOK

(* The rest of the program, and time.                                      *)
LEMMA OtherLinks ==
  ASSUME LinkInv,
         \/ CleanupExpiredTokens \/ CleanupOld \/ Crash \/ Clock
         \/ UNCHANGED vars
  PROVE  LinkInv'
<1>1. CASE CleanupExpiredTokens
  BY <1>1 DEF CleanupExpiredTokens, deliverVars, handlerVars, LinkInv, TypeOK,
              Asked
<1>2. CASE CleanupOld
  BY <1>2 DEF CleanupOld, deliverVars, handlerVars, LinkInv, TypeOK, Asked
<1>3. CASE Crash
  <2>1. faults' \in 0 .. MaxFaults
    BY <1>3, FaultsAreCounted DEF Crash
  <2> QED
    BY <1>3, <2>1 DEF Crash, EndDelivery, LinkInv, TypeOK, Asked
<1>4. CASE Clock
  <2>1. now' \in 0 .. MaxTime
    BY <1>4, DownloadAssumption DEF Clock, LinkInv, TypeOK
  <2> QED
    BY <1>4, <2>1 DEF Clock, deliverVars, handlerVars, LinkInv, TypeOK, Asked
<1>5. CASE UNCHANGED vars
  BY <1>5 DEF vars, deliverVars, handlerVars, LinkInv, TypeOK, Asked
<1> QED
  BY <1>1, <1>2, <1>3, <1>4, <1>5

LEMMA LinkNext == LinkInv /\ [Next]_vars => LinkInv'
BY NewLink, DeliveryLinks, RequestLinks, OtherLinks
   DEF Next, DeliverFile, CreateLinkFails

LEMMA AlwaysLinkInv == Spec => []LinkInv
BY LinkInit, LinkNext, PTL DEF Spec

(* Deliveries, requests and clean-ups that interleave in any way keep the  *)
(* types of the table and of what they read of it.                         *)
THEOREM DownloadTypes == Spec => []TypeOK
<1>1. LinkInv => TypeOK
  BY DEF LinkInv
<1> QED
  BY <1>1, AlwaysLinkInv, PTL

-----------------------------------------------------------------------------
(* A row keeps its expiry and limit, counts upwards, and is never made again.        *)
LEMMA RowsCountUpwards ==
  ASSUME LinkInv, [Next]_vars, NEW l \in Link, l <= links
  PROVE  /\ l <= links' /\ now <= now'
         /\ table'[l] # nil =>
              /\ table[l] # nil
              /\ table'[l].expiresAt = table[l].expiresAt
              /\ table'[l].maxDownloads = table[l].maxDownloads
              /\ table[l].downloadCount <= table'[l].downloadCount
<1>0. /\ table \in [Link -> LinkRow \cup {nil}]
      /\ now \in Nat /\ links \in Nat /\ l \in Nat
      /\ table[l] # nil => table[l].downloadCount \in Nat
  BY DEF LinkInv, TypeOK, Link, LinkRow
<1>1. ASSUME NEW b \in Beneficiaries, createSelfHostedLink(b)
      PROVE  links' = links + 1 /\ now' = now /\ table'[l] = table[l]
  BY <1>0, <1>1 DEF createSelfHostedLink
<1>2. CASE \/ MailArrives \/ MailFails \/ MailLosesAck
           \/ RecordDelivery \/ RecordDeliveryFails
           \/ CleanupOld \/ Crash \/ Clock \/ UNCHANGED vars
  <2>1. UNCHANGED <<table, links>> /\ (now' = now \/ now' = now + 1)
    BY <1>2 DEF MailArrives, MailFails, MailLosesAck, RecordDelivery,
                RecordDeliveryFails, CleanupOld, Crash, Clock, vars, deliverVars
  <2> QED
    BY <1>0, <2>1
<1>3. ASSUME NEW h \in Handlers, Handle(h), ~ IncrementDownloadCount(h)
      PROVE  UNCHANGED <<table, links, now>>
  BY <1>3 DEF Handle, GetDownloadToken, TokenMissing, Admit, Refuse,
              IncrementFails, ServeFile, HandlerStays, deliverVars, vars
<1>4. ASSUME NEW h \in Handlers, IncrementDownloadCount(h)
      PROVE  /\ UNCHANGED <<links, now>>
             /\ table'[l] # nil =>
                  /\ table[l] # nil
                  /\ table'[l].expiresAt = table[l].expiresAt
                  /\ table'[l].maxDownloads = table[l].maxDownloads
                  /\ table[l].downloadCount <= table'[l].downloadCount
  <2>1. /\ table' = Counted(h) /\ hlink[h] \in Link
        /\ UNCHANGED <<links, now>>
    BY <1>4 DEF IncrementDownloadCount, HandlerStays, deliverVars, LinkInv, Asked
  <2> QED
    BY <1>0, <2>1, CountedIsTyped
<1>5. CASE CleanupExpiredTokens
  BY <1>0, <1>5 DEF CleanupExpiredTokens, deliverVars
<1> QED
  BY <1>0, <1>1, <1>2, <1>3, <1>4, <1>5 DEF Next, DeliverFile, CreateLinkFails

(* A link that is used up or expired stays so, however requests that count *)
(* at once and clean-ups interleave (IncrementDownloadCount,               *)
(* CleanupExpiredTokens).                                                  *)
THEOREM DeadLinksStayDead == Spec => DeadForGood
<1>1. LinkInv /\ [Next]_vars => [\A l \in Link : Dead(l) => Dead(l)']_vars
  <2> SUFFICES ASSUME LinkInv, [Next]_vars, NEW l \in Link, Dead(l)
               PROVE  Dead(l)'
    OBVIOUS
  <2>1. l <= links /\ l \in Nat /\ links \in Nat /\ now \in Nat
    BY DownloadAssumption DEF Dead, LinkInv, TypeOK, Link
  <2>2. now' \in Nat
    BY LinkNext DEF LinkInv, TypeOK
  <2>3. table[l] # nil =>
          /\ table[l].downloadCount \in Nat /\ table[l].expiresAt \in Nat
          /\ table[l].maxDownloads \in Nat
    BY DownloadAssumption DEF LinkInv, TypeOK, LinkRow
  <2>4. table'[l] # nil => table'[l].downloadCount \in Nat
    <3>1. table' \in [Link -> LinkRow \cup {nil}]
      BY LinkNext DEF LinkInv, TypeOK
    <3> QED
      BY <3>1 DEF LinkRow
  <2>5. /\ l <= links' /\ now <= now'
        /\ table'[l] # nil =>
             /\ table[l] # nil
             /\ table'[l].expiresAt = table[l].expiresAt
             /\ table'[l].maxDownloads = table[l].maxDownloads
             /\ table[l].downloadCount <= table'[l].downloadCount
    BY <2>1, RowsCountUpwards
  <2> QED
    BY <2>1, <2>2, <2>3, <2>4, <2>5 DEF Dead
<1> QED
  BY <1>1, AlwaysLinkInv, PTL DEF Spec, DeadForGood

-----------------------------------------------------------------------------
(* The requests for a link that are about to send the archive.             *)
Serving(l) == {h \in Handlers : hpc[h] = "serve" /\ hlink[h] = l}

LEMMA ServingIsCounted ==
  ASSUME NEW l
  PROVE  IsFiniteSet(Serving(l)) /\ Cardinality(Serving(l)) \in Nat
BY DownloadAssumption, FS_Subset, FS_CardinalityType DEF Serving

(* One request leaves the set, or joins it.                                *)
LEMMA OneServesLess ==
  ASSUME NEW l, NEW h \in Serving(l), Serving(l)' = Serving(l) \ {h}
  PROVE  Cardinality(Serving(l)') = Cardinality(Serving(l)) - 1
BY ServingIsCounted, FS_RemoveElement

LEMMA OneServesMore ==
  ASSUME NEW l, NEW h, h \notin Serving(l), Serving(l)' = Serving(l) \cup {h}
  PROVE  Cardinality(Serving(l)') = Cardinality(Serving(l)) + 1
BY ServingIsCounted, FS_AddElement

Counts(l) ==
  table[l] # nil => served[l] + Cardinality(Serving(l)) <= table[l].downloadCount

(* A step in which no request starts or ends sending, and no archive is    *)
(* sent, keeps the count.                                                  *)
LEMMA NobodyServes ==
  ASSUME LinkInv, LinkInv', NEW l \in Link, Counts(l),
         UNCHANGED served, Serving(l)' \subseteq Serving(l),
         \/ UNCHANGED <<table, links>>
         \/ table'[l] \in {table[l], nil}
  PROVE  Counts(l)'
<1>1. CASE table'[l] # nil
  <2>1. table'[l] = table[l] /\ table[l] # nil
    BY <1>1
  <2>2. served[l] \in Nat /\ table[l].downloadCount \in Nat
    BY <2>1 DEF LinkInv, TypeOK, LinkRow
  <2>3. /\ Cardinality(Serving(l)') <= Cardinality(Serving(l))
        /\ Cardinality(Serving(l)') \in Nat /\ Cardinality(Serving(l)) \in Nat
    BY ServingIsCounted, FS_Subset, FS_CardinalityType
  <2> QED
    BY <2>1, <2>2, <2>3 DEF Counts
<1> QED
  BY <1>1 DEF Counts

(* The steps of a request: it counts before it sends.                      *)
LEMMA RequestCounts ==
  ASSUME LinkInv, LinkInv', NEW h \in Handlers, Handle(h),
         NEW l \in Link, Counts(l)
  PROVE  Counts(l)'
<1>0. /\ hpc \in [Handlers -> {"idle", "decide", "count", "serve"}]
      /\ hlink \in [Handlers -> Link \cup {nil}]
      /\ served \in [Link -> Nat] /\ table \in [Link -> LinkRow \cup {nil}]
      /\ hpc[h] # "idle" => hlink[h] \in Link
  BY DEF LinkInv, TypeOK, Asked
<1>1. CASE \/ \E k \in Link : GetDownloadToken(h, k)
           \/ Admit(h) \/ Refuse(h) \/ IncrementFails(h) \/ TokenMissing(h)
  <2>1. UNCHANGED <<table, served, links>>
    BY <1>1 DEF GetDownloadToken, Admit, Refuse, IncrementFails, TokenMissing,
                vars, deliverVars, HandlerStays
  <2>2. Serving(l)' \subseteq Serving(l)
    BY <1>0, <1>1 DEF GetDownloadToken, Admit, Refuse, IncrementFails, AnswerTo,
                      TokenMissing, vars, handlerVars, Serving
  <2> QED
    BY <2>1, <2>2, NobodyServes
<1>2. CASE IncrementDownloadCount(h)
  <2>1. /\ hpc[h] = "count" /\ hpc' = [hpc EXCEPT ![h] = "serve"]
        /\ UNCHANGED <<hlink, served>> /\ table' = Counted(h) /\ hlink[h] \in Link
    BY <1>0, <1>2 DEF IncrementDownloadCount
  <2>2. CASE hlink[h] # l
    <3>1. Serving(l)' = Serving(l)
      BY <1>0, <2>1, <2>2 DEF Serving
    <3>2. table'[l] = table[l]
      BY <1>0, <2>1, <2>2, CountedIsTyped
    <3> QED
      BY <2>1, <3>1, <3>2, NobodyServes
  <2>3. CASE hlink[h] = l /\ table[l] # nil
    <3>1. h \notin Serving(l) /\ Serving(l)' = Serving(l) \cup {h}
      BY <1>0, <2>1, <2>3 DEF Serving
    <3>2. Cardinality(Serving(l)') = Cardinality(Serving(l)) + 1
      BY <3>1, OneServesMore
    <3>3. table'[l].downloadCount = table[l].downloadCount + 1
      BY <1>0, <2>1, <2>3, CountedIsTyped
    <3>4. table[l].downloadCount \in Nat /\ served[l] \in Nat
      BY <1>0, <2>3 DEF LinkRow
    <3> QED
      BY <2>1, <2>3, <3>2, <3>3, <3>4, ServingIsCounted DEF Counts
  <2>4. CASE hlink[h] = l /\ table[l] = nil
    <3>1. table'[l] = nil
      BY <1>0, <2>1, <2>4, CountedIsTyped
    <3> QED
      BY <3>1 DEF Counts
  <2> QED
    BY <2>2, <2>3, <2>4
<1>3. CASE ServeFile(h)
  <2>1. /\ hpc[h] = "serve" /\ hpc' = [hpc EXCEPT ![h] = "idle"]
        /\ hlink' = [hlink EXCEPT ![h] = nil] /\ table' = table
        /\ served' = [served EXCEPT ![hlink[h]] = IF onDisk THEN @ + 1 ELSE @]
        /\ hlink[h] \in Link
    BY <1>0, <1>3 DEF ServeFile, AnswerTo
  <2>2. CASE hlink[h] # l
    <3>1. Serving(l)' = Serving(l) /\ served'[l] = served[l]
      BY <1>0, <2>1, <2>2 DEF Serving
    <3> QED
      BY <2>1, <3>1 DEF Counts
  <2>3. CASE hlink[h] = l
    <3>1. h \in Serving(l) /\ Serving(l)' = Serving(l) \ {h}
      BY <1>0, <2>1, <2>3 DEF Serving
    <3>2. Cardinality(Serving(l)') = Cardinality(Serving(l)) - 1
      BY <3>1, OneServesLess
    <3>3. served'[l] \in {served[l], served[l] + 1} /\ served[l] \in Nat
      BY <1>0, <2>1, <2>3
    <3>4. table[l] # nil => table[l].downloadCount \in Nat
      BY <1>0 DEF LinkRow
    <3> QED
      BY <2>1, <3>2, <3>3, <3>4, ServingIsCounted DEF Counts
  <2> QED
    BY <2>2, <2>3
<1> QED
  BY <1>1, <1>2, <1>3 DEF Handle

(* Every other step.                                                       *)
LEMMA OtherCounts ==
  ASSUME LinkInv, LinkInv', [Next]_vars, ~ \E h \in Handlers : Handle(h),
         NEW l \in Link, Counts(l)
  PROVE  Counts(l)'
<1>0. served \in [Link -> Nat] /\ table \in [Link -> LinkRow \cup {nil}] /\ links \in Nat
  BY DEF LinkInv, TypeOK
<1>1. ASSUME NEW b \in Beneficiaries, createSelfHostedLink(b)
      PROVE  Counts(l)'
  <2>1. /\ UNCHANGED <<served, hpc, hlink>> /\ links' = links + 1
        /\ \E max \in 1 .. MaxDownloads :
             table' = [table EXCEPT ![links + 1] = NewRow(now + LinkExpiry, max)]
    BY <1>1 DEF createSelfHostedLink, handlerVars
  <2>2. Serving(l)' = Serving(l)
    BY <2>1 DEF Serving
  <2>3. CASE l # links + 1
    <3>1. table'[l] = table[l]
      BY <1>0, <2>1, <2>3
    <3> QED
      BY <2>1, <2>2, <3>1, NobodyServes
  <2>4. CASE l = links + 1
    <3>1. served[l] = 0 /\ table'[l].downloadCount = 0
      BY <1>0, <2>1, <2>4 DEF LinkInv, NewRow
    <3>2. Serving(l) = {}
      <4>1. \A h \in Handlers : hpc[h] # "idle" => hlink[h] \in Nat /\ hlink[h] <= links
        BY DEF LinkInv, Asked, Link
      <4> QED
        BY <1>0, <2>4, <4>1 DEF Serving
    <3>3. Cardinality(Serving(l)') = 0
      BY <2>2, <3>2, FS_EmptySet
    <3> QED
      BY <2>1, <3>1, <3>3 DEF Counts
  <2> QED
    BY <2>3, <2>4
<1>2. CASE \/ MailArrives \/ MailFails \/ MailLosesAck
           \/ RecordDelivery \/ RecordDeliveryFails
           \/ CleanupOld \/ Clock \/ UNCHANGED vars
  <2>1. UNCHANGED <<table, served, hpc, hlink, links>>
    BY <1>2 DEF MailArrives, MailFails, MailLosesAck, RecordDelivery,
                RecordDeliveryFails, CleanupOld, Clock, vars, deliverVars,
                handlerVars
  <2>2. Serving(l)' = Serving(l)
    BY <2>1 DEF Serving
  <2> QED
    BY <2>1, <2>2, NobodyServes
<1>3. CASE CleanupExpiredTokens
  <2>1. /\ UNCHANGED <<served, hpc, hlink>> /\ table'[l] \in {table[l], nil}
    BY <1>3 DEF CleanupExpiredTokens, handlerVars
  <2>2. Serving(l)' = Serving(l)
    BY <2>1 DEF Serving
  <2> QED
    BY <2>1, <2>2, NobodyServes
<1>4. CASE Crash
  <2>1. UNCHANGED <<table, served, links>> /\ Serving(l)' = {}
    BY <1>4 DEF Crash, Serving
  <2> QED
    BY <2>1, NobodyServes
<1> QED
  BY <1>1, <1>2, <1>3, <1>4 DEF Next, DeliverFile, CreateLinkFails

(* Every archive that was sent, or is about to be, is counted in its row   *)
(* while the row is there (IncrementDownloadCount before ServeFile),       *)
(* however requests, crashes and clean-ups interleave.                     *)
THEOREM DownloadsAreCounted == Spec => []EveryDownloadIsCounted
<1>1. Init => EveryDownloadIsCounted
  BY DEF Init, EveryDownloadIsCounted
<1>2. LinkInv /\ EveryDownloadIsCounted /\ [Next]_vars => EveryDownloadIsCounted'
  <2> SUFFICES ASSUME LinkInv, EveryDownloadIsCounted, [Next]_vars,
                      NEW l \in Link
               PROVE  Counts(l)'
    BY DEF EveryDownloadIsCounted, Counts, Serving
  <2>1. LinkInv' /\ Counts(l)
    BY LinkNext DEF EveryDownloadIsCounted, Counts, Serving
  <2> QED
    BY <2>1, RequestCounts, OtherCounts
<1> QED
  BY <1>1, <1>2, AlwaysLinkInv, PTL DEF Spec

-----------------------------------------------------------------------------
(* The requests for a link that may still send the archive: they have been *)
(* admitted, or will be by the row they read.                              *)
May(l) ==
  {h \in Handlers :
     /\ hlink[h] = l
     /\ \/ hpc[h] \in {"count", "serve"}
        \/ hpc[h] = "decide" /\ hrow[h].downloadCount < hrow[h].maxDownloads}

Limit(l) == LimitOf(l) + Cardinality(Handlers) - 1

Within(l) == served[l] + Cardinality(May(l)) <= Limit(l)

LEMMA HandlersAreFinite ==
  /\ IsFiniteSet(Handlers) /\ Cardinality(Handlers) \in Nat \ {0}
  /\ MaxDownloads \in Nat \ {0}
BY DownloadAssumption, FS_CardinalityType, FS_EmptySet

(* The limit of a link is a number, and does not get smaller once the link *)
(* is made.                                                                *)
LEMMA LimitsAreNumbers ==
  ASSUME LinkInv, NEW l \in Link
  PROVE  /\ LimitOf(l) \in Nat \ {0} /\ LimitOf(l) <= MaxDownloads
         /\ Limit(l) \in Nat /\ Limit(l) = LimitOf(l) + Cardinality(Handlers) - 1
BY HandlersAreFinite DEF LinkInv, TypeOK, LinkRow, LimitOf, Limit

LEMMA LimitsStayNumbers ==
  ASSUME LinkInv', NEW l \in Link
  PROVE  /\ LimitOf(l)' \in Nat \ {0} /\ Limit(l)' \in Nat
         /\ Limit(l)' = LimitOf(l)' + Cardinality(Handlers) - 1
BY HandlersAreFinite DEF LinkInv, TypeOK, LinkRow, LimitOf, Limit

LEMMA LimitsStay ==
  ASSUME LinkInv, [Next]_vars, NEW l \in Link, l <= links
  PROVE  LimitOf(l) <= LimitOf(l)'
<1>1. LimitOf(l) \in Nat /\ LimitOf(l) <= MaxDownloads /\ MaxDownloads \in Nat
  BY LimitsAreNumbers, HandlersAreFinite
<1>2. CASE table'[l] = nil
  BY <1>1, <1>2 DEF LimitOf
<1>3. CASE table'[l] # nil
  <2>1. table[l] # nil /\ table'[l].maxDownloads = table[l].maxDownloads
    BY <1>3, RowsCountUpwards
  <2> QED
    BY <1>1, <1>3, <2>1 DEF LimitOf
<1> QED
  BY <1>2, <1>3

LEMMA FewMay ==
  ASSUME NEW S, S \subseteq Handlers
  PROVE  /\ IsFiniteSet(S) /\ Cardinality(S) \in Nat
         /\ Cardinality(S) <= Cardinality(Handlers)
BY HandlersAreFinite, FS_Subset, FS_CardinalityType

(* Whoever gives up, or is sent the archive, leaves; and while nobody      *)
(* joins, the bound is kept.                                               *)
LEMMA NobodyJoins ==
  ASSUME LinkInv, [Next]_vars, NEW l \in Link, l <= links, Within(l),
         UNCHANGED served, May(l)' \subseteq May(l)
  PROVE  Within(l)'
<1>0. /\ LinkInv' /\ LimitOf(l) <= LimitOf(l)'
      /\ Limit(l) \in Nat /\ LimitOf(l) \in Nat
      /\ Limit(l)' \in Nat /\ LimitOf(l)' \in Nat
  <2>1. LinkInv' /\ LimitOf(l) <= LimitOf(l)'
    BY LimitsStay, LinkNext
  <2>2. /\ LimitOf(l)' \in Nat \ {0} /\ Limit(l)' \in Nat
        /\ Limit(l)' = LimitOf(l)' + Cardinality(Handlers) - 1
    BY <2>1, LimitsStayNumbers
  <2> QED
    BY <2>1, <2>2, LimitsAreNumbers
<1>1. May(l) \subseteq Handlers /\ May(l)' \subseteq Handlers
  BY DEF May
<1>2. Cardinality(May(l)') <= Cardinality(May(l))
  BY <1>1, FewMay, FS_Subset
<1>3. served[l] \in Nat
  BY DEF LinkInv, TypeOK
<1> QED
  BY <1>0, <1>1, <1>2, <1>3, FewMay, HandlersAreFinite DEF Within, Limit

LEMMA RequestWithin ==
  ASSUME LinkInv, EveryDownloadIsCounted, NEW h \in Handlers, Handle(h),
         NEW l \in Link, l <= links, Within(l)
  PROVE  Within(l)'
<1>0. /\ hpc \in [Handlers -> {"idle", "decide", "count", "serve"}]
      /\ hlink \in [Handlers -> Link \cup {nil}]
      /\ hrow \in [Handlers -> LinkRow \cup {nil}]
      /\ served \in [Link -> Nat] /\ table \in [Link -> LinkRow \cup {nil}]
      /\ hpc[h] # "idle" => hlink[h] \in Link
  BY DEF LinkInv, TypeOK, Asked
<1>4. [Next]_vars
  BY DEF Next
<1>5. /\ LimitOf(l) <= LimitOf(l)' /\ Limit(l) <= Limit(l)'
      /\ LimitOf(l) \in Nat \ {0} /\ Limit(l) \in Nat
      /\ LimitOf(l)' \in Nat \ {0} /\ Limit(l)' \in Nat
      /\ Limit(l) = LimitOf(l) + Cardinality(Handlers) - 1
  <2>1. LinkInv' /\ LimitOf(l) <= LimitOf(l)'
    BY <1>4, LimitsStay, LinkNext
  <2>2. /\ LimitOf(l)' \in Nat \ {0} /\ Limit(l)' \in Nat
        /\ Limit(l)' = LimitOf(l)' + Cardinality(Handlers) - 1
    BY <2>1, LimitsStayNumbers
  <2> QED
    BY <2>1, <2>2, LimitsAreNumbers, HandlersAreFinite
<1>1. ASSUME NEW k \in Link, GetDownloadToken(h, k)
      PROVE  Within(l)'
  <2>1. /\ hpc' = [hpc EXCEPT ![h] = "decide"] /\ hlink' = [hlink EXCEPT ![h] = k]
        /\ hrow' = [hrow EXCEPT ![h] = table[k]] /\ table[k] # nil
        /\ UNCHANGED served
    BY <1>1 DEF GetDownloadToken
  <2>2. CASE k = l /\ table[l].downloadCount < table[l].maxDownloads
    <3>1. /\ table[l] \in LinkRow /\ table[l].downloadCount \in Nat
          /\ table[l].maxDownloads = LimitOf(l)
      BY <1>0, <2>1, <2>2 DEF LinkRow, LimitOf
    <3>2. served[l] + Cardinality(Serving(l)) <= table[l].downloadCount
      BY <2>1, <2>2 DEF EveryDownloadIsCounted, Serving
    <3>3. served'[l] \in Nat /\ served'[l] <= LimitOf(l) - 1
      BY <1>0, <1>5, <2>1, <2>2, <3>1, <3>2, ServingIsCounted
    <3>4. /\ Cardinality(May(l)') \in Nat
          /\ Cardinality(May(l)') <= Cardinality(Handlers)
      <4>1. May(l)' \subseteq Handlers
        BY DEF May
      <4> QED
        BY <4>1, FewMay
    <3> QED
      BY <1>5, <3>3, <3>4, HandlersAreFinite DEF Within
  <2>3. CASE ~ (k = l /\ table[l].downloadCount < table[l].maxDownloads)
    <3>1. May(l)' \subseteq May(l)
      BY <1>0, <2>1, <2>3 DEF May
    <3> QED
      BY <1>4, <2>1, <3>1, NobodyJoins
  <2> QED
    BY <2>2, <2>3
<1>2. CASE \/ Admit(h) \/ Refuse(h) \/ IncrementFails(h) \/ TokenMissing(h)
           \/ IncrementDownloadCount(h)
  <2>1. UNCHANGED served
    BY <1>2 DEF Admit, Refuse, IncrementFails, TokenMissing,
                IncrementDownloadCount, vars
  <2>2. May(l)' \subseteq May(l)
    <3>1. CASE Admit(h)
      BY <1>0, <3>1 DEF Admit, MayDownload, May
    <3>2. CASE Refuse(h) \/ IncrementFails(h)
      BY <1>0, <3>2 DEF Refuse, IncrementFails, AnswerTo, May
    <3>3. CASE TokenMissing(h)
      BY <3>3 DEF TokenMissing, vars, handlerVars, May
    <3>4. CASE IncrementDownloadCount(h)
      BY <1>0, <3>4 DEF IncrementDownloadCount, May
    <3> QED
      BY <1>2, <3>1, <3>2, <3>3, <3>4
  <2> QED
    BY <1>4, <2>1, <2>2, NobodyJoins
<1>3. CASE ServeFile(h)
  <2>1. /\ hpc[h] = "serve" /\ hpc' = [hpc EXCEPT ![h] = "idle"]
        /\ hlink' = [hlink EXCEPT ![h] = nil] /\ hrow' = [hrow EXCEPT ![h] = nil]
        /\ served' = [served EXCEPT ![hlink[h]] = IF onDisk THEN @ + 1 ELSE @]
        /\ hlink[h] \in Link
    BY <1>0, <1>3 DEF ServeFile, AnswerTo
  <2>2. May(l)' = May(l) \ {h}
    BY <1>0, <2>1 DEF May
  <2>3. May(l) \subseteq Handlers
    BY DEF May
  <2>4. CASE hlink[h] = l
    <3>1. h \in May(l)
      BY <2>1, <2>4 DEF May
    <3>2. Cardinality(May(l)') = Cardinality(May(l)) - 1
      BY <2>2, <2>3, <3>1, FewMay, FS_RemoveElement
    <3>3. served'[l] \in {served[l], served[l] + 1} /\ served[l] \in Nat
      BY <1>0, <2>1, <2>4
    <3> QED
      BY <1>5, <2>3, <3>2, <3>3, FewMay DEF Within
  <2>5. CASE hlink[h] # l
    <3>1. h \notin May(l) /\ served'[l] = served[l] /\ served[l] \in Nat
      BY <1>0, <2>1, <2>5 DEF May
    <3> QED
      BY <1>5, <2>2, <2>3, <3>1, FewMay DEF Within
  <2> QED
    BY <2>4, <2>5
<1> QED
  BY <1>1, <1>2, <1>3 DEF Handle

(* A link that was not made before the step has not been asked for.        *)
LEMMA NewWithin ==
  ASSUME LinkInv, [Next]_vars, NEW l \in Link, ~ (l <= links)
  PROVE  Within(l)'
<1>0. /\ LinkInv' /\ links \in Nat /\ links' \in Nat /\ l \in Nat
      /\ served[l] = 0
      /\ \A h \in Handlers :
           hpc[h] # "idle" => hlink[h] \in Nat /\ hlink[h] <= links
      /\ ~ (l <= links') =>
           /\ served'[l] = 0
           /\ \A h \in Handlers :
                hpc'[h] # "idle" => hlink'[h] \in Nat /\ hlink'[h] <= links'
  BY LinkNext DEF LinkInv, TypeOK, Asked, Link
<1>1. links' = links \/ \E b \in Beneficiaries : createSelfHostedLink(b)
  BY DEF Next, DeliverFile, CreateLinkFails, MailArrives, MailFails,
         MailLosesAck, RecordDelivery, RecordDeliveryFails, Handle,
         GetDownloadToken, TokenMissing, Admit, Refuse, IncrementDownloadCount,
         IncrementFails, ServeFile, HandlerStays, CleanupExpiredTokens,
         CleanupOld, Crash, Clock, vars, deliverVars
<1>2. served'[l] = 0 /\ \A h \in Handlers : hpc'[h] # "idle" => hlink'[h] # l
  <2>1. CASE \E b \in Beneficiaries : createSelfHostedLink(b)
    <3>1. UNCHANGED <<served, hpc, hlink>>
      BY <2>1 DEF createSelfHostedLink, handlerVars
    <3> QED
      BY <1>0, <3>1
  <2>2. CASE links' = links
    BY <1>0, <2>2
  <2> QED
    BY <1>1, <2>1, <2>2
<1>3. May(l)' = {}
  BY <1>2 DEF May
<1>4. Limit(l)' \in Nat
  BY <1>0, LimitsStayNumbers
<1>5. Cardinality(May(l)') = 0
  BY <1>3, FS_EmptySet
<1> QED
  BY <1>2, <1>4, <1>5 DEF Within

(* The limit on downloads can be exceeded, because requests decide before  *)
(* they count; but never by as many as there are requests at a time        *)
(* (handleDownload).                                                       *)
THEOREM LimitIsNearlyKept == Spec => []OvershootBounded
<1> DEFINE Inv == \A l \in Link : Within(l)
<1>1. Init => Inv
  <2> SUFFICES ASSUME Init, NEW l \in Link PROVE Within(l)
    OBVIOUS
  <2>1. May(l) = {} /\ served[l] = 0
    BY DEF Init, May
  <2>2. Limit(l) \in Nat
    BY LinkInit, LimitsAreNumbers
  <2> QED
    BY <2>1, <2>2, FS_EmptySet DEF Within
<1>2. LinkInv /\ EveryDownloadIsCounted /\ Inv /\ [Next]_vars => Inv'
  <2> SUFFICES ASSUME LinkInv, EveryDownloadIsCounted, Inv, [Next]_vars,
                      NEW l \in Link
               PROVE  Within(l)'
    OBVIOUS
  <2>0. CASE ~ (l <= links)
    BY <2>0, NewWithin
  <2>1. CASE l <= links /\ \E h \in Handlers : Handle(h)
    BY <2>1, RequestWithin
  <2>2. CASE /\ l <= links
             /\ \/ DeliverFile \/ CleanupExpiredTokens \/ CleanupOld \/ Crash
                \/ Clock \/ UNCHANGED vars
    <3>1. UNCHANGED served
      BY <2>2 DEF DeliverFile, createSelfHostedLink, CreateLinkFails,
                  MailArrives, MailFails, MailLosesAck, RecordDelivery,
                  RecordDeliveryFails, CleanupExpiredTokens, CleanupOld, Crash,
                  Clock, vars
    <3>2. CASE Crash
      <4>1. May(l)' \subseteq May(l)
        BY <3>2 DEF Crash, May
      <4> QED
        BY <2>2, <3>1, <4>1, NobodyJoins
    <3>3. CASE ~ Crash
      <4>1. UNCHANGED <<hpc, hlink, hrow>>
        BY <2>2, <3>3
           DEF DeliverFile, createSelfHostedLink, CreateLinkFails, MailArrives,
               MailFails, MailLosesAck, RecordDelivery, RecordDeliveryFails,
               CleanupExpiredTokens, CleanupOld, Clock, vars, handlerVars
      <4>2. May(l)' = May(l)
        BY <4>1 DEF May
      <4> QED
        BY <2>2, <3>1, <4>2, NobodyJoins
    <3> QED
      BY <3>2, <3>3
  <2> QED
    BY <2>0, <2>1, <2>2 DEF Next
<1>3. LinkInv /\ Inv => OvershootBounded
  <2> SUFFICES ASSUME LinkInv, Inv, NEW l \in Link PROVE served[l] <= Limit(l)
    BY DEF OvershootBounded, Limit
  <2>1. Within(l) /\ served[l] \in Nat /\ May(l) \subseteq Handlers
    BY DEF LinkInv, TypeOK, May
  <2> QED
    BY <2>1, FewMay, LimitsAreNumbers DEF Within
<1> QED
  BY <1>1, <1>2, <1>3, AlwaysLinkInv, DownloadsAreCounted, PTL DEF Spec

-----------------------------------------------------------------------------
(* Links beyond the first of a beneficiary.                                *)

(* Who holds a link, and whose delivery is known to the program, the one   *)
(* about to be recorded included.                                          *)
Holders == {m[1] : m \in known}
Settled == delivered \cup (IF dpc = "record" THEN {mailing[1]} ELSE {})

(* A delivery is of a link nobody has had yet, for somebody not recorded   *)
(* as reached; whoever has been reached without a fault is settled.        *)
HeldInv ==
  /\ LinkInv
  /\ IsFiniteSet(known) /\ IsFiniteSet(delivered) /\ IsFiniteSet(Holders)
  /\ Settled \subseteq Holders
  /\ dpc # "idle" => mailing[1] \notin delivered /\ mailing[2] <= links
  /\ dpc = "mail" => mailing \notin known
  /\ \A m \in known : m[2] <= links
  /\ Cardinality(known) <= Cardinality(Settled) + faults

LEMMA HeldInit == Init => HeldInv
<1> SUFFICES ASSUME Init PROVE HeldInv
  OBVIOUS
<1>1. known = {} /\ delivered = {} /\ Holders = {} /\ Settled = {} /\ dpc = "idle"
  BY DEF Init, Holders, Settled
<1>2. faults = 0 /\ 0 <= 0 + 0
  BY DEF Init
<1> QED
  BY <1>1, <1>2, LinkInit, FS_EmptySet DEF HeldInv

(* A mail that arrives adds one link, and its holder.                      *)
LEMMA OneMoreHeld ==
  ASSUME HeldInv, dpc = "mail", known' = known \cup {mailing}
  PROVE  /\ IsFiniteSet(known') /\ Cardinality(known') = Cardinality(known) + 1
         /\ Holders' = Holders \cup {mailing[1]} /\ IsFiniteSet(Holders')
         /\ \A m \in known' : m[2] <= links
<1>1. IsFiniteSet(known') /\ Cardinality(known') = Cardinality(known) + 1
  BY FS_AddElement DEF HeldInv
<1>2. Holders' = Holders \cup {mailing[1]}
  BY DEF Holders
<1>3. IsFiniteSet(Holders \cup {mailing[1]})
  BY FS_AddElement DEF HeldInv
<1>4. mailing[2] <= links
  BY DEF HeldInv
<1> QED
  BY <1>1, <1>2, <1>3, <1>4 DEF HeldInv

LEMMA DeliveryHeld ==
  ASSUME HeldInv, DeliverFile
  PROVE  HeldInv'
<1>0. /\ LinkInv' /\ LinkInv /\ links \in Nat /\ faults \in Nat
      /\ known \subseteq Mailed /\ delivered \subseteq Beneficiaries
      /\ IsFiniteSet(known) /\ IsFiniteSet(delivered) /\ IsFiniteSet(Holders)
      /\ Cardinality(known) \in Nat /\ Cardinality(delivered) \in Nat
      /\ Cardinality(known) <= Cardinality(Settled) + faults
      /\ Settled \subseteq Holders
  BY LinkNext, FS_CardinalityType DEF HeldInv, LinkInv, TypeOK, Next
<1>1. ASSUME NEW b \in Beneficiaries, createSelfHostedLink(b)
      PROVE  HeldInv'
  <2>1. /\ dpc = "idle" /\ dpc' = "mail" /\ b \notin delivered
        /\ mailing' = <<b, links + 1>> /\ links' = links + 1
        /\ UNCHANGED <<known, delivered, faults>>
    BY <1>1 DEF createSelfHostedLink
  <2>2. Settled = delivered /\ Settled' = delivered /\ Holders' = Holders
    BY <2>1 DEF Settled, Holders
  <2>3. \A m \in known : m[2] \in Nat /\ m[2] <= links
    BY <1>0 DEF HeldInv, Mailed, Link
  <2>4. (\A m \in known : m[2] <= links + 1) /\ <<b, links + 1>> \notin known
    BY <1>0, <2>3
  <2>5. mailing'[2] <= links' /\ mailing'[1] = b
    BY <1>0, <2>1
  <2> QED
    BY <1>0, <2>1, <2>2, <2>4, <2>5 DEF HeldInv
<1>2. CASE MailArrives \/ MailLosesAck
  <2>1. /\ dpc = "mail" /\ known' = known \cup {mailing}
        /\ UNCHANGED <<links, delivered>>
        /\ \/ dpc' = "record" /\ UNCHANGED <<mailing, faults>>
           \/ dpc' = "idle" /\ faults' = faults + 1
    BY <1>2 DEF MailArrives, MailLosesAck, EndDelivery, Fault
  <2>2. /\ IsFiniteSet(known') /\ Cardinality(known') = Cardinality(known) + 1
        /\ Holders' = Holders \cup {mailing[1]} /\ IsFiniteSet(Holders')
        /\ \A m \in known' : m[2] <= links
    BY <2>1, OneMoreHeld
  <2>3. Settled = delivered /\ mailing[1] \notin delivered /\ mailing[2] <= links
    BY <2>1 DEF Settled, HeldInv
  <2>4. Settled' \subseteq Holders'
    BY <1>0, <2>1, <2>2, <2>3 DEF Settled
  <2>5. Cardinality(delivered \cup {mailing[1]}) = Cardinality(delivered) + 1
    BY <1>0, <2>3, FS_AddElement
  <2>6. Cardinality(known') <= Cardinality(Settled') + faults'
    <3>1. Cardinality(known) + 1 <= Cardinality(delivered) + (faults + 1)
      BY <1>0, <2>3
    <3>2. Cardinality(known) + 1 <= Cardinality(delivered) + 1 + faults
      BY <1>0, <2>3
    <3>3. \/ Settled' = delivered \cup {mailing[1]} /\ faults' = faults
          \/ Settled' = delivered /\ faults' = faults + 1
      BY <2>1 DEF Settled
    <3> QED
      BY <2>2, <2>5, <3>1, <3>2, <3>3
  <2> QED
    BY <1>0, <2>1, <2>2, <2>3, <2>4, <2>6 DEF HeldInv
<1>3. CASE MailFails
  <2>1. /\ dpc = "mail" /\ dpc' = "idle"
        /\ UNCHANGED <<known, links, delivered, faults>>
    BY <1>3 DEF MailFails, EndDelivery
  <2>2. Settled' = Settled /\ Holders' = Holders
    BY <2>1 DEF Settled, Holders
  <2> QED
    BY <1>0, <2>1, <2>2 DEF HeldInv
<1>4. CASE RecordDelivery \/ RecordDeliveryFails
  <2>1. /\ dpc = "record" /\ dpc' = "idle" /\ UNCHANGED <<known, links>>
        /\ \/ /\ delivered' = delivered \cup {mailing[1]}
              /\ faults' \in {faults, faults + 1}
           \/ delivered' = delivered /\ faults' = faults + 1
    BY <1>4 DEF RecordDelivery, RecordDeliveryFails, EndDelivery, Fault
  <2>2. /\ Settled = delivered \cup {mailing[1]} /\ Settled' = delivered'
        /\ Holders' = Holders
    BY <2>1 DEF Settled, Holders
  <2>3. /\ IsFiniteSet(delivered \cup {mailing[1]})
        /\ Cardinality(Settled) \in {Cardinality(delivered), Cardinality(delivered) + 1}
    BY <1>0, <2>2, FS_AddElement
  <2>4. Cardinality(known) <= Cardinality(Settled') + faults'
    <3>1. CASE faults' \in {faults, faults + 1} /\ Settled' = Settled
      <4>1. Cardinality(Settled) \in Nat /\ faults \in Nat
        BY <1>0, <2>3
      <4> QED
        BY <1>0, <3>1, <4>1
    <3>2. CASE faults' = faults + 1 /\ Settled' = delivered
      <4>1. Cardinality(known) <= Cardinality(delivered) + (faults + 1)
        BY <1>0, <2>3
      <4> QED
        BY <3>2, <4>1
    <3> QED
      BY <2>1, <2>2, <3>1, <3>2
  <2> QED
    BY <1>0, <2>1, <2>2, <2>3, <2>4 DEF HeldInv
<1>5. ASSUME NEW b \in Beneficiaries, CreateLinkFails(b)
      PROVE  HeldInv'
  <2>1. UNCHANGED <<known, delivered, faults, links, dpc, mailing>>
    BY <1>5 DEF CreateLinkFails, vars, deliverVars
  <2>2. Settled' = Settled /\ Holders' = Holders
    BY <2>1 DEF Settled, Holders
  <2> QED
    BY <1>0, <2>1, <2>2 DEF HeldInv
<1> QED
  BY <1>1, <1>2, <1>3, <1>4, <1>5 DEF DeliverFile

(* A crash forgets at most the delivery that was about to be recorded.     *)
LEMMA CrashHeld ==
  ASSUME HeldInv, Crash
  PROVE  HeldInv'
<1>0. /\ LinkInv' /\ faults \in Nat
      /\ IsFiniteSet(known) /\ IsFiniteSet(delivered)
      /\ Cardinality(known) \in Nat /\ Cardinality(delivered) \in Nat
      /\ Cardinality(known) <= Cardinality(Settled) + faults
  BY LinkNext, FS_CardinalityType DEF HeldInv, LinkInv, TypeOK, Next
<1>1. /\ dpc' = "idle" /\ faults' = faults + 1
      /\ UNCHANGED <<known, delivered, links>>
  BY DEF Crash, EndDelivery, Fault
<1>2. Settled' = delivered /\ Holders' = Holders
  BY <1>1 DEF Settled, Holders
<1>3. Cardinality(Settled) \in {Cardinality(delivered), Cardinality(delivered) + 1}
  BY <1>0, FS_AddElement DEF Settled
<1>4. Settled' \subseteq Holders
  BY <1>2 DEF Settled, HeldInv
<1> QED
  BY <1>0, <1>1, <1>2, <1>3, <1>4 DEF HeldInv

LEMMA HeldNext == HeldInv /\ [Next]_vars => HeldInv'
<1> SUFFICES ASSUME HeldInv, [Next]_vars PROVE HeldInv'
  OBVIOUS
<1>1. CASE \/ \E h \in Handlers : Handle(h)
           \/ CleanupExpiredTokens \/ CleanupOld \/ Clock \/ UNCHANGED vars
  <2>1. /\ UNCHANGED <<known, delivered, dpc, mailing, links>>
        /\ faults' = faults \/ faults' = faults + 1
    BY <1>1 DEF Handle, GetDownloadToken, TokenMissing, Admit, Refuse,
                IncrementDownloadCount, IncrementFails, ServeFile,
                HandlerStays, CleanupExpiredTokens, CleanupOld, Clock, Fault,
                deliverVars, vars
  <2>2. Settled' = Settled /\ Holders' = Holders
    BY <2>1 DEF Settled, Holders
  <2>3. Settled \subseteq delivered \cup {mailing[1]}
    BY DEF Settled
  <2>4. /\ faults \in Nat /\ IsFiniteSet(delivered \cup {mailing[1]})
        /\ IsFiniteSet(known)
    BY FS_AddElement DEF HeldInv, LinkInv, TypeOK
  <2>5. Cardinality(Settled) \in Nat /\ Cardinality(known) \in Nat
    BY <2>3, <2>4, FS_Subset, FS_CardinalityType
  <2>6. Cardinality(known) <= Cardinality(Settled) + faults'
    BY <2>1, <2>4, <2>5 DEF HeldInv
  <2> QED
    BY <2>1, <2>2, <2>6, LinkNext DEF HeldInv
<1> QED
  BY <1>1, DeliveryHeld, CrashHeld DEF Next

(* A beneficiary who holds more than one link holds it for a fault: there  *)
(* are no more links in mailboxes than beneficiaries who have one, and     *)
(* lost acknowledgements, failed records and crashes (deliver,             *)
(* DeliverFile).                                                           *)
THEOREM LinksAreAccountedFor == Spec => []ExtraLinksAreFaults
<1>1. HeldInv => ExtraLinksAreFaults
  <2> SUFFICES ASSUME HeldInv PROVE ExtraLinksAreFaults
    OBVIOUS
  <2>1. IsFiniteSet(Holders) /\ Settled \subseteq Holders
    BY DEF HeldInv
  <2>2. /\ Cardinality(Settled) <= Cardinality(Holders)
        /\ Cardinality(Settled) \in Nat /\ Cardinality(Holders) \in Nat
    BY <2>1, FS_Subset, FS_CardinalityType
  <2>3. /\ Cardinality(known) <= Cardinality(Settled) + faults
        /\ Cardinality(known) \in Nat /\ faults \in Nat
    BY FS_CardinalityType DEF HeldInv, LinkInv, TypeOK
  <2> QED
    BY <2>2, <2>3 DEF ExtraLinksAreFaults, Holders
<1> QED
  BY <1>1, HeldInit, HeldNext, PTL DEF Spec
=============================================================================
