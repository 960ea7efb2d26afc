--------------------------- MODULE ConfigProofs ----------------------------
(***************************************************************************)
(* A configuration that Load accepts is one the program can work with: it  *)
(* fits what the other modules assume of their constants, its defaults are *)
(* accepted, and no mail of a beneficiary in Chinese lacks its text.       *)
(***************************************************************************)
EXTENDS Config, TLAPS

(* The sections of a loaded configuration.                                 *)
LEMMA Sections ==
  ASSUME NEW raw \in Config
  PROVE  /\ Load(raw).targetFlow = FlowDefaults(raw.targetFlow)
         /\ Load(raw).download = DownloadDefaults(raw.download)
         /\ Load(raw).archive.keepArchives = NumberOr(raw.archive.keepArchives, 3)
         /\ Load(raw).reliability = raw.reliability
         /\ Load(raw).healthcheck = HealthcheckDefaults(raw.healthcheck)
         /\ Load(raw).templates = raw.templates
         /\ Load(raw).beneficiaries =
              [i \in 1 .. Len(raw.beneficiaries) |->
                [raw.beneficiaries[i] EXCEPT !.lang = TextOr(@, "zh")]]
  BY DEF Config, Load, WithLanguages, applyDefaults

(* What Validate has seen of them.                                         *)
LEMMA Checked ==
  ASSUME NEW raw \in Config, Accepted(raw)
  PROVE  /\ ValidFlow(FlowDefaults(raw.targetFlow))
         /\ ValidBeneficiaries(raw)
         /\ ValidDownload(DownloadDefaults(raw.download))
         /\ ValidTemplates(raw)
  <1>1. Validate(applyDefaults(raw))
    BY DEF Accepted
  <1>2. /\ applyDefaults(raw).targetFlow = FlowDefaults(raw.targetFlow)
        /\ applyDefaults(raw).download = DownloadDefaults(raw.download)
        /\ applyDefaults(raw).beneficiaries = raw.beneficiaries
        /\ applyDefaults(raw).templates = raw.templates
        /\ applyDefaults(raw).reliability = raw.reliability
    BY DEF Config, applyDefaults
  <1>3. ValidFlow(FlowDefaults(raw.targetFlow))
    BY <1>1, <1>2 DEF Validate
  <1>4. ValidBeneficiaries(raw)
    BY <1>1, <1>2 DEF Validate, ValidBeneficiaries
  <1>5. ValidDownload(DownloadDefaults(raw.download))
    BY <1>1, <1>2 DEF Validate
  <1>6. ValidTemplates(raw)
    BY <1>1, <1>2 DEF Validate, ValidTemplates
  <1> QED BY <1>3, <1>4, <1>5, <1>6

(* A positive duration is one the scheduler can wait for, in days or in    *)
(* time, even where the length of its days has wrapped around.             *)
LEMMA PositiveDelay ==
  ASSUME Machine, NEW d \in Duration, Positive(d)
  PROVE  Delay(d) \in [dayBased : BOOLEAN, n : Nat \ {0}]
  <1>1. CASE \E v \in -MaxInt - 1 .. MaxInt : d = DurationFromStd(v)
    BY <1>1 DEF DurationFromStd, Positive, Delay, Machine
  <1>2. CASE \E days \in 1 .. MaxInt : d = DayDuration(days)
    BY <1>2 DEF DayDuration, Delay, Machine
  <1> QED BY <1>1, <1>2 DEF Duration

(* The defaults are durations as well.                                     *)
LEMMA DefaultDuration ==
  ASSUME Machine, NEW d \in Duration, NEW days \in 1 .. 14
  PROVE  DurationOr(d, DayDuration(days)) \in Duration
  BY DEF DurationOr, Duration, Machine

LEMMA DurationType ==
  ASSUME Machine, NEW d \in Duration
  PROVE  d.std \in Int
  <1>1. CASE \E v \in -MaxInt - 1 .. MaxInt : d = DurationFromStd(v)
    BY <1>1 DEF DurationFromStd, Machine
  <1>2. CASE \E days \in 1 .. MaxInt : d = DayDuration(days)
    BY <1>2 DEF DayDuration, Wrapped, Machine
  <1> QED BY <1>1, <1>2 DEF Duration

(* A default lasts as many days as it says.                                *)
LEMMA DefaultPositive ==
  ASSUME Machine, NEW days \in 1 .. 14
  PROVE  Positive(DayDuration(days))
  <1> DEFINE len == days * 86400 * Second
  <1>1. len \in 1 .. 14 * 86400 * Second
    BY DEF Machine
  <1>2. len \in 1 .. MaxInt
    BY <1>1 DEF Machine
  <1>3. (len + MaxInt + 1) % (2 * MaxInt + 2) = len + MaxInt + 1
    BY <1>2 DEF Machine
  <1> QED BY <1>2, <1>3 DEF DayDuration, Wrapped, Positive, Machine

-----------------------------------------------------------------------------
(* What Load accepts is what TargetFlow assumes: a day of the month, a     *)
(* zone and a time there are, and delays that lie ahead (Validate).        *)
THEOREM AcceptedFitsTargetFlow ==
  ASSUME Machine, NEW raw \in Config, Accepted(raw)
  PROVE  FitsTargetFlow(Load(raw))
  <1> DEFINE f == FlowDefaults(raw.targetFlow)
  <1>1. Load(raw).targetFlow = f /\ ValidFlow(f)
    BY Sections, Checked
  <1>2. raw.targetFlow \in TargetFlow
    BY DEF Config
  <1>3. /\ f.reminderInterval \in Duration
        /\ f.passwordDelayAfterWarn \in Duration
        /\ f.fileDelayAfterPassword \in Duration
    BY <1>2, DefaultDuration DEF TargetFlow, FlowDefaults
  <1>4. /\ Delay(f.reminderInterval) \in [dayBased : BOOLEAN, n : Nat \ {0}]
        /\ Delay(f.passwordDelayAfterWarn) \in [dayBased : BOOLEAN, n : Nat \ {0}]
        /\ Delay(f.fileDelayAfterPassword) \in [dayBased : BOOLEAN, n : Nat \ {0}]
    BY <1>1, <1>3, PositiveDelay DEF ValidFlow
  <1> QED BY <1>1, <1>4 DEF FitsTargetFlow, ValidFlow

(* What Load accepts is what Scheduler assumes: at least one reminder and  *)
(* one beneficiary, each with an address (Validate).  Of the heartbeat's   *)
(* interval nothing but its type is known.                                 *)
THEOREM AcceptedFitsScheduler ==
  ASSUME Machine, NEW raw \in Config, Accepted(raw)
  PROVE  FitsScheduler(Load(raw))
  <1> DEFINE bs == Load(raw).beneficiaries
  <1>1. bs = [i \in 1 .. Len(raw.beneficiaries) |->
               [raw.beneficiaries[i] EXCEPT !.lang = TextOr(@, "zh")]]
    BY Sections
  <1>2. raw.beneficiaries \in Seq(Beneficiary) /\ ValidBeneficiaries(raw)
    BY Checked DEF Config
  <1>3. \A i \in 1 .. Len(raw.beneficiaries) : raw.beneficiaries[i] \in Beneficiary
    BY <1>2
  <1>4. "zh" \in Text
    BY Checked DEF ValidTemplates, Config
  <1>5. bs \in Seq(Beneficiary) /\ Len(bs) = Len(raw.beneficiaries)
    <2>1. ASSUME NEW i \in 1 .. Len(raw.beneficiaries)
          PROVE  [raw.beneficiaries[i] EXCEPT !.lang = TextOr(@, "zh")] \in Beneficiary
      BY <1>3, <1>4 DEF Beneficiary, TextOr
    <2>2. Len(raw.beneficiaries) \in Nat
      BY <1>2
    <2> QED BY <1>1, <2>1, <2>2
  <1>6. \A i \in 1 .. Len(bs) : bs[i].email \in Email
    <2> SUFFICES ASSUME NEW i \in 1 .. Len(bs) PROVE bs[i].email \in Email
      OBVIOUS
    <2>1. raw.beneficiaries[i] \in Beneficiary /\ raw.beneficiaries[i].email \in Email
      BY <1>2, <1>3, <1>5 DEF ValidBeneficiaries, ValidBeneficiary
    <2>2. bs[i] = [raw.beneficiaries[i] EXCEPT !.lang = TextOr(@, "zh")]
      BY <1>1, <1>5
    <2> QED BY <2>1, <2>2 DEF Beneficiary
  <1>7. Load(raw).targetFlow.reminderCount \in Nat \ {0}
    <2>1. Load(raw).targetFlow = FlowDefaults(raw.targetFlow)
      BY Sections
    <2>2. ValidFlow(FlowDefaults(raw.targetFlow)) /\ raw.targetFlow \in TargetFlow
      BY Checked DEF Config
    <2>3. FlowDefaults(raw.targetFlow).reminderCount \in Int
      BY <2>2 DEF TargetFlow, FlowDefaults, NumberOr
    <2> QED BY <2>1, <2>2, <2>3 DEF ValidFlow
  <1>8. Load(raw).reliability.heartbeatInterval.std \in Int
    BY Sections, DurationType DEF Config
  <1> QED BY <1>2, <1>5, <1>6, <1>7, <1>8 DEF FitsScheduler, ValidBeneficiaries

(* What Load accepts is what Download and Archives assume: links that live *)
(* for a while and may be used, and a number of archives to keep.          *)
THEOREM AcceptedFitsDownload ==
  ASSUME Machine, NEW raw \in Config, Accepted(raw)
  PROVE  FitsDownload(Load(raw))
  <1> DEFINE d == DownloadDefaults(raw.download)
  <1>1. Load(raw).download = d /\ ValidDownload(d)
    BY Sections, Checked
  <1>2. raw.download \in Download
    BY DEF Config
  <1>3. d.linkExpiry \in Duration /\ d.maxDownloads \in Int
    BY <1>2, DefaultDuration DEF Download, DownloadDefaults, NumberOr
  <1>4. d.linkExpiry.std \in Nat \ {0} /\ d.maxDownloads \in Nat \ {0}
    <2>1. d.linkExpiry.std \in Int
      BY <1>3, DurationType
    <2>2. d.linkExpiry.std > 0 /\ d.maxDownloads >= 1
      BY <1>1 DEF ValidDownload, Positive
    <2> HIDE DEF d
    <2> QED BY <1>3, <2>1, <2>2
  <1>5. Load(raw).archive.keepArchives \in Int \ {0}
    <2>1. Load(raw).archive.keepArchives = NumberOr(raw.archive.keepArchives, 3)
      BY Sections
    <2>2. raw.archive.keepArchives \in Int
      BY DEF Config
    <2> QED BY <2>1, <2>2 DEF NumberOr
  <1> QED BY <1>1, <1>4, <1>5 DEF FitsDownload

-----------------------------------------------------------------------------
(* A file that says nothing of the flow, nothing of the downloads but      *)
(* where they are served from, and nothing of the health check's pace is   *)
(* accepted as far as these go: no default is a value that Validate        *)
(* refuses (applyDefaults against Validate).                               *)
AbsentFlow ==
  [checkinDayOfMonth |-> 0, reminderCount |-> 0,
   reminderInterval |-> DurationFromStd(0),
   passwordDelayAfterWarn |-> DurationFromStd(0),
   fileDelayAfterPassword |-> DurationFromStd(0),
   sendTimeOfDay |-> Empty, timezone |-> Empty]

LEMMA AbsentDuration ==
  ASSUME NEW default
  PROVE  DurationOr(DurationFromStd(0), default) = default
  BY DEF DurationOr, DurationFromStd

LEMMA DefaultFlow ==
  ASSUME Machine, "00:00" \in TimeOfDay, "Asia/Shanghai" \in Zone
  PROVE  ValidFlow(FlowDefaults(AbsentFlow))
  <1> DEFINE f == FlowDefaults(AbsentFlow)
  <1>1. /\ f.checkinDayOfMonth = 1 /\ f.reminderCount = 7
        /\ f.reminderInterval = DayDuration(1)
        /\ f.passwordDelayAfterWarn = DayDuration(3)
        /\ f.fileDelayAfterPassword = DayDuration(7)
        /\ f.sendTimeOfDay = "00:00" /\ f.timezone = "Asia/Shanghai"
    BY AbsentDuration DEF FlowDefaults, AbsentFlow, NumberOr, TextOr
  <1>2. /\ Positive(DayDuration(1)) /\ Positive(DayDuration(3))
        /\ Positive(DayDuration(7))
    BY DefaultPositive
  <1> HIDE DEF f
  <1>3. ValidFlow(f)
    BY <1>1, <1>2 DEF ValidFlow
  <1> QED BY <1>3 DEF f

LEMMA DefaultDownload ==
  ASSUME Machine, NEW d \in Download,
         d.mode = Empty, d.linkExpiry = DurationFromStd(0), d.maxDownloads = 0,
         d.publicBaseURL \in HTTPURL, d.listenPort = 0
  PROVE  ValidDownload(DownloadDefaults(d))
  <1> DEFINE e == DownloadDefaults(d)
  <1>1. /\ e.mode = "self_hosted" /\ e.linkExpiry = DayDuration(14)
        /\ e.maxDownloads = 5 /\ e.publicBaseURL = d.publicBaseURL
        /\ e.listenPort = 8080
    BY AbsentDuration DEF DownloadDefaults, NumberOr, TextOr, Download
  <1>2. Positive(DayDuration(14))
    BY DefaultPositive
  <1>3. 5 >= 1 /\ Port(8080)
    BY DEF Port
  <1> HIDE DEF e
  <1>4. e.mode # "s3"
    BY <1>1
  <1>5. ValidDownload(e)
    BY <1>1, <1>2, <1>3, <1>4 DEF ValidDownload
  <1> QED BY <1>5 DEF e

LEMMA DefaultHealthcheck ==
  ASSUME Machine, NEW h \in Healthcheck,
         h.interval = DurationFromStd(0), h.timeout = DurationFromStd(0),
         h.enabled => h.pingURL \in HTTPURL
  PROVE  ValidHealthcheck(HealthcheckDefaults(h))
  <1>1. /\ HealthcheckDefaults(h).interval = Seconds(600)
        /\ HealthcheckDefaults(h).timeout = Seconds(10)
        /\ HealthcheckDefaults(h).enabled = h.enabled
        /\ HealthcheckDefaults(h).pingURL = h.pingURL
    BY AbsentDuration DEF HealthcheckDefaults, Healthcheck
  <1>2. Seconds(10).std = 10 * Second /\ Seconds(600).std = 600 * Second
    BY DEF Seconds, DurationFromStd
  <1>3. 10 * Second > 0 /\ 600 * Second > 0 /\ 10 * Second < 600 * Second
    BY DEF Machine
  <1>4. /\ Positive(Seconds(600)) /\ Positive(Seconds(10))
        /\ Seconds(10).std < Seconds(600).std
    BY <1>2, <1>3 DEF Positive
  <1> QED BY <1>1, <1>4 DEF ValidHealthcheck

THEOREM DefaultsAreAccepted ==
  ASSUME Machine, "00:00" \in TimeOfDay, "Asia/Shanghai" \in Zone,
         NEW raw \in Config,
         raw.targetFlow = AbsentFlow,
         raw.download.mode = Empty, raw.download.linkExpiry = DurationFromStd(0),
         raw.download.maxDownloads = 0, raw.download.listenPort = 0,
         raw.download.publicBaseURL \in HTTPURL,
         raw.healthcheck.interval = DurationFromStd(0),
         raw.healthcheck.timeout = DurationFromStd(0),
         raw.healthcheck.enabled => raw.healthcheck.pingURL \in HTTPURL
  PROVE  /\ ValidFlow(applyDefaults(raw).targetFlow)
         /\ ValidDownload(applyDefaults(raw).download)
         /\ ValidHealthcheck(applyDefaults(raw).healthcheck)
  <1>1. /\ applyDefaults(raw).targetFlow = FlowDefaults(raw.targetFlow)
        /\ applyDefaults(raw).download = DownloadDefaults(raw.download)
        /\ applyDefaults(raw).healthcheck = HealthcheckDefaults(raw.healthcheck)
    BY DEF Config, applyDefaults
  <1>2. raw.download \in Download /\ raw.healthcheck \in Healthcheck
    BY DEF Config
  <1>3. ValidFlow(FlowDefaults(raw.targetFlow))
    BY DefaultFlow
  <1>4. ValidDownload(DownloadDefaults(raw.download))
    BY <1>2, DefaultDownload
  <1>5. ValidHealthcheck(HealthcheckDefaults(raw.healthcheck))
    BY <1>2, DefaultHealthcheck
  <1> QED BY <1>1, <1>3, <1>4, <1>5

(* Every text the owner is sent, and every mail of a beneficiary whose     *)
(* language is Chinese or not given, is there in an accepted file; for any *)
(* other language there is one set of templates, which may be empty (Lang, *)
(* Validate).                                                              *)
THEOREM TextsAreThere ==
  ASSUME NEW raw \in Config, Accepted(raw)
  PROVE  /\ \A t \in Lang(Load(raw), "zh"), field \in OwnerText \cup MailText :
              t[field] \notin Blank
         /\ raw.reliability.heartbeatEnabled =>
              \A t \in Lang(Load(raw), "zh") : t[Heartbeat] \notin Blank
         /\ \A i \in 1 .. Len(raw.beneficiaries) :
              LET lang == Load(raw).beneficiaries[i].lang
              IN /\ lang \in DOMAIN raw.templates
                 /\ Lang(Load(raw), lang) = {raw.templates[lang]}
                 /\ raw.beneficiaries[i].lang = Empty => lang = "zh"
  <1>1. Load(raw).templates = raw.templates /\ ValidTemplates(raw)
    BY Sections, Checked
  <1>2. Lang(Load(raw), "zh") = {raw.templates["zh"]}
    BY <1>1 DEF Lang, ValidTemplates
  <1>3. ASSUME NEW i \in 1 .. Len(raw.beneficiaries)
        PROVE  LET lang == Load(raw).beneficiaries[i].lang
               IN /\ lang \in DOMAIN raw.templates
                  /\ Lang(Load(raw), lang) = {raw.templates[lang]}
                  /\ raw.beneficiaries[i].lang = Empty => lang = "zh"
    <2> DEFINE b == raw.beneficiaries[i]
               lang == Load(raw).beneficiaries[i].lang
    <2>1. raw.beneficiaries \in Seq(Beneficiary)
      BY DEF Config
    <2>2. b \in Beneficiary
      BY <2>1
    <2>3. Load(raw).beneficiaries[i] = [b EXCEPT !.lang = TextOr(@, "zh")]
      BY Sections
    <2>4. lang = TextOr(b.lang, "zh")
      BY <2>2, <2>3 DEF Beneficiary
    <2>5. b.lang = Empty \/ b.lang \in DOMAIN raw.templates
      BY Checked DEF ValidBeneficiaries, ValidBeneficiary
    <2>6. lang \in DOMAIN raw.templates
      BY <1>1, <2>4, <2>5 DEF TextOr, ValidTemplates
    <2> QED BY <1>1, <2>4, <2>6 DEF Lang, TextOr
  <1>4. \A field \in OwnerText \cup MailText : raw.templates["zh"][field] \notin Blank
    BY <1>1 DEF ValidTemplates
  <1>5. raw.reliability.heartbeatEnabled => raw.templates["zh"][Heartbeat] \notin Blank
    BY <1>1 DEF ValidTemplates
  <1> QED BY <1>2, <1>3, <1>4, <1>5
=============================================================================
