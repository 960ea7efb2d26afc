------------------------------- MODULE Config -------------------------------
(***************************************************************************)
(* What internal/config makes of a configuration file: values that are     *)
(* missing get defaults, then Validate refuses what the program could not  *)
(* work with.  The other modules assume of their constants what Validate   *)
(* accepts; ConfigProofs proves that it does.                              *)
(*                                                                         *)
(* A value missing from the file is the zero value of its type, and so is  *)
(* a zero or an empty text the file states.                                *)
(***************************************************************************)
EXTENDS Integers, Sequences

CONSTANTS
  Text,       \* the texts a file can hold
  Blank,      \* those that strings.TrimSpace leaves nothing of, "" included
  Email,      \* those that isEmail accepts,
  HTTPURL,    \*   isHTTPURL,
  TimeOfDay,  \*   timeOfDayRe,
  Zone,       \*   and time.LoadLocation
  Second,     \* a second, in the unit of time.Duration
  MaxInt      \* the largest int64

-----------------------------------------------------------------------------
Empty == ""  \* a text that is not given

(* Durations: "3d" counts days and "72h" counts time.                      *)

(* A time.Duration holds the longest default.                              *)
Machine ==
  Second \in Nat \ {0} /\ MaxInt \in Nat /\ MaxInt >= 14 * 86400 * Second

Wrapped(v) == ((v + MaxInt + 1) % (2 * MaxInt + 2)) - (MaxInt + 1)

DurationFromStd(v) == [dayBased |-> FALSE, days |-> 0, std |-> v]

(* The length of many days wraps around, their number does not.            *)
DayDuration(days) ==
  [dayBased |-> TRUE, days |-> days, std |-> Wrapped(days * 86400 * Second)]

(* What UnmarshalYAML parses: no zero or negative number of days, but zero *)
(* and negative times.                                                     *)
Duration ==
  {DurationFromStd(v) : v \in -MaxInt - 1 .. MaxInt}
    \cup {DayDuration(days) : days \in 1 .. MaxInt}

-----------------------------------------------------------------------------
(* The configuration, without the fields nothing decides on.               *)

OwnerText ==
  {"checkin_telegram", "checkin_button_text", "checkin_accepted_reply",
   "checkin_expired_reply", "checkin_error_reply", "daily_reminder_telegram",
   "final_reminder_telegram", "warn_stage_telegram", "password_stage_telegram",
   "file_stage_telegram", "cancel_flow_telegram"}
MailText ==
  {"warn_email_subject", "warn_email_body", "password_email_subject",
   "password_email_body", "file_email_subject", "file_email_body_link"}
Heartbeat == "heartbeat_telegram"

Templates == [OwnerText \cup MailText \cup {Heartbeat} -> Text]

Beneficiary == [name : Text, email : Text, lang : Text]

TargetFlow ==
  [checkinDayOfMonth : Int, reminderCount : Int, reminderInterval : Duration,
   passwordDelayAfterWarn : Duration, fileDelayAfterPassword : Duration,
   sendTimeOfDay : Text, timezone : Text]

S3 == [endpoint : Text, bucket : Text, region : Text, accessKey : Text,
       secretKey : Text, presignExpiry : Duration]

Download ==
  [mode : Text, linkExpiry : Duration, maxDownloads : Int,
   publicBaseURL : Text, listenPort : Int, s3 : S3]

Healthcheck ==
  [enabled : BOOLEAN, pingURL : Text, interval : Duration, timeout : Duration]

Config ==
  [sourceDir : Text, stateDir : Text,
   targetFlow : TargetFlow,
   archive : [keepArchives : Int, passwordLength : Int],
   telegram : [botToken : Text, chatID : Int],
   smtp : [host : Text, port : Int, username : Text, password : Text,
           fromEmail : Text],
   beneficiaries : Seq(Beneficiary),
   download : Download,
   stateProtection : [encryptPasswordField : BOOLEAN, masterPassphrase : Text],
   reliability : [heartbeatEnabled : BOOLEAN, heartbeatInterval : Duration],
   healthcheck : Healthcheck,
   templates : UNION {[langs -> Templates] : langs \in SUBSET Text}]

-----------------------------------------------------------------------------
(* applyDefaults.  heartbeat_interval and presign_expiry have none.        *)

NumberOr(v, default) == IF v = 0 THEN default ELSE v
TextOr(v, default) == IF v = Empty THEN default ELSE v
DurationOr(d, default) == IF d.std = 0 THEN default ELSE d

Seconds(n) == DurationFromStd(n * Second)

FlowDefaults(f) ==
  [f EXCEPT !.checkinDayOfMonth = NumberOr(@, 1),
            !.reminderCount = NumberOr(@, 7),
            !.reminderInterval = DurationOr(@, DayDuration(1)),
            !.passwordDelayAfterWarn = DurationOr(@, DayDuration(3)),
            !.fileDelayAfterPassword = DurationOr(@, DayDuration(7)),
            !.sendTimeOfDay = TextOr(@, "00:00"),
            !.timezone = TextOr(@, "Asia/Shanghai")]

DownloadDefaults(d) ==
  [d EXCEPT !.mode = TextOr(@, "self_hosted"),
            !.linkExpiry = DurationOr(@, DayDuration(14)),
            !.maxDownloads = NumberOr(@, 5),
            !.listenPort = NumberOr(@, 8080)]

HealthcheckDefaults(h) ==
  [h EXCEPT !.interval = DurationOr(@, Seconds(600)),
            !.timeout = DurationOr(@, Seconds(10))]

applyDefaults(c) ==
  [c EXCEPT !.stateDir = TextOr(@, "/data/state"),
            !.archive = [keepArchives |-> NumberOr(@.keepArchives, 3),
                         passwordLength |-> NumberOr(@.passwordLength, 32)],
            !.targetFlow = FlowDefaults(@),
            !.download = DownloadDefaults(@),
            !.healthcheck = HealthcheckDefaults(@)]

-----------------------------------------------------------------------------
(* Validate: it looks at everything and refuses if anything is wrong.      *)

Positive(d) == d.std > 0
Port(n) == n \in 1 .. 65535

ValidFlow(f) ==
  /\ f.checkinDayOfMonth \in 1 .. 31
  /\ f.reminderCount >= 1
  /\ Positive(f.reminderInterval)
  /\ Positive(f.passwordDelayAfterWarn) /\ Positive(f.fileDelayAfterPassword)
  /\ f.sendTimeOfDay \in TimeOfDay /\ f.timezone \in Zone

ValidSenders(c) ==
  /\ c.telegram.botToken # Empty /\ c.telegram.chatID # 0
  /\ c.smtp.host # Empty /\ Port(c.smtp.port)
  /\ {c.smtp.username, c.smtp.password} \cap Blank = {}
  /\ c.smtp.fromEmail \in Email

(* A language of its own must have templates; without one it is "zh".      *)
ValidBeneficiary(b, langs) ==
  b.name \notin Blank /\ b.email \in Email /\ (b.lang = Empty \/ b.lang \in langs)

ValidBeneficiaries(c) ==
  /\ Len(c.beneficiaries) > 0
  /\ \A i \in 1 .. Len(c.beneficiaries) :
       ValidBeneficiary(c.beneficiaries[i], DOMAIN c.templates)

ValidDownload(d) ==
  /\ d.mode \in {"self_hosted", "s3"}
  /\ Positive(d.linkExpiry) /\ d.maxDownloads >= 1
  /\ d.mode = "self_hosted" => d.publicBaseURL \in HTTPURL /\ Port(d.listenPort)
  /\ d.mode = "s3" =>
       /\ d.s3.endpoint \in HTTPURL
       /\ {d.s3.bucket, d.s3.region, d.s3.accessKey, d.s3.secretKey} \cap Blank = {}
       /\ Positive(d.s3.presignExpiry)

ValidProtection(p) == p.encryptPasswordField => p.masterPassphrase # Empty

ValidHealthcheck(h) ==
  h.enabled =>
    /\ h.pingURL \in HTTPURL
    /\ Positive(h.interval) /\ Positive(h.timeout)
    /\ h.timeout.std < h.interval.std

(* Only the Chinese templates must be filled.                              *)
ValidTemplates(c) ==
  /\ "zh" \in DOMAIN c.templates
  /\ \A field \in OwnerText \cup MailText : c.templates["zh"][field] \notin Blank
  /\ c.reliability.heartbeatEnabled => c.templates["zh"][Heartbeat] \notin Blank

Validate(c) ==
  /\ c.sourceDir # Empty
  /\ ValidFlow(c.targetFlow)
  /\ ValidSenders(c)
  /\ ValidBeneficiaries(c)
  /\ ValidDownload(c.download)
  /\ ValidProtection(c.stateProtection)
  /\ ValidHealthcheck(c.healthcheck)
  /\ ValidTemplates(c)

(* Validate also fills in the language of who has none.                    *)
WithLanguages(c) ==
  [c EXCEPT !.beneficiaries =
    [i \in 1 .. Len(c.beneficiaries) |->
      [c.beneficiaries[i] EXCEPT !.lang = TextOr(@, "zh")]]]

(* Load: whether a parsed file is accepted, and what becomes of it.        *)
Accepted(raw) == Validate(applyDefaults(raw))
Load(raw) == WithLanguages(applyDefaults(raw))

-----------------------------------------------------------------------------

NoTemplates == [field \in OwnerText \cup MailText \cup {Heartbeat} |-> Empty]

(* The templates Lang may return: the last resort is whichever a Go map    *)
(* yields first.                                                           *)
Lang(c, lang) ==
  IF lang \in DOMAIN c.templates THEN {c.templates[lang]}
  ELSE IF "zh" \in DOMAIN c.templates THEN {c.templates["zh"]}
  ELSE IF DOMAIN c.templates # {} THEN {c.templates[l] : l \in DOMAIN c.templates}
  ELSE {NoTemplates}

(* How the scheduler reads a delay: days if it was given in days.          *)
Delay(d) == [dayBased |-> d.dayBased, n |-> IF d.dayBased THEN d.days ELSE d.std]
-----------------------------------------------------------------------------
(* What the constants of TargetFlow, Scheduler, Archives and Download are  *)
(* assumed to be, said of a configuration.                                 *)

FitsTargetFlow(c) ==
  /\ c.targetFlow.checkinDayOfMonth \in 1 .. 31
  /\ c.targetFlow.sendTimeOfDay \in TimeOfDay /\ c.targetFlow.timezone \in Zone
  /\ {Delay(c.targetFlow.reminderInterval),
      Delay(c.targetFlow.passwordDelayAfterWarn),
      Delay(c.targetFlow.fileDelayAfterPassword)}
       \subseteq [dayBased : BOOLEAN, n : Nat \ {0}]

FitsScheduler(c) ==
  /\ c.beneficiaries \in Seq(Beneficiary) /\ Len(c.beneficiaries) > 0
  /\ \A i \in 1 .. Len(c.beneficiaries) : c.beneficiaries[i].email \in Email
  /\ c.targetFlow.reminderCount \in Nat \ {0}
  /\ c.reliability.heartbeatInterval.std \in Int

FitsDownload(c) ==
  /\ {c.download.linkExpiry.std, c.download.maxDownloads} \subseteq Nat \ {0}
  /\ c.archive.keepArchives \in Int \ {0}
=============================================================================
