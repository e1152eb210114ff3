---------------------------- MODULE FirmwareProofs ----------------------------
(***************************************************************************)
(* Theorems about FirmwareUpdate: its types, the firmware a target can get, *)
(* that the table of updates implements UpdateLog, what the logs of a target *)
(* say of its reports, and what its row says of the version it told.         *)
(***************************************************************************)
EXTENDS FirmwareUpdate, FiniteSetTheorems, TLAPS

Statuses == {"pending", "success", "failed"}
LogRow == [target : Target, version : Firmware, order : Nat, status : Statuses]
Loaded == Statuses \cup {"none", None} \cup Firmware
Report == [file : Firmware, ok : BOOLEAN]

\* The steps of a report before its log is written, and the others of a handler.
Recording == {"find", "load", "save", "insert"}
Saving == {"update", "version_load", "version"}

JobRow ==
  [pc : {"idle"} \cup Recording \cup Saving,
   target : Target \cup {None}, file : Firmware \cup {None}, ok : BOOLEAN,
   log : LogId \cup {None}, loaded : Loaded,
   row : Target \cup {None}, held : Firmware \cup {None}]

Sending == {"send", "send_gateway", "failed_load", "failed_save"}
DeployRow ==
  [pc : {"idle", "refind", "next"} \cup Sending, file : Firmware \cup {None},
   todo : SUBSET Target, target : Target \cup {None}, log : LogId \cup {None},
   loaded : Loaded]

Succeeded == {t \in Target : Successes(t) # {}}

\* A handler saves a row; it writes the version it was told, if any.  A report
\* at work is about a target that was heard, that row, and a log of that target.
JobOK(j) ==
  /\ j.pc # "idle" => j.row \in Target
  /\ j.pc \in Recording => j.target \in Target
  /\ j.pc = "update" => j.ok
  /\ j.ok => j.pc # "idle" /\ j.held \in Firmware
  /\ j.target \in Target =>
       /\ j.pc # "idle" /\ j.file \in Firmware
       /\ j.row = j.target /\ j.held = j.file
       /\ j.ok => j.target \in Succeeded
  /\ j.pc \in {"load", "save"} => j.log \in Ids /\ logs[j.log].target = j.target

\* File f may go to target t.
Suits(t, f) ==
  /\ t \in Device => f \notin ForGateway
  /\ t \in Gateway => f \in ForGateway /\ f \in checked

\* A deployment has a file that suits the targets left and the one at work.
DeployOK(r) ==
  /\ r.pc # "idle" => r.file \in Firmware
  /\ r.pc # "idle" => \A t \in r.todo : Suits(t, r.file)
  /\ r.pc \in Sending => r.target \in Target /\ Suits(r.target, r.file)
  /\ r.pc \in Sending => r.log \in Ids /\ logs[r.log].target = r.target

TablesInv ==
  /\ catalog \in [Firmware -> {"absent", "draft", "published"}]
  /\ version \in [Target -> Firmware \cup {None}]
  /\ received \in [Target -> SUBSET Firmware]
  /\ heard \in [Target -> Seq(Report)]
  /\ muddled \subseteq Target
  /\ checked \subseteq Firmware
  /\ told \in [Target -> Firmware \cup {None}]

LogsInv ==
  /\ Ids \subseteq LogId /\ IsFiniteSet(Ids)
  /\ logs \in [Ids -> LogRow]
  /\ failedSends \subseteq Ids

JobsInv == job \in [Handler -> JobRow] /\ \A h \in Handler : JobOK(job[h])
DeployInv == deploy \in DeployRow /\ DeployOK(deploy)

RightInv ==
  /\ \A f \in Firmware : catalog[f] = "published" => f \in checked
  /\ \A t \in Target : \A f \in received[t] : Suits(t, f)

FInv == TablesInv /\ LogsInv /\ JobsInv /\ DeployInv /\ RightInv

-----------------------------------------------------------------------------
\* Empty records are well formed.
LEMMA Blanks == NoJob \in JobRow /\ JobOK(NoJob) /\ NoDeploy \in DeployRow /\ DeployOK(NoDeploy)
  BY ConstantsAssumption
     DEF NoJob, NoDeploy, JobRow, DeployRow, JobOK, DeployOK, Loaded, Sending, Recording, Saving

\* No log, no report and no deployment at the start.
LEMMA InitFirmware == Init => FInv
<1> SUFFICES ASSUME Init PROVE FInv
  OBVIOUS
<1>1. LogsInv
  <2>1. Ids = {} /\ failedSends = {}
    BY DEF Init, Ids
  <2>2. logs \in [Ids -> LogRow]
    BY <2>1 DEF Init, Ids
  <2>. QED
    BY <2>1, <2>2, FS_EmptySet DEF LogsInv
<1>2. JobsInv /\ DeployInv
  BY Blanks DEF Init, JobsInv, DeployInv
<1>3. TablesInv
  <2>1. heard \in [Target -> Seq(Report)]
    BY DEF Init
  <2>. QED
    BY <2>1, ConstantsAssumption DEF Init, TablesInv
<1>4. RightInv
  BY DEF Init, RightInv
<1>. QED
  BY <1>1, <1>2, <1>3, <1>4 DEF FInv

-----------------------------------------------------------------------------
(* What a step does to the logs and to what was heard. *)

\* Logs keep their target, and successes and files once published stay.
Grows ==
  /\ Ids \subseteq Ids'
  /\ \A l \in Ids : logs'[l].target = logs[l].target
  /\ Succeeded \subseteq Succeeded'
  /\ checked \subseteq checked'

\* Rows that are well formed stay so while the tables grow.
LEMMA GrowsKeeps ==
  ASSUME Grows
  PROVE  /\ \A j : JobOK(j) => JobOK(j)'
         /\ \A r : DeployOK(r) => DeployOK(r)'
<1>1. ASSUME NEW j, JobOK(j) PROVE JobOK(j)'
  BY <1>1 DEF Grows, JobOK
<1>2. \A t, f : Suits(t, f) => Suits(t, f)'
  BY DEF Grows, Suits
<1>3. ASSUME NEW r, DeployOK(r) PROVE DeployOK(r)'
  BY <1>2, <1>3 DEF Grows, DeployOK
<1>. QED
  BY <1>1, <1>3

\* A new row: the others stay.
LEMMA InsertEffect ==
  ASSUME LogsInv, NEW l \in LogId \ Ids, NEW t \in Target, NEW f \in Firmware,
         NEW s \in Statuses, logs' = Inserted(l, t, f, s)
  PROVE  /\ Ids' = Ids \cup {l}
         /\ logs'[l] = [target |-> t, version |-> f, status |-> s, order |-> Cardinality(Ids)]
         /\ \A k \in Ids : logs'[k] = logs[k]
         /\ Ids' \subseteq LogId /\ IsFiniteSet(Ids)' /\ logs' \in [Ids' -> LogRow]
<1>1. Ids' = Ids \cup {l}
  BY DEF Inserted, Ids
<1>2. Cardinality(Ids) \in Nat
  BY FS_CardinalityType DEF LogsInv
<1>3. IsFiniteSet(Ids \cup {l})
  BY FS_AddElement DEF LogsInv
<1>4. /\ logs'[l] = [target |-> t, version |-> f, status |-> s, order |-> Cardinality(Ids)]
      /\ \A k \in Ids : logs'[k] = logs[k]
  BY DEF Inserted
<1>5. \A k \in Ids \cup {l} : logs'[k] \in LogRow
  BY <1>2, <1>4 DEF LogsInv, LogRow
<1>6. logs' \in [Ids' -> LogRow]
  <2>1. logs' = [k \in Ids' |-> logs'[k]]
    BY <1>1 DEF Inserted
  <2>. QED
    BY <1>1, <1>5, <2>1
<1>. QED
  BY <1>1, <1>3, <1>4, <1>6 DEF LogsInv

\* A save: the rows stay, but for the status of one.
LEMMA SaveEffect ==
  ASSUME LogsInv, NEW l \in Ids, NEW s \in {"success", "failed"}, NEW loaded,
         logs' = Saved(l, s, loaded)
  PROVE  /\ Ids' = Ids /\ logs' \in [Ids' -> LogRow]
         /\ \A k \in Ids : k # l => logs'[k] = logs[k]
         /\ logs'[l] = logs[l] \/ logs'[l] = [logs[l] EXCEPT !.status = s]
         /\ \A k \in Ids : logs'[k].target = logs[k].target
<1>1. CASE s = loaded
  BY <1>1 DEF Saved, LogsInv, Ids
<1>2. CASE s # loaded
  <2>1. logs' = [logs EXCEPT ![l] = [logs[l] EXCEPT !.status = s]]
    BY <1>2 DEF Saved
  <2>2. Ids' = Ids
    BY <2>1 DEF Ids
  <2>3. logs[l] \in LogRow
    BY DEF LogsInv
  <2>4. [logs[l] EXCEPT !.status = s] \in LogRow
        /\ [logs[l] EXCEPT !.status = s].target = logs[l].target
    BY <2>3 DEF LogRow, Statuses
  <2>5. logs'[l] = [logs[l] EXCEPT !.status = s] /\ \A k \in Ids : k # l => logs'[k] = logs[k]
    BY <2>1 DEF LogsInv
  <2>6. logs' \in [Ids -> LogRow]
    BY <2>1, <2>4 DEF LogsInv
  <2>. QED
    BY <2>2, <2>4, <2>5, <2>6
<1>. QED
  BY <1>1, <1>2

\* A report is added to what was heard of its target.
LEMMA HearEffect ==
  ASSUME TablesInv, NEW t \in Target, NEW r \in Report,
         heard' = [heard EXCEPT ![t] = Append(@, r)]
  PROVE  /\ heard' \in [Target -> Seq(Report)]
         /\ Succeeded' = IF r.ok THEN Succeeded \cup {t} ELSE Succeeded
<1>1. heard[t] \in Seq(Report)
  BY DEF TablesInv
<1>2. Append(heard[t], r) \in Seq(Report)
  BY <1>1
<1>3. heard' \in [Target -> Seq(Report)]
  BY <1>2 DEF TablesInv
<1>4. \A u \in Target : u # t => Successes(u)' = Successes(u)
  BY DEF TablesInv, Successes
<1>5. heard'[t] = Append(heard[t], r)
  BY DEF TablesInv
<1>6. /\ DOMAIN heard'[t] = DOMAIN heard[t] \cup {Len(heard[t]) + 1}
      /\ heard'[t][Len(heard[t]) + 1] = r
      /\ Len(heard[t]) + 1 \notin DOMAIN heard[t]
      /\ \A i \in DOMAIN heard[t] : heard'[t][i] = heard[t][i]
  BY <1>1, <1>5
<1>7. Successes(t)' = IF r.ok THEN Successes(t) \cup {Len(heard[t]) + 1} ELSE Successes(t)
  BY <1>6 DEF Successes
<1>8. \A u \in Target : u \in Succeeded' <=> u \in Succeeded \/ (r.ok /\ u = t)
  BY <1>4, <1>7 DEF Succeeded
<1>9. Succeeded' \subseteq Target /\ Succeeded \subseteq Target
  BY DEF Succeeded
<1>. QED
  BY <1>3, <1>8, <1>9

-----------------------------------------------------------------------------
(* What each step does to the logs: nothing, an insert or a save. *)

\* The steps that write logs.
LogWriters ==
  InsertPending \/ FailedSave \/ \E h \in Handler : SaveLog(h) \/ InsertSelfInitiated(h)

\* No other step touches the table.
LEMMA OnlyWriters ==
  ASSUME [Next]_vars, ~LogWriters PROVE logs' = logs /\ failedSends' = failedSends
BY DEF Next, TouchRow, Heartbeat, vars, history, bounds, LogWriters, Administer, Upload, Publish, Unpublish, Discard, SetCatalog,
       Deploy, DeployToDevices, CheckGateways, CheckForUpdate, RefindFirmware, SendCommand,
       FailedLoad, Handle, ReceiveReport, FindPending, LoadLog, LoadRow, UpdateVersion, SaveRow,
       HandlerFails, SendFails, DeployFails, Crash

\* The log a handler found, or the deployment made.
LEMMA JobFacts ==
  ASSUME FInv
  PROVE  /\ \A h \in Handler : job[h] \in JobRow /\ JobOK(job[h])
         /\ deploy \in DeployRow /\ DeployOK(deploy)
  BY DEF FInv, JobsInv, DeployInv

\* An insert adds a row with a target and a file; a success only of a target
\* that reported one.
LEMMA InsertStep ==
  ASSUME FInv, InsertPending \/ \E h \in Handler : InsertSelfInitiated(h)
  PROVE  \E l \in LogId \ Ids, t \in Target, f \in Firmware, s \in Statuses :
           /\ logs' = Inserted(l, t, f, s)
           /\ s = "success" => t \in Succeeded
           /\ UNCHANGED <<heard, checked, failedSends>>
<1>1. CASE InsertPending
  <2>1. deploy.file \in Firmware /\ deploy.todo \subseteq Target
    BY <1>1, JobFacts DEF InsertPending, DeployOK, DeployRow
  <2>. QED
    BY <1>1, <2>1 DEF InsertPending, Statuses
<1>2. ASSUME NEW h \in Handler, InsertSelfInitiated(h)
      PROVE  \E l \in LogId \ Ids, t \in Target, f \in Firmware, s \in Statuses :
               /\ logs' = Inserted(l, t, f, s)
               /\ s = "success" => t \in Succeeded
               /\ UNCHANGED <<heard, checked, failedSends>>
  <2>1. /\ job[h].target \in Target /\ job[h].file \in Firmware
        /\ job[h].ok => job[h].target \in Succeeded
    BY <1>2, JobFacts DEF InsertSelfInitiated, JobOK, Recording
  <2>2. /\ Outcome(job[h].ok) \in Statuses
        /\ Outcome(job[h].ok) = "success" => job[h].ok
    BY DEF Outcome, Statuses
  <2>3. PICK l \in LogId \ Ids :
          logs' = Inserted(l, job[h].target, job[h].file, Outcome(job[h].ok))
    BY <1>2 DEF InsertSelfInitiated
  <2>. QED
    BY <1>2, <2>1, <2>2, <2>3 DEF InsertSelfInitiated, history
<1>. QED
  BY <1>1, <1>2

\* A save ends a log of the table; with success only if its target reported one.
LEMMA SaveStep ==
  ASSUME FInv, FailedSave \/ \E h \in Handler : SaveLog(h)
  PROVE  \E l \in Ids, s \in {"success", "failed"}, loaded \in Loaded :
           /\ logs' = Saved(l, s, loaded)
           /\ s = "success" => logs[l].target \in Succeeded
           /\ UNCHANGED <<heard, checked>>
           /\ failedSends' \subseteq failedSends \cup {l}
<1>1. CASE FailedSave
  <2>1. deploy.log \in Ids /\ deploy.loaded \in Loaded
    BY <1>1, JobFacts DEF FailedSave, DeployOK, DeployRow, Sending
  <2>. QED
    BY <1>1, <2>1 DEF FailedSave
<1>2. ASSUME NEW h \in Handler, SaveLog(h)
      PROVE  \E l \in Ids, s \in {"success", "failed"}, loaded \in Loaded :
               /\ logs' = Saved(l, s, loaded)
               /\ s = "success" => logs[l].target \in Succeeded
               /\ UNCHANGED <<heard, checked>>
               /\ failedSends' \subseteq failedSends \cup {l}
  <2>1. /\ job[h].log \in Ids /\ logs[job[h].log].target = job[h].target
        /\ job[h].loaded \in Loaded
        /\ job[h].ok => job[h].target \in Succeeded
    BY <1>2, JobFacts DEF SaveLog, JobOK, JobRow, Recording
  <2>2. /\ Outcome(job[h].ok) \in {"success", "failed"}
        /\ Outcome(job[h].ok) = "success" => job[h].ok
    BY DEF Outcome
  <2>. QED
    BY <1>2, <2>1, <2>2 DEF SaveLog, history
<1>. QED
  BY <1>1, <1>2

\* Hearing adds to the successes of one target; no other step hears.
LEMMA HeardStep ==
  ASSUME TablesInv, [Next]_vars
  PROVE  /\ heard' \in [Target -> Seq(Report)]
         /\ Succeeded' = Succeeded \/ \E t \in Target : Succeeded' = Succeeded \cup {t}
<1>1. ASSUME NEW h \in Handler, NEW t \in Target, NEW f \in Firmware, NEW ok \in BOOLEAN,
             ReceiveReport(h, t, f, ok)
      PROVE  /\ heard' \in [Target -> Seq(Report)]
             /\ Succeeded' = Succeeded \/ Succeeded' = Succeeded \cup {t}
  <2>1. [file |-> f, ok |-> ok] \in Report
    BY DEF Report
  <2>2. heard' = [heard EXCEPT ![t] = Append(@, [file |-> f, ok |-> ok])]
    BY <1>1 DEF ReceiveReport
  <2>. QED
    BY <2>1, <2>2, HearEffect
<1>2. CASE heard' = heard
  BY <1>2 DEF TablesInv, Succeeded, Successes
<1>3. \/ heard' = heard
      \/ \E h \in Handler, t \in Target, f \in Firmware, ok \in BOOLEAN : ReceiveReport(h, t, f, ok)
  BY DEF Next, TouchRow, Heartbeat, vars, history, bounds, Administer, Upload, Publish, Unpublish, Discard, SetCatalog,
         Deploy, DeployToDevices, CheckGateways, CheckForUpdate, RefindFirmware, InsertPending,
         SendCommand, FailedLoad, FailedSave, Handle, FindPending, LoadLog, SaveLog,
         InsertSelfInitiated, LoadRow, UpdateVersion, SaveRow, HandlerFails, SendFails, DeployFails, Crash
<1>. QED
  BY <1>1, <1>2, <1>3

\* The rows stay well formed, and everything that only grows does.
LEMMA NextLogs == ASSUME FInv, [Next]_vars PROVE LogsInv' /\ Grows
<1>1. LogsInv /\ TablesInv
  BY DEF FInv
<1>2. CASE InsertPending \/ \E h \in Handler : InsertSelfInitiated(h)
  <2>1. PICK l \in LogId \ Ids, t \in Target, f \in Firmware, s \in Statuses :
          logs' = Inserted(l, t, f, s) /\ UNCHANGED <<heard, checked, failedSends>>
    BY <1>2, InsertStep
  <2>2. /\ Ids' = Ids \cup {l} /\ \A k \in Ids : logs'[k] = logs[k]
        /\ Ids' \subseteq LogId /\ IsFiniteSet(Ids)' /\ logs' \in [Ids' -> LogRow]
    BY <1>1, <2>1, InsertEffect
  <2>3. Succeeded' = Succeeded
    BY <2>1 DEF Succeeded, Successes
  <2>. QED
    BY <1>1, <2>1, <2>2, <2>3 DEF LogsInv, Grows
<1>3. CASE FailedSave \/ \E h \in Handler : SaveLog(h)
  <2>1. PICK l \in Ids, s \in {"success", "failed"}, loaded \in Loaded :
          /\ logs' = Saved(l, s, loaded) /\ UNCHANGED <<heard, checked>>
          /\ failedSends' \subseteq failedSends \cup {l}
    BY <1>3, SaveStep
  <2>2. /\ Ids' = Ids /\ logs' \in [Ids' -> LogRow]
        /\ \A k \in Ids : logs'[k].target = logs[k].target
    BY <1>1, <2>1, SaveEffect
  <2>3. Succeeded' = Succeeded
    BY <2>1 DEF Succeeded, Successes
  <2>. QED
    BY <1>1, <2>1, <2>2, <2>3 DEF LogsInv, Grows
<1>4. CASE ~LogWriters
  <2>1. logs' = logs /\ failedSends' = failedSends
    BY <1>4, OnlyWriters
  <2>2. Ids' = Ids
    BY <2>1 DEF Ids
  <2>3. LogsInv'
    BY <1>1, <2>1, <2>2 DEF LogsInv
  <2>4. checked \subseteq checked'
    BY DEF Next, TouchRow, Heartbeat, vars, history, bounds, Administer, Upload, Publish, Unpublish, Discard, SetCatalog,
       Deploy, DeployToDevices, CheckGateways, CheckForUpdate, RefindFirmware, SendCommand,
       InsertPending, FailedSave, SaveLog, InsertSelfInitiated,
       FailedLoad, Handle, ReceiveReport, FindPending, LoadLog, LoadRow, UpdateVersion, SaveRow,
       HandlerFails, SendFails, DeployFails, Crash
  <2>5. Succeeded \subseteq Succeeded'
    BY <1>1, HeardStep DEF Succeeded, Successes
  <2>. QED
    BY <2>1, <2>2, <2>3, <2>4, <2>5 DEF Grows
<1>. QED
  BY <1>2, <1>3, <1>4 DEF LogWriters

-----------------------------------------------------------------------------
(* The tables but for the logs. *)

\* Only commands and answers to a target give it a file.
LEMMA ReceivedStep ==
  ASSUME [Next]_vars
  PROVE  \/ received' = received \/ SendCommand
         \/ \E t \in Target, f \in Firmware : CheckForUpdate(t, f)
  BY ConstantsAssumption
     DEF Next, TouchRow, Heartbeat, vars, history, bounds, Administer, Upload, Publish, Unpublish, Discard, SetCatalog,
         Deploy, DeployToDevices, CheckGateways, RefindFirmware, InsertPending, FailedLoad,
         FailedSave, Handle, ReceiveReport, FindPending, LoadLog, SaveLog,
         InsertSelfInitiated, LoadRow, UpdateVersion, SaveRow, HandlerFails, SendFails, DeployFails, Crash

\* What a target told is replaced, or forgotten for some targets.
LEMMA ToldStep ==
  ASSUME told \in [Target -> Firmware \cup {None}], [Next]_vars
  PROVE  told' \in [Target -> Firmware \cup {None}]
<1>1. ASSUME NEW t \in Target, NEW f \in Firmware, Tells(t, f)
      PROVE  told' \in [Target -> Firmware \cup {None}]
  BY <1>1 DEF Tells
<1>2. ASSUME NEW h \in Handler, NEW t \in Target, NEW f \in Firmware, NEW ok \in BOOLEAN,
             ReceiveReport(h, t, f, ok)
      PROVE  told' \in [Target -> Firmware \cup {None}]
  BY <1>1, <1>2 DEF ReceiveReport
<1>3. ASSUME NEW h \in Handler, NEW t \in Target, NEW f \in Firmware \cup {None}, TouchRow(h, t, f)
      PROVE  told' \in [Target -> Firmware \cup {None}]
  BY <1>1, <1>3 DEF TouchRow
<1>4. ASSUME NEW g \in Gateway, NEW f \in Firmware, Heartbeat(g, f)
      PROVE  told' \in [Target -> Firmware \cup {None}]
  BY <1>1, <1>4 DEF Heartbeat, Target
<1>5. ASSUME NEW H, Untold(H) PROVE told' \in [Target -> Firmware \cup {None}]
  BY <1>5 DEF Untold
<1>6. ASSUME NEW h \in Handler, LoadRow(h) PROVE told' \in [Target -> Firmware \cup {None}]
  BY <1>6 DEF LoadRow
<1>7. \/ told' = told \/ \E H : Untold(H)
      \/ \E h \in Handler :
           \/ LoadRow(h)
           \/ \E t \in Target, f \in Firmware, ok \in BOOLEAN : ReceiveReport(h, t, f, ok)
           \/ \E t \in Target, f \in Firmware \cup {None} : TouchRow(h, t, f)
      \/ \E g \in Gateway, f \in Firmware : Heartbeat(g, f)
  BY DEF Next, vars, history, bounds, Administer, Upload, Publish, Unpublish, Discard, SetCatalog,
         Deploy, DeployToDevices, CheckGateways, CheckForUpdate, RefindFirmware, InsertPending,
         SendCommand, FailedLoad, FailedSave, Handle, FindPending, LoadLog, SaveLog,
         InsertSelfInitiated, UpdateVersion, SaveRow, HandlerFails, SendFails, DeployFails, Crash
<1>. QED
  BY <1>2, <1>3, <1>4, <1>5, <1>6, <1>7

\* They keep their types.
LEMMA NextTables == ASSUME FInv, [Next]_vars PROVE TablesInv'
<1>1. TablesInv /\ heard' \in [Target -> Seq(Report)]
  BY HeardStep DEF FInv
<1>2. catalog' \in [Firmware -> {"absent", "draft", "published"}] /\ checked' \subseteq Firmware
  <2>1. ASSUME NEW f \in Firmware, NEW before, NEW after \in {"absent", "draft", "published"},
               SetCatalog(f, before, after)
        PROVE  /\ catalog' \in [Firmware -> {"absent", "draft", "published"}]
               /\ checked' \subseteq Firmware
    BY <1>1, <2>1 DEF SetCatalog, TablesInv
  <2>2. CASE Administer
    BY <2>1, <2>2, ConstantsAssumption DEF Administer, Upload, Publish, Unpublish, Discard
  <2>3. CASE catalog' = catalog /\ checked' = checked
    BY <1>1, <2>3 DEF TablesInv
  <2>4. Administer \/ (catalog' = catalog /\ checked' = checked)
    BY DEF Next, TouchRow, Heartbeat, vars, history, bounds, Deploy, DeployToDevices, CheckGateways, CheckForUpdate,
           RefindFirmware, InsertPending, SendCommand, FailedLoad, FailedSave, Handle,
           ReceiveReport, FindPending, LoadLog, SaveLog, InsertSelfInitiated, LoadRow,
           UpdateVersion, SaveRow, HandlerFails, SendFails, DeployFails, Crash
  <2>. QED
    BY <2>2, <2>3, <2>4
<1>3. version' \in [Target -> Firmware \cup {None}]
  <2>1. ASSUME NEW h \in Handler, UpdateVersion(h) \/ SaveRow(h)
        PROVE  version' \in [Target -> Firmware \cup {None}]
    <3>1. job[h].row \in Target /\ job[h].held \in Firmware \cup {None}
      BY <2>1, JobFacts DEF UpdateVersion, SaveRow, JobOK, JobRow
    <3>. QED
      BY <1>1, <2>1, <3>1 DEF UpdateVersion, SaveRow, TablesInv
  <2>2. ASSUME NEW g \in Gateway, NEW f \in Firmware, Heartbeat(g, f)
        PROVE  version' \in [Target -> Firmware \cup {None}]
    BY <1>1, <2>2 DEF Heartbeat, TablesInv
  <2>3. \/ version' = version \/ \E h \in Handler : UpdateVersion(h) \/ SaveRow(h)
        \/ \E g \in Gateway, f \in Firmware : Heartbeat(g, f)
    BY DEF Next, TouchRow, vars, bounds, Administer, Upload, Publish, Unpublish, Discard, SetCatalog,
           Deploy, DeployToDevices, CheckGateways, CheckForUpdate, RefindFirmware, InsertPending,
           SendCommand, FailedLoad, FailedSave, Handle, ReceiveReport, FindPending, LoadLog,
           SaveLog, InsertSelfInitiated, LoadRow, HandlerFails, SendFails, DeployFails, Crash
  <2>. QED
    BY <1>1, <2>1, <2>2, <2>3 DEF TablesInv
<1>4. muddled' \subseteq Target
  <2>1. muddled \subseteq Target
    BY <1>1 DEF TablesInv
  <2>2. ASSUME InsertPending PROVE muddled' \subseteq Target
    BY <2>1, <2>2, JobFacts DEF InsertPending, Muddle, DeployRow
  <2>3. ASSUME NEW h \in Handler, HandlerFails(h) PROVE muddled' \subseteq Target
    BY <2>1, <2>3 DEF HandlerFails, Muddle
  <2>4. ASSUME DeployFails \/ Crash PROVE muddled' \subseteq Target
    BY <2>1, <2>4 DEF DeployFails, Crash, Muddle
  <2>5. ASSUME NEW t \in Target, NEW f \in Firmware,
               \/ CheckForUpdate(t, f)
               \/ \E h \in Handler, ok \in BOOLEAN : ReceiveReport(h, t, f, ok)
        PROVE  muddled' \subseteq Target
    <3>1. CASE CheckForUpdate(t, f)
      BY <2>1, <3>1 DEF CheckForUpdate, Muddle
    <3>2. ASSUME NEW h \in Handler, NEW ok \in BOOLEAN, ReceiveReport(h, t, f, ok)
          PROVE  muddled' \subseteq Target
      BY <2>1, <3>2 DEF ReceiveReport, Muddle
    <3>. QED
      BY <2>5, <3>1, <3>2
  <2>6. \/ muddled' = muddled
        \/ InsertPending \/ DeployFails \/ Crash \/ \E h \in Handler : HandlerFails(h)
        \/ \E t \in Target, f \in Firmware :
             CheckForUpdate(t, f) \/ \E h \in Handler, ok \in BOOLEAN : ReceiveReport(h, t, f, ok)
    BY ConstantsAssumption
       DEF Next, TouchRow, Heartbeat, vars, history, bounds, Administer, Upload, Publish, Unpublish, Discard, SetCatalog,
           Deploy, DeployToDevices, CheckGateways, RefindFirmware, SendCommand, FailedLoad,
           FailedSave, Handle, FindPending, LoadLog, SaveLog, InsertSelfInitiated,
           LoadRow, UpdateVersion, SaveRow, SendFails
  <2>. QED
    BY <2>1, <2>2, <2>3, <2>4, <2>5, <2>6
<1>5. received' \in [Target -> SUBSET Firmware]
  <2>1. ASSUME NEW t \in Target, NEW f \in Firmware, CheckForUpdate(t, f)
        PROVE  received' \in [Target -> SUBSET Firmware]
    BY <1>1, <2>1 DEF CheckForUpdate, TablesInv
  <2>2. ASSUME SendCommand PROVE received' \in [Target -> SUBSET Firmware]
    <3>1. deploy.target \in Target /\ deploy.file \in Firmware
      BY <2>2, JobFacts DEF SendCommand, DeployOK, Sending
    <3>. QED
      BY <1>1, <2>2, <3>1 DEF SendCommand, TablesInv
  <2>. QED
    BY <1>1, <2>1, <2>2, ReceivedStep DEF TablesInv
<1>6. told' \in [Target -> Firmware \cup {None}]
  BY <1>1, ToldStep DEF TablesInv
<1>. QED
  BY <1>1, <1>2, <1>3, <1>4, <1>5, <1>6 DEF TablesInv

-----------------------------------------------------------------------------
(* The handlers of reports. *)

\* A record with some fields changed.
LEMMA JobExcept ==
  ASSUME NEW j \in JobRow
  PROVE  /\ \A l, k : k = [j EXCEPT !.pc = "load", !.log = l] =>
               k = [pc |-> "load", target |-> j.target, file |-> j.file, ok |-> j.ok,
                    log |-> l, loaded |-> j.loaded, row |-> j.row, held |-> j.held]
         /\ \A p, x, k : k = [j EXCEPT !.pc = p, !.loaded = x] =>
               k = [pc |-> p, target |-> j.target, file |-> j.file, ok |-> j.ok,
                    log |-> j.log, loaded |-> x, row |-> j.row, held |-> j.held]
         /\ \A p, k : k = [j EXCEPT !.pc = p] =>
               k = [pc |-> p, target |-> j.target, file |-> j.file, ok |-> j.ok,
                    log |-> j.log, loaded |-> j.loaded, row |-> j.row, held |-> j.held]
<1>1. ASSUME NEW l, NEW k, k = [j EXCEPT !.pc = "load", !.log = l]
      PROVE  k = [pc |-> "load", target |-> j.target, file |-> j.file, ok |-> j.ok,
                  log |-> l, loaded |-> j.loaded, row |-> j.row, held |-> j.held]
  BY <1>1 DEF JobRow
<1>2. ASSUME NEW p, NEW x, NEW k, k = [j EXCEPT !.pc = p, !.loaded = x]
      PROVE  k = [pc |-> p, target |-> j.target, file |-> j.file, ok |-> j.ok,
                  log |-> j.log, loaded |-> x, row |-> j.row, held |-> j.held]
  BY <1>2 DEF JobRow
<1>3. ASSUME NEW p, NEW k, k = [j EXCEPT !.pc = p]
      PROVE  k = [pc |-> p, target |-> j.target, file |-> j.file, ok |-> j.ok,
                  log |-> j.log, loaded |-> j.loaded, row |-> j.row, held |-> j.held]
  BY <1>3 DEF JobRow
<1>. QED
  BY <1>1, <1>2, <1>3

\* What a handler becomes is well formed, in the state before the step.
LEMMA HandlerMoves ==
  ASSUME FInv, NEW h \in Handler, Handle(h) \/ HandlerFails(h)
  PROVE  \E j \in JobRow : JobOK(j) /\ job' = [job EXCEPT ![h] = j]
<1>1. /\ job[h] \in JobRow /\ JobOK(job[h])
      /\ LogsInv /\ TablesInv
  BY JobFacts DEF FInv
<1>2. NoJob \in JobRow /\ JobOK(NoJob)
  BY Blanks
<1>3. AfterLog(h) \in JobRow /\ (job[h].pc # "idle" => JobOK(AfterLog(h)))
  <2>1. CASE ~job[h].ok
    BY <1>2, <2>1 DEF AfterLog
  <2>2. CASE job[h].ok
    <3>1. PICK p, k : /\ p = IF job[h].target \in Gateway THEN "update" ELSE "version_load"
                      /\ k = AfterLog(h) /\ k = [job[h] EXCEPT !.pc = p]
      BY <2>2 DEF AfterLog
    <3>2. k = [pc |-> p, target |-> job[h].target, file |-> job[h].file, ok |-> job[h].ok,
               log |-> job[h].log, loaded |-> job[h].loaded, row |-> job[h].row, held |-> job[h].held]
      BY <1>1, <3>1, JobExcept
    <3>3. k \in JobRow
      BY <1>1, <3>1, <3>2 DEF JobRow, Saving
    <3>4. job[h].pc # "idle" => JobOK(k)
      BY <1>1, <2>2, <3>1, <3>2 DEF JobOK, Recording
    <3>. QED
      BY <3>1, <3>3, <3>4
  <2>. QED
    BY <2>1, <2>2
<1>4. CASE FindPending(h)
  <2>1. ASSUME Step(h, [job[h] EXCEPT !.pc = "insert"])
        PROVE  \E j \in JobRow : JobOK(j) /\ job' = [job EXCEPT ![h] = j]
    BY <1>1, <1>4, <2>1, JobExcept DEF FindPending, Step, JobRow, JobOK, Recording
  <2>2. ASSUME NEW l \in Newest(PendingOf(job[h].target)),
               Step(h, [job[h] EXCEPT !.pc = "load", !.log = l])
        PROVE  \E j \in JobRow : JobOK(j) /\ job' = [job EXCEPT ![h] = j]
    <3>1. l \in Ids /\ l \in LogId /\ logs[l].target = job[h].target
      BY <1>1 DEF Newest, PendingOf, LogsInv
    <3>. QED
      BY <1>1, <1>4, <2>2, <3>1, JobExcept DEF FindPending, Step, JobRow, JobOK, Recording
  <2>. QED
    BY <1>4, <2>1, <2>2 DEF FindPending
<1>5. CASE LoadLog(h)
  <2>1. logs[job[h].log].status \in Loaded
    BY <1>1, <1>5 DEF LoadLog, JobOK, LogsInv, LogRow, Loaded
  <2>. QED
    BY <1>1, <1>5, <2>1, JobExcept DEF LoadLog, Step, JobRow, JobOK, Recording
<1>6. CASE SaveLog(h) \/ InsertSelfInitiated(h)
  BY <1>3, <1>6 DEF SaveLog, InsertSelfInitiated, Step
<1>7. CASE LoadRow(h)
  <2>1. version[job[h].row] \in Loaded
    BY <1>1, <1>7 DEF LoadRow, JobOK, TablesInv, Loaded
  <2>. QED
    BY <1>1, <1>7, <2>1, JobExcept DEF LoadRow, Step, JobRow, JobOK, Recording, Saving
<1>8. CASE UpdateVersion(h) \/ SaveRow(h) \/ HandlerFails(h)
  BY <1>2, <1>8 DEF UpdateVersion, SaveRow, HandlerFails, Step
<1>. QED
  BY <1>4, <1>5, <1>6, <1>7, <1>8 DEF Handle

\* Reports at work stay well formed.
LEMMA NextJobs == ASSUME FInv, [Next]_vars PROVE JobsInv'
<1>1. /\ JobsInv /\ TablesInv
      /\ \A j : JobOK(j) => JobOK(j)'
  BY NextLogs, GrowsKeeps DEF FInv
<1>2. ASSUME NEW h \in Handler, NEW j \in JobRow, JobOK(j)', job' = [job EXCEPT ![h] = j]
      PROVE  JobsInv'
  BY <1>1, <1>2 DEF JobsInv
<1>3. ASSUME NEW h \in Handler, Handle(h) \/ HandlerFails(h) PROVE JobsInv'
  BY <1>1, <1>2, <1>3, HandlerMoves
<1>4. ASSUME NEW h \in Handler, NEW t \in Target, NEW f \in Firmware, NEW ok \in BOOLEAN,
             ReceiveReport(h, t, f, ok)
      PROVE  JobsInv'
  <2> DEFINE j == [NoJob EXCEPT !.pc = "find", !.target = t, !.file = f, !.ok = ok,
                                !.row = t, !.held = f]
  <2>1. j = [pc |-> "find", target |-> t, file |-> f, ok |-> ok, log |-> None,
             loaded |-> "none", row |-> t, held |-> f]
    <3>1. ASSUME NEW k, k = j
          PROVE  k = [pc |-> "find", target |-> t, file |-> f, ok |-> ok, log |-> None,
                      loaded |-> "none", row |-> t, held |-> f]
      BY <3>1 DEF NoJob
    <3>. QED
      BY <3>1
  <2>2. j \in JobRow
    BY <2>1 DEF JobRow, Loaded, Recording
  <2>3. [file |-> f, ok |-> ok] \in Report
    BY DEF Report
  <2>4. heard' = [heard EXCEPT ![t] = Append(@, [file |-> f, ok |-> ok])]
    BY <1>4 DEF ReceiveReport
  <2>5. ok => t \in Succeeded'
    BY <1>1, <2>3, <2>4, HearEffect
  <2>6. JobOK(j)'
    BY <2>1, <2>5 DEF JobOK, Recording
  <2>7. job' = [job EXCEPT ![h] = j]
    BY <1>4 DEF ReceiveReport
  <2> HIDE DEF j
  <2>. QED
    BY <1>2, <2>2, <2>6, <2>7
<1>5. ASSUME NEW h \in Handler, NEW t \in Target, NEW f \in Firmware \cup {None},
             TouchRow(h, t, f)
      PROVE  JobsInv'
  <2>1. PICK ok \in BOOLEAN, v \in Firmware \cup {None} :
          /\ job' = [job EXCEPT ![h] = [NoJob EXCEPT !.pc = "version_load", !.row = t,
                                                   !.ok = ok, !.held = v]]
          /\ ok => v \in Firmware
    BY <1>1, <1>5 DEF TouchRow, Step, TablesInv
  <2>2. PICK k : k = [NoJob EXCEPT !.pc = "version_load", !.row = t, !.ok = ok, !.held = v]
    OBVIOUS
  <2>3. k = [pc |-> "version_load", target |-> None, file |-> None, ok |-> ok, log |-> None,
             loaded |-> "none", row |-> t, held |-> v]
    BY <2>2 DEF NoJob
  <2>4. k \in JobRow
    BY <2>3 DEF JobRow, Loaded, Saving
  <2>5. JobOK(k)'
    BY <2>1, <2>3, ConstantsAssumption DEF JobOK, Recording
  <2>. QED
    BY <1>2, <2>1, <2>2, <2>4, <2>5
<1>6. CASE Crash
  BY <1>1, <1>6, Blanks DEF Crash, JobsInv
<1>7. CASE job' = job
  BY <1>1, <1>7 DEF JobsInv
<1>8. \/ job' = job \/ Crash
      \/ \E h \in Handler :
           \/ Handle(h) \/ HandlerFails(h)
           \/ \E t \in Target, f \in Firmware, ok \in BOOLEAN : ReceiveReport(h, t, f, ok)
           \/ \E t \in Target, f \in Firmware \cup {None} : TouchRow(h, t, f)
  BY DEF Next, Heartbeat, vars, bounds, Administer, Upload, Publish, Unpublish, Discard, SetCatalog, Deploy,
         DeployToDevices, CheckGateways, CheckForUpdate, RefindFirmware, InsertPending,
         SendCommand, FailedLoad, FailedSave, SendFails, DeployFails
<1>. QED
  BY <1>3, <1>4, <1>5, <1>6, <1>7, <1>8

-----------------------------------------------------------------------------
(* The deployment. *)

\* The next target of a deployment suits its file.
LEMMA NextTargetOK ==
  ASSUME FInv, deploy.pc # "idle" PROVE NextTarget \in DeployRow /\ DeployOK(NextTarget)
<1>1. deploy \in DeployRow /\ DeployOK(deploy)
  BY JobFacts
<1>2. ASSUME NEW r,
             r = [NoDeploy EXCEPT !.pc = "next", !.file = deploy.file, !.todo = deploy.todo]
      PROVE  r = [pc |-> "next", file |-> deploy.file, todo |-> deploy.todo, target |-> None,
                  log |-> None, loaded |-> "none"]
  BY <1>2 DEF NoDeploy
<1>. QED
  BY <1>1, <1>2, Blanks DEF NextTarget, DeployRow, DeployOK, Loaded, Sending

\* The deployment stays well formed: what was checked of the file stays true.
LEMMA NextDeploy == ASSUME FInv, [Next]_vars PROVE DeployInv'
<1>1. /\ deploy \in DeployRow /\ DeployOK(deploy) /\ LogsInv /\ RightInv
      /\ \A r : DeployOK(r) => DeployOK(r)'
  BY JobFacts, NextLogs, GrowsKeeps DEF FInv
<1>2. ASSUME NEW r \in DeployRow, DeployOK(r) \/ DeployOK(r)', deploy' = r PROVE DeployInv'
  BY <1>1, <1>2 DEF DeployInv
<1>3. NoDeploy \in DeployRow /\ DeployOK(NoDeploy)
  BY Blanks
<1>4. ASSUME NEW f \in Firmware, NEW T \in (SUBSET Target) \ {{}},
             DeployToDevices(f, T) \/ CheckGateways(f, T)
      PROVE  DeployInv'
  <2>1. \A t \in T : Suits(t, f)
    BY <1>1, <1>4, ConstantsAssumption DEF DeployToDevices, CheckGateways, RightInv, Suits
  <2>2. PICK p \in {"next", "refind"} :
          deploy' = [NoDeploy EXCEPT !.pc = p, !.file = f, !.todo = T]
    BY <1>4 DEF DeployToDevices, CheckGateways
  <2>3. deploy' = [pc |-> p, file |-> f, todo |-> T, target |-> None, log |-> None,
                   loaded |-> "none"]
    BY <2>2 DEF NoDeploy
  <2>4. deploy' \in DeployRow
    BY <2>3 DEF DeployRow, Loaded
  <2>5. DeployOK(deploy')
    BY <2>1, <2>3 DEF DeployOK, Sending
  <2>. QED
    BY <1>1, <2>4, <2>5 DEF DeployInv
<1>5. CASE RefindFirmware
  <2>1. [deploy EXCEPT !.pc = "next"] \in DeployRow /\ DeployOK([deploy EXCEPT !.pc = "next"])
    BY <1>1, <1>5 DEF RefindFirmware, DeployRow, DeployOK, Sending
  <2>. QED
    BY <1>2, <1>3, <1>5, <2>1 DEF RefindFirmware
<1>6. CASE InsertPending
  <2>1. PICK t \in deploy.todo, l \in LogId \ Ids :
          /\ logs' = Inserted(l, t, deploy.file, "pending")
          /\ deploy' = [deploy EXCEPT !.pc = "send", !.target = t, !.log = l, !.todo = @ \ {t}]
    BY <1>6 DEF InsertPending
  <2>2. /\ t \in Target /\ deploy.file \in Firmware /\ Suits(t, deploy.file)
        /\ \A u \in deploy.todo : Suits(u, deploy.file)
    BY <1>1, <1>6 DEF InsertPending, DeployRow, DeployOK
  <2>3. deploy' = [pc |-> "send", file |-> deploy.file, todo |-> deploy.todo \ {t},
                   target |-> t, log |-> l, loaded |-> deploy.loaded]
    BY <1>1, <2>1 DEF DeployRow
  <2>4. l \in Ids' /\ logs'[l].target = t
    BY <2>1 DEF Inserted, Ids
  <2>5. \A u, f : Suits(u, f) => Suits(u, f)'
    BY NextLogs DEF Grows, Suits
  <2>6. deploy' \in DeployRow
    BY <1>1, <2>2, <2>3 DEF DeployRow, Sending
  <2>7. DeployOK(deploy)'
    BY <2>2, <2>3, <2>4, <2>5 DEF DeployOK
  <2>. QED
    BY <2>6, <2>7 DEF DeployInv
<1>7. CASE SendCommand \/ FailedSave
  <2>1. deploy.pc # "idle"
    BY <1>7 DEF SendCommand, FailedSave
  <2>2. deploy.pc \in Sending =>
          /\ [deploy EXCEPT !.pc = "send_gateway"] \in DeployRow
          /\ DeployOK([deploy EXCEPT !.pc = "send_gateway"])
    BY <1>1 DEF DeployRow, DeployOK, Sending
  <2>. QED
    BY <1>2, <1>7, <2>1, <2>2, NextTargetOK DEF SendCommand, FailedSave, Sending
<1>8. CASE FailedLoad
  <2>1. logs[deploy.log].status \in Loaded /\ deploy.pc \in Sending
    BY <1>1, <1>8 DEF FailedLoad, DeployOK, Sending, LogsInv, LogRow, Loaded
  <2>2. deploy' = [pc |-> "failed_save", file |-> deploy.file, todo |-> deploy.todo,
                   target |-> deploy.target, log |-> deploy.log,
                   loaded |-> logs[deploy.log].status]
    BY <1>1, <1>8 DEF FailedLoad, DeployRow
  <2>3. deploy' \in DeployRow
    BY <1>1, <2>1, <2>2 DEF DeployRow, Sending
  <2>4. DeployOK(deploy')
    BY <1>1, <2>1, <2>2 DEF DeployOK, Sending
  <2>. QED
    BY <1>1, <2>3, <2>4 DEF DeployInv
<1>9. CASE SendFails
  <2>1. /\ [deploy EXCEPT !.pc = "failed_load"] \in DeployRow
        /\ DeployOK([deploy EXCEPT !.pc = "failed_load"])
    BY <1>1, <1>9 DEF SendFails, DeployRow, DeployOK, Sending
  <2>. QED
    BY <1>2, <1>9, <2>1 DEF SendFails
<1>10. CASE DeployFails \/ Crash
  BY <1>2, <1>3, <1>10 DEF DeployFails, Crash
<1>11. CASE deploy' = deploy
  BY <1>1, <1>2, <1>11
<1>12. \/ deploy' = deploy
       \/ \E f \in Firmware, T \in (SUBSET Target) \ {{}} :
            DeployToDevices(f, T) \/ CheckGateways(f, T)
       \/ RefindFirmware \/ InsertPending \/ SendCommand \/ FailedSave \/ FailedLoad
       \/ SendFails \/ DeployFails \/ Crash
  BY DEF Next, TouchRow, Heartbeat, vars, bounds, Administer, Upload, Publish, Unpublish, Discard, SetCatalog, Deploy,
         CheckForUpdate, Handle, ReceiveReport, FindPending, LoadLog, SaveLog,
         InsertSelfInitiated, LoadRow, UpdateVersion, SaveRow, HandlerFails
<1>. QED
  BY <1>4, <1>5, <1>6, <1>7, <1>8, <1>9, <1>10, <1>11, <1>12

-----------------------------------------------------------------------------
\* Files that were published and targets that got suitable ones stay such.
LEMMA NextRight == ASSUME FInv, [Next]_vars PROVE RightInv'
<1>1. /\ RightInv /\ TablesInv /\ checked \subseteq checked'
      /\ \A t, f : Suits(t, f) => Suits(t, f)'
  BY NextLogs DEF FInv, Grows, Suits
<1>2. ASSUME NEW f \in Firmware, catalog'[f] = "published" PROVE f \in checked'
  <2>1. ASSUME NEW g \in Firmware, NEW before, NEW after, SetCatalog(g, before, after)
        PROVE  f \in checked'
    BY <1>1, <1>2, <2>1 DEF SetCatalog, TablesInv, RightInv
  <2>2. CASE Administer
    BY <2>1, <2>2, ConstantsAssumption DEF Administer, Upload, Publish, Unpublish, Discard
  <2>3. Administer \/ catalog' = catalog
    BY DEF Next, TouchRow, Heartbeat, vars, bounds, Deploy, DeployToDevices, CheckGateways, CheckForUpdate,
           RefindFirmware, InsertPending, SendCommand, FailedLoad, FailedSave, Handle,
           ReceiveReport, FindPending, LoadLog, SaveLog, InsertSelfInitiated, LoadRow,
           UpdateVersion, SaveRow, HandlerFails, SendFails, DeployFails, Crash
  <2>. QED
    BY <1>1, <1>2, <2>2, <2>3 DEF RightInv
<1>3. ASSUME NEW t \in Target, NEW f \in received'[t] PROVE Suits(t, f)'
  <2>1. ASSUME NEW u \in Target, NEW g \in Firmware, CheckForUpdate(u, g) PROVE Suits(t, f)'
    <3>1. Suits(u, g)
      BY <1>1, <2>1, ConstantsAssumption DEF CheckForUpdate, RightInv, Suits
    <3>2. f \in received[t] \/ (t = u /\ f = g)
      BY <1>1, <1>3, <2>1 DEF CheckForUpdate, TablesInv
    <3>. QED
      BY <1>1, <3>1, <3>2 DEF RightInv
  <2>2. CASE SendCommand
    <3>1. Suits(deploy.target, deploy.file) /\ deploy.target \in Target
      BY <2>2, JobFacts DEF SendCommand, DeployOK, Sending
    <3>2. f \in received[t] \/ (t = deploy.target /\ f = deploy.file)
      BY <1>1, <1>3, <2>2, <3>1 DEF SendCommand, TablesInv
    <3>. QED
      BY <1>1, <3>1, <3>2 DEF RightInv
  <2>. QED
    BY <1>1, <1>3, <2>1, <2>2, ReceivedStep DEF RightInv
<1>. QED
  BY <1>2, <1>3 DEF RightInv

\* The invariant holds throughout.
LEMMA FirmwareInvariant == Spec => []FInv
<1>1. FInv /\ [Next]_vars => FInv'
  BY NextTables, NextLogs, NextJobs, NextDeploy, NextRight DEF FInv
<1>. QED
  BY <1>1, InitFirmware, PTL DEF Spec

\* Every variable has its type: no report or deployment works on a log that is
\* not there.
THEOREM TypeInvariant == Spec => []TypeOK
<1>1. FInv => TypeOK
  BY DEF FInv, TablesInv, LogsInv, JobsInv, DeployInv, JobOK, DeployOK, DeployRow, LogRow,
         Sending, Statuses, TypeOK
<1>. QED
  BY <1>1, FirmwareInvariant, PTL

\* No target gets firmware for the other kind, and no gateway gets a file that
\* was never published.
THEOREM SuitableFirmware == Spec => []RightFirmware
<1>1. FInv => RightFirmware
  BY ConstantsAssumption DEF FInv, RightInv, Suits, RightFirmware, Target
<1>. QED
  BY <1>1, FirmwareInvariant, PTL

-----------------------------------------------------------------------------
(* The table implements UpdateLog. *)

\* An empty table is an empty history.
LEMMA InitRefines == Init => Abstract!Init
<1> SUFFICES ASSUME Init PROVE Abstract!Init
  OBVIOUS
<1>1. Ids = {} /\ \A t \in Target : Successes(t) = {}
  BY DEF Init, Ids, Successes
<1>. QED
  BY <1>1 DEF Abstract!Init, Abstract!Blank, History

\* The entry of an update: blank until its row is inserted.
LEMMA HistoryEntries ==
  /\ \A l \in LogId \ Ids : History[l] = Abstract!Blank
  /\ \A l \in LogId \cap Ids :
       History[l] = [status |-> logs[l].status, target |-> logs[l].target,
                     version |-> logs[l].version]
  /\ History = [l \in LogId |-> History[l]]
  BY DEF History, Abstract!Blank

\* The history depends on the logs alone.
LEMMA SameHistory == ASSUME logs' = logs PROVE History' = History
  BY DEF History, Ids

\* What Becomes asks, from the entry that changes and those that do not.
LEMMA BecomesBy ==
  ASSUME NEW l \in LogId, NEW Entries,
         History'[l] \in Entries,
         \A k \in LogId : k # l => History'[k] = History[k],
         History'[l].status = "success" => History'[l].target \in Succeeded,
         Succeeded' = Succeeded
  PROVE  Abstract!Becomes(l, Entries)
<1>1. History' = [History EXCEPT ![l] = History'[l]]
  BY DEF History
<1>. QED
  BY <1>1 DEF Abstract!Becomes, Succeeded

\* An insert records an update.
LEMMA InsertRefines ==
  ASSUME FInv, InsertPending \/ \E h \in Handler : InsertSelfInitiated(h)
  PROVE  \E l \in LogId : Abstract!Record(l)
<1>1. LogsInv
  BY DEF FInv
<1>2. PICK l \in LogId \ Ids, t \in Target, f \in Firmware, s \in Statuses :
        /\ logs' = Inserted(l, t, f, s)
        /\ s = "success" => t \in Succeeded
        /\ UNCHANGED <<heard, checked, failedSends>>
  BY InsertStep
<1>3. /\ Ids' = Ids \cup {l} /\ Ids \subseteq LogId
      /\ logs'[l] = [target |-> t, version |-> f, status |-> s, order |-> Cardinality(Ids)]
      /\ \A k \in Ids : logs'[k] = logs[k]
  BY <1>1, <1>2, InsertEffect DEF LogsInv
<1>4. Succeeded' = Succeeded
  BY <1>2 DEF Succeeded, Successes
<1>5. History'[l] = [status |-> s, target |-> t, version |-> f]
  BY <1>3 DEF History
<1>6. \A k \in LogId : k # l => History'[k] = History[k]
  BY <1>3 DEF History
<1>7. History'[l] \in [status : Abstract!Ended \cup {"pending"}, target : Target, version : Firmware]
  BY <1>5 DEF Abstract!Ended, Statuses
<1>8. History'[l].status = "success" => History'[l].target \in Succeeded
  BY <1>2, <1>5
<1>9. Abstract!Becomes(l, [status : Abstract!Ended \cup {"pending"}, target : Target,
                           version : Firmware])
  BY <1>4, <1>6, <1>7, <1>8, BecomesBy
<1>. QED
  BY <1>9, HistoryEntries DEF Abstract!Record

\* A save ends an update, or ends it again.
LEMMA SaveRefines ==
  ASSUME FInv, FailedSave \/ \E h \in Handler : SaveLog(h)
  PROVE  (History' = History /\ Succeeded' = Succeeded) \/ \E l \in LogId : Abstract!End(l)
<1>1. LogsInv
  BY DEF FInv
<1>2. PICK l \in Ids, s \in {"success", "failed"}, loaded \in Loaded :
        /\ logs' = Saved(l, s, loaded)
        /\ s = "success" => logs[l].target \in Succeeded
        /\ UNCHANGED <<heard, checked>>
  BY SaveStep
<1>3. /\ Ids' = Ids /\ Ids \subseteq LogId
      /\ \A k \in Ids : k # l => logs'[k] = logs[k]
      /\ logs'[l] = logs[l] \/ logs'[l] = [logs[l] EXCEPT !.status = s]
  BY <1>1, <1>2, SaveEffect DEF LogsInv
<1>4. Succeeded' = Succeeded
  BY <1>2 DEF Succeeded, Successes
<1>5. \A k \in LogId : k # l => History'[k] = History[k]
  BY <1>3 DEF History
<1>6. CASE logs'[l] = logs[l]
  BY <1>3, <1>4, <1>5, <1>6 DEF History
<1>7. CASE logs'[l] = [logs[l] EXCEPT !.status = s]
  <2>1. logs[l] \in LogRow
    BY <1>1 DEF LogsInv
  <2>2. /\ logs'[l].status = s /\ logs'[l].target = logs[l].target
        /\ logs'[l].version = logs[l].version
    BY <1>7, <2>1 DEF LogRow
  <2>3. History'[l] = [status |-> s, target |-> logs[l].target, version |-> logs[l].version]
    BY <1>3, <2>2 DEF History
  <2>4. History[l] = [status |-> logs[l].status, target |-> logs[l].target,
                      version |-> logs[l].version]
    BY <1>3 DEF History
  <2>5. History'[l] \in {[History[l] EXCEPT !.status = e] : e \in Abstract!Ended}
    BY <2>3, <2>4 DEF Abstract!Ended
  <2>6. History[l] # Abstract!Blank
    BY <2>1, <2>4 DEF Abstract!Blank, LogRow, Statuses
  <2>7. History'[l].status = "success" => History'[l].target \in Succeeded
    BY <1>2, <2>3
  <2>8. Abstract!Becomes(l, {[History[l] EXCEPT !.status = e] : e \in Abstract!Ended})
    BY <1>3, <1>4, <1>5, <2>5, <2>7, BecomesBy
  <2>. QED
    BY <1>3, <2>6, <2>8 DEF Abstract!End
<1>. QED
  BY <1>3, <1>6, <1>7

\* Every step records, ends, hears or leaves the history alone.
LEMMA NextRefines ==
  ASSUME FInv, [Next]_vars PROVE Abstract!Next \/ (History' = History /\ Succeeded' = Succeeded)
<1>1. CASE InsertPending \/ \E h \in Handler : InsertSelfInitiated(h)
  BY <1>1, InsertRefines DEF Abstract!Next
<1>2. CASE FailedSave \/ \E h \in Handler : SaveLog(h)
  BY <1>2, SaveRefines DEF Abstract!Next
<1>3. CASE ~LogWriters
  <2>1. History' = History
    BY <1>3, OnlyWriters, SameHistory
  <2>2. Succeeded' = Succeeded \/ \E t \in Target : Succeeded' = Succeeded \cup {t}
    BY HeardStep DEF FInv
  <2>3. ASSUME NEW t \in Target, Succeeded' = Succeeded \cup {t} PROVE Abstract!Hear(t)
    BY <2>1, <2>3 DEF Abstract!Hear, Succeeded
  <2>. QED
    BY <2>1, <2>2, <2>3 DEF Abstract!Next
<1>. QED
  BY <1>1, <1>2, <1>3 DEF LogWriters

\* However reports, deployments and failures interleave, the table of updates
\* keeps the promise of UpdateLog.
THEOREM ImplementsUpdateLog == Spec => KeepsHistory
<1>1. FInv /\ [Next]_vars => [Abstract!Next]_<<History, {t \in Target : Successes(t) # {}}>>
  BY NextRefines DEF Succeeded
<1>. QED
  BY <1>1, InitRefines, FirmwareInvariant, PTL DEF Spec, KeepsHistory, Abstract!Spec

-----------------------------------------------------------------------------
(* Targets whose deployments and reports came one at a time.  The invariant  *)
(* follows such a target: at most one update of it is pending, the report at  *)
(* work is the last one heard and closes that very log, and what ended has    *)
(* the outcome that was heard.                                                *)

AtWork(t) == {h \in Handler : job[h].target = t}
EndedOf(t) == LogsOf(t) \ PendingOf(t)

Unrecorded(t) == IF \E h \in AtWork(t) : job[h].pc \in Recording THEN 1 ELSE 0

\* At most one log is pending, and what the target got and did not report is
\* the version of that log.
PendingOK(t) ==
  /\ \A l, k \in PendingOf(t) : l = k
  /\ \A l \in PendingOf(t) : l \notin failedSends /\ Unreported(t) \subseteq {logs[l].version}

\* The deployment works on the pending log, and no report does.
DeployingOK(t) ==
  deploy.target = t =>
    /\ deploy.pc \in Sending
    /\ deploy.log \in PendingOf(t) /\ logs[deploy.log].version = deploy.file
    /\ deploy.pc = "failed_save" => deploy.loaded = "pending"
    /\ AtWork(t) = {}

LastHeard(t) == heard[t][Len(heard[t])]

\* The report at work is the last one heard.
WorkOK(t, j) ==
  /\ j.pc # "idle"
  /\ heard[t] # <<>> /\ LastHeard(t) = [file |-> j.file, ok |-> j.ok]
  /\ j.pc = "find" => \A l \in PendingOf(t) : logs[l].version = j.file
  /\ j.pc \in {"load", "save"} => j.log \in PendingOf(t) /\ logs[j.log].version = j.file
  /\ j.pc = "save" => j.loaded = "pending"

ReportsOK(t) ==
  /\ \A h, g \in AtWork(t) : h = g
  /\ \A h \in AtWork(t) : WorkOK(t, job[h])

\* A log that ended by a report has an outcome that was heard of its version.
EndedOK(t) ==
  \A l \in EndedOf(t) \ failedSends :
    \E i \in DOMAIN heard[t] :
      heard[t][i].file = logs[l].version /\ Outcome(heard[t][i].ok) = logs[l].status

CountOK(t) ==
  Cardinality(EndedOf(t)) + Unrecorded(t) =
    Len(heard[t]) + Cardinality(LogsOf(t) \cap failedSends)

Clean(t) ==
  PendingOK(t) /\ DeployingOK(t) /\ ReportsOK(t) /\ EndedOK(t) /\ CountOK(t)

CleanInv == \A t \in Target \ muddled : Clean(t)

\* Nothing that Clean(t) speaks of changes.
SameLogs(t) ==
  /\ LogsOf(t)' = LogsOf(t) /\ PendingOf(t)' = PendingOf(t)
  /\ \A l \in LogsOf(t) : logs'[l] = logs[l]
  /\ LogsOf(t) \cap failedSends' = LogsOf(t) \cap failedSends

SameWork(t) ==
  /\ AtWork(t)' = AtWork(t)
  /\ \A h \in AtWork(t) : job'[h] = job[h]

SameView(t) ==
  /\ SameLogs(t) /\ SameWork(t)
  /\ heard'[t] = heard[t] /\ received'[t] = received[t]
  /\ deploy'.target = t => deploy' = deploy

\* No target is at work at the start.
LEMMA InitClean == Init => CleanInv
<1> SUFFICES ASSUME Init, NEW t \in Target PROVE Clean(t)
  BY DEF CleanInv
<1>1. LogsOf(t) = {} /\ PendingOf(t) = {} /\ EndedOf(t) = {} /\ heard[t] = <<>>
  BY DEF Init, Ids, LogsOf, PendingOf, EndedOf
<1>2. AtWork(t) = {} /\ deploy.target # t
  BY ConstantsAssumption DEF Init, AtWork, NoJob, NoDeploy, Target
<1>3. Unrecorded(t) = 0 /\ Successes(t) = {} /\ LogsOf(t) \cap failedSends = {}
  BY <1>1, <1>2 DEF Unrecorded, Successes
<1>4. CountOK(t)
  BY <1>1, <1>3, FS_EmptySet DEF CountOK
<1>. QED
  BY <1>1, <1>2, <1>3, <1>4
     DEF Clean, PendingOK, DeployingOK, ReportsOK, EndedOK

\* A target the step does not concern stays clean.
LEMMA SameClean ==
  ASSUME NEW t \in Target, Clean(t), SameView(t) PROVE Clean(t)'
<1>1. /\ LogsOf(t)' = LogsOf(t) /\ PendingOf(t)' = PendingOf(t) /\ EndedOf(t)' = EndedOf(t)
      /\ \A l \in LogsOf(t) : logs'[l] = logs[l] /\ (l \in failedSends' <=> l \in failedSends)
      /\ LogsOf(t)' \cap failedSends' = LogsOf(t) \cap failedSends
      /\ PendingOf(t) \subseteq LogsOf(t) /\ EndedOf(t) \subseteq LogsOf(t)
  BY DEF SameView, SameLogs, EndedOf, PendingOf, LogsOf
<1>2. AtWork(t)' = AtWork(t) /\ \A h \in AtWork(t) : job'[h] = job[h]
  BY DEF SameView, SameWork
<1>3. /\ heard'[t] = heard[t] /\ received'[t] = received[t]
      /\ Successes(t)' = Successes(t) /\ Unreported(t)' = Unreported(t)
      /\ LastHeard(t)' = LastHeard(t)
  BY DEF SameView, Successes, Unreported, LastHeard
<1>4. PendingOK(t)'
  BY <1>1, <1>3 DEF Clean, PendingOK
<1>5. DeployingOK(t)'
  <2>1. deploy'.target = t => deploy' = deploy
    BY DEF SameView
  <2>. QED
    BY <1>1, <1>2, <2>1 DEF Clean, DeployingOK
<1>6. ReportsOK(t)'
  BY <1>1, <1>2, <1>3 DEF Clean, ReportsOK, WorkOK
<1>7. EndedOK(t)'
  BY <1>1, <1>3 DEF Clean, EndedOK
<1>8. CountOK(t)'
  <2>1. Unrecorded(t)' = Unrecorded(t)
    BY <1>2 DEF Unrecorded
  <2>. QED
    BY <1>1, <1>3, <2>1 DEF Clean, CountOK
<1>. QED
  BY <1>4, <1>5, <1>6, <1>7, <1>8 DEF Clean

\* A table that does not change.
LEMMA QuietLogs ==
  ASSUME UNCHANGED <<logs, failedSends>>, NEW t PROVE SameLogs(t)
  BY DEF SameLogs, LogsOf, PendingOf, Ids

\* A new row concerns its target alone.
LEMMA InsertLogs ==
  ASSUME FInv, NEW l \in LogId \ Ids, NEW u \in Target, NEW f \in Firmware,
         NEW s \in Statuses, logs' = Inserted(l, u, f, s), failedSends' = failedSends
  PROVE  /\ \A t : t # u => SameLogs(t)
         /\ LogsOf(u)' = LogsOf(u) \cup {l}
         /\ PendingOf(u)' = IF s = "pending" THEN PendingOf(u) \cup {l} ELSE PendingOf(u)
         /\ \A k \in LogsOf(u) : logs'[k] = logs[k]
         /\ logs'[l].version = f /\ logs'[l].status = s
         /\ l \notin failedSends /\ l \notin LogsOf(u)
<1>1. /\ Ids' = Ids \cup {l} /\ \A k \in Ids : logs'[k] = logs[k]
      /\ logs'[l].target = u /\ logs'[l].version = f /\ logs'[l].status = s
  <2>1. LogsInv
    BY DEF FInv
  <2>2. /\ Ids' = Ids \cup {l} /\ \A k \in Ids : logs'[k] = logs[k]
        /\ logs'[l] = [target |-> u, version |-> f, status |-> s, order |-> Cardinality(Ids)]
    BY <2>1, InsertEffect
  <2>. QED
    BY <2>2
<1>2. l \notin failedSends /\ l \notin LogsOf(u)
  BY DEF FInv, LogsInv, LogsOf
<1>3. \A t : t # u => SameLogs(t)
  BY <1>1 DEF SameLogs, LogsOf, PendingOf
<1>4. LogsOf(u)' = LogsOf(u) \cup {l}
  BY <1>1 DEF LogsOf
<1>5. PendingOf(u)' = IF s = "pending" THEN PendingOf(u) \cup {l} ELSE PendingOf(u)
  BY <1>1 DEF PendingOf
<1>6. \A k \in LogsOf(u) : logs'[k] = logs[k]
  BY <1>1 DEF LogsOf
<1>. QED
  BY <1>1, <1>2, <1>3, <1>4, <1>5, <1>6

\* A save of a pending row ends it.
LEMMA SaveLogs ==
  ASSUME FInv, NEW l \in Ids, NEW s \in {"success", "failed"}, NEW loaded,
         logs' = Saved(l, s, loaded), failedSends' \subseteq failedSends \cup {l},
         failedSends \subseteq failedSends', NEW u, u = logs[l].target
  PROVE  /\ \A t : t # u => SameLogs(t)
         /\ l \in LogsOf(u) /\ LogsOf(u)' = LogsOf(u)
         /\ \A k \in LogsOf(u) : k # l => logs'[k] = logs[k]
         /\ loaded = "pending" =>
              /\ PendingOf(u)' = PendingOf(u) \ {l}
              /\ logs'[l].version = logs[l].version /\ logs'[l].status = s
<1>1. /\ Ids' = Ids /\ logs[l] \in LogRow
      /\ \A k \in Ids : k # l => logs'[k] = logs[k]
      /\ logs'[l] = logs[l] \/ logs'[l] = [logs[l] EXCEPT !.status = s]
      /\ \A k \in Ids : logs'[k].target = logs[k].target
  BY SaveEffect DEF FInv, LogsInv
<1>2. ASSUME NEW t, t # u PROVE SameLogs(t)
  BY <1>1, <1>2 DEF SameLogs, LogsOf, PendingOf
<1>3. l \in LogsOf(u)
  BY DEF LogsOf
<1>4. LogsOf(u)' = LogsOf(u) /\ \A k \in LogsOf(u) : k # l => logs'[k] = logs[k]
  BY <1>1 DEF LogsOf
<1>5. ASSUME loaded = "pending"
      PROVE  /\ PendingOf(u)' = PendingOf(u) \ {l}
             /\ logs'[l].version = logs[l].version /\ logs'[l].status = s
  <2>1. logs'[l] = [logs[l] EXCEPT !.status = s]
    BY <1>5 DEF Saved, FInv, LogsInv
  <2>2. /\ logs'[l].version = logs[l].version /\ logs'[l].status = s
        /\ logs'[l].target = logs[l].target
    BY <1>1, <2>1 DEF LogRow
  <2>3. PendingOf(u)' = PendingOf(u) \ {l}
    BY <1>1, <2>2 DEF PendingOf
  <2>. QED
    BY <2>2, <2>3
<1>. QED
  BY <1>2, <1>3, <1>4, <1>5

\* Steps that concern no log, and of the target neither reports nor commands.
LEMMA QuietClean ==
  ASSUME NEW t \in Target, Clean(t), UNCHANGED <<logs, failedSends, heard>>,
         received'[t] = received[t], SameWork(t), deploy'.target = t => deploy' = deploy
  PROVE  Clean(t)'
BY QuietLogs, SameClean DEF SameView

LEMMA SameJobs == ASSUME job' = job, NEW t PROVE SameWork(t)
  BY DEF SameWork, AtWork

\* A deployment that begins, looks its file up again or ends has no target.
LEMMA Targetless ==
  /\ NoDeploy.target \notin Target /\ NextTarget.target \notin Target
  /\ \A p, f, T : [NoDeploy EXCEPT !.pc = p, !.file = f, !.todo = T].target \notin Target
<1>1. \A p, f, T : [NoDeploy EXCEPT !.pc = p, !.file = f, !.todo = T].target = None
  BY DEF NoDeploy
<1>2. NoDeploy.target = None
  BY DEF NoDeploy
<1>. QED
  BY <1>1, <1>2, ConstantsAssumption DEF NextTarget

\* Only the job of one handler changes; it is not about t before or after.
LEMMA OtherJob ==
  ASSUME FInv, NEW h \in Handler, NEW j, job' = [job EXCEPT ![h] = j],
         NEW t \in Target, job[h].target # t, j.target # t
  PROVE  SameWork(t)
BY DEF SameWork, AtWork, FInv, JobsInv

\* Steps of the administrators and the start and end of a deployment.
LEMMA AdminClean ==
  ASSUME FInv, NEW t \in Target, Clean(t),
         \/ Administer \/ RefindFirmware
         \/ \E f \in Firmware, T \in (SUBSET Target) \ {{}} : DeployToDevices(f, T) \/ CheckGateways(f, T)
  PROVE  Clean(t)'
<1>1. UNCHANGED <<logs, failedSends, heard, received, job>>
  BY DEF Administer, Upload, Publish, Unpublish, Discard, SetCatalog, RefindFirmware,
         DeployToDevices, CheckGateways, history
<1>2. deploy'.target = t => deploy' = deploy
  <2>1. CASE Administer
    BY <2>1 DEF Administer, Upload, Publish, Unpublish, Discard, SetCatalog
  <2>2. CASE RefindFirmware
    <3>1. deploy \in DeployRow /\ deploy.target # t
      BY <2>2, JobFacts DEF RefindFirmware, Clean, DeployingOK, Sending
    <3>2. [deploy EXCEPT !.pc = "next"].target = deploy.target
      BY <3>1 DEF DeployRow
    <3>. QED
      BY <2>2, <3>1, <3>2, Targetless DEF RefindFirmware
  <2>3. ASSUME NEW f \in Firmware, NEW T \in (SUBSET Target) \ {{}},
               DeployToDevices(f, T) \/ CheckGateways(f, T)
        PROVE  deploy'.target \notin Target
    <3>1. PICK p : deploy' = [NoDeploy EXCEPT !.pc = p, !.file = f, !.todo = T]
      BY <2>3 DEF DeployToDevices, CheckGateways
    <3>. QED
      BY <3>1, Targetless
  <2>. QED
    BY <2>1, <2>2, <2>3
<1>. QED
  BY <1>1, <1>2, QuietClean, SameJobs

\* A clean target that gets a file by asking had nothing pending or unreported.
LEMMA AskClean ==
  ASSUME FInv, NEW t \in Target, Clean(t), t \notin muddled',
         NEW u \in Target, NEW f \in Firmware, CheckForUpdate(u, f)
  PROVE  Clean(t)'
<1>1. UNCHANGED <<logs, failedSends, heard, deploy, job>>
  BY DEF CheckForUpdate
<1>2. CASE u # t
  <2>1. received'[t] = received[t]
    BY <1>2 DEF CheckForUpdate, FInv, TablesInv
  <2>. QED
    BY <1>1, <2>1, QuietClean, SameJobs
<1>3. CASE u = t
  <2>1. ~Busy(t)
    BY <1>3 DEF CheckForUpdate, Muddle
  <2>2. PendingOf(t) = {} /\ deploy.target # t /\ AtWork(t) = {}
    BY <2>1 DEF Busy, AtWork
  <2>3. /\ LogsOf(t)' = LogsOf(t) /\ PendingOf(t)' = PendingOf(t)
        /\ AtWork(t)' = AtWork(t) /\ EndedOf(t)' = EndedOf(t)
    BY <1>1 DEF LogsOf, PendingOf, AtWork, EndedOf, Ids
  <2>4. Successes(t)' = Successes(t) /\ Unrecorded(t)' = Unrecorded(t)
    BY <1>1, <2>3 DEF Successes, Unrecorded
  <2>5. PendingOK(t)' /\ DeployingOK(t)' /\ ReportsOK(t)'
    BY <1>1, <2>2, <2>3 DEF PendingOK, DeployingOK, ReportsOK
  <2>6. EndedOK(t)' /\ CountOK(t)'
    BY <1>1, <2>2, <2>3, <2>4 DEF Clean, EndedOK, CountOK
  <2>. QED
    BY <2>5, <2>6 DEF Clean
<1>. QED
  BY <1>2, <1>3

\* The pending log of a clean target is the only one.
LEMMA InsertPendingClean ==
  ASSUME FInv, NEW t \in Target, Clean(t), t \notin muddled', InsertPending
  PROVE  Clean(t)'
<1>1. PICK u \in deploy.todo, l \in LogId \ Ids :
        /\ logs' = Inserted(l, u, deploy.file, "pending")
        /\ deploy' = [deploy EXCEPT !.pc = "send", !.target = u, !.log = l, !.todo = @ \ {u}]
        /\ Muddle(IF Busy(u) THEN {u} ELSE {})
  BY DEF InsertPending
<1>2. /\ UNCHANGED <<heard, received, job, failedSends>>
      /\ deploy \in DeployRow /\ u \in Target /\ deploy.file \in Firmware
      /\ "pending" \in Statuses
  BY JobFacts DEF InsertPending, DeployRow, DeployOK, Statuses
<1>3. /\ deploy'.pc = "send" /\ deploy'.target = u /\ deploy'.log = l
      /\ deploy'.file = deploy.file
  BY <1>1, <1>2 DEF DeployRow
<1>4. /\ \A v : v # u => SameLogs(v)
      /\ LogsOf(u)' = LogsOf(u) \cup {l}
      /\ PendingOf(u)' = PendingOf(u) \cup {l}
      /\ \A k \in LogsOf(u) : logs'[k] = logs[k]
      /\ logs'[l].version = deploy.file /\ logs'[l].status = "pending"
      /\ l \notin failedSends /\ l \notin LogsOf(u)
  BY <1>1, <1>2, InsertLogs
<1>5. CASE u # t
  BY <1>2, <1>3, <1>4, <1>5, SameClean, SameJobs DEF SameView
<1>6. CASE u = t
  <2>1. ~Busy(t)
    BY <1>1, <1>6 DEF Muddle
  <2>2. PendingOf(t) = {} /\ Unreported(t) = {} /\ AtWork(t) = {}
    BY <2>1 DEF Busy, AtWork
  <2>3. /\ AtWork(t)' = {} /\ Unreported(t)' = {} /\ Successes(t)' = Successes(t)
        /\ Unrecorded(t)' = Unrecorded(t)
    BY <1>2, <2>2 DEF AtWork, Unreported, Successes, Unrecorded
  <2>4. PendingOf(t)' = {l} /\ EndedOf(t)' = EndedOf(t) /\ LogsOf(t)' \cap failedSends' = LogsOf(t) \cap failedSends
    BY <1>2, <1>4, <1>6, <2>2 DEF EndedOf
  <2>5. PendingOK(t)' /\ DeployingOK(t)' /\ ReportsOK(t)'
    BY <1>2, <1>3, <1>4, <2>3, <2>4 DEF PendingOK, DeployingOK, ReportsOK, Sending
  <2>6. EndedOK(t)'
    BY <1>2, <1>4, <1>6, <2>4 DEF Clean, EndedOK, EndedOf
  <2>7. CountOK(t)'
    BY <1>2, <2>2, <2>3, <2>4 DEF Clean, CountOK
  <2>. QED
    BY <2>5, <2>6, <2>7 DEF Clean
<1>. QED
  BY <1>5, <1>6

\* A command gives a clean target the file of its pending log.
LEMMA SendClean ==
  ASSUME FInv, NEW t \in Target, Clean(t), SendCommand PROVE Clean(t)'
<1>1. /\ UNCHANGED <<logs, failedSends, heard, job>>
      /\ deploy \in DeployRow /\ deploy.target \in Target /\ deploy.file \in Firmware
      /\ deploy.pc \in Sending
  BY JobFacts DEF SendCommand, history, DeployOK, Sending
<1>2. /\ [deploy EXCEPT !.pc = "send_gateway"].target = deploy.target
      /\ [deploy EXCEPT !.pc = "send_gateway"].pc = "send_gateway"
      /\ [deploy EXCEPT !.pc = "send_gateway"].log = deploy.log
      /\ [deploy EXCEPT !.pc = "send_gateway"].file = deploy.file
  BY <1>1 DEF DeployRow
<1>3. \/ deploy'.target \notin Target
      \/ /\ deploy'.target = deploy.target /\ deploy'.pc = "send_gateway"
         /\ deploy'.log = deploy.log /\ deploy'.file = deploy.file
  BY <1>2, Targetless DEF SendCommand
<1>4. CASE deploy.target # t
  <2>1. received'[t] = received[t]
    BY <1>1, <1>4 DEF SendCommand, FInv, TablesInv
  <2>. QED
    BY <1>1, <1>3, <1>4, <2>1, QuietClean, SameJobs
<1>5. CASE deploy.target = t
  <2>1. /\ LogsOf(t)' = LogsOf(t) /\ PendingOf(t)' = PendingOf(t)
        /\ AtWork(t)' = AtWork(t) /\ EndedOf(t)' = EndedOf(t)
    BY <1>1 DEF LogsOf, PendingOf, AtWork, EndedOf, Ids
  <2>2. Successes(t)' = Successes(t) /\ Unrecorded(t)' = Unrecorded(t)
    BY <1>1, <2>1 DEF Successes, Unrecorded
  <2>3. /\ deploy.log \in PendingOf(t) /\ logs[deploy.log].version = deploy.file
        /\ AtWork(t) = {}
    BY <1>5 DEF Clean, DeployingOK
  <2>4. Unreported(t)' \subseteq Unreported(t) \cup {deploy.file}
    BY <1>1, <1>5 DEF Unreported, SendCommand, FInv, TablesInv
  <2>5. PendingOK(t)'
    <3>1. \A l \in PendingOf(t) : l = deploy.log /\ l \notin failedSends /\ Unreported(t) \subseteq {logs[l].version}
      BY <2>3 DEF Clean, PendingOK
    <3>. QED
      BY <1>1, <2>1, <2>3, <2>4, <3>1 DEF PendingOK
  <2>6. DeployingOK(t)' /\ ReportsOK(t)'
    BY <1>1, <1>3, <1>5, <2>1, <2>3 DEF DeployingOK, ReportsOK, Sending
  <2>7. EndedOK(t)' /\ CountOK(t)'
    BY <1>1, <2>1, <2>2 DEF Clean, EndedOK, CountOK
  <2>. QED
    BY <2>5, <2>6, <2>7 DEF Clean
<1>. QED
  BY <1>4, <1>5

\* A failed send, and the reading of its log.
LEMMA SendFailsClean ==
  ASSUME FInv, NEW t \in Target, Clean(t), SendFails \/ FailedLoad PROVE Clean(t)'
<1>1. /\ UNCHANGED <<logs, failedSends, heard, job, received>>
      /\ deploy \in DeployRow /\ deploy.pc \in Sending
  BY JobFacts DEF SendFails, FailedLoad, history, Sending
<1>2. /\ [deploy EXCEPT !.pc = "failed_load"].target = deploy.target
      /\ [deploy EXCEPT !.pc = "failed_load"].pc = "failed_load"
      /\ [deploy EXCEPT !.pc = "failed_load"].log = deploy.log
      /\ [deploy EXCEPT !.pc = "failed_load"].file = deploy.file
  BY <1>1 DEF DeployRow
<1>3. \A x : /\ [deploy EXCEPT !.pc = "failed_save", !.loaded = x].target = deploy.target
             /\ [deploy EXCEPT !.pc = "failed_save", !.loaded = x].pc = "failed_save"
             /\ [deploy EXCEPT !.pc = "failed_save", !.loaded = x].log = deploy.log
             /\ [deploy EXCEPT !.pc = "failed_save", !.loaded = x].file = deploy.file
             /\ [deploy EXCEPT !.pc = "failed_save", !.loaded = x].loaded = x
  BY <1>1 DEF DeployRow
<1>4. /\ deploy'.target = deploy.target /\ deploy'.pc \in Sending
      /\ deploy'.log = deploy.log /\ deploy'.file = deploy.file
      /\ deploy'.pc = "failed_save" => deploy'.loaded = logs[deploy.log].status
  <2>1. CASE SendFails
    BY <1>2, <2>1 DEF SendFails, Sending
  <2>2. CASE FailedLoad
    BY <1>3, <2>2 DEF FailedLoad, Sending
  <2>. QED
    BY <2>1, <2>2
<1>5. CASE deploy.target # t
  BY <1>1, <1>4, <1>5, QuietClean, SameJobs
<1>6. CASE deploy.target = t
  <2>1. /\ LogsOf(t)' = LogsOf(t) /\ PendingOf(t)' = PendingOf(t)
        /\ AtWork(t)' = AtWork(t) /\ EndedOf(t)' = EndedOf(t)
    BY <1>1 DEF LogsOf, PendingOf, AtWork, EndedOf, Ids
  <2>2. /\ Successes(t)' = Successes(t) /\ Unrecorded(t)' = Unrecorded(t)
        /\ Unreported(t)' = Unreported(t)
    BY <1>1, <2>1 DEF Successes, Unrecorded, Unreported
  <2>3. /\ deploy.log \in PendingOf(t) /\ logs[deploy.log].version = deploy.file
        /\ AtWork(t) = {} /\ logs[deploy.log].status = "pending"
    BY <1>6 DEF Clean, DeployingOK, PendingOf
  <2>4. DeployingOK(t)' /\ ReportsOK(t)'
    BY <1>1, <1>4, <2>1, <2>3 DEF DeployingOK, ReportsOK
  <2>5. PendingOK(t)' /\ EndedOK(t)' /\ CountOK(t)'
    BY <1>1, <2>1, <2>2 DEF Clean, PendingOK, EndedOK, CountOK
  <2>. QED
    BY <2>4, <2>5 DEF Clean
<1>. QED
  BY <1>5, <1>6

\* The logs of a target are finitely many.
LEMMA FiniteLogs ==
  ASSUME FInv, NEW t
  PROVE  /\ IsFiniteSet(LogsOf(t)) /\ IsFiniteSet(EndedOf(t))
         /\ \A S : IsFiniteSet(LogsOf(t) \cap S)
<1>1. IsFiniteSet(Ids)
  BY DEF FInv, LogsInv
<1>2. LogsOf(t) \subseteq Ids /\ EndedOf(t) \subseteq Ids /\ \A S : LogsOf(t) \cap S \subseteq Ids
  BY DEF LogsOf, EndedOf
<1>. QED
  BY <1>1, <1>2, FS_Subset

\* One more element.
LEMMA OneMore ==
  ASSUME NEW S, IsFiniteSet(S), NEW x, x \notin S, NEW T, T = S \cup {x}
  PROVE  Cardinality(S) \in Nat /\ Cardinality(T) = Cardinality(S) + 1
BY FS_AddElement, FS_CardinalityType

\* A log whose send failed ends as failed, and is counted as such.
LEMMA FailedSaveClean ==
  ASSUME FInv, NEW t \in Target, Clean(t), FailedSave PROVE Clean(t)'
<1>1. /\ UNCHANGED <<heard, job, received>>
      /\ deploy.pc = "failed_save" /\ deploy.log \in Ids /\ logs[deploy.log].target = deploy.target
      /\ logs' = Saved(deploy.log, "failed", deploy.loaded)
      /\ failedSends' = failedSends \cup {deploy.log}
      /\ deploy'.target \notin Target
  BY JobFacts, Targetless DEF FailedSave, DeployOK, Sending
<1>2. PICK l \in Ids, u \in Target : l = deploy.log /\ u = deploy.target
  BY <1>1, JobFacts DEF DeployOK, Sending
<1>3. /\ \A v : v # u => SameLogs(v)
      /\ l \in LogsOf(u) /\ LogsOf(u)' = LogsOf(u)
      /\ \A k \in LogsOf(u) : k # l => logs'[k] = logs[k]
      /\ deploy.loaded = "pending" => PendingOf(u)' = PendingOf(u) \ {l}
  BY <1>1, <1>2, SaveLogs
<1>4. CASE u # t
  BY <1>1, <1>3, <1>4, SameClean, SameJobs DEF SameView
<1>5. CASE u = t
  <2>1. /\ l \in PendingOf(t) /\ AtWork(t) = {} /\ deploy.loaded = "pending"
        /\ \A k \in PendingOf(t) : k = l
        /\ l \notin failedSends
    BY <1>1, <1>2, <1>5 DEF Clean, DeployingOK, PendingOK
  <2>2. PendingOf(t)' = {} /\ EndedOf(t)' = EndedOf(t) \cup {l} /\ l \notin EndedOf(t)
    BY <1>3, <1>5, <2>1 DEF EndedOf
  <2>3. /\ AtWork(t)' = {} /\ Successes(t)' = Successes(t) /\ Unrecorded(t)' = Unrecorded(t)
    BY <1>1, <2>1 DEF AtWork, Successes, Unrecorded
  <2>4. /\ LogsOf(t)' \cap failedSends' = (LogsOf(t) \cap failedSends) \cup {l}
        /\ l \notin LogsOf(t) \cap failedSends
    BY <1>1, <1>2, <1>3, <1>5, <2>1
  <2>5. PendingOK(t)' /\ DeployingOK(t)' /\ ReportsOK(t)'
    BY <1>1, <2>2, <2>3 DEF PendingOK, DeployingOK, ReportsOK
  <2>6. EndedOK(t)'
    <3>1. ASSUME NEW k \in EndedOf(t)' \ failedSends'
          PROVE  k \in EndedOf(t) \ failedSends /\ logs'[k] = logs[k]
      BY <1>1, <1>2, <1>3, <1>5, <2>2 DEF EndedOf
    <3>. QED
      BY <1>1, <3>1 DEF Clean, EndedOK
  <2>7. CountOK(t)'
    <3>1. /\ Cardinality(EndedOf(t)') = Cardinality(EndedOf(t)) + 1
          /\ Cardinality(EndedOf(t)) \in Nat
      BY <2>2, FiniteLogs, OneMore
    <3>2. /\ Cardinality(LogsOf(t)' \cap failedSends') = Cardinality(LogsOf(t) \cap failedSends) + 1
          /\ Cardinality(LogsOf(t) \cap failedSends) \in Nat
      BY <2>4, FiniteLogs, OneMore
    <3>3. Len(heard[t]) \in Nat /\ heard'[t] = heard[t] /\ Unrecorded(t) \in {0, 1}
      BY <1>1 DEF FInv, TablesInv, Unrecorded
    <3>4. CountOK(t)
      BY DEF Clean
    <3>. QED
      BY <2>3, <3>1, <3>2, <3>3, <3>4 DEF CountOK
  <2>. QED
    BY <2>5, <2>6, <2>7 DEF Clean
<1>. QED
  BY <1>4, <1>5

\* Failures: those that cut something short about a target muddle it.
LEMMA FailClean ==
  ASSUME FInv, NEW t \in Target, Clean(t), t \notin muddled',
         DeployFails \/ Crash \/ \E h \in Handler : HandlerFails(h)
  PROVE  Clean(t)'
<1>1. UNCHANGED <<logs, failedSends, heard, received>>
  BY DEF DeployFails, Crash, HandlerFails
<1>2. NoJob.target # t /\ NoDeploy.target # t
  BY ConstantsAssumption DEF NoJob, NoDeploy
<1>3. CASE DeployFails
  BY <1>1, <1>2, <1>3, QuietClean, SameJobs DEF DeployFails
<1>4. CASE Crash
  <2>1. \A h \in Handler : job[h].target # t
    BY <1>4 DEF Crash, Muddle
  <2>2. SameWork(t)
    BY <1>2, <1>4, <2>1 DEF SameWork, AtWork, Crash
  <2>. QED
    BY <1>1, <1>2, <1>4, <2>2, QuietClean DEF Crash
<1>5. ASSUME NEW h \in Handler, HandlerFails(h) PROVE Clean(t)'
  <2>1. job[h].target # t /\ job' = [job EXCEPT ![h] = NoJob] /\ deploy' = deploy
    BY <1>5 DEF HandlerFails, Muddle, Step
  <2>2. SameWork(t)
    BY <1>2, <2>1, OtherJob
  <2>. QED
    BY <1>1, <2>1, <2>2, QuietClean
<1>. QED
  BY <1>3, <1>4, <1>5

\* What appending a report does to what was heard.
LEMMA HeardMore ==
  ASSUME FInv, NEW t \in Target, NEW r \in Report, heard' = [heard EXCEPT ![t] = Append(@, r)]
  PROVE  /\ Len(heard'[t]) = Len(heard[t]) + 1 /\ Len(heard[t]) \in Nat
         /\ heard'[t] # <<>> /\ LastHeard(t)' = r
         /\ DOMAIN heard'[t] = DOMAIN heard[t] \cup {Len(heard[t]) + 1}
         /\ heard'[t][Len(heard[t]) + 1] = r
         /\ \A i \in DOMAIN heard[t] : heard'[t][i] = heard[t][i]
         /\ Unreported(t)' = received'[t] \ ({heard[t][i].file : i \in DOMAIN heard[t]} \cup {r.file})
<1>1. heard[t] \in Seq(Report) /\ heard'[t] = Append(heard[t], r)
  BY DEF FInv, TablesInv
<1>2. /\ Len(heard'[t]) = Len(heard[t]) + 1 /\ Len(heard[t]) \in Nat
      /\ heard'[t] # <<>> /\ heard'[t][Len(heard[t]) + 1] = r
      /\ DOMAIN heard'[t] = DOMAIN heard[t] \cup {Len(heard[t]) + 1}
      /\ \A i \in DOMAIN heard[t] : heard'[t][i] = heard[t][i]
  <2>1. /\ Len(heard'[t]) = Len(heard[t]) + 1 /\ Len(heard[t]) \in Nat
        /\ heard'[t][Len(heard[t]) + 1] = r
    BY <1>1
  <2>2. heard'[t] # <<>>
    BY <2>1
  <2>3. /\ DOMAIN heard'[t] = DOMAIN heard[t] \cup {Len(heard[t]) + 1}
        /\ \A i \in DOMAIN heard[t] : heard'[t][i] = heard[t][i]
    BY <1>1
  <2>. QED
    BY <2>1, <2>2, <2>3
<1>3. LastHeard(t)' = r
  BY <1>2 DEF LastHeard
<1>4. {heard'[t][i].file : i \in DOMAIN heard'[t]} = {heard[t][i].file : i \in DOMAIN heard[t]} \cup {r.file}
  BY <1>2
<1>. QED
  BY <1>2, <1>3, <1>4 DEF Unreported

\* A report that keeps its target clean is about the one file the target got
\* and did not report.
LEMMA ReceiveClean ==
  ASSUME FInv, NEW t \in Target, Clean(t), t \notin muddled', NEW h \in Handler,
         NEW u \in Target, NEW f \in Firmware, NEW ok \in BOOLEAN, ReceiveReport(h, u, f, ok)
  PROVE  Clean(t)'
<1> DEFINE j == [NoJob EXCEPT !.pc = "find", !.target = u, !.file = f, !.ok = ok,
                              !.row = u, !.held = f]
           r == [file |-> f, ok |-> ok]
<1>1. /\ UNCHANGED <<logs, failedSends, received, deploy>>
      /\ job' = [job EXCEPT ![h] = j] /\ job[h].pc = "idle"
      /\ heard' = [heard EXCEPT ![u] = Append(@, r)]
      /\ r \in Report
  BY DEF ReceiveReport, Report
<1>2. j.pc = "find" /\ j.target = u /\ j.file = f /\ j.ok = ok
  BY DEF NoJob
<1>3. h \notin AtWork(t)
  BY <1>1 DEF Clean, ReportsOK, WorkOK
<1>4. \A g \in Handler : job'[g] = IF g = h THEN j ELSE job[g]
  BY <1>1 DEF FInv, JobsInv
<1> HIDE DEF j
<1>5. CASE u # t
  <2>1. heard'[t] = heard[t]
    BY <1>1, <1>5 DEF FInv, TablesInv
  <2>2. SameWork(t)
    BY <1>2, <1>3, <1>4, <1>5 DEF SameWork, AtWork
  <2>. QED
    BY <1>1, <2>1, <2>2, SameClean, QuietLogs DEF SameView
<1>6. CASE u = t
  <2>1. f \in Unreported(t) /\ deploy.target # t /\ AtWork(t) = {}
    BY <1>6 DEF ReceiveReport, Muddle, AtWork
  <2>2. AtWork(t)' = {h} /\ job'[h] = j
    BY <1>2, <1>4, <1>6, <2>1 DEF AtWork
  <2>3. /\ LogsOf(t)' = LogsOf(t) /\ PendingOf(t)' = PendingOf(t) /\ EndedOf(t)' = EndedOf(t)
    BY <1>1 DEF LogsOf, PendingOf, EndedOf, Ids
  <2>4. /\ Len(heard'[t]) = Len(heard[t]) + 1 /\ Len(heard[t]) \in Nat
        /\ heard'[t] # <<>> /\ LastHeard(t)' = r
        /\ DOMAIN heard'[t] = DOMAIN heard[t] \cup {Len(heard[t]) + 1}
        /\ heard'[t][Len(heard[t]) + 1] = r
        /\ \A i \in DOMAIN heard[t] : heard'[t][i] = heard[t][i]
        /\ Unreported(t)' = received'[t] \ ({heard[t][i].file : i \in DOMAIN heard[t]} \cup {f})
    BY <1>1, <1>6, HeardMore
  <2>5. Unreported(t)' = Unreported(t) \ {f}
    BY <1>1, <2>4 DEF Unreported
  <2>6. \A l \in PendingOf(t) : logs[l].version = f
    BY <2>1 DEF Clean, PendingOK
  <2>7. PendingOK(t)'
    BY <1>1, <2>1, <2>3, <2>5, <2>6 DEF Clean, PendingOK
  <2>8. DeployingOK(t)'
    BY <1>1, <2>1 DEF DeployingOK
  <2>9. ReportsOK(t)'
    BY <1>1, <1>2, <2>2, <2>3, <2>4, <2>6 DEF ReportsOK, WorkOK
  <2>10. EndedOK(t)'
    BY <1>1, <2>3, <2>4 DEF Clean, EndedOK
  <2>11. CountOK(t)'
    <3>1. Unrecorded(t) = 0 /\ Unrecorded(t)' = 1
      BY <1>2, <2>1, <2>2 DEF Unrecorded, Recording
    <3>2. Cardinality(EndedOf(t)) \in Nat /\ Cardinality(LogsOf(t) \cap failedSends) \in Nat
      BY FiniteLogs, FS_CardinalityType
    <3>. QED
      BY <1>1, <2>3, <2>4, <3>1, <3>2 DEF Clean, CountOK
  <2>. QED
    BY <2>7, <2>8, <2>9, <2>10, <2>11 DEF Clean
<1>. QED
  BY <1>5, <1>6

\* A handler that goes on works for the same report, or is done.
LEMMA HandlerRow ==
  ASSUME FInv, NEW h \in Handler, Handle(h)
  PROVE  /\ \A g \in Handler : g # h => job'[g] = job[g]
         /\ \/ job'[h] = NoJob
            \/ /\ job'[h].target = job[h].target /\ job'[h].file = job[h].file
               /\ job'[h].ok = job[h].ok
         /\ UNCHANGED <<heard, received, deploy, failedSends>>
         /\ job[h] \in JobRow /\ JobOK(job[h]) /\ job[h].pc # "idle"
<1>1. job[h] \in JobRow /\ JobOK(job[h]) /\ job \in [Handler -> JobRow]
  BY DEF FInv, JobsInv
<1>2. ASSUME NEW k, job' = [job EXCEPT ![h] = k]
      PROVE  job'[h] = k /\ \A g \in Handler : g # h => job'[g] = job[g]
  BY <1>1, <1>2
<1>3. UNCHANGED <<heard, received, deploy, failedSends>> /\ job[h].pc # "idle"
  BY DEF Handle, FindPending, LoadLog, SaveLog, InsertSelfInitiated, LoadRow,
         UpdateVersion, SaveRow, history
<1>4. CASE FindPending(h)
  <2>1. PICK k : /\ job' = [job EXCEPT ![h] = k]
                 /\ \/ k = [job[h] EXCEPT !.pc = "insert"]
                    \/ \E l : k = [job[h] EXCEPT !.pc = "load", !.log = l]
    BY <1>4 DEF FindPending, Step
  <2>2. k.target = job[h].target /\ k.file = job[h].file /\ k.ok = job[h].ok
    BY <1>1, <2>1 DEF JobRow
  <2>. QED
    BY <1>1, <1>2, <1>3, <2>1, <2>2
<1>5. CASE LoadLog(h) \/ LoadRow(h)
  <2>1. PICK p, x, k : job' = [job EXCEPT ![h] = k] /\ k = [job[h] EXCEPT !.pc = p, !.loaded = x]
    BY <1>5 DEF LoadLog, LoadRow, Step
  <2>2. k.target = job[h].target /\ k.file = job[h].file /\ k.ok = job[h].ok
    BY <1>1, <2>1 DEF JobRow
  <2>. QED
    BY <1>1, <1>2, <1>3, <2>1, <2>2
<1>6. CASE SaveLog(h) \/ InsertSelfInitiated(h)
  <2>1. job' = [job EXCEPT ![h] = AfterLog(h)]
    BY <1>6 DEF SaveLog, InsertSelfInitiated, Step
  <2>2. AfterLog(h) = NoJob \/ \E p : AfterLog(h) = [job[h] EXCEPT !.pc = p]
    BY DEF AfterLog
  <2>3. \/ AfterLog(h) = NoJob
        \/ /\ AfterLog(h).target = job[h].target /\ AfterLog(h).file = job[h].file
           /\ AfterLog(h).ok = job[h].ok
    BY <1>1, <2>2 DEF JobRow
  <2>. QED
    BY <1>1, <1>2, <1>3, <2>1, <2>3
<1>7. CASE UpdateVersion(h) \/ SaveRow(h)
  BY <1>1, <1>2, <1>3, <1>7 DEF UpdateVersion, SaveRow, Step
<1>. QED
  BY <1>4, <1>5, <1>6, <1>7 DEF Handle

\* A handler at work for another target.
LEMMA OtherReportClean ==
  ASSUME FInv, NEW t \in Target, Clean(t), NEW h \in Handler, Handle(h),
         job[h].target # t
  PROVE  Clean(t)'
<1>1. /\ UNCHANGED <<heard, received, deploy, failedSends>>
      /\ job[h] \in JobRow /\ JobOK(job[h])
      /\ job[h].pc \in Recording => job[h].target \in Target /\ job[h].file \in Firmware
  BY HandlerRow DEF JobOK
<1>2. SameWork(t)
  <2>1. job'[h].target # t
    BY HandlerRow, ConstantsAssumption DEF NoJob
  <2>. QED
    BY <2>1, HandlerRow DEF SameWork, AtWork
<1>3. SameLogs(t)
  <2>1. CASE SaveLog(h)
    <3>1. /\ job[h].log \in Ids /\ logs[job[h].log].target = job[h].target
          /\ Outcome(job[h].ok) \in {"success", "failed"}
      BY <1>1, <2>1 DEF SaveLog, JobOK, Outcome
    <3>2. /\ logs' = Saved(job[h].log, Outcome(job[h].ok), job[h].loaded)
          /\ failedSends' \subseteq failedSends \cup {job[h].log}
          /\ failedSends \subseteq failedSends'
      BY <1>1, <2>1 DEF SaveLog
    <3>. QED
      BY <3>1, <3>2, SaveLogs
  <2>2. CASE InsertSelfInitiated(h)
    <3>1. Outcome(job[h].ok) \in Statuses
      BY DEF Outcome, Statuses
    <3>2. PICK l \in LogId \ Ids :
            logs' = Inserted(l, job[h].target, job[h].file, Outcome(job[h].ok))
      BY <2>2 DEF InsertSelfInitiated
    <3>3. job[h].target \in Target /\ job[h].file \in Firmware
      BY <1>1, <2>2 DEF InsertSelfInitiated, Recording
    <3>. QED
      BY <1>1, <3>1, <3>2, <3>3, InsertLogs
  <2>3. CASE logs' = logs
    BY <1>1, <2>3, QuietLogs
  <2>. QED
    BY <2>1, <2>2, <2>3 DEF Handle, FindPending, LoadLog, LoadRow, UpdateVersion, SaveRow
<1>. QED
  BY <1>1, <1>2, <1>3, SameClean DEF SameView

\* The one handler at work for a clean target.
LEMMA Working ==
  ASSUME FInv, NEW t \in Target, Clean(t), NEW h \in Handler, Handle(h),
         job[h].target = t
  PROVE  /\ AtWork(t) = {h} /\ WorkOK(t, job[h]) /\ deploy'.target # t
         /\ AtWork(t)' = IF job'[h].target = t THEN {h} ELSE {}
         /\ UNCHANGED <<heard, received, failedSends>>
         /\ Successes(t)' = Successes(t) /\ Unreported(t)' = Unreported(t)
         /\ LastHeard(t)' = LastHeard(t)
<1>1. AtWork(t) = {h} /\ WorkOK(t, job[h])
  BY DEF Clean, ReportsOK, AtWork
<1>2. deploy'.target # t
  BY <1>1, HandlerRow DEF Clean, DeployingOK
<1>3. AtWork(t)' = IF job'[h].target = t THEN {h} ELSE {}
  BY <1>1, HandlerRow DEF AtWork
<1>. QED
  BY <1>1, <1>2, <1>3, HandlerRow DEF Successes, Unreported, LastHeard

\* A handler that only looks, for its own next step.
LEMMA LookClean ==
  ASSUME FInv, NEW t \in Target, Clean(t), NEW h \in Handler, Handle(h),
         job[h].target = t, UNCHANGED <<logs>>,
         job'[h].target = t, job'[h].ok = job[h].ok,
         job'[h].pc \in Recording <=> job[h].pc \in Recording,
         WorkOK(t, job'[h])
  PROVE  Clean(t)'
<1>1. /\ AtWork(t) = {h} /\ AtWork(t)' = {h} /\ deploy'.target # t
      /\ UNCHANGED <<heard, received, failedSends>>
      /\ Successes(t)' = Successes(t) /\ Unreported(t)' = Unreported(t)
      /\ LastHeard(t)' = LastHeard(t)
  BY Working
<1>2. LogsOf(t)' = LogsOf(t) /\ PendingOf(t)' = PendingOf(t) /\ EndedOf(t)' = EndedOf(t)
  BY DEF LogsOf, PendingOf, EndedOf, Ids
<1>3. ReportsOK(t)'
  BY <1>1, <1>2 DEF ReportsOK, WorkOK
<1>4. CountOK(t)'
  <2>1. Unrecorded(t)' = Unrecorded(t)
    BY <1>1 DEF Unrecorded
  <2>. QED
    BY <1>1, <1>2, <2>1 DEF Clean, CountOK
<1>5. PendingOK(t)' /\ DeployingOK(t)' /\ EndedOK(t)'
  BY <1>1, <1>2 DEF Clean, PendingOK, DeployingOK, EndedOK
<1>. QED
  BY <1>3, <1>4, <1>5 DEF Clean

\* The report looks for the pending log of its target and loads it.
LEMMA FindClean ==
  ASSUME FInv, NEW t \in Target, Clean(t), NEW h \in Handler, job[h].target = t,
         FindPending(h) \/ LoadLog(h) \/ LoadRow(h)
  PROVE  Clean(t)'
<1>1. Handle(h) /\ UNCHANGED <<logs>>
  BY DEF Handle, FindPending, LoadLog, LoadRow
<1>2. /\ job[h] \in JobRow /\ WorkOK(t, job[h])
      /\ \A k : job' = [job EXCEPT ![h] = k] => job'[h] = k
  BY <1>1, Working, HandlerRow DEF FInv, JobsInv
<1>3. CASE FindPending(h)
  <2>1. PICK k : /\ job' = [job EXCEPT ![h] = k]
                 /\ \/ k = [job[h] EXCEPT !.pc = "insert"]
                    \/ \E l \in PendingOf(t) : k = [job[h] EXCEPT !.pc = "load", !.log = l]
    BY <1>3 DEF FindPending, Step, Newest
  <2>2. CASE k = [job[h] EXCEPT !.pc = "insert"]
    <3>1. k = [pc |-> "insert", target |-> job[h].target, file |-> job[h].file, ok |-> job[h].ok,
               log |-> job[h].log, loaded |-> job[h].loaded,
               row |-> job[h].row, held |-> job[h].held]
      BY <1>2, <2>2, JobExcept
    <3>2. WorkOK(t, k)
      BY <1>2, <3>1 DEF WorkOK
    <3>. QED
      BY <1>1, <1>2, <1>3, <2>1, <3>1, <3>2, LookClean DEF FindPending, Recording
  <2>3. ASSUME NEW l \in PendingOf(t), k = [job[h] EXCEPT !.pc = "load", !.log = l]
        PROVE  Clean(t)'
    <3>1. k = [pc |-> "load", target |-> job[h].target, file |-> job[h].file, ok |-> job[h].ok,
               log |-> l, loaded |-> job[h].loaded, row |-> job[h].row, held |-> job[h].held]
      BY <1>2, <2>3, JobExcept
    <3>2. WorkOK(t, k)
      BY <1>2, <1>3, <3>1 DEF WorkOK, FindPending
    <3>. QED
      BY <1>1, <1>2, <1>3, <2>1, <3>1, <3>2, LookClean DEF FindPending, Recording
  <2>. QED
    BY <2>1, <2>2, <2>3
<1>4. CASE LoadLog(h) \/ LoadRow(h)
  <2>1. PICK p, x, k :
          /\ job' = [job EXCEPT ![h] = k] /\ k = [job[h] EXCEPT !.pc = p, !.loaded = x]
          /\ \/ job[h].pc = "load" /\ p = "save" /\ x = logs[job[h].log].status
             \/ job[h].pc = "version_load" /\ p = "version" /\ x = version[job[h].row]
    BY <1>4 DEF LoadLog, LoadRow, Step
  <2>2. k = [pc |-> p, target |-> job[h].target, file |-> job[h].file, ok |-> job[h].ok,
             log |-> job[h].log, loaded |-> x, row |-> job[h].row, held |-> job[h].held]
    BY <1>2, <2>1 DEF JobRow
  <2>3. WorkOK(t, k)
    BY <1>2, <2>1, <2>2 DEF WorkOK, PendingOf
  <2>. QED
    BY <1>1, <1>2, <2>1, <2>2, <2>3, LookClean DEF Recording
<1>. QED
  BY <1>3, <1>4

\* The report at work is done once the version is written.
LEMMA WrittenClean ==
  ASSUME FInv, NEW t \in Target, Clean(t), NEW h \in Handler, job[h].target = t,
         UpdateVersion(h) \/ SaveRow(h)
  PROVE  Clean(t)'
<1>1. Handle(h) /\ logs' = logs /\ job[h].pc \in Saving
  BY DEF Saving, Handle, UpdateVersion, SaveRow
<1>2. job[h] \in JobRow /\ job'[h] = NoJob /\ NoJob.target # t
  BY <1>1, HandlerRow, ConstantsAssumption DEF UpdateVersion, SaveRow, Step, FInv, JobsInv, NoJob
<1>3. /\ AtWork(t) = {h} /\ AtWork(t)' = {} /\ deploy'.target # t /\ WorkOK(t, job[h])
      /\ UNCHANGED <<heard, received, failedSends>>
      /\ Successes(t)' = Successes(t) /\ Unreported(t)' = Unreported(t)
  BY <1>1, <1>2, Working
<1>4. LogsOf(t)' = LogsOf(t) /\ PendingOf(t)' = PendingOf(t) /\ EndedOf(t)' = EndedOf(t)
  BY <1>1 DEF LogsOf, PendingOf, EndedOf, Ids
<1>5. PendingOK(t)' /\ DeployingOK(t)' /\ EndedOK(t)' /\ ReportsOK(t)'
  BY <1>1, <1>3, <1>4 DEF Clean, PendingOK, DeployingOK, EndedOK, ReportsOK
<1>6. CountOK(t)'
  <2>1. Unrecorded(t)' = 0 /\ Unrecorded(t) = 0
    BY <1>1, <1>3 DEF Unrecorded, Recording, Saving
  <2>. QED
    BY <1>3, <1>4, <2>1 DEF Clean, CountOK
<1>. QED
  BY <1>5, <1>6 DEF Clean

\* What a report leaves to do once its log is written.
LEMMA AfterLogFacts ==
  ASSUME FInv, NEW t \in Target, Clean(t), NEW h \in Handler, job[h].target = t,
         SaveLog(h) \/ InsertSelfInitiated(h)
  PROVE  /\ Handle(h)
         /\ Unrecorded(t) = 1 /\ Unrecorded(t)' = 0
         /\ \A g \in AtWork(t)' : g = h /\ job'[g].ok /\ (job'[g].ok => job[h].ok)
         /\ job[h].ok => h \in AtWork(t)'
         /\ \A g \in AtWork(t)' :
              /\ job'[g].pc = IF t \in Gateway THEN "update" ELSE "version_load"
              /\ job'[g].file = job[h].file /\ job'[g].ok = job[h].ok
<1>1. Handle(h) /\ job[h].pc \in {"save", "insert"}
  BY DEF Handle, SaveLog, InsertSelfInitiated
<1>2. /\ job[h] \in JobRow /\ job'[h] = AfterLog(h) /\ NoJob.target # t
      /\ job[h].ok \in BOOLEAN
  BY <1>1, HandlerRow, ConstantsAssumption
     DEF SaveLog, InsertSelfInitiated, Step, FInv, JobsInv, NoJob, JobRow
<1>3. AtWork(t) = {h} /\ AtWork(t)' = IF job'[h].target = t THEN {h} ELSE {}
  BY <1>1, Working
<1>4. CASE ~job[h].ok
  <2>1. AtWork(t)' = {}
    BY <1>2, <1>3, <1>4 DEF AfterLog
  <2>2. Unrecorded(t) = 1 /\ Unrecorded(t)' = 0
    BY <1>1, <1>3, <2>1 DEF Unrecorded, Recording
  <2>. QED
    BY <1>1, <1>4, <2>1, <2>2
<1>5. CASE job[h].ok
  <2>1. PICK p, k : /\ p = IF t \in Gateway THEN "update" ELSE "version_load"
                    /\ k = [job[h] EXCEPT !.pc = p] /\ job'[h] = k
    BY <1>2, <1>5 DEF AfterLog
  <2>2. k.pc = p /\ k.target = t /\ k.file = job[h].file /\ k.ok = job[h].ok
    BY <1>2, <2>1 DEF JobRow
  <2>3. AtWork(t)' = {h}
    BY <1>3, <2>1, <2>2
  <2>4. Unrecorded(t) = 1 /\ Unrecorded(t)' = 0
    BY <1>1, <1>3, <2>1, <2>2, <2>3 DEF Unrecorded, Recording
  <2>. QED
    BY <1>1, <1>5, <2>1, <2>2, <2>3, <2>4
<1>. QED
  BY <1>2, <1>4, <1>5

\* Once a report has ended one log of its version, pending or new, with the
\* outcome it brought, its target is clean.
LEMMA RecordedClean ==
  ASSUME FInv, NEW t \in Target, Clean(t), NEW h \in Handler, job[h].target = t,
         SaveLog(h) \/ InsertSelfInitiated(h),
         NEW l, l \notin EndedOf(t), l \notin failedSends,
         EndedOf(t)' = EndedOf(t) \cup {l},
         \A k \in EndedOf(t) : logs'[k] = logs[k],
         PendingOf(t)' \subseteq PendingOf(t),
         \A k \in PendingOf(t)' : logs'[k] = logs[k],
         LogsOf(t)' \cap failedSends = LogsOf(t) \cap failedSends,
         logs'[l].version = job[h].file, logs'[l].status = Outcome(job[h].ok)
  PROVE  Clean(t)'
<1>1. /\ Handle(h)
      /\ Unrecorded(t) = 1 /\ Unrecorded(t)' = 0
      /\ \A g \in AtWork(t)' : g = h /\ job'[g].ok
      /\ job[h].ok => h \in AtWork(t)'
      /\ \A g \in AtWork(t)' :
           /\ job'[g].pc = IF t \in Gateway THEN "update" ELSE "version_load"
           /\ job'[g].file = job[h].file /\ job'[g].ok = job[h].ok
  BY AfterLogFacts
<1>2. /\ AtWork(t) = {h} /\ WorkOK(t, job[h]) /\ deploy'.target # t
      /\ UNCHANGED <<heard, received, failedSends>>
      /\ Successes(t)' = Successes(t) /\ Unreported(t)' = Unreported(t)
      /\ LastHeard(t)' = LastHeard(t)
  BY <1>1, Working
<1>3. PendingOK(t)'
  BY <1>2 DEF Clean, PendingOK
<1>4. DeployingOK(t)'
  BY <1>2 DEF DeployingOK
<1>5. ReportsOK(t)'
  <2>1. t \in Gateway => t \notin Device
    BY ConstantsAssumption
  <2>2. ASSUME NEW g \in AtWork(t)' PROVE WorkOK(t, job[g])'
    <3>1. /\ job'[g].pc = IF t \in Gateway THEN "update" ELSE "version_load"
          /\ job'[g].file = job[h].file /\ job'[g].ok = job[h].ok /\ job'[g].ok
      BY <1>1, <2>2
    <3>. QED
      BY <1>2, <2>1, <3>1 DEF WorkOK
  <2>. QED
    BY <1>1, <2>2 DEF ReportsOK
<1>6. EndedOK(t)'
  <2>1. heard[t] \in Seq(Report) /\ heard[t] # <<>>
    BY <1>2 DEF FInv, TablesInv, WorkOK
  <2>2. Len(heard[t]) \in DOMAIN heard[t]
    BY <2>1
  <2>3. /\ heard[t][Len(heard[t])].file = job[h].file
        /\ heard[t][Len(heard[t])].ok = job[h].ok
    BY <1>2 DEF WorkOK, LastHeard
  <2>4. ASSUME NEW k \in EndedOf(t)' \ failedSends'
        PROVE  \E i \in DOMAIN heard'[t] :
                 /\ heard'[t][i].file = logs'[k].version
                 /\ Outcome(heard'[t][i].ok) = logs'[k].status
    <3>1. CASE k = l
      BY <1>2, <2>2, <2>3, <3>1
    <3>2. CASE k # l
      BY <1>2, <2>4, <3>2 DEF Clean, EndedOK
    <3>. QED
      BY <3>1, <3>2
  <2>. QED
    BY <2>4 DEF EndedOK, Outcome
<1>7. CountOK(t)'
  <2>1. /\ Cardinality(EndedOf(t)') = Cardinality(EndedOf(t)) + 1
        /\ Cardinality(EndedOf(t)) \in Nat
    BY FiniteLogs, OneMore
  <2>2. Cardinality(LogsOf(t) \cap failedSends) \in Nat
    BY FiniteLogs, FS_CardinalityType
  <2>3. Len(heard[t]) \in Nat
    BY DEF FInv, TablesInv
  <2>4. CountOK(t)
    BY DEF Clean
  <2>5. heard'[t] = heard[t] /\ LogsOf(t)' \cap failedSends' = LogsOf(t) \cap failedSends
    BY <1>2
  <2>6. Unrecorded(t) = 1 /\ Unrecorded(t)' = 0
    BY <1>1
  <2>7. Cardinality(EndedOf(t)) + 1 = Len(heard[t]) + Cardinality(LogsOf(t) \cap failedSends)
    BY <2>4, <2>6 DEF CountOK
  <2>8. /\ Len(heard'[t]) = Len(heard[t])
        /\ Cardinality(LogsOf(t)' \cap failedSends') = Cardinality(LogsOf(t) \cap failedSends)
    BY <2>5, Zenon
  <2>9. PICK e, e1 : e = Cardinality(EndedOf(t)) /\ e1 = Cardinality(EndedOf(t)')
    OBVIOUS
  <2>10. PICK n, f : n = Len(heard[t]) /\ f = Cardinality(LogsOf(t) \cap failedSends)
    OBVIOUS
  <2>11. e \in Nat /\ n \in Nat /\ f \in Nat /\ e1 = e + 1 /\ e + 1 = n + f
    BY <2>1, <2>2, <2>3, <2>7, <2>9, <2>10, Zenon
  <2>12. e1 + 0 = n + f
    BY <2>11
  <2>13. Cardinality(EndedOf(t)') + Unrecorded(t)'
           = Len(heard'[t]) + Cardinality(LogsOf(t)' \cap failedSends')
    BY <2>6, <2>8, <2>9, <2>10, <2>12, Zenon
  <2>. QED
    BY <2>13 DEF CountOK
<1>. QED
  BY <1>3, <1>4, <1>5, <1>6, <1>7 DEF Clean

\* The report closes the pending log, or records an update of its own.
LEMMA WriteLogClean ==
  ASSUME FInv, NEW t \in Target, Clean(t), NEW h \in Handler, job[h].target = t,
         SaveLog(h) \/ InsertSelfInitiated(h)
  PROVE  Clean(t)'
<1>1. Handle(h)
  BY DEF Handle
<1>2. /\ WorkOK(t, job[h]) /\ JobOK(job[h]) /\ failedSends' = failedSends
      /\ Outcome(job[h].ok) \in {"success", "failed"}
  BY <1>1, Working, HandlerRow DEF Outcome
<1>3. CASE SaveLog(h)
  <2>1. PICK l \in Ids : l = job[h].log
    BY <1>2, <1>3 DEF SaveLog, JobOK
  <2>2. /\ l \in PendingOf(t) /\ logs[l].version = job[h].file /\ logs[l].target = t
        /\ job[h].loaded = "pending" /\ l \notin failedSends
        /\ \A k \in PendingOf(t) : k = l
    BY <1>2, <1>3, <2>1 DEF SaveLog, WorkOK, PendingOf, Clean, PendingOK
  <2>3. /\ logs' = Saved(l, Outcome(job[h].ok), job[h].loaded)
        /\ failedSends' \subseteq failedSends \cup {l} /\ failedSends \subseteq failedSends'
    BY <1>2, <1>3, <2>1 DEF SaveLog
  <2>4. /\ l \in LogsOf(t) /\ LogsOf(t)' = LogsOf(t)
        /\ \A k \in LogsOf(t) : k # l => logs'[k] = logs[k]
        /\ PendingOf(t)' = PendingOf(t) \ {l}
        /\ logs'[l].version = logs[l].version /\ logs'[l].status = Outcome(job[h].ok)
    BY <1>2, <2>2, <2>3, SaveLogs
  <2>5. /\ l \notin EndedOf(t) /\ EndedOf(t)' = EndedOf(t) \cup {l}
        /\ \A k \in EndedOf(t) : logs'[k] = logs[k]
    BY <2>2, <2>4 DEF EndedOf
  <2>. QED
    BY <1>3, <2>2, <2>4, <2>5, RecordedClean
<1>4. CASE InsertSelfInitiated(h)
  <2>1. PICK l \in LogId \ Ids :
          logs' = Inserted(l, job[h].target, job[h].file, Outcome(job[h].ok))
    BY <1>4 DEF InsertSelfInitiated
  <2>2. job[h].file \in Firmware /\ Outcome(job[h].ok) \in Statuses
    BY <1>2, <1>4 DEF JobOK, InsertSelfInitiated, Statuses
  <2>3. /\ LogsOf(t)' = LogsOf(t) \cup {l}
        /\ PendingOf(t)' = PendingOf(t)
        /\ \A k \in LogsOf(t) : logs'[k] = logs[k]
        /\ logs'[l].version = job[h].file /\ logs'[l].status = Outcome(job[h].ok)
        /\ l \notin failedSends /\ l \notin LogsOf(t)
    BY <1>2, <2>1, <2>2, InsertLogs
  <2>4. PendingOf(t) \subseteq LogsOf(t)
    BY DEF PendingOf, LogsOf
  <2>5. /\ l \notin EndedOf(t) /\ EndedOf(t)' = EndedOf(t) \cup {l}
        /\ \A k \in EndedOf(t) : logs'[k] = logs[k]
    BY <2>3, <2>4 DEF EndedOf
  <2>. QED
    BY <1>4, <2>3, <2>4, <2>5, RecordedClean
<1>. QED
  BY <1>3, <1>4

\* Requests other than reports are not about the target of a report.
LEMMA TouchClean ==
  ASSUME FInv, NEW t \in Target, Clean(t), NEW h \in Handler, NEW u \in Target,
         NEW f \in Firmware \cup {None}, TouchRow(h, u, f)
  PROVE  Clean(t)'
<1>1. /\ UNCHANGED <<logs, failedSends, heard, received, deploy>> /\ job[h].pc = "idle"
  BY DEF TouchRow
<1>2. PICK ok, v : job' = [job EXCEPT ![h] = [NoJob EXCEPT !.pc = "version_load", !.row = u,
                                                        !.ok = ok, !.held = v]]
  BY DEF TouchRow, Step
<1>3. PICK j : j = [NoJob EXCEPT !.pc = "version_load", !.row = u, !.ok = ok, !.held = v]
  OBVIOUS
<1>4. j.target # t
  BY <1>3, ConstantsAssumption DEF NoJob
<1>5. job[h].target # t
  BY <1>1, JobFacts DEF JobOK
<1>6. SameWork(t)
  BY <1>2, <1>3, <1>4, <1>5, OtherJob
<1>. QED
  BY <1>1, <1>6, QuietClean

\* Every step keeps the clean targets it does not muddle clean.
LEMMA NextClean == FInv /\ CleanInv /\ [Next]_vars => CleanInv'
<1> SUFFICES ASSUME FInv, CleanInv, [Next]_vars, NEW t \in Target, t \notin muddled'
             PROVE  Clean(t)'
  BY DEF CleanInv
<1>1. muddled \subseteq muddled'
  BY DEF Next, TouchRow, Heartbeat, vars, history, bounds, Muddle, Administer, Upload, Publish, Unpublish, Discard, SetCatalog,
         Deploy, DeployToDevices, CheckGateways, CheckForUpdate, RefindFirmware, InsertPending,
         SendCommand, FailedLoad, FailedSave, Handle, ReceiveReport, FindPending, LoadLog,
         SaveLog, InsertSelfInitiated, LoadRow, UpdateVersion, SaveRow, HandlerFails, SendFails, DeployFails,
         Crash
<1>2. Clean(t)
  BY <1>1 DEF CleanInv
<1>3. CASE UNCHANGED vars
  BY <1>2, <1>3, QuietClean, SameJobs DEF vars, history, bounds
<1>4. ASSUME NEW h \in Handler, Handle(h) PROVE Clean(t)'
  <2>1. CASE job[h].target # t
    BY <1>2, <1>4, <2>1, OtherReportClean
  <2>2. CASE job[h].target = t
    BY <1>2, <1>4, <2>2, FindClean, WriteLogClean, WrittenClean DEF Handle
  <2>. QED
    BY <2>1, <2>2
<1>5. CASE Administer \/ Deploy
  BY <1>2, <1>5, AdminClean, AskClean, InsertPendingClean, SendClean, SendFailsClean,
     FailedSaveClean, ConstantsAssumption DEF Deploy
<1>6. CASE SendFails \/ DeployFails \/ Crash \/ \E h \in Handler : HandlerFails(h)
  BY <1>2, <1>6, SendFailsClean, FailClean
<1>7. ASSUME NEW h \in Handler, NEW u \in Target, NEW f \in Firmware, NEW ok \in BOOLEAN,
             ReceiveReport(h, u, f, ok)
      PROVE  Clean(t)'
  BY <1>2, <1>7, ReceiveClean
<1>8. ASSUME NEW h \in Handler, NEW u \in Target, NEW f \in Firmware \cup {None}, TouchRow(h, u, f)
      PROVE  Clean(t)'
  BY <1>2, <1>8, TouchClean
<1>9. ASSUME NEW g \in Gateway, NEW f \in Firmware, Heartbeat(g, f) PROVE Clean(t)'
  BY <1>2, <1>9, QuietClean, SameJobs DEF Heartbeat
<1>. QED
  BY <1>3, <1>4, <1>5, <1>6, <1>7, <1>8, <1>9 DEF Next

LEMMA CleanInvariant == Spec => []CleanInv
  BY FirmwareInvariant, InitClean, NextClean, PTL DEF Spec

\* A target at rest has no handler.
LEMMA QuietWork == ASSUME NEW t, Quiet(t) PROVE AtWork(t) = {}
  BY DEF Quiet, AtWork

\* With the deployments and reports of a target one at a time, an ended log
\* whose send did not fail has the outcome its target reported for its version.
THEOREM LogsHaveTheirOutcome == Spec => []OwnOutcome
<1>1. FInv /\ CleanInv => OwnOutcome
  <2> SUFFICES ASSUME FInv, CleanInv, NEW l \in Ids \ failedSends, NEW t, t = logs[l].target,
                      t \notin muddled, logs[l].status # "pending"
               PROVE  \E i \in DOMAIN heard[t] :
                        /\ heard[t][i].file = logs[l].version
                        /\ Outcome(heard[t][i].ok) = logs[l].status
    BY DEF OwnOutcome
  <2>1. t \in Target
    BY DEF FInv, LogsInv, LogRow
  <2>2. l \in EndedOf(t) \ failedSends
    BY DEF EndedOf, LogsOf, PendingOf
  <2>. QED
    BY <2>1, <2>2 DEF CleanInv, Clean, EndedOK
<1>. QED
  BY <1>1, FirmwareInvariant, CleanInvariant, PTL

\* On the same condition every report leaves its mark in the table once.
THEOREM ReportsAreRecorded == Spec => []EveryReportRecorded
<1>1. FInv /\ CleanInv => EveryReportRecorded
  <2> SUFFICES ASSUME FInv, CleanInv, NEW t \in Target \ muddled, Quiet(t)
               PROVE  Cardinality(LogsOf(t) \ PendingOf(t)) =
                        Len(heard[t]) + Cardinality(LogsOf(t) \cap failedSends)
    BY DEF EveryReportRecorded
  <2>1. Unrecorded(t) = 0
    BY QuietWork DEF Unrecorded
  <2>2. Cardinality(EndedOf(t)) \in Nat
    BY FiniteLogs, FS_CardinalityType
  <2>3. CountOK(t)
    BY DEF CleanInv, Clean
  <2>4. Cardinality(EndedOf(t)) = Len(heard[t]) + Cardinality(LogsOf(t) \cap failedSends)
    BY <2>1, <2>2, <2>3 DEF CountOK
  <2>. QED
    BY <2>4 DEF EndedOf
<1>. QED
  BY <1>1, FirmwareInvariant, CleanInvariant, PTL

-----------------------------------------------------------------------------
(* The version a target told.  While told[t] stands, at most one handler      *)
(* is to write the row's version, the one that was told it; the others found   *)
(* the row as it is, and leave the column alone.                              *)

Tellers(t) == {h \in Handler : Telling(h, t)}

\* A handler with the job j would be telling.
RowTelling(j, t) == j.row = t /\ (j.ok \/ (j.pc = "version" /\ j.held # j.loaded))

ToldOK(t) ==
  told[t] # None =>
    /\ Tellers(t) = {} => version[t] = told[t]
    /\ \A h, g \in Tellers(t) : h = g
    /\ \A h \in Tellers(t) :
         /\ job[h].ok /\ job[h].held = told[t]
         /\ job[h].pc = "version" /\ job[h].held = job[h].loaded => version[t] = job[h].held

ToldInv == \A t \in Target : ToldOK(t)

\* Nobody has told a version at the start.
LEMMA InitTold == Init => ToldInv
  BY DEF Init, ToldInv, ToldOK

\* A handler without a job tells nothing, and one that records only if it was told.
LEMMA TellingFacts ==
  ASSUME FInv, NEW t
  PROVE  /\ ~RowTelling(NoJob, t)
         /\ \A h \in Handler : job[h].pc = "idle" => ~Telling(h, t)
         /\ \A h \in Handler : Telling(h, t) <=> RowTelling(job[h], t)
<1>1. ~RowTelling(NoJob, t)
  BY DEF RowTelling, NoJob
<1>2. ASSUME NEW h \in Handler, job[h].pc = "idle" PROVE ~Telling(h, t)
  BY <1>2, JobFacts DEF Telling, JobOK
<1>3. \A h \in Handler : Telling(h, t) <=> RowTelling(job[h], t)
  BY DEF Telling, RowTelling
<1>. QED
  BY <1>1, <1>2, <1>3

\* The job of one handler becomes j.
LEMMA OneTeller ==
  ASSUME FInv, NEW t, NEW h \in Handler, NEW j, job' = [job EXCEPT ![h] = j]
  PROVE  /\ \A g \in Handler : job'[g] = IF g = h THEN j ELSE job[g]
         /\ Tellers(t)' = IF RowTelling(j, t) THEN Tellers(t) \cup {h} ELSE Tellers(t) \ {h}
<1>1. \A g \in Handler : job'[g] = IF g = h THEN j ELSE job[g]
  BY DEF FInv, JobsInv
<1>2. \A g \in Handler : g # h => (Telling(g, t)' <=> Telling(g, t))
  BY <1>1 DEF Telling
<1>3. Telling(h, t)' <=> RowTelling(j, t)
  BY <1>1 DEF Telling, RowTelling
<1>. QED
  BY <1>1, <1>2, <1>3 DEF Tellers

\* A handler that goes on telling what it told, or nothing.
LEMMA GoesOn ==
  ASSUME FInv, NEW t \in Target, ToldOK(t), NEW h \in Handler, NEW j,
         job' = [job EXCEPT ![h] = j], version'[t] = version[t], told'[t] = told[t],
         RowTelling(j, t) <=> Telling(h, t),
         Telling(h, t) =>
           /\ job[h].ok => j.ok
           /\ j.held = job[h].held
           /\ j.pc = "version" /\ j.held = j.loaded => version[t] = j.held
  PROVE  ToldOK(t)'
<1>1. /\ \A g \in Handler : job'[g] = IF g = h THEN j ELSE job[g]
      /\ Tellers(t)' = IF RowTelling(j, t) THEN Tellers(t) \cup {h} ELSE Tellers(t) \ {h}
  BY OneTeller
<1>2. \A g \in Tellers(t) : g \in Handler /\ Telling(g, t)
  BY DEF Tellers
<1>3. Tellers(t)' = Tellers(t)
  BY <1>1 DEF Tellers
<1>. QED
  BY <1>1, <1>2, <1>3 DEF ToldOK

\* A handler that begins to tell, when no other does.
LEMMA BeginsToTell ==
  ASSUME FInv, NEW t \in Target, NEW h \in Handler, NEW j, NEW u \in Target, NEW f \in Firmware,
         ToldOK(t), job[h].pc = "idle", job' = [job EXCEPT ![h] = j], version' = version,
         Tells(u, f), j.row = u, j.ok, j.held = f, j.pc # "version"
  PROVE  ToldOK(t)'
<1>1. told \in [Target -> Firmware \cup {None}] /\ ~Telling(h, t)
  BY TellingFacts DEF FInv, TablesInv
<1>2. CASE t # u
  <2>1. told'[t] = told[t]
    BY <1>1, <1>2 DEF Tells
  <2>2. ~RowTelling(j, t)
    BY <1>2 DEF RowTelling
  <2>. QED
    BY <1>1, <2>1, <2>2, GoesOn
<1>3. CASE t = u /\ Tellers(t) = {}
  <2>1. told'[t] = f
    BY <1>1, <1>3 DEF Tells, Tellers
  <2>2. Tellers(t)' = {h} /\ job'[h] = j
    <3>1. RowTelling(j, t)
      BY <1>3 DEF RowTelling
    <3>2. /\ \A g \in Handler : job'[g] = IF g = h THEN j ELSE job[g]
          /\ Tellers(t)' = IF RowTelling(j, t) THEN Tellers(t) \cup {h} ELSE Tellers(t) \ {h}
      BY OneTeller
    <3>. QED
      BY <1>3, <3>1, <3>2
  <2>. QED
    BY <2>1, <2>2 DEF ToldOK
<1>4. CASE t = u /\ Tellers(t) # {}
  <2>1. told'[t] = None
    BY <1>1, <1>4 DEF Tells, Tellers
  <2>. QED
    BY <2>1 DEF ToldOK
<1>. QED
  BY <1>2, <1>3, <1>4

\* A report, or another request that finds the row, begins.
LEMMA BeginTold ==
  ASSUME FInv, NEW t \in Target, ToldOK(t), NEW h \in Handler, NEW u \in Target,
         \/ \E f \in Firmware, ok \in BOOLEAN : ReceiveReport(h, u, f, ok)
         \/ \E f \in Firmware \cup {None} : TouchRow(h, u, f)
  PROVE  ToldOK(t)'
<1>1. PICK j, ok, f :
        /\ ok \in BOOLEAN
        /\ job' = [job EXCEPT ![h] = j] /\ version' = version /\ job[h].pc = "idle"
        /\ IF ok THEN f \in Firmware /\ Tells(u, f) ELSE told' = told
        /\ j.row = u /\ j.ok = ok /\ (ok => j.held = f) /\ j.pc # "version"
  <2>1. ASSUME NEW f \in Firmware, NEW ok \in BOOLEAN, ReceiveReport(h, u, f, ok)
        PROVE  \E j :
                 /\ job' = [job EXCEPT ![h] = j] /\ version' = version /\ job[h].pc = "idle"
                 /\ IF ok THEN f \in Firmware /\ Tells(u, f) ELSE told' = told
                 /\ j.row = u /\ j.ok = ok /\ (ok => j.held = f) /\ j.pc # "version"
    <3>1. PICK j : j = [NoJob EXCEPT !.pc = "find", !.target = u, !.file = f, !.ok = ok,
                                     !.row = u, !.held = f]
      OBVIOUS
    <3>2. j.row = u /\ j.ok = ok /\ j.held = f /\ j.pc = "find"
      BY <3>1 DEF NoJob
    <3>. QED
      BY <2>1, <3>1, <3>2 DEF ReceiveReport
  <2>2. ASSUME NEW f \in Firmware \cup {None}, TouchRow(h, u, f)
        PROVE  \E j, ok :
                 /\ ok \in BOOLEAN
                 /\ job' = [job EXCEPT ![h] = j] /\ version' = version /\ job[h].pc = "idle"
                 /\ IF ok THEN f \in Firmware /\ Tells(u, f) ELSE told' = told
                 /\ j.row = u /\ j.ok = ok /\ (ok => j.held = f) /\ j.pc # "version"
    <3>1. PICK v, ok :
            /\ ok \in BOOLEAN
            /\ job' = [job EXCEPT ![h] = [NoJob EXCEPT !.pc = "version_load", !.row = u,
                                                      !.ok = ok, !.held = v]]
            /\ (ok <=> f # None) /\ (ok => v = f)
      BY <2>2 DEF TouchRow, Step
    <3>2. PICK j : j = [NoJob EXCEPT !.pc = "version_load", !.row = u, !.ok = ok, !.held = v]
      OBVIOUS
    <3>3. j.row = u /\ j.ok = ok /\ j.held = v /\ j.pc = "version_load"
      BY <3>2 DEF NoJob
    <3>4. job' = [job EXCEPT ![h] = j]
      BY <3>1, <3>2
    <3>5. version' = version /\ job[h].pc = "idle"
      BY <2>2 DEF TouchRow
    <3>6. IF ok THEN f \in Firmware /\ Tells(u, f) ELSE told' = told
      BY <2>2, <3>1 DEF TouchRow
    <3>. QED
      BY <3>1, <3>3, <3>4, <3>5, <3>6
  <2>. QED
    BY <2>1, <2>2
<1>2. ~Telling(h, t)
  BY <1>1, TellingFacts
<1>3. CASE ok
  BY <1>1, <1>3, BeginsToTell
<1>4. CASE ~ok
  <2>1. ~RowTelling(j, t)
    BY <1>1, <1>4 DEF RowTelling
  <2>. QED
    BY <1>1, <1>2, <1>4, <2>1, GoesOn
<1>. QED
  BY <1>3, <1>4

\* A report that is being recorded goes on to tell its version, or fails.
LEMMA RecordTold ==
  ASSUME FInv, NEW t \in Target, ToldOK(t), NEW h \in Handler,
         FindPending(h) \/ LoadLog(h) \/ SaveLog(h) \/ InsertSelfInitiated(h)
  PROVE  ToldOK(t)'
<1>1. /\ version' = version /\ told' = told
      /\ job[h].pc \in Recording /\ job[h] \in JobRow
  BY JobFacts DEF FindPending, LoadLog, SaveLog, InsertSelfInitiated, history, Recording
<1>2. PICK j : /\ job' = [job EXCEPT ![h] = j]
               /\ \/ j = NoJob /\ ~job[h].ok
                  \/ /\ j.pc # "version" /\ j.row = job[h].row
                     /\ j.held = job[h].held /\ j.ok = job[h].ok
  <2>1. CASE FindPending(h) \/ LoadLog(h)
    <3>1. PICK k : /\ job' = [job EXCEPT ![h] = k]
                   /\ \/ k = [job[h] EXCEPT !.pc = "insert"]
                      \/ \E l : k = [job[h] EXCEPT !.pc = "load", !.log = l]
                      \/ \E x : k = [job[h] EXCEPT !.pc = "save", !.loaded = x]
      BY <2>1 DEF FindPending, LoadLog, Step
    <3>2. /\ k.pc # "version" /\ k.row = job[h].row
          /\ k.held = job[h].held /\ k.ok = job[h].ok
      BY <1>1, <3>1 DEF JobRow
    <3>. QED
      BY <3>1, <3>2
  <2>2. CASE SaveLog(h) \/ InsertSelfInitiated(h)
    <3>1. job' = [job EXCEPT ![h] = AfterLog(h)]
      BY <2>2 DEF SaveLog, InsertSelfInitiated, Step
    <3>2. CASE ~job[h].ok
      BY <3>1, <3>2 DEF AfterLog
    <3>3. CASE job[h].ok
      <4>1. PICK p, k : /\ p = IF job[h].target \in Gateway THEN "update" ELSE "version_load"
                        /\ k = AfterLog(h) /\ k = [job[h] EXCEPT !.pc = p]
        BY <3>3 DEF AfterLog
      <4>2. /\ k.pc # "version" /\ k.row = job[h].row
            /\ k.held = job[h].held /\ k.ok = job[h].ok
        BY <1>1, <4>1 DEF JobRow
      <4>. QED
        BY <3>1, <4>1, <4>2
    <3>. QED
      BY <3>2, <3>3
  <2>. QED
    BY <2>1, <2>2
<1>3. Telling(h, t) <=> RowTelling(job[h], t)
  BY TellingFacts
<1>4. RowTelling(j, t) <=> Telling(h, t)
  BY <1>1, <1>2, <1>3, TellingFacts DEF RowTelling, Recording
<1>5. Telling(h, t) =>
        /\ job[h].ok => j.ok
        /\ j.held = job[h].held
        /\ j.pc = "version" /\ j.held = j.loaded => version[t] = j.held
  BY <1>1, <1>2, <1>3 DEF RowTelling, Recording
<1>. QED
  BY <1>1, <1>2, <1>4, <1>5, GoesOn

\* save() finds the row: if it changed since and this request was told nothing,
\* what the target told is about to be overwritten, and is forgotten.
LEMMA LoadTold ==
  ASSUME FInv, NEW t \in Target, ToldOK(t), NEW h \in Handler, LoadRow(h)
  PROVE  ToldOK(t)'
<1>1. /\ version' = version /\ job[h].pc = "version_load" /\ job[h] \in JobRow
      /\ told \in [Target -> Firmware \cup {None}]
  BY JobFacts DEF LoadRow, FInv, TablesInv
<1>2. PICK j : /\ job' = [job EXCEPT ![h] = j]
               /\ j = [job[h] EXCEPT !.pc = "version", !.loaded = version[job[h].row]]
  BY DEF LoadRow, Step
<1>3. /\ j.pc = "version" /\ j.loaded = version[job[h].row]
      /\ j.row = job[h].row /\ j.held = job[h].held /\ j.ok = job[h].ok
  BY <1>1, <1>2 DEF JobRow
<1>4. Telling(h, t) <=> job[h].row = t /\ job[h].ok
  BY <1>1 DEF Telling
<1>5. CASE job[h].row = t /\ ~job[h].ok /\ job[h].held # version[t]
  <2>1. told'[t] = None
    BY <1>1, <1>5 DEF LoadRow
  <2>. QED
    BY <2>1 DEF ToldOK
<1>6. CASE ~(job[h].row = t /\ ~job[h].ok /\ job[h].held # version[t])
  <2>1. told'[t] = told[t]
    BY <1>1, <1>6 DEF LoadRow
  <2>2. RowTelling(j, t) <=> Telling(h, t)
    BY <1>3, <1>4, <1>6 DEF RowTelling
  <2>3. Telling(h, t) =>
          /\ job[h].ok => j.ok
          /\ j.held = job[h].held
          /\ j.pc = "version" /\ j.held = j.loaded => version[t] = j.held
    BY <1>3, <1>4
  <2>. QED
    BY <1>1, <1>2, <2>1, <2>2, <2>3, GoesOn
<1>. QED
  BY <1>5, <1>6

\* The one handler that is telling writes the version; the others write none.
LEMMA WriteTold ==
  ASSUME FInv, NEW t \in Target, ToldOK(t), NEW h \in Handler, UpdateVersion(h) \/ SaveRow(h)
  PROVE  ToldOK(t)'
<1>1. /\ told' = told /\ job' = [job EXCEPT ![h] = NoJob]
      /\ job[h].row \in Target /\ job[h].pc \in {"update", "version"}
      /\ job[h].pc = "update" => job[h].ok
  BY JobFacts DEF UpdateVersion, SaveRow, Step, history, JobOK
<1>2. /\ version \in [Target -> Firmware \cup {None}]
      /\ version' = IF job[h].pc = "version" /\ job[h].held = job[h].loaded THEN version
                    ELSE [version EXCEPT ![job[h].row] = job[h].held]
  BY DEF UpdateVersion, SaveRow, FInv, TablesInv
<1>3. ~RowTelling(NoJob, t) /\ (Telling(h, t) <=> RowTelling(job[h], t))
  BY TellingFacts
<1>4. CASE Telling(h, t) /\ told[t] # None
  <2>1. h \in Tellers(t)
    BY <1>4 DEF Tellers
  <2>2. Tellers(t)' = Tellers(t) \ {h}
    BY <1>1, <1>3, OneTeller
  <2>3. /\ \A g \in Tellers(t) : g = h
        /\ job[h].held = told[t]
        /\ job[h].pc = "version" /\ job[h].held = job[h].loaded => version[t] = told[t]
    BY <1>4, <2>1 DEF ToldOK
  <2>4. job[h].row = t
    BY <1>4 DEF Telling
  <2>5. version'[t] = told[t]
    BY <1>1, <1>2, <2>3, <2>4
  <2>. QED
    BY <1>1, <2>2, <2>3, <2>5 DEF ToldOK
<1>5. CASE ~Telling(h, t)
  <2>1. version'[t] = version[t]
    BY <1>1, <1>2, <1>3, <1>5 DEF RowTelling
  <2>. QED
    BY <1>1, <1>3, <1>5, <2>1, GoesOn
<1>6. CASE told[t] = None
  BY <1>1, <1>6 DEF ToldOK
<1>. QED
  BY <1>4, <1>5, <1>6

\* A heartbeat writes the version it tells at once.
LEMMA HeartbeatTold ==
  ASSUME FInv, NEW t \in Target, ToldOK(t), NEW g \in Gateway, NEW f \in Firmware, Heartbeat(g, f)
  PROVE  ToldOK(t)'
<1>1. /\ job' = job /\ version' = [version EXCEPT ![g] = f] /\ Tells(g, f)
      /\ told \in [Target -> Firmware \cup {None}] /\ version \in [Target -> Firmware \cup {None}]
      /\ g \in Target
  BY DEF Heartbeat, FInv, TablesInv, Target
<1>2. Tellers(t)' = Tellers(t)
  BY <1>1 DEF Tellers, Telling
<1>3. CASE t # g
  <2>1. told'[t] = told[t] /\ version'[t] = version[t]
    BY <1>1, <1>3 DEF Tells
  <2>. QED
    BY <1>1, <1>2, <2>1 DEF ToldOK
<1>4. CASE t = g
  <2>1. told'[t] = (IF Tellers(t) = {} THEN f ELSE None) /\ version'[t] = f
    BY <1>1, <1>4 DEF Tells, Tellers
  <2>. QED
    BY <1>2, <2>1 DEF ToldOK
<1>. QED
  BY <1>3, <1>4

\* What the handlers that fail were told is forgotten.
LEMMA FailTold ==
  ASSUME FInv, NEW t \in Target, ToldOK(t), Crash \/ \E h \in Handler : HandlerFails(h)
  PROVE  ToldOK(t)'
<1>1. version' = version
  BY DEF Crash, HandlerFails
<1>2. CASE Crash
  <2>1. Tellers(t)' = {}
    BY <1>2 DEF Crash, Tellers, Telling, NoJob
  <2>2. told'[t] = IF Tellers(t) = {} THEN told[t] ELSE None
    BY <1>2 DEF Crash, Untold, Tellers
  <2>. QED
    BY <1>1, <2>1, <2>2 DEF ToldOK
<1>3. ASSUME NEW h \in Handler, HandlerFails(h) PROVE ToldOK(t)'
  <2>1. /\ job' = [job EXCEPT ![h] = NoJob]
        /\ told'[t] = IF Telling(h, t) THEN None ELSE told[t]
    BY <1>3 DEF HandlerFails, Step, Untold
  <2>2. CASE Telling(h, t)
    BY <2>1, <2>2 DEF ToldOK
  <2>3. CASE ~Telling(h, t)
    <3>1. ~RowTelling(NoJob, t)
      BY TellingFacts
    <3>. QED
      BY <1>1, <2>1, <2>3, <3>1, GoesOn
  <2>. QED
    BY <2>2, <2>3
<1>. QED
  BY <1>2, <1>3

\* Every step keeps the account of what was told.
LEMMA NextTold == FInv /\ ToldInv /\ [Next]_vars => ToldInv'
<1> SUFFICES ASSUME FInv, [Next]_vars, NEW t \in Target, ToldOK(t) PROVE ToldOK(t)'
  BY DEF ToldInv
<1>1. ASSUME NEW h \in Handler, Handle(h) PROVE ToldOK(t)'
  BY <1>1, RecordTold, LoadTold, WriteTold DEF Handle
<1>2. ASSUME NEW h \in Handler, NEW u \in Target,
             \/ \E f \in Firmware, ok \in BOOLEAN : ReceiveReport(h, u, f, ok)
             \/ \E f \in Firmware \cup {None} : TouchRow(h, u, f)
      PROVE  ToldOK(t)'
  BY <1>2, BeginTold
<1>3. CASE UNCHANGED <<job, version, told>>
  BY <1>3 DEF ToldOK, Tellers, Telling
<1>4. CASE Crash \/ \E h \in Handler : HandlerFails(h)
  BY <1>4, FailTold
<1>5. \/ UNCHANGED <<job, version, told>>
      \/ Crash \/ \E h \in Handler : HandlerFails(h) \/ Handle(h)
      \/ \E h \in Handler, u \in Target :
           \/ \E f \in Firmware, ok \in BOOLEAN : ReceiveReport(h, u, f, ok)
           \/ \E f \in Firmware \cup {None} : TouchRow(h, u, f)
      \/ \E g \in Gateway, f \in Firmware : Heartbeat(g, f)
  BY DEF Next, vars, history, bounds, Administer, Upload, Publish, Unpublish, Discard, SetCatalog,
         Deploy, DeployToDevices, CheckGateways, CheckForUpdate, RefindFirmware, InsertPending,
         SendCommand, FailedLoad, FailedSave, SendFails, DeployFails
<1>. QED
  BY <1>1, <1>2, <1>3, <1>4, <1>5, HeartbeatTold

LEMMA ToldInvariant == Spec => []ToldInv
  BY FirmwareInvariant, InitTold, NextTold, PTL DEF Spec

\* However reports, heartbeats, provisioning and the other requests that save the
\* row interleave, the row of a target has the version the target told last, once
\* its handler is done, if no handler of the target overlapped with it and none
\* that found the row before wrote its older version back.
THEOREM VersionsFollowReports == Spec => []VersionFollows
<1>1. ToldInv => VersionFollows
  BY DEF ToldInv, ToldOK, Tellers, VersionFollows
<1>. QED
  BY <1>1, ToldInvariant, PTL
=============================================================================
