---------------------------- MODULE FirmwareUpdate ----------------------------
(***************************************************************************)
(* Firmware over the air (src/src/firmware/firmware.service.ts).            *)
(*                                                                         *)
(* A deployment writes a PENDING row of firmware_update_log per target and  *)
(* publishes the command; the target reports the outcome over MQTT or HTTP, *)
(* and the handler of the report closes the newest pending log of the       *)
(* target, or records an update nobody deployed, and then writes the        *)
(* version of the target.  Reports come in any order and any number of      *)
(* times, and their handlers interleave with each other, with the           *)
(* deployment and with the other requests that save the row of the target,  *)
(* which may tell its version too, at every query.                          *)
(***************************************************************************)
EXTENDS Integers, FiniteSets, Sequences

LOCAL INSTANCE FiniteSetsExt

CONSTANTS
  Device, Gateway,
  Routed,        \* devices with a gateway: commands also go out through it
  Firmware,      \* firmware files; the version is unique, so it names the file
  ForGateway,    \* those whose targetType is gateway
  LogId,         \* ids of firmware_update_log (bounds the model)
  Handler,       \* report handlers that can be in flight (bound)
  Administered,  \* files administrators act on (bound); the others are published
  Asking,        \* targets that look for updates themselves (bound)
  MaxReports,    \* reports and failures in all (bound)
  MaxOthers,     \* failed queries, failed publishes, crashes, and requests other
                 \* than reports that write rows of targets (bound)
  None

Target == Device \cup Gateway

ASSUME ConstantsAssumption ==
  /\ Routed \subseteq Device
  /\ ForGateway \subseteq Firmware /\ Administered \subseteq Firmware
  /\ Asking \subseteq Target
  /\ Device \cap Gateway = {}
  /\ None \notin Target \cup Firmware \cup LogId
  /\ {MaxReports, MaxOthers} \subseteq Nat

VARIABLES
  catalog,    \* table firmware: absent, draft or published
  logs,       \* table firmware_update_log: a function from ids to rows
  version,    \* firmwareVersion of each device and gateway row
  deploy,     \* the deployment in flight
  job,        \* handlers of reports, and requests that save the row of a target
  received,   \* commands each target got
  heard,      \* history: the reports received, in order, of each target
  muddled,    \* history: targets whose reports overlap or do not match commands
  failedSends, \* history: logs closed by a failed send
  checked,    \* history: files that were published at some time
  told,       \* history: the version each target told last, if nothing came between
  touches, failures

history == <<heard, muddled, failedSends, checked, told>>
bounds == <<touches, failures>>
vars == <<catalog, logs, version, deploy, job, received, history, bounds>>

-----------------------------------------------------------------------------
Ids == DOMAIN logs
PendingOf(t) == {l \in Ids : logs[l].target = t /\ logs[l].status = "pending"}
Newest(S) == {l \in S : \A k \in S : logs[k].order <= logs[l].order}

NoDeploy == [pc |-> "idle", file |-> None, todo |-> {}, target |-> None, log |-> None,
             loaded |-> "none"]
\* target, file, ok: the report.  row: the target whose row will be saved with
\* the version held; ok is TRUE for other requests too if they tell that version.
\* loaded: what the ORM compares with, of a log or of the row.
NoJob == [pc |-> "idle", target |-> None, file |-> None, ok |-> FALSE, log |-> None,
          loaded |-> "none", row |-> None, held |-> None]

Outcome(ok) == IF ok THEN "success" ELSE "failed"

\* save() of a new row; createdAt orders the logs.
Inserted(l, t, f, status) ==
  [k \in Ids \cup {l} |->
     IF k = l THEN [target |-> t, version |-> f, status |-> status, order |-> Cardinality(Ids)]
              ELSE logs[k]]

\* save() of a row that was found: the status is written if it differs from
\* the one the ORM loaded.
Saved(l, status, loaded) ==
  IF status = loaded THEN logs ELSE [logs EXCEPT ![l].status = status]

Init ==
  /\ catalog = [f \in Firmware |-> IF f \in Administered THEN "absent" ELSE "published"]
  /\ logs = [l \in {} |-> None]
  /\ version = [t \in Target |-> None]
  /\ deploy = NoDeploy
  /\ job = [h \in Handler |-> NoJob]
  /\ received = [t \in Target |-> {}]
  /\ heard = [t \in Target |-> <<>>]
  /\ muddled = {}
  /\ failedSends = {}
  /\ checked = Firmware \ Administered
  /\ told = [t \in Target |-> None]
  /\ touches = 0 /\ failures = 0

-----------------------------------------------------------------------------
(* The catalogue; administrators act one at a time. *)

SetCatalog(f, before, after) ==
  /\ catalog[f] \in before
  /\ catalog' = [catalog EXCEPT ![f] = after]
  /\ checked' = IF after = "published" THEN checked \cup {f} ELSE checked
  /\ UNCHANGED <<logs, version, deploy, job, received, heard, muddled, failedSends, told, bounds>>

Upload(f) == SetCatalog(f, {"absent"}, "draft")
Publish(f) == SetCatalog(f, {"draft"}, "published")
Unpublish(f) == SetCatalog(f, {"published"}, "draft")
Discard(f) == SetCatalog(f, {"draft", "published"}, "absent")

Administer ==
  \E f \in Administered : Upload(f) \/ Publish(f) \/ Unpublish(f) \/ Discard(f)

-----------------------------------------------------------------------------
(* Deployments. *)

\* deploy: device firmware, to paired devices; nobody asks if it is published.
DeployToDevices(f, T) ==
  /\ deploy.pc = "idle"
  /\ catalog[f] # "absent" /\ f \notin ForGateway /\ T \subseteq Device
  /\ deploy' = [NoDeploy EXCEPT !.pc = "next", !.file = f, !.todo = T]
  /\ UNCHANGED <<catalog, logs, version, job, received, history, bounds>>

\* Faulty variant: the check of isPublished is dropped.
CheckGatewaysDraft(f, T) ==
  /\ deploy.pc = "idle"
  /\ catalog[f] # "absent" /\ f \in ForGateway /\ T \subseteq Gateway
  /\ deploy' = [NoDeploy EXCEPT !.pc = "refind", !.file = f, !.todo = T]
  /\ UNCHANGED <<catalog, logs, version, job, received, history, bounds>>

\* deployGatewaysForUser: only published gateway firmware.
CheckGateways(f, T) ==
  /\ deploy.pc = "idle"
  /\ catalog[f] = "published" /\ f \in ForGateway /\ T \subseteq Gateway
  /\ deploy' = [NoDeploy EXCEPT !.pc = "refind", !.file = f, !.todo = T]
  /\ UNCHANGED <<catalog, logs, version, job, received, history, bounds>>

\* deployToGateways finds the firmware again, after the lookups of the owners.
RefindFirmware ==
  /\ deploy.pc = "refind"
  /\ deploy' = IF catalog[deploy.file] = "absent" THEN NoDeploy
                 ELSE [deploy EXCEPT !.pc = "next"]
  /\ UNCHANGED <<catalog, logs, version, job, received, history, bounds>>

\* Files t got and did not report.
Unreported(t) == received[t] \ {heard[t][i].file : i \in DOMAIN heard[t]}

Busy(t) ==
  PendingOf(t) # {} \/ Unreported(t) # {} \/ deploy.target = t \/ \E h \in Handler : job[h].target = t

Muddle(S) == muddled' = muddled \cup S

\* checkForUpdate: a target asks for the newest published file of its model and
\* kind; which one that is depends on data the model leaves out.  The kind is a
\* parameter of the query (a device's unless given): the guard assumes that a
\* target asks for its own.
CheckForUpdate(t, f) ==
  /\ catalog[f] = "published" /\ (f \in ForGateway <=> t \in Gateway)
  /\ f \notin received[t]
  /\ received' = [received EXCEPT ![t] = @ \cup {f}]
  /\ Muddle(IF Busy(t) THEN {t} ELSE {})
  /\ UNCHANGED <<catalog, logs, version, deploy, job, heard, failedSends, checked, told, bounds>>

\* The PENDING log of the next target.
InsertPending ==
  /\ deploy.pc = "next"
  /\ \E t \in deploy.todo, l \in LogId \ Ids :
       /\ logs' = Inserted(l, t, deploy.file, "pending")
       /\ deploy' = [deploy EXCEPT !.pc = "send", !.target = t, !.log = l, !.todo = @ \ {t}]
       /\ Muddle(IF Busy(t) THEN {t} ELSE {})
  /\ UNCHANGED <<catalog, version, job, received, heard, failedSends, checked, told, bounds>>

NextTarget ==
  IF deploy.todo = {} THEN NoDeploy
  ELSE [NoDeploy EXCEPT !.pc = "next", !.file = deploy.file, !.todo = deploy.todo]

\* The command; a device behind a gateway gets it on a second channel too.
SendCommand ==
  LET t == deploy.target IN
  /\ deploy.pc \in {"send", "send_gateway"}
  /\ received' = [received EXCEPT ![t] = @ \cup {deploy.file}]
  /\ deploy' = IF deploy.pc = "send" /\ t \in Routed
                 THEN [deploy EXCEPT !.pc = "send_gateway"] ELSE NextTarget
  /\ UNCHANGED <<catalog, logs, version, job, history, bounds>>

FailedLoad ==
  /\ deploy.pc = "failed_load"
  /\ deploy' = [deploy EXCEPT !.pc = "failed_save", !.loaded = logs[deploy.log].status]
  /\ UNCHANGED <<catalog, logs, version, job, received, history, bounds>>

FailedSave ==
  /\ deploy.pc = "failed_save"
  /\ logs' = Saved(deploy.log, "failed", deploy.loaded)
  /\ failedSends' = failedSends \cup {deploy.log}
  /\ deploy' = NextTarget
  /\ UNCHANGED <<catalog, version, job, received, heard, muddled, checked, told, bounds>>

-----------------------------------------------------------------------------
(* Reports. *)

\* A handler that will write the version of the row: because its target told it,
\* or because it found an older one.
Telling(h, t) ==
  LET j == job[h] IN j.row = t /\ (j.ok \/ (j.pc = "version" /\ j.held # j.loaded))

\* A target tells its version, f.
Tells(t, f) ==
  told' = [told EXCEPT ![t] = IF \E h \in Handler : Telling(h, t) THEN None ELSE f]

\* What these handlers were to write is lost.
Untold(H) == told' = [t \in Target |-> IF \E h \in H : Telling(h, t) THEN None ELSE told[t]]

Reports == FoldSet(LAMBDA t, n : n + Len(heard[t]), 0, Target)

\* A report arrives: about a command of the server, again about one, or about
\* an update the target made by itself.
ReceiveReport(h, t, f, ok) ==
  /\ job[h].pc = "idle"
  /\ Reports + failures < MaxReports
  /\ f \in ForGateway <=> t \in Gateway
  /\ job' = [job EXCEPT ![h] = [NoJob EXCEPT !.pc = "find", !.target = t, !.file = f, !.ok = ok,
                                              !.row = t, !.held = f]]
  /\ heard' = [heard EXCEPT ![t] = Append(@, [file |-> f, ok |-> ok])]
  /\ Muddle(IF \/ f \notin Unreported(t) \/ deploy.target = t
              \/ \E g \in Handler : job[g].target = t
            THEN {t} ELSE {})
  /\ IF ok THEN Tells(t, f) ELSE UNCHANGED told
  /\ UNCHANGED <<catalog, logs, version, deploy, received, failedSends, checked, bounds>>

Step(h, j) == job' = [job EXCEPT ![h] = j]

\* Faulty variants: a missing log is not noticed; the newest log, pending or
\* not; the logs of every target.
FindUnchecked(h) ==
  LET found == Newest(PendingOf(job[h].target)) IN
  /\ job[h].pc = "find"
  /\ \E l \in IF found = {} THEN {None} ELSE found :
       Step(h, [job[h] EXCEPT !.pc = "load", !.log = l])
  /\ UNCHANGED <<catalog, logs, version, deploy, received, history, bounds>>

FindAnyLog(h) ==
  LET found == Newest({l \in Ids : logs[l].target = job[h].target}) IN
  /\ job[h].pc = "find"
  /\ IF found = {} THEN Step(h, [job[h] EXCEPT !.pc = "insert"])
     ELSE \E l \in found : Step(h, [job[h] EXCEPT !.pc = "load", !.log = l])
  /\ UNCHANGED <<catalog, logs, version, deploy, received, history, bounds>>

FindAnyTarget(h) ==
  LET found == Newest({l \in Ids : logs[l].status = "pending"}) IN
  /\ job[h].pc = "find"
  /\ IF found = {} THEN Step(h, [job[h] EXCEPT !.pc = "insert"])
     ELSE \E l \in found : Step(h, [job[h] EXCEPT !.pc = "load", !.log = l])
  /\ UNCHANGED <<catalog, logs, version, deploy, received, history, bounds>>

\* The newest pending log of the target, whatever version it is for.
FindPending(h) ==
  LET found == Newest(PendingOf(job[h].target)) IN
  /\ job[h].pc = "find"
  /\ IF found = {} THEN Step(h, [job[h] EXCEPT !.pc = "insert"])
     ELSE \E l \in found : Step(h, [job[h] EXCEPT !.pc = "load", !.log = l])
  /\ UNCHANGED <<catalog, logs, version, deploy, received, history, bounds>>

LoadLog(h) ==
  /\ job[h].pc = "load"
  /\ Step(h, [job[h] EXCEPT !.pc = "save", !.loaded = logs[job[h].log].status])
  /\ UNCHANGED <<catalog, logs, version, deploy, received, history, bounds>>

\* On success the version of the target follows; for a device that is a
\* preload and a save of its row.
AfterLog(h) ==
  IF ~job[h].ok THEN NoJob
  ELSE [job[h] EXCEPT !.pc = IF job[h].target \in Gateway THEN "update" ELSE "version_load"]

\* Faulty variant: the outcome is always success.
SaveLogSuccess(h) ==
  /\ job[h].pc = "save"
  /\ logs' = Saved(job[h].log, "success", job[h].loaded)
  /\ Step(h, AfterLog(h))
  /\ UNCHANGED <<catalog, version, deploy, received, history, bounds>>

SaveLog(h) ==
  /\ job[h].pc = "save"
  /\ logs' = Saved(job[h].log, Outcome(job[h].ok), job[h].loaded)
  /\ Step(h, AfterLog(h))
  /\ UNCHANGED <<catalog, version, deploy, received, history, bounds>>

\* An update nobody deployed gets a log of its own.
InsertSelfInitiated(h) ==
  /\ job[h].pc = "insert"
  /\ \E l \in LogId \ Ids :
       logs' = Inserted(l, job[h].target, job[h].file, Outcome(job[h].ok))
  /\ Step(h, AfterLog(h))
  /\ UNCHANGED <<catalog, version, deploy, received, history, bounds>>

\* The column of a gateway, by one UPDATE.
UpdateVersion(h) ==
  /\ job[h].pc = "update"
  /\ version' = [version EXCEPT ![job[h].row] = job[h].held]
  /\ Step(h, NoJob)
  /\ UNCHANGED <<catalog, logs, deploy, received, history, bounds>>

-----------------------------------------------------------------------------
(* Requests that find the row of a device or a gateway and save it. *)

\* A request other than a report finds the row of t: a change of a device,
\* unpairing, regeneration of the credential, pairing, or provisioning, which may
\* tell the version f of a device.
TouchRow(h, t, f) ==
  /\ job[h].pc = "idle"
  /\ touches + failures < MaxOthers
  /\ f # None => t \in Device /\ f \notin ForGateway
  /\ touches' = touches + 1
  /\ Step(h, [NoJob EXCEPT !.pc = "version_load", !.row = t, !.ok = f # None,
                           !.held = IF f = None THEN version[t] ELSE f])
  /\ IF f # None THEN Tells(t, f) ELSE UNCHANGED told
  /\ UNCHANGED <<catalog, logs, version, deploy, received, heard, muddled, failedSends, checked, failures>>

\* save() finds the row again.  If its version was changed since, the request
\* will write the older one back.
LoadRow(h) ==
  LET j == job[h] IN
  /\ j.pc = "version_load"
  /\ Step(h, [j EXCEPT !.pc = "version", !.loaded = version[j.row]])
  /\ told' = IF ~j.ok /\ j.held # version[j.row] THEN [told EXCEPT ![j.row] = None] ELSE told
  /\ UNCHANGED <<catalog, logs, version, deploy, received, heard, muddled, failedSends, checked, bounds>>

\* Faulty variant: the version is written though the request did not change it.
SaveRowWhole(h) ==
  LET j == job[h] IN
  /\ j.pc = "version"
  /\ version' = [version EXCEPT ![j.row] = j.held]
  /\ Step(h, NoJob)
  /\ UNCHANGED <<catalog, logs, deploy, received, history, bounds>>

SaveRow(h) ==
  LET j == job[h] IN
  /\ j.pc = "version"
  /\ version' = IF j.held = j.loaded THEN version ELSE [version EXCEPT ![j.row] = j.held]
  /\ Step(h, NoJob)
  /\ UNCHANGED <<catalog, logs, deploy, received, history, bounds>>

\* The heartbeat of a gateway tells its version, which one UPDATE writes.
Heartbeat(g, f) ==
  /\ touches + failures < MaxOthers
  /\ f \in ForGateway
  /\ touches' = touches + 1
  /\ version' = [version EXCEPT ![g] = f]
  /\ Tells(g, f)
  /\ UNCHANGED <<catalog, logs, deploy, job, received, heard, muddled, failedSends, checked, failures>>

-----------------------------------------------------------------------------
Failing ==
  /\ touches + failures < MaxOthers /\ Reports + failures < MaxReports
  /\ failures' = failures + 1

\* A publish fails; with two channels the first may have delivered.
SendFails ==
  /\ Failing
  /\ deploy.pc \in {"send", "send_gateway"}
  /\ deploy' = [deploy EXCEPT !.pc = "failed_load"]
  /\ UNCHANGED <<catalog, logs, version, job, received, history, touches>>

\* A query outside the try ends the deployment; the other targets get nothing.
DeployFails ==
  /\ Failing
  /\ deploy.pc \in {"refind", "next", "failed_load", "failed_save"}
  /\ deploy' = NoDeploy
  /\ Muddle({deploy.target} \cap Target)
  /\ UNCHANGED <<catalog, logs, version, job, received, heard, failedSends, checked, told, touches>>

HandlerFails(h) ==
  /\ Failing
  /\ job[h].pc # "idle"
  /\ Step(h, NoJob)
  /\ Muddle({job[h].target} \cap Target)
  /\ Untold({h})
  /\ UNCHANGED <<catalog, logs, version, deploy, received, heard, failedSends, checked, touches>>

Crash ==
  /\ Failing
  /\ deploy' = NoDeploy
  /\ job' = [h \in Handler |-> NoJob]
  /\ Muddle(Target \cap ({deploy.target} \cup {job[h].target : h \in Handler}))
  /\ Untold(Handler)
  /\ UNCHANGED <<catalog, logs, version, received, heard, failedSends, checked, touches>>

Deploy ==
  \/ \E f \in Firmware, T \in (SUBSET Target) \ {{}} :
       DeployToDevices(f, T) \/ CheckGateways(f, T)
  \/ \E t \in Asking, f \in Firmware : CheckForUpdate(t, f)
  \/ RefindFirmware \/ InsertPending \/ SendCommand \/ FailedLoad \/ FailedSave

Handle(h) ==
  \/ FindPending(h) \/ LoadLog(h) \/ SaveLog(h) \/ InsertSelfInitiated(h)
  \/ UpdateVersion(h) \/ LoadRow(h) \/ SaveRow(h)

Next ==
  \/ Administer
  \/ Deploy
  \/ \E h \in Handler :
       \/ \E t \in Target, f \in Firmware, ok \in BOOLEAN : ReceiveReport(h, t, f, ok)
       \/ \E t \in Target, f \in Firmware \cup {None} : TouchRow(h, t, f)
       \/ Handle(h) \/ HandlerFails(h)
  \/ \E g \in Gateway, f \in Firmware : Heartbeat(g, f)
  \/ SendFails \/ DeployFails \/ Crash

Spec == Init /\ [][Next]_vars

-----------------------------------------------------------------------------
(***************************************************************************)
(* Properties                                                               *)
(***************************************************************************)

Quiet(t) == deploy.target # t /\ \A h \in Handler : job[h].target # t

LogsOf(t) == {l \in Ids : logs[l].target = t}

\* With the deployments and reports of a target one at a time, no handler lost
\* and every report about a command the target got and did not report before:
\* an ended log whose send did not fail has the outcome its target reported for
\* its own version.  (When one of these is missing a report can close the log of
\* another version.)
OwnOutcome ==
  \A l \in Ids \ failedSends :
    LET t == logs[l].target IN
    t \notin muddled /\ Quiet(t) /\ logs[l].status # "pending" =>
      \E i \in DOMAIN heard[t] :
        /\ heard[t][i].file = logs[l].version
        /\ Outcome(heard[t][i].ok) = logs[l].status

\* On the same condition every report leaves its mark once: a target has as
\* many ended logs as it was heard of, and those closed by a failed send.
EveryReportRecorded ==
  \A t \in Target \ muddled :
    Quiet(t) => Cardinality(LogsOf(t) \ PendingOf(t)) =
                  Len(heard[t]) + Cardinality(LogsOf(t) \cap failedSends)

Successes(t) == {i \in DOMAIN heard[t] : heard[t][i].ok}

\* The row of a target has the version that the target told last, in a successful
\* report, a heartbeat or provisioning, once its handler is done, unless that
\* handler failed, another one of the target was at work between, or a request
\* that had found the row before wrote its older version back.  Other requests
\* that save the row may overlap with the handler in every other order.
VersionFollows ==
  \A t \in Target :
    told[t] # None /\ ~(\E h \in Handler : Telling(h, t)) => version[t] = told[t]

\* No target gets firmware for the other kind, and no gateway gets a file that
\* was never published: the check holds across the queries between it and the
\* publish.  (The file may have been withdrawn meanwhile.)
RightFirmware ==
  /\ \A d \in Device : received[d] \cap ForGateway = {}
  /\ \A g \in Gateway : received[g] \subseteq ForGateway \cap checked

\* Every variable has its type.
TypeOK ==
  /\ catalog \in [Firmware -> {"absent", "draft", "published"}]
  /\ Ids \subseteq LogId
  /\ \A l \in Ids : logs[l] \in [target : Target, version : Firmware, order : Nat,
                                 status : {"pending", "success", "failed"}]
  /\ version \in [Target -> Firmware \cup {None}]
  /\ deploy.todo \subseteq Target
  /\ deploy.pc \in {"send", "send_gateway", "failed_load", "failed_save"} => deploy.log \in Ids
  /\ \A h \in Handler : job[h].pc \in {"load", "save"} => job[h].log \in Ids
  /\ received \in [Target -> SUBSET Firmware]
  /\ muddled \subseteq Target /\ checked \subseteq Firmware /\ failedSends \subseteq Ids
  /\ told \in [Target -> Firmware \cup {None}]

\* The table read as a history of updates.
History ==
  [l \in LogId |->
     IF l \in Ids
       THEN [status |-> logs[l].status, target |-> logs[l].target, version |-> logs[l].version]
       ELSE [status |-> "none", target |-> None, version |-> None]]

Abstract == INSTANCE UpdateLog WITH
  Version <- Firmware, log <- History, succeeded <- {t \in Target : Successes(t) # {}}

\* However reports, deployments and failures interleave, the history keeps the
\* promise of UpdateLog: an ended update never returns to pending, and none is
\* a success that its target did not report.
KeepsHistory == Abstract!Spec

=============================================================================
