----------------------------- MODULE NightlyJob -----------------------------
(***************************************************************************)
(* The nightly workflow, night after night: the worker takes the sources   *)
(* one after the other, then the derived data, the tiles and the alerts;   *)
(* then the workflow commits a heartbeat and pings the monitor.            *)
(*                                                                         *)
(* What a source holds is a version of the city's data, which grows.  The  *)
(* rows of version v refer to parcels of version v, so that a batch joins  *)
(* for certain only if the worker's parcel-key index is as new.            *)
(***************************************************************************)
EXTENDS Integers, Sequences, FiniteSets

CONSTANTS
  Sources,    \* in the adapter's order
  Kind,       \* source -> "spine", "keyset", "spatial", "scrape" or "unwired"
  Pages,      \* page budget of a keyset source, in versions
  IdleLimit,  \* nights without a commit that disable the schedule
  None,
  MaxCity,    \* versions the city publishes        (bound)
  MaxFaults,  \* failures                           (bound)
  MaxLost     \* runs killed with their runner      (bound)

Names == {Sources[k] : k \in DOMAIN Sources}
Wired == {s \in Names : Kind[s] # "unwired"}
Spine == CHOOSE s \in Names : Kind[s] = "spine"

ConstantsOK ==
  /\ Sources \in Seq(Names) /\ \A j, k \in DOMAIN Sources : Sources[j] = Sources[k] => j = k
  /\ \A s \in Names : Kind[s] \in {"spine", "keyset", "spatial", "scrape", "unwired"}
  /\ \E s \in Names : Kind[s] = "spine"
  /\ Pages \in Nat \ {0} /\ IdleLimit \in Nat \ {0}
  /\ {MaxCity, MaxFaults, MaxLost} \subseteq Nat

VARIABLES
  city,       \* the version published
  have,       \* source -> version promoted
  cursor,     \* source -> version its cursor or watermark stands for
  derived,    \* have, when the derived data was last refreshed
  tiles,      \* version of the parcels on the map
  runRow,     \* source -> status of tonight's ops.ingest_run row, or None
  pc, at,     \* the worker's step, and the source it is at
  batch,      \* version fetched, or None
  index,      \* version of the parcel-key index in memory
  reports,    \* source -> the statuses reported tonight
  exitCode,
  ping,       \* what the monitor heard last
  quiet,      \* nights since the last commit
  faults, lost

data   == <<city, have, cursor>>
worker == <<at, batch, index, reports>>
after  == <<derived, tiles>>
job    == <<exitCode, ping, quiet>>
vars   == <<data, runRow, pc, worker, after, job, faults, lost>>

Here == Sources[at]

Init ==
  /\ city = 0 /\ have = [s \in Names |-> 0] /\ cursor = [s \in Names |-> 0]
  /\ derived = have /\ tiles = 0 /\ runRow = [s \in Names |-> None]
  /\ pc = "idle" /\ at = 1 /\ batch = None /\ index = 0
  /\ reports = [s \in Names |-> {}]
  /\ exitCode = 0 /\ ping = "none" /\ quiet = 0 /\ faults = 0 /\ lost = 0

-----------------------------------------------------------------------------
Publish ==
  /\ city < MaxCity /\ city' = city + 1
  /\ UNCHANGED <<have, cursor, runRow, pc, worker, after, job, faults, lost>>

(* The cron fires, unless the repository has been idle for too long. *)
Start ==
  /\ pc = "idle" /\ quiet < IdleLimit
  /\ pc' = "load" /\ at' = 1 /\ batch' = None
  /\ reports' = [s \in Names |-> {}] /\ runRow' = [s \in Names |-> None]
  /\ exitCode' = 0 /\ ping' = "start" /\ quiet' = quiet + 1
  /\ UNCHANGED <<data, index, after, faults, lost>>

-----------------------------------------------------------------------------
(* The worker *)

LoadIndex ==
  /\ pc = "load" /\ pc' = "source"
  /\ index' = have[Spine]
  /\ UNCHANGED <<data, runRow, at, batch, reports, after, job, faults, lost>>

Reported(status) == reports' = [reports EXCEPT ![Here] = @ \cup {status}]

Skip ==
  /\ pc = "source" /\ at <= Len(Sources) /\ Here \notin Wired
  /\ Reported("skipped") /\ at' = at + 1
  /\ UNCHANGED <<data, runRow, pc, batch, index, after, job, faults, lost>>

Open ==
  /\ pc = "source" /\ at <= Len(Sources) /\ Here \in Wired
  /\ runRow' = [runRow EXCEPT ![Here] = "running"]
  /\ pc' = "fetch"
  /\ UNCHANGED <<data, worker, after, job, faults, lost>>

(* The snapshot, the pages after the cursor, or the scraped pages, if every *)
(* one of them has the expected columns and enough rows.                    *)
Fetch ==
  /\ pc = "fetch" /\ pc' = "gate"
  /\ batch' = IF Kind[Here] \in {"keyset", "spatial"} /\ cursor[Here] + Pages < city
              THEN cursor[Here] + Pages ELSE city
  /\ UNCHANGED <<data, runRow, at, index, reports, after, job, faults, lost>>

Empty == Kind[Here] # "scrape" /\ batch = cursor[Here]

Gated == Kind[Here] = "keyset" /\ ~ Empty

Close(status, next) ==
  /\ runRow' = [runRow EXCEPT ![Here] = status]
  /\ pc' = next

(* Slip: a quarantined batch moves the cursor too. *)
RefuseAndAdvance ==
  /\ pc = "gate"
  /\ LET status == IF Empty THEN "success" ELSE "partial" IN
       /\ Empty \/ (Gated /\ index < batch)
       /\ Close(status, "source") /\ Reported(status)
  /\ at' = at + 1
  /\ cursor' = [cursor EXCEPT ![Here] = batch]
  /\ UNCHANGED <<city, have, batch, index, after, job, faults, lost>>

(* Nothing new, or the batch joins too few parcels and is quarantined. *)
Refuse ==
  /\ pc = "gate"
  /\ LET status == IF Empty THEN "success" ELSE "partial" IN
       /\ Empty \/ (Gated /\ index < batch)
       /\ Close(status, "source") /\ Reported(status)
  /\ at' = at + 1
  /\ UNCHANGED <<data, batch, index, after, job, faults, lost>>

Promote ==
  /\ pc = "gate" /\ ~ Empty
  /\ have' = [have EXCEPT ![Here] = IF batch > @ THEN batch ELSE @]
  /\ pc' = IF Kind[Here] = "spine" THEN "cursor" ELSE "close"
  /\ UNCHANGED <<city, cursor, runRow, worker, after, job, faults, lost>>

(* The spine writes its watermark before it closes its run, and the keyset  *)
(* sources their cursor after.                                              *)
WriteCursor ==
  /\ pc = "cursor"
  /\ cursor' = [cursor EXCEPT ![Here] = batch]
  /\ IF Kind[Here] = "spine" THEN pc' = "close" /\ UNCHANGED <<at, reports>>
     ELSE pc' = "source" /\ at' = at + 1 /\ Reported("success")
  /\ UNCHANGED <<city, have, runRow, batch, index, after, job, faults, lost>>

(* Slip: the index loaded first serves the whole night. *)
AfterSpineStale == "source"

(* The spine is followed by a new index. *)
AfterSpine == "index"

CloseSuccess ==
  /\ pc = "close"
  /\ CASE Kind[Here] = "spine"  -> Close("success", AfterSpine) /\ Reported("success")
                                   /\ at' = IF AfterSpine = "source" THEN at + 1 ELSE at
       [] Kind[Here] = "scrape" -> Close("success", "source") /\ Reported("success") /\ at' = at + 1
       [] OTHER                 -> Close("success", "cursor") /\ UNCHANGED <<at, reports>>
  /\ UNCHANGED <<data, batch, index, after, job, faults, lost>>

Reindex ==
  /\ pc = "index" /\ pc' = "source" /\ at' = at + 1
  /\ index' = have[Spine]
  /\ UNCHANGED <<data, runRow, batch, reports, after, job, faults, lost>>

-----------------------------------------------------------------------------
(* After the sources *)

Failed == {s \in Names : "failed" \in reports[s]}

(* Slip: the exit code is that of the process, which went well. *)
ExitCodeIgnored == 0

ExitCode == IF Failed = {} THEN 0 ELSE 1

Summarize ==
  /\ pc = "source" /\ at > Len(Sources)
  /\ exitCode' = ExitCode /\ pc' = "finalize"
  /\ UNCHANGED <<data, runRow, worker, after, ping, quiet, faults, lost>>

Finalize ==
  /\ pc = "finalize" /\ pc' = "tiles"
  /\ derived' = have
  /\ UNCHANGED <<data, runRow, worker, tiles, job, faults, lost>>

BuildTiles ==
  /\ pc = "tiles" /\ pc' = "alerts"
  /\ tiles' = have[Spine]
  /\ UNCHANGED <<data, runRow, worker, derived, job, faults, lost>>

RunAlerts ==
  /\ pc = "alerts" /\ pc' = "heartbeat"
  /\ UNCHANGED <<data, runRow, worker, after, job, faults, lost>>

(* Slip: the heartbeat is a step like any other. *)
BeatOnSuccess == exitCode = 0

(* if: always() *)
Beat == TRUE

Heartbeat ==
  /\ pc = "heartbeat" /\ pc' = "ping"
  /\ quiet' = IF Beat THEN 0 ELSE quiet
  /\ UNCHANGED <<data, runRow, worker, after, exitCode, ping, faults, lost>>

Ping ==
  /\ pc = "ping" /\ pc' = "idle"
  /\ ping' = IF exitCode = 0 THEN "success" ELSE "fail"
  /\ UNCHANGED <<data, runRow, worker, after, exitCode, quiet, faults, lost>>

-----------------------------------------------------------------------------
(* Failures *)

Fault == faults < MaxFaults /\ faults' = faults + 1

(* Before the first source, and when a source's run is opened, nothing     *)
(* catches: the process ends.                                              *)
Abort ==
  /\ Fault /\ \/ pc = "load"
              \/ pc = "source" /\ at <= Len(Sources) /\ Here \in Wired
  /\ exitCode' = 1 /\ pc' = "heartbeat"
  /\ UNCHANGED <<data, runRow, worker, after, ping, quiet, lost>>

(* A source throws: a refused fetch or one that exceeds its budget, a page *)
(* that drifted, a statement.  A failure to record that is swallowed.      *)
SourceFails ==
  /\ Fault /\ pc \in {"fetch", "gate", "close", "cursor", "index"}
  /\ \/ runRow' = [runRow EXCEPT ![Here] = "failed"]
     \/ UNCHANGED runRow
  /\ Reported("failed") /\ at' = at + 1 /\ pc' = "source"
  /\ UNCHANGED <<data, batch, index, after, job, lost>>

(* The derived data, the tiles and the alerts keep what they had. *)
StepFails ==
  /\ Fault /\ \/ pc = "finalize" /\ pc' = "tiles"
              \/ pc = "tiles" /\ pc' = "alerts"
              \/ pc = "alerts" /\ pc' = "heartbeat"
  /\ UNCHANGED <<data, runRow, worker, after, job, lost>>

(* The job's time is up: the steps marked always() still run. *)
TimeOut ==
  /\ Fault /\ pc \notin {"idle", "heartbeat", "ping"}
  /\ exitCode' = 1 /\ pc' = "heartbeat"
  /\ UNCHANGED <<data, runRow, worker, after, ping, quiet, lost>>

(* The runner is gone, and with it the rest of the workflow. *)
RunnerLost ==
  /\ lost < MaxLost /\ lost' = lost + 1
  /\ pc # "idle" /\ pc' = "idle"
  /\ UNCHANGED <<data, runRow, worker, after, job, faults>>

-----------------------------------------------------------------------------
Worker   == LoadIndex \/ Skip \/ Open \/ Fetch \/ Refuse \/ Promote \/ WriteCursor
            \/ CloseSuccess \/ Reindex
Workflow == Summarize \/ Finalize \/ BuildTiles \/ RunAlerts \/ Heartbeat \/ Ping
Failures == Abort \/ SourceFails \/ StepFails \/ TimeOut \/ RunnerLost

Next == Publish \/ Start \/ Worker \/ Workflow \/ Failures

Spec == Init /\ [][Next]_vars

(* The cron fires every night, and a run goes on until it ends. *)
Progress == Start \/ Worker \/ Workflow
FairSpec == Spec /\ WF_vars(Progress)

-----------------------------------------------------------------------------
(* Properties *)

(* Once the city and the failures stop, every source, the derived data and *)
(* the map catch up, whatever was refused, lost or half done before: a     *)
(* batch quarantined for parcels not loaded yet passes on a later night,   *)
(* and a cursor not written is read again.                                 *)
CatchesUp ==
  <>[](/\ \A s \in Wired : have[s] = city /\ (Kind[s] # "scrape" => cursor[s] = city)
       /\ \A s \in Wired : derived[s] = city
       /\ tiles = city)

(* A source is measured against the parcels the spine has just loaded,     *)
(* when the spine reported success tonight and nothing else.               *)
MeasuredAgainstTonight ==
  pc = "gate" /\ Gated /\ reports[Spine] = {"success"} => index = have[Spine]

(* The monitor hears of a success only if tonight every source was         *)
(* reported, none failed, and every run opened was closed (run.ts: without *)
(* the exit code the success ping would fire, "silent decay").             *)
HonestPing ==
  pc = "idle" /\ ping = "success" =>
    \A s \in Names : /\ reports[s] # {} /\ "failed" \notin reports[s]
                     /\ s \in Wired => runRow[s] \in {"success", "partial"}

(* The schedule is not disabled by failures of the worker, only by runners *)
(* lost in a row (nightly.yml: the heartbeat must run even if ingestion    *)
(* failed).                                                                *)
StaysScheduled == lost < IdleLimit => quiet < IdleLimit \/ pc # "idle"

(* The worker returns one report for each source ("Returns a per-source     *)
(* report").                                                               *)
OneReportEach == \A s \in Names : Cardinality(reports[s]) <= 1
=============================================================================
