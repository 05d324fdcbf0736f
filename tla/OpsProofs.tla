----------------------------- MODULE OpsProofs -----------------------------
(***************************************************************************)
(* Proofs about what runs with no page open, for any sources, layers,      *)
(* releases, bounds and failures.  The nightly workflow: what the monitor  *)
(* hears is true, the schedule survives every failure but lost runners,    *)
(* and the index in memory is as new as the spine.  The tile build: the    *)
(* map never reads a short archive, however the endings of pump and child  *)
(* interleave.  The migration runner: every file is applied at most once   *)
(* and in order, wherever overlapping runners die.                         *)
(***************************************************************************)
EXTENDS MCOps, TLAPS

AtSource   == {"fetch", "gate", "close", "cursor", "index"}
OnSources  == AtSource \cup {"source"}
Afterwards == {"finalize", "tiles", "alerts", "heartbeat", "ping"}

Typed ==
  /\ pc \in OnSources \cup Afterwards \cup {"idle", "load"}
  /\ at \in Nat \ {0} /\ (pc \in AtSource => at \in DOMAIN Sources) /\ (pc = "load" => at = 1)
  /\ have = [s \in Names |-> have[s]]
  /\ runRow = [s \in Names |-> runRow[s]] /\ reports = [s \in Names |-> reports[s]]
  /\ quiet \in Nat /\ lost \in Nat

Closed(s)  == s \in Wired => runRow[s] \in {"success", "partial"}

(* A source gone past was reported, as failed unless its run was closed.    *)
Past(s)    == reports[s] # {} /\ ("failed" \in reports[s] \/ Closed(s))

AllWell    == \A s \in Names : reports[s] # {} /\ "failed" \notin reports[s] /\ Closed(s)

Told ==
  /\ pc \in OnSources => \A k \in DOMAIN Sources : k < at => Past(Sources[k])
  /\ pc = "index" => Past(Here)
  /\ pc = "cursor" /\ Kind[Here] # "spine" => Closed(Here)
  /\ pc \in Afterwards /\ exitCode = 0 => AllWell
  /\ ping = "success" => pc = "idle" /\ AllWell

(* Every night but one whose runner is lost ends with a commit. *)
Counted == quiet <= lost + IF pc \in {"idle", "ping"} THEN 0 ELSE 1

(* The index is the spine's, except between its promote and the reindexing. *)
Indexed ==
  pc \in OnSources /\ "failed" \notin reports[Spine]
    /\ ~ (pc \in {"cursor", "close", "index"} /\ Here = Spine)
  => index = have[Spine]

Inv == Typed /\ Told /\ Counted /\ Indexed

-----------------------------------------------------------------------------

LEMMA Constants ==
  ASSUME ConstantsOK
  PROVE  /\ DOMAIN Sources = 1 .. Len(Sources) /\ Len(Sources) \in Nat
         /\ Spine \in Names /\ Kind[Spine] = "spine"
         /\ \A k \in DOMAIN Sources : Sources[k] \in Names
         /\ \A s \in Names : \E k \in DOMAIN Sources : s = Sources[k]
         /\ \A j, k \in DOMAIN Sources : Sources[j] = Sources[k] => j = k
<1>1. \E s \in Names : Kind[s] = "spine"
  BY DEF ConstantsOK
<1>2. Spine \in Names /\ Kind[Spine] = "spine"
  BY <1>1 DEF Spine
<1>3. Sources \in Seq(Names)
  BY DEF ConstantsOK
<1>4. DOMAIN Sources = 1 .. Len(Sources) /\ Len(Sources) \in Nat
  BY <1>3
<1>. QED BY <1>2, <1>4 DEF Names, ConstantsOK

LEMMA InitInv == ASSUME ConstantsOK PROVE Init => Inv
<1>. SUFFICES ASSUME Init PROVE Inv
  OBVIOUS
<1>1. Typed /\ Counted
  BY DEF Init, Typed, Counted, OnSources, AtSource
<1>2. Told /\ Indexed
  BY DEF Init, Told, Indexed, OnSources, AtSource, Afterwards
<1>. QED BY <1>1, <1>2 DEF Inv

(* What leaves the worker's night alone. *)
LEMMA Aside ==
  ASSUME ConstantsOK, Inv, Publish \/ UNCHANGED vars
  PROVE  Inv'
BY DEF Publish, vars, data, worker, after, job, Inv, Typed, Told, Counted, Indexed, Past,
       AllWell, Closed, Here

LEMMA Beginning ==
  ASSUME ConstantsOK, Inv, Start \/ LoadIndex
  PROVE  Inv'
<1>1. CASE Start
  <2>1. Typed' /\ Counted'
    BY <1>1 DEF Start, data, Inv, Typed, Counted, OnSources, AtSource, Afterwards
  <2>2. Told' /\ Indexed'
    BY <1>1 DEF Start, Told, Indexed, OnSources, AtSource, Afterwards
  <2>. QED BY <2>1, <2>2 DEF Inv
<1>2. CASE LoadIndex
  <2>1. Typed' /\ Counted'
    BY <1>2 DEF LoadIndex, data, job, Inv, Typed, Counted, OnSources, AtSource, Afterwards
  <2>2. Indexed'
    BY <1>2 DEF LoadIndex, data, Indexed
  <2>3. at' = 1 /\ pc' = "source" /\ ping # "success" /\ UNCHANGED ping
    BY <1>2 DEF LoadIndex, job, Inv, Typed, Told
  <2>4. Told'
    BY <2>3, Constants DEF Told, Afterwards
  <2>. QED BY <2>1, <2>2, <2>4 DEF Inv
<1>. QED BY <1>1, <1>2

(* The worker at a source: it stays there, or it goes past it, once it is   *)
(* reported and its run closed or failed.                                   *)
LEMMA Staying ==
  ASSUME ConstantsOK, Inv, Open \/ Fetch \/ Promote
  PROVE  Inv'
<1>. USE Constants
<1>1. CASE Open
  <2>1. at \in DOMAIN Sources /\ pc = "source" /\ pc' = "fetch"
    BY <1>1 DEF Open, Inv, Typed
  <2>2. Typed' /\ Counted' /\ Indexed'
    BY <1>1, <2>1 DEF Open, data, worker, job, Here, Inv, Typed, Counted, Indexed,
                      OnSources,
                      AtSource, Afterwards
  <2>3. ASSUME NEW k \in DOMAIN Sources, k < at PROVE Past(Sources[k])'
    <3>1. Sources[k] # Here /\ Past(Sources[k])
      BY <2>1, <2>3 DEF Inv, Told, Here, OnSources
    <3>2. runRow'[Sources[k]] = runRow[Sources[k]]
      BY <1>1, <3>1 DEF Open, Inv, Typed
    <3>. QED BY <1>1, <3>1, <3>2 DEF Open, worker, Past, Closed
  <2>4. Told'
    BY <1>1, <2>1, <2>3 DEF Open, worker, job, Told, Inv, Afterwards
  <2>. QED BY <2>2, <2>4 DEF Inv
<1>2. CASE Fetch
  BY <1>2 DEF Fetch, data, job, Inv, Typed, Told, Counted, Indexed, Past, AllWell, Closed,
              Here,
              OnSources, AtSource, Afterwards
<1>3. CASE Promote
  <2>1. pc = "gate" /\ at \in DOMAIN Sources /\ Here \in Names
    BY <1>3 DEF Promote, Inv, Typed, Here, AtSource
  <2>2. pc' = IF Kind[Here] = "spine" THEN "cursor" ELSE "close"
    BY <1>3 DEF Promote
  <2>3. Typed' /\ Counted'
    BY <1>3, <2>1, <2>2 DEF Promote, worker, job, Inv, Typed, Counted, OnSources,
                            AtSource, Afterwards
  <2>4. Told'
    BY <1>3, <2>1, <2>2 DEF Promote, worker, job, Inv, Told, Past, Closed, Here, OnSources,
                            AtSource, Afterwards
  <2>5. Here # Spine => have'[Spine] = have[Spine]
    BY <1>3 DEF Promote, Inv, Typed
  <2>6. Indexed'
    BY <1>3, <2>1, <2>2, <2>5 DEF Promote, worker, Inv, Indexed, Here, OnSources, AtSource
  <2>. QED BY <2>3, <2>4, <2>6 DEF Inv
<1>. QED BY <1>1, <1>2, <1>3

(* Going past a source. *)
Passes ==
  /\ pc \in OnSources /\ pc' = "source" /\ at \in DOMAIN Sources /\ at' = at + 1
  /\ \A s \in Names : s # Here => reports'[s] = reports[s] /\ runRow'[s] = runRow[s]
  /\ reports' = [s \in Names |-> reports'[s]] /\ runRow' = [s \in Names |-> runRow'[s]]
  /\ reports'[Here] # {}
  /\ "failed" \in reports'[Here] \/ (Here \in Wired => runRow'[Here] \in {"success", "partial"})
  /\ UNCHANGED <<have, exitCode, ping, quiet, lost>>

LEMMA Passing ==
  ASSUME ConstantsOK, Inv, Passes, Indexed'
  PROVE  Inv'
<1>. USE Constants
<1>1. Typed' /\ Counted'
  BY DEF Passes, Inv, Typed, Counted, OnSources, AtSource, Afterwards
<1>2. ASSUME NEW k \in DOMAIN Sources, k < at + 1 PROVE Past(Sources[k])'
  <2>1. CASE k = at
    BY <2>1 DEF Passes, Past, Closed, Here
  <2>2. CASE k # at
    <3>1. k < at /\ Sources[k] # Here /\ Sources[k] \in Names
      BY <1>2, <2>2 DEF Passes, Here
    <3>2. Past(Sources[k])
      BY <3>1 DEF Inv, Told, Passes
    <3>. QED BY <3>1, <3>2 DEF Passes, Past, Closed
  <2>. QED BY <2>1, <2>2
<1>3. Told'
  BY <1>2 DEF Passes, Inv, Told, OnSources, AtSource, Afterwards
<1>. QED BY <1>1, <1>3 DEF Inv

LEMMA AtTheSource ==
  ASSUME ConstantsOK, Inv,
         Skip \/ Refuse \/ WriteCursor \/ CloseSuccess \/ Reindex \/ SourceFails
  PROVE  /\ pc \in OnSources /\ at \in DOMAIN Sources /\ Here \in Names
         /\ UNCHANGED <<have, exitCode, ping, quiet, lost>>
<1>1. pc \in OnSources /\ at \in DOMAIN Sources
  BY Constants DEF Skip, Refuse, WriteCursor, CloseSuccess, Reindex, SourceFails, Inv,
                   Typed,
                   OnSources, AtSource
<1>2. UNCHANGED <<have, exitCode, ping, quiet, lost>>
  BY DEF Skip, Refuse, WriteCursor, CloseSuccess, Reindex, SourceFails, data, job, after,
         worker
<1>. QED BY <1>1, <1>2, Constants DEF Here

LEMMA SkipInv == ASSUME ConstantsOK, Inv, Skip PROVE Inv'
<1>. USE AtTheSource, Constants
<1>1. Passes
  BY DEF Skip, Passes, Reported, Inv, Typed
<1>2. Indexed'
  BY DEF Skip, data, Reported, Inv, Typed, Indexed, OnSources, AtSource
<1>. QED BY <1>1, <1>2, Passing

LEMMA RefuseInv == ASSUME ConstantsOK, Inv, Refuse PROVE Inv'
<1>. USE AtTheSource, Constants
<1>1. Passes
  BY DEF Refuse, Close, Passes, Reported, Inv, Typed
<1>2. Indexed'
  BY DEF Refuse, Close, data, Reported, Inv, Typed, Indexed, OnSources, AtSource
<1>. QED BY <1>1, <1>2, Passing

LEMMA ReindexInv == ASSUME ConstantsOK, Inv, Reindex PROVE Inv'
<1>. USE AtTheSource, Constants
<1>1. Passes
  BY DEF Reindex, Passes, Inv, Typed, Told, Past, Closed
<1>2. Indexed'
  BY DEF Reindex, data, Indexed
<1>. QED BY <1>1, <1>2, Passing

LEMMA SourceFailsInv == ASSUME ConstantsOK, Inv, SourceFails PROVE Inv'
<1>. USE AtTheSource, Constants
<1>1. Passes
  BY DEF SourceFails, Passes, Reported, Inv, Typed
<1>2. reports'[Here] = reports[Here] \cup {"failed"}
  BY DEF SourceFails, Reported, Inv, Typed
<1>3. Indexed'
  BY <1>1, <1>2 DEF SourceFails, Passes, Inv, Indexed, OnSources, AtSource
<1>. QED BY <1>1, <1>3, Passing

LEMMA WriteCursorInv == ASSUME ConstantsOK, Inv, WriteCursor PROVE Inv'
<1>. USE AtTheSource, Constants
<1>1. CASE Kind[Here] = "spine"
  <2>1. pc = "cursor" /\ pc' = "close" /\ UNCHANGED <<at, reports, runRow, index>>
    BY <1>1 DEF WriteCursor
  <2>2. Typed' /\ Counted' /\ Indexed'
    BY <2>1 DEF Inv, Typed, Counted, Indexed, Here, OnSources, AtSource, Afterwards
  <2>3. Told'
    BY <2>1 DEF Inv, Told, Past, Closed, AllWell, Here, OnSources, AtSource, Afterwards
  <2>. QED BY <2>2, <2>3 DEF Inv
<1>2. CASE Kind[Here] # "spine"
  <2>1. Passes
    <3>1. /\ pc = "cursor" /\ pc' = "source" /\ at' = at + 1 /\ UNCHANGED runRow
          /\ reports' = [reports EXCEPT ![Here] = @ \cup {"success"}]
      BY <1>2 DEF WriteCursor, Reported
    <3>2. Closed(Here)
      BY <1>2, <3>1 DEF Inv, Told
    <3>. QED BY <3>1, <3>2 DEF Passes, Inv, Typed, Closed
  <2>2. Indexed'
    BY <1>2 DEF WriteCursor, Reported, Inv, Typed, Indexed, OnSources, AtSource
  <2>. QED BY <2>1, <2>2, Passing
<1>. QED BY <1>1, <1>2

LEMMA CloseSuccessInv == ASSUME ConstantsOK, Inv, CloseSuccess PROVE Inv'
<1>. USE AtTheSource, Constants
<1>1. CASE Kind[Here] = "spine"
  <2>1. /\ pc = "close" /\ pc' = "index" /\ at' = at /\ index' = index
        /\ runRow' = [runRow EXCEPT ![Here] = "success"]
        /\ reports' = [reports EXCEPT ![Here] = @ \cup {"success"}]
    BY <1>1 DEF CloseSuccess, AfterSpine, Close, Reported
  <2>2. Typed' /\ Counted'
    BY <2>1 DEF Inv, Typed, Counted, OnSources, AtSource, Afterwards
  <2>3. Indexed'
    BY <2>1 DEF Inv, Typed, Indexed, Here, OnSources, AtSource
  <2>4. ASSUME NEW k \in DOMAIN Sources, Past(Sources[k]) \/ k = at PROVE Past(Sources[k])'
    BY <2>1, <2>4 DEF Inv, Typed, Past, Closed, Here
  <2>5. Told'
    BY <2>1, <2>4 DEF Inv, Told, Here, OnSources, AtSource, Afterwards
  <2>. QED BY <2>2, <2>3, <2>5 DEF Inv
<1>2. CASE Kind[Here] = "scrape"
  <2>1. Passes
    <3>1. /\ pc = "close" /\ pc' = "source" /\ at' = at + 1
          /\ runRow' = [runRow EXCEPT ![Here] = "success"]
          /\ reports' = [reports EXCEPT ![Here] = @ \cup {"success"}]
      BY <1>2 DEF CloseSuccess, Close, Reported
    <3>. QED BY <3>1 DEF Passes, Inv, Typed
  <2>2. Indexed'
    BY <1>2 DEF CloseSuccess, Close, Reported, Inv, Typed, Indexed, OnSources, AtSource
  <2>. QED BY <2>1, <2>2, Passing
<1>3. CASE Kind[Here] \notin {"spine", "scrape"}
  <2>1. /\ pc = "close" /\ pc' = "cursor" /\ UNCHANGED <<at, reports, index>>
        /\ runRow' = [runRow EXCEPT ![Here] = "success"]
    BY <1>3 DEF CloseSuccess, Close
  <2>2. Typed' /\ Counted'
    BY <2>1 DEF Inv, Typed, Counted, OnSources, AtSource, Afterwards
  <2>3. Indexed'
    BY <2>1 DEF Inv, Indexed, Here, OnSources, AtSource
  <2>4. ASSUME NEW k \in DOMAIN Sources, Past(Sources[k]) PROVE Past(Sources[k])'
    BY <2>1, <2>4 DEF Inv, Typed, Past, Closed
  <2>5. runRow'[Here] = "success"
    BY <2>1 DEF Inv, Typed
  <2>6. Told'
    BY <2>1, <2>4, <2>5 DEF Inv, Told, Closed, Here, OnSources, AtSource, Afterwards
  <2>. QED BY <2>2, <2>3, <2>6 DEF Inv
<1>. QED BY <1>1, <1>2, <1>3

-----------------------------------------------------------------------------

(* With every source gone past and none failed, all is well. *)
LEMMA SummarizeInv == ASSUME ConstantsOK, Inv, Summarize PROVE Inv'
<1>1. ASSUME exitCode' = 0 PROVE AllWell
  <2>1. Failed = {}
    BY <1>1 DEF Summarize, ExitCode
  <2>2. ASSUME NEW s \in Names PROVE Past(s) /\ "failed" \notin reports[s]
    <3>1. PICK k \in DOMAIN Sources : s = Sources[k]
      BY Constants
    <3>2. k < at
      BY Constants DEF Summarize, Inv, Typed
    <3>. QED BY <2>1, <3>1, <3>2 DEF Failed, Summarize, Inv, Told, OnSources
  <2>. QED BY <2>2 DEF AllWell, Past
<1>2. Typed' /\ Counted' /\ Indexed'
  BY DEF Summarize, data, worker, Inv, Typed, Counted, Indexed, OnSources, AtSource,
         Afterwards
<1>3. AllWell => AllWell'
  BY DEF Summarize, worker, AllWell, Closed
<1>4. Told'
  BY <1>1, <1>3 DEF Summarize, worker, Inv, Told, OnSources, AtSource, Afterwards
<1>. QED BY <1>2, <1>4 DEF Inv

(* The rest of the night changes nothing of what was reported. *)
LEMMA EndingInv ==
  ASSUME ConstantsOK, Inv,
         Finalize \/ BuildTiles \/ RunAlerts \/ StepFails \/ Heartbeat \/ Ping
  PROVE  Inv'
<1>1. /\ pc \in Afterwards /\ pc' \in Afterwards \cup {"idle"}
      /\ UNCHANGED <<at, have, runRow, reports, exitCode, lost>>
  BY DEF Finalize, BuildTiles, RunAlerts, StepFails, Heartbeat, Ping, data, worker, job,
         Afterwards
<1>2. AllWell => AllWell'
  BY <1>1 DEF AllWell, Closed
<1>3. Typed'
  BY <1>1 DEF Finalize, BuildTiles, RunAlerts, StepFails, Heartbeat, Ping, Beat, job, Inv,
              Typed,
              OnSources, AtSource, Afterwards
<1>4. Counted'
  BY <1>1 DEF Finalize, BuildTiles, RunAlerts, StepFails, Heartbeat, Ping, Beat, job, Inv,
              Typed,
              Counted
<1>5. Told'
  BY <1>1, <1>2 DEF Finalize, BuildTiles, RunAlerts, StepFails, Heartbeat, Ping, job, Inv,
                    Told,
                    OnSources, AtSource, Afterwards
<1>6. Indexed'
  BY <1>1 DEF Indexed, OnSources, AtSource, Afterwards
<1>. QED BY <1>3, <1>4, <1>5, <1>6 DEF Inv

(* A night cut short sets the exit code, or never reaches the ping. *)
LEMMA CutShortInv ==
  ASSUME ConstantsOK, Inv, Abort \/ TimeOut \/ RunnerLost
  PROVE  Inv'
<1>1. CASE Abort \/ TimeOut
  <2>1. /\ pc \notin {"idle", "heartbeat", "ping"} /\ pc' = "heartbeat" /\ exitCode' = 1
        /\ UNCHANGED <<at, have, runRow, reports, ping, quiet, lost>>
    BY <1>1 DEF Abort, TimeOut, data, worker
  <2>2. Typed' /\ Counted' /\ Told' /\ Indexed'
    BY <2>1 DEF Inv, Typed, Counted, Told, Indexed, OnSources, AtSource, Afterwards
  <2>. QED BY <2>2 DEF Inv
<1>2. CASE RunnerLost
  <2>1. /\ pc # "idle" /\ pc' = "idle" /\ lost' = lost + 1
        /\ UNCHANGED <<at, have, runRow, reports, ping, quiet>>
    BY <1>2 DEF RunnerLost, data, worker, job
  <2>2. Typed' /\ Counted' /\ Told' /\ Indexed'
    BY <2>1 DEF Inv, Typed, Counted, Told, Indexed, OnSources, AtSource, Afterwards
  <2>. QED BY <2>2 DEF Inv
<1>. QED BY <1>1, <1>2

LEMMA NextInv == ASSUME ConstantsOK PROVE Inv /\ [Next]_vars => Inv'
<1>. SUFFICES ASSUME Inv, [Next]_vars PROVE Inv'
  OBVIOUS
<1>1. CASE Publish \/ UNCHANGED vars
  BY <1>1, Aside
<1>2. CASE Start \/ LoadIndex
  BY <1>2, Beginning
<1>3. CASE Open \/ Fetch \/ Promote
  BY <1>3, Staying
<1>4. CASE Skip \/ Refuse \/ Reindex \/ SourceFails
  BY <1>4, SkipInv, RefuseInv, ReindexInv, SourceFailsInv
<1>5. CASE WriteCursor \/ CloseSuccess
  BY <1>5, WriteCursorInv, CloseSuccessInv
<1>6. CASE Summarize
  BY <1>6, SummarizeInv
<1>7. CASE Finalize \/ BuildTiles \/ RunAlerts \/ StepFails \/ Heartbeat \/ Ping
  BY <1>7, EndingInv
<1>8. CASE Abort \/ TimeOut \/ RunnerLost
  BY <1>8, CutShortInv
<1>. QED
  BY <1>1, <1>2, <1>3, <1>4, <1>5, <1>6, <1>7, <1>8 DEF Next, Worker, Workflow, Failures

-----------------------------------------------------------------------------

(* The monitor hears of a success only if every source was reported, none   *)
(* failed and every run was closed (run.ts, main; nightly.yml, the ping).   *)
THEOREM PingIsHonest == ASSUME ConstantsOK PROVE Spec => []HonestPing
<1>1. Inv => HonestPing
  BY DEF Inv, Told, HonestPing, AllWell, Closed
<1>. QED BY <1>1, InitInv, NextInv, PTL DEF Spec

(* Only runners lost in a row disable the schedule (nightly.yml, always()). *)
THEOREM ScheduleSurvives == ASSUME ConstantsOK PROVE Spec => []StaysScheduled
<1>1. IdleLimit \in Nat
  BY DEF ConstantsOK
<1>2. Inv => StaysScheduled
  BY <1>1 DEF Inv, Typed, Counted, StaysScheduled
<1>. QED BY <1>2, InitInv, NextInv, PTL DEF Spec

(* A keyed source is measured against the parcels just loaded (run.ts, the  *)
(* refresh of the parcel-key index).                                        *)
THEOREM MeasuredFresh == ASSUME ConstantsOK PROVE Spec => []MeasuredAgainstTonight
<1>1. Inv => MeasuredAgainstTonight
  BY DEF Inv, Indexed, MeasuredAgainstTonight, OnSources, AtSource
<1>. QED BY <1>1, InitInv, NextInv, PTL DEF Spec

-----------------------------------------------------------------------------

(* A feed that ended was complete, one that broke has settled the build,    *)
(* and a resolved build has a child that is done.                           *)
Endings ==
  /\ pump \in {"feeding", "ended", "broken"}
  /\ Tile!Running => /\ pump = "ended" => piped = Batches
                     /\ pump = "broken" => settled # "no"
  /\ settled = "resolved" => child = "closed"

TileInv == Tile!ServedWhole /\ Endings /\ served = [k \in Tile!Objects |-> served[k]]

LEMMA TileInit == Tile!Init => TileInv
BY DEF Tile!Init, TileInv, Tile!ServedWhole, Endings, Tile!Running

(* The archive of a build that resolves is whole, and is what is uploaded.  *)
LEMMA TileNext == TileInv /\ [Tile!Next]_(Tile!vars) => TileInv'
<1>. SUFFICES ASSUME TileInv, [Tile!Next]_(Tile!vars) PROVE TileInv'
  OBVIOUS
<1>. USE DEF TileInv, Tile!ServedWhole, Endings, Tile!Running
<1>1. CASE Tile!Grow \/ Tile!NoBinary
  BY <1>1 DEF Tile!Grow, Tile!NoBinary, Tile!build
<1>2. CASE Tile!Spawn
  BY <1>2 DEF Tile!Spawn
<1>3. CASE Tile!Feed
  BY <1>3 DEF Tile!Feed
<1>4. CASE Tile!EndFeed
  BY <1>4 DEF Tile!EndFeed
<1>5. CASE Tile!PumpFails
  BY <1>5 DEF Tile!PumpFails, Tile!Rejects
<1>6. CASE Tile!ChildExits
  <2>1. settled = "no" => pump = "ended" /\ piped = Batches
    BY <1>6 DEF Tile!ChildExits
  <2>2. settled # "resolved"
    BY <1>6 DEF Tile!ChildExits
  <2>3. settled' = "resolved" => archive'.batches = Batches
    BY <1>6, <2>1, <2>2 DEF Tile!ChildExits
  <2>. QED BY <1>6, <2>3 DEF Tile!ChildExits
<1>7. CASE Tile!ChildCrashes
  BY <1>7 DEF Tile!ChildCrashes, Tile!Rejects
<1>8. CASE Tile!Upload
  <2>1. \A k \in Tile!Objects : served'[k] \in {served[k], archive}
    BY <1>8 DEF Tile!Upload
  <2>2. archive.batches = Batches
    BY <1>8 DEF Tile!Upload
  <2>3. served' = [k \in Tile!Objects |-> served'[k]]
    BY <1>8 DEF Tile!Upload
  <2>. QED BY <1>8, <2>1, <2>2, <2>3 DEF Tile!Upload
<1>9. CASE Tile!GiveUp
  <2>1. \A k \in Tile!Objects :
          served'[k] = served[k] \/ (settled = "resolved" /\ served'[k] = archive)
    BY <1>9 DEF Tile!GiveUp
  <2>2. served' = [k \in Tile!Objects |-> served'[k]]
    BY <1>9 DEF Tile!GiveUp
  <2>. QED BY <1>9, <2>1, <2>2 DEF Tile!GiveUp
<1>10. CASE UNCHANGED Tile!vars
  BY <1>10 DEF Tile!vars, Tile!build
<1>. QED
  BY <1>1, <1>2, <1>3, <1>4, <1>5, <1>6, <1>7, <1>8, <1>9, <1>10 DEF Tile!Next, Tile!Steps

(* What the map reads is a whole archive, and so is what a resolved build   *)
(* will upload (build.ts, the close handler and `fail`).                    *)
THEOREM TilesWhole == SpecAll => []ServedWhole
<1>1. TileInv => ServedWhole
  BY DEF TileInv, ServedWhole
<1>2. InitAll => TileInv
  BY TileInit DEF InitAll
<1>3. TileInv /\ [NextAll]_allVars => TileInv'
  BY TileNext DEF NextAll, OnNight, OnTile, OnMigrate, OnBilling, allVars, tileVars, Tile!vars,
                  Tile!build
<1>. QED BY <1>1, <1>2, <1>3, PTL DEF SpecAll

-----------------------------------------------------------------------------

(* What a runner has read or applied stays applied, and it runs the files   *)
(* of one release.                                                          *)
Tracked(r) ==
  known[r] # None => known[r] \subseteq ledger /\ files[r] \in Releases

(* An open transaction is on the first file its runner has not seen         *)
(* applied; once it holds the ledger's row, the file is not in the ledger.  *)
Transaction(r) ==
  tx[r] # None =>
    /\ known[r] # None
    /\ tx[r] \in [file : files[r], step : {"statements", "recorded"}]
    /\ \A g \in files[r] : g < tx[r].file => g \in known[r]
    /\ tx[r].step = "recorded" => tx[r].file \notin ledger

(* The ledger's key admits one holder of a file's row. *)
Holds(r, f)    == tx[r] # None /\ tx[r].file = f /\ tx[r].step = "recorded"
OneHolder      ==
  \A f \in Migration!AllFiles, r, o \in Runners : Holds(r, f) /\ Holds(o, f) => r = o

OnceEach == \A f \in Migration!AllFiles : schema[f] = IF f \in ledger THEN 1 ELSE 0

LedgerTyped ==
  /\ ledger \subseteq Migration!AllFiles
  /\ DOMAIN schema = Migration!AllFiles /\ schema = [f \in Migration!AllFiles |-> schema[f]]
  /\ files \in [Runners -> Releases \cup {None}]
  /\ known = [r \in Runners |-> known[r]] /\ tx = [r \in Runners |-> tx[r]]

LedgerInv ==
  /\ LedgerTyped /\ OnceEach /\ Migration!AppliedInOrder /\ OneHolder
  /\ \A r \in Runners : Tracked(r) /\ Transaction(r)

-----------------------------------------------------------------------------

(* Adding to the ledger the first file of a release that is missing from it *)
(* keeps the order, whichever release it came from.                         *)
LEMMA NextInOrder ==
  ASSUME Migration!ConstantsOK, NEW s \in Releases, NEW f \in s, f \notin ledger,
         Migration!AppliedInOrder,
         \A g \in s : g < f => g \in ledger,
         ledger' = ledger \cup {f}
  PROVE  Migration!AppliedInOrder'
<1>1. PICK r \in Releases : ledger \subseteq r /\ \A h \in ledger, g \in r : g < h => g \in ledger
  BY DEF Migration!AppliedInOrder
<1>2. CASE s \subseteq r
  <2>1. ledger' \subseteq r
    BY <1>1, <1>2
  <2>2. ASSUME NEW g \in r, g < f PROVE g \in ledger
    <3>1. CASE g \in s
      BY <2>2, <3>1
    <3>2. CASE g \notin s
      <4>1. f < g
        BY <1>2, <3>2 DEF Migration!ConstantsOK
      <4>2. f \in Int /\ g \in Int
        BY <1>2 DEF Migration!ConstantsOK
      <4>. QED BY <4>1, <4>2, <2>2
    <3>. QED BY <3>1, <3>2
  <2>3. \A h \in ledger', g \in r : g < h => g \in ledger'
    BY <1>1, <2>2
  <2>. QED BY <2>1, <2>3 DEF Migration!AppliedInOrder
<1>3. CASE r \subseteq s
  <2>1. ledger' \subseteq s
    BY <1>1, <1>3
  <2>2. ASSUME NEW h \in ledger, NEW g \in s, g < h PROVE g \in ledger
    <3>1. CASE g \in r
      BY <1>1, <2>2, <3>1
    <3>2. CASE g \notin r
      <4>1. h \in r
        BY <1>1
      <4>2. h < g
        BY <1>3, <3>2, <4>1 DEF Migration!ConstantsOK
      <4>3. h \in Int /\ g \in Int
        BY <1>3, <4>1 DEF Migration!ConstantsOK
      <4>. QED BY <4>2, <4>3, <2>2
    <3>. QED BY <3>1, <3>2
  <2>3. \A h \in ledger', g \in s : g < h => g \in ledger'
    BY <2>2
  <2>. QED BY <2>1, <2>3 DEF Migration!AppliedInOrder
<1>. QED BY <1>2, <1>3 DEF Migration!ConstantsOK

LEMMA LedgerInit == ASSUME Migration!ConstantsOK PROVE Migration!Init => LedgerInv
<1>. SUFFICES ASSUME Migration!Init PROVE LedgerInv
  OBVIOUS
<1>1. LedgerTyped /\ OnceEach
  BY DEF Migration!Init, LedgerTyped, OnceEach
<1>2. Migration!AppliedInOrder
  BY DEF Migration!ConstantsOK, Migration!Init, Migration!AppliedInOrder
<1>3. OneHolder /\ \A r \in Runners : Tracked(r) /\ Transaction(r)
  BY DEF Migration!Init, OneHolder, Holds, Tracked, Transaction
<1>. QED BY <1>1, <1>2, <1>3 DEF LedgerInv

(* A runner that stops leaves nothing of its own behind. *)
LEMMA StopInv ==
  ASSUME LedgerInv, NEW r \in Runners, NEW how, Migration!Stop(r, how),
         UNCHANGED <<ledger, schema>>
  PROVE  LedgerInv'
<1>1. (LedgerTyped /\ OnceEach /\ Migration!AppliedInOrder)'
  BY DEF LedgerInv, LedgerTyped, OnceEach, Migration!AppliedInOrder, Migration!Stop
<1>2. \A o \in Runners : o # r => known'[o] = known[o] /\ tx'[o] = tx[o] /\ files'[o] = files[o]
  BY DEF LedgerInv, LedgerTyped, Migration!Stop
<1>3. known'[r] = None /\ tx'[r] = None
  BY DEF LedgerInv, LedgerTyped, Migration!Stop
<1>4. OneHolder'
  BY <1>2, <1>3 DEF LedgerInv, OneHolder, Holds
<1>5. \A o \in Runners : Tracked(o)' /\ Transaction(o)'
  BY <1>2, <1>3 DEF LedgerInv, Tracked, Transaction
<1>. QED BY <1>1, <1>4, <1>5 DEF LedgerInv

LEMMA StartInv ==
  ASSUME Migration!ConstantsOK, LedgerInv, NEW r \in Runners, NEW release \in Releases,
         Migration!Start(r, release)
  PROVE  LedgerInv'
<1>1. (LedgerTyped /\ OnceEach /\ Migration!AppliedInOrder)'
  BY DEF LedgerInv, LedgerTyped, OnceEach, Migration!AppliedInOrder, Migration!Start
<1>2. \A o \in Runners : o # r => files'[o] = files[o]
  BY DEF LedgerInv, LedgerTyped, Migration!Start
<1>3. known[r] = None /\ tx[r] = None
  BY DEF Migration!ConstantsOK, LedgerInv, Tracked, Transaction, Migration!Start
<1>4. OneHolder'
  BY DEF LedgerInv, OneHolder, Holds, Migration!Start
<1>5. \A o \in Runners : Tracked(o)' /\ Transaction(o)'
  BY <1>2, <1>3 DEF LedgerInv, Tracked, Transaction, Migration!Start
<1>. QED BY <1>1, <1>4, <1>5 DEF LedgerInv

LEMMA ReadInv ==
  ASSUME LedgerInv, NEW r \in Runners, Migration!ReadLedger(r)
  PROVE  LedgerInv'
<1>1. (LedgerTyped /\ OnceEach /\ Migration!AppliedInOrder)'
  BY DEF LedgerInv, LedgerTyped, OnceEach, Migration!AppliedInOrder, Migration!ReadLedger
<1>2. \A o \in Runners : known'[o] = IF o = r THEN ledger ELSE known[o]
  BY DEF LedgerInv, LedgerTyped, Migration!ReadLedger
<1>3. tx[r] = None /\ files[r] \in Releases
  BY DEF LedgerInv, LedgerTyped, Transaction, Migration!ReadLedger
<1>4. OneHolder'
  BY DEF LedgerInv, OneHolder, Holds, Migration!ReadLedger
<1>5. \A o \in Runners : Tracked(o)' /\ Transaction(o)'
  BY <1>2, <1>3 DEF LedgerInv, Tracked, Transaction, Migration!ReadLedger
<1>. QED BY <1>1, <1>4, <1>5 DEF LedgerInv

LEMMA BeginInv ==
  ASSUME Migration!ConstantsOK, LedgerInv, NEW r \in Runners,
         NEW f \in Migration!AllFiles, Migration!Begin(r, f)
  PROVE  LedgerInv'
<1>1. (LedgerTyped /\ OnceEach /\ Migration!AppliedInOrder)'
  BY DEF LedgerInv, LedgerTyped, OnceEach, Migration!AppliedInOrder, Migration!Begin
<1>2. \A o \in Runners : tx'[o] = IF o = r THEN [file |-> f, step |-> "statements"] ELSE tx[o]
  BY DEF LedgerInv, LedgerTyped, Migration!Begin
<1>3. OneHolder'
  BY <1>2 DEF LedgerInv, OneHolder, Holds
<1>4. \A o \in Runners : Tracked(o)'
  BY DEF LedgerInv, Tracked, Migration!Begin
<1>5. files[r] \in Releases /\ known[r] # None
  BY DEF LedgerInv, Tracked, Migration!Begin
<1>6. f \in files[r] /\ \A g \in files[r] : g < f => g \in known[r]
  <2>1. ASSUME NEW g \in files[r], g < f, g \notin known[r] PROVE FALSE
    <3>1. f <= g
      BY <2>1 DEF Migration!Begin, Migration!InOrder, Migration!Pending
    <3>2. f \in Int /\ g \in Int
      BY <1>5, <2>1 DEF Migration!ConstantsOK, Migration!Begin, Migration!InOrder,
                        Migration!Pending
    <3>. QED BY <2>1, <3>1, <3>2
  <2>. QED BY <2>1 DEF Migration!Begin, Migration!InOrder, Migration!Pending
<1>7. ASSUME NEW o \in Runners PROVE Transaction(o)'
  <2>1. CASE o = r
    BY <1>2, <1>5, <1>6, <2>1 DEF Transaction, Migration!Begin
  <2>2. CASE o # r
    BY <1>2, <2>2 DEF LedgerInv, Transaction, Migration!Begin
  <2>. QED BY <2>1, <2>2
<1>. QED BY <1>1, <1>3, <1>4, <1>7 DEF LedgerInv

(* The ledger's key: no row of the file is committed, and no other          *)
(* transaction holds one.                                                   *)
LEMMA RecordInv ==
  ASSUME LedgerInv, NEW r \in Runners, Migration!Record(r)
  PROVE  LedgerInv'
<1>1. (LedgerTyped /\ OnceEach /\ Migration!AppliedInOrder)'
  BY DEF LedgerInv, LedgerTyped, OnceEach, Migration!AppliedInOrder, Migration!Record
<1>2. /\ tx[r] \in [file : files[r], step : {"statements", "recorded"}]
      /\ tx[r].file \notin ledger
  BY DEF LedgerInv, Transaction, Migration!Record
<1>3. \A o \in Runners :
        tx'[o] = IF o = r THEN [file |-> tx[r].file, step |-> "recorded"] ELSE tx[o]
  BY <1>2 DEF LedgerInv, LedgerTyped, Migration!Record
<1>4. OneHolder'
  BY <1>3 DEF LedgerInv, OneHolder, Holds, Migration!Record
<1>5. \A o \in Runners : Tracked(o)'
  BY DEF LedgerInv, Tracked, Migration!Record
<1>6. ASSUME NEW o \in Runners PROVE Transaction(o)'
  <2>1. CASE o = r
    BY <1>2, <1>3, <2>1 DEF LedgerInv, Transaction, Migration!Record
  <2>2. CASE o # r
    BY <1>3, <2>2 DEF LedgerInv, Transaction, Migration!Record
  <2>. QED BY <2>1, <2>2
<1>. QED BY <1>1, <1>4, <1>5, <1>6 DEF LedgerInv

LEMMA CommitInv ==
  ASSUME Migration!ConstantsOK, LedgerInv, NEW r \in Runners, Migration!Commit(r)
  PROVE  LedgerInv'
<1>. DEFINE f == tx[r].file
<1>1. /\ files[r] \in Releases /\ known[r] \subseteq ledger
      /\ f \in files[r] /\ f \notin ledger /\ f \in Migration!AllFiles
      /\ \A g \in files[r] : g < f => g \in known[r]
  BY DEF LedgerInv, Tracked, Transaction, Migration!Commit, Migration!AllFiles
<1>2. /\ ledger' = ledger \cup {f}
      /\ \A o \in Runners : /\ known'[o] = IF o = r THEN known[r] \cup {f} ELSE known[o]
                            /\ tx'[o] = IF o = r THEN None ELSE tx[o]
      /\ \A g \in Migration!AllFiles : schema'[g] = IF g = f THEN schema[f] + 1 ELSE schema[g]
      /\ files' = files
  BY <1>1 DEF LedgerInv, LedgerTyped, Migration!Commit
<1>3. LedgerTyped'
  BY <1>1 DEF LedgerInv, LedgerTyped, Migration!Commit
<1>4. OnceEach'
  BY <1>1, <1>2 DEF LedgerInv, OnceEach
<1>5. Migration!AppliedInOrder'
  <2>. HIDE DEF f
  <2>. QED BY <1>1, <1>2, NextInOrder DEF LedgerInv
<1>6. OneHolder'
  BY <1>2 DEF LedgerInv, OneHolder, Holds
<1>7. ASSUME NEW o \in Runners PROVE Tracked(o)'
  BY <1>1, <1>2 DEF LedgerInv, Tracked
<1>8. ASSUME NEW o \in Runners PROVE Transaction(o)'
  <2>1. CASE o = r
    BY <1>2, <2>1 DEF Transaction
  <2>2. CASE o # r
    <3>1. tx[o] # None /\ tx[o].step = "recorded" => tx[o].file # f
      BY <1>1, <2>2 DEF LedgerInv, OneHolder, Holds, Migration!Commit
    <3>. QED BY <1>2, <2>2, <3>1 DEF LedgerInv, Transaction
  <2>. QED BY <2>1, <2>2
<1>. QED BY <1>3, <1>4, <1>5, <1>6, <1>7, <1>8 DEF LedgerInv

LEMMA LedgerNext ==
  ASSUME Migration!ConstantsOK
  PROVE LedgerInv /\ [Migration!Next]_(Migration!vars) => LedgerInv'
<1>. SUFFICES ASSUME LedgerInv, [Migration!Next]_(Migration!vars) PROVE LedgerInv'
  OBVIOUS
<1>1. ASSUME NEW r \in Runners, NEW release \in Releases, Migration!Start(r, release)
      PROVE LedgerInv'
  BY <1>1, StartInv
<1>2. ASSUME NEW r \in Runners, Migration!EnsureLedger(r) PROVE LedgerInv'
  BY <1>2 DEF Migration!EnsureLedger, LedgerInv, LedgerTyped, OnceEach,
              Migration!AppliedInOrder, OneHolder, Holds, Tracked, Transaction
<1>3. ASSUME NEW r \in Runners, Migration!ReadLedger(r) PROVE LedgerInv'
  BY <1>3, ReadInv
<1>4. ASSUME NEW r \in Runners, NEW f \in Migration!AllFiles, Migration!Begin(r, f)
      PROVE LedgerInv'
  BY <1>4, BeginInv
<1>5. ASSUME NEW r \in Runners, Migration!Record(r) PROVE LedgerInv'
  BY <1>5, RecordInv
<1>6. ASSUME NEW r \in Runners, Migration!Collide(r) \/ Migration!Die(r) PROVE LedgerInv'
  BY <1>6, StopInv DEF Migration!Collide, Migration!Die
<1>7. ASSUME NEW r \in Runners, Migration!Commit(r) PROVE LedgerInv'
  BY <1>7, CommitInv
<1>8. ASSUME NEW r \in Runners, Migration!Finish(r) PROVE LedgerInv'
  BY <1>8, StopInv DEF Migration!Finish
<1>9. CASE UNCHANGED Migration!vars
  BY <1>9 DEF Migration!vars, LedgerInv, LedgerTyped, OnceEach, Migration!AppliedInOrder,
              OneHolder, Holds, Tracked, Transaction
<1>. QED BY <1>1, <1>2, <1>3, <1>4, <1>5, <1>6, <1>7, <1>8, <1>9 DEF Migration!Next

(* Whatever runners overlap, of whatever releases, and wherever they die,   *)
(* the ledger names exactly the files applied, each once, and they are a    *)
(* prefix of the newest release's order (migrate.ts).                       *)
THEOREM MigrationsExactlyOnce == SpecAll => []ExactlyOnce
<1>1. LedgerInv => ExactlyOnce
  BY DEF LedgerInv, ExactlyOnce, Migration!ExactlyOnce, OnceEach, Tracked
<1>2. InitAll => LedgerInv
  BY LedgerInit, ConstantsAssumption DEF InitAll
<1>3. LedgerInv /\ [NextAll]_allVars => LedgerInv'
  BY LedgerNext, ConstantsAssumption DEF NextAll, OnNight, OnTile, OnMigrate, OnBilling, allVars,
                                         ledgerVars, Migration!vars
<1>. QED BY <1>1, <1>2, <1>3, PTL DEF SpecAll
=============================================================================
