---------------------------- MODULE KeysetIngest ----------------------------
(***************************************************************************)
(* One keyset source of the nightly worker (packages/ingestion): the pages *)
(* of the city's table, the join-rate gate, the promote transaction, the   *)
(* run ledger, and the resumable cursor, together with the streaming       *)
(* backfill that shares the cursor.                                        *)
(*                                                                         *)
(* A row of the city's table is its cursor value (cartodb_id), a positive  *)
(* number; 0 stands for the cursor's SQL null ("from the beginning").      *)
(* Several rows may carry one conflict key; the canonical table keeps one  *)
(* row a key.  Every worker is a workflow with a concurrency group of its  *)
(* own (nightly.yml, weekly.yml): it never overlaps itself, it may overlap *)
(* the others, a backfill, and the city's appends.                         *)
(***************************************************************************)
EXTENDS Integers, FiniteSets

CONSTANTS
  Workers,      \* workflows that run runWorker
  Backfills,    \* streaming backfills (scripts/backfill-rtt.ts)
  MaxId,        \* rows are 1 .. MaxId                             (bound)
  Keys,         \* conflict keys of the canonical table
  RowKey,       \* row -> the conflict key mapRow gives it
  Usable,       \* rows mapRow does not reject
  Malformed,    \* rows with no candidate key column that normalises
  JoinViews,    \* the sets of rows that may join the parcel index
  Spatial,      \* the source is exempt from the join gate
  PageSize,     \* rows a page
  MaxPages,     \* worker -> its page budget
  CommitEvery,  \* pages a backfill upserts between two cursor writes
  ChunkSize,    \* rows of one upsert statement
  RateNum, RateDen, \* expectedJoinRate, as a fraction
  Overlap,      \* processes may run at the same time
  LateRows,     \* rows that may become visible below rows already visible
  MaxFaults,    \* failures and crashes of a behaviour             (bound)
  CountCap      \* row counts saturate here                        (bound)

Procs == Workers \cup Backfills
Ids   == 1 .. MaxId

ASSUME ProcsAssumption == Workers \cap Backfills = {}
ASSUME IdsAssumption ==
  /\ MaxId \in Nat
  /\ RowKey \in [Ids -> Keys]
  /\ Usable \subseteq Ids /\ Malformed \subseteq Ids /\ LateRows \subseteq Ids
  /\ JoinViews \subseteq SUBSET Ids
ASSUME BudgetAssumption ==
  /\ {PageSize, CommitEvery, ChunkSize, RateDen} \subseteq Nat \ {0}
  /\ RateNum \in Nat /\ MaxFaults \in Nat /\ CountCap \in Nat
  /\ MaxPages \in [Workers -> Nat \ {0}]
  /\ {Spatial, Overlap} \subseteq BOOLEAN

VARIABLES
  source,     \* rows of the city's table that are visible
  cursor,     \* ops.source_cursor.last_cartodb_id
  committed,  \* ops.source_cursor.rows_committed
  table,      \* conflict key -> the row whose values it holds, 0 if absent
  audited,    \* rows recorded in the key quarantine
  pc,         \* where each process is
  pos,        \* its in-memory keyset position
  batch,      \* rows it has fetched and not yet written
  pages,      \* pages since it started (backfill: since its last persist)
  more,       \* backfill: the last page was full
  tally,      \* its in-memory row count
  outcome,    \* the status it is going to close its run with
  run,        \* status of its newest ops.ingest_run row
  faults      \* failures and crashes so far

cursorRow == <<cursor, committed>>
local     == <<pos, batch, pages, more, tally, outcome>>
vars      == <<source, cursorRow, table, audited, pc, local, run, faults>>

RunStatus == {"none", "running", "success", "partial", "failed"}
WorkerPC  == {"idle", "read", "page", "staged", "promote", "diff", "close",
              "recount", "persist"}
BackfillPC == {"idle", "read", "page", "upsert", "commit", "final", "close"}

TypeOK ==
  /\ source \subseteq Ids
  /\ cursor \in 0 .. MaxId /\ committed \in Nat
  /\ table \in [Keys -> 0 .. MaxId]
  /\ audited \subseteq Ids
  /\ pc \in [Procs -> WorkerPC \cup BackfillPC]
  /\ pos \in [Procs -> 0 .. MaxId]
  /\ batch \in [Procs -> SUBSET Ids]
  /\ pages \in [Procs -> Nat]
  /\ more \in [Procs -> BOOLEAN]
  /\ tally \in [Procs -> Nat]
  /\ outcome \in [Procs -> RunStatus]
  /\ run \in [Procs -> RunStatus]
  /\ faults \in 0 .. MaxFaults

Init ==
  /\ source = {} /\ cursor = 0 /\ committed = 0
  /\ table = [k \in Keys |-> 0]
  /\ audited = {}
  /\ pc = [p \in Procs |-> "idle"]
  /\ pos = [p \in Procs |-> 0]
  /\ batch = [p \in Procs |-> {}]
  /\ pages = [p \in Procs |-> 0]
  /\ more = [p \in Procs |-> FALSE]
  /\ tally = [p \in Procs |-> 0]
  /\ outcome = [p \in Procs |-> "none"]
  /\ run = [p \in Procs |-> "none"]
  /\ faults = 0

-----------------------------------------------------------------------------
(* Helpers. *)

IsHighest(m, S) == m \in S /\ \A r \in S : r <= m
Highest(S) == CHOOSE m \in S : IsHighest(m, S)

(* Slip: the page is taken from the wrong end (ORDER BY id DESC). *)
PageNewestFirst(after) ==
  {r \in source : /\ r > after
                  /\ Cardinality({q \in source : r < q}) < PageSize}

(* SELECT ... WHERE id > after ORDER BY id LIMIT PageSize *)
Page(after) ==
  {r \in source : /\ r > after
                  /\ Cardinality({q \in source : after < q /\ q < r}) < PageSize}
FullPage(P) == Cardinality(P) >= PageSize

(* Slip: the next page starts after highest + 1. *)
AdvancePastPage(after, P) == IF P = {} THEN after ELSE Highest(P) + 1

(* The keyset position after a page: its highest id, or unchanged. *)
Advance(after, P) == IF P = {} THEN after ELSE Highest(P)

(* Slip: of the rows of one key the first one wins. *)
MappedFirstWins(S) ==
  {r \in S \cap Usable : \A q \in S \cap Usable : RowKey[q] = RowKey[r] => r <= q}

(* The rows of S that write a key: mapRow keeps them, and of the rows of   *)
(* one key the last one wins.                                              *)
Mapped(S) ==
  {r \in S \cap Usable : \A q \in S \cap Usable : RowKey[q] = RowKey[r] => q <= r}

(* INSERT ... ON CONFLICT DO UPDATE of rows with distinct keys. *)
Upserted(t, W) ==
  [k \in Keys |-> IF \E r \in W : RowKey[r] = k
                  THEN CHOOSE r \in W : RowKey[r] = k ELSE t[k]]

(* The rows a chunked statement writes next: the first ChunkSize of W. *)
FirstChunk(W) == {r \in W : Cardinality({q \in W : q < r}) < ChunkSize}

(* The gate: the best key column's join rate against expectedJoinRate. *)
GatePasses(B, view) ==
  \/ Spatial
  \/ Cardinality(B \cap view) * RateDen >= RateNum * Cardinality(B)

(* Row counts, saturating at the bound. *)
Counted(n) == IF n > CountCap THEN CountCap ELSE n

Goto(p, label) == pc' = [pc EXCEPT ![p] = label]

-----------------------------------------------------------------------------
(* The city.  A row becomes visible above every visible row, unless it is  *)
(* one of the LateRows (an id handed out earlier and committed later).     *)

Publish(r) ==
  /\ r \in Ids \ source
  /\ r \in LateRows \/ \A q \in source : q < r
  /\ source' = source \cup {r}
  /\ UNCHANGED <<cursorRow, table, audited, pc, local, run, faults>>

-----------------------------------------------------------------------------
(* runWorker on the source. *)

(* openIngestRun.  Nothing in the code keeps two processes apart: where    *)
(* Overlap is FALSE it is the schedule that does.                          *)
Open(p) ==
  /\ pc[p] = "idle"
  /\ Overlap \/ \A q \in Procs : pc[q] = "idle"
  /\ run' = [run EXCEPT ![p] = "running"]
  /\ Goto(p, "read")
  /\ UNCHANGED <<source, cursorRow, table, audited, local, faults>>

(* Slip: a run starts from the beginning again. *)
ReadCursorFromZero(p) ==
  /\ pc[p] = "read"
  /\ pos' = [pos EXCEPT ![p] = 0]
  /\ batch' = [batch EXCEPT ![p] = {}]
  /\ pages' = [pages EXCEPT ![p] = 0]
  /\ tally' = [tally EXCEPT ![p] = 0]
  /\ Goto(p, "page")
  /\ UNCHANGED <<source, cursorRow, table, audited, more, outcome, run, faults>>

(* The fetcher (and the backfill) start from the persisted cursor. *)
ReadCursor(p) ==
  /\ pc[p] = "read"
  /\ pos' = [pos EXCEPT ![p] = cursor]
  /\ batch' = [batch EXCEPT ![p] = {}]
  /\ pages' = [pages EXCEPT ![p] = 0]
  /\ more' = [more EXCEPT ![p] = FALSE]
  /\ tally' = [tally EXCEPT ![p] = IF p \in Backfills THEN committed ELSE 0]
  /\ Goto(p, "page")
  /\ UNCHANGED <<source, cursorRow, table, audited, outcome, run, faults>>

(* One page of the fetch; a short page or the page budget ends it. *)
FetchPage(w) ==
  /\ w \in Workers /\ pc[w] = "page"
  /\ LET P == Page(pos[w]) IN
       /\ batch' = [batch EXCEPT ![w] = @ \cup P]
       /\ pos' = [pos EXCEPT ![w] = Advance(@, P)]
       /\ pages' = [pages EXCEPT ![w] = @ + 1]
       /\ Goto(w, IF FullPage(P) /\ pages[w] + 1 < MaxPages[w]
                  THEN "page" ELSE "staged")
  /\ UNCHANGED <<source, cursorRow, table, audited, more, tally, outcome, run, faults>>

(* Zero rows: a clean success, not a failed gate. *)
EmptyBatch(w) ==
  /\ w \in Workers /\ pc[w] = "staged" /\ batch[w] = {}
  /\ outcome' = [outcome EXCEPT ![w] = "success"]
  /\ Goto(w, "close")
  /\ UNCHANGED <<source, cursorRow, table, audited, pos, batch, pages, more,
                 tally, run, faults>>

Audit(B) == audited' = IF Spatial THEN audited ELSE audited \cup (B \cap Malformed)

(* Slip: malformed keys are audited only when the gate fails. *)
ValidateUnaudited(w) ==
  /\ w \in Workers /\ pc[w] = "staged" /\ batch[w] # {}
  /\ \E view \in JoinViews : GatePasses(batch[w], view)
  /\ Goto(w, "promote")
  /\ UNCHANGED <<source, cursorRow, table, audited, local, run, faults>>

(* The gate passes: malformed keys are audited, the batch goes on. *)
Validate(w) ==
  /\ w \in Workers /\ pc[w] = "staged" /\ batch[w] # {}
  /\ \E view \in JoinViews : GatePasses(batch[w], view)
  /\ Audit(batch[w])
  /\ Goto(w, "promote")
  /\ UNCHANGED <<source, cursorRow, table, local, run, faults>>

(* Slip: a quarantined batch is reported like an empty one. *)
QuarantineAsSuccess(w) ==
  /\ w \in Workers /\ pc[w] = "staged" /\ batch[w] # {}
  /\ \E view \in JoinViews : ~ GatePasses(batch[w], view)
  /\ Audit(batch[w])
  /\ outcome' = [outcome EXCEPT ![w] = "success"]
  /\ Goto(w, "close")
  /\ UNCHANGED <<source, cursorRow, table, pos, batch, pages, more, tally, run, faults>>

(* The gate fails: audited all the same, closed as partial, not promoted. *)
Quarantine(w) ==
  /\ w \in Workers /\ pc[w] = "staged" /\ batch[w] # {}
  /\ \E view \in JoinViews : ~ GatePasses(batch[w], view)
  /\ Audit(batch[w])
  /\ outcome' = [outcome EXCEPT ![w] = "partial"]
  /\ Goto(w, "close")
  /\ UNCHANGED <<source, cursorRow, table, pos, batch, pages, more, tally, run, faults>>

(* The whole batch in one transaction. *)
Promote(w) ==
  /\ w \in Workers /\ pc[w] = "promote"
  /\ table' = Upserted(table, Mapped(batch[w]))
  /\ tally' = [tally EXCEPT ![w] = Counted(Cardinality(Mapped(batch[w])))]
  /\ batch' = [batch EXCEPT ![w] = {}]
  /\ Goto(w, "diff")
  /\ UNCHANGED <<source, cursorRow, audited, pos, pages, more, outcome, run, faults>>

(* The history diff, the refresh hook and the tile hook, after the commit. *)
Diff(w) ==
  /\ w \in Workers /\ pc[w] = "diff"
  /\ outcome' = [outcome EXCEPT ![w] = "success"]
  /\ Goto(w, "close")
  /\ UNCHANGED <<source, cursorRow, table, audited, pos, batch, pages, more,
                 tally, run, faults>>

(* Slip: the run is closed and the cursor never written. *)
CloseRunOnly(w) ==
  /\ w \in Workers /\ pc[w] = "close"
  /\ run' = [run EXCEPT ![w] = outcome[w]]
  /\ Goto(w, "idle")
  /\ UNCHANGED <<source, cursorRow, table, audited, local, faults>>

(* closeIngestRun precedes the cursor write; only a success with a         *)
(* non-null high-water goes on to it.                                      *)
CloseRun(w) ==
  /\ w \in Workers /\ pc[w] = "close"
  /\ run' = [run EXCEPT ![w] = outcome[w]]
  /\ Goto(w, IF outcome[w] = "success" /\ pos[w] # 0 THEN "recount" ELSE "idle")
  /\ UNCHANGED <<source, cursorRow, table, audited, local, faults>>

(* rows_committed is read back, then written with the cursor. *)
Recount(w) ==
  /\ w \in Workers /\ pc[w] = "recount"
  /\ tally' = [tally EXCEPT ![w] = Counted(committed + @)]
  /\ Goto(w, "persist")
  /\ UNCHANGED <<source, cursorRow, table, audited, pos, batch, pages, more,
                 outcome, run, faults>>

Persist(w) ==
  /\ w \in Workers /\ pc[w] = "persist"
  /\ cursor' = pos[w] /\ committed' = tally[w]
  /\ Goto(w, "idle")
  /\ UNCHANGED <<source, table, audited, local, run, faults>>

-----------------------------------------------------------------------------
(* backfillSource: page, upsert, advance; no gate, no transaction. *)

FetchBackfillPage(b) ==
  /\ b \in Backfills /\ pc[b] = "page"
  /\ LET P == Page(pos[b]) IN
       /\ batch' = [batch EXCEPT ![b] = Mapped(P)]
       /\ pos' = [pos EXCEPT ![b] = Advance(@, P)]
       /\ more' = [more EXCEPT ![b] = FullPage(P)]
       /\ outcome' = [outcome EXCEPT ![b] = "success"]
       /\ Goto(b, IF P = {} THEN "final" ELSE "upsert")
  /\ UNCHANGED <<source, cursorRow, table, audited, pages, tally, run, faults>>

(* One autocommitted statement of the page. *)
UpsertChunk(b) ==
  /\ b \in Backfills /\ pc[b] = "upsert" /\ batch[b] # {}
  /\ LET W == FirstChunk(batch[b]) IN
       /\ table' = Upserted(table, W)
       /\ batch' = [batch EXCEPT ![b] = @ \ W]
       /\ tally' = [tally EXCEPT ![b] = Counted(@ + Cardinality(W))]
  /\ UNCHANGED <<source, cursorRow, audited, pc, pos, pages, more, outcome, run, faults>>

(* After a page: the wall-clock budget may end the loop, a short page does. *)
NextRound(b) ==
  \/ more[b] /\ Goto(b, "page") /\ UNCHANGED outcome
  \/ ~ more[b] /\ Goto(b, "final") /\ UNCHANGED outcome
  \/ Goto(b, "final") /\ outcome' = [outcome EXCEPT ![b] = "partial"]

PageDone(b) ==
  /\ b \in Backfills /\ pc[b] = "upsert" /\ batch[b] = {}
  /\ pages' = [pages EXCEPT ![b] = @ + 1]
  /\ IF pages[b] + 1 >= CommitEvery
     THEN Goto(b, "commit") /\ UNCHANGED outcome
     ELSE NextRound(b)
  /\ UNCHANGED <<source, cursorRow, table, audited, pos, batch, more, tally, run, faults>>

CommitCursor(b) ==
  /\ b \in Backfills /\ pc[b] = "commit"
  /\ cursor' = pos[b] /\ committed' = tally[b]
  /\ pages' = [pages EXCEPT ![b] = 0]
  /\ NextRound(b)
  /\ UNCHANGED <<source, table, audited, pos, batch, more, tally, run, faults>>

FinalPersist(b) ==
  /\ b \in Backfills /\ pc[b] = "final"
  /\ cursor' = pos[b] /\ committed' = tally[b]
  /\ Goto(b, "close")
  /\ UNCHANGED <<source, table, audited, local, run, faults>>

CloseBackfill(b) ==
  /\ b \in Backfills /\ pc[b] = "close"
  /\ run' = [run EXCEPT ![b] = outcome[b]]
  /\ Goto(b, "idle")
  /\ UNCHANGED <<source, cursorRow, table, audited, local, faults>>

-----------------------------------------------------------------------------
(* Failures.  Any await may throw: the per-source catch closes the run as  *)
(* failed, even one already closed as a success, and what was written      *)
(* stays.  Or the process dies (the job's time limit), its row untouched.  *)

Fail(p) ==
  /\ pc[p] # "idle" /\ faults < MaxFaults
  /\ run' = [run EXCEPT ![p] = "failed"]
  /\ faults' = faults + 1
  /\ Goto(p, "idle")
  /\ UNCHANGED <<source, cursorRow, table, audited, local>>

Crash(p) ==
  /\ pc[p] # "idle" /\ faults < MaxFaults
  /\ faults' = faults + 1
  /\ Goto(p, "idle")
  /\ UNCHANGED <<source, cursorRow, table, audited, local, run>>

WorkerStep(w) ==
  \/ FetchPage(w) \/ EmptyBatch(w) \/ Validate(w) \/ Quarantine(w)
  \/ Promote(w) \/ Diff(w) \/ CloseRun(w) \/ Recount(w) \/ Persist(w)

BackfillStep(b) ==
  \/ FetchBackfillPage(b) \/ UpsertChunk(b) \/ PageDone(b)
  \/ CommitCursor(b) \/ FinalPersist(b) \/ CloseBackfill(b)

Step(p) == Open(p) \/ ReadCursor(p) \/ WorkerStep(p) \/ BackfillStep(p)

Next ==
  \/ \E r \in Ids : Publish(r)
  \/ \E p \in Procs : Step(p) \/ Fail(p) \/ Crash(p)

Spec == Init /\ [][Next]_vars

(* The workflows are scheduled every day and every await settles: it has a *)
(* time limit (statement_timeout, the source budget, the job's limit).     *)
FairSpec == Spec /\ \A p \in Procs : WF_vars(Step(p))

-----------------------------------------------------------------------------
(* Properties *)

Present(r) == table[RowKey[r]] # 0

(* Resuming from the cursor skips nothing: every usable row at or below    *)
(* the persisted cursor has its key in the canonical table, however        *)
(* workers, backfills, failures and crashes interleave (nightly.yml: "a    *)
(* run that dies mid-way resumes from ops.source_cursor").                 *)
CursorSound == \A r \in source \cap Usable : r <= cursor => Present(r)

(* Without overlap the table is never stale below the cursor: each key     *)
(* holds a row at least as new as the newest one the cursor has passed     *)
(* (upsertMapped's last-wins, across retries of a batch after a crash).    *)
FreshBelowCursor ==
  \A r \in source \cap Usable : r <= cursor => table[RowKey[r]] >= r

(* Without overlap the books are true: rows_committed counts what the       *)
(* cursor has passed, no row twice, however often its batch is fetched     *)
(* again after a failure between its promote and its cursor write, and     *)
(* every key at least once; and what the run ledger calls a success is in  *)
(* the table up to the batch's high-water mark, whatever the cursor did.   *)
BooksAreTrue ==
  LET Passed == {r \in source \cap Usable : r <= cursor} IN
  /\ committed <= Cardinality(Passed)
  /\ committed >= Cardinality({RowKey[r] : r \in Passed})
  /\ \A w \in Workers : run[w] = "success" =>
       \A r \in source \cap Usable : r <= pos[w] => Present(r)

(* A worker audits before it promotes: where no backfill (which audits     *)
(* nothing) has moved the cursor, no row with an unusable parcel key is    *)
(* behind it without a quarantine record (pipeline.ts step 1: "persist     *)
(* quarantine (audit) regardless of decision").                            *)
MalformedAudited ==
  ~ Spatial => \A r \in source \cap Malformed : r <= cursor => r \in audited

(* Without overlap the cursor only moves forward. *)
CursorNeverRegresses == [][cursor' >= cursor]_vars

(* nightly.yml: after an outage "cursor-resume drains the backlog across   *)
(* successive nights".  The city's table is finite here, so the cursor     *)
(* ends above every row and stays there: overlapping workers may move it   *)
(* back, never for ever.                                                   *)
BacklogDrains == <>[](\A r \in source : cursor >= r)

(* Why CursorSound holds, as an inductive invariant: visible rows bound    *)
(* every position, so later rows lie above them all; a process that has    *)
(* read the cursor accounts for every usable row up to its position, in    *)
(* the table or in its batch; the batch is empty whenever the position may *)
(* be written to the cursor or the run called a success.                   *)
Bounded(n) == n = 0 \/ \E q \in source : n <= q
Pending(p, r) == \E q \in batch[p] \cap Usable : RowKey[q] = RowKey[r]
Accounted(p) ==
  pc[p] \notin {"idle", "read"} =>
    \A r \in source \cap Usable : r <= pos[p] => Present(r) \/ Pending(p, r)
Written(p) ==
  \/ pc[p] \in {"diff", "recount", "persist", "commit", "final"}
  \/ pc[p] = "close" /\ outcome[p] = "success"
  \/ pc[p] = "page" /\ p \in Backfills
CopyInv ==
  /\ Bounded(cursor)
  /\ CursorSound
  /\ \A p \in Procs :
       /\ Bounded(pos[p])
       /\ batch[p] \subseteq source
       /\ p \in Backfills => batch[p] \subseteq Usable
       /\ Accounted(p)
       /\ Written(p) => batch[p] = {}

(* The contract workers and backfills implement together: rows appear, are *)
(* copied, and the cursor is only ever set to a completely copied prefix.  *)
Copy == INSTANCE ResumableCopy WITH present <- {k \in Keys : table[k] # 0}
CopySpec == Copy!Spec

=============================================================================
