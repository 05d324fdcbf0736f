----------------------------- MODULE SpineIngest -----------------------------
(***************************************************************************)
(* The bulk-snapshot spine (OPA -> public.parcel): the freshness gate on   *)
(* the object's Last-Modified, the row-count band, the chunked promote     *)
(* outside any transaction, the soft-retire of missing accounts, the       *)
(* baseline-aware change log, and the watermark written last.              *)
(*                                                                         *)
(* The city publishes versions 1 .. MaxVersion of the object, in order; a  *)
(* version is its Last-Modified.  A parcel's canonical row is the version  *)
(* it was last written from, 0 if it was never loaded; its tracked values  *)
(* are that version's.                                                     *)
(***************************************************************************)
EXTENDS Integers, Sequences, FiniteSets

CONSTANTS
  Runs,        \* workflows that run the nightly worker
  Parcels,
  Fields,      \* PARCEL_CHANGE_LOG_FIELDS
  MaxVersion,  \* versions the city publishes                      (bound)
  Content,     \* version -> [the parcels in it -> [Fields -> value]]
  Null,        \* SQL null: an empty field, an unknown Last-Modified
  LowRows, HighRows, \* the row-count band
  ChunkSize,   \* parcels of one statement
  HeadMayFail, \* the HEAD answer may carry no Last-Modified
  MaxFaults    \* failures and crashes of a behaviour               (bound)

Versions == 1 .. MaxVersion

ConstantsOK ==
  /\ MaxVersion \in Nat /\ Null \notin Int
  /\ IsFiniteSet(Parcels) /\ \A v \in Versions : DOMAIN Content[v] \subseteq Parcels
  /\ LowRows \in Nat \ {0} /\ {HighRows, MaxFaults} \subseteq Nat
  /\ ChunkSize \in Nat \ {0} /\ HeadMayFail \in BOOLEAN

VARIABLES
  object,     \* the version S3 serves, 0 before the first
  watermark,  \* ops.source_cursor.watermark: a version, or Null
  parcel,     \* parcel -> the version its row was written from
  active,     \* parcels with is_active = true
  log,        \* <<parcel, field>> -> sequence of [old, new]
  pc,         \* where each run is
  head,       \* the Last-Modified its HEAD saw
  batch,      \* the version its GET served, 0 for an empty batch
  todo,       \* parcels its current statements have still to write
  fields,     \* fields it has still to diff
  entries,    \* log entries its current statement is about to insert
  run,        \* status of its newest ops.ingest_run row
  faults

local == <<head, batch, todo, fields, entries>>
vars  == <<object, watermark, parcel, active, log, pc, local, run, faults>>

RunPC == {"idle", "head", "get", "promote", "retire_read", "retire", "diff",
          "insert", "watermark", "close"}

Series == Parcels \X Fields
Value(v, p, f) == Content[v][p][f]

TypeOK ==
  /\ object \in 0 .. MaxVersion
  /\ watermark \in Versions \cup {Null}
  /\ parcel \in [Parcels -> 0 .. MaxVersion]
  /\ active \subseteq Parcels
  /\ DOMAIN log = Series
  /\ pc \in [Runs -> RunPC]
  /\ head \in [Runs -> Versions \cup {Null}]
  /\ batch \in [Runs -> 0 .. MaxVersion]
  /\ todo \in [Runs -> SUBSET Parcels]
  /\ fields \in [Runs -> SUBSET Fields]
  /\ run \in [Runs -> {"none", "running", "success", "failed"}]
  /\ faults \in 0 .. MaxFaults

Init ==
  /\ object = 0 /\ watermark = Null
  /\ parcel = [p \in Parcels |-> 0] /\ active = {}
  /\ log = [s \in Series |-> <<>>]
  /\ pc = [r \in Runs |-> "idle"]
  /\ head = [r \in Runs |-> Null] /\ batch = [r \in Runs |-> 0]
  /\ todo = [r \in Runs |-> {}] /\ fields = [r \in Runs |-> {}]
  /\ entries = [r \in Runs |-> {}]
  /\ run = [r \in Runs |-> "none"]
  /\ faults = 0

-----------------------------------------------------------------------------
Goto(r, label) == pc' = [pc EXCEPT ![r] = label]
Table == <<parcel, active>>

(* evaluateOpaFreshness, as the fetcher uses it: only an object that is    *)
(* known not to be newer is skipped; an unknown Last-Modified is fetched.  *)
NotNewer(h, w) == h # Null /\ w # Null /\ h <= w

InBand(n) == LowRows <= n /\ n <= HighRows

(* The rows one chunked statement writes: any ChunkSize of those left (the *)
(* file's order is not the parcels' order).                                *)
Chunks(S) == {C \in SUBSET S : /\ C # {}
                               /\ Cardinality(C) <= ChunkSize
                               /\ Cardinality(C) = ChunkSize \/ C = S}

(* computeSoftRetire. *)
SoftRetire(canonical, loaded) == canonical \ loaded

Latest(s) == IF log[s] = <<>> THEN Null ELSE log[s][Len(log[s])].new

(* The rows buildFieldChangeLogSql selects for one field, as of now: active*)
(* parcels whose value is not null and differs from the latest one logged. *)
FieldDiff(f) ==
  {[parcel |-> p, field |-> f, old |-> Latest(<<p, f>>), new |-> Value(parcel[p], p, f)] :
     p \in {q \in active : /\ Value(parcel[q], q, f) # Null
                           /\ Value(parcel[q], q, f) # Latest(<<q, f>>)}}

-----------------------------------------------------------------------------
(* The city replaces the object. *)
Publish ==
  /\ object < MaxVersion
  /\ object' = object + 1
  /\ UNCHANGED <<watermark, Table, log, pc, local, run, faults>>

Open(r) ==
  /\ pc[r] = "idle" /\ object > 0
  /\ run' = [run EXCEPT ![r] = "running"]
  /\ Goto(r, "head")
  /\ UNCHANGED <<object, watermark, Table, log, local, faults>>

(* The stored watermark is read and the object's HEAD taken; an object that*)
(* is not newer yields an empty batch, which closes the run as a success.  *)
FetchHead(r) ==
  /\ pc[r] = "head"
  /\ \E h \in {object} \cup (IF HeadMayFail THEN {Null} ELSE {}) :
       /\ head' = [head EXCEPT ![r] = h]
       /\ Goto(r, IF NotNewer(h, watermark) THEN "close" ELSE "get")
  /\ batch' = [batch EXCEPT ![r] = 0]
  /\ UNCHANGED <<object, watermark, Table, log, todo, fields, entries, run, faults>>

(* The body is the object served now, which may be newer than the HEAD's.  *)
Get(r) ==
  /\ pc[r] = "get"
  /\ InBand(Cardinality(DOMAIN Content[object]))
  /\ batch' = [batch EXCEPT ![r] = object]
  /\ todo' = [todo EXCEPT ![r] = DOMAIN Content[object]]
  /\ fields' = [fields EXCEPT ![r] = Fields]
  /\ Goto(r, "promote")
  /\ UNCHANGED <<object, watermark, Table, log, head, entries, run, faults>>

(* Outside the band the fetcher throws: nothing is promoted or retired.    *)
GetOutOfBand(r) ==
  /\ pc[r] = "get"
  /\ ~ InBand(Cardinality(DOMAIN Content[object]))
  /\ run' = [run EXCEPT ![r] = "failed"]
  /\ Goto(r, "idle")
  /\ UNCHANGED <<object, watermark, Table, log, local, faults>>

(* Slip: the upsert leaves is_active out of its updated columns. *)
PromoteValuesOnly(r) ==
  /\ pc[r] = "promote"
  /\ \E C \in Chunks(todo[r]) :
       /\ parcel' = [p \in Parcels |-> IF p \in C THEN batch[r] ELSE parcel[p]]
       /\ active' = active \cup {p \in C : parcel[p] = 0}
       /\ todo' = [todo EXCEPT ![r] = @ \ C]
       /\ Goto(r, IF C = todo[r] THEN "retire_read" ELSE "promote")
  /\ UNCHANGED <<object, watermark, log, head, batch, fields, entries, run, faults>>

(* One autocommitted upsert: the rows' values, is_active = true.           *)
PromoteChunk(r) ==
  /\ pc[r] = "promote"
  /\ \E C \in Chunks(todo[r]) :
       /\ parcel' = [p \in Parcels |-> IF p \in C THEN batch[r] ELSE parcel[p]]
       /\ active' = active \cup C
       /\ todo' = [todo EXCEPT ![r] = @ \ C]
       /\ Goto(r, IF C = todo[r] THEN "retire_read" ELSE "promote")
  /\ UNCHANGED <<object, watermark, log, head, batch, fields, entries, run, faults>>

(* The active keys are read once, then retired chunk by chunk.             *)
RetireRead(r) ==
  /\ pc[r] = "retire_read"
  /\ LET gone == SoftRetire(active, DOMAIN Content[batch[r]]) IN
       /\ todo' = [todo EXCEPT ![r] = gone]
       /\ Goto(r, IF gone = {} THEN "diff" ELSE "retire")
  /\ UNCHANGED <<object, watermark, Table, log, head, batch, fields, entries, run, faults>>

RetireChunk(r) ==
  /\ pc[r] = "retire"
  /\ \E C \in Chunks(todo[r]) :
       /\ active' = active \ C
       /\ todo' = [todo EXCEPT ![r] = @ \ C]
       /\ Goto(r, IF C = todo[r] THEN "diff" ELSE "retire")
  /\ UNCHANGED <<object, watermark, parcel, log, head, batch, fields, entries, run, faults>>

(* runParcelChangeLog: one INSERT ... SELECT a field, in a fixed order the *)
(* properties do not depend on.  A statement selects from its own snapshot *)
(* and its rows become visible when it commits.                            *)
DiffField(r) ==
  /\ pc[r] = "diff"
  /\ \E f \in fields[r] :
       /\ entries' = [entries EXCEPT ![r] = FieldDiff(f)]
       /\ fields' = [fields EXCEPT ![r] = @ \ {f}]
  /\ Goto(r, "insert")
  /\ UNCHANGED <<object, watermark, Table, log, head, batch, todo, run, faults>>

InsertEntries(r) ==
  /\ pc[r] = "insert"
  /\ log' = [s \in Series |->
       LET mine == {e \in entries[r] : <<e.parcel, e.field>> = s} IN
       IF mine = {} THEN log[s]
       ELSE Append(log[s], LET e == CHOOSE e \in mine : TRUE
                           IN  [old |-> e.old, new |-> e.new])]
  /\ Goto(r, IF fields[r] = {} THEN "watermark" ELSE "diff")
  /\ UNCHANGED <<object, watermark, Table, local, run, faults>>

(* Slip: the watermark is read again after the transfer. *)
WatermarkFromObject(r) ==
  /\ pc[r] = "watermark"
  /\ watermark' = object
  /\ Goto(r, "close")
  /\ UNCHANGED <<object, Table, log, local, run, faults>>

(* The watermark is the HEAD's Last-Modified, written after everything; an *)
(* unknown one keeps the stored watermark.                                 *)
WriteWatermark(r) ==
  /\ pc[r] = "watermark"
  /\ watermark' = IF head[r] = Null THEN watermark ELSE head[r]
  /\ Goto(r, "close")
  /\ UNCHANGED <<object, Table, log, local, run, faults>>

Close(r) ==
  /\ pc[r] = "close"
  /\ run' = [run EXCEPT ![r] = "success"]
  /\ Goto(r, "idle")
  /\ UNCHANGED <<object, watermark, Table, log, local, faults>>

(* Any await may throw (the row is closed as failed) or the process die.   *)
Fail(r) ==
  /\ pc[r] # "idle" /\ faults < MaxFaults
  /\ faults' = faults + 1
  /\ \E s \in {"failed", run[r]} : run' = [run EXCEPT ![r] = s]
  /\ Goto(r, "idle")
  /\ UNCHANGED <<object, watermark, Table, log, local>>

Step(r) ==
  \/ Open(r) \/ FetchHead(r) \/ Get(r) \/ GetOutOfBand(r) \/ PromoteChunk(r)
  \/ RetireRead(r) \/ RetireChunk(r) \/ DiffField(r) \/ InsertEntries(r)
  \/ WriteWatermark(r) \/ Close(r)

Next == Publish \/ \E r \in Runs : Step(r) \/ Fail(r)

Spec == Init /\ [][Next]_vars

(* The workflow is scheduled every night and every await has a limit.      *)
FairSpec == Spec /\ \A r \in Runs : WF_vars(Step(r))
-----------------------------------------------------------------------------
(* Properties of runs that do not overlap (one workflow). *)

(* The table covers the recorded version: what it holds is loaded, from it *)
(* or from a later one, and what it lacks is retired, unless a later       *)
(* version says otherwise.                                                 *)
TableCovers ==
  \A p \in Parcels :
    IF p \in DOMAIN Content[watermark]
    THEN \/ p \in active /\ parcel[p] >= watermark
         \/ \E v \in watermark + 1 .. object : p \notin DOMAIN Content[v]
    ELSE p \in active => parcel[p] > watermark

(* No later value is forgotten: an active parcel whose row the watermark   *)
(* covers has its tracked values at the end of its change log.             *)
LoggedUpToWatermark ==
  \A p \in active, f \in Fields :
    parcel[p] <= watermark /\ Value(parcel[p], p, f) # Null
      => Latest(<<p, f>>) = Value(parcel[p], p, f)

(* The history is a chain (changeLog.ts: baseline, then transitions only): *)
(* a first entry without an old value, then each old value the last new    *)
(* one, and no entry that changes nothing, across crashes and re-runs.     *)
HistoryIsChain ==
  \A s \in Series : \A i \in 1 .. Len(log[s]) :
    /\ log[s][i].old = IF i = 1 THEN Null ELSE log[s][i - 1].new
    /\ log[s][i].old # log[s][i].new

(* A truncated object never retires the city: the active parcels stay      *)
(* within the band's lower bound (fetchers.ts: "never triggers a spurious  *)
(* mass soft-retire downstream").                                          *)
NoMassRetire == Cardinality(active) >= LowRows

(* The watermark is never ahead of what has been done for it, however a    *)
(* promote or a diff was cut short (run.ts: it is persisted after both).   *)
WatermarkSound ==
  TypeOK /\ (watermark # Null => TableCovers /\ LoggedUpToWatermark /\ NoMassRetire)

(* The table ends up equal to the newest object, and its history complete, *)
(* when the last version is in the band.                                   *)
InSync ==
  /\ active = DOMAIN Content[MaxVersion]
  /\ \A p \in active : parcel[p] = MaxVersion
  /\ \A p \in active, f \in Fields : Value(MaxVersion, p, f) # Null
       => Latest(<<p, f>>) = Value(MaxVersion, p, f)
CatchesUp == object = MaxVersion ~> []InSync
=============================================================================
