------------------------- MODULE KeysetIngestProofs -------------------------
(***************************************************************************)
(* What holds of KeysetIngest for every number of workers and backfills,   *)
(* every page size and budget, every join gate and every fault pattern.    *)
(***************************************************************************)
EXTENDS KeysetIngest, FiniteSetTheorems, WellFoundedInduction, TLAPS

-----------------------------------------------------------------------------
(* The helpers. *)

(* Every non-empty set of naturals has a least element. *)
LEMMA SmallestExists ==
  ASSUME NEW S \in SUBSET Nat, S # {}
  PROVE  \E m \in S : \A x \in S : m <= x
<1> DEFINE R == {ss \in Nat \X Nat : ss[1] < ss[2]}
<1>1. R = OpToRel(<, Nat)
  BY DEF OpToRel
<1>2. IsWellFoundedOn(R, Nat)
  BY <1>1, NatLessThanWellFounded, Zenon
<1>3. PICK m \in S : \A y \in S : ~ (<<y, m>> \in R)
  <2> HIDE DEF R
  <2> QED BY <1>2, WFMin, Zenon
<1>4. \A y \in S : ~ (y < m)
  BY <1>3
<1> QED
  BY <1>4

(* Every non-empty set of numbers up to a bound has a greatest element. *)
LEMMA HighestExists ==
  ASSUME NEW n \in Nat, NEW S \in SUBSET (0 .. n), S # {}
  PROVE  \E m \in S : \A x \in S : x <= m
<1> DEFINE T == {n - x : x \in S}
<1>1. T \in SUBSET Nat /\ \A x \in S : n - x \in T
  OBVIOUS
<1>2. T # {}
  OBVIOUS
<1>3. PICK t \in T : \A y \in T : t <= y
  <2> HIDE DEF T
  <2> QED BY <1>1, <1>2, SmallestExists
<1>4. PICK m \in S : t = n - m
  BY <1>3
<1>5. ASSUME NEW x \in S PROVE x <= m
  <2>1. t <= n - x
    BY <1>1, <1>3
  <2>2. x \in Int /\ m \in Int
    OBVIOUS
  <2> QED BY <2>1, <2>2, <1>4
<1> QED
  BY <1>5

(* Sets of bounded numbers are finite. *)
LEMMA BoundedFinite ==
  ASSUME NEW n \in Nat, NEW S \in SUBSET (0 .. n)
  PROVE  IsFiniteSet(S) /\ Cardinality(S) \in Nat
<1>1. IsFiniteSet(0 .. n)
  BY FS_Interval
<1>2. IsFiniteSet(S)
  BY <1>1, FS_Subset
<1> QED
  BY <1>2, FS_CardinalityType

(* A page's high-water mark is one of its rows, and bounds it. *)
LEMMA HighestFact ==
  ASSUME NEW S \in SUBSET Ids, S # {}
  PROVE  Highest(S) \in S /\ \A r \in S : r <= Highest(S)
<1>1. S \in SUBSET (0 .. MaxId)
  BY DEF Ids
<1>2. \E m \in S : IsHighest(m, S)
  BY <1>1, HighestExists, IdsAssumption DEF IsHighest
<1>3. IsHighest(Highest(S), S)
  BY <1>2, Zenon DEF Highest, IsHighest
<1> QED
  BY <1>3 DEF IsHighest

(* A page is a prefix of what lies above the position: no visible row       *)
(* between the old and the new position is left out.                        *)
LEMMA PageFact ==
  ASSUME source \subseteq Ids, NEW after \in 0 .. MaxId
  PROVE  /\ Page(after) \subseteq source
         /\ Advance(after, Page(after)) \in 0 .. MaxId
         /\ Advance(after, Page(after)) >= after
         /\ Page(after) # {} => Advance(after, Page(after)) \in source
         /\ Page(after) = {} => Advance(after, Page(after)) = after
         /\ \A r \in source : r > after /\ r <= Advance(after, Page(after))
              => r \in Page(after)
<1> DEFINE P == Page(after)
           Below(r) == {q \in source : after < q /\ q < r}
<1>1. P \subseteq source /\ P \in SUBSET Ids /\ \A r \in P : r > after
  BY DEF Page
<1>2. CASE P = {}
  BY <1>2, IdsAssumption DEF Advance, Ids
<1>3. CASE P # {}
  <2> DEFINE m == Highest(P)
  <2>1. m \in P /\ \A r \in P : r <= m
    BY <1>1, <1>3, HighestFact
  <2>2. Advance(after, P) = m
    BY <1>3 DEF Advance
  <2>3. Cardinality(Below(m)) < PageSize
    BY <2>1 DEF Page
  <2>4. m \in 0 .. MaxId /\ m >= after /\ m \in source
    BY <1>1, <2>1, IdsAssumption DEF Ids
  <2> HIDE DEF m
  <2>6. ASSUME NEW r \in source, r > after, r <= m
        PROVE  r \in P
    <3>1. Below(r) \in SUBSET Below(m)
      <4> SUFFICES ASSUME NEW q \in source, after < q, q < r
                   PROVE  q < m
        OBVIOUS
      <4> QED BY <2>4, <2>6, IdsAssumption DEF Ids
    <3>2. Below(m) \in SUBSET (0 .. MaxId) /\ Below(r) \in SUBSET (0 .. MaxId)
      <4>1. source \in SUBSET (0 .. MaxId)
        BY IdsAssumption DEF Ids
      <4> QED BY <4>1
    <3> HIDE DEF Below
    <3>3. /\ IsFiniteSet(Below(m)) /\ Cardinality(Below(m)) \in Nat
          /\ Cardinality(Below(r)) \in Nat
      BY <3>2, BoundedFinite, IdsAssumption
    <3>4. Cardinality(Below(r)) <= Cardinality(Below(m))
      BY <3>1, <3>3, FS_Subset
    <3>5. Cardinality(Below(r)) < PageSize
      BY <3>3, <3>4, <2>3, BudgetAssumption
    <3> QED BY <3>5, <2>6 DEF Page, Below
  <2> HIDE DEF P
  <2> QED BY <1>1, <1>3, <2>2, <2>4, <2>6 DEF P
<1> QED
  BY <1>2, <1>3

(* Dropping the rows a later row of the same key replaces drops no key. *)
LEMMA MappedFact ==
  ASSUME NEW S \in SUBSET Ids
  PROVE  /\ Mapped(S) \subseteq S \cap Usable
         /\ \A r \in S \cap Usable : \E w \in Mapped(S) : RowKey[w] = RowKey[r]
<1>1. Mapped(S) \subseteq S \cap Usable
  BY DEF Mapped
<1>2. ASSUME NEW r \in S \cap Usable
      PROVE  \E w \in Mapped(S) : RowKey[w] = RowKey[r]
  <2> DEFINE T == {q \in S \cap Usable : RowKey[q] = RowKey[r]}
  <2>1. T \in SUBSET Ids /\ T # {}
    OBVIOUS
  <2>2. Highest(T) \in T /\ \A q \in T : q <= Highest(T)
    BY <2>1, HighestFact
  <2>3. Highest(T) \in Mapped(S)
    BY <2>2 DEF Mapped
  <2> QED BY <2>2, <2>3
<1> QED
  BY <1>1, <1>2

(* An upsert writes exactly the keys of its rows and keeps the others. *)
LEMMA UpsertedFact ==
  ASSUME NEW t \in [Keys -> 0 .. MaxId], NEW W \in SUBSET Ids
  PROVE  /\ Upserted(t, W) \in [Keys -> 0 .. MaxId]
         /\ \A k \in Keys : Upserted(t, W)[k] # 0 <=>
              t[k] # 0 \/ \E r \in W : RowKey[r] = k
<1>1. ASSUME NEW k \in Keys, \E r \in W : RowKey[r] = k
      PROVE  (CHOOSE r \in W : RowKey[r] = k) \in Ids
  BY <1>1
<1>2. \A r \in Ids : r \in 0 .. MaxId /\ r # 0
  BY DEF Ids
<1>3. 0 \in 0 .. MaxId
  BY IdsAssumption
<1> QED
  BY <1>1, <1>2, <1>3 DEF Upserted

(* Counts stay natural numbers. *)
LEMMA CountedFact ==
  /\ \A n \in Nat : Counted(n) \in Nat
  /\ \A S \in SUBSET Ids : Cardinality(S) \in Nat
<1>1. ASSUME NEW S \in SUBSET Ids PROVE Cardinality(S) \in Nat
  <2>1. S \in SUBSET (0 .. MaxId)
    BY DEF Ids
  <2> QED BY <2>1, BoundedFinite, IdsAssumption
<1> QED
  BY <1>1, BudgetAssumption DEF Counted
-----------------------------------------------------------------------------
(* Type correctness. *)

(* Every reachable state is well typed: in particular the position a run    *)
(* writes to ops.source_cursor is always null or a row's id.                *)
THEOREM TypeCorrect == Spec => []TypeOK
<1>1. Init => TypeOK
  BY IdsAssumption, BudgetAssumption DEF Init, TypeOK, RunStatus, WorkerPC
<1>2. TypeOK /\ [Next]_vars => TypeOK'
  <2> SUFFICES ASSUME TypeOK, [Next]_vars
               PROVE  TypeOK'
    OBVIOUS
  <2> USE DEF TypeOK, RunStatus, WorkerPC, BackfillPC, Goto, cursorRow, local
  <2>1. ASSUME NEW r \in Ids, Publish(r)
        PROVE  TypeOK'
    BY <2>1 DEF Publish
  <2>2. ASSUME NEW p \in Procs, Open(p) \/ Fail(p) \/ Crash(p)
        PROVE  TypeOK'
    BY <2>2, BudgetAssumption DEF Open, Fail, Crash
  <2>3. ASSUME NEW p \in Procs, ReadCursor(p)
        PROVE  TypeOK'
    BY <2>3 DEF ReadCursor
  <2>4. ASSUME NEW p \in Procs, FetchPage(p) \/ FetchBackfillPage(p)
        PROVE  TypeOK'
    <3> DEFINE P == Page(pos[p])
    <3>1. P \in SUBSET Ids /\ Advance(pos[p], P) \in 0 .. MaxId
      BY PageFact
    <3>2. Mapped(P) \in SUBSET Ids
      BY <3>1 DEF Mapped
    <3>3. FullPage(P) \in BOOLEAN
      BY DEF FullPage
    <3>4. CASE FetchPage(p)
      <4> HIDE DEF P
      <4> QED BY <3>1, <3>4 DEF FetchPage, P
    <3>5. CASE FetchBackfillPage(p)
      <4> HIDE DEF P
      <4> QED BY <3>1, <3>2, <3>3, <3>5 DEF FetchBackfillPage, P
    <3> QED BY <2>4, <3>4, <3>5
  <2>5. ASSUME NEW p \in Procs, EmptyBatch(p) \/ Validate(p) \/ Quarantine(p)
        PROVE  TypeOK'
    BY <2>5 DEF EmptyBatch, Validate, Quarantine, Audit
  <2>6. ASSUME NEW p \in Procs, Promote(p)
        PROVE  TypeOK'
    <3>1. Mapped(batch[p]) \in SUBSET Ids
      BY DEF Mapped
    <3>2. Upserted(table, Mapped(batch[p])) \in [Keys -> 0 .. MaxId]
      BY <3>1, UpsertedFact
    <3>3. Counted(Cardinality(Mapped(batch[p]))) \in Nat
      BY <3>1, CountedFact
    <3> QED BY <2>6, <3>2, <3>3 DEF Promote
  <2>7. ASSUME NEW p \in Procs, Diff(p) \/ CloseRun(p) \/ Persist(p)
        PROVE  TypeOK'
    BY <2>7 DEF Diff, CloseRun, Persist
  <2>8. ASSUME NEW p \in Procs, Recount(p)
        PROVE  TypeOK'
    <3>1. Counted(committed + tally[p]) \in Nat
      BY CountedFact
    <3> QED BY <2>8, <3>1 DEF Recount
  <2>9. ASSUME NEW p \in Procs, UpsertChunk(p)
        PROVE  TypeOK'
    <3> DEFINE W == FirstChunk(batch[p])
    <3>1. W \in SUBSET Ids
      BY DEF FirstChunk
    <3>2. Upserted(table, W) \in [Keys -> 0 .. MaxId]
      BY <3>1, UpsertedFact
    <3>3. Counted(tally[p] + Cardinality(W)) \in Nat
      BY <3>1, CountedFact
    <3> HIDE DEF W
    <3> QED BY <2>9, <3>2, <3>3 DEF UpsertChunk, W
  <2>10. ASSUME NEW p \in Procs,
                PageDone(p) \/ CommitCursor(p) \/ FinalPersist(p) \/ CloseBackfill(p)
         PROVE  TypeOK'
    BY <2>10 DEF PageDone, CommitCursor, FinalPersist, CloseBackfill, NextRound
  <2>11. CASE UNCHANGED vars
    BY <2>11 DEF vars
  <2> QED
    BY <2>1, <2>2, <2>3, <2>4, <2>5, <2>6, <2>7, <2>8, <2>9, <2>10, <2>11
    DEF Next, Step, WorkerStep, BackfillStep
<1> QED
  BY <1>1, <1>2, PTL DEF Spec

-----------------------------------------------------------------------------
(* Resumability. *)

(* Writing to the table removes no key from it. *)
LEMMA UpsertKeeps ==
  ASSUME TypeOK, NEW W \in SUBSET Ids, table' = Upserted(table, W)
  PROVE  /\ \A r \in Ids : Present(r) => Present(r)'
         /\ \A r \in Ids : (\E w \in W : RowKey[w] = RowKey[r]) => Present(r)'
BY UpsertedFact, IdsAssumption DEF TypeOK, Present

(* A step that leaves the source and the cursor alone, keeps every row      *)
(* present, and preserves process p's part of the invariant and every other *)
(* process's state, preserves the invariant.                                *)
ProcInv(p) ==
  /\ Bounded(pos[p])
  /\ batch[p] \subseteq source
  /\ p \in Backfills => batch[p] \subseteq Usable
  /\ Accounted(p)
  /\ Written(p) => batch[p] = {}

Unmoved(q) ==
  pc'[q] = pc[q] /\ pos'[q] = pos[q] /\ batch'[q] = batch[q] /\ outcome'[q] = outcome[q]

LEMMA LocalStep ==
  ASSUME TypeOK, CopyInv, NEW p \in Procs,
         source' = source,
         \A r \in Ids : Present(r) => Present(r)',
         \A q \in Procs \ {p} : Unmoved(q),
         ProcInv(p)',
         cursor' = cursor \/ (Written(p) /\ cursor' = pos[p] /\ pc[p] \notin {"idle", "read"})
  PROVE  CopyInv'
<1>1. source \subseteq Ids
  BY DEF TypeOK
<1>2. Bounded(cursor)'
  BY DEF CopyInv, Bounded
<1>3. CursorSound'
  <2>1. CASE cursor' = cursor
    BY <1>1, <2>1 DEF CopyInv, CursorSound
  <2>2. CASE Written(p) /\ cursor' = pos[p] /\ pc[p] \notin {"idle", "read"}
    <3>1. batch[p] = {} /\ Accounted(p)
      BY <2>2 DEF CopyInv
    <3>2. \A r \in source \cap Usable : r <= pos[p] => Present(r)
      BY <2>2, <3>1 DEF Accounted, Pending
    <3> QED BY <1>1, <2>2, <3>2 DEF CursorSound
  <2> QED BY <2>1, <2>2
<1>4. ASSUME NEW q \in Procs \ {p}
      PROVE  ProcInv(q)'
  <2>1. ProcInv(q) /\ Unmoved(q)
    BY <1>4 DEF CopyInv, ProcInv
  <2> QED BY <1>1, <2>1 DEF ProcInv, Unmoved, Bounded, Accounted, Pending, Written
<1> QED
  BY <1>2, <1>3, <1>4 DEF CopyInv, ProcInv

(* The invariant is preserved by every step of the append-only source.      *)
LEMMA CopyInvStep ==
  ASSUME LateRows = {}, TypeOK, TypeOK', CopyInv, [Next]_vars
  PROVE  CopyInv'
<1> USE DEF cursorRow, local, Goto
<1>0. source \subseteq Ids /\ \A p \in Procs : ProcInv(p)
  BY DEF TypeOK, CopyInv, ProcInv
<1>1. ASSUME NEW r \in Ids, Publish(r)
      PROVE  CopyInv'
  <2>1. \A q \in source : q < r
    BY <1>1 DEF Publish
  <2>2. source' = source \cup {r}
    BY <1>1 DEF Publish
  <2>3. UNCHANGED <<cursor, table, pc, pos, batch, outcome>>
    BY <1>1 DEF Publish
  <2>4. \A n \in 0 .. MaxId : Bounded(n) => Bounded(n)' /\ ~ (r <= n)
    <3> SUFFICES ASSUME NEW n \in 0 .. MaxId, Bounded(n)
                 PROVE  Bounded(n)' /\ ~ (r <= n)
      OBVIOUS
    <3>1. n = 0 \/ \E q \in source : n <= q /\ q < r
      BY <2>1 DEF Bounded
    <3> QED BY <1>0, <2>2, <3>1, IdsAssumption DEF Bounded, Ids
  <2>5. Bounded(cursor)' /\ ~ (r <= cursor)
    BY <2>3, <2>4 DEF CopyInv, TypeOK, Bounded
  <2>6. \A p \in Procs : Bounded(pos[p])' /\ ~ (r <= pos[p])
    BY <2>3, <2>4 DEF CopyInv, TypeOK, Bounded
  <2>7. CursorSound'
    BY <2>2, <2>3, <2>5 DEF CopyInv, CursorSound, Present
  <2>8. ASSUME NEW p \in Procs PROVE ProcInv(p)'
    BY <1>0, <2>2, <2>3, <2>6 DEF ProcInv, Accounted, Present, Pending, Written
  <2> QED BY <2>5, <2>7, <2>8 DEF CopyInv, ProcInv
<1>2. ASSUME NEW p \in Procs,
             Open(p) \/ Fail(p) \/ Crash(p) \/ CloseRun(p) \/ CloseBackfill(p)
      PROVE  CopyInv'
  <2>1. /\ UNCHANGED <<source, cursor, table, pos, batch, outcome>>
        /\ \A q \in Procs \ {p} : pc'[q] = pc[q]
        /\ \/ pc'[p] \in {"idle", "read"}
           \/ pc'[p] = "recount" /\ pc[p] = "close" /\ outcome[p] = "success"
    BY <1>2 DEF TypeOK, Open, Fail, Crash, CloseRun, CloseBackfill
  <2>2. ProcInv(p)'
    BY <1>0, <2>1 DEF ProcInv, Bounded, Accounted, Present, Pending, Written
  <2> QED BY <2>1, <2>2, LocalStep DEF Unmoved, Present
<1>3. ASSUME NEW p \in Procs, ReadCursor(p)
      PROVE  CopyInv'
  <2>1. /\ UNCHANGED <<source, cursor, table, outcome>>
        /\ \A q \in Procs \ {p} : Unmoved(q)
        /\ pc'[p] = "page" /\ pos'[p] = cursor /\ batch'[p] = {}
    BY <1>3 DEF TypeOK, ReadCursor, Unmoved
  <2>2. ProcInv(p)'
    BY <2>1 DEF CopyInv, CursorSound, ProcInv, Bounded, Accounted, Present, Pending, Written
  <2> QED BY <2>1, <2>2, LocalStep DEF Present
<1>4. ASSUME NEW p \in Procs, FetchPage(p) \/ FetchBackfillPage(p)
      PROVE  CopyInv'
  <2> DEFINE P == Page(pos[p])
             New == Advance(pos[p], P)
  <2>0. pos[p] \in 0 .. MaxId
    BY DEF TypeOK
  <2>1. /\ P \subseteq source /\ New \in 0 .. MaxId
        /\ New = pos[p] \/ New \in source
        /\ \A r \in source : r > pos[p] /\ r <= New => r \in P
    BY <1>0, <2>0, PageFact
  <2>2. \A r \in P \cap Usable : \E q \in Mapped(P) : RowKey[q] = RowKey[r]
    BY <1>0, <2>1, MappedFact
  <2>3. Mapped(P) \subseteq P \cap Usable
    BY <1>0, <2>1, MappedFact
  <2>4. /\ UNCHANGED <<source, cursor, table>>
        /\ \A q \in Procs \ {p} : Unmoved(q)
        /\ pos'[p] = New
        /\ pc[p] = "page"
        /\ \/ p \in Workers /\ pc'[p] \in {"page", "staged"} /\ batch'[p] = batch[p] \cup P
           \/ /\ p \in Backfills /\ pc'[p] \in {"final", "upsert"} /\ batch'[p] = Mapped(P)
              /\ pc'[p] = "final" => P = {}
    BY <1>4 DEF TypeOK, FetchPage, FetchBackfillPage, Unmoved
  <2> HIDE DEF P, New
  <2>5. Bounded(pos[p])' /\ batch'[p] \subseteq source
    <3>1. New = 0 \/ \E q \in source : New <= q
      <4>1. CASE New = pos[p]
        BY <1>0, <4>1 DEF ProcInv, Bounded
      <4>2. CASE New \in source
        <5>1. New <= New
          BY <2>1, IdsAssumption
        <5> QED BY <4>2, <5>1
      <4> QED BY <2>1, <4>1, <4>2
    <3>2. Bounded(pos[p])'
      BY <2>4, <3>1 DEF Bounded
    <3>3. batch[p] \subseteq source
      BY <1>0 DEF ProcInv
    <3>4. batch'[p] \subseteq source
      BY <2>1, <2>3, <2>4, <3>3
    <3> QED BY <3>2, <3>4
  <2>9. p \in Backfills => batch'[p] \subseteq Usable
    BY <2>3, <2>4, ProcsAssumption
  <2>6. Written(p)' => batch'[p] = {}
    BY <2>3, <2>4, ProcsAssumption DEF Written
  <2>7. Accounted(p)'
    <3> SUFFICES ASSUME NEW r \in source \cap Usable, r <= New
                 PROVE  Present(r) \/ Pending(p, r)'
      BY <2>4 DEF Accounted, Present
    <3>1. CASE r <= pos[p]
      <4>1. Present(r) \/ Pending(p, r)
        BY <1>0, <2>4, <3>1 DEF ProcInv, Accounted
      <4>2. p \in Backfills => Present(r)
        BY <1>0, <2>4, <4>1 DEF ProcInv, Written, Pending
      <4> QED BY <2>4, <4>1, <4>2 DEF Pending
    <3>2. CASE ~ (r <= pos[p])
      <4>1. r \in P
        BY <1>0, <2>0, <2>1, <3>2, IdsAssumption DEF Ids
      <4> QED BY <2>2, <2>3, <2>4, <4>1 DEF Pending
    <3> QED BY <3>1, <3>2
  <2>8. ProcInv(p)'
    BY <2>4, <2>5, <2>6, <2>7, <2>9 DEF ProcInv
  <2> QED BY <2>4, <2>8, LocalStep DEF Present
<1>5. ASSUME NEW p \in Procs,
             \/ EmptyBatch(p) \/ Validate(p) \/ Quarantine(p) \/ Diff(p) \/ Recount(p)
      PROVE  CopyInv'
  <2>1. /\ UNCHANGED <<source, cursor, table, pos, batch>>
        /\ \A q \in Procs \ {p} : pc'[q] = pc[q] /\ outcome'[q] = outcome[q]
        /\ pc[p] \notin {"idle", "read"}
        /\ p \in Workers
        /\ \/ pc'[p] = "promote"
           \/ pc'[p] = "close" /\ outcome'[p] = "partial"
           \/ (batch[p] = {} \/ Written(p))
    BY <1>5 DEF TypeOK, EmptyBatch, Validate, Quarantine, Diff, Recount, Written
  <2>2. ProcInv(p)'
    BY <1>0, <2>1, ProcsAssumption DEF ProcInv, Bounded, Accounted, Present, Pending,
                                       Written
  <2> QED BY <2>1, <2>2, LocalStep DEF Unmoved, Present
<1>6. ASSUME NEW p \in Procs, Promote(p) \/ UpsertChunk(p)
      PROVE  CopyInv'
  <2>1. PICK W \in SUBSET Ids :
          /\ table' = Upserted(table, W)
          /\ \A r \in batch[p] \cap Usable :
               (\E w \in W : RowKey[w] = RowKey[r]) \/ r \in batch'[p]
    <3>1. CASE Promote(p)
      <4>1. Mapped(batch[p]) \in SUBSET Ids
        BY DEF TypeOK, Mapped
      <4>2. \A r \in batch[p] \cap Usable :
              \E w \in Mapped(batch[p]) : RowKey[w] = RowKey[r]
        BY MappedFact DEF TypeOK
      <4> QED BY <3>1, <4>1, <4>2 DEF Promote
    <3>2. CASE UpsertChunk(p)
      <4>1. FirstChunk(batch[p]) \in SUBSET Ids
        BY DEF TypeOK, FirstChunk
      <4>2. batch'[p] = batch[p] \ FirstChunk(batch[p])
        BY <3>2 DEF TypeOK, UpsertChunk
      <4> QED BY <3>2, <4>1, <4>2 DEF UpsertChunk
    <3> QED BY <1>6, <3>1, <3>2
  <2>2. /\ UNCHANGED <<source, cursor, pos, outcome>>
        /\ \A q \in Procs \ {p} : Unmoved(q)
        /\ pc[p] \notin {"idle", "read"} /\ pc'[p] \notin {"idle", "read"}
        /\ batch'[p] \subseteq batch[p]
        /\ Written(p)' => batch'[p] = {}
    BY <1>6, ProcsAssumption DEF TypeOK, Promote, UpsertChunk, Unmoved, Written
  <2>3. /\ \A r \in Ids : Present(r) => Present(r)'
        /\ \A r \in Ids : (\E w \in W : RowKey[w] = RowKey[r]) => Present(r)'
    BY <2>1, UpsertKeeps
  <2>4. Accounted(p)'
    <3> SUFFICES ASSUME NEW r \in source \cap Usable, r <= pos[p]
                 PROVE  Present(r)' \/ Pending(p, r)'
      BY <2>2 DEF Accounted
    <3>1. CASE Present(r)
      BY <1>0, <2>3, <3>1
    <3>2. CASE Pending(p, r)
      <4>1. PICK q \in batch[p] \cap Usable : RowKey[q] = RowKey[r]
        BY <3>2 DEF Pending
      <4>2. CASE \E w \in W : RowKey[w] = RowKey[q]
        BY <1>0, <2>3, <4>1, <4>2
      <4>3. CASE q \in batch'[p]
        BY <4>1, <4>3 DEF Pending
      <4> QED BY <2>1, <4>1, <4>2, <4>3
    <3> QED BY <1>0, <2>2, <3>1, <3>2 DEF ProcInv, Accounted
  <2>5. ProcInv(p)'
    BY <1>0, <2>2, <2>4 DEF ProcInv, Bounded
  <2> QED BY <2>2, <2>3, <2>5, LocalStep
<1>7. ASSUME NEW p \in Procs, Persist(p) \/ CommitCursor(p) \/ FinalPersist(p)
      PROVE  CopyInv'
  <2>1. /\ UNCHANGED <<source, table, pos, batch>>
        /\ cursor' = pos[p]
        /\ \A q \in Procs \ {p} : pc'[q] = pc[q] /\ outcome'[q] = outcome[q]
        /\ Written(p) /\ pc[p] \notin {"idle", "read"}
    BY <1>7 DEF TypeOK, Persist, CommitCursor, FinalPersist, NextRound, Written
  <2>2. ProcInv(p)'
    BY <1>0, <2>1 DEF ProcInv, Bounded, Accounted, Present, Pending
  <2> QED BY <2>1, <2>2, LocalStep DEF Unmoved, Present
<1>8. ASSUME NEW p \in Procs, PageDone(p)
      PROVE  CopyInv'
  <2>1. /\ UNCHANGED <<source, cursor, table, pos, batch>>
        /\ \A q \in Procs \ {p} : pc'[q] = pc[q] /\ outcome'[q] = outcome[q]
        /\ batch[p] = {} /\ pc[p] \notin {"idle", "read"}
    BY <1>8 DEF TypeOK, PageDone, NextRound
  <2>2. ProcInv(p)'
    BY <1>0, <2>1 DEF ProcInv, Bounded, Accounted, Present, Pending
  <2> QED BY <2>1, <2>2, LocalStep DEF Unmoved, Present
<1>9. CASE UNCHANGED vars
  BY <1>9 DEF vars, CopyInv, Bounded, CursorSound, Accounted, Present, Pending, Written
<1> QED
  BY <1>1, <1>2, <1>3, <1>4, <1>5, <1>6, <1>7, <1>8, <1>9
  DEF Next, Step, WorkerStep, BackfillStep

(* Initially nothing is visible and nothing has been read. *)
LEMMA CopyInvInit == Init => CopyInv
BY DEF Init, CopyInv, Bounded, CursorSound, Accounted, Written

(* Resuming from the persisted cursor skips no usable row, for any workers  *)
(* and backfills in any interleaving with failures and crashes, provided    *)
(* the city only appends above the rows already visible.                    *)
THEOREM Resumable ==
  ASSUME LateRows = {}
  PROVE  Spec => []CursorSound
<1>1. Spec => []TypeOK
  BY TypeCorrect
<1>2. TypeOK /\ TypeOK' /\ CopyInv /\ [Next]_vars => CopyInv'
  BY CopyInvStep
<1>3. CopyInv => CursorSound
  BY DEF CopyInv
<1> QED
  BY <1>1, <1>2, <1>3, CopyInvInit, PTL DEF Spec

(* Workers and backfills together implement the resumable copy: every step  *)
(* of theirs appends a row, copies rows that are in the source, moves the   *)
(* cursor to a completely copied prefix, or is invisible.                   *)
THEOREM Implements ==
  ASSUME LateRows = {}
  PROVE  Spec => CopySpec
<1> DEFINE present == {k \in Keys : table[k] # 0}
           AVars == <<source, present, cursor>>
<1>1. Init => Copy!Init
  BY DEF Init, Copy!Init
<1>2. ASSUME TypeOK, TypeOK', CopyInv, [Next]_vars
      PROVE  Copy!Next \/ UNCHANGED AVars
  <2>0. source \subseteq Ids /\ Ids = Copy!Ids
    BY <1>2 DEF TypeOK, Ids, Copy!Ids
  <2>1. ASSUME NEW r \in Ids, Publish(r)
        PROVE  Copy!Publish(r)
    BY <2>1 DEF Publish, Copy!Publish, cursorRow
  <2>2. ASSUME NEW W \in SUBSET (source \cap Usable), table' = Upserted(table, W),
               UNCHANGED <<source, cursor>>
        PROVE  Copy!Next
    <3>1. \A k \in Keys : table'[k] # 0 <=> table[k] # 0 \/ \E r \in W : RowKey[r] = k
      BY <1>2, <2>0, <2>2, UpsertedFact DEF TypeOK
    <3>2. \A r \in W : RowKey[r] \in Keys
      BY <2>0, <2>2, IdsAssumption
    <3>3. Copy!CopyRows(W)
      BY <2>2, <3>1, <3>2 DEF Copy!CopyRows
    <3> QED BY <3>3 DEF Copy!Next
  <2>3. ASSUME NEW p \in Procs, Promote(p)
        PROVE  Copy!Next
    <3>1. Mapped(batch[p]) \in SUBSET (source \cap Usable)
      BY <1>2, MappedFact DEF TypeOK, CopyInv
    <3>2. /\ table' = Upserted(table, Mapped(batch[p]))
          /\ UNCHANGED <<source, cursor>>
      BY <2>3 DEF Promote, cursorRow
    <3> QED BY <2>2, <3>1, <3>2
  <2>4. ASSUME NEW p \in Procs, UpsertChunk(p)
        PROVE  Copy!Next
    <3>1. FirstChunk(batch[p]) \in SUBSET (source \cap Usable)
      BY <1>2, <2>4 DEF CopyInv, FirstChunk, UpsertChunk
    <3>2. /\ table' = Upserted(table, FirstChunk(batch[p]))
          /\ UNCHANGED <<source, cursor>>
      BY <2>4 DEF UpsertChunk, cursorRow
    <3> QED BY <2>2, <3>1, <3>2
  <2>5. ASSUME NEW p \in Procs, Persist(p) \/ CommitCursor(p) \/ FinalPersist(p)
        PROVE  Copy!Next
    <3>1. /\ cursor' = pos[p] /\ UNCHANGED <<source, table>>
          /\ Written(p) /\ pc[p] \notin {"idle", "read"}
      BY <2>5 DEF Persist, CommitCursor, FinalPersist, Written
    <3>2. \A r \in source \cap Usable : r <= pos[p] => Present(r)
      BY <1>2, <3>1 DEF CopyInv, Accounted, Pending
    <3>3. \A r \in source \cap Usable : r <= pos[p] => RowKey[r] \in present
      BY <2>0, <3>2, IdsAssumption DEF Present
    <3>4. pos[p] \in 0 .. MaxId
      BY <1>2 DEF TypeOK
    <3> QED BY <3>1, <3>3, <3>4 DEF Copy!Next, Copy!MoveCursor
  <2>6. ASSUME NEW p \in Procs, ~ Promote(p), ~ UpsertChunk(p),
               ~ (Persist(p) \/ CommitCursor(p) \/ FinalPersist(p)),
               Step(p) \/ Fail(p) \/ Crash(p)
        PROVE  UNCHANGED <<source, table, cursor>>
    BY <2>6 DEF Step, WorkerStep, BackfillStep, Open, ReadCursor, FetchPage, EmptyBatch,
                Validate, Quarantine, Diff, CloseRun, Recount, FetchBackfillPage,
                PageDone, CloseBackfill, Fail, Crash, cursorRow
  <2>7. CASE UNCHANGED vars
    BY <2>7 DEF vars, cursorRow
  <2> QED
    BY <1>2, <2>0, <2>1, <2>3, <2>4, <2>5, <2>6, <2>7 DEF Next, Copy!Next
<1>3. Spec => []TypeOK
  BY TypeCorrect
<1>4. TypeOK /\ TypeOK' /\ CopyInv /\ [Next]_vars => CopyInv'
  BY CopyInvStep
<1>5. TypeOK /\ TypeOK' /\ CopyInv /\ [Next]_vars => [Copy!Next]_AVars
  BY <1>2
<1> QED
  BY <1>1, <1>3, <1>4, <1>5, CopyInvInit, PTL DEF Spec, CopySpec, Copy!Spec

-----------------------------------------------------------------------------
(* The quarantine record. *)

(* A worker past the gate has audited all it has read. *)
Heard(w) ==
  pc[w] \notin {"idle", "read"} =>
    \A r \in source \cap Malformed : r <= pos[w] =>
      r \in audited \/ (pc[w] \in {"page", "staged"} /\ r \in batch[w])

AuditInv == MalformedAudited /\ \A w \in Procs : Heard(w)

LEMMA AuditInvStep ==
  ASSUME LateRows = {}, Backfills = {}, ~ Spatial, TypeOK, CopyInv, AuditInv, [Next]_vars
  PROVE  AuditInv'
<1>. USE DEF cursorRow, local, Goto
<1>0. /\ source \subseteq Ids /\ \A p \in Procs : pos[p] \in 0 .. MaxId
      /\ \A r \in source \cap Malformed : r <= cursor => r \in audited
      /\ \A p \in Procs : Heard(p)
  BY DEF TypeOK, AuditInv, MalformedAudited
<1>1. ASSUME NEW r \in Ids, Publish(r) PROVE AuditInv'
  <2>1. source' = source \cup {r} /\ \A q \in source : q < r
    BY <1>1 DEF Publish
  <2>2. UNCHANGED <<cursor, audited, pc, pos, batch>>
    BY <1>1 DEF Publish
  <2>3. \A n \in 0 .. MaxId : Bounded(n) => ~ (r <= n)
    <3>. SUFFICES ASSUME NEW n \in 0 .. MaxId, Bounded(n) PROVE ~ (r <= n)
      OBVIOUS
    <3>1. n = 0 \/ \E q \in source : n <= q /\ q < r
      BY <2>1 DEF Bounded
    <3>. QED BY <1>0, <3>1, IdsAssumption DEF Ids
  <2>4. ~ (r <= cursor) /\ \A p \in Procs : ~ (r <= pos[p])
    BY <2>3 DEF CopyInv, TypeOK
  <2>. QED BY <1>0, <2>1, <2>2, <2>4 DEF AuditInv, MalformedAudited, Heard
<1>2. ASSUME NEW p \in Procs, Open(p) \/ Fail(p) \/ Crash(p) \/ CloseRun(p)
      PROVE  AuditInv'
  <2>1. /\ UNCHANGED <<source, cursor, audited, pos, batch>>
        /\ \A q \in Procs \ {p} : pc'[q] = pc[q]
        /\ pc'[p] \in {"idle", "read"} \/ (pc'[p] = "recount" /\ pc[p] = "close")
    BY <1>2 DEF TypeOK, Open, Fail, Crash, CloseRun
  <2>. QED BY <1>0, <2>1 DEF AuditInv, MalformedAudited, Heard
<1>3. ASSUME NEW p \in Procs, ReadCursor(p) PROVE AuditInv'
  <2>1. /\ UNCHANGED <<source, cursor, audited>> /\ pos'[p] = cursor /\ pc'[p] = "page"
        /\ \A q \in Procs \ {p} : pc'[q] = pc[q] /\ pos'[q] = pos[q] /\ batch'[q] = batch[q]
    BY <1>3 DEF TypeOK, ReadCursor
  <2>. QED BY <1>0, <2>1 DEF AuditInv, MalformedAudited, Heard
<1>4. ASSUME NEW p \in Procs, FetchPage(p) PROVE AuditInv'
  <2>. DEFINE P == Page(pos[p])
              n == Advance(pos[p], P)
  <2>1. \A r \in source : r > pos[p] /\ r <= n => r \in P
    BY <1>0, PageFact
  <2>2. /\ UNCHANGED <<source, cursor, audited>> /\ pos'[p] = n /\ batch'[p] = batch[p] \cup P
        /\ pc[p] = "page" /\ pc'[p] \in {"page", "staged"}
        /\ \A q \in Procs \ {p} : pc'[q] = pc[q] /\ pos'[q] = pos[q] /\ batch'[q] = batch[q]
    BY <1>4 DEF TypeOK, FetchPage
  <2>. HIDE DEF P, n
  <2>3. \A r \in source : r <= pos[p] \/ r > pos[p]
    BY <1>0, IdsAssumption DEF Ids
  <2>4. Heard(p)'
    BY <1>0, <2>1, <2>2, <2>3 DEF Heard
  <2>. QED BY <1>0, <2>2, <2>4 DEF AuditInv, MalformedAudited, Heard
<1>5. ASSUME NEW p \in Procs, EmptyBatch(p) \/ Validate(p) \/ Quarantine(p) PROVE AuditInv'
  <2>1. /\ UNCHANGED <<source, cursor, pos, batch>> /\ audited \subseteq audited'
        /\ pc[p] = "staged" /\ batch[p] \cap Malformed \subseteq audited'
        /\ \A q \in Procs \ {p} : pc'[q] = pc[q]
    BY <1>5 DEF TypeOK, EmptyBatch, Validate, Quarantine, Audit
  <2>. QED BY <1>0, <2>1 DEF AuditInv, MalformedAudited, Heard
<1>6. ASSUME NEW p \in Procs, Promote(p) \/ Diff(p) \/ Recount(p) \/ Persist(p)
      PROVE AuditInv'
  <2>1. /\ UNCHANGED <<source, audited, pos>>
        /\ pc[p] \notin {"idle", "read", "page", "staged"}
        /\ cursor' = cursor \/ cursor' = pos[p]
        /\ \A q \in Procs \ {p} : pc'[q] = pc[q] /\ batch'[q] = batch[q]
    BY <1>6 DEF TypeOK, Promote, Diff, Recount, Persist
  <2>2. \A r \in source \cap Malformed : r <= pos[p] => r \in audited
    BY <1>0, <2>1 DEF Heard
  <2>. QED BY <1>0, <2>1, <2>2 DEF AuditInv, MalformedAudited, Heard
<1>7. CASE UNCHANGED vars
  BY <1>0, <1>7 DEF vars, AuditInv, MalformedAudited, Heard
<1>. QED
  BY <1>1, <1>2, <1>3, <1>4, <1>5, <1>6, <1>7
  DEF Next, Step, WorkerStep, BackfillStep, FetchBackfillPage, UpsertChunk, PageDone,
      CommitCursor, FinalPersist, CloseBackfill

(* Where no backfill runs, no row with an unusable key is behind the cursor *)
(* without its quarantine record, whatever workers overlap, fail or crash   *)
(* (pipeline.ts, the audit before the gate's decision).                     *)
THEOREM NothingUnaudited ==
  ASSUME LateRows = {}, Backfills = {}, ~ Spatial
  PROVE  Spec => []MalformedAudited
<1>1. Spec => []TypeOK
  BY TypeCorrect
<1>2. TypeOK /\ TypeOK' /\ CopyInv /\ [Next]_vars => CopyInv'
  BY CopyInvStep
<1>3. TypeOK /\ CopyInv /\ AuditInv /\ [Next]_vars => AuditInv'
  BY AuditInvStep
<1>4. Init => AuditInv
  BY DEF Init, AuditInv, MalformedAudited, Heard
<1>5. AuditInv => MalformedAudited
  BY DEF AuditInv
<1>. QED BY <1>1, <1>2, <1>3, <1>4, <1>5, CopyInvInit, PTL DEF Spec

-----------------------------------------------------------------------------
(* Processes that do not overlap: what holds besides when the schedule     *)
(* keeps them apart, for all other constants and every pattern of failures *)
(* and crashes.                                                            *)

(* Every key holds a row at least as new as any of its rows up to n. *)
Current(n) == \A r \in source \cap Usable : r <= n => table[RowKey[r]] >= r

Alone == \A p, q \in Procs : pc[p] # "idle" /\ pc[q] # "idle" => p = q

(* A worker's batch is all that became visible after the cursor.            *)
Gathered(w) == batch[w] = {r \in source : cursor < r /\ r <= pos[w]}

(* What a backfill's page has not yet written is as new as the page, and no *)
(* row up to its position is newer than one that waits to be written.       *)
Upserting(b) ==
  /\ \A r \in source \cap Usable : r <= pos[b] =>
       table[RowKey[r]] >= r \/ \E q \in batch[b] : RowKey[q] = RowKey[r] /\ q >= r
  /\ \A q \in batch[b], r \in source \cap Usable :
       RowKey[r] = RowKey[q] /\ r <= pos[b] => r <= q

Serial(p) ==
  /\ pc[p] \notin {"idle", "read"} => cursor <= pos[p]
  /\ p \in Workers /\ pc[p] \in {"page", "staged", "promote"} => Gathered(p)
  /\ Written(p) => Current(pos[p])
  /\ pc[p] = "upsert" => Upserting(p)

SerialInv == Alone /\ FreshBelowCursor /\ \A p \in Procs : Serial(p)

-----------------------------------------------------------------------------

LEMMA Rows ==
  ASSUME TypeOK
  PROVE  /\ source \subseteq Ids /\ cursor \in Int
         /\ \A r \in Ids : r \in Int /\ RowKey[r] \in Keys /\ table[RowKey[r]] \in Int
         /\ \A p \in Procs : pos[p] \in Int /\ pos[p] \in 0 .. MaxId /\ batch[p] \subseteq Ids
BY IdsAssumption DEF TypeOK, Ids

(* A key's new value is one of the rows written, or the old one. *)
LEMMA Overwritten ==
  ASSUME NEW W \in SUBSET Ids, table' = Upserted(table, W), NEW k \in Keys
  PROVE  \/ table'[k] = table[k] /\ ~ \E w \in W : RowKey[w] = k
         \/ \E w \in W : RowKey[w] = k /\ table'[k] = w
<1>1. CASE \E w \in W : RowKey[w] = k
  <2>1. table'[k] = CHOOSE w \in W : RowKey[w] = k
    BY <1>1 DEF Upserted
  <2>. QED BY <1>1, <2>1
<1>2. CASE ~ \E w \in W : RowKey[w] = k
  BY <1>2 DEF Upserted
<1>. QED BY <1>1, <1>2

(* A step of the one process that runs concerns nobody else. *)
LEMMA Only ==
  ASSUME TypeOK, Alone, NEW p \in Procs, pc[p] # "idle" \/ \A q \in Procs : pc[q] = "idle",
         \A q \in Procs \ {p} : pc'[q] = pc[q],
         FreshBelowCursor', Serial(p)'
  PROVE  SerialInv'
<1>1. \A q \in Procs \ {p} : pc'[q] = "idle"
  BY DEF Alone
<1>2. Alone'
  BY <1>1 DEF Alone
<1>3. \A q \in Procs \ {p} : Serial(q)'
  BY <1>1 DEF Serial, Written
<1>. QED BY <1>2, <1>3 DEF SerialInv

(* Rows appear above every position. *)
LEMMA PublishSerial ==
  ASSUME LateRows = {}, TypeOK, CopyInv, SerialInv, NEW r \in Ids, Publish(r)
  PROVE  SerialInv'
<1>1. source' = source \cup {r} /\ \A q \in source : q < r
  BY DEF Publish
<1>2. UNCHANGED <<cursor, table, pc, pos, batch, outcome>>
  BY DEF Publish, cursorRow, local
<1>3. \A n \in 0 .. MaxId : Bounded(n) => ~ (r <= n)
  <2>. SUFFICES ASSUME NEW n \in 0 .. MaxId, Bounded(n) PROVE ~ (r <= n)
    OBVIOUS
  <2>1. n = 0 \/ \E q \in source : n <= q /\ q < r
    BY <1>1 DEF Bounded
  <2>. QED BY <2>1, Rows, IdsAssumption DEF Ids
<1>4. ~ (r <= cursor) /\ \A p \in Procs : ~ (r <= pos[p])
  BY <1>3 DEF CopyInv, TypeOK
<1>5. FreshBelowCursor'
  BY <1>1, <1>2, <1>4 DEF SerialInv, FreshBelowCursor
<1>6. ASSUME NEW p \in Procs PROVE Serial(p)'
  <2>1. Serial(p)
    BY DEF SerialInv
  <2>2. Gathered(p) => Gathered(p)'
    BY <1>1, <1>2, <1>4 DEF Gathered
  <2>3. Current(pos[p]) => Current(pos[p])'
    BY <1>1, <1>2, <1>4 DEF Current
  <2>4. Upserting(p) => Upserting(p)'
    BY <1>1, <1>2, <1>4 DEF Upserting
  <2>. QED BY <1>2, <2>1, <2>2, <2>3, <2>4 DEF Serial, Written
<1>7. Alone'
  BY <1>2 DEF SerialInv, Alone
<1>. QED BY <1>5, <1>6, <1>7 DEF SerialInv

(* A page brings all that lies between the old position and the new.        *)
LEMMA PageBrings ==
  ASSUME TypeOK, NEW p \in Procs
  PROVE  LET P == Page(pos[p])
             n == Advance(pos[p], P)
         IN  /\ n \in Int /\ n >= pos[p] /\ P \subseteq Ids
             /\ P = {r \in source : pos[p] < r /\ r <= n}
             /\ P = {} => n = pos[p]
<1>. DEFINE P == Page(pos[p])
            n == Advance(pos[p], P)
<1>1. /\ P \subseteq source /\ n \in 0 .. MaxId /\ n >= pos[p]
      /\ P = {} => n = pos[p]
      /\ \A r \in source : r > pos[p] /\ r <= n => r \in P
  BY Rows, PageFact
<1>2. \A r \in P : r > pos[p]
  BY DEF Page
<1>3. \A r \in P : r <= n
  BY <1>1, Rows, HighestFact DEF Advance
<1>. HIDE DEF P, n
<1>4. \A r \in source : r > pos[p] <=> pos[p] < r
  BY Rows
<1>5. n \in Int /\ P \subseteq Ids
  BY <1>1, Rows
<1>6. P = {r \in source : pos[p] < r /\ r <= n}
  BY <1>1, <1>2, <1>3, <1>4
<1>. QED BY <1>1, <1>5, <1>6 DEF P, n

LEMMA FetchSerial ==
  ASSUME TypeOK, SerialInv, NEW p \in Procs, FetchPage(p) \/ FetchBackfillPage(p)
  PROVE  SerialInv'
<1>. DEFINE P == Page(pos[p])
            n == Advance(pos[p], P)
<1>1. /\ n \in Int /\ n >= pos[p] /\ P \subseteq Ids
      /\ P = {r \in source : pos[p] < r /\ r <= n}
      /\ P = {} => n = pos[p]
  BY PageBrings
<1>2. /\ UNCHANGED <<source, cursor, table>> /\ pos'[p] = n /\ pc[p] = "page"
      /\ \A q \in Procs \ {p} : pc'[q] = pc[q]
      /\ \/ p \in Workers /\ pc'[p] \in {"page", "staged"} /\ batch'[p] = batch[p] \cup P
         \/ /\ p \in Backfills /\ pc'[p] \in {"final", "upsert"} /\ batch'[p] = Mapped(P)
            /\ pc'[p] = "final" => P = {}
  BY DEF TypeOK, FetchPage, FetchBackfillPage, cursorRow, local, Goto
<1>. HIDE DEF P, n
<1>3. FreshBelowCursor'
  BY <1>2 DEF SerialInv, FreshBelowCursor
<1>4. cursor <= pos[p] /\ cursor <= n
  BY <1>1, <1>2, Rows DEF SerialInv, Serial
<1>5. CASE p \in Workers /\ pc'[p] \in {"page", "staged"} /\ batch'[p] = batch[p] \cup P
  <2>1. batch[p] = {r \in source : cursor < r /\ r <= pos[p]}
    BY <1>2, <1>5 DEF SerialInv, Serial, Gathered
  <2>2. \A r \in source :
          (cursor < r /\ r <= n) <=> (cursor < r /\ r <= pos[p]) \/ (pos[p] < r /\ r <= n)
    BY <1>1, <1>4, Rows
  <2>3. batch'[p] = {r \in source : cursor < r /\ r <= n}
    BY <1>1, <1>5, <2>1, <2>2
  <2>4. Gathered(p)'
    BY <1>2, <2>3 DEF Gathered
  <2>5. Serial(p)'
    BY <1>2, <1>4, <1>5, <2>4, ProcsAssumption DEF Serial, Written
  <2>. QED BY <1>2, <1>3, <2>5, Only DEF SerialInv
<1>6. CASE /\ p \in Backfills /\ pc'[p] \in {"final", "upsert"} /\ batch'[p] = Mapped(P)
           /\ pc'[p] = "final" => P = {}
  <2>1. Current(pos[p])
    BY <1>2, <1>6 DEF SerialInv, Serial, Written
  <2>2. /\ Mapped(P) \subseteq P \cap Usable
        /\ \A r \in P \cap Usable : \E w \in Mapped(P) : RowKey[w] = RowKey[r]
        /\ \A w \in Mapped(P), r \in P \cap Usable : RowKey[r] = RowKey[w] => r <= w
    <3>1. P \in SUBSET Ids
      BY <1>1
    <3>2. \A w \in Mapped(P), r \in P \cap Usable : RowKey[r] = RowKey[w] => r <= w
      BY DEF Mapped
    <3>. QED BY <3>1, <3>2, MappedFact
  <2>3. P = {} => Current(pos[p])'
    BY <1>1, <1>2, <2>1 DEF Current
  <2>4. \A r \in source : r <= n => r <= pos[p] \/ r \in P
    BY <1>1, Rows
  <2>5. ASSUME NEW r \in source \cap Usable, r <= n
        PROVE  table[RowKey[r]] >= r \/ \E q \in Mapped(P) : RowKey[q] = RowKey[r] /\ q >= r
    <3>1. CASE r <= pos[p]
      BY <2>1, <3>1 DEF Current
    <3>2. CASE r \in P
      <4>1. PICK w \in Mapped(P) : RowKey[w] = RowKey[r] /\ r <= w
        BY <2>2, <3>2
      <4>2. w >= r
        BY <1>1, <2>2, <4>1, Rows
      <4>. QED BY <4>1, <4>2
    <3>. QED BY <2>4, <2>5, <3>1, <3>2
  <2>6. ASSUME NEW q \in Mapped(P), NEW r \in source \cap Usable, RowKey[r] = RowKey[q],
               r <= n
        PROVE  r <= q
    <3>1. CASE r <= pos[p]
      BY <1>1, <2>2, <3>1, Rows
    <3>2. CASE r \in P
      BY <2>2, <2>6, <3>2
    <3>. QED BY <2>4, <2>6, <3>1, <3>2
  <2>7. Upserting(p)'
    BY <1>2, <1>6, <2>5, <2>6 DEF Upserting
  <2>8. Serial(p)'
    BY <1>2, <1>4, <1>6, <2>3, <2>7, ProcsAssumption DEF Serial, Written
  <2>. QED BY <1>2, <1>3, <2>8, Only DEF SerialInv
<1>. QED BY <1>2, <1>5, <1>6

(* The batch is all there is above the cursor, and of each key its newest   *)
(* row is written.                                                          *)
LEMMA PromoteSerial ==
  ASSUME TypeOK, SerialInv, NEW p \in Procs, Promote(p)
  PROVE  SerialInv'
<1>. DEFINE W == Mapped(batch[p])
<1>1. /\ p \in Workers /\ pc[p] = "promote" /\ pc'[p] = "diff"
      /\ table' = Upserted(table, W) /\ UNCHANGED <<source, cursor, pos>>
      /\ \A q \in Procs \ {p} : pc'[q] = pc[q]
  BY DEF TypeOK, Promote, cursorRow, Goto
<1>2. batch[p] = {r \in source : cursor < r /\ r <= pos[p]} /\ cursor <= pos[p]
  BY <1>1 DEF SerialInv, Serial, Gathered
<1>3. /\ W \subseteq batch[p] \cap Usable /\ W \in SUBSET Ids
      /\ \A r \in batch[p] \cap Usable : \E w \in W : RowKey[w] = RowKey[r]
      /\ \A w \in W, r \in batch[p] \cap Usable : RowKey[r] = RowKey[w] => r <= w
  BY Rows, MappedFact DEF Mapped
<1>. HIDE DEF W
<1>4. ASSUME NEW r \in source \cap Usable, r <= pos[p] PROVE table'[RowKey[r]] >= r
  <2>1. r \in batch[p] \/ r <= cursor
    BY <1>2, <1>4, Rows
  <2>2. CASE \E w \in W : RowKey[w] = RowKey[r] /\ table'[RowKey[r]] = w
    <3>1. PICK w \in W : RowKey[w] = RowKey[r] /\ table'[RowKey[r]] = w
      BY <2>2
    <3>2. r <= w
      BY <1>2, <1>3, <2>1, <3>1, Rows
    <3>. QED BY <1>3, <3>1, <3>2, Rows
  <2>3. CASE table'[RowKey[r]] = table[RowKey[r]] /\ ~ \E w \in W : RowKey[w] = RowKey[r]
    BY <1>3, <2>1, <2>3 DEF SerialInv, FreshBelowCursor
  <2>4. RowKey[r] \in Keys
    BY Rows
  <2>. QED BY <1>1, <1>3, <2>2, <2>3, <2>4, Overwritten
<1>5. Current(pos[p])'
  BY <1>1, <1>4 DEF Current
<1>6. FreshBelowCursor'
  BY <1>1, <1>2, <1>4, Rows DEF FreshBelowCursor
<1>7. Serial(p)'
  BY <1>1, <1>2, <1>5 DEF Serial
<1>. QED BY <1>1, <1>6, <1>7, Only DEF SerialInv

(* A chunk writes rows that no row of their key up to the position exceeds. *)
LEMMA ChunkSerial ==
  ASSUME TypeOK, SerialInv, NEW p \in Procs, UpsertChunk(p)
  PROVE  SerialInv'
<1>. DEFINE W == FirstChunk(batch[p])
<1>1. /\ p \in Backfills /\ pc[p] = "upsert" /\ pc' = pc
      /\ table' = Upserted(table, W) /\ batch'[p] = batch[p] \ W
      /\ UNCHANGED <<source, cursor, pos>>
  BY DEF TypeOK, UpsertChunk, cursorRow
<1>2. W \subseteq batch[p] /\ W \in SUBSET Ids
  BY Rows DEF FirstChunk
<1>3. Upserting(p) /\ cursor <= pos[p]
  BY <1>1 DEF SerialInv, Serial
<1>. HIDE DEF W
<1>4. ASSUME NEW r \in source \cap Usable, r <= pos[p]
      PROVE  \/ table'[RowKey[r]] >= r
             \/ table'[RowKey[r]] = table[RowKey[r]] /\ ~ \E w \in W : RowKey[w] = RowKey[r]
  <2>1. CASE \E w \in W : RowKey[w] = RowKey[r] /\ table'[RowKey[r]] = w
    <3>1. PICK w \in W : RowKey[w] = RowKey[r] /\ table'[RowKey[r]] = w
      BY <2>1
    <3>2. r <= w
      BY <1>2, <1>3, <1>4, <3>1 DEF Upserting
    <3>. QED BY <1>2, <3>1, <3>2, Rows
  <2>2. RowKey[r] \in Keys
    BY Rows
  <2>. QED BY <1>1, <1>2, <2>1, <2>2, Overwritten
<1>5. FreshBelowCursor'
  BY <1>1, <1>3, <1>4, Rows DEF SerialInv, FreshBelowCursor
<1>6. ASSUME NEW r \in source \cap Usable, r <= pos[p]
      PROVE  table'[RowKey[r]] >= r \/ \E q \in batch'[p] : RowKey[q] = RowKey[r] /\ q >= r
  BY <1>1, <1>3, <1>4, <1>6 DEF Upserting
<1>7. Upserting(p)'
  BY <1>1, <1>3, <1>6 DEF Upserting
<1>8. Serial(p)'
  BY <1>1, <1>3, <1>7, ProcsAssumption DEF Serial, Written
<1>. QED BY <1>1, <1>5, <1>8, Only DEF SerialInv

(* What writes neither the table nor the cursor. *)
LEMMA QuietSerial ==
  ASSUME TypeOK, SerialInv, NEW p \in Procs,
         \/ ReadCursor(p) \/ EmptyBatch(p) \/ Validate(p) \/ Quarantine(p) \/ Diff(p)
         \/ Recount(p) \/ PageDone(p)
  PROVE  SerialInv'
<1>. USE DEF Goto, cursorRow, local
<1>1. /\ UNCHANGED <<source, cursor, table>> /\ pc[p] # "idle"
      /\ \A q \in Procs \ {p} : pc'[q] = pc[q]
  BY DEF TypeOK, ReadCursor, EmptyBatch, Validate, Quarantine, Diff, Recount, PageDone,
         NextRound
<1>2. FreshBelowCursor'
  BY <1>1 DEF SerialInv, FreshBelowCursor
<1>3. Serial(p)
  BY DEF SerialInv
<1>4. CASE ReadCursor(p)
  <2>1. pc'[p] = "page" /\ pos'[p] = cursor /\ batch'[p] = {}
    BY <1>4 DEF TypeOK, ReadCursor
  <2>2. Gathered(p)'
    BY <1>1, <2>1, Rows DEF Gathered
  <2>3. Current(pos[p])'
    BY <1>2, <1>1, <2>1 DEF Current, FreshBelowCursor
  <2>4. cursor' <= pos'[p]
    BY <1>1, <2>1, Rows
  <2>. QED BY <1>1, <1>2, <2>1, <2>2, <2>3, <2>4, Only DEF Serial, SerialInv
<1>5. CASE EmptyBatch(p)
  <2>1. /\ pc[p] = "staged" /\ pc'[p] = "close" /\ batch[p] = {} /\ p \in Workers /\ pos' = pos
    BY <1>5 DEF TypeOK, EmptyBatch
  <2>2. cursor <= pos[p] /\ \A r \in source : r <= pos[p] => r <= cursor
    BY <1>3, <2>1, Rows DEF Serial, Gathered
  <2>3. Current(pos[p])'
    BY <1>1, <2>1, <2>2 DEF Current, SerialInv, FreshBelowCursor
  <2>. QED BY <1>1, <1>2, <2>1, <2>2, <2>3, Only DEF Serial, SerialInv
<1>6. CASE Validate(p) \/ Quarantine(p)
  <2>1. /\ pc[p] = "staged" /\ p \in Workers /\ UNCHANGED <<pos, batch>>
        /\ pc'[p] = "promote" \/ (pc'[p] = "close" /\ outcome'[p] = "partial")
    BY <1>6 DEF TypeOK, Validate, Quarantine
  <2>. QED BY <1>1, <1>2, <1>3, <2>1, Only DEF Serial, SerialInv, Gathered, Written
<1>7. CASE Diff(p) \/ Recount(p)
  <2>1. Written(p) /\ pc'[p] \in {"close", "persist"} /\ pos' = pos /\ pc[p] \in {"diff", "recount"}
    BY <1>7 DEF TypeOK, Diff, Recount, Written
  <2>. QED BY <1>1, <1>2, <1>3, <2>1, Only DEF Serial, SerialInv, Current
<1>8. CASE PageDone(p)
  <2>1. /\ pc[p] = "upsert" /\ batch[p] = {} /\ p \in Backfills /\ pos' = pos
        /\ pc'[p] \in {"commit", "page", "final"}
    BY <1>8 DEF TypeOK, PageDone, NextRound
  <2>2. Current(pos[p])'
    BY <1>1, <1>3, <2>1 DEF Serial, Upserting, Current
  <2>. QED BY <1>1, <1>2, <1>3, <2>1, <2>2, ProcsAssumption, Only DEF Serial, SerialInv
<1>. QED BY <1>4, <1>5, <1>6, <1>7, <1>8

(* The cursor is set where everything is current. *)
LEMMA CursorSerial ==
  ASSUME TypeOK, SerialInv, NEW p \in Procs,
         Persist(p) \/ CommitCursor(p) \/ FinalPersist(p)
  PROVE  SerialInv' /\ cursor' >= cursor
<1>1. /\ UNCHANGED <<source, table, pos>> /\ cursor' = pos[p]
      /\ pc[p] \in {"persist", "commit", "final"}
      /\ \A q \in Procs \ {p} : pc'[q] = pc[q]
      /\ pc'[p] = "idle" \/ (p \in Backfills /\ pc'[p] \in {"page", "final", "close"})
  BY DEF TypeOK, Persist, CommitCursor, FinalPersist, NextRound, Goto, local
<1>2. Current(pos[p]) /\ cursor <= pos[p]
  BY <1>1 DEF SerialInv, Serial, Written
<1>3. FreshBelowCursor' /\ Current(pos[p])'
  BY <1>1, <1>2 DEF Current, FreshBelowCursor
<1>4. Serial(p)'
  BY <1>1, <1>3, Rows, ProcsAssumption DEF Serial, Written
<1>5. cursor' >= cursor
  BY <1>1, <1>2, Rows
<1>. QED BY <1>1, <1>3, <1>4, <1>5, Only DEF SerialInv

LEMMA SerialStep ==
  ASSUME LateRows = {}, Overlap = FALSE, TypeOK, CopyInv, SerialInv, [Next]_vars
  PROVE  SerialInv' /\ [cursor' >= cursor]_vars
<1>. USE DEF Goto, cursorRow, local
<1>0. cursor' = cursor => cursor' >= cursor
  BY Rows
<1>1. ASSUME NEW r \in Ids, Publish(r) PROVE SerialInv' /\ cursor' = cursor
  BY <1>1, PublishSerial DEF Publish
<1>2. ASSUME NEW p \in Procs,
             Open(p) \/ Fail(p) \/ Crash(p) \/ CloseRun(p) \/ CloseBackfill(p)
      PROVE  SerialInv' /\ cursor' = cursor
  <2>1. /\ UNCHANGED <<source, cursor, table, pos, batch, outcome>>
        /\ \A q \in Procs \ {p} : pc'[q] = pc[q]
        /\ \/ pc'[p] \in {"idle", "read"}
           \/ pc'[p] = "recount" /\ pc[p] = "close" /\ outcome[p] = "success"
    BY <1>2 DEF TypeOK, Open, Fail, Crash, CloseRun, CloseBackfill
  <2>2. pc[p] # "idle" \/ \A q \in Procs : pc[q] = "idle"
    BY <1>2 DEF Open, Fail, Crash, CloseRun, CloseBackfill
  <2>3. FreshBelowCursor'
    BY <2>1 DEF SerialInv, FreshBelowCursor
  <2>4. Serial(p)'
    BY <2>1 DEF SerialInv, Serial, Written, Current
  <2>. QED BY <2>1, <2>2, <2>3, <2>4, Only DEF SerialInv
<1>3. ASSUME NEW p \in Procs,
             \/ ReadCursor(p) \/ EmptyBatch(p) \/ Validate(p) \/ Quarantine(p) \/ Diff(p)
             \/ Recount(p) \/ PageDone(p)
      PROVE  SerialInv' /\ cursor' = cursor
  BY <1>3, QuietSerial
  DEF ReadCursor, EmptyBatch, Validate, Quarantine, Diff, Recount, PageDone
<1>4. ASSUME NEW p \in Procs, FetchPage(p) \/ FetchBackfillPage(p)
      PROVE  SerialInv' /\ cursor' = cursor
  BY <1>4, FetchSerial DEF FetchPage, FetchBackfillPage
<1>5. ASSUME NEW p \in Procs, Promote(p) \/ UpsertChunk(p)
      PROVE  SerialInv' /\ cursor' = cursor
  BY <1>5, PromoteSerial, ChunkSerial DEF Promote, UpsertChunk
<1>6. ASSUME NEW p \in Procs, Persist(p) \/ CommitCursor(p) \/ FinalPersist(p)
      PROVE  SerialInv' /\ cursor' >= cursor
  BY <1>6, CursorSerial
<1>7. CASE UNCHANGED vars
  BY <1>7 DEF vars, SerialInv, Alone, FreshBelowCursor, Serial, Written, Gathered,
              Current, Upserting
<1>. QED
  BY <1>0, <1>1, <1>2, <1>3, <1>4, <1>5, <1>6, <1>7 DEF Next, Step, WorkerStep, BackfillStep

LEMMA SerialInit == Init => SerialInv
BY DEF Init, SerialInv, Alone, FreshBelowCursor, Serial, Written

(* Where the schedule keeps the runs apart, no key at or below the cursor   *)
(* is stale, however often a batch is fetched and written again after a     *)
(* failure between its promote and its cursor write (pipeline.ts, run.ts).  *)
THEOREM NoStaleKey ==
  ASSUME LateRows = {}, Overlap = FALSE
  PROVE  Spec => []FreshBelowCursor
<1>1. Spec => []TypeOK
  BY TypeCorrect
<1>2. TypeOK /\ TypeOK' /\ CopyInv /\ [Next]_vars => CopyInv'
  BY CopyInvStep
<1>3. TypeOK /\ CopyInv /\ SerialInv /\ [Next]_vars => SerialInv'
  BY SerialStep
<1>4. SerialInv => FreshBelowCursor
  BY DEF SerialInv
<1>. QED BY <1>1, <1>2, <1>3, <1>4, CopyInvInit, SerialInit, PTL DEF Spec

(* And the cursor never moves back (run.ts, upsertSourceCursor). *)
THEOREM Forward ==
  ASSUME LateRows = {}, Overlap = FALSE
  PROVE  Spec => CursorNeverRegresses
<1>1. Spec => []TypeOK
  BY TypeCorrect
<1>2. TypeOK /\ TypeOK' /\ CopyInv /\ [Next]_vars => CopyInv'
  BY CopyInvStep
<1>3. TypeOK /\ CopyInv /\ SerialInv /\ [Next]_vars => SerialInv' /\ [cursor' >= cursor]_vars
  BY SerialStep
<1>. QED BY <1>1, <1>2, <1>3, CopyInvInit, SerialInit, PTL DEF Spec, CursorNeverRegresses
-----------------------------------------------------------------------------
(* The books of processes that do not overlap. *)

Passed(n)  == {r \in source \cap Usable : r <= n}
Between(n) == {r \in source \cap Usable : cursor < r /\ r <= n}
KeysOf(S)  == {RowKey[r] : r \in S}

(* A count of rows that leaves out no key. *)
IsCount(c, S) == c \in Nat /\ c <= Cardinality(S) /\ Cardinality(KeysOf(S)) <= c

(* What a worker's tally stands for once its batch is written. *)
Promoted(p) ==
  pc[p] \in {"diff", "recount"} \/ (pc[p] = "close" /\ outcome[p] = "success")

Booked(p) ==
  /\ p \in Workers /\ pc[p] \in {"page", "staged", "promote"} => tally[p] = 0
  /\ p \in Workers /\ Promoted(p) => IsCount(tally[p], Between(pos[p]))
  /\ p \in Workers /\ pc[p] = "persist" => IsCount(tally[p], Passed(pos[p]))
  /\ p \in Backfills /\ pc[p] \in {"page", "commit", "final"}
       => IsCount(tally[p], Passed(pos[p]))
  /\ p \in Backfills /\ pc[p] = "upsert"
       => IsCount(tally[p] + Cardinality(batch[p]), Passed(pos[p]))

(* What a run closed as a success has copied stays in the table. *)
Kept(p) ==
  run[p] = "success" /\ p \in Workers =>
    /\ pc[p] \in {"idle", "recount", "persist"}
    /\ \A r \in source \cap Usable : r <= pos[p] => Present(r)

BooksInv ==
  /\ IsCount(committed, Passed(cursor))
  /\ \A p \in Procs : Booked(p) /\ Kept(p)

-----------------------------------------------------------------------------

LEMMA CountBound ==
  ASSUME MaxId <= CountCap, NEW n \in Nat, NEW S \in SUBSET Ids, n <= Cardinality(S)
  PROVE  Counted(n) = n
<1>1. IsFiniteSet(Ids) /\ Cardinality(Ids) = MaxId
  BY IdsAssumption, FS_Interval DEF Ids
<1>2. Cardinality(S) <= MaxId /\ Cardinality(S) \in Nat
  BY <1>1, FS_Subset, CountedFact
<1>. QED BY <1>2, IdsAssumption, BudgetAssumption DEF Counted

(* The rows of a set write no more keys than there are rows. *)
LEMMA KeysFact ==
  ASSUME NEW S \in SUBSET Ids
  PROVE  /\ IsFiniteSet(S) /\ IsFiniteSet(KeysOf(S))
         /\ Cardinality(S) \in Nat /\ Cardinality(KeysOf(S)) \in Nat
         /\ Cardinality(KeysOf(S)) <= Cardinality(S)
<1>1. IsFiniteSet(S)
  <2>1. S \in SUBSET (0 .. MaxId)
    BY DEF Ids
  <2>. QED BY <2>1, BoundedFinite, IdsAssumption
<1>. DEFINE f == [r \in S |-> RowKey[r]]
<1>2. f \in Surjection(S, KeysOf(S))
  BY DEF Surjection, KeysOf
<1>3. IsFiniteSet(KeysOf(S)) /\ Cardinality(KeysOf(S)) <= Cardinality(S)
  <2>. HIDE DEF f
  <2>. QED BY <1>1, <1>2, FS_Surjection
<1>. QED BY <1>1, <1>3, FS_CardinalityType

(* Counts of disjoint sets add up. *)
LEMMA CountsAdd ==
  ASSUME NEW S \in SUBSET Ids, NEW T \in SUBSET Ids, S \cap T = {},
         NEW c, NEW d, IsCount(c, S), IsCount(d, T)
  PROVE  IsCount(c + d, S \cup T)
<1>1. /\ IsFiniteSet(S) /\ IsFiniteSet(T)
      /\ Cardinality(S) \in Nat /\ Cardinality(T) \in Nat
      /\ IsFiniteSet(KeysOf(S)) /\ IsFiniteSet(KeysOf(T))
      /\ Cardinality(KeysOf(S)) \in Nat /\ Cardinality(KeysOf(T)) \in Nat
  BY KeysFact
<1>2. Cardinality(S \cup T) = Cardinality(S) + Cardinality(T)
  <2>1. Cardinality(S \cup T) = Cardinality(S) + Cardinality(T) - Cardinality(S \cap T)
    BY <1>1, FS_Union
  <2>2. Cardinality(S \cap T) = 0
    BY FS_EmptySet
  <2>. QED BY <1>1, <2>1, <2>2
<1>3. KeysOf(S \cup T) = KeysOf(S) \cup KeysOf(T)
  BY DEF KeysOf
<1>4. Cardinality(KeysOf(S) \cap KeysOf(T)) \in Nat
  <2>1. KeysOf(S) \cap KeysOf(T) \in SUBSET KeysOf(S)
    OBVIOUS
  <2>. QED BY <1>1, <2>1, FS_Subset, FS_CardinalityType
<1>5. Cardinality(KeysOf(S \cup T)) <= Cardinality(KeysOf(S)) + Cardinality(KeysOf(T))
  <2>1. /\ Cardinality(KeysOf(S) \cup KeysOf(T)) =
             Cardinality(KeysOf(S)) + Cardinality(KeysOf(T))
               - Cardinality(KeysOf(S) \cap KeysOf(T))
    BY <1>1, FS_Union
  <2>. DEFINE a == Cardinality(KeysOf(S))
              b == Cardinality(KeysOf(T))
              c1 == Cardinality(KeysOf(S) \cap KeysOf(T))
  <2>2. Cardinality(KeysOf(S \cup T)) = a + b - c1
    BY <1>3, <2>1
  <2>3. a \in Nat /\ b \in Nat /\ c1 \in Nat
    BY <1>1, <1>4
  <2>4. a + b - c1 <= a + b
    <3>. HIDE DEF a, b, c1
    <3>. QED BY <2>3
  <2>. QED BY <2>2, <2>4
<1>6. Cardinality(KeysOf(S \cup T)) \in Nat
  BY KeysFact
<1>. QED BY <1>1, <1>2, <1>5, <1>6 DEF IsCount

(* What is written of a set of rows counts the set. *)
LEMMA MappedCounts ==
  ASSUME NEW S \in SUBSET Ids
  PROVE  IsCount(Cardinality(Mapped(S)), S \cap Usable)
<1>1. /\ Mapped(S) \subseteq S \cap Usable /\ Mapped(S) \in SUBSET Ids
      /\ \A r \in S \cap Usable : \E w \in Mapped(S) : RowKey[w] = RowKey[r]
  BY MappedFact
<1>2. KeysOf(S \cap Usable) = KeysOf(Mapped(S))
  BY <1>1 DEF KeysOf
<1>3. Cardinality(KeysOf(Mapped(S))) <= Cardinality(Mapped(S)) /\ Cardinality(Mapped(S)) \in Nat
  BY <1>1, KeysFact
<1>4. Cardinality(Mapped(S)) <= Cardinality(S \cap Usable)
  <2>1. IsFiniteSet(S \cap Usable)
    BY KeysFact
  <2>. QED BY <1>1, <2>1, FS_Subset
<1>. QED BY <1>2, <1>3, <1>4 DEF IsCount

LEMMA NothingCounts == IsCount(0, {})
<1>1. KeysOf({}) = {}
  BY DEF KeysOf
<1>. QED BY <1>1, FS_EmptySet DEF IsCount

(* A step of the one process that runs, which keeps every row present.      *)
LEMMA OnlyBooks ==
  ASSUME TypeOK, BooksInv, Alone, NEW p \in Procs,
         pc[p] # "idle" \/ \A q \in Procs : pc[q] = "idle",
         source' = source, \A r \in Ids : Present(r) => Present(r)',
         \A q \in Procs \ {p} : pc'[q] = pc[q] /\ pos'[q] = pos[q] /\ run'[q] = run[q],
         IsCount(committed, Passed(cursor))', Booked(p)', Kept(p)'
  PROVE  BooksInv'
<1>1. \A q \in Procs \ {p} : pc'[q] = "idle" /\ pc[q] = "idle"
  BY DEF Alone
<1>2. \A q \in Procs \ {p} : Booked(q)'
  BY <1>1 DEF Booked, Promoted
<1>3. \A q \in Procs \ {p} : Kept(q)'
  BY <1>1, Rows DEF BooksInv, Kept
<1>. QED BY <1>2, <1>3 DEF BooksInv

(* Rows appear above every position. *)
LEMMA PublishBooks ==
  ASSUME LateRows = {}, TypeOK, CopyInv, BooksInv, NEW r \in Ids, Publish(r)
  PROVE  BooksInv'
<1>1. source' = source \cup {r} /\ \A q \in source : q < r
  BY DEF Publish
<1>2. UNCHANGED <<cursor, committed, table, pc, pos, batch, tally, outcome, run>>
  BY DEF Publish, cursorRow, local
<1>3. \A n \in 0 .. MaxId : Bounded(n) => ~ (r <= n)
  <2>. SUFFICES ASSUME NEW n \in 0 .. MaxId, Bounded(n) PROVE ~ (r <= n)
    OBVIOUS
  <2>1. n = 0 \/ \E q \in source : n <= q /\ q < r
    BY <1>1 DEF Bounded
  <2>. QED BY <2>1, Rows, IdsAssumption DEF Ids
<1>4. ~ (r <= cursor) /\ \A p \in Procs : ~ (r <= pos[p])
  BY <1>3 DEF CopyInv, TypeOK
<1>5. Passed(cursor)' = Passed(cursor)
  BY <1>1, <1>2, <1>4 DEF Passed
<1>6. ASSUME NEW p \in Procs PROVE Booked(p)' /\ Kept(p)'
  <2>1. Passed(pos[p])' = Passed(pos[p]) /\ Between(pos[p])' = Between(pos[p])
    BY <1>1, <1>2, <1>4 DEF Passed, Between
  <2>2. Booked(p)'
    BY <1>2, <2>1 DEF BooksInv, Booked, Promoted, IsCount, KeysOf
  <2>3. Kept(p)'
    BY <1>1, <1>2, <1>4 DEF BooksInv, Kept, Present
  <2>. QED BY <2>2, <2>3
<1>. QED BY <1>2, <1>5, <1>6 DEF BooksInv, IsCount, KeysOf

(* What leaves the books and the table alone. *)
LEMMA QuietBooks ==
  ASSUME Overlap = FALSE, TypeOK, CopyInv, SerialInv, BooksInv, NEW p \in Procs,
         \/ Open(p) \/ Fail(p) \/ Crash(p) \/ Validate(p) \/ Quarantine(p) \/ Diff(p)
         \/ CloseRun(p) \/ CloseBackfill(p) \/ PageDone(p) \/ FetchPage(p) \/ EmptyBatch(p)
         \/ ReadCursor(p)
  PROVE  BooksInv'
<1>. USE DEF Goto, cursorRow, local
<1>1. /\ UNCHANGED <<source, cursor, committed, table>>
      /\ \A q \in Procs \ {p} : pc'[q] = pc[q] /\ pos'[q] = pos[q] /\ run'[q] = run[q]
      /\ pc[p] # "idle" \/ Open(p)
  BY DEF TypeOK, Open, Fail, Crash, Validate, Quarantine, Diff, CloseRun, CloseBackfill,
         PageDone,
         NextRound, FetchPage, EmptyBatch, ReadCursor
<1>2. pc[p] # "idle" \/ \A q \in Procs : pc[q] = "idle"
  BY <1>1 DEF Open, SerialInv, Alone
<1>3. IsCount(committed, Passed(cursor))'
  BY <1>1 DEF BooksInv, IsCount, Passed, KeysOf
<1>4. \A r \in Ids : Present(r) => Present(r)'
  BY <1>1 DEF Present
<1>5. Booked(p) /\ Kept(p)
  BY DEF BooksInv
<1>6. Booked(p)' /\ Kept(p)'
  <2>1. CASE Open(p) \/ Fail(p) \/ Crash(p)
    <3>1. /\ pc'[p] \in {"idle", "read"} /\ pos' = pos
          /\ run'[p] \in {"running", "failed", run[p]}
          /\ pc'[p] = "read" => run'[p] = "running"
      BY <2>1 DEF TypeOK, Open, Fail, Crash
    <3>. QED BY <1>1, <1>5, <3>1 DEF Booked, Promoted, Kept, Present
  <2>2. CASE Validate(p) \/ Quarantine(p)
    <3>1. /\ p \in Workers /\ pc[p] = "staged" /\ UNCHANGED <<tally, pos, run>>
          /\ pc'[p] = "promote" \/ (pc'[p] = "close" /\ outcome'[p] = "partial")
      BY <2>2 DEF TypeOK, Validate, Quarantine
    <3>. QED BY <1>5, <3>1, ProcsAssumption DEF Booked, Promoted, Kept
  <2>3. CASE Diff(p)
    <3>1. p \in Workers /\ pc[p] = "diff" /\ UNCHANGED <<tally, pos, run>> /\ pc'[p] = "close"
      BY <2>3 DEF TypeOK, Diff
    <3>2. IsCount(tally[p], Between(pos[p]))'
      BY <1>1, <1>5, <3>1 DEF Booked, Promoted, IsCount, Between, KeysOf
    <3>. QED BY <1>5, <3>1, <3>2, ProcsAssumption DEF Booked, Promoted, Kept
  <2>4. CASE EmptyBatch(p)
    <3>1. /\ p \in Workers /\ pc[p] = "staged" /\ UNCHANGED <<tally, pos, run>> /\ pc'[p] = "close"
          /\ batch[p] = {}
      BY <2>4 DEF TypeOK, EmptyBatch
    <3>2. Between(pos[p])' = {} /\ tally'[p] = 0
      BY <1>1, <1>5, <3>1 DEF SerialInv, Serial, Gathered, Between, Booked, Promoted
    <3>3. IsCount(tally[p], Between(pos[p]))'
      BY <3>2, NothingCounts DEF IsCount, KeysOf
    <3>. QED BY <1>5, <3>1, <3>3, ProcsAssumption DEF Booked, Promoted, Kept
  <2>5. CASE FetchPage(p)
    <3>1. /\ p \in Workers /\ pc[p] = "page" /\ UNCHANGED <<tally, run>>
          /\ pc'[p] \in {"page", "staged"}
      BY <2>5 DEF TypeOK, FetchPage
    <3>. QED BY <1>5, <3>1, ProcsAssumption DEF Booked, Promoted, Kept
  <2>6. CASE ReadCursor(p)
    <3>1. /\ pc[p] = "read" /\ pc'[p] = "page" /\ pos'[p] = cursor /\ run' = run
          /\ tally'[p] = IF p \in Backfills THEN committed ELSE 0
      BY <2>6 DEF TypeOK, ReadCursor
    <3>2. IsCount(committed, Passed(pos[p]))'
      BY <1>1, <1>3, <3>1 DEF Passed, IsCount, KeysOf
    <3>. QED BY <1>1, <1>5, <3>1, <3>2, ProcsAssumption DEF Booked, Promoted, Kept, IsCount
  <2>7. CASE CloseRun(p)
    <3>1. /\ p \in Workers /\ pc[p] = "close" /\ UNCHANGED <<tally, pos, outcome, batch>>
          /\ run'[p] = outcome[p]
          /\ pc'[p] \in {"idle", "recount"} /\ (pc'[p] = "recount" => outcome[p] = "success")
      BY <2>7 DEF TypeOK, CloseRun
    <3>2. outcome[p] = "success" => IsCount(tally[p], Between(pos[p]))'
      BY <1>1, <1>5, <3>1 DEF Booked, Promoted, IsCount, Between, KeysOf
    <3>3. outcome[p] = "success" => \A r \in source \cap Usable : r <= pos[p] => Present(r)
      BY <3>1 DEF CopyInv, Written, Accounted, Pending
    <3>. QED BY <1>1, <3>1, <3>2, <3>3, ProcsAssumption DEF Booked, Promoted, Kept, Present
  <2>8. CASE CloseBackfill(p)
    <3>1. p \in Backfills /\ pc'[p] = "idle"
      BY <2>8 DEF TypeOK, CloseBackfill
    <3>. QED BY <3>1, ProcsAssumption DEF Booked, Promoted, Kept
  <2>9. CASE PageDone(p)
    <3>1. /\ p \in Backfills /\ pc[p] = "upsert" /\ batch[p] = {} /\ UNCHANGED <<tally, pos>>
          /\ pc'[p] \in {"commit", "page", "final"}
      BY <2>9 DEF TypeOK, PageDone, NextRound
    <3>2. tally[p] \in Nat /\ Cardinality({}) = 0
      BY FS_EmptySet DEF TypeOK
    <3>3. tally[p] + Cardinality(batch[p]) = tally[p]
      BY <3>1, <3>2
    <3>4. IsCount(tally[p], Passed(pos[p]))
      BY <1>5, <3>1, <3>3 DEF Booked, Promoted
    <3>5. IsCount(tally[p], Passed(pos[p]))'
      BY <1>1, <3>1, <3>4 DEF IsCount, Passed, KeysOf
    <3>. QED BY <3>1, <3>5, ProcsAssumption DEF Booked, Promoted, Kept
  <2>. QED BY <2>1, <2>2, <2>3, <2>4, <2>5, <2>6, <2>7, <2>8, <2>9
<1>. QED BY <1>1, <1>2, <1>3, <1>4, <1>6, OnlyBooks DEF SerialInv

(* A promote counts what its batch brings. *)
LEMMA PromoteBooks ==
  ASSUME MaxId <= CountCap, TypeOK, SerialInv, BooksInv, NEW p \in Procs, Promote(p)
  PROVE  BooksInv'
<1>. DEFINE W == Mapped(batch[p])
<1>1. /\ p \in Workers /\ pc[p] = "promote" /\ pc'[p] = "diff"
      /\ table' = Upserted(table, W) /\ UNCHANGED <<source, cursor, committed, pos, run>>
      /\ tally'[p] = Counted(Cardinality(W))
      /\ \A q \in Procs \ {p} : pc'[q] = pc[q]
  BY DEF TypeOK, Promote, cursorRow, Goto
<1>2. batch[p] \cap Usable = Between(pos[p]) /\ batch[p] \in SUBSET Ids
  BY <1>1, Rows DEF SerialInv, Serial, Gathered, Between
<1>3. W \in SUBSET Ids /\ IsCount(Cardinality(W), Between(pos[p]))
  BY <1>2, MappedCounts, MappedFact
<1>4. tally'[p] = Cardinality(W)
  <2>1. Cardinality(W) \in Nat /\ Cardinality(W) <= Cardinality(Between(pos[p]))
    BY <1>3 DEF IsCount
  <2>2. Between(pos[p]) \in SUBSET Ids
    BY Rows DEF Between
  <2>. QED BY <1>1, <2>1, <2>2, CountBound
<1>. HIDE DEF W
<1>5. IsCount(tally[p], Between(pos[p]))'
  BY <1>1, <1>3, <1>4 DEF IsCount, Between, KeysOf
<1>6. Booked(p)'
  BY <1>1, <1>5, ProcsAssumption DEF Booked, Promoted
<1>7. Kept(p)'
  BY <1>1 DEF BooksInv, Kept
<1>8. IsCount(committed, Passed(cursor))'
  BY <1>1 DEF BooksInv, IsCount, Passed, KeysOf
<1>9. \A r \in Ids : Present(r) => Present(r)'
  BY <1>1, <1>3, UpsertKeeps
<1>. QED BY <1>1, <1>6, <1>7, <1>8, <1>9, OnlyBooks DEF SerialInv

(* What the run adds to the committed rows lies above the cursor. *)
LEMMA RecountBooks ==
  ASSUME MaxId <= CountCap, TypeOK, SerialInv, BooksInv, NEW p \in Procs, Recount(p)
  PROVE  BooksInv'
<1>1. /\ p \in Workers /\ pc[p] = "recount" /\ pc'[p] = "persist"
      /\ tally'[p] = Counted(committed + tally[p])
      /\ UNCHANGED <<source, cursor, committed, table, pos, run>>
      /\ \A q \in Procs \ {p} : pc'[q] = pc[q]
  BY DEF TypeOK, Recount, cursorRow, Goto
<1>2. cursor <= pos[p]
  BY <1>1 DEF SerialInv, Serial
<1>3. /\ Passed(cursor) \in SUBSET Ids /\ Between(pos[p]) \in SUBSET Ids
      /\ Passed(cursor) \cap Between(pos[p]) = {}
      /\ Passed(cursor) \cup Between(pos[p]) = Passed(pos[p])
  BY <1>2, Rows DEF Passed, Between
<1>4. IsCount(committed + tally[p], Passed(pos[p]))
  <2>1. IsCount(committed, Passed(cursor)) /\ IsCount(tally[p], Between(pos[p]))
    BY <1>1 DEF BooksInv, Booked, Promoted
  <2>. QED BY <1>3, <2>1, CountsAdd
<1>5. tally'[p] = committed + tally[p]
  <2>1. Passed(pos[p]) \in SUBSET Ids
    BY Rows DEF Passed
  <2>. QED BY <1>1, <1>4, <2>1, CountBound DEF IsCount
<1>6. IsCount(tally[p], Passed(pos[p]))'
  BY <1>1, <1>4, <1>5 DEF IsCount, Passed, KeysOf
<1>7. Booked(p)' /\ Kept(p)'
  BY <1>1, <1>6, ProcsAssumption DEF BooksInv, Booked, Promoted, Kept, Present
<1>8. IsCount(committed, Passed(cursor))' /\ \A r \in Ids : Present(r) => Present(r)'
  BY <1>1 DEF BooksInv, IsCount, Passed, KeysOf, Present
<1>. QED BY <1>1, <1>7, <1>8, OnlyBooks DEF SerialInv

(* A backfill's page counts once it is written. *)
LEMMA PageBooks ==
  ASSUME TypeOK, SerialInv, BooksInv, NEW p \in Procs, FetchBackfillPage(p)
  PROVE  BooksInv'
<1>. DEFINE P == Page(pos[p])
            n == Advance(pos[p], P)
<1>1. /\ n \in Int /\ n >= pos[p] /\ P \subseteq Ids
      /\ P = {r \in source : pos[p] < r /\ r <= n}
      /\ P = {} => n = pos[p]
  BY PageBrings
<1>2. /\ p \in Backfills /\ UNCHANGED <<source, cursor, committed, table, tally, run>>
      /\ pc[p] = "page" /\ pos'[p] = n /\ batch'[p] = Mapped(P)
      /\ pc'[p] = IF P = {} THEN "final" ELSE "upsert"
      /\ \A q \in Procs \ {p} : pc'[q] = pc[q] /\ pos'[q] = pos[q]
  BY DEF TypeOK, FetchBackfillPage, cursorRow, Goto
<1>. HIDE DEF P, n
<1>3. IsCount(tally[p], Passed(pos[p]))
  BY <1>2 DEF BooksInv, Booked, Promoted
<1>4. IsCount(tally[p] + Cardinality(Mapped(P)), Passed(n))
  <2>1. /\ Passed(pos[p]) \in SUBSET Ids /\ P \cap Usable \in SUBSET Ids
        /\ Passed(pos[p]) \cap (P \cap Usable) = {}
        /\ Passed(pos[p]) \cup (P \cap Usable) = Passed(n)
    BY <1>1, Rows DEF Passed
  <2>2. IsCount(Cardinality(Mapped(P)), P \cap Usable)
    BY <1>1, MappedCounts
  <2>. QED BY <1>3, <2>1, <2>2, CountsAdd
<1>5. IsCount(tally[p] + Cardinality(batch[p]), Passed(pos[p]))'
  BY <1>2, <1>4 DEF IsCount, Passed, KeysOf
<1>6. P = {} => IsCount(tally[p], Passed(pos[p]))'
  BY <1>1, <1>2, <1>3 DEF IsCount, Passed, KeysOf
<1>7. Booked(p)' /\ Kept(p)'
  BY <1>2, <1>5, <1>6, ProcsAssumption DEF Booked, Promoted, Kept
<1>8. IsCount(committed, Passed(cursor))' /\ \A r \in Ids : Present(r) => Present(r)'
  BY <1>2 DEF BooksInv, IsCount, Passed, KeysOf, Present
<1>. QED BY <1>2, <1>7, <1>8, OnlyBooks DEF SerialInv

LEMMA ChunkBooks ==
  ASSUME MaxId <= CountCap, TypeOK, SerialInv, BooksInv, NEW p \in Procs, UpsertChunk(p)
  PROVE  BooksInv'
<1>. DEFINE W == FirstChunk(batch[p])
<1>1. /\ p \in Backfills /\ pc[p] = "upsert" /\ pc' = pc
      /\ table' = Upserted(table, W) /\ batch'[p] = batch[p] \ W
      /\ tally'[p] = Counted(tally[p] + Cardinality(W))
      /\ UNCHANGED <<source, cursor, committed, pos, run>>
  BY DEF TypeOK, UpsertChunk, cursorRow
<1>2. W \subseteq batch[p] /\ W \in SUBSET Ids /\ batch[p] \in SUBSET Ids
  BY Rows DEF FirstChunk
<1>3. IsCount(tally[p] + Cardinality(batch[p]), Passed(pos[p])) /\ tally[p] \in Nat
  BY <1>1 DEF BooksInv, Booked, Promoted, TypeOK
<1>. HIDE DEF W
<1>4. /\ Cardinality(batch[p]) = Cardinality(W) + Cardinality(batch[p] \ W)
      /\ Cardinality(W) \in Nat /\ Cardinality(batch[p] \ W) \in Nat
  <2>1. IsFiniteSet(batch[p]) /\ batch[p] \cap W = W /\ Cardinality(batch[p]) \in Nat
    BY <1>2, KeysFact
  <2>2. Cardinality(batch[p] \ W) = Cardinality(batch[p]) - Cardinality(W)
    BY <2>1, FS_Difference
  <2>3. Cardinality(W) \in Nat /\ Cardinality(batch[p] \ W) \in Nat
    BY <1>2, CountedFact
  <2>. QED BY <2>1, <2>2, <2>3
<1>5. tally'[p] = tally[p] + Cardinality(W)
  <2>1. Passed(pos[p]) \in SUBSET Ids /\ Cardinality(Passed(pos[p])) \in Nat
    BY Rows, CountedFact DEF Passed
  <2>2. tally[p] + Cardinality(W) <= Cardinality(Passed(pos[p]))
    BY <1>3, <1>4, <2>1 DEF IsCount
  <2>. QED BY <1>1, <1>3, <1>4, <2>1, <2>2, CountBound
<1>6. tally'[p] + Cardinality(batch'[p]) = tally[p] + Cardinality(batch[p])
  BY <1>1, <1>3, <1>4, <1>5
<1>7. IsCount(tally[p] + Cardinality(batch[p]), Passed(pos[p]))'
  BY <1>1, <1>3, <1>6 DEF IsCount, Passed, KeysOf
<1>8. Booked(p)' /\ Kept(p)'
  BY <1>1, <1>7, ProcsAssumption DEF Booked, Promoted, Kept
<1>9. IsCount(committed, Passed(cursor))'
  BY <1>1 DEF BooksInv, IsCount, Passed, KeysOf
<1>10. \A r \in Ids : Present(r) => Present(r)'
  BY <1>1, <1>2, UpsertKeeps
<1>. QED BY <1>1, <1>8, <1>9, <1>10, OnlyBooks DEF SerialInv

(* The count is written together with the position it counts up to. *)
LEMMA CursorBooks ==
  ASSUME TypeOK, SerialInv, BooksInv, NEW p \in Procs,
         Persist(p) \/ CommitCursor(p) \/ FinalPersist(p)
  PROVE  BooksInv'
<1>1. /\ UNCHANGED <<source, table, pos, tally, run>> /\ cursor' = pos[p] /\ committed' = tally[p]
      /\ \/ p \in Workers /\ pc[p] = "persist" /\ pc'[p] = "idle"
         \/ /\ p \in Backfills /\ pc[p] \in {"commit", "final"}
            /\ pc'[p] \in {"page", "final", "close"}
      /\ \A q \in Procs \ {p} : pc'[q] = pc[q]
  BY DEF TypeOK, Persist, CommitCursor, FinalPersist, NextRound, Goto, local
<1>2. IsCount(tally[p], Passed(pos[p]))
  BY <1>1 DEF BooksInv, Booked, Promoted
<1>3. IsCount(tally[p], Passed(pos[p]))' /\ IsCount(committed, Passed(cursor))'
  BY <1>1, <1>2 DEF IsCount, Passed, KeysOf
<1>4. Booked(p)' /\ Kept(p)'
  BY <1>1, <1>3, ProcsAssumption DEF BooksInv, Booked, Promoted, Kept, Present
<1>5. \A r \in Ids : Present(r) => Present(r)'
  BY <1>1 DEF Present
<1>. QED BY <1>1, <1>3, <1>4, <1>5, OnlyBooks DEF SerialInv

LEMMA BooksStep ==
  ASSUME LateRows = {}, Overlap = FALSE, MaxId <= CountCap, TypeOK, CopyInv, SerialInv,
         BooksInv, [Next]_vars
  PROVE  BooksInv'
<1>1. CASE UNCHANGED vars
  BY <1>1 DEF vars, cursorRow, local, BooksInv, Booked, Promoted, Kept, IsCount, Passed,
              Between, KeysOf, Present
<1>. QED
  BY <1>1, PublishBooks, QuietBooks, PromoteBooks, RecountBooks, PageBooks, ChunkBooks,
     CursorBooks
  DEF Next, Step, WorkerStep, BackfillStep

LEMMA BooksInit == Init => BooksInv
<1>. SUFFICES ASSUME Init PROVE BooksInv
  OBVIOUS
<1>1. Passed(cursor) = {} /\ committed = 0
  BY DEF Init, Passed
<1>2. IsCount(committed, Passed(cursor))
  BY <1>1, NothingCounts
<1>3. \A p \in Procs : Booked(p) /\ Kept(p)
  BY DEF Init, Booked, Promoted, Kept
<1>. QED BY <1>2, <1>3 DEF BooksInv

(* Where the schedule keeps the runs apart, rows_committed counts what the  *)
(* cursor has passed, each row at most once and each key at least once,     *)
(* and what the ledger calls a success is in the table (run.ts: the count   *)
(* is read back and written with the cursor; backfill.ts counts as it       *)
(* writes).  The saturation of the model's counts plays no part.            *)
THEOREM BooksBalance ==
  ASSUME LateRows = {}, Overlap = FALSE, MaxId <= CountCap
  PROVE  Spec => []BooksAreTrue
<1>1. Spec => []TypeOK
  BY TypeCorrect
<1>2. TypeOK /\ TypeOK' /\ CopyInv /\ [Next]_vars => CopyInv'
  BY CopyInvStep
<1>3. TypeOK /\ CopyInv /\ SerialInv /\ [Next]_vars => SerialInv'
  BY SerialStep
<1>4. TypeOK /\ CopyInv /\ SerialInv /\ BooksInv /\ [Next]_vars => BooksInv'
  BY BooksStep
<1>5. BooksInv => BooksAreTrue
  BY DEF BooksInv, IsCount, Passed, KeysOf, Kept, BooksAreTrue, Procs
<1>. QED BY <1>1, <1>2, <1>3, <1>4, <1>5, CopyInvInit, SerialInit, BooksInit, PTL DEF Spec
=============================================================================
