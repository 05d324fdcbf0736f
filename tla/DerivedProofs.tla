---------------------------- MODULE DerivedProofs ----------------------------
(***************************************************************************)
(* Proofs about what a run of the worker derives from the rows it has      *)
(* loaded, for every number of parcels, versions, rows and days: the       *)
(* watermark of the spine, both kinds of history, and what finalizeDerived *)
(* leaves behind.                                                          *)
(***************************************************************************)
EXTENDS MCDerived, Sequences, TLAPS, FiniteSetTheorems, SequenceTheorems,
        WellFoundedInduction

-----------------------------------------------------------------------------
(* Sets of numbers *)

(* Every non-empty set of naturals has a least element. *)
LEMMA SmallestExists ==
  ASSUME NEW S \in SUBSET Nat, S # {}
  PROVE  \E m \in S : \A x \in S : m <= x
<1> DEFINE R == {ss \in Nat \X Nat : ss[1] < ss[2]}
<1>1. R = OpToRel(<, Nat)
  BY DEF OpToRel
<1>2. IsWellFoundedOn(R, Nat)
  BY <1>1, NatLessThanWellFounded, Zenon
<1>3. PICK m \in S : \A y \in S : ~ (<<y, m>> \in R)
  <2> HIDE DEF R
  <2> QED BY <1>2, WFMin, Zenon
<1>4. \A y \in S : ~ (y < m)
  BY <1>3
<1> QED
  BY <1>4

(* Every non-empty set of numbers up to a bound has a greatest element. *)
LEMMA HighestExists ==
  ASSUME NEW n \in Nat, NEW S \in SUBSET (0 .. n), S # {}
  PROVE  \E m \in S : \A x \in S : x <= m
<1> DEFINE T == {n - x : x \in S}
<1>1. T \in SUBSET Nat /\ \A x \in S : n - x \in T
  OBVIOUS
<1>2. T # {}
  OBVIOUS
<1>3. PICK t \in T : \A y \in T : t <= y
  <2> HIDE DEF T
  <2> QED BY <1>1, <1>2, SmallestExists
<1>4. PICK m \in S : t = n - m
  BY <1>3
<1>5. ASSUME NEW x \in S PROVE x <= m
  <2>1. t <= n - x
    BY <1>1, <1>3
  <2>2. x \in Int /\ m \in Int
    OBVIOUS
  <2> QED BY <2>1, <2>2, <1>4
<1> QED
  BY <1>5

-----------------------------------------------------------------------------
(* One workflow runs the worker (nightly.yml, its concurrency group). *)
OneWorkflow == \A q, r \in Runs : q = r

-----------------------------------------------------------------------------
(* The spine *)

Values  == {Spine!Value(v, p, f) : v \in Spine!Versions, p \in Parcels, f \in Fields} \cup {Null}
Changes == [old : Values, new : Values]

TableTyped ==
  /\ object \in 0 .. MaxVersion /\ watermark \in Spine!Versions \cup {Null}
  /\ parcel \in [Parcels -> 0 .. MaxVersion] /\ active \subseteq Parcels
  /\ changes \in [Spine!Series -> Seq(Changes)]
  /\ watermark # Null => watermark <= object
  /\ \A p \in Parcels : parcel[p] <= object
  /\ \A p \in active : parcel[p] # 0

Recorded ==
  watermark # Null => Spine!TableCovers /\ Spine!LoggedUpToWatermark /\ Spine!NoMassRetire

LocalTyped ==
  /\ at \in [Runs -> Spine!RunPC]
  /\ head \in [Runs -> Spine!Versions \cup {Null}]
  /\ batch \in [Runs -> 0 .. MaxVersion]
  /\ left \in [Runs -> SUBSET Parcels] /\ fields \in [Runs -> SUBSET Fields]
  /\ entries = [r \in Runs |-> entries[r]]
  /\ run \in [Runs -> {"none", "running", "success", "failed"}]
  /\ failures \in 0 .. MaxFaults

Promoted == {"retire_read", "retire", "diff", "insert", "watermark"}
Retired  == {"diff", "insert", "watermark"}

Batch(r)     == DOMAIN Content[batch[r]]
Written(p, r) == p \in active /\ parcel[p] = batch[r]

(* The object is at least as new as what the run knows of it. *)
Knows(r) ==
  /\ at[r] \in {"head", "get"} => object >= 1
  /\ at[r] = "get" /\ head[r] # Null => head[r] <= object
  /\ at[r] \in Promoted \cup {"promote"} =>
       /\ batch[r] \in 1 .. object
       /\ head[r] # Null => head[r] <= batch[r]
       /\ watermark # Null => watermark <= batch[r]
       /\ Spine!InBand(Cardinality(Batch(r)))

(* How far the table is at the batch.  A batch of the recorded version      *)
(* again finds the table as it will leave it.                               *)
Tabled(r) ==
  /\ at[r] = "promote" =>
       /\ left[r] \subseteq Batch(r)
       /\ \A p \in Batch(r) \ left[r] : Written(p, r)
       /\ batch[r] = watermark => \A p \in Batch(r) : Written(p, r)
  /\ at[r] \in Promoted => \A p \in Batch(r) : Written(p, r)
  /\ at[r] = "retire" => left[r] = active \ Batch(r)
  /\ at[r] \in Retired => active = Batch(r)

(* How far the change log is at the table. *)
Logged(p, f) == Spine!Value(parcel[p], p, f) # Null
                  => Spine!Latest(<<p, f>>) = Spine!Value(parcel[p], p, f)
Diffed(r) ==
  /\ at[r] \in {"promote", "retire_read", "retire"} => fields[r] = Fields
  /\ at[r] \in Retired =>
       \A p \in active, f \in Fields \ fields[r] :
         \/ Logged(p, f)
         \/ at[r] = "insert" /\ \E e \in entries[r] : e.parcel = p /\ e.field = f
  /\ at[r] = "insert" =>
       /\ entries[r] \subseteq [parcel : active, field : Fields, old : Values, new : Values]
       /\ \A e \in entries[r] : /\ e.old = Spine!Latest(<<e.parcel, e.field>>)
                                /\ e.new = Spine!Value(parcel[e.parcel], e.parcel, e.field)
                                /\ e.old # e.new
  /\ at[r] = "watermark" => fields[r] = {}

SpineInv ==
  /\ TableTyped /\ LocalTyped /\ Recorded /\ Spine!HistoryIsChain
  /\ \A r \in Runs : Knows(r) /\ Tabled(r) /\ Diffed(r)

-----------------------------------------------------------------------------

LEMMA SpineConstants ==
  /\ MaxVersion \in Nat /\ Null \notin Int /\ IsFiniteSet(Parcels)
  /\ \A v \in Spine!Versions : DOMAIN Content[v] \subseteq Parcels
  /\ LowRows \in Nat \ {0} /\ HighRows \in Nat /\ MaxFaults \in Nat
BY ConstantsAssumption DEF Spine!ConstantsOK, Spine!IsFiniteSet, IsFiniteSet

LEMMA SpineCounts == ASSUME NEW S PROVE Spine!Cardinality(S) = Cardinality(S)
BY DEF Spine!Cardinality, Cardinality

(* The last value logged is a value. *)
LEMMA LatestValue ==
  ASSUME TableTyped, NEW s \in Spine!Series
  PROVE  Spine!Latest(s) \in Values
<1>1. changes[s] \in Seq(Changes)
  BY DEF TableTyped
<1>2. CASE changes[s] = <<>>
  BY <1>2 DEF Spine!Latest, Values
<1>3. CASE changes[s] # <<>>
  <2>1. Len(changes[s]) \in 1 .. Len(changes[s])
    BY <1>1, <1>3
  <2>2. changes[s][Len(changes[s])] \in Changes
    BY <1>1, <2>1
  <2>. QED BY <1>3, <2>2 DEF Spine!Latest, Changes
<1>. QED BY <1>2, <1>3

LEMMA SpineInitInv == Spine!Init => SpineInv
<1>. SUFFICES ASSUME Spine!Init PROVE SpineInv
  OBVIOUS
<1>. USE SpineConstants DEF Spine!Init
<1>1. TableTyped
  <2>1. changes \in [Spine!Series -> Seq(Changes)]
    BY DEF Spine!Series
  <2>. QED BY <2>1 DEF TableTyped
<1>2. LocalTyped
  BY DEF LocalTyped, Spine!RunPC
<1>3. Recorded /\ Spine!HistoryIsChain
  <2>1. \A s \in Spine!Series : changes[s] = <<>>
    BY DEF Spine!Series
  <2>. QED BY <2>1 DEF Recorded, Spine!HistoryIsChain
<1>4. \A r \in Runs : Knows(r) /\ Tabled(r) /\ Diffed(r)
  BY DEF Knows, Tabled, Diffed, Promoted, Retired
<1>. QED BY <1>1, <1>2, <1>3, <1>4 DEF SpineInv

(* A step that leaves table, change log and watermark alone concerns only   *)
(* the run that takes it.                                                   *)
LEMMA Apart ==
  ASSUME OneWorkflow, SpineInv, NEW r \in Runs, LocalTyped',
         UNCHANGED <<object, watermark, parcel, active, changes>>,
         Knows(r)', Tabled(r)', Diffed(r)'
  PROVE  SpineInv'
<1>1. (TableTyped /\ Recorded /\ Spine!HistoryIsChain)'
  BY DEF SpineInv, TableTyped, Recorded, Spine!HistoryIsChain, Spine!TableCovers,
         Spine!LoggedUpToWatermark, Spine!NoMassRetire, Spine!Latest
<1>2. \A q \in Runs : q = r
  BY DEF OneWorkflow
<1>. QED BY <1>1, <1>2 DEF SpineInv

(* A run that is not past its fetch knows nothing of the table. *)
LEMMA BeforeFetch ==
  ASSUME NEW r \in Runs, at'[r] \in {"idle", "head", "get", "close"}
  PROVE  Tabled(r)' /\ Diffed(r)'
BY DEF Tabled, Diffed, Promoted, Retired

LEMMA PublishInv == ASSUME OneWorkflow, SpineInv, Spine!Publish PROVE SpineInv'
<1>. USE SpineConstants DEF SpineInv
<1>1. object' = object + 1 /\ object' \in 0 .. MaxVersion
  BY DEF Spine!Publish, TableTyped
<1>2. UNCHANGED <<watermark, parcel, active, changes, at, head, batch, left, fields,
                  entries,
                  run, failures>>
  BY DEF Spine!Publish, Spine!local, Spine!Table
<1>3. TableTyped'
  BY <1>1, <1>2 DEF TableTyped, Spine!Versions
<1>4. LocalTyped'
  BY <1>2 DEF LocalTyped
<1>5. Recorded'
  <2>1. watermark # Null => Spine!TableCovers'
    BY <1>1, <1>2 DEF Recorded, Spine!TableCovers, TableTyped, Spine!Versions
  <2>. QED BY <1>2, <2>1 DEF Recorded, Spine!LoggedUpToWatermark, Spine!NoMassRetire,
                             Spine!Latest
<1>6. Spine!HistoryIsChain'
  BY <1>2 DEF Spine!HistoryIsChain
<1>7. ASSUME NEW r \in Runs PROVE Knows(r)' /\ Tabled(r)' /\ Diffed(r)'
  <2>1. Knows(r)'
    BY <1>1, <1>2 DEF Knows, LocalTyped, TableTyped, Batch, Spine!InBand, Spine!Versions,
                      Promoted
  <2>. QED BY <1>2, <2>1 DEF Tabled, Diffed, Batch, Written, Logged, Spine!Latest
<1>. QED BY <1>3, <1>4, <1>5, <1>6, <1>7

LEMMA OpenInv ==
  ASSUME OneWorkflow, SpineInv, NEW r \in Runs,
         Spine!Open(r) \/ Spine!Close(r) \/ Spine!GetOutOfBand(r) \/ Spine!Fail(r)
  PROVE  SpineInv'
<1>. USE SpineConstants DEF SpineInv, Spine!Open, Spine!Close, Spine!GetOutOfBand,
                            Spine!Fail,
       Spine!Goto
<1>1. UNCHANGED <<object, watermark, parcel, active, changes, head, batch, left, fields,
                  entries>>
  BY DEF Spine!Table, Spine!local
<1>2. at' = [at EXCEPT ![r] = IF Spine!Open(r) THEN "head" ELSE "idle"]
  OBVIOUS
<1>3. LocalTyped'
  <2>1. failures' \in 0 .. MaxFaults
    BY DEF LocalTyped
  <2>. QED BY <1>1, <2>1 DEF LocalTyped, Spine!RunPC
<1>4. at'[r] \in {"idle", "head"} /\ (at'[r] = "head" => object > 0)
  BY <1>2 DEF LocalTyped
<1>5. Knows(r)'
  BY <1>1, <1>4 DEF Knows, Promoted, TableTyped
<1>. QED BY <1>1, <1>3, <1>4, <1>5, BeforeFetch, Apart

LEMMA FetchHeadInv ==
  ASSUME OneWorkflow, SpineInv, NEW r \in Runs, Spine!FetchHead(r)
  PROVE  SpineInv'
<1>. USE SpineConstants DEF SpineInv, Spine!FetchHead, Spine!Goto
<1>1. UNCHANGED <<object, watermark, parcel, active, changes, left, fields, entries, run,
                  failures>>
  BY DEF Spine!Table
<1>2. object \in Spine!Versions
  BY DEF Knows, TableTyped, Spine!Versions
<1>3. PICK h \in {object, Null} :
        /\ head' = [head EXCEPT ![r] = h]
        /\ at' = [at EXCEPT ![r] = IF Spine!NotNewer(h, watermark) THEN "close" ELSE "get"]
  BY Zenon
<1>4. LocalTyped'
  BY <1>1, <1>2, <1>3 DEF LocalTyped, Spine!RunPC
<1>5. at'[r] \in {"close", "get"} /\ head'[r] \in {object, Null}
  BY <1>3 DEF LocalTyped
<1>6. Knows(r)'
  BY <1>1, <1>2, <1>5 DEF Knows, Promoted, TableTyped, Spine!Versions
<1>. QED BY <1>1, <1>4, <1>5, <1>6, BeforeFetch, Apart

LEMMA GetInv ==
  ASSUME OneWorkflow, SpineInv, NEW r \in Runs, Spine!Get(r)
  PROVE  SpineInv'
<1>. USE SpineConstants DEF SpineInv, Spine!Get, Spine!Goto
<1>1. UNCHANGED <<object, watermark, parcel, active, changes, head, entries, run, failures>>
  BY DEF Spine!Table
<1>2. /\ object \in Spine!Versions /\ DOMAIN Content[object] \subseteq Parcels
      /\ head[r] # Null => head[r] <= object
  BY DEF Knows, TableTyped, Spine!Versions
<1>3. LocalTyped'
  BY <1>1, <1>2 DEF LocalTyped, Spine!RunPC, Spine!Versions
<1>4. /\ at'[r] = "promote" /\ batch'[r] = object /\ left'[r] = DOMAIN Content[object]
      /\ Batch(r)' = DOMAIN Content[object]
  BY DEF LocalTyped, Batch
<1>5. Knows(r)'
  <2>1. Spine!InBand(Cardinality(DOMAIN Content[object]))
    BY SpineCounts
  <2>. QED BY <1>1, <1>2, <1>4, <2>1 DEF Knows, Promoted, TableTyped, Spine!Versions, Batch
<1>6. ASSUME object = watermark, NEW p \in DOMAIN Content[object]
      PROVE  p \in active /\ parcel[p] = object
  <2>1. watermark # Null /\ p \in DOMAIN Content[watermark] /\ p \in Parcels
    BY <1>2, <1>6 DEF TableTyped
  <2>2. ~ \E v \in watermark + 1 .. object : TRUE
    BY <1>2, <1>6 DEF Spine!Versions
  <2>3. p \in active /\ parcel[p] >= watermark
    BY <2>1, <2>2 DEF Recorded, Spine!TableCovers
  <2>. QED BY <1>2, <1>6, <2>1, <2>3 DEF TableTyped, Spine!Versions
<1>7. Tabled(r)' /\ Diffed(r)'
  <2>1. fields'[r] = Fields
    BY DEF LocalTyped
  <2>. QED BY <1>1, <1>4, <1>6, <2>1 DEF Tabled, Diffed, Written, Promoted, Retired
<1>. QED BY <1>1, <1>3, <1>5, <1>7, Apart

(* What a promoted chunk brings is newer than the watermark, or there.      *)
LEMMA PromoteInv ==
  ASSUME OneWorkflow, SpineInv, NEW r \in Runs, Spine!PromoteChunk(r)
  PROVE  SpineInv'
<1>. USE SpineConstants DEF SpineInv
<1>1. UNCHANGED <<object, watermark, changes, head, batch, fields, entries, run, failures>>
  BY DEF Spine!PromoteChunk
<1>2. /\ at[r] = "promote" /\ batch[r] \in Spine!Versions /\ batch[r] <= object
      /\ watermark # Null => watermark <= batch[r]
      /\ Batch(r)' = Batch(r) /\ Batch(r) \subseteq Parcels
  BY <1>1 DEF Spine!PromoteChunk, Knows, TableTyped, Batch, Spine!Versions
<1>3. PICK C \in SUBSET left[r] :
        /\ parcel' = [p \in Parcels |-> IF p \in C THEN batch[r] ELSE parcel[p]]
        /\ active' = active \cup C
        /\ left' = [left EXCEPT ![r] = @ \ C]
        /\ at' = [at EXCEPT ![r] = IF C = left[r] THEN "retire_read" ELSE "promote"]
  BY DEF Spine!PromoteChunk, Spine!Chunks, Spine!Goto
<1>4. C \subseteq Batch(r) /\ left[r] \in SUBSET Parcels
  BY <1>2 DEF Tabled, LocalTyped
<1>5. TableTyped'
  BY <1>1, <1>2, <1>3, <1>4 DEF TableTyped, Spine!Versions
<1>6. LocalTyped'
  BY <1>1, <1>3, <1>4 DEF LocalTyped, Spine!RunPC
<1>7. ASSUME watermark # Null PROVE Spine!TableCovers'
  <2>1. watermark \in Int /\ batch[r] \in Int
    BY <1>2, <1>7 DEF TableTyped, Spine!Versions
  <2>2. ASSUME NEW p \in Parcels PROVE
          IF p \in DOMAIN Content[watermark]
          THEN \/ p \in active' /\ parcel'[p] >= watermark
               \/ \E v \in watermark + 1 .. object : p \notin DOMAIN Content[v]
          ELSE p \in active' => parcel'[p] > watermark
    <3>1. CASE p \in C
      BY <1>2, <1>3, <1>4, <1>7, <2>1, <3>1 DEF Batch
    <3>2. CASE p \notin C
      BY <1>3, <1>7, <3>2 DEF Recorded, Spine!TableCovers
    <3>. QED BY <3>1, <3>2
  <2>. QED BY <1>1, <2>2 DEF Spine!TableCovers
<1>8. ASSUME watermark # Null PROVE Spine!LoggedUpToWatermark'
  <2>1. ASSUME NEW p \in active', NEW f \in Fields, parcel'[p] <= watermark,
               Spine!Value(parcel'[p], p, f) # Null
        PROVE  Spine!Latest(<<p, f>>) = Spine!Value(parcel'[p], p, f)
    <3>1. CASE p \in C
      <4>1. parcel'[p] = batch[r] /\ batch[r] = watermark
        BY <1>2, <1>3, <1>4, <1>8, <2>1, <3>1 DEF TableTyped, Spine!Versions
      <4>2. p \in active /\ parcel[p] = batch[r]
        BY <1>2, <1>4, <3>1, <4>1 DEF Tabled, Written
      <4>3. \A q \in active, g \in Fields :
              parcel[q] <= watermark /\ Spine!Value(parcel[q], q, g) # Null
                => Spine!Latest(<<q, g>>) = Spine!Value(parcel[q], q, g)
        BY <1>8 DEF Recorded, Spine!LoggedUpToWatermark
      <4>. QED BY <2>1, <4>1, <4>2, <4>3
    <3>2. CASE p \notin C
      <4>1. p \in active /\ parcel'[p] = parcel[p]
        BY <1>3, <2>1, <3>2 DEF TableTyped
      <4>. QED BY <1>8, <2>1, <4>1 DEF Recorded, Spine!LoggedUpToWatermark, Spine!Value
    <3>. QED BY <3>1, <3>2
  <2>. QED BY <1>1, <2>1 DEF Spine!LoggedUpToWatermark, Spine!Latest
<1>9. ASSUME watermark # Null PROVE Spine!NoMassRetire'
  <2>1. active' \subseteq Parcels /\ active \subseteq active'
    BY <1>3, <1>5 DEF TableTyped
  <2>2. IsFiniteSet(active') /\ Cardinality(active) <= Cardinality(active')
    BY <2>1, FS_Subset
  <2>3. Cardinality(active) \in Nat /\ Cardinality(active') \in Nat
    BY <2>1, <2>2, FS_Subset, FS_CardinalityType
  <2>. QED BY <1>9, <2>2, <2>3, SpineCounts DEF Recorded, Spine!NoMassRetire
<1>10. Recorded' /\ Spine!HistoryIsChain'
  BY <1>1, <1>7, <1>8, <1>9 DEF Recorded, Spine!HistoryIsChain
<1>11. at'[r] \in {"retire_read", "promote"} /\ left'[r] = left[r] \ C
  BY <1>3 DEF LocalTyped
<1>12. Knows(r)'
  BY <1>1, <1>2, <1>11 DEF Knows, Promoted
<1>13. \A p \in Batch(r) : Written(p, r) \/ p \in C => Written(p, r)'
  BY <1>1, <1>2, <1>3, <1>4 DEF Written
<1>14. Tabled(r)'
  <2>1. at'[r] = "retire_read" => C = left[r]
    BY <1>3 DEF LocalTyped
  <2>. QED BY <1>1, <1>2, <1>11, <1>13, <2>1 DEF Tabled, Promoted, Retired
<1>15. Diffed(r)'
  BY <1>1, <1>2, <1>11 DEF Diffed, Retired
<1>16. \A q \in Runs : q = r
  BY DEF OneWorkflow
<1>. QED BY <1>5, <1>6, <1>10, <1>12, <1>14, <1>15, <1>16

LEMMA RetireReadInv ==
  ASSUME OneWorkflow, SpineInv, NEW r \in Runs, Spine!RetireRead(r)
  PROVE  SpineInv'
<1>. USE SpineConstants DEF SpineInv
<1>1. UNCHANGED <<object, watermark, parcel, active, changes, head, batch, fields,
                  entries, run,
                  failures>>
  BY DEF Spine!RetireRead, Spine!Table
<1>. DEFINE gone == active \ Batch(r)
<1>2. /\ at[r] = "retire_read" /\ left' = [left EXCEPT ![r] = gone]
      /\ at' = [at EXCEPT ![r] = IF gone = {} THEN "diff" ELSE "retire"]
  BY DEF Spine!RetireRead, Spine!SoftRetire, Spine!Goto, Batch
<1>3. LocalTyped'
  BY <1>1, <1>2 DEF LocalTyped, TableTyped, Spine!RunPC
<1>4. /\ at'[r] = IF gone = {} THEN "diff" ELSE "retire"
      /\ left'[r] = gone /\ Batch(r)' = Batch(r)
  BY <1>1, <1>2 DEF LocalTyped, Batch
<1>5. Knows(r)'
  BY <1>1, <1>2, <1>4 DEF Knows, Promoted
<1>6. Tabled(r)'
  <2>1. \A p \in Batch(r) : Written(p, r) /\ Written(p, r)'
    BY <1>1, <1>2 DEF Tabled, Promoted, Written
  <2>2. gone = {} => active = Batch(r)
    BY <2>1 DEF Written
  <2>. HIDE DEF gone
  <2>3. active' = active /\ gone = active \ Batch(r)
    BY <1>1 DEF gone
  <2>. QED BY <1>1, <1>4, <2>1, <2>2, <2>3 DEF Tabled, Promoted, Retired, Written
<1>7. Diffed(r)'
  <2>1. fields'[r] = Fields
    BY <1>1, <1>2 DEF Diffed
  <2>. QED BY <1>4, <2>1, <1>1 DEF Diffed, Retired
<1>. QED BY <1>1, <1>3, <1>5, <1>6, <1>7, Apart

(* Only what the batch lacks is retired, and the batch is within the band.  *)
LEMMA RetireInv ==
  ASSUME OneWorkflow, SpineInv, NEW r \in Runs, Spine!RetireChunk(r)
  PROVE  SpineInv'
<1>. USE SpineConstants DEF SpineInv
<1>1. UNCHANGED <<object, watermark, parcel, changes, head, batch, fields, entries, run,
                  failures>>
  BY DEF Spine!RetireChunk
<1>2. /\ at[r] = "retire" /\ batch[r] \in Spine!Versions /\ batch[r] <= object
      /\ Batch(r)' = Batch(r) /\ Batch(r) \subseteq Parcels
      /\ left[r] = active \ Batch(r) /\ Batch(r) \subseteq active
      /\ watermark # Null => watermark <= batch[r]
  BY <1>1 DEF Spine!RetireChunk, Knows, Tabled, Written, Promoted, TableTyped, Batch,
              Spine!Versions
<1>3. PICK C \in SUBSET left[r] :
        /\ active' = active \ C
        /\ left' = [left EXCEPT ![r] = @ \ C]
        /\ at' = [at EXCEPT ![r] = IF C = left[r] THEN "diff" ELSE "retire"]
  BY DEF Spine!RetireChunk, Spine!Chunks, Spine!Goto
<1>4. active' \subseteq active /\ Batch(r) \subseteq active'
  BY <1>2, <1>3
<1>5. TableTyped'
  BY <1>1, <1>4 DEF TableTyped
<1>6. LocalTyped'
  BY <1>1, <1>3 DEF LocalTyped, Spine!RunPC
<1>7. ASSUME watermark # Null PROVE Spine!TableCovers'
  <2>1. watermark \in Int /\ batch[r] \in Int /\ object \in Int
    BY <1>2, <1>7 DEF TableTyped, Spine!Versions
  <2>2. ASSUME NEW p \in Parcels PROVE
          IF p \in DOMAIN Content[watermark]
          THEN \/ p \in active' /\ parcel[p] >= watermark
               \/ \E v \in watermark + 1 .. object : p \notin DOMAIN Content[v]
          ELSE p \in active' => parcel[p] > watermark
    <3>1. CASE p \in C /\ p \in DOMAIN Content[watermark]
      <4>1. p \notin DOMAIN Content[batch[r]]
        BY <1>2, <1>3, <3>1 DEF Batch
      <4>2. batch[r] \in watermark + 1 .. object
        BY <1>2, <1>7, <2>1, <3>1, <4>1
      <4>. QED BY <3>1, <4>1, <4>2
    <3>2. CASE p \notin C \/ p \notin DOMAIN Content[watermark]
      BY <1>3, <1>4, <1>7, <3>2 DEF Recorded, Spine!TableCovers
    <3>. QED BY <3>1, <3>2
  <2>. QED BY <1>1, <2>2 DEF Spine!TableCovers
<1>8. watermark # Null => Spine!LoggedUpToWatermark'
  BY <1>1, <1>4 DEF Recorded, Spine!LoggedUpToWatermark, Spine!Latest
<1>9. Spine!NoMassRetire'
  <2>1. IsFiniteSet(active') /\ Cardinality(Batch(r)) <= Cardinality(active')
    BY <1>4, <1>5, FS_Subset DEF TableTyped
  <2>2. Cardinality(Batch(r)) \in Nat /\ Cardinality(active') \in Nat
    BY <1>2, <2>1, FS_Subset, FS_CardinalityType
  <2>3. Cardinality(Batch(r)) >= LowRows
    BY <1>2, <2>2 DEF Knows, Promoted, Spine!InBand
  <2>. QED BY <2>1, <2>2, <2>3, SpineCounts DEF Spine!NoMassRetire
<1>10. Recorded' /\ Spine!HistoryIsChain'
  BY <1>1, <1>7, <1>8, <1>9 DEF Recorded, Spine!HistoryIsChain
<1>11. /\ at'[r] \in {"diff", "retire"} /\ left'[r] = left[r] \ C
       /\ at'[r] = "diff" => C = left[r]
  BY <1>3 DEF LocalTyped
<1>12. Knows(r)'
  BY <1>1, <1>2, <1>11 DEF Knows, Promoted
<1>13. Tabled(r)'
  <2>1. \A p \in Batch(r) : Written(p, r)'
    BY <1>1, <1>2, <1>4 DEF Tabled, Promoted, Written
  <2>2. left'[r] = active' \ Batch(r)
    BY <1>2, <1>3, <1>11
  <2>3. at'[r] = "diff" => active' = Batch(r)
    BY <1>2, <1>3, <1>4, <1>11
  <2>. QED BY <1>2, <1>11, <2>1, <2>2, <2>3 DEF Tabled, Retired
<1>14. Diffed(r)'
  BY <1>1, <1>2, <1>11 DEF Diffed, Retired
<1>15. \A q \in Runs : q = r
  BY DEF OneWorkflow
<1>. QED BY <1>5, <1>6, <1>10, <1>12, <1>13, <1>14, <1>15

(* The statement selects what its field's history lacks. *)
LEMMA DiffInv ==
  ASSUME OneWorkflow, SpineInv, NEW r \in Runs, Spine!DiffField(r)
  PROVE  SpineInv'
<1>. USE SpineConstants DEF SpineInv
<1>1. UNCHANGED <<object, watermark, parcel, active, changes, head, batch, left, run,
                  failures>>
  BY DEF Spine!DiffField, Spine!Table
<1>2. PICK f \in fields[r] : /\ entries' = [entries EXCEPT ![r] = Spine!FieldDiff(f)]
                             /\ fields' = [fields EXCEPT ![r] = @ \ {f}]
  BY DEF Spine!DiffField
<1>3. at[r] = "diff" /\ at' = [at EXCEPT ![r] = "insert"] /\ f \in Fields
  BY DEF Spine!DiffField, Spine!Goto, LocalTyped
<1>4. LocalTyped'
  BY <1>1, <1>2, <1>3 DEF LocalTyped, Spine!RunPC
<1>5. /\ at'[r] = "insert" /\ entries'[r] = Spine!FieldDiff(f) /\ fields'[r] = fields[r] \ {f}
      /\ Batch(r)' = Batch(r)
  BY <1>1, <1>2, <1>3 DEF LocalTyped, Batch
<1>6. Knows(r)' /\ Tabled(r)'
  BY <1>1, <1>3, <1>5 DEF Knows, Tabled, Promoted, Retired, Written
<1>7. ASSUME NEW p \in active
      PROVE  /\ Spine!Latest(<<p, f>>) \in Values
             /\ Spine!Value(parcel[p], p, f) \in Values
  <2>1. p \in Parcels /\ parcel[p] \in Spine!Versions
    BY DEF TableTyped, Spine!Versions
  <2>. QED BY <1>3, <2>1, LatestValue DEF Values, Spine!Series
<1>8. ASSUME NEW e \in Spine!FieldDiff(f)
      PROVE  /\ e \in [parcel : active, field : Fields, old : Values, new : Values]
             /\ e.field = f
             /\ e.old = Spine!Latest(<<e.parcel, e.field>>)
             /\ e.new = Spine!Value(parcel[e.parcel], e.parcel, e.field)
             /\ e.old # e.new
  <2>1. PICK p \in active :
          /\ e = [parcel |-> p, field |-> f, old |-> Spine!Latest(<<p, f>>),
                  new |-> Spine!Value(parcel[p], p, f)]
          /\ Spine!Value(parcel[p], p, f) # Spine!Latest(<<p, f>>)
    BY DEF Spine!FieldDiff
  <2>2. /\ e.parcel = p /\ e.field = f /\ e.old = Spine!Latest(<<p, f>>)
        /\ e.new = Spine!Value(parcel[p], p, f)
    BY <2>1
  <2>3. e.old \in Values /\ e.new \in Values
    BY <1>7, <2>2
  <2>. QED BY <1>3, <2>1, <2>2, <2>3
<1>9. ASSUME NEW p \in active, NEW g \in Fields \ fields'[r]
      PROVE  Logged(p, g) \/ \E e \in entries'[r] : e.parcel = p /\ e.field = g
  <2>1. CASE g \in fields[r]
    <3>1. g = f
      BY <1>5, <2>1
    <3>2. CASE Logged(p, f)
      BY <3>1, <3>2
    <3>3. CASE ~ Logged(p, f)
      <4>. DEFINE e == [parcel |-> p, field |-> f, old |-> Spine!Latest(<<p, f>>),
                        new |-> Spine!Value(parcel[p], p, f)]
      <4>1. e \in Spine!FieldDiff(f)
        BY <3>3 DEF Logged, Spine!FieldDiff
      <4>. QED BY <1>5, <3>1, <4>1
    <3>. QED BY <3>2, <3>3
  <2>2. CASE g \notin fields[r]
    BY <1>3, <2>2 DEF Diffed, Retired
  <2>. QED BY <2>1, <2>2
<1>10. Diffed(r)'
  <2>1. \A p, g : Logged(p, g)' <=> Logged(p, g)
    BY <1>1 DEF Logged, Spine!Latest
  <2>2. \A s : Spine!Latest(s)' = Spine!Latest(s)
    BY <1>1 DEF Spine!Latest
  <2>3. /\ entries'[r] \subseteq [parcel : active, field : Fields, old : Values, new : Values]
        /\ \A e \in entries'[r] :
             /\ e.old = Spine!Latest(<<e.parcel, e.field>>)'
             /\ e.new = Spine!Value(parcel[e.parcel], e.parcel, e.field)
             /\ e.old # e.new
    BY <1>5, <1>8, <2>2
  <2>4. \A p \in active, g \in Fields \ fields'[r] :
          Logged(p, g)' \/ \E e \in entries'[r] : e.parcel = p /\ e.field = g
    BY <1>9, <2>1
  <2>. QED BY <1>1, <1>5, <2>3, <2>4 DEF Diffed
<1>. QED BY <1>1, <1>4, <1>6, <1>10, Apart

(* What an insert does to one history: nothing, or one entry at its end. *)
LEMMA Inserted ==
  ASSUME SpineInv, NEW r \in Runs, Spine!InsertEntries(r), NEW s \in Spine!Series
  PROVE  \/ /\ changes'[s] = changes[s] /\ Spine!Latest(s)' = Spine!Latest(s)
            /\ ~ \E e \in entries[r] : <<e.parcel, e.field>> = s
         \/ \E e \in entries[r] :
              /\ <<e.parcel, e.field>> = s
              /\ e.old \in Values /\ e.new \in Values
              /\ changes'[s] = Append(changes[s], [old |-> e.old, new |-> e.new])
              /\ Spine!Latest(s)' = e.new
<1>. USE DEF SpineInv
<1>. DEFINE mine == {e \in entries[r] : <<e.parcel, e.field>> = s}
            chosen == CHOOSE e \in mine : TRUE
<1>1. changes'[s] = IF mine = {} THEN changes[s]
                    ELSE Append(changes[s], [old |-> chosen.old, new |-> chosen.new])
  BY DEF Spine!InsertEntries
<1>2. changes[s] \in Seq(Changes)
  BY DEF TableTyped
<1>3. CASE mine = {}
  BY <1>1, <1>3 DEF Spine!Latest
<1>4. CASE mine # {}
  <2>1. chosen \in mine
    BY <1>4
  <2>. HIDE DEF mine, chosen
  <2>2. chosen \in entries[r] /\ <<chosen.parcel, chosen.field>> = s
    BY <2>1 DEF mine
  <2>3. chosen.old \in Values /\ chosen.new \in Values
    BY <2>2 DEF Diffed, Spine!InsertEntries
  <2>. DEFINE entry == [old |-> chosen.old, new |-> chosen.new]
  <2>4. changes'[s] = Append(changes[s], entry) /\ entry \in Changes
    BY <1>1, <1>4, <2>3 DEF Changes
  <2>5. changes'[s] # <<>> /\ changes'[s][Len(changes'[s])] = entry
    BY <1>2, <2>4
  <2>6. Spine!Latest(s)' = chosen.new
    BY <2>5 DEF Spine!Latest
  <2>. QED BY <2>2, <2>3, <2>4, <2>6
<1>. QED BY <1>3, <1>4

(* A new entry starts from the value that was the latest one. *)
LEMMA ChainKept ==
  ASSUME SpineInv, NEW r \in Runs, Spine!InsertEntries(r), NEW s \in Spine!Series,
         NEW i \in 1 .. Len(changes'[s])
  PROVE  /\ changes'[s][i].old = IF i = 1 THEN Null ELSE changes'[s][i - 1].new
         /\ changes'[s][i].old # changes'[s][i].new
<1>. USE DEF SpineInv
<1>1. changes[s] \in Seq(Changes)
  BY DEF TableTyped
<1>2. \A j \in 1 .. Len(changes[s]) :
        /\ changes[s][j].old = IF j = 1 THEN Null ELSE changes[s][j - 1].new
        /\ changes[s][j].old # changes[s][j].new
  BY DEF Spine!HistoryIsChain
<1>3. CASE changes'[s] = changes[s]
  BY <1>2, <1>3
<1>4. CASE changes'[s] # changes[s]
  <2>1. PICK e \in entries[r] :
          /\ <<e.parcel, e.field>> = s /\ e.old \in Values /\ e.new \in Values
          /\ changes'[s] = Append(changes[s], [old |-> e.old, new |-> e.new])
    BY <1>4, Inserted
  <2>2. e.old = Spine!Latest(s) /\ e.old # e.new
    BY <2>1 DEF Diffed, Spine!InsertEntries
  <2>. DEFINE entry == [old |-> e.old, new |-> e.new]
  <2>3. entry \in Changes /\ entry.old = e.old /\ entry.new = e.new
    BY <2>1 DEF Changes
  <2>. HIDE DEF entry
  <2>4. changes'[s] = Append(changes[s], entry)
    BY <2>1 DEF entry
  <2>5. /\ Len(changes'[s]) = Len(changes[s]) + 1 /\ changes'[s][Len(changes[s]) + 1] = entry
        /\ \A j \in 1 .. Len(changes[s]) : changes'[s][j] = changes[s][j]
        /\ Len(changes[s]) \in Nat
    BY <1>1, <2>3, <2>4
  <2>6. CASE i \in 1 .. Len(changes[s])
    <3>1. i # 1 => i - 1 \in 1 .. Len(changes[s])
      BY <2>5, <2>6
    <3>. QED BY <1>2, <2>5, <2>6, <3>1
  <2>7. CASE i = Len(changes[s]) + 1
    <3>1. CASE changes[s] = <<>>
      <4>1. i = 1 /\ Spine!Latest(s) = Null
        BY <2>7, <3>1 DEF Spine!Latest
      <4>. QED BY <2>2, <2>3, <2>5, <2>7, <4>1
    <3>2. CASE changes[s] # <<>>
      <4>1. /\ Spine!Latest(s) = changes[s][Len(changes[s])].new
            /\ Len(changes[s]) \in 1 .. Len(changes[s])
        BY <1>1, <3>2 DEF Spine!Latest
      <4>. QED BY <2>2, <2>3, <2>5, <2>7, <4>1
    <3>. QED BY <3>1, <3>2
  <2>. QED BY <2>5, <2>6, <2>7
<1>. QED BY <1>3, <1>4

LEMMA InsertInv ==
  ASSUME OneWorkflow, SpineInv, NEW r \in Runs, Spine!InsertEntries(r)
  PROVE  SpineInv'
<1>. USE SpineConstants DEF SpineInv
<1>1. UNCHANGED <<object, watermark, parcel, active, head, batch, left, fields, entries,
                  run, failures>>
  BY DEF Spine!InsertEntries, Spine!Table, Spine!local
<1>2. /\ at[r] = "insert"
      /\ at' = [at EXCEPT ![r] = IF fields[r] = {} THEN "watermark" ELSE "diff"]
  BY DEF Spine!InsertEntries, Spine!Goto
<1>3. TableTyped'
  <2>1. ASSUME NEW s \in Spine!Series PROVE changes'[s] \in Seq(Changes)
    <3>1. changes[s] \in Seq(Changes)
      BY DEF TableTyped
    <3>2. ASSUME NEW e, e.old \in Values, e.new \in Values
          PROVE  Append(changes[s], [old |-> e.old, new |-> e.new]) \in Seq(Changes)
      <4>1. [old |-> e.old, new |-> e.new] \in Changes
        BY <3>2 DEF Changes
      <4>. QED BY <3>1, <4>1
    <3>. QED BY <3>1, <3>2, Inserted
  <2>2. DOMAIN changes' = Spine!Series /\ changes' = [s \in Spine!Series |-> changes'[s]]
    BY DEF Spine!InsertEntries
  <2>3. changes' \in [Spine!Series -> Seq(Changes)]
    BY <2>1, <2>2
  <2>. QED BY <1>1, <2>3 DEF TableTyped
<1>4. LocalTyped'
  BY <1>1, <1>2 DEF LocalTyped, Spine!RunPC
<1>5. /\ at'[r] \in {"watermark", "diff"} /\ Batch(r)' = Batch(r)
      /\ (at'[r] = "watermark" => fields[r] = {})
  BY <1>1, <1>2 DEF LocalTyped, Batch
(* An entry brings its history to the value of its row. *)
<1>6. ASSUME NEW p \in active, NEW f \in Fields,
             Logged(p, f) \/ \E e \in entries[r] : e.parcel = p /\ e.field = f
      PROVE  Logged(p, f)'
  <2>1. <<p, f>> \in Spine!Series
    BY DEF TableTyped, Spine!Series
  <2>2. \A e \in entries[r] : e.new = Spine!Value(parcel[e.parcel], e.parcel, e.field)
    BY <1>2 DEF Diffed
  <2>3. CASE \E e \in entries[r] : /\ <<e.parcel, e.field>> = <<p, f>>
                                   /\ Spine!Latest(<<p, f>>)' = e.new
    BY <1>1, <2>2, <2>3 DEF Logged
  <2>4. CASE /\ Spine!Latest(<<p, f>>)' = Spine!Latest(<<p, f>>)
             /\ ~ \E e \in entries[r] : <<e.parcel, e.field>> = <<p, f>>
    <3>1. Logged(p, f)
      BY <1>6, <2>4
    <3>. QED BY <1>1, <2>4, <3>1 DEF Logged
  <2>. QED BY <2>1, <2>3, <2>4, Inserted
<1>7. ASSUME watermark # Null PROVE Spine!LoggedUpToWatermark'
  <2>1. ASSUME NEW p \in active, NEW f \in Fields, parcel[p] <= watermark
        PROVE Logged(p, f)'
    <3>1. Logged(p, f)
      BY <1>7, <2>1 DEF Recorded, Spine!LoggedUpToWatermark, Logged
    <3>. QED BY <1>6, <3>1
  <2>. QED BY <1>1, <2>1 DEF Spine!LoggedUpToWatermark, Logged
<1>8. Recorded'
  BY <1>1, <1>7 DEF Recorded, Spine!TableCovers, Spine!NoMassRetire
<1>9. Spine!HistoryIsChain'
  BY ChainKept DEF Spine!HistoryIsChain
<1>10. Knows(r)' /\ Tabled(r)'
  BY <1>1, <1>2, <1>5 DEF Knows, Tabled, Promoted, Retired, Written
<1>11. Diffed(r)'
  <2>1. ASSUME NEW p \in active, NEW f \in Fields \ fields[r] PROVE Logged(p, f)'
    <3>1. Logged(p, f) \/ \E e \in entries[r] : e.parcel = p /\ e.field = f
      BY <1>2 DEF Diffed, Retired
    <3>. QED BY <1>6, <3>1
  <2>. QED BY <1>1, <1>5, <2>1 DEF Diffed, Retired
<1>12. \A q \in Runs : q = r
  BY DEF OneWorkflow
<1>. QED BY <1>3, <1>4, <1>8, <1>9, <1>10, <1>11, <1>12

(* When the watermark is written, table and change log are at the batch,    *)
(* which is at least as new.                                                *)
LEMMA WatermarkInv ==
  ASSUME OneWorkflow, SpineInv, NEW r \in Runs, Spine!WriteWatermark(r)
  PROVE  SpineInv'
<1>. USE SpineConstants DEF SpineInv
<1>1. UNCHANGED <<object, parcel, active, changes, head, batch, left, fields, entries,
                  run, failures>>
  BY DEF Spine!WriteWatermark, Spine!Table, Spine!local
<1>2. /\ at[r] = "watermark" /\ at' = [at EXCEPT ![r] = "close"]
      /\ watermark' = IF head[r] = Null THEN watermark ELSE head[r]
  BY DEF Spine!WriteWatermark, Spine!Goto
<1>3. /\ batch[r] \in Spine!Versions /\ batch[r] <= object /\ object \in Int
      /\ head[r] # Null => head[r] \in Spine!Versions /\ head[r] <= batch[r]
      /\ active = Batch(r) /\ \A p \in active : parcel[p] = batch[r]
      /\ fields[r] = {}
  BY <1>2 DEF Knows, Tabled, Diffed, Written, Promoted, Retired, TableTyped, LocalTyped,
              Spine!Versions
<1>4. TableTyped'
  BY <1>1, <1>2, <1>3 DEF TableTyped, Spine!Versions
<1>5. LocalTyped'
  BY <1>1, <1>2 DEF LocalTyped, Spine!RunPC
<1>6. ASSUME head[r] # Null PROVE Recorded'
  <2>1. watermark' = head[r] /\ head[r] \in Int /\ batch[r] \in Int
    BY <1>2, <1>3, <1>6 DEF Spine!Versions
  <2>2. ASSUME NEW p \in Parcels PROVE
          IF p \in DOMAIN Content[head[r]]
          THEN \/ p \in active /\ parcel[p] >= head[r]
               \/ \E v \in head[r] + 1 .. object : p \notin DOMAIN Content[v]
          ELSE p \in active => parcel[p] > head[r]
    <3>1. CASE p \in active
      BY <1>3, <1>6, <2>1, <3>1 DEF Batch
    <3>2. CASE p \notin active /\ p \in DOMAIN Content[head[r]]
      <4>1. p \notin DOMAIN Content[batch[r]]
        BY <1>3, <3>2 DEF Batch
      <4>2. batch[r] \in head[r] + 1 .. object
        BY <1>3, <1>6, <2>1, <3>2, <4>1
      <4>. QED BY <3>2, <4>1, <4>2
    <3>. QED BY <3>1, <3>2
  <2>3. Spine!TableCovers'
    BY <1>1, <2>1, <2>2 DEF Spine!TableCovers
  <2>4. \A p \in active, f \in Fields : Logged(p, f)
    BY <1>2, <1>3 DEF Diffed, Retired
  <2>5. Spine!LoggedUpToWatermark'
    BY <1>1, <2>4 DEF Spine!LoggedUpToWatermark, Logged, Spine!Latest
  <2>6. Cardinality(active) \in Nat /\ Cardinality(active) >= LowRows
    BY <1>2, <1>3, FS_Subset, FS_CardinalityType DEF Knows, Promoted, Spine!InBand,
                                                     TableTyped
  <2>7. Spine!NoMassRetire'
    BY <1>1, <2>6, SpineCounts DEF Spine!NoMassRetire
  <2>. QED BY <2>3, <2>5, <2>7 DEF Recorded
<1>7. ASSUME head[r] = Null PROVE Recorded'
  BY <1>1, <1>2, <1>7 DEF Recorded, Spine!TableCovers, Spine!LoggedUpToWatermark,
                          Spine!NoMassRetire,
                          Spine!Latest
<1>8. Spine!HistoryIsChain'
  BY <1>1 DEF Spine!HistoryIsChain
<1>9. at'[r] = "close"
  BY <1>2 DEF LocalTyped
<1>10. Knows(r)' /\ Tabled(r)' /\ Diffed(r)'
  BY <1>9, BeforeFetch DEF Knows, Promoted
<1>11. \A q \in Runs : q = r
  BY DEF OneWorkflow
<1>. QED BY <1>4, <1>5, <1>6, <1>7, <1>8, <1>10, <1>11

LEMMA SpineNextInv ==
  ASSUME OneWorkflow PROVE SpineInv /\ [Spine!Next]_(Spine!vars) => SpineInv'
<1>. SUFFICES ASSUME SpineInv, [Spine!Next]_(Spine!vars) PROVE SpineInv'
  OBVIOUS
<1>1. CASE Spine!Publish
  BY <1>1, PublishInv
<1>2. ASSUME NEW r \in Runs,
             Spine!Open(r) \/ Spine!Close(r) \/ Spine!GetOutOfBand(r) \/ Spine!Fail(r)
      PROVE  SpineInv'
  BY <1>2, OpenInv
<1>3. ASSUME NEW r \in Runs, Spine!FetchHead(r) PROVE SpineInv'
  BY <1>3, FetchHeadInv
<1>4. ASSUME NEW r \in Runs, Spine!Get(r) PROVE SpineInv'
  BY <1>4, GetInv
<1>5. ASSUME NEW r \in Runs, Spine!PromoteChunk(r) PROVE SpineInv'
  BY <1>5, PromoteInv
<1>6. ASSUME NEW r \in Runs, Spine!RetireRead(r) \/ Spine!RetireChunk(r) PROVE SpineInv'
  BY <1>6, RetireReadInv, RetireInv
<1>7. ASSUME NEW r \in Runs, Spine!DiffField(r) \/ Spine!InsertEntries(r) PROVE SpineInv'
  BY <1>7, DiffInv, InsertInv
<1>8. ASSUME NEW r \in Runs, Spine!WriteWatermark(r) PROVE SpineInv'
  BY <1>8, WatermarkInv
<1>9. CASE UNCHANGED Spine!vars
  <2>1. UNCHANGED <<object, watermark, parcel, active, changes, at, head, batch, left,
                    fields, entries,
                    run, failures>>
    BY <1>9 DEF Spine!vars, Spine!local
  <2>2. (TableTyped /\ LocalTyped /\ Recorded /\ Spine!HistoryIsChain)'
    BY <2>1 DEF SpineInv, TableTyped, LocalTyped, Recorded, Spine!HistoryIsChain,
                Spine!TableCovers,
                Spine!LoggedUpToWatermark, Spine!NoMassRetire, Spine!Latest
  <2>3. \A r \in Runs : Knows(r)' /\ Tabled(r)' /\ Diffed(r)'
    BY <2>1 DEF SpineInv, Knows, Tabled, Diffed, Batch, Written, Logged, Spine!Latest
  <2>. QED BY <2>2, <2>3 DEF SpineInv
<1>. QED BY <1>1, <1>2, <1>3, <1>4, <1>5, <1>6, <1>7, <1>8, <1>9 DEF Spine!Next, Spine!Step

(* Where one workflow runs the worker, the recorded version is in the table *)
(* and in the change log, however often a promote, a retire or a diff was   *)
(* cut short and taken up again, and whichever version the next attempt     *)
(* fetched (run.ts, runSource; changeLog.ts).                               *)
THEOREM WatermarkNeverAhead == ASSUME OneWorkflow PROVE Spec => []WatermarkSound
<1>1. Init => SpineInv
  BY SpineInitInv DEF Init
<1>2. SpineInv /\ [Next]_vars => SpineInv'
  <2>1. [Next]_vars => [Spine!Next]_(Spine!vars)
    BY DEF Next, vars, OnSpine, OnHistory, OnDerived, spineVars, Spine!vars, Spine!local
  <2>. QED BY <2>1, SpineNextInv
<1>3. SpineInv => WatermarkSound
  <2>1. SpineInv => Spine!TypeOK
    BY DEF SpineInv, TableTyped, LocalTyped, Spine!TypeOK
  <2>. QED BY <2>1 DEF SpineInv, Recorded, WatermarkSound, Spine!WatermarkSound
<1>. QED BY <1>1, <1>2, <1>3, PTL DEF Spec

-----------------------------------------------------------------------------
(* The event histories *)

Rows == [subject : History!Subjects, state : {"open", "closed"}]

RowsTyped ==
  /\ city \in Seq(Rows) /\ cursor \in 0 .. Len(city)
  /\ rows \in Seq(Rows) /\ cursor + Len(rows) <= Len(city)
  /\ actual \in [History!Subjects -> History!States]
  /\ stage \in {"idle", "promote", "appeared", "cleared", "persist"}
  /\ misses \in 0 .. MaxFaults

SubjectsTyped ==
  /\ row \in [History!Subjects -> {"none", "open", "closed"}]
  /\ log \in [History!Subjects -> Seq(History!Events)]
  /\ flips \in [History!Subjects -> Nat]

(* What the history of one subject and its row have to do with each other:  *)
(* an appearance has an odd place, and the row is open after an odd number  *)
(* of flips, so that an event follows only a flip not yet in the history.   *)
Story(s) ==
  /\ \A i \in DOMAIN log[s] : /\ log[s][i] = "appeared" <=> i = 1
                              /\ log[s][i] = "cleared" <=> i % 2 = 0
  /\ Len(log[s]) <= flips[s]
  /\ row[s] = "open" <=> flips[s] % 2 = 1
  /\ log[s] # <<>> => History!Keyed(s) /\ row[s] # "none"

(* How far the statements after the promote have come. *)
Told(s) ==
  /\ stage = "cleared" => (History!IsOpen(s) => History!Standing(s))
  /\ stage = "persist" => (History!Standing(s) <=> History!IsOpen(s))

HistoryInv ==
  /\ RowsTyped /\ SubjectsTyped
  /\ \A s \in History!Subjects : Story(s)
  /\ \A s \in Violations : Told(s)

-----------------------------------------------------------------------------

LEMMA HistoryConstants ==
  /\ BatchSize \in Nat \ {0} /\ MaxFaults \in Nat /\ Violations \subseteq History!Subjects
  /\ Violations \cap Delinquents = {} /\ History!Subjects = Violations \cup Delinquents
BY ConstantsAssumption DEF History!ConstantsOK, History!Subjects

(* A subject stands after an odd number of events. *)
LEMMA Odd ==
  ASSUME SubjectsTyped, NEW s \in History!Subjects, Story(s)
  PROVE  /\ Len(log[s]) \in Nat
         /\ History!Standing(s) <=> Len(log[s]) % 2 = 1
<1>1. log[s] \in Seq(History!Events) /\ Len(log[s]) \in Nat
  BY DEF SubjectsTyped
<1>2. CASE log[s] = <<>>
  BY <1>2 DEF History!Standing
<1>3. CASE log[s] # <<>>
  <2>. DEFINE n == Len(log[s])
  <2>1. n \in DOMAIN log[s] /\ n \in Nat \ {0} /\ log[s][n] \in History!Events
    BY <1>1, <1>3
  <2>2. log[s][n] = "cleared" <=> n % 2 = 0
    BY <2>1 DEF Story
  <2>3. History!Last(log[s]) = log[s][n]
    BY DEF History!Last
  <2>4. History!Standing(s) <=> log[s][n] # "cleared"
    BY <1>3, <2>1, <2>3 DEF History!Standing, History!Events
  <2>. HIDE DEF n
  <2>5. n % 2 \in {0, 1}
    BY <2>1
  <2>6. History!Standing(s) <=> n % 2 = 1
    BY <2>2, <2>4, <2>5
  <2>. QED BY <1>1, <2>6 DEF n
<1>. QED BY <1>2, <1>3

LEMMA HistoryInitInv == History!Init => HistoryInv
<1>. SUFFICES ASSUME History!Init PROVE HistoryInv
  OBVIOUS
<1>. USE HistoryConstants DEF History!Init
<1>1. RowsTyped
  BY DEF RowsTyped, History!States
<1>2. SubjectsTyped
  BY DEF SubjectsTyped
<1>3. ASSUME NEW s \in History!Subjects PROVE Story(s)
  BY DEF Story
<1>4. \A s \in Violations : Told(s)
  BY DEF Told
<1>. QED BY <1>1, <1>2, <1>3, <1>4 DEF HistoryInv

(* Steps of the city and of the run that leave the rows and the histories.  *)
LEMMA CityInv ==
  ASSUME HistoryInv, NEW s \in History!Subjects,
         \/ History!Leave(s)
         \/ \E state \in {"open", "closed"} : History!Publish(s, state)
  PROVE  HistoryInv'
<1>. USE HistoryConstants DEF HistoryInv
<1>1. UNCHANGED <<cursor, row, log, stage, rows, flips, misses>>
  BY DEF History!Leave, History!Publish
<1>2. RowsTyped'
  <2>1. city' = city \/ \E state \in {"open", "closed"} :
          city' = Append(city, [subject |-> s, state |-> state])
    BY DEF History!Leave, History!Publish
  <2>2. city' \in Seq(Rows) /\ Len(city) <= Len(city')
    <3>1. city \in Seq(Rows) /\ Len(city) \in Nat
      BY DEF RowsTyped
    <3>2. ASSUME NEW e \in Rows, city' = Append(city, e)
          PROVE  city' \in Seq(Rows) /\ Len(city) <= Len(city')
      BY <3>1, <3>2
    <3>3. \A state \in {"open", "closed"} : [subject |-> s, state |-> state] \in Rows
      BY DEF Rows
    <3>. QED BY <2>1, <3>1, <3>2, <3>3
  <2>3. actual' \in [History!Subjects -> History!States]
    BY DEF RowsTyped, History!Leave, History!Publish, History!States
  <2>. QED BY <1>1, <2>2, <2>3 DEF RowsTyped
<1>. QED BY <1>1, <1>2 DEF SubjectsTyped, Story, Told, History!IsOpen, History!Standing

LEMMA RunInv ==
  ASSUME HistoryInv, History!Fetch \/ History!Persist \/ History!Fail
  PROVE  HistoryInv'
<1>. USE HistoryConstants DEF HistoryInv
<1>1. UNCHANGED <<city, actual, row, log, flips>> /\ stage' \in {"idle", "promote"}
  BY DEF History!Fetch, History!Persist, History!Fail
<1>2. CASE History!Fetch
  <2>. DEFINE end == IF Len(city) - cursor < BatchSize THEN Len(city) ELSE cursor + BatchSize
  <2>1. end \in cursor + 1 .. Len(city) /\ end \in Nat /\ cursor \in Nat
    BY <1>2 DEF RowsTyped, History!Fetch
  <2>2. rows' = SubSeq(city, cursor + 1, end) /\ cursor' = cursor /\ misses' = misses
    BY <1>2 DEF History!Fetch
  <2>. HIDE DEF end
  <2>3. rows' \in Seq(Rows) /\ Len(rows') = end - cursor
    BY <2>1, <2>2, SubSeqProperties DEF RowsTyped
  <2>. QED BY <1>1, <2>1, <2>2, <2>3 DEF RowsTyped, SubjectsTyped, Story, Told
<1>3. CASE History!Persist \/ History!Fail
  <2>1. rows' = <<>> /\ cursor' \in 0 .. Len(city) /\ misses' \in 0 .. MaxFaults
    BY <1>3 DEF RowsTyped, History!Persist, History!Fail
  <2>. QED BY <1>1, <2>1 DEF RowsTyped, SubjectsTyped, Story, Told
<1>. QED BY <1>2, <1>3

(* The last row of a subject in a batch is one of the city's. *)
LEMMA LastOfFact ==
  ASSUME RowsTyped, SubjectsTyped, NEW s \in History!Subjects
  PROVE  /\ History!LastOf(rows, s) \in {"none", "open", "closed"}
         /\ row[s] # "none" => History!LastOf(rows, s) # "none"
<1>. DEFINE S == {i \in DOMAIN rows : rows[i].subject = s}
            m == CHOOSE i \in S : \A j \in S : j <= i
<1>1. CASE S = {}
  BY <1>1 DEF History!LastOf, SubjectsTyped
<1>2. CASE S # {}
  <2>1. /\ DOMAIN rows = 1 .. Len(rows) /\ Len(rows) \in Nat
        /\ \A i \in DOMAIN rows : rows[i] \in Rows
    BY DEF RowsTyped
  <2>2. S \in SUBSET (0 .. Len(rows))
    BY <2>1
  <2>3. \E i \in S : \A j \in S : j <= i
    <3>. HIDE DEF S
    <3>. QED BY <1>2, <2>1, <2>2, HighestExists
  <2>4. m \in S
    <3>. HIDE DEF S
    <3>. QED BY <2>3
  <2>5. History!LastOf(rows, s) = rows[m].state
    BY <1>2 DEF History!LastOf
  <2>6. rows[m] \in Rows
    BY <2>1, <2>4
  <2>. QED BY <2>5, <2>6 DEF Rows
<1>. QED BY <1>1, <1>2

LEMMA PromoteRowsInv == ASSUME HistoryInv, History!Promote PROVE HistoryInv'
<1>. USE HistoryConstants DEF HistoryInv
<1>1. UNCHANGED <<city, actual, cursor, log, rows, misses>> /\ stage' = "appeared"
  BY DEF History!Promote
<1>2. RowsTyped'
  BY <1>1 DEF RowsTyped
<1>3. ASSUME NEW s \in History!Subjects
      PROVE  /\ row'[s] \in {"none", "open", "closed"} /\ (row[s] # "none" => row'[s] # "none")
             /\ flips'[s] = flips[s] + IF (row[s] = "open") # (row'[s] = "open") THEN 1 ELSE 0
  BY LastOfFact DEF History!Promote, History!Flip
<1>4. SubjectsTyped'
  <2>1. /\ row' \in [History!Subjects -> {"none", "open", "closed"}]
        /\ flips' = [s \in History!Subjects |-> flips'[s]]
    BY <1>3 DEF History!Promote
  <2>2. \A s \in History!Subjects : flips'[s] \in Nat
    BY <1>3 DEF SubjectsTyped
  <2>. QED BY <1>1, <2>1, <2>2 DEF SubjectsTyped
<1>5. ASSUME NEW s \in History!Subjects PROVE Story(s)'
  <2>1. Story(s) /\ flips[s] \in Nat /\ Len(log[s]) \in Nat
    BY DEF SubjectsTyped
  <2>2. flips'[s] >= flips[s] /\ (row'[s] = "open" <=> flips'[s] % 2 = 1)
    BY <1>3, <2>1 DEF Story
  <2>3. Len(log[s]) <= flips'[s]
    BY <1>3, <2>1 DEF Story
  <2>. QED BY <1>1, <1>3, <2>1, <2>2, <2>3 DEF Story
<1>6. \A s \in Violations : Told(s)'
  BY <1>1 DEF Told
<1>. QED BY <1>2, <1>4, <1>5, <1>6

(* An event is appended only where the row has flipped since the last one.  *)
LEMMA EventKeepsStory ==
  ASSUME SubjectsTyped, NEW s \in History!Subjects, Story(s), NEW e \in History!Events,
         flips' = flips, row' = row, log'[s] = Append(log[s], e),
         History!Keyed(s), row[s] # "none",
         e # "cleared" <=> row[s] = "open",
         e = "appeared" <=> log[s] = <<>>,
         e = "cleared" <=> History!Standing(s)
  PROVE  Story(s)' /\ (History!Standing(s)' <=> ~ History!Standing(s))
<1>. DEFINE n == Len(log[s])
<1>1. /\ log[s] \in Seq(History!Events) /\ n \in Nat /\ flips[s] \in Nat
      /\ log[s] = <<>> <=> n = 0
      /\ DOMAIN log[s] = 1 .. n
  BY DEF SubjectsTyped
<1>2. /\ Len(log'[s]) = n + 1 /\ DOMAIN log'[s] = 1 .. n + 1 /\ log'[s][n + 1] = e
      /\ \A i \in 1 .. n : log'[s][i] = log[s][i]
      /\ log'[s] # <<>>
  BY <1>1
<1>3. History!Standing(s) <=> n % 2 = 1
  BY Odd
<1>. HIDE DEF n
<1>4. e = "cleared" <=> (n + 1) % 2 = 0
  BY <1>1, <1>3
<1>5. e = "appeared" <=> n + 1 = 1
  BY <1>1
<1>6. n + 1 <= flips[s]
  <2>1. n <= flips[s] /\ (row[s] = "open" <=> flips[s] % 2 = 1)
    BY DEF Story, n
  <2>2. n # flips[s]
    BY <1>1, <1>3, <2>1
  <2>. QED BY <1>1, <2>1, <2>2
<1>7. ASSUME NEW i \in 1 .. n + 1
      PROVE  (log'[s][i] = "appeared" <=> i = 1) /\ (log'[s][i] = "cleared" <=> i % 2 = 0)
  <2>1. CASE i = n + 1
    BY <1>2, <1>4, <1>5, <2>1
  <2>2. CASE i # n + 1
    <3>1. i \in 1 .. n
      BY <1>1, <2>2
    <3>. QED BY <1>1, <1>2, <3>1 DEF Story
  <2>. QED BY <2>1, <2>2
<1>8. Story(s)'
  BY <1>2, <1>6, <1>7 DEF Story, History!Keyed
<1>9. History!Last(log'[s]) = e
  BY <1>2 DEF History!Last
<1>10. History!Standing(s)' <=> e # "cleared"
  BY <1>2, <1>9 DEF History!Standing, History!Events
<1>. QED BY <1>8, <1>10

LEMMA AppearedInv == ASSUME HistoryInv, History!Appeared PROVE HistoryInv'
<1>. USE HistoryConstants DEF HistoryInv
<1>1. UNCHANGED <<city, actual, cursor, row, rows, flips, misses>> /\ stage' = "cleared"
  BY DEF History!Appeared
<1>2. RowsTyped'
  BY <1>1 DEF RowsTyped
<1>3. ASSUME NEW s \in History!Subjects
      PROVE  /\ log'[s] \in Seq(History!Events)
             /\ Story(s)'
             /\ History!IsOpen(s)' => History!Standing(s)'
  <2>. DEFINE e == IF log[s] = <<>> THEN "appeared" ELSE "reappeared"
  <2>1. Story(s) /\ log[s] \in Seq(History!Events) /\ e \in History!Events
    BY DEF SubjectsTyped, History!Events
  <2>2. History!IsOpen(s)' <=> History!IsOpen(s)
    BY <1>1 DEF History!IsOpen, History!Keyed
  <2>3. CASE History!IsOpen(s) /\ ~ History!Standing(s)
    <3>1. log'[s] = Append(log[s], e)
      BY <2>3 DEF History!Appeared
    <3>2. Story(s)' /\ History!Standing(s)'
      BY <1>1, <2>1, <2>3, <3>1, EventKeepsStory DEF History!IsOpen
    <3>. QED BY <2>1, <3>1, <3>2
  <2>4. CASE ~ (History!IsOpen(s) /\ ~ History!Standing(s))
    <3>1. log'[s] = log[s]
      BY <2>4 DEF History!Appeared
    <3>. QED BY <1>1, <2>1, <2>2, <2>4, <3>1 DEF Story, History!Standing, History!Keyed
  <2>. QED BY <2>3, <2>4
<1>4. SubjectsTyped'
  <2>1. log' = [s \in History!Subjects |-> log'[s]]
    BY DEF History!Appeared
  <2>2. log' \in [History!Subjects -> Seq(History!Events)]
    BY <1>3, <2>1
  <2>. QED BY <1>1, <2>2 DEF SubjectsTyped
<1>5. \A s \in Violations : Told(s)'
  BY <1>1, <1>3 DEF Told
<1>. QED BY <1>2, <1>3, <1>4, <1>5

LEMMA ClearedInv == ASSUME HistoryInv, History!Cleared PROVE HistoryInv'
<1>. USE HistoryConstants DEF HistoryInv
<1>1. /\ UNCHANGED <<city, actual, cursor, row, rows, flips, misses>>
      /\ stage = "cleared" /\ stage' = "persist"
  BY DEF History!Cleared
<1>2. RowsTyped'
  BY <1>1 DEF RowsTyped
<1>3. ASSUME NEW s \in History!Subjects
      PROVE  /\ log'[s] \in Seq(History!Events)
             /\ Story(s)'
             /\ s \in Violations => (History!Standing(s)' <=> History!IsOpen(s)')
  <2>1. /\ Story(s) /\ log[s] \in Seq(History!Events) /\ "cleared" \in History!Events
        /\ row[s] \in {"none", "open", "closed"}
    BY DEF SubjectsTyped, History!Events
  <2>2. History!IsOpen(s)' <=> History!IsOpen(s)
    BY <1>1 DEF History!IsOpen, History!Keyed
  <2>3. History!Standing(s) => log[s] # <<>> /\ History!Keyed(s) /\ row[s] # "none"
    BY <2>1 DEF Story, History!Standing
  <2>4. CASE History!IsOver(s) /\ History!Standing(s)
    <3>1. log'[s] = Append(log[s], "cleared")
      BY <2>4 DEF History!Cleared
    <3>2. row[s] = "closed"
      BY <2>1, <2>3, <2>4 DEF History!IsOver
    <3>3. Story(s)' /\ ~ History!Standing(s)'
      BY <1>1, <2>1, <2>3, <2>4, <3>1, <3>2, EventKeepsStory
    <3>. QED BY <2>1, <2>2, <3>1, <3>2, <3>3 DEF History!IsOpen
  <2>5. CASE ~ (History!IsOver(s) /\ History!Standing(s))
    <3>1. log'[s] = log[s]
      BY <2>5 DEF History!Cleared
    <3>2. Story(s)' /\ (History!Standing(s)' <=> History!Standing(s))
      BY <1>1, <2>1, <3>1 DEF Story, History!Standing, History!Keyed
    <3>3. s \in Violations => (History!Standing(s) <=> History!IsOpen(s))
      BY <1>1, <2>1, <2>3, <2>5 DEF Told, History!IsOver, History!IsOpen
    <3>. QED BY <2>1, <2>2, <3>1, <3>2, <3>3
  <2>. QED BY <2>4, <2>5
<1>4. SubjectsTyped'
  <2>1. log' = [s \in History!Subjects |-> log'[s]]
    BY DEF History!Cleared
  <2>2. log' \in [History!Subjects -> Seq(History!Events)]
    BY <1>3, <2>1
  <2>. QED BY <1>1, <2>2 DEF SubjectsTyped
<1>5. \A s \in Violations : Told(s)'
  BY <1>1, <1>3 DEF Told
<1>. QED BY <1>2, <1>3, <1>4, <1>5

LEMMA HistoryNextInv == HistoryInv /\ [History!Next]_(History!vars) => HistoryInv'
<1>. SUFFICES ASSUME HistoryInv, [History!Next]_(History!vars) PROVE HistoryInv'
  OBVIOUS
<1>1. CASE UNCHANGED History!vars
  BY <1>1 DEF History!vars, HistoryInv, RowsTyped, SubjectsTyped, Story, Told,
              History!IsOpen,
              History!Standing
<1>2. CASE \E s \in History!Subjects :
              \/ History!Leave(s)
              \/ \E state \in {"open", "closed"} : History!Publish(s, state)
  BY <1>2, CityInv
<1>3. CASE History!Step \/ History!Fail
  BY <1>3, RunInv, PromoteRowsInv, AppearedInv, ClearedInv DEF History!Step
<1>. QED BY <1>1, <1>2, <1>3 DEF History!Next

LEMMA HistoryHolds == HistoryInv => History!HistoryIsChanges
<1>. SUFFICES ASSUME HistoryInv PROVE History!HistoryIsChanges
  OBVIOUS
<1>. USE HistoryConstants DEF HistoryInv
<1>1. History!TypeOK
  <2>1. \A i \in DOMAIN city : city[i] \in Rows
    BY DEF RowsTyped
  <2>2. \A s \in History!Subjects : \A i \in DOMAIN log[s] : log[s][i] \in History!Events
    BY DEF SubjectsTyped
  <2>. QED BY <2>1, <2>2 DEF RowsTyped, SubjectsTyped, Rows, History!TypeOK, History!States
<1>. QED BY <1>1 DEF Story, Told, History!HistoryIsChanges, History!Alternates

-----------------------------------------------------------------------------
(* What is derived from the tables *)

Stages == {"idle", "check", "load", "stamp", "comp", "distress", "months", "snapshot", "done"}

DerivedTyped ==
  /\ day \in 0 .. MaxDay /\ faults \in 0 .. MaxFaults - 1 /\ pc \in Stages /\ force \in BOOLEAN
  /\ present \subseteq Sales /\ \A e \in present : DateOf[e] <= day
  /\ start \subseteq present
  /\ boundary \subseteq Features
  /\ comp \subseteq present /\ distress \subseteq present
  /\ metric \in [Features \X Derived!Months -> SUBSET present]
  /\ share \in [Features -> SUBSET present]
  /\ pc = "load" => todo \subseteq Features
  /\ pc = "stamp" => todo \subseteq Derived!Slots
  /\ pc \in {"months", "snapshot"} => todo \subseteq Kinds

(* A stamp is the polygon the parcel lies in, and was loaded. *)
Stamps ==
  /\ DOMAIN geo = Derived!Slots
  /\ \A s \in Derived!Slots : /\ geo[s] \in {Null, Place[s[1]][s[2]]}
                              /\ geo[s] # Null => geo[s] \in boundary

Located(p, k) == Place[p][k] \in boundary => geo[<<p, k>>] = Place[p][k]

(* How far the run has carried what it found when it began. *)
Stamped ==
  /\ pc = "stamp" => \A s \in Derived!Slots \ todo : Located(s[1], s[2])
  /\ pc \in {"comp", "distress", "months", "snapshot", "done"} =>
       \A s \in Derived!Slots : Located(s[1], s[2])

Seen(e) == Place[ParcelOf[e]][ViewKind] \in boundary
Viewed ==
  /\ pc \in {"distress", "months", "snapshot", "done"} => \A e \in start : Seen(e) => e \in comp
  /\ pc \in {"months", "snapshot", "done"} => \A e \in start : Seen(e) => e \in distress

Home(e, k)    == Place[ParcelOf[e]][k]
Cell(e, k)    == <<Home(e, k), Derived!MonthOf(DateOf[e])>>
Measured(e, k) ==
  Home(e, k) \in boundary /\ Derived!InWindow(DateOf[e]) => e \in metric[Cell(e, k)]
Shared(e, k)   == Home(e, k) \in boundary /\ Seen(e) => e \in share[Home(e, k)]
Metered ==
  /\ pc = "months" => \A e \in start, k \in Kinds \ todo : Measured(e, k)
  /\ pc \in {"snapshot", "done"} => \A e \in start, k \in Kinds : Measured(e, k)
  /\ pc = "snapshot" => \A e \in start, k \in Kinds \ todo : Shared(e, k)
  /\ pc = "done" => \A e \in start, k \in Kinds : Shared(e, k)

DerivedInv == DerivedTyped /\ Stamps /\ Stamped /\ Viewed /\ Metered

-----------------------------------------------------------------------------

LEMMA DerivedConstants ==
  /\ KindOf \in [Features -> Kinds] /\ ViewKind \in Kinds /\ Null \notin Features
  /\ \A p \in Lots, k \in Kinds : KindOf[Place[p][k]] = k
  /\ ParcelOf \in [Sales -> Lots] /\ DateOf \in [Sales -> Nat]
  /\ MonthDays \in Nat \ {0} /\ TrailingMonths \in Nat /\ MaxDay \in Nat
  /\ MaxFaults \in Nat /\ MaxFaults - 1 \in Nat
  /\ Derived!Slots = Lots \X Kinds
BY ConstantsAssumption DEF Spine!ConstantsOK, Derived!ConstantsOK, Derived!Slots

(* A day lies in its month, and months follow each other as days do. *)
LEMMA MonthFact ==
  ASSUME NEW d \in Nat
  PROVE  /\ Derived!MonthOf(d) \in Nat /\ Derived!MonthOf(d) * MonthDays <= d
         /\ \A n \in Nat : d <= n => Derived!MonthOf(d) <= Derived!MonthOf(n)
<1>. DEFINE m(x) == x \div MonthDays
<1>1. MonthDays \in Nat /\ MonthDays > 0
  BY DerivedConstants
<1>2. ASSUME NEW x \in Nat
      PROVE  m(x) \in Nat /\ MonthDays * m(x) <= x /\ x < MonthDays * m(x) + MonthDays
  BY <1>1
<1>3. ASSUME NEW n \in Nat, d <= n PROVE m(d) <= m(n)
  <2>1. m(d) \in Nat /\ m(n) \in Nat
    BY <1>2
  <2>2. MonthDays * m(d) < MonthDays * m(n) + MonthDays
    BY <1>1, <1>2, <1>3, <2>1
  <2>. HIDE DEF m
  <2>3. ASSUME NEW a \in Nat, NEW b \in Nat, MonthDays * a < MonthDays * b + MonthDays
        PROVE a <= b
    <3>1. MonthDays * b + MonthDays = MonthDays * (b + 1)
      BY <1>1
    <3>2. CASE a >= b + 1
      <4>1. MonthDays * a >= MonthDays * (b + 1)
        BY <1>1, <3>2
      <4>. QED BY <1>1, <2>3, <3>1, <4>1
    <3>. QED BY <3>2
  <2>. QED BY <2>1, <2>2, <2>3
<1>4. MonthDays * m(d) = m(d) * MonthDays
  BY <1>1, <1>2
<1>. QED BY <1>2, <1>3, <1>4 DEF Derived!MonthOf

(* The cells of the metric. *)
LEMMA CellFact ==
  ASSUME DerivedTyped, NEW e \in start, NEW k \in Kinds
  PROVE  /\ e \in present /\ e \in Sales /\ ParcelOf[e] \in Lots /\ DateOf[e] \in Nat
         /\ <<ParcelOf[e], k>> \in Derived!Slots /\ KindOf[Home(e, k)] = k
         /\ Derived!MonthOf(DateOf[e]) \in Derived!Months
<1>. USE DerivedConstants
<1>1. e \in present /\ e \in Sales /\ ParcelOf[e] \in Lots /\ DateOf[e] \in Nat
  BY DEF DerivedTyped
<1>2. DateOf[e] <= MaxDay
  BY <1>1 DEF DerivedTyped
<1>3. Derived!MonthOf(DateOf[e]) \in Nat /\ Derived!MonthOf(DateOf[e]) <= Derived!MonthOf(MaxDay)
  BY <1>1, <1>2, MonthFact
<1>4. Derived!MonthOf(MaxDay) \in Nat
  BY MonthFact
<1>5. Derived!MonthOf(DateOf[e]) \in Derived!Months
  BY <1>3, <1>4 DEF Derived!Months, Derived!MonthOf
<1>. QED BY <1>1, <1>5 DEF Home

LEMMA DerivedInitInv == Derived!Init => DerivedInv
<1>. SUFFICES ASSUME Derived!Init PROVE DerivedInv
  OBVIOUS
<1>. USE DerivedConstants DEF Derived!Init
<1>1. DerivedTyped
  <2>1. day \in 0 .. MaxDay /\ faults \in 0 .. MaxFaults - 1 /\ pc \in Stages
    BY DEF Stages
  <2>2. metric \in [Features \X Derived!Months -> SUBSET present]
    OBVIOUS
  <2>3. share \in [Features -> SUBSET present]
    OBVIOUS
  <2>4. force \in BOOLEAN
    BY Zenon
  <2>. QED BY <2>1, <2>2, <2>3, <2>4 DEF DerivedTyped
<1>2. Stamps
  <2>1. DOMAIN geo = Derived!Slots
    OBVIOUS
  <2>2. \A s \in Derived!Slots : geo[s] = Null
    OBVIOUS
  <2>. QED BY <2>1, <2>2 DEF Stamps
<1>3. Stamped /\ Viewed /\ Metered
  BY DEF Stamped, Viewed, Metered
<1>. QED BY <1>1, <1>2, <1>3 DEF DerivedInv

(* The days pass between runs, and events arrive at any time. *)
LEMMA TickInv == ASSUME DerivedInv, Derived!Tick PROVE DerivedInv'
<1>. USE DerivedConstants DEF DerivedInv
<1>1. UNCHANGED <<present, boundary, geo, comp, distress, metric, share, pc, todo, force,
                  start, faults>>
  BY DEF Derived!Tick, Derived!derived
<1>2. pc = "idle" /\ day' = day + 1 /\ day' \in 0 .. MaxDay
  BY DEF Derived!Tick, DerivedTyped
<1>3. DerivedTyped'
  <2>1. \A e \in present : DateOf[e] <= day'
    BY <1>2 DEF DerivedTyped
  <2>. QED BY <1>1, <1>2, <2>1 DEF DerivedTyped
<1>. QED BY <1>1, <1>2, <1>3 DEF Stamps, Stamped, Viewed, Metered

LEMMA ArriveInv == ASSUME DerivedInv, NEW e \in Sales, Derived!Arrive(e) PROVE DerivedInv'
<1>. USE DerivedConstants DEF DerivedInv
<1>1. UNCHANGED <<day, boundary, geo, comp, distress, metric, share, pc, todo, force,
                  start, faults>>
  BY DEF Derived!Arrive, Derived!derived
<1>2. present' = present \cup {e} /\ DateOf[e] <= day
  BY DEF Derived!Arrive
<1>3. DerivedTyped'
  BY <1>1, <1>2 DEF DerivedTyped
<1>. QED BY <1>1, <1>3 DEF Stamps, Stamped, Viewed, Metered, Located, Seen, Measured,
                           Shared,
                           Cell, Home, Derived!InWindow

LEMMA ScheduleInv ==
  ASSUME DerivedInv, Derived!Begin \/ Derived!Check \/ Derived!Finish \/ Derived!Fail
  PROVE  DerivedInv'
<1>. USE DerivedConstants DEF DerivedInv
<1>1. UNCHANGED <<day, present, boundary, geo, comp, distress, metric, share>>
  BY DEF Derived!Begin, Derived!Check, Derived!Finish, Derived!Fail, Derived!derived
<1>2. pc' \in {"idle", "check", "load", "stamp"} /\ start' \subseteq present
  BY DEF Derived!Begin, Derived!Check, Derived!Finish, Derived!Fail, DerivedTyped
<1>3. faults' \in 0 .. MaxFaults - 1 /\ force' \in BOOLEAN
  <2>1. faults' \in 0 .. MaxFaults - 1
    BY DEF Derived!Begin, Derived!Check, Derived!Finish, Derived!Fail, DerivedTyped
  <2>2. force' \in {force, FALSE, boundary = {}}
    BY DEF Derived!Begin, Derived!Check, Derived!Finish, Derived!Fail
  <2>3. force' \in BOOLEAN
    BY <2>2 DEF DerivedTyped
  <2>. QED BY <2>1, <2>3
<1>4. (pc' = "stamp" => todo' = Derived!Slots) /\ (pc' = "load" => todo' = Features)
  BY DEF Derived!Begin, Derived!Check, Derived!Finish, Derived!Fail
<1>5. DerivedTyped'
  BY <1>1, <1>2, <1>3, <1>4 DEF DerivedTyped, Stages
<1>. QED BY <1>1, <1>2, <1>4, <1>5 DEF Stamps, Stamped, Viewed, Metered

LEMMA LoadInv == ASSUME DerivedInv, Derived!Load PROVE DerivedInv'
<1>. USE DerivedConstants DEF DerivedInv
<1>1. UNCHANGED <<day, present, geo, comp, distress, metric, share, force, start, faults>>
  BY DEF Derived!Load
<1>2. PICK f \in todo : /\ boundary' = boundary \cup {f}
                        /\ \/ pc' = "stamp" /\ todo' = Derived!Slots
                           \/ pc' = pc /\ todo' = todo \ {f}
  BY DEF Derived!Load
<1>3. pc = "load" /\ f \in Features
  BY <1>2 DEF Derived!Load, DerivedTyped
<1>4. DerivedTyped'
  BY <1>1, <1>2, <1>3 DEF DerivedTyped, Stages
<1>. QED BY <1>1, <1>2, <1>3, <1>4 DEF Stamps, Stamped, Viewed, Metered

LEMMA StampInv == ASSUME DerivedInv, Derived!Stamp PROVE DerivedInv'
<1>. USE DerivedConstants DEF DerivedInv
<1>1. UNCHANGED <<day, present, boundary, comp, distress, metric, share, force, start,
                  faults>>
  BY DEF Derived!Stamp
<1>2. PICK k \in {s[2] : s \in todo} :
        /\ geo' = [s \in Derived!Slots |->
             IF s[2] = k /\ (force \/ geo[s] = Null) THEN Derived!Containing(s[1], k) ELSE geo[s]]
        /\ todo' = {s \in todo : s[2] # k}
        /\ pc' = IF {s \in todo : s[2] # k} = {} THEN "comp" ELSE pc
  BY DEF Derived!Stamp
<1>3. pc = "stamp" /\ todo \subseteq Derived!Slots
  BY DEF Derived!Stamp, DerivedTyped
<1>4. DerivedTyped'
  BY <1>1, <1>2, <1>3 DEF DerivedTyped, Stages
<1>5. ASSUME NEW s \in Derived!Slots
      PROVE  /\ geo'[s] \in {Null, Place[s[1]][s[2]]} /\ (geo'[s] # Null => geo'[s] \in boundary)
             /\ Located(s[1], s[2]) \/ s[2] = k => Located(s[1], s[2])'
  <2>1. s = <<s[1], s[2]>>
    OBVIOUS
  <2>2. CASE s[2] = k /\ (force \/ geo[s] = Null)
    <3>1. geo'[s] = IF Place[s[1]][s[2]] \in boundary THEN Place[s[1]][s[2]] ELSE Null
      BY <1>2, <2>2 DEF Derived!Containing
    <3>2. geo'[<<s[1], s[2]>>] = geo'[s]
      BY <2>1
    <3>3. Located(s[1], s[2])'
      BY <1>1, <3>1, <3>2 DEF Located
    <3>4. geo'[s] \in {Null, Place[s[1]][s[2]]} /\ (geo'[s] # Null => geo'[s] \in boundary)
      BY <3>1
    <3>. QED BY <3>3, <3>4
  <2>3. CASE ~ (s[2] = k /\ (force \/ geo[s] = Null))
    <3>1. geo'[s] = geo[s]
      BY <1>2, <2>3
    <3>2. geo[s] \in {Null, Place[s[1]][s[2]]} /\ (geo[s] # Null => geo[s] \in boundary)
      BY DEF Stamps
    <3>. QED BY <1>1, <2>1, <2>3, <3>1, <3>2 DEF Located
  <2>. QED BY <2>2, <2>3
<1>6. Stamps'
  BY <1>1, <1>2, <1>5 DEF Stamps
<1>7. ASSUME NEW s \in Derived!Slots \ todo' PROVE Located(s[1], s[2])'
  <2>1. s \notin todo \/ s[2] = k
    BY <1>2, <1>7
  <2>. QED BY <1>3, <1>5, <2>1 DEF Stamped
<1>8. Stamped'
  <2>1. pc' \in {"stamp", "comp"} /\ (pc' = "comp" => todo' = {})
    BY <1>2, <1>3
  <2>. QED BY <1>7, <2>1 DEF Stamped
<1>9. Viewed' /\ Metered'
  BY <1>2, <1>3 DEF Viewed, Metered
<1>. QED BY <1>4, <1>6, <1>8, <1>9

LEMMA ViewInv ==
  ASSUME DerivedInv, Derived!RefreshComp \/ Derived!RefreshDistress
  PROVE  DerivedInv'
<1>. USE DerivedConstants DEF DerivedInv
<1>1. UNCHANGED <<day, present, boundary, geo, metric, share, force, start, faults>>
  BY DEF Derived!RefreshComp, Derived!RefreshDistress
<1>2. Stamps' /\ Stamped'
  BY <1>1 DEF Stamps, Stamped, Located, Derived!RefreshComp, Derived!RefreshDistress
<1>3. CASE Derived!RefreshComp
  <2>1. /\ pc = "comp" /\ pc' = "distress" /\ distress' = distress
        /\ comp' = {e \in present : Derived!Placed(e, ViewKind)}
    BY <1>3 DEF Derived!RefreshComp
  <2>2. ASSUME NEW e \in start, Seen(e) PROVE e \in comp'
    <3>1. /\ e \in present /\ <<ParcelOf[e], ViewKind>> \in Derived!Slots
          /\ Place[ParcelOf[e]][ViewKind] # Null
      BY <2>2, CellFact DEF Seen, DerivedTyped
    <3>2. Located(ParcelOf[e], ViewKind)
      BY <2>1, <3>1 DEF Stamped
    <3>. QED BY <2>1, <2>2, <3>1, <3>2 DEF Located, Seen, Derived!Placed
  <2>3. DerivedTyped'
    BY <1>1, <2>1 DEF DerivedTyped, Stages
  <2>. QED BY <1>1, <1>2, <2>1, <2>2, <2>3 DEF Viewed, Metered, Seen
<1>4. CASE Derived!RefreshDistress
  <2>1. pc = "distress" /\ pc' = "months" /\ distress' = comp /\ comp' = comp /\ todo' = Kinds
    BY <1>4 DEF Derived!RefreshDistress
  <2>2. DerivedTyped'
    BY <1>1, <2>1 DEF DerivedTyped, Stages
  <2>. QED BY <1>1, <1>2, <2>1, <2>2 DEF Viewed, Metered, Seen
<1>. QED BY <1>3, <1>4

(* A month's group holds every event that was there when the run began.     *)
LEMMA MonthsInv == ASSUME DerivedInv, Derived!RecomputeMonths PROVE DerivedInv'
<1>. USE DerivedConstants DEF DerivedInv
<1>1. UNCHANGED <<day, present, boundary, geo, comp, distress, share, force, start, faults>>
  BY DEF Derived!RecomputeMonths
<1>2. PICK k \in todo :
        /\ metric' = [c \in Features \X Derived!Months |->
             IF KindOf[c[1]] = k /\ Derived!Group(c[1], c[2]) # {}
             THEN Derived!Group(c[1], c[2]) ELSE metric[c]]
        /\ \/ todo = {k} /\ pc' = "snapshot" /\ todo' = Kinds
           \/ pc' = pc /\ todo' = todo \ {k}
  BY DEF Derived!RecomputeMonths
<1>3. pc = "months" /\ k \in Kinds /\ pc' \in {"months", "snapshot"}
  BY <1>2 DEF Derived!RecomputeMonths, DerivedTyped
<1>4. DerivedTyped'
  <2>1. \A f, m : Derived!Group(f, m) \subseteq present
    BY DEF Derived!Group
  <2>2. metric' \in [Features \X Derived!Months -> SUBSET present]
    BY <1>2, <2>1 DEF DerivedTyped
  <2>. QED BY <1>1, <1>2, <1>3, <2>2 DEF DerivedTyped, Stages
<1>5. Stamps' /\ Stamped' /\ Viewed'
  BY <1>1, <1>3 DEF Stamps, Stamped, Located, Viewed, Seen
<1>6. ASSUME NEW e \in start, NEW l \in Kinds, l = k \/ Measured(e, l)
      PROVE  Measured(e, l)'
  <2>. SUFFICES ASSUME Home(e, l) \in boundary, Derived!InWindow(DateOf[e])
                PROVE  e \in metric'[Cell(e, l)]
    BY <1>1 DEF Measured, Home, Cell, Derived!InWindow
  <2>. DEFINE f == Home(e, l)
              m == Derived!MonthOf(DateOf[e])
  <2>1. /\ f \in Features /\ m \in Derived!Months /\ KindOf[f] = l
        /\ e \in present /\ <<ParcelOf[e], l>> \in Derived!Slots
    BY CellFact DEF DerivedTyped
  <2>2. CASE l = k
    <3>1. geo[<<ParcelOf[e], l>>] = f
      BY <1>3, <2>1 DEF Stamped, Located, Home
    <3>2. e \in Derived!Group(f, m)
      BY <2>1, <3>1 DEF Derived!Group
    <3>. HIDE DEF f, m
    <3>3. e \in metric'[<<f, m>>]
      BY <1>2, <2>1, <2>2, <3>2
    <3>. QED BY <3>3 DEF Cell, f, m
  <2>3. CASE l # k
    <3>1. e \in metric[<<f, m>>]
      BY <1>6, <2>3 DEF Measured, Cell
    <3>. HIDE DEF f, m
    <3>2. e \in metric'[<<f, m>>]
      BY <1>2, <2>1, <2>3, <3>1
    <3>. QED BY <3>2 DEF Cell, f, m
  <2>. QED BY <2>2, <2>3
<1>7. Metered'
  <2>1. ASSUME NEW e \in start, NEW l \in Kinds, l \notin todo \/ l = k
        PROVE Measured(e, l)'
    BY <1>3, <1>6, <2>1 DEF Metered
  <2>. QED BY <1>1, <1>2, <1>3, <2>1 DEF Metered
<1>. QED BY <1>4, <1>5, <1>7

LEMMA SnapshotInv == ASSUME DerivedInv, Derived!TakeSnapshot PROVE DerivedInv'
<1>. USE DerivedConstants DEF DerivedInv
<1>1. UNCHANGED <<day, present, boundary, geo, comp, distress, metric, force, start,
                  faults>>
  BY DEF Derived!TakeSnapshot
<1>2. PICK k \in todo :
        /\ share' = [f \in Features |->
             IF KindOf[f] = k THEN {e \in distress : geo[<<ParcelOf[e], k>>] = f} ELSE share[f]]
        /\ todo' = todo \ {k}
        /\ pc' = IF todo = {k} THEN "done" ELSE pc
  BY DEF Derived!TakeSnapshot
<1>3. pc = "snapshot" /\ k \in Kinds /\ pc' \in {"snapshot", "done"}
  BY <1>2 DEF Derived!TakeSnapshot, DerivedTyped
<1>4. DerivedTyped'
  <2>1. share' \in [Features -> SUBSET present]
    BY <1>2 DEF DerivedTyped
  <2>. QED BY <1>1, <1>2, <1>3, <2>1 DEF DerivedTyped, Stages
<1>5. Stamps' /\ Stamped' /\ Viewed'
  BY <1>1, <1>3 DEF Stamps, Stamped, Located, Viewed, Seen
<1>6. ASSUME NEW e \in start, NEW l \in Kinds, l = k \/ Shared(e, l)
      PROVE  Shared(e, l)'
  <2>. SUFFICES ASSUME Home(e, l) \in boundary, Seen(e) PROVE e \in share'[Home(e, l)]
    BY <1>1 DEF Shared, Home, Seen
  <2>1. Home(e, l) \in Features /\ KindOf[Home(e, l)] = l /\ <<ParcelOf[e], l>> \in Derived!Slots
    BY CellFact DEF DerivedTyped
  <2>2. CASE l = k
    <3>1. geo[<<ParcelOf[e], l>>] = Home(e, l) /\ e \in distress
      BY <1>3, <2>1 DEF Stamped, Located, Home, Viewed
    <3>. QED BY <1>2, <2>1, <2>2, <3>1
  <2>3. CASE l # k
    <3>1. e \in share[Home(e, l)]
      BY <1>6, <2>3 DEF Shared
    <3>. QED BY <1>2, <2>1, <2>3, <3>1
  <2>. QED BY <2>2, <2>3
<1>7. Metered'
  <2>1. ASSUME NEW e \in start, NEW l \in Kinds, l \notin todo \/ l = k PROVE Shared(e, l)'
    BY <1>3, <1>6, <2>1 DEF Metered
  <2>2. \A e \in start, l \in Kinds : Measured(e, l)'
    BY <1>1, <1>3 DEF Metered, Measured, Home, Cell, Derived!InWindow
  <2>. QED BY <1>1, <1>2, <1>3, <2>1, <2>2 DEF Metered
<1>. QED BY <1>4, <1>5, <1>7

LEMMA DerivedNextInv == DerivedInv /\ [Derived!Next]_(Derived!vars) => DerivedInv'
<1>. SUFFICES ASSUME DerivedInv, [Derived!Next]_(Derived!vars) PROVE DerivedInv'
  OBVIOUS
<1>1. CASE UNCHANGED Derived!vars
  BY <1>1 DEF Derived!vars, Derived!derived, DerivedInv, DerivedTyped, Stamps, Stamped,
              Viewed, Metered,
              Located, Seen, Measured, Shared, Home, Cell, Derived!InWindow
<1>. QED BY <1>1, TickInv, ArriveInv, ScheduleInv, LoadInv, StampInv, ViewInv, MonthsInv,
   SnapshotInv
         DEF Derived!Next, Derived!Step

(* Every month that begins inside the window lies in it with all its days. *)
LEMMA DerivedHolds == DerivedInv => Derived!DerivedFresh
<1>. SUFFICES ASSUME DerivedInv PROVE Derived!DerivedFresh
  OBVIOUS
<1>. USE DerivedConstants DEF DerivedInv
<1>1. Derived!TypeOK
  BY DEF DerivedTyped, Stages, Stamps, Derived!TypeOK
<1>2. ASSUME pc = "done", NEW e \in start, NEW k \in Kinds, Home(e, k) \in boundary
      PROVE  /\ Seen(e) => e \in share[Home(e, k)]
             /\ Derived!MonthOf(DateOf[e]) * MonthDays >= day - TrailingMonths * MonthDays
                  => e \in metric[Cell(e, k)]
  <2>. DEFINE first == Derived!MonthOf(DateOf[e]) * MonthDays
              floor == day - TrailingMonths * MonthDays
  <2>1. Shared(e, k) /\ Measured(e, k)
    BY <1>2 DEF Metered
  <2>2. /\ first \in Nat /\ first <= DateOf[e] /\ DateOf[e] \in Nat /\ floor \in Int
    BY CellFact, MonthFact DEF DerivedTyped
  <2>3. Derived!InWindow(DateOf[e]) <=> DateOf[e] >= floor
    BY DEF Derived!InWindow
  <2>. HIDE DEF first, floor
  <2>4. first >= floor => Derived!InWindow(DateOf[e])
    BY <2>2, <2>3
  <2>. QED BY <1>2, <2>1, <2>4 DEF Shared, Measured, first, floor
<1>. QED BY <1>1, <1>2 DEF Derived!DerivedFresh, Home, Cell, Seen
-----------------------------------------------------------------------------
(* Both kinds of history are chains of changes that took place: the         *)
(* parcels' change log, whose diff reads the entry before (changeLog.ts),   *)
(* and the events of violations, appended per subject from the rows alone   *)
(* (changeLog.ts), also after a run that failed between two     *)
(* statements.                                                              *)
THEOREM HistoriesHold == ASSUME OneWorkflow PROVE Spec => []HistoriesAreChains
<1>. DEFINE I == SpineInv /\ HistoryInv
<1>1. Init => I
  BY SpineInitInv, HistoryInitInv DEF Init
<1>2. I /\ [Next]_vars => I'
  <2>1. [Next]_vars => [Spine!Next]_(Spine!vars)
    BY DEF Next, vars, OnSpine, OnHistory, OnDerived, spineVars, Spine!vars, Spine!local
  <2>2. [Next]_vars => [History!Next]_(History!vars)
    BY DEF Next, vars, OnSpine, OnHistory, OnDerived, historyVars, History!vars
  <2>. QED BY <2>1, <2>2, SpineNextInv, HistoryNextInv
<1>3. I => HistoriesAreChains
  BY HistoryHolds DEF SpineInv, HistoriesAreChains
<1>. QED BY <1>1, <1>2, <1>3, PTL DEF Spec

(* What a finished run leaves is not a run behind: every event that was     *)
(* there when it began is in the share of its polygon and, where its month  *)
(* begins inside the window, in the month's metric (finalizeDerived: stamps *)
(* before views, views before snapshots).                                   *)
THEOREM DerivedIsFresh == Spec => []DerivedFresh
<1>1. Init => DerivedInv
  BY DerivedInitInv DEF Init
<1>2. DerivedInv /\ [Next]_vars => DerivedInv'
  <2>1. [Next]_vars => [Derived!Next]_(Derived!vars)
    BY DEF Next, vars, OnSpine, OnHistory, OnDerived, derivedVars, Derived!vars,
           Derived!derived
  <2>. QED BY <2>1, DerivedNextInv
<1>3. DerivedInv => DerivedFresh
  BY DerivedHolds DEF DerivedFresh
<1>. QED BY <1>1, <1>2, <1>3, PTL DEF Spec
=============================================================================
