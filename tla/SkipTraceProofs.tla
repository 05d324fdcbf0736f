--------------------------- MODULE SkipTraceProofs ---------------------------
(***************************************************************************)
(* Proofs about SkipTrace, for every number of lookups and key calls and   *)
(* every cap: the types, the bound on the day's count, that the stored     *)
(* keys are whole and that what was answered was charged.                  *)
(***************************************************************************)
EXTENDS SkipTrace, FiniteSetTheorems, WellFoundedInduction, TLAPS

LEMMA Sizes == MaxDay \in Nat /\ MaxKeys \in Nat /\ MaxTries \in Nat
  BY SizesAssumption

(* Every state is typed.  Finishing a key call keeps transactions typed.   *)
LEMMA NoCallTyped == NoCall \in Calls
  BY DEF NoCall, Calls

LEMMA FinishTyped ==
  ASSUME TypeOK, NEW c \in KeyCalls
  PROVE  Finish(c) \in [KeyCalls -> Calls]
<1> SUFFICES ASSUME NEW d \in KeyCalls, d # c
             PROVE  [call[d] EXCEPT !.behind = @ \ {c}] \in Calls
  BY NoCallTyped DEF Finish
<1>1. call[d] \in Calls
  BY DEF TypeOK
<1>. QED  BY <1>1 DEF Calls

LEMMA TypeInit == Init => TypeOK
<1> SUFFICES ASSUME Init PROVE TypeOK
  OBVIOUS
<1>1. 0 \in Days /\ 0 \in 0 .. MaxKeys /\ 0 \in 0 .. MaxTries
  BY Sizes DEF Days
<1>2. call \in [KeyCalls -> Calls]
  BY NoCallTyped DEF Init
<1>. QED  BY <1>1, <1>2 DEF Init, TypeOK, LookPC

LEMMA TypeLookup ==
  ASSUME TypeOK, NEW r \in Lookups, LookupStep(r)
  PROVE  TypeOK'
<1>0. ASSUME NEW l \in LookPC, Goto(r, l)
      PROVE  look' \in [Lookups -> LookPC] /\ sent' \in [Lookups -> 0 .. MaxKeys]
  BY <1>0, Sizes DEF TypeOK, Goto
<1>1. CASE Resolve(r)
  <2>1. PICK k \in rows : sent' = [sent EXCEPT ![r] = ResolvedKey(k)]
    BY <1>1 DEF Resolve
  <2>2. ResolvedKey(k) \in 0 .. MaxKeys
    BY Sizes DEF TypeOK, ResolvedKey, Secrets
  <2>3. sent' \in [Lookups -> 0 .. MaxKeys]
    BY <2>1, <2>2 DEF TypeOK
  <2>4. look' \in [Lookups -> LookPC] /\ tries' \in 0 .. MaxTries
    BY <1>1, Sizes DEF Resolve, TypeOK, LookPC
  <2>. QED  BY <1>1, <2>3, <2>4 DEF Resolve, TypeOK, usageVars, keyVars
<1>2. CASE Check(r)
  BY <1>2, <1>0 DEF Check, TypeOK, usageVars, keyVars, LookPC
<1>3. CASE Headers(r) \/ Parse(r) \/ LookupFails(r)
  BY <1>3, <1>0 DEF Headers, Parse, LookupFails, TypeOK, usageVars, keyVars, LookPC
<1>4. CASE Record(r)
  <2>1. usage' \in [Days -> Nat] /\ charged' \in Nat
    BY <1>4 DEF Record, TypeOK
  <2>. QED  BY <1>4, <1>0, <2>1 DEF Record, TypeOK, keyVars, LookPC
<1>5. CASE Answer(r)
  <2>1. answered' \in Nat
    BY <1>5 DEF Answer, TypeOK
  <2>. QED  BY <1>5, <1>0, <2>1 DEF Answer, TypeOK, keyVars, LookPC
<1>. QED  BY <1>1, <1>2, <1>3, <1>4, <1>5 DEF LookupStep

LEMMA TypeKey ==
  ASSUME TypeOK, NEW c \in KeyCalls, KeyStep(c)
  PROVE  TypeOK'
<1>0. call[c] \in Calls
  BY DEF TypeOK
<1>1. ASSUME NEW op \in {"set", "delete"}, ListRows(c, op) PROVE TypeOK'
  <2>1. [NoCall EXCEPT !.pc = "listed", !.op = op, !.listed = rows] \in Calls
    BY DEF NoCall, Calls, TypeOK
  <2>2. call' \in [KeyCalls -> Calls]
    BY <1>1, <2>1 DEF ListRows, TypeOK
  <2>3. met' \in BOOLEAN
    BY <1>1 DEF ListRows, TypeOK
  <2>. QED  BY <1>1, <2>2, <2>3 DEF ListRows, TypeOK, usageVars
<1>2. CASE Purge(c)
  <2>1. [call[c] EXCEPT !.pc = "purged", !.doomed = rows,
           !.behind = {d \in KeyCalls : call[d].doomed \cap rows # {}}] \in Calls
    BY <1>0 DEF Calls, TypeOK
  <2>2. call' = [call EXCEPT ![c] = [call[c] EXCEPT !.pc = "purged", !.doomed = rows,
                   !.behind = {d \in KeyCalls : call[d].doomed \cap rows # {}}]]
    BY <1>2, <1>0 DEF Purge, TypeOK, Calls
  <2>3. call' \in [KeyCalls -> Calls]
    BY <2>1, <2>2 DEF TypeOK
  <2>. QED  BY <1>2, <2>3 DEF Purge, TypeOK, usageVars
<1>3. CASE CommitDelete(c)
  BY <1>3, FinishTyped DEF CommitDelete, TypeOK, usageVars
<1>4. CASE CommitSet(c)
  <2>1. minted + 1 \in Secrets /\ minted' \in 0 .. MaxKeys
    BY <1>4, Sizes DEF CommitSet, TypeOK, Secrets
  <2>. QED  BY <1>4, <2>1, FinishTyped DEF CommitSet, TypeOK, usageVars
<1>5. CASE Rollback(c)
  BY <1>5, FinishTyped DEF Rollback, TypeOK, usageVars
<1>. QED  BY <1>1, <1>2, <1>3, <1>4, <1>5 DEF KeyStep

(* TypeOK holds in every state of every instance. *)
THEOREM Typed == Spec => []TypeOK
<1>1. ASSUME TypeOK, [Next]_vars PROVE TypeOK'
  <2>1. CASE \E r \in Lookups : LookupStep(r)
    BY <1>1, <2>1, TypeLookup
  <2>2. CASE \E c \in KeyCalls : KeyStep(c)
    BY <1>1, <2>2, TypeKey
  <2>3. CASE Midnight
    BY <1>1, <2>3, SizesAssumption DEF TypeOK, Midnight, keyVars, Days
  <2>4. CASE UNCHANGED vars
    BY <1>1, <2>4 DEF TypeOK, vars, usageVars, keyVars
  <2>. QED  BY <1>1, <2>1, <2>2, <2>3, <2>4 DEF Next
<1>. QED  BY <1>1, TypeInit, PTL DEF Spec

-----------------------------------------------------------------------------
(* Removing a lookup from those in flight, or adding one, changes their    *)
(* number by one; there are never more of them than lookups.               *)
LEMMA FlightFinite ==
  /\ IsFiniteSet(InFlight)
  /\ Cardinality(InFlight) \in Nat /\ Cardinality(Lookups) \in Nat
  /\ Cardinality(InFlight) <= Cardinality(Lookups)
<1>1. InFlight \subseteq Lookups
  BY DEF InFlight
<1>. QED  BY <1>1, SizesAssumption, FS_Subset, FS_CardinalityType

LEMMA FlightFinitePrime ==
  /\ Cardinality(InFlight') \in Nat
  /\ Cardinality(InFlight') <= Cardinality(Lookups)
<1>1. InFlight' \subseteq Lookups
  BY DEF InFlight
<1>. QED  BY <1>1, SizesAssumption, FS_Subset, FS_CardinalityType

LEMMA CapInit == Init => CapInv
<1> SUFFICES ASSUME Init PROVE CapInv
  OBVIOUS
<1>1. InFlight = {}
  BY DEF Init, InFlight
<1>2. Cardinality(InFlight) = 0
  BY <1>1, FS_EmptySet
<1>. QED  BY <1>1, <1>2, FlightFinite, SizesAssumption DEF Init, CapInv, CapHolds, Days

(* A lookup that leaves the flight, counted or not. *)
LEMMA LeaveFlight ==
  ASSUME TypeOK, NEW r \in InFlight, NEW pc \in {"idle", "recorded"}, Goto(r, pc)
  PROVE  Cardinality(InFlight') = Cardinality(InFlight) - 1
<1>1. InFlight' = InFlight \ {r}
  BY DEF InFlight, Goto, TypeOK
<1>. QED  BY <1>1, FlightFinite, FS_RemoveElement

(* The count and the flight of today change together, and the earlier and  *)
(* the later days do not change.                                           *)
LEMMA CapLookup ==
  ASSUME TypeOK, CapInv, NEW r \in Lookups, LookupStep(r)
  PROVE  CapInv'
<1> DEFINE Room == DailyCap + Cardinality(Lookups) - 1
<1>0. Room \in Nat
  BY FlightFinite, SizesAssumption, FS_EmptySet, FS_CardinalityType
<1>1. CASE Resolve(r)
  <2>1. InFlight' = InFlight
    BY <1>1 DEF Resolve, InFlight, TypeOK
  <2>. QED  BY <1>1, <2>1 DEF Resolve, CapInv, CapHolds, usageVars
<1>2. CASE Check(r)
  <2>1. CASE Allowed(usage[day])
    <3>1. usage[day] <= DailyCap - 1
      BY <2>1, SizesAssumption DEF Allowed, TypeOK
    <3>2. UNCHANGED <<usage, day>>
      BY <1>2 DEF Check, usageVars
    <3>. QED  BY <3>1, <3>2, FlightFinite, FlightFinitePrime, SizesAssumption
              DEF CapInv, CapHolds, TypeOK
  <2>2. CASE ~ Allowed(usage[day])
    <3>1. InFlight' = InFlight
      BY <1>2, <2>2 DEF Check, Goto, InFlight, TypeOK
    <3>. QED  BY <1>2, <3>1 DEF Check, CapInv, CapHolds, usageVars
  <2>. QED  BY <2>1, <2>2
<1>3. CASE Headers(r) \/ Parse(r)
  <2>1. InFlight' = InFlight
    BY <1>3 DEF Headers, Parse, Goto, InFlight, TypeOK
  <2>. QED  BY <1>3, <2>1 DEF Headers, Parse, CapInv, CapHolds, usageVars
<1>4. CASE LookupFails(r)
  <2>1. CASE r \in InFlight
    <3>1. Cardinality(InFlight') = Cardinality(InFlight) - 1
      BY <1>4, <2>1, LeaveFlight DEF LookupFails
    <3>2. UNCHANGED <<usage, day>>
      BY <1>4 DEF LookupFails, usageVars
    <3>. QED  BY <3>1, <3>2, FlightFinite, <1>0 DEF CapInv, CapHolds, TypeOK
  <2>2. CASE r \notin InFlight
    <3>1. InFlight' = InFlight
      BY <1>4, <2>2 DEF LookupFails, Goto, InFlight, TypeOK
    <3>. QED  BY <1>4, <3>1 DEF LookupFails, CapInv, CapHolds, usageVars
  <2>. QED  BY <2>1, <2>2
<1>5. CASE Record(r)
  <2>1. Cardinality(InFlight') = Cardinality(InFlight) - 1
    BY <1>5, LeaveFlight DEF Record, InFlight
  <2>2. day' = day /\ usage' = [usage EXCEPT ![day] = @ + 1]
    BY <1>5 DEF Record
  <2>3. usage'[day] = usage[day] + 1 /\ \A d \in Days : d # day => usage'[d] = usage[d]
    BY <2>2 DEF TypeOK
  <2>4. usage'[day] + Cardinality(InFlight') <= Room
    BY <2>1, <2>3, FlightFinite DEF CapInv, TypeOK
  <2>5. usage'[day] <= Room
    BY <2>3, <2>4, FlightFinitePrime, <1>0 DEF TypeOK
  <2>6. day \in Int /\ \A d \in Days : d > day => d # day
    BY SizesAssumption DEF Days, TypeOK
  <2>. QED  BY <2>2, <2>3, <2>4, <2>5, <2>6 DEF CapInv, CapHolds
<1>6. CASE Answer(r)
  <2>1. InFlight' = InFlight
    BY <1>6 DEF Answer, Goto, InFlight, TypeOK
  <2>. QED  BY <1>6, <2>1 DEF Answer, CapInv, CapHolds
<1>. QED  BY <1>1, <1>2, <1>3, <1>4, <1>5, <1>6 DEF LookupStep

(* At midnight every lookup in flight carries over, and the new day is     *)
(* untouched.                                                              *)
LEMMA CapMidnight ==
  ASSUME TypeOK, CapInv, Midnight
  PROVE  CapInv'
<1>1. day' = day + 1 /\ day' \in Days /\ UNCHANGED <<usage, look>>
  BY SizesAssumption DEF Midnight, TypeOK, Days
<1>2. usage'[day'] = 0
  BY <1>1, SizesAssumption DEF CapInv, Days, TypeOK
<1>3. usage'[day'] + Cardinality(InFlight') <= DailyCap + Cardinality(Lookups) - 1
  BY <1>2, FlightFinite, FlightFinitePrime, SizesAssumption
<1>4. \A d \in Days : d > day' => usage'[d] = 0
  BY <1>1, SizesAssumption DEF CapInv, Days, TypeOK
<1>. QED  BY <1>1, <1>3, <1>4 DEF CapInv, CapHolds

(* createDbUsageStore's bound on the daily count: for every number of      *)
(* lookups and every cap, no day's count exceeds the cap by more than the  *)
(* lookups in flight beside the last one let through.                      *)
THEOREM CapNearlyHolds == Spec => []CapHolds
<1>1. ASSUME TypeOK, CapInv, [Next]_vars PROVE CapInv'
  <2>1. CASE \E r \in Lookups : LookupStep(r)
    BY <1>1, <2>1, CapLookup
  <2>2. CASE \E c \in KeyCalls : KeyStep(c)
    <3>1. UNCHANGED <<usage, day, look>>
      BY <2>2 DEF KeyStep, ListRows, Purge, CommitDelete, CommitSet, Rollback, usageVars
    <3>. QED  BY <1>1, <3>1 DEF CapInv, CapHolds, InFlight
  <2>3. CASE Midnight
    BY <1>1, <2>3, CapMidnight
  <2>4. CASE UNCHANGED vars
    BY <1>1, <2>4 DEF CapInv, CapHolds, InFlight, vars, usageVars
  <2>. QED  BY <1>1, <2>1, <2>2, <2>3, <2>4 DEF Next
<1>2. CapInv => CapHolds
  BY DEF CapInv
<1>. QED  BY <1>1, <1>2, CapInit, Typed, PTL DEF Spec

-----------------------------------------------------------------------------
(* Stored keys: secrets are numbered as they are created, so that a row     *)
(* that was listed and is still there was there at the deletion too; and    *)
(* while calls have not overlapped, what the open one saw is what there is. *)
Listed(c) ==
  Busy(c) =>
    /\ \A k \in call[c].listed : k <= minted
    /\ call[c].pc = "purged" => call[c].listed \cap rows \subseteq call[c].doomed

Undisturbed(c) ==
  Busy(c) => /\ call[c].listed = rows /\ (call[c].pc = "purged" => call[c].doomed = rows)
             /\ \A d \in KeyCalls : Busy(d) => d = c

KeysInv ==
  /\ KeysWhole
  /\ \A k \in rows : k <= minted
  /\ \A c \in KeyCalls : Listed(c)
  /\ ~ met => \A c \in KeyCalls : Undisturbed(c)

LEMMA KeysInit == Init => KeysInv
<1>1. Init => Cardinality(rows) <= 1
  BY FS_EmptySet DEF Init
<1>. QED  BY <1>1 DEF Init, KeysInv, KeysWhole, Listed, Undisturbed, Busy, NoCall

(* A lookup in flight holds the key of a row. *)
LEMMA KeysLookup ==
  ASSUME TypeOK, KeysInv, NEW r \in Lookups, LookupStep(r)
  PROVE  KeysInv'
<1>1. UNCHANGED keyVars
  BY DEF LookupStep, Resolve, Check, Headers, Parse, LookupFails, Record, Answer
<1>2. \A q \in Lookups : look'[q] # "idle" => sent'[q] # 0
  <2>1. CASE Resolve(r)
    <3>1. PICK k \in rows : sent' = [sent EXCEPT ![r] = ResolvedKey(k)]
      BY <2>1 DEF Resolve
    <3>2. ResolvedKey(k) # 0
      BY Sizes DEF KeysInv, KeysWhole, ResolvedKey, TypeOK, Secrets
    <3>. QED  BY <2>1, <3>1, <3>2 DEF Resolve, KeysInv, KeysWhole, TypeOK
  <2>2. CASE ~ Resolve(r)
    <3>1. look[r] # "idle" /\ \E l \in LookPC : Goto(r, l)
      BY <2>2 DEF LookupStep, Check, Headers, Parse, LookupFails, Record, Answer, LookPC
    <3>. QED  BY <3>1 DEF Goto, KeysInv, KeysWhole, TypeOK
  <2>. QED  BY <2>1, <2>2
<1>. QED  BY <1>1, <1>2 DEF keyVars, KeysInv, KeysWhole, Listed, Undisturbed, Busy

LEMMA KeysCall ==
  ASSUME TypeOK, KeysInv, NEW c \in KeyCalls, KeyStep(c)
  PROVE  KeysInv'
<1>0. UNCHANGED <<look, sent>> /\ minted \in Nat /\ rows \subseteq Secrets
  BY Sizes DEF TypeOK, KeyStep, ListRows, Purge, CommitDelete, CommitSet, Rollback
<1>1. ASSUME NEW op \in {"set", "delete"}, ListRows(c, op) PROVE KeysInv'
  <2>1. /\ UNCHANGED <<rows, vault, minted>>
        /\ call'[c].pc = "listed" /\ call'[c].listed = rows
        /\ \A d \in KeyCalls \ {c} : call'[d] = call[d]
        /\ met' = (met \/ \E d \in KeyCalls : Busy(d))
    BY <1>1 DEF ListRows, TypeOK, NoCall
  <2>2. \A d \in KeyCalls : Listed(d)'
    BY <2>1 DEF KeysInv, Listed, Busy
  <2>3. ~ met' => ~ met /\ \A d \in KeyCalls : Undisturbed(d)'
    BY <2>1 DEF Undisturbed, Busy
  <2>. QED  BY <1>0, <2>1, <2>2, <2>3 DEF KeysInv, KeysWhole
<1>2. CASE Purge(c)
  <2>1. /\ UNCHANGED <<rows, vault, minted, met>> /\ call[c].pc = "listed"
        /\ call'[c].pc = "purged" /\ call'[c].listed = call[c].listed /\ call'[c].doomed = rows
        /\ \A d \in KeyCalls \ {c} : call'[d] = call[d]
    BY <1>2 DEF Purge, TypeOK, Calls
  <2>2. \A d \in KeyCalls : Listed(d)'
    BY <2>1 DEF KeysInv, Listed, Busy
  <2>3. ~ met' => \A d \in KeyCalls : Undisturbed(d)'
    BY <2>1 DEF KeysInv, Undisturbed, Busy
  <2>. QED  BY <1>0, <2>1, <2>2, <2>3 DEF KeysInv, KeysWhole
<1>3. ASSUME CommitDelete(c) \/ CommitSet(c) \/ Rollback(c)
      PROVE  /\ ~ Busy(c)' /\ met' = met
             /\ \A d \in KeyCalls \ {c} : /\ call'[d].pc = call[d].pc
                                          /\ call'[d].listed = call[d].listed
                                          /\ call'[d].doomed = call[d].doomed
  <2>1. call' = Finish(c) /\ met' = met
    BY <1>3 DEF CommitDelete, CommitSet, Rollback
  <2>. QED  BY <2>1 DEF Finish, Busy, NoCall, TypeOK, Calls
<1>4. CASE CommitDelete(c) \/ CommitSet(c)
  <2>. DEFINE new == IF CommitSet(c) THEN {minted + 1} ELSE {}
  <2>1. \A k \in new : k \in Nat /\ k <= minted'
    BY <1>0 DEF CommitSet
  <2>2. /\ rows' = (rows \ call[c].doomed) \cup new
        /\ vault' = (vault \ call[c].listed) \cup new
    BY <1>4 DEF CommitDelete, CommitSet
  <2>3. Busy(c) /\ call[c].pc = "purged" /\ minted' \in Nat /\ minted' >= minted
    BY <1>0, <1>4 DEF CommitDelete, CommitSet, Busy
  <2>4. \A k \in new : ~ (k <= minted)
    BY <1>0
  <2>5. Cardinality(new) <= 1
    <3>1. Cardinality({}) = 0 /\ Cardinality({minted + 1}) = 1
      BY FS_EmptySet, FS_Singleton
    <3>. QED  BY <3>1
  <2>. HIDE DEF new
  <2>6. rows' \subseteq vault'
    BY <2>2, <2>3 DEF KeysInv, KeysWhole, Listed
  <2>7. \A k \in rows' : k <= minted'
    <3>1. \A k \in rows : k \in Int /\ k <= minted
      BY <1>0 DEF KeysInv, Secrets
    <3>. QED  BY <1>0, <2>1, <2>2, <2>3, <3>1
  <2>8. \A d \in KeyCalls : Listed(d)'
    <3>. SUFFICES ASSUME NEW d \in KeyCalls \ {c}, Busy(d) PROVE Listed(d)'
      BY <1>3, <1>4 DEF Listed, Busy
    <3>1. call[d].listed \subseteq Secrets
      BY DEF TypeOK, Calls
    <3>2. \A k \in call[d].listed : k <= minted /\ k <= minted'
      BY <1>0, <2>3, <3>1 DEF KeysInv, Listed, Secrets
    <3>3. call[d].pc = "purged" => call[d].listed \cap rows' \subseteq call[d].doomed
      BY <2>2, <2>4, <3>2 DEF KeysInv, Listed
    <3>. QED  BY <1>3, <1>4, <3>2, <3>3 DEF Listed
  <2>9. ~ met' => /\ \A d \in KeyCalls : ~ Busy(d)'
                  /\ rows' = new /\ vault' = new
    BY <1>3, <1>4, <2>2, <2>3 DEF KeysInv, KeysWhole, Undisturbed, Busy
  <2>. QED  BY <1>0, <2>5, <2>6, <2>7, <2>8, <2>9 DEF KeysInv, KeysWhole, Undisturbed
<1>5. CASE Rollback(c)
  <2>1. UNCHANGED <<rows, vault, minted>>
    BY <1>5 DEF Rollback
  <2>2. \A d \in KeyCalls : Listed(d)'
    BY <1>3, <1>5, <2>1 DEF KeysInv, Listed, Busy
  <2>3. ~ met' => \A d \in KeyCalls : Undisturbed(d)'
    BY <1>3, <1>5, <2>1 DEF KeysInv, Undisturbed, Busy
  <2>. QED  BY <1>0, <1>3, <1>5, <2>1, <2>2, <2>3 DEF KeysInv, KeysWhole
<1>. QED  BY <1>1, <1>2, <1>4, <1>5 DEF KeyStep

(* No lookup sends the sentinel for a key and every row has its secret,     *)
(* however key calls and lookups overlap; without overlap of key calls the  *)
(* user has at most one key and no other secret (migration 0014).           *)
THEOREM KeysStayWhole == Spec => []KeysWhole
<1>1. ASSUME TypeOK, KeysInv, [Next]_vars PROVE KeysInv'
  <2>1. CASE \E r \in Lookups : LookupStep(r)
    BY <1>1, <2>1, KeysLookup
  <2>2. CASE \E c \in KeyCalls : KeyStep(c)
    BY <1>1, <2>2, KeysCall
  <2>3. CASE Midnight \/ UNCHANGED vars
    BY <1>1, <2>3 DEF Midnight, vars, keyVars, KeysInv, KeysWhole, Listed, Undisturbed, Busy
  <2>. QED  BY <1>1, <2>1, <2>2, <2>3 DEF Next
<1>2. KeysInv => KeysWhole
  BY DEF KeysInv
<1>. QED  BY <1>1, <1>2, KeysInit, Typed, PTL DEF Spec

-----------------------------------------------------------------------------
(* What lookups cost. *)

(* Every non-empty set of days has a first one. *)
LEMMA FirstDay ==
  ASSUME NEW S \in SUBSET Days, S # {}
  PROVE  \E m \in S : \A d \in S : m <= d
<1>. DEFINE R == {p \in Nat \X Nat : p[1] < p[2]}
<1>1. R = OpToRel(<, Nat)
  BY DEF OpToRel
<1>2. IsWellFoundedOn(R, Nat)
  BY <1>1, NatLessThanWellFounded, Zenon
<1>3. S \in SUBSET Nat
  BY Sizes DEF Days
<1>4. PICK m \in S : \A d \in S : <<d, m>> \notin R
  <2>. HIDE DEF R
  <2>. QED BY <1>2, <1>3, WFMin, Zenon
<1>5. \A d \in S : ~ (d < m)
  BY <1>3, <1>4
<1>. QED BY <1>3, <1>5

(* f is the running total of u. *)
Sums(f, u) == f = [d \in Days |-> u[d] + (IF d = 0 THEN 0 ELSE f[d - 1])]

LEMMA SumsExist ==
  ASSUME NEW u \in [Days -> Nat]
  PROVE  \E f : Sums(f, u)
<1>. DEFINE Upto(n, f) == \A d \in 0 .. n : f[d] = u[d] + (IF d = 0 THEN 0 ELSE f[d - 1])
            None_ == {n \in Days : ~ \E f \in [0 .. n -> Nat] : Upto(n, f)}
<1>1. ASSUME None_ # {} PROVE FALSE
  <2>1. PICK n \in None_ : \A d \in None_ : n <= d
    <3>. HIDE DEF None_
    <3>1. None_ \in SUBSET Days
      BY DEF None_
    <3>. QED BY <1>1, <3>1, FirstDay
  <2>2. n \in Nat /\ n <= MaxDay /\ 0 .. n \subseteq Days
    BY Sizes DEF Days
  <2>3. CASE n = 0
    <3>. DEFINE f == [d \in 0 .. n |-> u[d]]
    <3>1. f \in [0 .. n -> Nat] /\ Upto(n, f)
      BY <2>2, <2>3
    <3>. QED BY <3>1
  <2>4. CASE n # 0
    <3>1. n - 1 \in Days /\ n - 1 \notin None_
      <4>1. n - 1 \in Days /\ n \in Int
        BY <2>2, <2>4, Sizes DEF Days
      <4>. HIDE DEF None_
      <4>. QED BY <2>1, <4>1
    <3>2. PICK f \in [0 .. n - 1 -> Nat] : Upto(n - 1, f)
      BY <3>1
    <3>. DEFINE g == [d \in 0 .. n |-> IF d = n THEN u[n] + f[n - 1] ELSE f[d]]
    <3>3. g \in [0 .. n -> Nat]
      BY <2>2, <2>4
    <3>4. ASSUME NEW d \in 0 .. n PROVE g[d] = u[d] + (IF d = 0 THEN 0 ELSE g[d - 1])
      <4>1. CASE d = n
        BY <2>2, <2>4, <4>1
      <4>2. CASE d # n
        <5>1. d \in 0 .. n - 1 /\ g[d] = f[d] /\ (d # 0 => g[d - 1] = f[d - 1])
          BY <2>2, <4>2
        <5>. QED BY <3>2, <5>1
      <4>. QED BY <4>1, <4>2
    <3>. QED BY <3>3, <3>4
  <2>. QED BY <2>3, <2>4
<1>2. PICK f \in [0 .. MaxDay -> Nat] : Upto(MaxDay, f)
  <2>1. MaxDay \in Days
    BY Sizes DEF Days
  <2>2. MaxDay \notin None_
    <3>. HIDE DEF None_
    <3>. QED BY <1>1
  <2>. QED BY <2>1, <2>2
<1>3. Sums(f, u)
  BY <1>2 DEF Sums, Days
<1>. QED BY <1>3

(* A total over an untouched usage is 0, and one more lookup on a day adds *)
(* one to the totals from that day on.                                     *)
LEMMA SumsFact ==
  ASSUME NEW u \in [Days -> Nat], NEW f, Sums(f, u)
  PROVE  /\ \A d \in Days : f[d] \in Nat
         /\ (\A d \in Days : u[d] = 0) => \A d \in Days : f[d] = 0
<1>1. /\ \A d \in Days : f[d] = u[d] + (IF d = 0 THEN 0 ELSE f[d - 1])
      /\ \A d \in Days : d \in Nat /\ (d # 0 => d - 1 \in Days)
  BY Sizes DEF Sums, Days
<1>. DEFINE Bad == {d \in Days : f[d] \notin Nat}
            Off == {d \in Days : f[d] # 0}
<1>2. ASSUME Bad # {} PROVE FALSE
  <2>1. PICK d \in Bad : \A e \in Bad : d <= e
    <3>1. Bad \in SUBSET Days
      OBVIOUS
    <3>. HIDE DEF Bad
    <3>. QED BY <1>2, <3>1, FirstDay
  <2>2. d # 0 => f[d - 1] \in Nat
    BY <1>1, <2>1
  <2>. QED BY <1>1, <2>1, <2>2
<1>3. ASSUME \A d \in Days : u[d] = 0, Off # {} PROVE FALSE
  <2>1. PICK d \in Off : \A e \in Off : d <= e
    <3>1. Off \in SUBSET Days
      OBVIOUS
    <3>. HIDE DEF Off
    <3>. QED BY <1>3, <3>1, FirstDay
  <2>2. d # 0 => f[d - 1] = 0
    BY <1>1, <2>1
  <2>. QED BY <1>1, <1>3, <2>1, <2>2
<1>. QED BY <1>2, <1>3

LEMMA SumsGrow ==
  ASSUME NEW u \in [Days -> Nat], NEW v \in [Days -> Nat], NEW e \in Days,
         \A d \in Days : v[d] = IF d = e THEN u[d] + 1 ELSE u[d],
         NEW f, NEW g, Sums(f, u), Sums(g, v)
  PROVE  \A d \in Days : g[d] = f[d] + IF d < e THEN 0 ELSE 1
<1>. DEFINE Off == {d \in Days : g[d] # f[d] + IF d < e THEN 0 ELSE 1}
<1>1. /\ \A d \in Days : f[d] = u[d] + (IF d = 0 THEN 0 ELSE f[d - 1])
      /\ \A d \in Days : g[d] = v[d] + (IF d = 0 THEN 0 ELSE g[d - 1])
      /\ \A d \in Days : d \in Nat /\ (d # 0 => d - 1 \in Days)
      /\ \A d \in Days : f[d] \in Nat /\ u[d] \in Nat
  <2>1. \A d \in Days : d \in Nat /\ (d # 0 => d - 1 \in Days)
    BY Sizes DEF Days
  <2>2. \A d \in Days : f[d] \in Nat /\ u[d] \in Nat
    BY SumsFact
  <2>. QED BY <2>1, <2>2 DEF Sums
<1>2. ASSUME Off # {} PROVE FALSE
  <2>1. PICK d \in Off : \A x \in Off : d <= x
    <3>1. Off \in SUBSET Days
      OBVIOUS
    <3>. HIDE DEF Off
    <3>. QED BY <1>2, <3>1, FirstDay
  <2>2. d # 0 => g[d - 1] = f[d - 1] + IF d - 1 < e THEN 0 ELSE 1
    BY <1>1, <2>1
  <2>3. d \in Nat /\ e \in Nat /\ g[d] # f[d] + IF d < e THEN 0 ELSE 1
    BY <1>1, <2>1
  <2>4. CASE d = 0
    BY <1>1, <2>1, <2>3, <2>4
  <2>5. CASE d # 0
    <3>1. /\ f[d] = u[d] + f[d - 1] /\ g[d] = v[d] + g[d - 1] /\ f[d - 1] \in Nat
          /\ v[d] = (IF d = e THEN u[d] + 1 ELSE u[d]) /\ u[d] \in Nat
      BY <1>1, <2>1, <2>5
    <3>. QED BY <2>2, <2>3, <2>5, <3>1
  <2>. QED BY <2>4, <2>5
<1>. QED BY <1>2

LEMMA TotalSums == usage \in [Days -> Nat] => Sums(Total, usage)
<1>1. ASSUME usage \in [Days -> Nat] PROVE Sums(Total, usage)
  <2>1. PICK f : Sums(f, usage)
    BY <1>1, SumsExist
  <2>. QED BY <2>1 DEF Sums, Total
<1>. QED BY <1>1

Counted == {r \in Lookups : look[r] = "recorded"}

(* Nothing but a record moves the total. *)
LEMMA TotalMoves ==
  ASSUME TypeOK, TypeOK'
  PROVE  /\ usage' = usage => Total'[MaxDay] = Total[MaxDay]
         /\ Total[MaxDay] \in Nat
         /\ \A e \in Days : usage' = [usage EXCEPT ![e] = @ + 1] =>
              Total'[MaxDay] = Total[MaxDay] + 1
<1>1. (usage \in [Days -> Nat] => Sums(Total, usage))'
  BY TotalSums, PTL
<1>2. /\ usage \in [Days -> Nat] /\ Sums(Total, usage)
      /\ usage' \in [Days -> Nat] /\ Sums(Total', usage')
  BY <1>1, TotalSums DEF TypeOK, Sums
<1>3. MaxDay \in Days /\ \A e \in Days : ~ (MaxDay < e)
  BY Sizes DEF Days
<1>4. ASSUME NEW e \in Days, usage' = [usage EXCEPT ![e] = @ + 1]
      PROVE  Total'[MaxDay] = Total[MaxDay] + 1
  <2>1. \A d \in Days : usage'[d] = IF d = e THEN usage[d] + 1 ELSE usage[d]
    BY <1>2, <1>4
  <2>2. \A d \in Days : Total'[d] = Total[d] + IF d < e THEN 0 ELSE 1
    BY <1>2, <2>1, SumsGrow
  <2>. QED BY <1>3, <2>2
<1>5. ASSUME usage' = usage PROVE Total' = Total
  BY <1>5 DEF Total
<1>. QED BY <1>2, <1>3, <1>4, <1>5, SumsFact

LEMMA ChargeStep ==
  ASSUME TypeOK, TypeOK', AnswersAreCharged, [Next]_vars
  PROVE  AnswersAreCharged'
<1>0. /\ IsFiniteSet(Counted) /\ Cardinality(Counted) \in Nat
      /\ answered \in Nat /\ charged \in Nat
      /\ Total[MaxDay] = charged /\ answered + Cardinality(Counted) <= charged
  <2>1. Counted \in SUBSET Lookups
    BY DEF Counted
  <2>. QED BY <2>1, SizesAssumption, FS_Subset, FS_CardinalityType
           DEF TypeOK, AnswersAreCharged, Counted
<1>1. ASSUME UNCHANGED <<usage, charged, answered>>,
             Counted' = Counted \/ \E r \in Counted : Counted' = Counted \ {r}
      PROVE  AnswersAreCharged'
  <2>1. Total'[MaxDay] = charged'
    BY <1>0, <1>1, TotalMoves
  <2>2. Cardinality(Counted') \in Nat /\ Cardinality(Counted') <= Cardinality(Counted)
    <3>1. ASSUME NEW r \in Counted, Counted' = Counted \ {r}
          PROVE  Cardinality(Counted') = Cardinality(Counted) - 1 /\ IsFiniteSet(Counted')
      BY <1>0, <3>1, FS_RemoveElement
    <3>. QED BY <1>0, <1>1, <3>1, FS_CardinalityType
  <2>. QED BY <1>0, <1>1, <2>1, <2>2 DEF AnswersAreCharged, Counted
<1>2. ASSUME NEW r \in Lookups, LookupStep(r) PROVE AnswersAreCharged'
  <2>1. CASE Resolve(r) \/ Check(r) \/ Headers(r) \/ Parse(r)
    <3>1. Counted' = Counted
      BY <2>1 DEF Resolve, Check, Headers, Parse, Goto, Counted, TypeOK
    <3>. QED BY <1>1, <2>1, <3>1 DEF Resolve, Check, Headers, Parse, usageVars
  <2>2. CASE LookupFails(r)
    <3>1. Counted' = Counted \ {r}
      BY <2>2 DEF LookupFails, Goto, Counted, TypeOK
    <3>2. Counted' = Counted \/ (r \in Counted /\ Counted' = Counted \ {r})
      BY <3>1
    <3>. QED BY <1>1, <2>2, <3>2 DEF LookupFails, usageVars
  <2>3. CASE Record(r)
    <3>1. Counted' = Counted \cup {r} /\ r \notin Counted
      BY <2>3 DEF Record, Goto, Counted, TypeOK
    <3>2. Cardinality(Counted') = Cardinality(Counted) + 1
      BY <1>0, <3>1, FS_AddElement
    <3>3. Total'[MaxDay] = Total[MaxDay] + 1
      BY <2>3, TotalMoves DEF Record, TypeOK
    <3>4. charged' = charged + 1 /\ answered' = answered
      BY <2>3 DEF Record
    <3>. QED BY <1>0, <3>2, <3>3, <3>4 DEF AnswersAreCharged, Counted
  <2>4. CASE Answer(r)
    <3>1. Counted' = Counted \ {r} /\ r \in Counted
      BY <2>4 DEF Answer, Goto, Counted, TypeOK
    <3>2. Cardinality(Counted') = Cardinality(Counted) - 1
      BY <1>0, <3>1, FS_RemoveElement
    <3>3. Total'[MaxDay] = Total[MaxDay]
      BY <2>4, TotalMoves DEF Answer
    <3>4. charged' = charged /\ answered' = answered + 1
      BY <2>4 DEF Answer
    <3>. QED BY <1>0, <3>2, <3>3, <3>4 DEF AnswersAreCharged, Counted
  <2>. QED BY <1>2, <2>1, <2>2, <2>3, <2>4 DEF LookupStep
<1>3. ASSUME UNCHANGED <<usage, charged, answered, look>> PROVE AnswersAreCharged'
  BY <1>1, <1>3 DEF Counted
<1>4. ASSUME NEW c \in KeyCalls, KeyStep(c) PROVE AnswersAreCharged'
  BY <1>3, <1>4 DEF KeyStep, ListRows, Purge, CommitDelete, CommitSet, Rollback, usageVars
<1>5. CASE Midnight
  BY <1>3, <1>5 DEF Midnight
<1>6. CASE UNCHANGED vars
  BY <1>3, <1>6 DEF vars, usageVars
<1>. QED BY <1>2, <1>4, <1>5, <1>6 DEF Next

(* createDbUsageStore, lookupWithKey: every contact returned was counted    *)
(* once, on some day, and what failed before its record was not, for any   *)
(* lookups, days and order of their steps.                                 *)
THEOREM AnswersAlwaysCharged == Spec => []AnswersAreCharged
<1>1. ASSUME Init PROVE AnswersAreCharged
  <2>1. usage \in [Days -> Nat] /\ \A d \in Days : usage[d] = 0
    BY <1>1 DEF Init
  <2>2. Total[MaxDay] = 0
    BY <2>1, TotalSums, SumsFact, Sizes DEF Days
  <2>3. Counted = {} /\ charged = 0 /\ answered = 0
    BY <1>1 DEF Init, Counted
  <2>. QED BY <2>2, <2>3, FS_EmptySet DEF AnswersAreCharged, Counted
<1>2. TypeOK /\ TypeOK' /\ AnswersAreCharged /\ [Next]_vars => AnswersAreCharged'
  BY ChargeStep
<1>. QED BY <1>1, <1>2, Typed, PTL DEF Spec
=============================================================================
