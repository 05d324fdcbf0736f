---------------------------- MODULE AlertProofs ----------------------------
(***************************************************************************)
(* What holds of the alert digest for any users, areas, subscriptions and  *)
(* records, any clock and every order of requests, failures and crashes.   *)
(***************************************************************************)
EXTENDS AlertDigest, TLAPS, FiniteSetTheorems

OneWorkflow == \A v, w \in Workers : v = w

(* With a clock finer than a day, a digest early on the day after is not    *)
(* due yet, and a window counted back from now opens within a day.          *)
Jitter == IF DayTicks = 1 THEN 0 ELSE 1

(* The dedup looks back over both windows and the days that failed. *)
DedupReaches ==
  /\ LookbackDays + Jitter <= DedupDays
  /\ MaxFaults + 1 + 2 * Jitter <= DedupDays

(* The first window reaches back to the subscription, and no LIMIT bites. *)
WindowsReach ==
  /\ MaxFaults + 1 <= LookbackDays
  /\ IsFiniteSet(Records) /\ Cardinality(Records) <= HardCap

-----------------------------------------------------------------------------
AtWork(w) == pc[w] \in {"insert", "email", "advance"}

(* A digest of s is under way or still to come in this run. *)
Waiting(s) ==
  \E w \in Workers : \/ \E row \in queue[w] : row.sub = s
                     \/ AtWork(w) /\ current[w].sub = s

Typed ==
  /\ TypeOK
  /\ queue \in [Workers -> SUBSET Snapshot] /\ current \in [Workers -> Snapshot \cup {Nobody}]
  /\ pending \in [Workers -> SUBSET Item] /\ digest \in [Workers -> SUBSET Item]
  /\ \A w \in Workers : /\ AtWork(w) => current[w] \in Snapshot
                        /\ pc[w] # "insert" => pending[w] = {}

(* Times are past; a subscription is older than its digests, and not older  *)
(* than its area.                                                           *)
Aged ==
  /\ \A r \in Records : arrived[r] <= now
  /\ \A s \in Subs :
       /\ last[s] <= now /\ created[s] <= now
       /\ s \in posting => sub[s] = "new" /\ area[AreaOf[s]] # "new"
       /\ sub[s] = "new" => last[s] = Never /\ ~ Waiting(s)
       /\ sub[s] # "new" => area[AreaOf[s]] # "new"

(* What a run has in memory: each due subscription once, with the last_sent *)
(* _at it still has.                                                        *)
Queued ==
  \A w \in Workers :
    /\ pc[w] = "idle" => queue[w] = {}
    /\ pc[w] # "idle" => served
    /\ \A row \in queue[w] : row.last = last[row.sub]
    /\ \A row, other \in queue[w] : row.sub = other.sub => row = other
    /\ AtWork(w) => \A row \in queue[w] : row.sub # current[w].sub

(* A window never opens more days back than there were failures, or one     *)
(* more while today's digest is still to come.                              *)
Slack(s) == faults + IF served /\ ~ Waiting(s) THEN 0 ELSE 1
Lag ==
  \A s \in Subs :
    area[AreaOf[s]] = "live" /\ (sub[s] = "live" \/ Waiting(s)) =>
      IF last[s] = Never THEN Day(now) <= Day(created[s]) + Slack(s)
      ELSE Day(now) <= Day(last[s]) + Slack(s) + Jitter

DatesInv == Typed /\ Aged /\ Queued /\ Lag

(* An item, or a row of the feed, says what its record says. *)
Sound(x) ==
  /\ x.rec \in Records /\ arrived[x.rec] # Never
  /\ x.parcel = Record[x.rec].parcel /\ x.date = DateOf(x.rec)
SameItem(e, x) == e.rec = x.rec /\ e.trigger = x.trigger

FeedInv ==
  /\ \A e \in feed : Sound(e) /\ arrived[e.rec] <= e.at
  /\ \A e, f \in feed : Owner[e.sub] = Owner[f.sub] /\ SameItem(e, f) => e = f
  /\ \A e, f \in emails : Owner[e.sub] = Owner[f.sub] /\ e.items \cap f.items # {} => e = f
  /\ \A e \in emails : \A x \in e.items :
       \E f \in feed : f.sub = e.sub /\ f.at = e.at /\ SameItem(f, x)

(* The digest at hand: inserted, or new to the user. *)
Delivering ==
  \A w \in Workers : AtWork(w) =>
    /\ \A x \in digest[w] : Sound(x)
    /\ \A x \in digest[w] \ pending[w] : FeedRow(w, x) \in feed
    /\ \A x \in pending[w], e \in feed :
         Owner[e.sub] = Owner[current[w].sub] => ~ SameItem(e, x)
    /\ pc[w] # "advance" =>
         \A m \in emails : Owner[m.sub] = Owner[current[w].sub] => m.items \cap digest[w] = {}

OnceInv == DatesInv /\ FeedInv /\ Delivering

(* The records dated the day they arrive that s asks for. *)
Matches(s, r) ==
  /\ Record[r].lag = 0 /\ Record[r].trigger \in Wanted[s]
  /\ Record[r].parcel \in Inside[AreaOf[s]] /\ created[s] <= arrived[r]

Heard ==
  \A w \in Workers : AtWork(w) =>
    LET s == current[w].sub IN
    sub[s] = "live" /\ area[AreaOf[s]] = "live" =>
      \A r \in Records : Matches(s, r) /\ arrived[r] < now =>
        Told(s, r) \/ \E x \in pending[w] : Key(x) = Key(ItemOf(r, Record[r].trigger))

LossInv == DatesInv /\ Heard /\ WindowLosesNothing
-----------------------------------------------------------------------------

(* What the assumptions say of the constants. *)
LEMMA AlertConstants ==
  /\ \A r \in Records :
       Record[r].parcel \in Parcels /\ Record[r].trigger \in Triggers /\ Record[r].lag \in Nat
  /\ Owner \in [Subs -> Users] /\ AreaOf \in [Subs -> Areas]
  /\ LookbackDays \in Nat /\ DedupDays \in Nat /\ HardCap \in Nat /\ MaxTick \in Nat
  /\ MaxFaults \in Nat /\ MaxRequests \in Nat /\ DayTicks \in Nat /\ DayTicks > 0
BY RecordAssumption, WindowAssumption

(* A tick lies in its day. *)
LEMMA DayBounds ==
  ASSUME NEW t \in Nat
  PROVE  Day(t) \in Nat /\ DayTicks * Day(t) <= t /\ t < DayTicks * Day(t) + DayTicks
<1>1. DayTicks \in Nat /\ DayTicks > 0
  BY AlertConstants
<1>. QED BY <1>1 DEF Day

(* Multiples of a day are ordered as their counts are. *)
LEMMA DayOrder ==
  ASSUME NEW a \in Int, NEW b \in Int, DayTicks * a < DayTicks * b + DayTicks
  PROVE  a <= b
<1>1. DayTicks \in Nat /\ DayTicks > 0
  BY AlertConstants
<1>2. DayTicks * b + DayTicks = DayTicks * (b + 1)
  BY <1>1
<1>3. CASE a >= b + 1
  <2>1. DayTicks * a >= DayTicks * (b + 1)
    BY <1>1, <1>3
  <2>. QED BY <1>1, <1>2, <2>1
<1>. QED BY <1>3

(* Days pass one at a time, and a day after is in the same day or the next. *)
LEMMA DaysPass ==
  ASSUME NEW t \in Nat, NEW u \in Nat
  PROVE  /\ t <= u => Day(t) <= Day(u)
         /\ u < t + DayTicks => Day(u) <= Day(t) + Jitter
         /\ Day(t + 1) <= Day(t) + 1
<1>1. DayTicks \in Nat /\ DayTicks > 0
  BY AlertConstants
<1>2. /\ Day(t) \in Nat /\ DayTicks * Day(t) <= t /\ t < DayTicks * Day(t) + DayTicks
      /\ Day(u) \in Nat /\ DayTicks * Day(u) <= u /\ u < DayTicks * Day(u) + DayTicks
  BY DayBounds
<1>3. Day(t + 1) \in Nat /\ DayTicks * Day(t + 1) <= t + 1
  BY DayBounds
<1>4. DayTicks * (Day(t) + 1) = DayTicks * Day(t) + DayTicks
  BY <1>1, <1>2
<1>5. t <= u => Day(t) <= Day(u)
  BY <1>1, <1>2, DayOrder
<1>6. ASSUME u < t + DayTicks PROVE Day(u) <= Day(t) + Jitter
  <2>1. CASE DayTicks = 1
    BY <1>2, <1>6, <2>1 DEF Jitter
  <2>2. CASE DayTicks # 1
    <3>1. DayTicks * Day(u) < DayTicks * (Day(t) + 1) + DayTicks
      BY <1>1, <1>2, <1>4, <1>6
    <3>. QED BY <1>2, <2>2, <3>1, DayOrder DEF Jitter
  <2>. QED BY <2>1, <2>2
<1>7. DayTicks * Day(t + 1) < DayTicks * (Day(t) + 1) + DayTicks
  BY <1>1, <1>2, <1>3, <1>4
<1>8. Day(t + 1) <= Day(t) + 1
  BY <1>2, <1>3, <1>7, DayOrder
<1>. QED BY <1>5, <1>6, <1>8

(* A window of K days reaches every tick of the days it is said to. *)
LEMMA DayReach ==
  ASSUME NEW t \in Nat, NEW u \in Nat, NEW K \in Nat, Day(t) >= Day(u) - K + Jitter
  PROVE  t >= u - K * DayTicks
<1>1. DayTicks \in Nat /\ DayTicks > 0
  BY AlertConstants
<1>2. /\ Day(t) \in Nat /\ DayTicks * Day(t) <= t /\ t < DayTicks * Day(t) + DayTicks
      /\ Day(u) \in Nat /\ DayTicks * Day(u) <= u /\ u < DayTicks * Day(u) + DayTicks
  BY DayBounds
<1>3. Jitter \in Nat
  BY DEF Jitter
<1>4. CASE DayTicks = 1
  BY <1>2, <1>4 DEF Jitter
<1>5. CASE DayTicks # 1
  <2>1. Day(t) + K >= Day(u) + 1
    BY <1>2, <1>5 DEF Jitter
  <2>2. DayTicks * (Day(t) + K) >= DayTicks * (Day(u) + 1)
    BY <1>1, <1>2, <2>1
  <2>3. /\ DayTicks * (Day(t) + K) = DayTicks * Day(t) + K * DayTicks
        /\ DayTicks * (Day(u) + 1) = DayTicks * Day(u) + DayTicks
    BY <1>1, <1>2
  <2>4. DayTicks * Day(t) \in Nat /\ K * DayTicks \in Nat /\ DayTicks * Day(u) \in Nat
    BY <1>1, <1>2
  <2>. QED BY <1>1, <1>2, <2>2, <2>3, <2>4
<1>. QED BY <1>4, <1>5

(* An item says what its record says, and a digest holds items of rows its   *)
(* window lets through.                                                     *)
LEMMA ItemFact ==
  ASSUME Typed, NEW r \in Records, arrived[r] # Never, NEW t \in Triggers \cup {Lead}
  PROVE  /\ ItemOf(r, t) \in Item /\ Sound(ItemOf(r, t))
         /\ ItemOf(r, t).rec = r /\ ItemOf(r, t).trigger = t
         /\ arrived[r] \in Nat /\ DateOf(r) \in Int
<1>1. arrived[r] \in Nat
  BY DEF Typed, TypeOK, Ticks
<1>2. DateOf(r) \in Int
  BY <1>1, DayBounds, AlertConstants DEF DateOf
<1>. QED BY <1>1, <1>2, AlertConstants DEF ItemOf, Item, Sound

LEMMA DigestFact ==
  ASSUME Typed, NEW row \in Snapshot, NEW F \in Limited(Fresh(row)),
         NEW leads \in LeadChoices(row.sub, F), NEW x \in Direct(row.sub, F) \cup leads
  PROVE  x.rec \in Fresh(row) /\ x \in Item /\ Sound(x)
<1>1. F \subseteq Fresh(row)
  BY DEF Limited, kSubset
<1>2. row.sub \in Subs
  BY DEF Snapshot
<1>3. PICK r \in F, t \in Triggers \cup {Lead} : x = ItemOf(r, t)
  <2>1. CASE x \in Direct(row.sub, F)
    <3>1. PICK r \in F : x = ItemOf(r, Record[r].trigger)
      BY <2>1 DEF Direct
    <3>2. Record[r].trigger \in Triggers
      BY <1>1, AlertConstants DEF Fresh
    <3>. QED BY <3>1, <3>2
  <2>2. CASE x \in leads
    <3>. DEFINE hot == {Record[r].parcel : r \in F} \cap Hot
    <3>1. Lead \in Wanted[row.sub]
      BY <2>2 DEF LeadChoices
    <3>2. PICK first \in [hot -> F] : leads = {ItemOf(first[p], Lead) : p \in hot}
      BY <3>1 DEF LeadChoices
    <3>3. PICK p \in hot : x = ItemOf(first[p], Lead)
      BY <2>2, <3>2
    <3>. QED BY <3>2, <3>3
  <2>. QED BY <2>1, <2>2
<1>4. r \in Records /\ arrived[r] # Never
  BY <1>1, <1>3 DEF Fresh
<1>. QED BY <1>1, <1>3, <1>4, ItemFact

(* With room for every record, the LIMIT lets everything through. *)
LEMMA NothingCut ==
  ASSUME WindowsReach, NEW row, NEW F \in Limited(Fresh(row))
  PROVE  F = Fresh(row)
<1>1. Fresh(row) \subseteq Records /\ IsFiniteSet(Records)
  BY DEF Fresh, WindowsReach
<1>2. Cardinality(Fresh(row)) <= Cardinality(Records)
  BY <1>1, FS_Subset
<1>3. Cardinality(Fresh(row)) \in Nat /\ Cardinality(Records) \in Nat
  BY <1>1, FS_Subset, FS_CardinalityType
<1>. QED BY <1>2, <1>3, AlertConstants DEF Limited, WindowsReach

(* What a digest is made of: new items of one subscription's window, and all *)
(* of them when no LIMIT bites.                                              *)
LEMMA ComposeFact ==
  ASSUME Typed, NEW w \in Workers, Compose(w)
  PROVE  \E row \in queue[w], items \in SUBSET Item :
           /\ row \in Snapshot
           /\ queue' = [queue EXCEPT ![w] = @ \ {row}]
           /\ current' = [current EXCEPT ![w] = row]
           /\ digest' = [digest EXCEPT ![w] = items]
           /\ pending' = [pending EXCEPT ![w] = items]
           /\ Goto(w, IF items = {} THEN "advance" ELSE "insert")
           /\ \A x \in items : x.rec \in Fresh(row) /\ Sound(x) /\ Key(x) \notin Seen(row.sub)
           /\ WindowsReach => \A x \in Direct(row.sub, Fresh(row)) :
                                Key(x) \notin Seen(row.sub) => x \in items
<1>. DEFINE New(row, F, leads) ==
       {x \in Direct(row.sub, F) \cup leads : Key(x) \notin Seen(row.sub)}
<1>. DEFINE Made(row, items) ==
       /\ queue' = [queue EXCEPT ![w] = @ \ {row}]
       /\ current' = [current EXCEPT ![w] = row]
       /\ digest' = [digest EXCEPT ![w] = items]
       /\ pending' = [pending EXCEPT ![w] = items]
       /\ Goto(w, IF items = {} THEN "advance" ELSE "insert")
<1>1. PICK row \in queue[w] : \E F \in Limited(Fresh(row)) :
        \E leads \in LeadChoices(row.sub, F) : Made(row, New(row, F, leads))
  BY DEF Compose
<1>2. PICK F \in Limited(Fresh(row)) :
        \E leads \in LeadChoices(row.sub, F) : Made(row, New(row, F, leads))
  BY <1>1
<1>3. PICK leads \in LeadChoices(row.sub, F) : Made(row, New(row, F, leads))
  BY <1>2
<1>4. row \in Snapshot
  BY DEF Typed, TypeOK
<1>5. \A x \in New(row, F, leads) : x.rec \in Fresh(row) /\ x \in Item /\ Sound(x)
  BY <1>4, DigestFact
<1>6. \A x \in New(row, F, leads) : Key(x) \notin Seen(row.sub)
  OBVIOUS
<1>7. WindowsReach => \A x \in Direct(row.sub, Fresh(row)) :
                        Key(x) \notin Seen(row.sub) => x \in New(row, F, leads)
  BY NothingCut
<1>8. New(row, F, leads) \in SUBSET Item
  BY <1>5
<1>. HIDE DEF New
<1>. QED BY <1>3, <1>4, <1>5, <1>6, <1>7, <1>8

-----------------------------------------------------------------------------
(* The types. *)

LEMMA TypedInit == Init => Typed
<1>. SUFFICES ASSUME Init PROVE Typed
  OBVIOUS
<1>. USE AlertConstants DEF Init
<1>1. 0 \in Ticks
  BY DEF Ticks
<1>2. served \in BOOLEAN
  BY Zenon
<1>3. area \in [Areas -> {"new", "live", "gone"}] /\ sub \in [Subs -> {"new", "live", "gone"}]
  OBVIOUS
<1>4. pc \in [Workers -> {"idle", "next", "insert", "email", "advance"}]
  OBVIOUS
<1>. QED BY <1>1, <1>2, <1>3, <1>4 DEF Typed, TypeOK, AtWork

LEMMA TypedWorld ==
  ASSUME Typed, Tick \/ \E r \in Records : Arrive(r)
  PROVE  Typed'
<1>. USE AlertConstants DEF Typed, TypeOK, Ticks, AtWork, rows, work
<1>1. CASE Tick
  <2>1. now + 1 \in Ticks /\ now' = now + 1
    BY <1>1 DEF Tick
  <2>2. served' \in BOOLEAN
    BY <1>1 DEF Tick
  <2>3. \A e \in feed' : e.sub \in Subs /\ e.at \in 0 .. now' /\ e.by \in Workers
    BY <1>1, <2>1 DEF Tick
  <2>. QED BY <1>1, <2>1, <2>2, <2>3 DEF Tick
<1>2. CASE \E r \in Records : Arrive(r)
  BY <1>2 DEF Arrive
<1>. QED BY <1>1, <1>2

LEMMA TypedRequests ==
  ASSUME Typed,
         \/ \E a \in Areas : SaveArea(a) \/ DropSubscriptions(a) \/ DeleteArea(a)
         \/ \E s \in Subs : CheckArea(s) \/ Subscribe(s) \/ DeleteSubscription(s) \/ Unsubscribe(s)
  PROVE  Typed'
<1>. USE AlertConstants DEF Typed, TypeOK, Ticks, AtWork, work
<1>1. ASSUME NEW a \in Areas, SaveArea(a) PROVE Typed'
  BY <1>1 DEF SaveArea, Request
<1>2. ASSUME NEW a \in Areas, DropSubscriptions(a) PROVE Typed'
  BY <1>2 DEF DropSubscriptions, Request
<1>3. ASSUME NEW a \in Areas, DeleteArea(a) PROVE Typed'
  BY <1>3 DEF DeleteArea
<1>4. ASSUME NEW s \in Subs, CheckArea(s) PROVE Typed'
  BY <1>4 DEF CheckArea, Request
<1>5. ASSUME NEW s \in Subs, Subscribe(s) PROVE Typed'
  <2>1. posting' \subseteq Subs /\ sub' \in [Subs -> {"new", "live", "gone"}]
    BY <1>5 DEF Subscribe
  <2>2. channel' \in [Subs -> {"email", "in_app"}]
    <3>1. PICK c \in {"email", "in_app"} : channel' = [channel EXCEPT ![s] = c]
      BY <1>5 DEF Subscribe
    <3>2. channel \in [Subs -> {"email", "in_app"}]
      OBVIOUS
    <3>. QED BY <3>1, <3>2
  <2>3. created' \in [Subs -> Ticks]
    BY <1>5 DEF Subscribe
  <2>4. UNCHANGED <<now, arrived, requests, area, deleting, last, feed, emails, pc, work,
                    served, faults>>
    BY <1>5 DEF Subscribe
  <2>. QED BY <2>1, <2>2, <2>3, <2>4
<1>6. ASSUME NEW s \in Subs, DeleteSubscription(s) PROVE Typed'
  BY <1>6 DEF DeleteSubscription, Request
<1>7. ASSUME NEW s \in Subs, Unsubscribe(s) PROVE Typed'
  BY <1>7 DEF Unsubscribe, Request
<1>. QED BY <1>1, <1>2, <1>3, <1>4, <1>5, <1>6, <1>7

LEMMA TypedWorker ==
  ASSUME Typed, NEW w \in Workers,
         \/ SelectDue(w) \/ Compose(w) \/ Insert(w) \/ Email(w)
         \/ Advance(w) \/ Finish(w) \/ Skip(w) \/ Crash(w)
  PROVE  Typed'
<1>. USE AlertConstants DEF Typed, TypeOK, AtWork, rows, work, Goto
<1>1. CASE SelectDue(w)
  <2>1. queue'[w] \subseteq Snapshot
    BY <1>1 DEF SelectDue, Snapshot
  <2>. QED BY <1>1, <2>1 DEF SelectDue
<1>2. CASE Compose(w)
  <2>1. PICK row \in Snapshot, items \in SUBSET Item :
          /\ queue' = [queue EXCEPT ![w] = @ \ {row}]
          /\ current' = [current EXCEPT ![w] = row]
          /\ digest' = [digest EXCEPT ![w] = items]
          /\ pending' = [pending EXCEPT ![w] = items]
          /\ Goto(w, IF items = {} THEN "advance" ELSE "insert")
    <3>. HIDE DEF Typed, TypeOK, Goto
    <3>. QED BY <1>2, ComposeFact
  <2>. QED BY <1>2, <2>1 DEF Compose
<1>3. CASE Insert(w)
  <2>1. PICK x \in pending[w] :
       /\ feed' = feed \cup {FeedRow(w, x)}
       /\ pending' = [pending EXCEPT ![w] = @ \ {x}]
       /\ Goto(w, IF pending[w] = {x} THEN "email" ELSE "insert")
    BY <1>3 DEF Insert
  <2>2. FeedRow(w, x).sub \in Subs /\ FeedRow(w, x).at \in 0 .. now /\ FeedRow(w, x).by \in Workers
    BY <1>3 DEF Insert, FeedRow, Snapshot, Ticks
  <2>. QED BY <1>3, <2>1, <2>2 DEF Insert
<1>4. CASE Email(w)
  <2>1. \A e \in emails' : e.sub \in Subs /\ e.items \subseteq Item
    BY <1>4 DEF Email, Snapshot
  <2>. QED BY <1>4, <2>1 DEF Email
<1>5. CASE Advance(w)
  <2>1. last' \in [Subs -> Ticks \cup {Never}]
    BY <1>5 DEF Advance
  <2>. QED BY <1>5, <2>1 DEF Advance
<1>6. CASE Finish(w)
  BY <1>6 DEF Finish
<1>7. CASE Skip(w)
  BY <1>7 DEF Skip, Drop
<1>8. CASE Crash(w)
  BY <1>8 DEF Crash, Drop
<1>. QED BY <1>1, <1>2, <1>3, <1>4, <1>5, <1>6, <1>7, <1>8

LEMMA TypedStep == Typed /\ [Next]_vars => Typed'
<1>1. ASSUME Typed, UNCHANGED vars PROVE Typed'
  BY <1>1 DEF Typed, TypeOK, AtWork, vars, rows, work
<1>. QED BY <1>1, TypedWorld, TypedRequests, TypedWorker, Zenon DEF Next

-----------------------------------------------------------------------------
(* Who is waiting for a digest. *)

LEMMA NobodyMoves ==
  ASSUME UNCHANGED <<pc, queue, current>>
  PROVE  /\ \A w \in Workers : AtWork(w)' <=> AtWork(w)
         /\ \A s : Waiting(s)' <=> Waiting(s)
BY DEF AtWork, Waiting

(* A worker empties its queue one subscription at a time. *)
LEMMA QueueMoves ==
  ASSUME OneWorkflow, Typed, Queued, NEW w \in Workers, NEW s \in Subs
  PROVE  /\ SelectDue(w) => ~ Waiting(s) /\ (Waiting(s)' <=> Due(s))
         /\ Compose(w) \/ Insert(w) \/ Email(w) \/ Finish(w) => (Waiting(s)' <=> Waiting(s))
         /\ Advance(w) => (Waiting(s)' <=> Waiting(s) /\ s # current[w].sub)
         /\ Skip(w) => (Waiting(s)' => Waiting(s))
         /\ Crash(w) => ~ Waiting(s)'
<1>. USE DEF OneWorkflow, Waiting, AtWork, Goto, Typed
<1>1. ASSUME SelectDue(w) PROVE ~ Waiting(s) /\ (Waiting(s)' <=> Due(s))
  <2>1. ~ Waiting(s)
    BY <1>1 DEF SelectDue, Queued
  <2>2. pc'[w] = "next"
    BY <1>1 DEF SelectDue, TypeOK
  <2>3. queue'[w] =
          {[sub |-> x, channel |-> channel[x], last |-> last[x]] : x \in {y \in Subs : Due(y)}}
    BY <1>1 DEF SelectDue
  <2>4. Waiting(s)' <=> \E row \in queue'[w] : row.sub = s
    BY <2>2
  <2>5. ASSUME Due(s) PROVE \E row \in queue'[w] : row.sub = s
    <3>. DEFINE q == [sub |-> s, channel |-> channel[s], last |-> last[s]]
    <3>1. q \in queue'[w] /\ q.sub = s
      BY <2>3, <2>5
    <3>. QED BY <3>1
  <2>6. ASSUME NEW row \in queue'[w], row.sub = s PROVE Due(s)
    BY <2>3, <2>6
  <2>. QED BY <2>1, <2>4, <2>5, <2>6
<1>2. ASSUME Compose(w) PROVE Waiting(s)' <=> Waiting(s)
  <2>1. PICK row \in queue[w] : /\ queue' = [queue EXCEPT ![w] = @ \ {row}]
                                /\ current' = [current EXCEPT ![w] = row]
                                /\ pc'[w] \in {"insert", "advance"} /\ pc[w] = "next"
    BY <1>2 DEF Compose, TypeOK
  <2>2. queue'[w] = queue[w] \ {row} /\ current'[w] = row
    BY <2>1
  <2>3. (\E q \in queue'[w] : q.sub = s) \/ row.sub = s <=> \E q \in queue[w] : q.sub = s
    BY <2>2
  <2>4. Waiting(s)' <=> (\E q \in queue'[w] : q.sub = s) \/ row.sub = s
    BY <2>1, <2>2
  <2>5. Waiting(s) <=> \E q \in queue[w] : q.sub = s
    BY <2>1
  <2>. QED BY <2>3, <2>4, <2>5
<1>3. ASSUME Insert(w) PROVE Waiting(s)' <=> Waiting(s)
  BY <1>3 DEF Insert, TypeOK
<1>4. ASSUME Email(w) PROVE Waiting(s)' <=> Waiting(s)
  BY <1>4 DEF Email, TypeOK, work
<1>5. ASSUME Finish(w) PROVE Waiting(s)' <=> Waiting(s)
  BY <1>5 DEF Finish, TypeOK, work
<1>6. ASSUME Advance(w) PROVE Waiting(s)' <=> Waiting(s) /\ s # current[w].sub
  <2>1. /\ pc[w] = "advance" /\ pc'[w] = "next" /\ queue' = queue
        /\ \A row \in queue[w] : row.sub # current[w].sub
    BY <1>6 DEF Advance, Queued, TypeOK
  <2>2. Waiting(s)' <=> \E row \in queue[w] : row.sub = s
    BY <2>1
  <2>3. Waiting(s) <=> (\E row \in queue[w] : row.sub = s) \/ current[w].sub = s
    BY <2>1
  <2>. QED BY <2>1, <2>2, <2>3
<1>7. ASSUME Skip(w) PROVE Waiting(s)' => Waiting(s)
  BY <1>7 DEF Skip, Drop, TypeOK
<1>8. ASSUME Crash(w) PROVE ~ Waiting(s)'
  BY <1>8 DEF Crash, Drop, TypeOK
<1>. QED BY <1>1, <1>2, <1>3, <1>4, <1>5, <1>6, <1>7, <1>8

-----------------------------------------------------------------------------
(* Ages, queues and the lag of a window. *)

LEMMA DatesInit == Init => DatesInv
<1>. SUFFICES ASSUME Init PROVE DatesInv
  OBVIOUS
<1>1. Typed
  BY TypedInit
<1>2. \A s : ~ Waiting(s)
  BY DEF Init, Waiting, AtWork
<1>3. Aged
  BY <1>2, AlertConstants, WindowAssumption DEF Init, Aged, Never
<1>4. Queued
  BY DEF Init, Queued, AtWork
<1>5. Lag
  <2>1. \A s \in Subs : Slack(s) \in Nat
    BY DEF Slack, Init
  <2>2. Day(0) \in Nat
    BY DayBounds
  <2>. QED BY <2>1, <2>2 DEF Lag, Init
<1>. QED BY <1>1, <1>3, <1>4, <1>5 DEF DatesInv

(* The day turns only after its digest: a subscription that is not waiting  *)
(* has the new day to spare.                                                *)
LEMMA DatesTick ==
  ASSUME Schedule, DatesInv, Tick
  PROVE  Aged' /\ Queued' /\ Lag'
<1>. USE DEF DatesInv
<1>1. /\ now \in Nat /\ now' = now + 1 /\ faults' = faults /\ faults \in Nat
      /\ \A s \in Subs : last[s] \in Int /\ created[s] \in Int
      /\ \A r \in Records : arrived[r] \in Int
  BY DEF Tick, Typed, TypeOK, Ticks, Never
<1>2. UNCHANGED <<arrived, area, sub, created, posting, last, pc, queue, current>>
  BY DEF Tick, rows, work
<1>3. /\ \A w \in Workers : AtWork(w)' <=> AtWork(w)
      /\ \A s : Waiting(s)' <=> Waiting(s)
  BY <1>2, NobodyMoves
<1>4. Aged'
  BY <1>1, <1>2, <1>3 DEF Aged
<1>5. Queued'
  BY <1>2, <1>3 DEF Queued, Tick
<1>6. Lag'
  <2>1. \A s \in Subs : ~ Waiting(s)
    BY DEF Tick, Queued, Waiting, AtWork
  <2>2. Day(now) \in Nat /\ Day(now + 1) \in Nat /\ Day(now + 1) <= Day(now) + 1
    BY <1>1, DayBounds, DaysPass
  <2>3. CASE Day(now + 1) = Day(now)
    BY <1>1, <1>2, <1>3, <2>3 DEF Lag, Slack, Tick
  <2>4. CASE Day(now + 1) # Day(now)
    <3>1. served /\ ~ served'
      BY <2>4 DEF Tick
    <3>2. \A s \in Subs : Slack(s) = faults /\ Slack(s)' = faults + 1
      BY <1>1, <2>1, <3>1 DEF Slack
    <3>3. ASSUME NEW s \in Subs
          PROVE  /\ created[s] \in Nat /\ Day(created[s]) \in Nat
                 /\ last[s] # Never => last[s] \in Nat /\ Day(last[s]) \in Nat
      <4>1. created[s] \in Nat /\ (last[s] # Never => last[s] \in Nat)
        BY DEF Typed, TypeOK, Ticks
      <4>. QED BY <4>1, DayBounds
    <3>4. Jitter \in Nat
      BY DEF Jitter
    <3>. QED BY <1>1, <1>2, <1>3, <2>2, <3>2, <3>3, <3>4 DEF Lag
  <2>. QED BY <2>3, <2>4
<1>. QED BY <1>4, <1>5, <1>6

LEMMA DatesArrive ==
  ASSUME DatesInv, NEW r \in Records, Arrive(r)
  PROVE  Aged' /\ Queued' /\ Lag'
<1>. USE DEF DatesInv
<1>1. UNCHANGED <<now, area, sub, created, posting, last, pc, queue, current, served, faults>>
  BY DEF Arrive, rows, work
<1>2. /\ \A w \in Workers : AtWork(w)' <=> AtWork(w)
      /\ \A s : Waiting(s)' <=> Waiting(s)
  BY <1>1, NobodyMoves
<1>3. now \in Nat /\ arrived' = [arrived EXCEPT ![r] = now] /\ arrived \in [Records -> Int]
  BY DEF Arrive, Typed, TypeOK, Ticks, Never
<1>4. Aged'
  BY <1>1, <1>2, <1>3 DEF Aged
<1>5. Queued'
  BY <1>1, <1>2 DEF Queued
<1>6. Lag'
  BY <1>1, <1>2 DEF Lag, Slack
<1>. QED BY <1>4, <1>5, <1>6

(* A new row has no digest yet, and only live rows of live areas lag. *)
LEMMA DatesRequests ==
  ASSUME DatesInv,
         \/ \E a \in Areas : SaveArea(a) \/ DropSubscriptions(a) \/ DeleteArea(a)
         \/ \E s \in Subs : CheckArea(s) \/ Subscribe(s) \/ DeleteSubscription(s) \/ Unsubscribe(s)
  PROVE  Aged' /\ Queued' /\ Lag'
<1>. USE AlertConstants DEF DatesInv
<1>1. UNCHANGED <<now, arrived, last, pc, queue, current, served, faults>>
  BY DEF SaveArea, DropSubscriptions, DeleteArea, CheckArea, Subscribe, DeleteSubscription,
         Unsubscribe, work
<1>2. /\ \A w \in Workers : AtWork(w)' <=> AtWork(w)
      /\ \A s : Waiting(s)' <=> Waiting(s)
  BY <1>1, NobodyMoves
<1>3. Queued'
  BY <1>1, <1>2 DEF Queued
<1>4. \A s \in Subs : Slack(s)' = Slack(s) /\ Slack(s) \in Nat
  BY <1>1, <1>2 DEF Slack, Typed, TypeOK
<1>5. now \in Nat /\ Day(now) \in Nat
  BY DayBounds DEF Typed, TypeOK, Ticks
<1>6. /\ area \in [Areas -> {"new", "live", "gone"}] /\ sub \in [Subs -> {"new", "live", "gone"}]
      /\ created \in [Subs -> Nat] /\ last \in [Subs -> Int]
  BY DEF Typed, TypeOK, Ticks, Never
<1>7. ASSUME NEW a \in Areas, SaveArea(a) PROVE Aged' /\ Lag'
  <2>1. area[a] = "new" /\ area' = [area EXCEPT ![a] = "live"]
    BY <1>7 DEF SaveArea
  <2>2. UNCHANGED <<sub, created, posting>>
    BY <1>7 DEF SaveArea
  <2>3. Aged'
    BY <1>1, <1>2, <1>6, <2>1, <2>2 DEF Aged
  <2>4. \A s \in Subs : AreaOf[s] = a => sub[s] = "new" /\ ~ Waiting(s)
    BY <1>6, <2>1 DEF Aged
  <2>. QED BY <1>1, <1>2, <1>4, <1>6, <2>1, <2>2, <2>3, <2>4 DEF Lag
<1>8. ASSUME NEW a \in Areas, DropSubscriptions(a) PROVE Aged' /\ Lag'
  <2>1. /\ sub' = [s \in Subs |-> IF AreaOf[s] = a /\ sub[s] = "live" THEN "gone" ELSE sub[s]]
        /\ UNCHANGED <<area, created, posting>>
    BY <1>8 DEF DropSubscriptions
  <2>. QED BY <1>1, <1>2, <1>4, <1>6, <2>1 DEF Aged, Lag
<1>9. ASSUME NEW a \in Areas, DeleteArea(a) PROVE Aged' /\ Lag'
  <2>1. area' = [area EXCEPT ![a] = "gone"] /\ UNCHANGED <<sub, created, posting>>
    BY <1>9 DEF DeleteArea
  <2>. QED BY <1>1, <1>2, <1>4, <1>6, <2>1 DEF Aged, Lag
<1>10. ASSUME NEW s \in Subs, CheckArea(s) PROVE Aged' /\ Lag'
  <2>1. /\ sub[s] = "new" /\ area[AreaOf[s]] = "live" /\ posting' = posting \cup {s}
        /\ UNCHANGED <<sub, created, area>>
    BY <1>10 DEF CheckArea
  <2>. QED BY <1>1, <1>2, <1>4, <1>6, <2>1 DEF Aged, Lag
<1>11. ASSUME NEW s \in Subs, Subscribe(s) PROVE Aged' /\ Lag'
  <2>1. /\ s \in posting /\ posting' = posting \ {s} /\ sub' = [sub EXCEPT ![s] = "live"]
        /\ created' = [created EXCEPT ![s] = now] /\ UNCHANGED area
    BY <1>11 DEF Subscribe
  <2>2. sub[s] = "new" /\ area[AreaOf[s]] # "new" /\ last[s] = Never
    BY <2>1 DEF Aged
  <2>3. Aged'
    BY <1>1, <1>2, <1>5, <1>6, <2>1, <2>2 DEF Aged
  <2>4. \A x \in Subs : x # s => sub'[x] = sub[x] /\ created'[x] = created[x]
    BY <1>6, <2>1
  <2>5. created'[s] = now
    BY <1>6, <2>1
  <2>6. Day(now) <= Day(now) + Slack(s)
    BY <1>4, <1>5
  <2>. QED BY <1>1, <1>2, <1>4, <2>1, <2>2, <2>3, <2>4, <2>5, <2>6 DEF Lag
<1>12. ASSUME NEW s \in Subs, DeleteSubscription(s) PROVE Aged' /\ Lag'
  <2>1. /\ sub[s] = "live" /\ sub' = [sub EXCEPT ![s] = "gone"]
        /\ UNCHANGED <<area, created, posting>>
    BY <1>12 DEF DeleteSubscription
  <2>. QED BY <1>1, <1>2, <1>4, <1>6, <2>1 DEF Aged, Lag
<1>13. ASSUME NEW s \in Subs, Unsubscribe(s) PROVE Aged' /\ Lag'
  BY <1>1, <1>2, <1>4, <1>13 DEF Unsubscribe, Aged, Lag
<1>. QED BY <1>3, <1>7, <1>8, <1>9, <1>10, <1>11, <1>12, <1>13

(* A subscription leaves the queue served, or at the price of a failure. *)
LEMMA DatesWorker ==
  ASSUME OneWorkflow, Schedule, DatesInv, NEW w \in Workers,
         \/ SelectDue(w) \/ Compose(w) \/ Insert(w) \/ Email(w)
         \/ Advance(w) \/ Finish(w) \/ Skip(w) \/ Crash(w)
  PROVE  Aged' /\ Queued' /\ Lag'
<1>. USE AlertConstants DEF DatesInv, Goto
<1>1. UNCHANGED <<now, arrived, area, sub, created, posting>>
  BY DEF SelectDue, Compose, Insert, Email, Advance, Finish, Skip, Crash, rows
<1>2. /\ now \in Nat /\ Day(now) \in Nat /\ faults \in Nat /\ served \in BOOLEAN /\ Jitter \in Nat
      /\ created \in [Subs -> Nat] /\ last \in [Subs -> Int]
  BY DayBounds DEF Typed, TypeOK, Ticks, Never, Jitter
<1>3. \A s \in Subs :
        /\ SelectDue(w) => ~ Waiting(s) /\ (Waiting(s)' <=> Due(s))
        /\ Compose(w) \/ Insert(w) \/ Email(w) \/ Finish(w) => (Waiting(s)' <=> Waiting(s))
        /\ Advance(w) => (Waiting(s)' <=> Waiting(s) /\ s # current[w].sub)
        /\ Skip(w) => (Waiting(s)' => Waiting(s))
        /\ Crash(w) => ~ Waiting(s)'
  BY QueueMoves
<1>4. ASSUME ~ Advance(w) PROVE last' = last
  BY <1>4 DEF SelectDue, Compose, Insert, Email, Finish, Skip, Crash
<1>5. CASE SelectDue(w)
  <2>1. /\ pc[w] = "idle" /\ ~ served /\ served' /\ faults' = faults /\ last' = last
        /\ pc'[w] = "next" /\ queue \in [Workers -> SUBSET Snapshot]
        /\ queue' = [queue EXCEPT ![w] =
             {[sub |-> s, channel |-> channel[s], last |-> last[s]] : s \in {x \in Subs : Due(x)}}]
    BY <1>5 DEF SelectDue, Typed, TypeOK
  <2>2. Aged'
    BY <1>1, <1>2, <1>3, <1>5, <2>1 DEF Aged, Due
  <2>3. Queued'
    <3>1. queue'[w] =
            {[sub |-> s, channel |-> channel[s], last |-> last[s]] : s \in {x \in Subs : Due(x)}}
      BY <2>1
    <3>2. \A row \in queue'[w] :
            row = [sub |-> row.sub, channel |-> channel[row.sub], last |-> last[row.sub]]
      BY <3>1
    <3>3. \A row \in queue'[w] : row.last = last[row.sub]
      BY <3>2
    <3>4. \A row, other \in queue'[w] : row.sub = other.sub => row = other
      BY <3>2
    <3>. QED BY <2>1, <3>3, <3>4 DEF OneWorkflow, Queued, AtWork
  <2>6. ASSUME NEW s \in Subs
        PROVE  /\ Slack(s) = faults + 1
               /\ Due(s) => Slack(s)' = faults + 1
               /\ ~ Due(s) => Slack(s)' = faults
    <3>1. ~ Waiting(s) /\ (Waiting(s)' <=> Due(s))
      BY <1>3, <1>5
    <3>2. CASE Due(s)
      BY <1>2, <2>1, <3>1, <3>2 DEF Slack
    <3>3. CASE ~ Due(s)
      BY <1>2, <2>1, <3>1, <3>3 DEF Slack
    <3>. QED BY <3>2, <3>3
  <2>4. ASSUME NEW s \in Subs, sub[s] = "live", area[AreaOf[s]] = "live", ~ Due(s)
        PROVE  last[s] # Never /\ Day(now) <= Day(last[s]) + faults + Jitter
    <3>1. last[s] # Never /\ last[s] \in Nat /\ now < last[s] + DayTicks
      BY <1>2, <2>4 DEF Due, Typed, TypeOK, Ticks
    <3>2. Day(now) <= Day(last[s]) + Jitter /\ Day(last[s]) \in Nat
      BY <1>2, <3>1, DaysPass, DayBounds
    <3>. QED BY <1>2, <3>1, <3>2
  <2>5. Lag'
    <3>. SUFFICES ASSUME NEW s \in Subs, area[AreaOf[s]] = "live", sub[s] = "live" \/ Due(s)
                  PROVE  IF last[s] = Never THEN Day(now) <= Day(created[s]) + Slack(s)'
                         ELSE Day(now) <= Day(last[s]) + Slack(s)' + Jitter
      BY <1>1, <1>3, <1>5, <2>1 DEF Lag
    <3>1. sub[s] = "live"
      BY DEF Due
    <3>2. CASE Due(s)
      BY <1>2, <2>6, <3>1, <3>2 DEF Lag
    <3>3. CASE ~ Due(s)
      BY <1>2, <2>6, <2>4, <3>1, <3>3
    <3>. QED BY <3>2, <3>3
  <2>. QED BY <2>2, <2>3, <2>5
<1>6. CASE Compose(w) \/ Insert(w) \/ Email(w) \/ Finish(w)
  <2>1. last' = last /\ served' = served /\ faults' = faults
    BY <1>6 DEF Compose, Insert, Email, Finish
  <2>2. Aged'
    BY <1>1, <1>3, <1>6, <2>1 DEF Aged
  <2>3. Queued'
    <3>1. CASE Compose(w)
      BY <2>1, <3>1 DEF Compose, Queued, AtWork, OneWorkflow, Typed, TypeOK
    <3>2. CASE Insert(w)
      BY <2>1, <3>2 DEF Insert, Queued, AtWork, OneWorkflow, Typed, TypeOK
    <3>3. CASE Email(w)
      BY <2>1, <3>3 DEF Email, Queued, AtWork, OneWorkflow, Typed, TypeOK, work
    <3>4. CASE Finish(w)
      BY <2>1, <3>4 DEF Finish, Queued, AtWork, OneWorkflow, Typed, TypeOK, work
    <3>. QED BY <1>6, <3>1, <3>2, <3>3, <3>4
  <2>4. Lag'
    BY <1>1, <1>3, <1>6, <2>1 DEF Lag, Slack
  <2>. QED BY <2>2, <2>3, <2>4
<1>7. CASE Advance(w)
  <2>1. PICK s \in Subs : s = current[w].sub
    BY <1>7 DEF Advance, Typed, AtWork, Snapshot
  <2>2. /\ pc[w] = "advance" /\ pc'[w] = "next" /\ queue' = queue
        /\ served' = served /\ faults' = faults /\ served
        /\ last' = [last EXCEPT ![s] = IF sub[s] = "live" THEN now ELSE @]
    BY <1>7, <2>1 DEF Advance, Typed, TypeOK, Queued
  <2>3. /\ Waiting(s) /\ ~ Waiting(s)'
        /\ \A x \in Subs : x # s => last'[x] = last[x] /\ (Waiting(x)' <=> Waiting(x))
        /\ last'[s] = IF sub[s] = "live" THEN now ELSE last[s]
    <3>1. Waiting(s)
      BY <2>1, <2>2 DEF Waiting, AtWork
    <3>2. \A x \in Subs : Waiting(x)' <=> Waiting(x) /\ x # s
      BY <1>3, <1>7, <2>1
    <3>3. /\ \A x \in Subs : x # s => last'[x] = last[x]
          /\ last'[s] = IF sub[s] = "live" THEN now ELSE last[s]
      BY <1>2, <2>2
    <3>. QED BY <2>2, <3>1, <3>2, <3>3
  <2>4. Aged'
    BY <1>1, <1>2, <2>2, <2>3 DEF Aged
  <2>5. Queued'
    <3>1. \A row \in queue[w] : row.sub # s /\ row.sub \in Subs
      BY <2>1, <2>2 DEF Queued, AtWork, Typed, Snapshot
    <3>. QED BY <2>2, <2>3, <3>1 DEF Queued, AtWork, OneWorkflow
  <2>6. Slack(s)' = faults /\ \A x \in Subs : x # s => Slack(x)' = Slack(x)
    BY <1>2, <2>2, <2>3 DEF Slack
  <2>7. Day(now) <= Day(now) + faults + Jitter /\ now # Never
    BY <1>2 DEF Never
  <2>8. Lag'
    <3>. SUFFICES ASSUME NEW x \in Subs, area[AreaOf[x]] = "live", sub[x] = "live" \/ Waiting(x)'
                  PROVE  IF last'[x] = Never THEN Day(now) <= Day(created[x]) + Slack(x)'
                         ELSE Day(now) <= Day(last'[x]) + Slack(x)' + Jitter
      BY <1>1 DEF Lag
    <3>1. CASE x = s
      BY <2>2, <2>3, <2>6, <2>7, <3>1
    <3>2. CASE x # s
      BY <2>3, <2>6, <3>2 DEF Lag
    <3>. QED BY <3>1, <3>2
  <2>. QED BY <2>4, <2>5, <2>8
<1>8. CASE Skip(w) \/ Crash(w)
  <2>1. last' = last /\ served' = served /\ faults' = faults + 1
    BY <1>8 DEF Skip, Crash, Drop
  <2>2. \A s \in Subs : Waiting(s)' => Waiting(s)
    BY <1>3, <1>8
  <2>3. Aged'
    BY <1>1, <2>1, <2>2 DEF Aged
  <2>4. Queued'
    <3>1. CASE Skip(w)
      BY <2>1, <3>1 DEF Skip, Drop, Queued, AtWork, OneWorkflow, Typed, TypeOK
    <3>2. CASE Crash(w)
      BY <2>1, <3>2 DEF Crash, Drop, Queued, AtWork, OneWorkflow, Typed, TypeOK
    <3>. QED BY <1>8, <3>1, <3>2
  <2>5. \A s \in Subs : Slack(s) \in Nat /\ Slack(s)' \in Nat /\ Slack(s) <= Slack(s)'
    BY <1>2, <2>1 DEF Slack
  <2>6. \A s \in Subs : Day(created[s]) \in Nat /\ (last[s] # Never => Day(last[s]) \in Nat)
    BY <1>2, DayBounds DEF Typed, TypeOK, Ticks
  <2>7. Lag'
    BY <1>1, <1>2, <2>1, <2>2, <2>5, <2>6 DEF Lag
  <2>. QED BY <2>3, <2>4, <2>7
<1>. QED BY <1>5, <1>6, <1>7, <1>8

LEMMA DatesStep ==
  ASSUME OneWorkflow, Schedule
  PROVE  DatesInv /\ [Next]_vars => DatesInv'
<1>1. ASSUME DatesInv, UNCHANGED vars PROVE Aged' /\ Queued' /\ Lag'
  <2>1. UNCHANGED <<pc, queue, current>>
    BY <1>1 DEF vars, work
  <2>2. /\ \A w \in Workers : AtWork(w)' <=> AtWork(w)
        /\ \A s : Waiting(s)' <=> Waiting(s)
    BY <2>1, NobodyMoves
  <2>. QED BY <1>1, <2>2 DEF DatesInv, Aged, Queued, Lag, Slack, vars, rows, work
<1>2. DatesInv /\ [Next]_vars => Typed'
  BY TypedStep DEF DatesInv
<1>3. DatesInv /\ [Next]_vars => Aged' /\ Queued' /\ Lag'
  BY <1>1, DatesTick, DatesArrive, DatesRequests, DatesWorker, Zenon DEF Next
<1>. QED BY <1>2, <1>3 DEF DatesInv

-----------------------------------------------------------------------------
(* What the window reaches. *)

(* The record of an area the row is about, dated the day it arrived and not  *)
(* before the last digest, is among the rows the digest asks for.            *)
LEMMA WindowOpens ==
  ASSUME WindowsReach, DatesInv, NEW w \in Workers, NEW row \in queue[w],
         sub[row.sub] = "live", area[AreaOf[row.sub]] = "live",
         NEW r \in Records, Matches(row.sub, r), last[row.sub] <= arrived[r]
  PROVE  r \in Fresh(row)
<1>. USE AlertConstants DEF DatesInv
<1>. DEFINE s == row.sub
<1>1. /\ s \in Subs /\ row.last = last[s]
      /\ created[s] \in Nat /\ created[s] <= arrived[r] /\ (last[s] # Never => last[s] \in Nat)
  BY DEF Typed, TypeOK, Snapshot, Queued, Matches, Ticks
<1>2. arrived[r] \in Nat /\ arrived[r] # Never /\ now \in Nat /\ faults \in 0 .. MaxFaults
  BY <1>1 DEF Typed, TypeOK, Ticks, Never
<1>3. DateOf(r) = Day(arrived[r])
  <2>1. Day(arrived[r]) \in Nat
    BY <1>2, DayBounds
  <2>. QED BY <2>1 DEF DateOf, Matches
<1>4. Day(arrived[r]) >= Since(row)
  <2>1. CASE last[s] = Never
    <3>1. Slack(s) <= MaxFaults + 1 /\ Slack(s) \in Nat
      BY <1>2 DEF Slack
    <3>2. Day(now) <= Day(created[s]) + Slack(s)
      BY <1>1, <2>1 DEF Lag
    <3>3. /\ Day(created[s]) \in Nat /\ Day(arrived[r]) \in Nat /\ Day(now) \in Nat
          /\ Day(created[s]) <= Day(arrived[r])
      BY <1>1, <1>2, DayBounds, DaysPass
    <3>. QED BY <1>1, <2>1, <3>1, <3>2, <3>3 DEF Since, WindowsReach
  <2>2. CASE last[s] # Never
    <3>1. Day(last[s]) <= Day(arrived[r]) /\ Day(last[s]) \in Nat /\ Day(arrived[r]) \in Nat
      BY <1>1, <1>2, <2>2, DayBounds, DaysPass
    <3>. QED BY <1>1, <2>2, <3>1 DEF Since
  <2>. QED BY <2>1, <2>2
<1>. QED BY <1>2, <1>3, <1>4 DEF Fresh, Matches

(* What is told stays told. *)
LEMMA ToldStays ==
  ASSUME NEW s, NEW r, Told(s, r), feed \subseteq feed', arrived'[r] = arrived[r]
  PROVE  Told(s, r)'
<1>1. PICK e \in feed : Owner[e.sub] = Owner[s] /\ Key(e) = Key(ItemOf(r, Record[r].trigger))
  BY DEF Told
<1>2. ItemOf(r, Record[r].trigger)' = ItemOf(r, Record[r].trigger)
  BY DEF ItemOf, DateOf
<1>3. e \in feed' /\ Owner[e.sub] = Owner[s] /\ Key(e) = Key(ItemOf(r, Record[r].trigger)')
  BY <1>1, <1>2
<1>. QED BY <1>3 DEF Told, Key

-----------------------------------------------------------------------------
(* The window loses nothing. *)

LEMMA LossInit == Init => LossInv
<1>. SUFFICES ASSUME Init PROVE Heard /\ WindowLosesNothing
  BY DatesInit DEF LossInv
<1>1. Heard
  BY DEF Init, Heard, AtWork
<1>2. \A s \in Subs, r \in Records : ~ (arrived[r] < last[s])
  BY DEF Init, Never
<1>. QED BY <1>1, <1>2 DEF WindowLosesNothing

LEMMA LossWorld ==
  ASSUME LossInv, Tick \/ \E r \in Records : Arrive(r)
  PROVE  Heard' /\ WindowLosesNothing'
<1>. USE DEF LossInv, DatesInv
<1>1. UNCHANGED <<area, sub, created, last, feed, pc, queue, current, pending>>
  BY DEF Tick, Arrive, rows, work
<1>2. /\ now \in Nat
      /\ \A s \in Subs : last[s] \in Int /\ last[s] <= now
      /\ \A r \in Records : arrived[r] \in Int
  BY DEF Typed, TypeOK, Ticks, Never, Aged
<1>3. \A r \in Records : arrived'[r] = arrived[r] \/ arrived'[r] = now
  BY DEF Tick, Arrive, Typed, TypeOK
<1>4. WindowLosesNothing'
  <2>. SUFFICES ASSUME NEW s \in Subs, NEW r \in Records,
                       sub[s] = "live", area[AreaOf[s]] = "live", Record[r].lag = 0,
                       Record[r].trigger \in Wanted[s], Record[r].parcel \in Inside[AreaOf[s]],
                       created[s] <= arrived'[r], arrived'[r] < last[s]
                PROVE  Told(s, r)'
    BY <1>1 DEF WindowLosesNothing
  <2>1. arrived'[r] = arrived[r]
    BY <1>2, <1>3
  <2>2. Told(s, r)
    BY <2>1 DEF WindowLosesNothing
  <2>. QED BY <1>1, <2>1, <2>2, ToldStays
<1>5. Heard'
  <2>1. CASE Tick
    BY <1>1, <2>1 DEF Tick, Heard, AtWork
  <2>2. CASE \E r \in Records : Arrive(r)
    <3>. SUFFICES ASSUME NEW w \in Workers, AtWork(w), sub[current[w].sub] = "live",
                         area[AreaOf[current[w].sub]] = "live", NEW r \in Records,
                         Matches(current[w].sub, r)', arrived'[r] < now
                  PROVE  \/ Told(current[w].sub, r)'
                         \/ \E x \in pending[w] : Key(x) = Key(ItemOf(r, Record[r].trigger)')
      <4>1. now' = now
        BY <2>2 DEF Arrive
      <4>. QED BY <1>1, <4>1 DEF Heard, AtWork, Matches, Told, Key, ItemOf, DateOf
    <3>1. arrived'[r] = arrived[r]
      BY <1>2, <1>3
    <3>2. Matches(current[w].sub, r) /\ ItemOf(r, Record[r].trigger)' = ItemOf(r, Record[r].trigger)
      BY <1>1, <3>1 DEF Matches, ItemOf, DateOf
    <3>3. CASE Told(current[w].sub, r)
      BY <1>1, <3>1, <3>3, ToldStays DEF Told
    <3>4. CASE ~ Told(current[w].sub, r)
      BY <3>1, <3>2, <3>4 DEF Heard
    <3>. QED BY <3>3, <3>4
  <2>. QED BY <2>1, <2>2
<1>. QED BY <1>4, <1>5

(* A request never gives a digest to a subscription that has had one. *)
LEMMA LossRequests ==
  ASSUME LossInv,
         \/ \E a \in Areas : SaveArea(a) \/ DropSubscriptions(a) \/ DeleteArea(a)
         \/ \E s \in Subs : CheckArea(s) \/ Subscribe(s) \/ DeleteSubscription(s) \/ Unsubscribe(s)
  PROVE  Heard' /\ WindowLosesNothing'
<1>. USE AlertConstants DEF LossInv, DatesInv
<1>1. UNCHANGED <<now, arrived, last, feed, pc, queue, current, pending>>
  BY DEF SaveArea, DropSubscriptions, DeleteArea, CheckArea, Subscribe, DeleteSubscription,
         Unsubscribe, work
<1>2. /\ area \in [Areas -> {"new", "live", "gone"}] /\ sub \in [Subs -> {"new", "live", "gone"}]
      /\ created \in [Subs -> Nat] /\ last \in [Subs -> Int] /\ arrived \in [Records -> Int]
  BY DEF Typed, TypeOK, Ticks, Never
<1>3. ASSUME NEW s \in Subs, sub[s] # "new", sub'[s] = "live", area'[AreaOf[s]] = "live"
      PROVE  sub[s] = "live" /\ area[AreaOf[s]] = "live" /\ created'[s] = created[s]
  <2>1. area[AreaOf[s]] # "new" /\ \A x \in posting : sub[x] = "new"
    BY <1>2, <1>3 DEF Aged, Typed, TypeOK
  <2>. QED BY <1>2, <1>3, <2>1 DEF SaveArea, DropSubscriptions, DeleteArea, CheckArea,
                                   Subscribe,
              DeleteSubscription, Unsubscribe
<1>4. WindowLosesNothing'
  <2>. SUFFICES ASSUME NEW s \in Subs, NEW r \in Records,
                       sub'[s] = "live", area'[AreaOf[s]] = "live", Record[r].lag = 0,
                       Record[r].trigger \in Wanted[s], Record[r].parcel \in Inside[AreaOf[s]],
                       created'[s] <= arrived[r], arrived[r] < last[s]
                PROVE  Told(s, r)'
    BY <1>1 DEF WindowLosesNothing
  <2>1. arrived[r] >= Never
    BY DEF Typed, TypeOK, Ticks, Never
  <2>2. sub[s] # "new"
    BY <1>2, <2>1 DEF Aged, Never
  <2>3. Told(s, r)
    BY <1>3, <2>2 DEF WindowLosesNothing
  <2>. QED BY <1>1, <2>3, ToldStays
<1>5. Heard'
  <2>. SUFFICES ASSUME NEW w \in Workers, AtWork(w), sub'[current[w].sub] = "live",
                       area'[AreaOf[current[w].sub]] = "live", NEW r \in Records,
                       Matches(current[w].sub, r)', arrived[r] < now
                PROVE  \/ Told(current[w].sub, r)'
                       \/ \E x \in pending[w] : Key(x) = Key(ItemOf(r, Record[r].trigger))
    BY <1>1 DEF Heard, AtWork, Matches, Told, Key, ItemOf, DateOf
  <2>1. PICK s \in Subs : s = current[w].sub
    BY DEF Typed, Snapshot
  <2>2. sub[s] # "new"
    BY <2>1 DEF Aged, Waiting
  <2>3. sub[s] = "live" /\ area[AreaOf[s]] = "live" /\ created'[s] = created[s]
    BY <1>3, <2>1, <2>2
  <2>4. Matches(s, r)
    BY <1>1, <2>1, <2>3 DEF Matches
  <2>5. Told(s, r) \/ \E x \in pending[w] : Key(x) = Key(ItemOf(r, Record[r].trigger))
    BY <2>1, <2>3, <2>4 DEF Heard
  <2>6. Told(s, r) => Told(s, r)'
    BY <1>1, ToldStays
  <2>7. Told(s, r)' <=> Told(current[w].sub, r)'
    BY <1>1, <2>1 DEF Told
  <2>. QED BY <2>5, <2>6, <2>7
<1>. QED BY <1>4, <1>5

LEMMA LossWorker ==
  ASSUME OneWorkflow, WindowsReach, LossInv, NEW w \in Workers,
         \/ SelectDue(w) \/ Compose(w) \/ Insert(w) \/ Email(w)
         \/ Advance(w) \/ Finish(w) \/ Skip(w) \/ Crash(w)
  PROVE  Heard' /\ WindowLosesNothing'
<1>. USE AlertConstants DEF LossInv, DatesInv, Goto
<1>1. UNCHANGED <<now, arrived, area, sub, created>>
  BY DEF SelectDue, Compose, Insert, Email, Advance, Finish, Skip, Crash, rows
<1>2. feed \subseteq feed'
  BY DEF SelectDue, Compose, Insert, Email, Advance, Finish, Skip, Crash
<1>3. \A s, r : Told(s, r) => Told(s, r)'
  BY <1>1, <1>2, ToldStays
<1>4. \A s, r : Told(s, r) <=> \E e \in feed : /\ Owner[e.sub] = Owner[s]
                                               /\ Key(e) = Key(ItemOf(r, Record[r].trigger))
  BY DEF Told
<1>. DEFINE Owed(s) == sub[s] = "live" /\ area[AreaOf[s]] = "live"
            Mine(r) == Key(ItemOf(r, Record[r].trigger))
<1>5. ASSUME NEW s \in Subs, s = current'[w].sub,
             Owed(s) => \A r \in Records : Matches(s, r) /\ arrived[r] < now =>
                          Told(s, r)' \/ \E x \in pending'[w] : Key(x) = Mine(r)
      PROVE  Heard'
  <2>1. \A r \in Records : Told(current[w].sub, r)' <=> Told(s, r)'
    BY <1>5 DEF Told
  <2>. QED BY <1>1, <1>5, <2>1 DEF OneWorkflow, Heard, AtWork, Matches, Key, ItemOf, DateOf
<1>6. ASSUME last' = last PROVE WindowLosesNothing'
  BY <1>1, <1>3, <1>6 DEF WindowLosesNothing
<1>7. CASE SelectDue(w) \/ Finish(w) \/ Skip(w) \/ Crash(w)
  <2>1. pc'[w] \in {"idle", "next"} /\ last' = last
    BY <1>7 DEF SelectDue, Finish, Skip, Crash, Drop, Typed, TypeOK
  <2>. QED BY <1>6, <2>1 DEF Heard, AtWork, OneWorkflow
<1>8. CASE Compose(w)
  <2>1. PICK row \in queue[w] :
          /\ row \in Snapshot /\ current' = [current EXCEPT ![w] = row]
          /\ \E items : /\ pending' = [pending EXCEPT ![w] = items]
                       /\ \A x \in Direct(row.sub, Fresh(row)) :
                            Key(x) \notin Seen(row.sub) => x \in items
    BY <1>8, ComposeFact
  <2>2. PICK s \in Subs : s = row.sub
    BY <2>1 DEF Snapshot
  <2>3. /\ \A x \in Direct(row.sub, Fresh(row)) : Key(x) \notin Seen(row.sub) => x \in pending'[w]
        /\ current'[w] = row
    BY <2>1 DEF Typed, TypeOK
  <2>4. ASSUME Owed(s), NEW r \in Records, Matches(s, r)
        PROVE  Told(s, r) \/ \E x \in pending'[w] : Key(x) = Mine(r)
    <3>1. CASE arrived[r] < last[s]
      BY <2>4, <3>1 DEF WindowLosesNothing, Matches
    <3>2. CASE ~ arrived[r] < last[s]
      <4>1. last[s] <= arrived[r]
        BY <3>2 DEF Typed, TypeOK, Ticks, Never
      <4>2. r \in Fresh(row)
        BY <2>2, <2>4, <4>1, WindowOpens
      <4>3. ItemOf(r, Record[r].trigger) \in Direct(s, Fresh(row))
        BY <2>4, <4>2 DEF Direct, Matches
      <4>4. Mine(r) \in Seen(s) => Told(s, r)
        BY <1>4 DEF Seen
      <4>. QED BY <2>2, <2>3, <4>3, <4>4
    <3>. QED BY <3>1, <3>2
  <2>5. Heard'
    BY <1>3, <1>5, <2>2, <2>3, <2>4
  <2>. QED BY <1>6, <1>8, <2>5 DEF Compose
<1>9. CASE Insert(w)
  <2>1. PICK x \in pending[w] : /\ feed' = feed \cup {FeedRow(w, x)}
                                /\ pending' = [pending EXCEPT ![w] = @ \ {x}]
                                /\ current' = current /\ last' = last /\ AtWork(w)
    BY <1>9 DEF Insert, AtWork
  <2>2. PICK s \in Subs : s = current[w].sub
    BY <2>1 DEF Typed, Snapshot
  <2>3. FeedRow(w, x) \in feed' /\ FeedRow(w, x).sub = s /\ Key(FeedRow(w, x)) = Key(x)
    BY <2>1, <2>2 DEF FeedRow, Key
  <2>4. \A r \in Records : Key(x) = Mine(r) => Told(s, r)'
    BY <1>1, <2>3 DEF Told, ItemOf, DateOf, Key
  <2>5. pending'[w] = pending[w] \ {x}
    BY <2>1 DEF Typed, TypeOK
  <2>6. Owed(s) => \A r \in Records : Matches(s, r) /\ arrived[r] < now =>
                     Told(s, r) \/ \E y \in pending[w] : Key(y) = Mine(r)
    BY <2>1, <2>2 DEF Heard
  <2>7. Heard'
    BY <1>3, <1>5, <2>1, <2>2, <2>4, <2>5, <2>6
  <2>. QED BY <1>6, <2>1, <2>7
<1>10. CASE Email(w)
  <2>1. UNCHANGED <<feed, pending, current, last>> /\ AtWork(w)
    BY <1>10 DEF Email, work, AtWork
  <2>2. PICK s \in Subs : s = current[w].sub
    BY <2>1 DEF Typed, Snapshot
  <2>3. Owed(s) => \A r \in Records : Matches(s, r) /\ arrived[r] < now =>
                     Told(s, r) \/ \E y \in pending[w] : Key(y) = Mine(r)
    BY <2>1, <2>2 DEF Heard
  <2>4. Heard'
    BY <1>3, <1>5, <2>1, <2>2, <2>3
  <2>. QED BY <1>6, <2>1, <2>4
<1>11. CASE Advance(w)
  <2>1. /\ pc[w] = "advance" /\ pc'[w] = "next" /\ pending[w] = {} /\ AtWork(w)
        /\ last' = [last EXCEPT ![current[w].sub] =
                      IF sub[current[w].sub] = "live" THEN now ELSE @]
    BY <1>11 DEF Advance, Typed, TypeOK, AtWork
  <2>2. Heard'
    BY <2>1 DEF Heard, AtWork, OneWorkflow
  <2>3. PICK s \in Subs : s = current[w].sub
    BY <2>1 DEF Typed, Snapshot
  <2>4. Owed(s) => \A r \in Records : Matches(s, r) /\ arrived[r] < now => Told(s, r)
    BY <2>1, <2>3 DEF Heard
  <2>5. \A x \in Subs : last'[x] # last[x] => x = s /\ last'[x] = now
    BY <2>1, <2>3 DEF Typed, TypeOK
  <2>6. WindowLosesNothing'
    BY <1>1, <1>3, <2>4, <2>5 DEF WindowLosesNothing, Matches
  <2>. QED BY <2>2, <2>6
<1>. QED BY <1>7, <1>8, <1>9, <1>10, <1>11

LEMMA LossStep ==
  ASSUME OneWorkflow, Schedule, WindowsReach
  PROVE  LossInv /\ [Next]_vars => LossInv'
<1>1. ASSUME LossInv, UNCHANGED vars PROVE Heard' /\ WindowLosesNothing'
  BY <1>1 DEF LossInv, Heard, AtWork, WindowLosesNothing, Matches, Told, Key, ItemOf,
              DateOf,
              vars, rows, work
<1>2. LossInv /\ [Next]_vars => Heard' /\ WindowLosesNothing'
  BY <1>1, LossWorld, LossRequests, LossWorker, Zenon DEF Next
<1>. QED BY <1>2, DatesStep DEF LossInv

(* Once a subscription has moved past the tick a record of its area arrived *)
(* at, dated that day, its user has been told of it: whatever digests fail, *)
(* fewer than the days the first window looks back, and whatever is saved,  *)
(* deleted or unsubscribed meanwhile (fetchFreshRows, runAlerts).           *)
THEOREM NothingMissed ==
  ASSUME OneWorkflow, Schedule, WindowsReach
  PROVE  Spec => []WindowLosesNothing
<1>1. Init => LossInv
  BY LossInit
<1>2. LossInv /\ [Next]_vars => LossInv'
  BY LossStep
<1>3. LossInv => WindowLosesNothing
  BY DEF LossInv
<1>. QED BY <1>1, <1>2, <1>3, PTL DEF Spec

-----------------------------------------------------------------------------
(* Told once. *)

(* The dedup reaches back to the arrival of every row the window lets through. *)
LEMMA DedupCovers ==
  ASSUME DedupReaches, DatesInv, NEW w \in Workers, NEW row \in queue[w],
         NEW r \in Fresh(row)
  PROVE  arrived[r] >= now - DedupDays * DayTicks
<1>. USE AlertConstants DEF DatesInv
<1>. DEFINE s == row.sub
<1>1. s \in Subs /\ row.last = last[s] /\ Waiting(s)
  BY DEF Typed, TypeOK, Snapshot, Queued, Waiting
<1>2. /\ r \in Records /\ area[AreaOf[s]] = "live" /\ DateOf(r) >= Since(row)
      /\ arrived[r] \in Nat /\ now \in Nat /\ Record[r].lag \in Nat
      /\ faults \in 0 .. MaxFaults
  BY DEF Fresh, Typed, TypeOK, Ticks
<1>3. Day(arrived[r]) \in Nat /\ Day(now) \in Nat /\ Jitter \in Nat
  BY <1>2, DayBounds DEF Jitter
<1>4. Day(arrived[r]) >= Day(now) - DedupDays + Jitter
  <2>1. CASE last[s] = Never
    BY <1>1, <1>2, <1>3, <2>1 DEF Since, DateOf, DedupReaches
  <2>2. CASE last[s] # Never
    <3>1. last[s] \in Nat
      BY <1>1, <2>2 DEF Typed, TypeOK, Ticks
    <3>2. Day(last[s]) \in Nat
      BY <3>1, DayBounds
    <3>3. Day(now) <= Day(last[s]) + Slack(s) + Jitter
      BY <1>1, <1>2, <2>2 DEF Lag
    <3>4. Slack(s) \in Nat /\ Slack(s) <= MaxFaults + 1
      BY <1>2 DEF Slack
    <3>5. Day(arrived[r]) >= Day(last[s])
      BY <1>1, <1>2, <1>3, <2>2, <3>2 DEF Since, DateOf
    <3>. QED BY <1>3, <3>2, <3>3, <3>4, <3>5 DEF DedupReaches
  <2>. QED BY <2>1, <2>2
<1>. QED BY <1>2, <1>4, DayReach

(* So nothing in a new digest is in the feed of its user. *)
LEMMA NewToUser ==
  ASSUME DedupReaches, DatesInv, FeedInv, NEW w \in Workers, NEW row \in queue[w],
         NEW x \in Item, x.rec \in Fresh(row), Sound(x), Key(x) \notin Seen(row.sub),
         NEW e \in feed, Owner[e.sub] = Owner[row.sub]
  PROVE  ~ SameItem(e, x)
<1>. SUFFICES ASSUME SameItem(e, x) PROVE FALSE
  OBVIOUS
<1>1. Key(e) = Key(x)
  BY DEF FeedInv, Sound, SameItem, Key, DateOf
<1>2. arrived[e.rec] <= e.at /\ e.rec = x.rec
  BY DEF FeedInv, SameItem
<1>3. arrived[x.rec] >= now - DedupDays * DayTicks
  BY DedupCovers
<1>4. /\ e.at \in Int /\ arrived[x.rec] \in Int /\ now \in Int
      /\ DedupDays * DayTicks \in Int
  BY AlertConstants DEF DatesInv, Typed, TypeOK, Ticks, Never, Sound
<1>5. e.at >= now - DedupDays * DayTicks
  BY <1>2, <1>3, <1>4
<1>. QED BY <1>1, <1>5 DEF Seen

LEMMA OnceInit == Init => OnceInv
BY DatesInit DEF Init, OnceInv, FeedInv, Delivering, AtWork

LEMMA OnceIdle ==
  ASSUME OnceInv,
         \/ UNCHANGED vars
         \/ Tick
         \/ \E r \in Records : Arrive(r)
         \/ \E a \in Areas : SaveArea(a) \/ DropSubscriptions(a) \/ DeleteArea(a)
         \/ \E s \in Subs : CheckArea(s) \/ Subscribe(s) \/ DeleteSubscription(s) \/ Unsubscribe(s)
  PROVE  FeedInv' /\ Delivering'
<1>. USE DEF OnceInv, DatesInv
<1>1. UNCHANGED <<feed, emails, pc, current, pending, digest>>
  BY DEF vars, Tick, Arrive, SaveArea, DropSubscriptions, DeleteArea, CheckArea, Subscribe,
         DeleteSubscription, Unsubscribe, work
<1>2. \A r \in Records : arrived[r] # Never => arrived'[r] = arrived[r]
  BY DEF vars, Tick, Arrive, SaveArea, DropSubscriptions, DeleteArea, CheckArea, Subscribe,
         DeleteSubscription, Unsubscribe, Typed, TypeOK
<1>3. (\E w \in Workers : AtWork(w)) => now' = now
  BY DEF vars, Tick, Arrive, SaveArea, DropSubscriptions, DeleteArea, CheckArea, Subscribe,
         DeleteSubscription, Unsubscribe, AtWork
<1>4. \A x : Sound(x) => Sound(x)'
  BY <1>2 DEF Sound, DateOf
<1>5. FeedInv'
  BY <1>1, <1>2, <1>4 DEF FeedInv, Sound, SameItem
<1>6. Delivering'
  BY <1>1, <1>3, <1>4 DEF Delivering, AtWork, FeedRow, SameItem
<1>. QED BY <1>5, <1>6

LEMMA OnceWorker ==
  ASSUME OneWorkflow, DedupReaches, OnceInv, NEW w \in Workers,
         \/ SelectDue(w) \/ Compose(w) \/ Insert(w) \/ Email(w)
         \/ Advance(w) \/ Finish(w) \/ Skip(w) \/ Crash(w)
  PROVE  FeedInv' /\ Delivering'
<1>. USE AlertConstants DEF OnceInv, DatesInv, Goto
<1>1. UNCHANGED <<now, arrived>>
  BY DEF SelectDue, Compose, Insert, Email, Advance, Finish, Skip, Crash
<1>2. \A x : Sound(x)' <=> Sound(x)
  BY <1>1 DEF Sound, DateOf
<1>3. ASSUME feed' = feed, emails' = emails PROVE FeedInv'
  BY <1>1, <1>2, <1>3 DEF FeedInv, SameItem
<1>4. CASE SelectDue(w) \/ Finish(w) \/ Skip(w) \/ Crash(w) \/ Advance(w)
  <2>1. pc'[w] \in {"idle", "next"} /\ feed' = feed /\ emails' = emails
    BY <1>4 DEF SelectDue, Finish, Skip, Crash, Drop, Advance, Typed, TypeOK
  <2>. QED BY <1>3, <2>1 DEF Delivering, AtWork, OneWorkflow
<1>5. CASE Compose(w)
  <2>1. PICK row \in queue[w], items \in SUBSET Item :
          /\ row \in Snapshot
          /\ current' = [current EXCEPT ![w] = row]
          /\ digest' = [digest EXCEPT ![w] = items]
          /\ pending' = [pending EXCEPT ![w] = items]
          /\ \A x \in items : x.rec \in Fresh(row) /\ Sound(x) /\ Key(x) \notin Seen(row.sub)
    BY <1>5, ComposeFact
  <2>2. current'[w] = row /\ digest'[w] = items /\ pending'[w] = items
    BY <2>1 DEF Typed, TypeOK
  <2>3. \A x \in items : x \in Item /\ Sound(x)
    BY <2>1
  <2>4. \A x \in items, e \in feed : Owner[e.sub] = Owner[row.sub] => ~ SameItem(e, x)
    BY <2>1, NewToUser
  <2>5. \A m \in emails : Owner[m.sub] = Owner[row.sub] => m.items \cap items = {}
    <3>. SUFFICES ASSUME NEW m \in emails, Owner[m.sub] = Owner[row.sub],
                         NEW x \in m.items, x \in items
                  PROVE  FALSE
      OBVIOUS
    <3>1. PICK f \in feed : f.sub = m.sub /\ SameItem(f, x)
      BY DEF FeedInv
    <3>. QED BY <2>4, <3>1
  <2>6. UNCHANGED <<feed, emails>>
    BY <1>5 DEF Compose
  <2>7. Delivering'
    BY <1>2, <2>2, <2>3, <2>4, <2>5, <2>6 DEF Delivering, OneWorkflow, SameItem
  <2>. QED BY <1>3, <2>6, <2>7
<1>6. CASE Insert(w)
  <2>1. PICK x \in pending[w] : /\ feed' = feed \cup {FeedRow(w, x)}
                                /\ pending' = [pending EXCEPT ![w] = @ \ {x}]
                                /\ pc[w] = "insert" /\ UNCHANGED <<current, digest, emails>>
    BY <1>6 DEF Insert
  <2>2. PICK s \in Subs : s = current[w].sub
    BY <2>1 DEF Typed, AtWork, Snapshot
  <2>3. /\ pending'[w] = pending[w] \ {x} /\ pending[w] \subseteq digest[w]
        /\ digest[w] \subseteq Item
    BY <2>1 DEF Typed, TypeOK
  <2>. DEFINE f == FeedRow(w, x)
  <2>4. f = [sub |-> s, by |-> w, at |-> now, parcel |-> x.parcel,
             trigger |-> x.trigger, date |-> x.date, rec |-> x.rec]
    BY <2>2 DEF FeedRow
  <2>5. /\ \A y \in digest[w] : Sound(y)
        /\ \A y \in digest[w] \ pending[w] : FeedRow(w, y) \in feed
        /\ \A y \in pending[w], e \in feed : Owner[e.sub] = Owner[s] => ~ SameItem(e, y)
        /\ \A m \in emails : Owner[m.sub] = Owner[s] => m.items \cap digest[w] = {}
    BY <2>1, <2>2 DEF Delivering, AtWork
  <2>6. Sound(f) /\ arrived[f.rec] <= f.at /\ SameItem(f, x)
    BY <2>3, <2>4, <2>5 DEF Sound, SameItem, DateOf, Aged
  <2>7. FeedInv'
    <3>. HIDE DEF f
    <3>1. feed' = feed \cup {f} /\ f.sub = s
      BY <2>1, <2>4 DEF f
    <3>2. \A e \in feed' : Sound(e)' /\ arrived'[e.rec] <= e.at
      BY <1>1, <1>2, <2>6, <3>1 DEF FeedInv
    <3>3. \A e \in feed : Owner[e.sub] = Owner[s] => ~ SameItem(e, f)
      BY <2>5, <2>6 DEF SameItem
    <3>4. \A e, g \in feed' : Owner[e.sub] = Owner[g.sub] /\ SameItem(e, g) => e = g
      BY <3>1, <3>3 DEF FeedInv, SameItem
    <3>. QED BY <2>1, <3>1, <3>2, <3>4 DEF FeedInv, SameItem
  <2>8. \A y \in pending'[w] : ~ SameItem(f, y)
    <3>. SUFFICES ASSUME NEW y \in pending[w], y # x, SameItem(f, y) PROVE FALSE
      BY <2>3
    <3>1. Sound(x) /\ Sound(y) /\ x \in Item /\ y \in Item
      BY <2>3, <2>5
    <3>2. x.rec = y.rec /\ x.trigger = y.trigger
      BY <2>6 DEF SameItem
    <3>3. x.parcel = y.parcel /\ x.date = y.date
      BY <3>1, <3>2 DEF Sound, DateOf
    <3>. QED BY <3>1, <3>2, <3>3 DEF Item
  <2>9. \A y \in digest[w] : FeedRow(w, y)' = FeedRow(w, y)
    BY <1>1, <2>1 DEF FeedRow
  <2>10. Delivering'
    <3>1. \A y \in digest[w] \ pending'[w] : FeedRow(w, y)' \in feed'
      BY <2>1, <2>3, <2>5, <2>9
    <3>2. \A y \in pending'[w], e \in feed' : Owner[e.sub] = Owner[s] => ~ SameItem(e, y)
      BY <2>1, <2>3, <2>5, <2>8
    <3>. QED BY <1>2, <2>1, <2>2, <2>5, <3>1, <3>2 DEF Delivering, OneWorkflow, SameItem,
       FeedRow
  <2>. QED BY <2>7, <2>10
<1>7. CASE Email(w)
  <2>1. /\ pc[w] = "email" /\ pc'[w] = "advance" /\ pending[w] = {} /\ AtWork(w)
        /\ UNCHANGED <<feed, current, pending, digest>>
    BY <1>7 DEF Email, work, Typed, TypeOK, AtWork
  <2>2. PICK s \in Subs : s = current[w].sub
    BY <2>1 DEF Typed, Snapshot
  <2>. DEFINE n == [sub |-> s, items |-> digest[w], by |-> w, at |-> now]
  <2>3. emails' \subseteq emails \cup {n}
    BY <1>7, <2>2 DEF Email
  <2>4. /\ \A y \in digest[w] : Sound(y)
        /\ \A y \in digest[w] : FeedRow(w, y) \in feed
        /\ \A m \in emails : Owner[m.sub] = Owner[s] => m.items \cap digest[w] = {}
    BY <2>1, <2>2 DEF Delivering
  <2>5. \A y \in digest[w] : \E f \in feed : f.sub = s /\ f.at = now /\ SameItem(f, y)
    BY <2>2, <2>4 DEF FeedRow, SameItem
  <2>6. FeedInv'
    <3>1. \A e, f \in emails' : Owner[e.sub] = Owner[f.sub] /\ e.items \cap f.items # {} => e = f
      BY <2>3, <2>4 DEF FeedInv
    <3>2. \A e \in emails' : \A x \in e.items :
            \E f \in feed : f.sub = e.sub /\ f.at = e.at /\ SameItem(f, x)
      BY <2>3, <2>5 DEF FeedInv
    <3>. QED BY <1>1, <1>2, <2>1, <3>1, <3>2 DEF FeedInv, SameItem
  <2>7. Delivering'
    BY <1>1, <1>2, <2>1, <2>4 DEF Delivering, OneWorkflow, SameItem, FeedRow
  <2>. QED BY <2>6, <2>7
<1>. QED BY <1>4, <1>5, <1>6, <1>7

LEMMA OnceStep ==
  ASSUME OneWorkflow, Schedule, DedupReaches
  PROVE  OnceInv /\ [Next]_vars => OnceInv'
<1>1. OnceInv /\ [Next]_vars => FeedInv' /\ Delivering'
  BY OnceIdle, OnceWorker, Zenon DEF Next
<1>. QED BY <1>1, DatesStep DEF OnceInv

(* A user is told of a record once for each trigger, whichever digest failed *)
(* half-way and whichever of the user's subscriptions match it, no item is   *)
(* in two of the user's e-mails, and what is e-mailed is in the feed: for    *)
(* any windows whose dedup spans the lookback and every failed day.          *)
THEOREM ToldOnlyOnce ==
  ASSUME OneWorkflow, Schedule, DedupReaches
  PROVE  Spec => []ToldOnce
<1>1. Init => OnceInv
  BY OnceInit
<1>2. OnceInv /\ [Next]_vars => OnceInv'
  BY OnceStep
<1>3. OnceInv => ToldOnce
  BY DEF OnceInv, DatesInv, Typed, FeedInv, SameItem, ToldOnce
<1>. QED BY <1>1, <1>2, <1>3, PTL DEF Spec

=============================================================================
