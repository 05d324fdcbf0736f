----------------------------- MODULE AlertDigest -----------------------------
(***************************************************************************)
(* The alert digest at the end of a nightly run, and the requests of the   *)
(* web app that change its rows: saved areas, subscriptions, unsubscribe.  *)
(*                                                                         *)
(* Time is counted in ticks, DayTicks of them a day; a digest takes much   *)
(* less than one.  A public record is a constant                           *)
(* [parcel, trigger, lag]: it reaches the database at some tick, and the   *)
(* date it carries is lag days before that day (0 for change-log and event *)
(* rows, which the worker stamps with the current date; the city's own     *)
(* issue date for a permit).  Ids are uuids: never used twice.             *)
(***************************************************************************)
EXTENDS Integers, FiniteSets, FiniteSetsExt

CONSTANTS
  Workers,      \* workflows that run runAlerts
  Users, Areas, Subs, Parcels, Records,
  Triggers,     \* the direct triggers
  Record,       \* record -> [parcel, trigger, lag]
  Inside,       \* area -> the parcels its geometry contains
  Owner,        \* subscription -> user
  AreaOf,       \* subscription -> area
  Wanted,       \* subscription -> the triggers it asks for
  Hot,          \* parcels at or above the lead distress floor
  DayTicks,     \* ticks of a day; 20 hours are rounded up to a day
  LookbackDays, DedupDays, HardCap,
  MaxTick,      \* ticks of a behaviour                             (bound)
  MaxFaults,    \* failures and crashes of a behaviour              (bound)
  MaxRequests,  \* requests to the web app of a behaviour           (bound)
  Existing,     \* areas and subscriptions there from the start
  Schedule      \* every day has a digest (it may still fail)

Lead  == "new_matching_lead"
Never == -1
Ticks == 0 .. MaxTick
Day(t) == t \div DayTicks

ASSUME RecordAssumption ==
  /\ \A r \in Records : /\ Record[r].parcel \in Parcels
                        /\ Record[r].trigger \in Triggers
                        /\ Record[r].lag \in Nat
  /\ Lead \notin Triggers
  /\ Owner \in [Subs -> Users] /\ AreaOf \in [Subs -> Areas]
  /\ Wanted \in [Subs -> SUBSET (Triggers \cup {Lead})]
ASSUME WindowAssumption ==
  /\ {LookbackDays, DedupDays, HardCap, MaxTick, MaxFaults, MaxRequests}
       \subseteq Nat
  /\ DayTicks \in Nat \ {0} /\ Schedule \in BOOLEAN
  /\ Existing \subseteq Areas \cup Subs
  /\ \A s \in Existing \cap Subs : AreaOf[s] \in Existing   \* a foreign key

VARIABLES
  now,      \* the current tick
  arrived,  \* record -> the tick its row was committed at, or Never
  area,     \* app.saved_area:         area -> "new" | "live" | "gone"
  sub,      \* app.alert_subscription: subscription -> the same
  channel,  \* subscription -> "email" | "in_app"
  created,  \* subscription -> created_at
  last,     \* subscription -> last_sent_at, or Never (null)
  feed,     \* app.alert_event: set of [sub, parcel, trigger, date, rec, by, at]
  emails,   \* digests handed to the mail service: set of [sub, items, by, at]
  pc,       \* where each worker is
  queue,    \* the due subscriptions it selected and has not started
  current,  \* the snapshot row it is on
  pending,  \* items it has still to insert
  digest,   \* all items of the current digest
  posting,  \* subscriptions whose POST has checked the area, not inserted
  deleting, \* areas whose DELETE has dropped the subscriptions
  served,   \* a digest was started today
  requests, \* requests so far
  faults

rows == <<area, sub, channel, created, posting, deleting, requests>>
work == <<queue, current, pending, digest>>
vars == <<now, arrived, rows, last, feed, emails, pc, work, served, faults>>

Item == [parcel : Parcels, trigger : Triggers \cup {Lead}, date : Int, rec : Records]
Snapshot == [sub : Subs, channel : {"email", "in_app"}, last : Ticks \cup {Never}]

TypeOK ==
  /\ now \in Ticks
  /\ arrived \in [Records -> Ticks \cup {Never}]
  /\ area \in [Areas -> {"new", "live", "gone"}]
  /\ sub \in [Subs -> {"new", "live", "gone"}]
  /\ channel \in [Subs -> {"email", "in_app"}]
  /\ created \in [Subs -> Ticks] /\ last \in [Subs -> Ticks \cup {Never}]
  /\ \A e \in feed : e.sub \in Subs /\ e.at \in 0 .. now /\ e.by \in Workers
  /\ \A e \in emails : e.sub \in Subs /\ e.items \subseteq Item
  /\ pc \in [Workers -> {"idle", "next", "insert", "email", "advance"}]
  /\ \A w \in Workers : /\ queue[w] \subseteq Snapshot
                        /\ pending[w] \subseteq digest[w]
                        /\ digest[w] \subseteq Item
  /\ posting \subseteq Subs /\ deleting \subseteq Areas
  /\ served \in BOOLEAN /\ requests \in 0 .. MaxRequests /\ faults \in 0 .. MaxFaults

Nobody == [sub |-> CHOOSE s \in Subs : TRUE, channel |-> "in_app", last |-> Never]

Init ==
  /\ now = 0
  /\ arrived = [r \in Records |-> Never]
  /\ area = [a \in Areas |-> IF a \in Existing THEN "live" ELSE "new"]
  /\ sub = [s \in Subs |-> IF s \in Existing THEN "live" ELSE "new"]
  /\ channel = [s \in Subs |-> "email"]
  /\ created = [s \in Subs |-> 0] /\ last = [s \in Subs |-> Never]
  /\ feed = {} /\ emails = {}
  /\ pc = [w \in Workers |-> "idle"]
  /\ queue = [w \in Workers |-> {}] /\ current = [w \in Workers |-> Nobody]
  /\ pending = [w \in Workers |-> {}] /\ digest = [w \in Workers |-> {}]
  /\ posting = {} /\ deleting = {}
  /\ served = FALSE /\ requests = 0 /\ faults = 0

-----------------------------------------------------------------------------
Goto(w, label) == pc' = [pc EXCEPT ![w] = label]

DateOf(r) == Day(arrived[r]) - Record[r].lag

Due(s) ==
  /\ sub[s] = "live" /\ area[AreaOf[s]] = "live"
  /\ last[s] = Never \/ last[s] + DayTicks <= now

(* Slip: the window opens on the day after the last digest. *)
SinceNextDay(row) == IF row.last = Never THEN Day(now) - LookbackDays ELSE Day(row.last) + 1

(* The first date a digest asks for. *)
Since(row) == IF row.last = Never THEN Day(now) - LookbackDays ELSE Day(row.last)

(* fetchFreshRows without its LIMIT; the area may have been deleted since. *)
Fresh(row) ==
  {r \in Records : /\ arrived[r] # Never
                   /\ DateOf(r) >= Since(row)
                   /\ area[AreaOf[row.sub]] = "live"
                   /\ Record[r].parcel \in Inside[AreaOf[row.sub]]}

(* What the LIMIT lets through: the query has no ORDER BY. *)
Limited(F) ==
  IF Cardinality(F) <= HardCap THEN {F} ELSE kSubset(HardCap, F)

ItemOf(r, trigger) ==
  [parcel |-> Record[r].parcel, trigger |-> trigger, date |-> DateOf(r), rec |-> r]

Direct(s, F) ==
  {ItemOf(r, Record[r].trigger) : r \in {q \in F : Record[q].trigger \in Wanted[s]}}

(* One lead item for each hot parcel, dated by whichever of its rows comes *)
(* first: every choice of one row a parcel.                                *)
LeadChoices(s, F) ==
  LET hot == {Record[r].parcel : r \in F} \cap Hot IN
  IF Lead \notin Wanted[s] THEN {{}}
  ELSE {{ItemOf(first[p], Lead) : p \in hot} :
          first \in {f \in [hot -> F] : \A p \in hot : Record[f[p]].parcel = p}}

Key(x) == <<x.parcel, x.trigger, x.date>>

(* Slip: the feed is searched for the subscription, not for its user. *)
SeenBySubscription(s) ==
  {Key(e) : e \in {x \in feed : x.sub = s /\ x.at >= now - DedupDays * DayTicks}}

(* Keys already delivered to the subscription's user. *)
Seen(s) ==
  {Key(e) : e \in {x \in feed : /\ Owner[x.sub] = Owner[s]
                                /\ x.at >= now - DedupDays * DayTicks}}

-----------------------------------------------------------------------------
(* The world: time, and the rows the ingestion commits.                    *)

Tick ==
  /\ now < MaxTick
  /\ \A w \in Workers : pc[w] = "idle"
  /\ now' = now + 1
  /\ IF Day(now + 1) = Day(now)
     THEN UNCHANGED served
     ELSE served' = FALSE /\ (Schedule => served)
  /\ UNCHANGED <<arrived, rows, last, feed, emails, pc, work, faults>>

Arrive(r) ==
  /\ arrived[r] = Never
  /\ arrived' = [arrived EXCEPT ![r] = now]
  /\ UNCHANGED <<now, rows, last, feed, emails, pc, work, served, faults>>

-----------------------------------------------------------------------------
(* The web app. *)

Request == requests < MaxRequests /\ requests' = requests + 1

SaveArea(a) ==
  /\ area[a] = "new"
  /\ Request
  /\ area' = [area EXCEPT ![a] = "live"]
  /\ UNCHANGED <<now, arrived, sub, channel, created, posting, deleting, last,
                 feed, emails, pc, work, served, faults>>

(* POST /api/alerts/subscriptions: the ownership check ... *)
CheckArea(s) ==
  /\ sub[s] = "new" /\ s \notin posting /\ area[AreaOf[s]] = "live"
  /\ Request
  /\ posting' = posting \cup {s}
  /\ UNCHANGED <<now, arrived, area, sub, channel, created, deleting, last,
                 feed, emails, pc, work, served, faults>>

(* ... and the insert, in a statement of its own. *)
Subscribe(s) ==
  /\ s \in posting
  /\ posting' = posting \ {s}
  /\ sub' = [sub EXCEPT ![s] = "live"]
  /\ \E c \in {"email", "in_app"} : channel' = [channel EXCEPT ![s] = c]
  /\ created' = [created EXCEPT ![s] = now]
  /\ UNCHANGED <<now, arrived, requests, area, deleting, last, feed, emails, pc, work,
                 served, faults>>

DeleteSubscription(s) ==
  /\ sub[s] = "live"
  /\ Request
  /\ sub' = [sub EXCEPT ![s] = "gone"]
  /\ UNCHANGED <<now, arrived, area, channel, created, posting, deleting, last,
                 feed, emails, pc, work, served, faults>>

(* DELETE /api/areas/:id: first the subscriptions, then the area. *)
DropSubscriptions(a) ==
  /\ area[a] = "live" /\ a \notin deleting
  /\ Request
  /\ deleting' = deleting \cup {a}
  /\ sub' = [s \in Subs |-> IF AreaOf[s] = a /\ sub[s] = "live" THEN "gone" ELSE sub[s]]
  /\ UNCHANGED <<now, arrived, area, channel, created, posting, last, feed,
                 emails, pc, work, served, faults>>

DeleteArea(a) ==
  /\ a \in deleting
  /\ deleting' = deleting \ {a}
  /\ area' = [area EXCEPT ![a] = "gone"]
  /\ UNCHANGED <<now, arrived, requests, sub, channel, created, posting, last, feed,
                 emails, pc, work, served, faults>>

Unsubscribe(s) ==
  /\ sub[s] = "live" /\ channel[s] = "email"
  /\ Request
  /\ channel' = [channel EXCEPT ![s] = "in_app"]
  /\ UNCHANGED <<now, arrived, area, sub, created, posting, deleting, last, feed,
                 emails, pc, work, served, faults>>

-----------------------------------------------------------------------------
(* runAlerts. *)

(* The due subscriptions, with the columns the loop goes on using. *)
SelectDue(w) ==
  /\ pc[w] = "idle" /\ (Schedule => ~ served)
  /\ queue' = [queue EXCEPT ![w] =
       {[sub |-> s, channel |-> channel[s], last |-> last[s]] : s \in {x \in Subs : Due(x)}}]
  /\ served' = TRUE
  /\ Goto(w, "next")
  /\ UNCHANGED <<now, arrived, rows, last, feed, emails, current, pending, digest, faults>>

(* Takes a subscription: its fresh rows, classified, less what its user    *)
(* has already been told.  (Three reads; nothing they read is rewritten.)  *)
Compose(w) ==
  /\ pc[w] = "next"
  /\ \E row \in queue[w] : \E F \in Limited(Fresh(row)) :
       \E leads \in LeadChoices(row.sub, F) :
         LET items == {x \in Direct(row.sub, F) \cup leads : Key(x) \notin Seen(row.sub)} IN
         /\ queue' = [queue EXCEPT ![w] = @ \ {row}]
         /\ current' = [current EXCEPT ![w] = row]
         /\ digest' = [digest EXCEPT ![w] = items]
         /\ pending' = [pending EXCEPT ![w] = items]
         /\ Goto(w, IF items = {} THEN "advance" ELSE "insert")
  /\ UNCHANGED <<now, arrived, rows, last, feed, emails, served, faults>>

FeedRow(w, x) ==
  [sub |-> current[w].sub, by |-> w, at |-> now, parcel |-> x.parcel,
   trigger |-> x.trigger, date |-> x.date, rec |-> x.rec]

(* One row of the feed, in a statement of its own. *)
Insert(w) ==
  /\ pc[w] = "insert"
  /\ \E x \in pending[w] :
       /\ feed' = feed \cup {FeedRow(w, x)}
       /\ pending' = [pending EXCEPT ![w] = @ \ {x}]
       /\ Goto(w, IF pending[w] = {x} THEN "email" ELSE "insert")
  /\ UNCHANGED <<now, arrived, rows, last, emails, queue, current, digest, served, faults>>

(* The digest, if the snapshot's channel asks for it; whether the service  *)
(* took it is only logged.                                                 *)
Email(w) ==
  /\ pc[w] = "email"
  /\ \/ /\ current[w].channel = "email"
        /\ emails' = emails \cup {[sub |-> current[w].sub, items |-> digest[w],
                                   by |-> w, at |-> now]}
     \/ UNCHANGED emails
  /\ Goto(w, "advance")
  /\ UNCHANGED <<now, arrived, rows, last, feed, work, served, faults>>

Advance(w) ==
  /\ pc[w] = "advance"
  /\ last' = [last EXCEPT ![current[w].sub] =
                IF sub[current[w].sub] = "live" THEN now ELSE @]
  /\ digest' = [digest EXCEPT ![w] = {}]
  /\ current' = [current EXCEPT ![w] = Nobody]
  /\ Goto(w, "next")
  /\ UNCHANGED <<now, arrived, rows, feed, emails, queue, pending, served, faults>>

Finish(w) ==
  /\ pc[w] = "next" /\ queue[w] = {}
  /\ Goto(w, "idle")
  /\ UNCHANGED <<now, arrived, rows, last, feed, emails, work, served, faults>>

(* A failure leaves nothing of the digest in memory. *)
Drop(w, label) ==
  /\ pending' = [pending EXCEPT ![w] = {}] /\ digest' = [digest EXCEPT ![w] = {}]
  /\ current' = [current EXCEPT ![w] = Nobody]
  /\ Goto(w, label)
  /\ faults' = faults + 1

(* The per-subscription catch: on to the next one, the window not moved. *)
Skip(w) ==
  /\ pc[w] \in {"insert", "email", "advance"} /\ faults < MaxFaults
  /\ Drop(w, "next")
  /\ UNCHANGED <<now, arrived, rows, last, feed, emails, queue, served>>

Crash(w) ==
  /\ pc[w] # "idle" /\ faults < MaxFaults
  /\ Drop(w, "idle")
  /\ queue' = [queue EXCEPT ![w] = {}]
  /\ UNCHANGED <<now, arrived, rows, last, feed, emails, served>>

Next ==
  \/ Tick
  \/ \E r \in Records : Arrive(r)
  \/ \E a \in Areas : SaveArea(a) \/ DropSubscriptions(a) \/ DeleteArea(a)
  \/ \E s \in Subs : \/ CheckArea(s) \/ Subscribe(s)
                     \/ DeleteSubscription(s) \/ Unsubscribe(s)
  \/ \E w \in Workers : \/ SelectDue(w) \/ Compose(w) \/ Insert(w) \/ Email(w)
                        \/ Advance(w) \/ Finish(w) \/ Skip(w) \/ Crash(w)

Spec == Init /\ [][Next]_vars

-----------------------------------------------------------------------------
(* Properties.  They suppose a digest attempt every day (Schedule) and     *)
(* fewer failed days than the windows span.                                *)

(* A record is delivered to a user once for each trigger, however many of  *)
(* the user's subscriptions match it and whatever digest failed half-way,  *)
(* no item is in two of a user's e-mails ("neither the feed nor the email  *)
(* repeats"), and what is e-mailed is in the feed, "the durable record".   *)
ToldOnce ==
  /\ TypeOK
  /\ \A e, f \in feed :
       (Owner[e.sub] = Owner[f.sub] /\ e.rec = f.rec /\ e.trigger = f.trigger) => e = f
  /\ \A e, f \in emails :
       (Owner[e.sub] = Owner[f.sub] /\ e.items \cap f.items # {}) => e = f
  /\ \A e \in emails : \A x \in e.items :
       \E f \in feed : f.sub = e.sub /\ f.at = e.at /\ f.rec = x.rec /\ f.trigger = x.trigger

Told(s, r) ==
  \E e \in feed : Owner[e.sub] = Owner[s] /\ Key(e) = Key(ItemOf(r, Record[r].trigger))

(* The window loses nothing dated the day it arrives: once a subscription  *)
(* has moved past the tick such a record arrived at, its user has been     *)
(* told of the record's parcel, trigger and date.                          *)
WindowLosesNothing ==
  \A s \in Subs : \A r \in Records :
    (/\ sub[s] = "live" /\ area[AreaOf[s]] = "live" /\ Record[r].lag = 0
     /\ Record[r].trigger \in Wanted[s] /\ Record[r].parcel \in Inside[AreaOf[s]]
     /\ created[s] <= arrived[r] /\ arrived[r] < last[s])
    => Told(s, r)
=============================================================================
