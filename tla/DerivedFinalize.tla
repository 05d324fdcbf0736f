--------------------------- MODULE DerivedFinalize ---------------------------
(***************************************************************************)
(* finalizeDerived, the end of every nightly run: the boundaries loaded if *)
(* there are none, geo ids stamped, the two materialized views refreshed   *)
(* in order, the monthly metrics of the trailing window recomputed and the *)
(* current month's snapshot taken.  A month has MonthDays days.            *)
(*                                                                         *)
(* A public record is an event of one parcel on one day; it may reach the  *)
(* database much later.  A metric is modelled by the set of events it was  *)
(* computed from, a view by the events of the parcels it could place.      *)
(***************************************************************************)
EXTENDS Integers, FiniteSets

CONSTANTS
  Kinds,        \* geo types: neighborhood, zip, tract
  Features,     \* polygons of the boundary sources
  KindOf,       \* feature -> its kind
  Parcels,
  Place,        \* parcel -> [kind -> the feature that contains it]
  Events,
  ParcelOf,     \* event -> parcel
  DateOf,       \* event -> day
  ViewKind,     \* the kind the views are grouped by (neighborhood)
  MonthDays, TrailingMonths,
  None,         \* SQL null
  MaxDay,       \* last day of a behaviour                         (bound)
  MaxFaults     \* failed runs of a behaviour                      (bound)

ConstantsOK ==
  /\ KindOf \in [Features -> Kinds] /\ ViewKind \in Kinds
  /\ \A p \in Parcels, k \in Kinds : KindOf[Place[p][k]] = k
  /\ None \notin Features
  /\ ParcelOf \in [Events -> Parcels] /\ DateOf \in [Events -> Nat]
  /\ {MonthDays, TrailingMonths} \subseteq Nat \ {0}
  /\ MaxDay \in Nat /\ MaxFaults \in Nat

VARIABLES
  day,
  present,   \* events in the canonical tables
  boundary,  \* public.geo_boundary: features loaded
  geo,       \* <<parcel, kind>> -> the stamped feature, or None
  comp,      \* comp_candidate:  events it was computed from
  distress,  \* distress_signal: events it was computed from
  metric,    \* <<feature, month>> -> the events its monthly value covers
  share,     \* feature -> the events its current-month snapshot covers
  pc,
  todo,      \* features (load), <<parcel, kind>> (stamp), kinds (metrics)
  force,     \* the boundaries were loaded by this run
  start,     \* history: events present when the run started
  faults

derived == <<boundary, geo, comp, distress, metric, share>>
vars == <<day, present, derived, pc, todo, force, start, faults>>

Months == 0 .. MaxDay \div MonthDays
MonthOf(d) == d \div MonthDays
Slots == Parcels \X Kinds

TypeOK ==
  /\ day \in 0 .. MaxDay
  /\ present \subseteq Events /\ start \subseteq present
  /\ boundary \subseteq Features
  /\ \A s \in Slots : geo[s] = None \/ geo[s] \in boundary
  /\ comp \subseteq present /\ distress \subseteq present
  /\ metric \in [Features \X Months -> SUBSET present]
  /\ share \in [Features -> SUBSET present]
  /\ pc \in {"idle", "check", "load", "stamp", "comp", "distress", "months",
             "snapshot", "done"}
  /\ force \in BOOLEAN /\ faults \in 0 .. MaxFaults

Init ==
  /\ day = 0 /\ present = {}
  /\ boundary = {} /\ geo = [s \in Slots |-> None]
  /\ comp = {} /\ distress = {}
  /\ metric = [c \in Features \X Months |-> {}]
  /\ share = [f \in Features |-> {}]
  /\ pc = "idle" /\ todo = {} /\ force = FALSE /\ start = {}
  /\ faults = 0

-----------------------------------------------------------------------------
(* The polygon that contains the parcel, among those loaded. *)
Containing(p, k) == IF Place[p][k] \in boundary THEN Place[p][k] ELSE None

Placed(e, k) == geo[<<ParcelOf[e], k>>] # None

(* The date floor of the trailing window: the same day of the month,       *)
(* TrailingMonths ago.                                                     *)
InWindow(d) == d >= day - TrailingMonths * MonthDays

(* The events of the window that a class-(a) statement groups under f, m.  *)
Group(f, m) ==
  {e \in present : /\ geo[<<ParcelOf[e], KindOf[f]>>] = f
                   /\ InWindow(DateOf[e]) /\ MonthOf(DateOf[e]) = m}

-----------------------------------------------------------------------------
Tick ==
  /\ pc = "idle" /\ day < MaxDay
  /\ day' = day + 1
  /\ UNCHANGED <<present, derived, pc, todo, force, start, faults>>

Arrive(e) ==
  /\ e \notin present /\ DateOf[e] <= day
  /\ present' = present \cup {e}
  /\ UNCHANGED <<day, derived, pc, todo, force, start, faults>>

-----------------------------------------------------------------------------
Begin ==
  /\ pc = "idle"
  /\ pc' = "check" /\ start' = present
  /\ UNCHANGED <<day, present, derived, todo, force, faults>>

(* geoBoundaryIsEmpty decides both the load and the forced stamp. *)
Check ==
  /\ pc = "check"
  /\ force' = (boundary = {})
  /\ IF boundary = {}
     THEN pc' = "load" /\ todo' = Features
     ELSE pc' = "stamp" /\ todo' = Slots
  /\ UNCHANGED <<day, present, derived, start, faults>>

(* One feature's upsert; a kind is fetched whole before its first one. *)
Load ==
  /\ pc = "load"
  /\ \E f \in todo : /\ boundary' = boundary \cup {f}
                     /\ IF todo = {f} THEN pc' = "stamp" /\ todo' = Slots
                                      ELSE pc' = pc /\ todo' = todo \ {f}
  /\ UNCHANGED <<day, present, geo, comp, distress, metric, share, force, start, faults>>

(* Slip: only a forced run stamps. *)
StampForced ==
  /\ pc = "stamp"
  /\ \E k \in {s[2] : s \in todo} :
       LET rest == {s \in todo : s[2] # k} IN
       /\ geo' = [s \in Slots |->
            IF s[2] = k /\ force THEN Containing(s[1], k) ELSE geo[s]]
       /\ todo' = rest
       /\ pc' = IF rest = {} THEN "comp" ELSE pc
  /\ UNCHANGED <<day, present, boundary, comp, distress, metric, share, force, start, faults>>

(* stampGeoColumn: every row of a table when forced, else the null ones.   *)
Stamp ==
  /\ pc = "stamp"
  /\ \E k \in {s[2] : s \in todo} :
       LET rest == {s \in todo : s[2] # k} IN
       /\ geo' = [s \in Slots |->
            IF s[2] = k /\ (force \/ geo[s] = None) THEN Containing(s[1], k) ELSE geo[s]]
       /\ todo' = rest
       /\ pc' = IF rest = {} THEN "comp" ELSE pc
  /\ UNCHANGED <<day, present, boundary, comp, distress, metric, share, force, start, faults>>

(* Slip: the view keeps what it held (it is created, never refreshed). *)
RefreshCompOnce ==
  /\ pc = "comp"
  /\ comp' = IF comp = {} THEN {e \in present : Placed(e, ViewKind)} ELSE comp
  /\ pc' = "distress"
  /\ UNCHANGED <<day, present, boundary, geo, distress, metric, share, todo, force, start, faults>>

RefreshComp ==
  /\ pc = "comp"
  /\ comp' = {e \in present : Placed(e, ViewKind)}
  /\ pc' = "distress"
  /\ UNCHANGED <<day, present, boundary, geo, distress, metric, share, todo, force, start, faults>>

(* distress_signal takes its neighborhood medians from comp_candidate. *)
RefreshDistress ==
  /\ pc = "distress"
  /\ distress' = comp
  /\ pc' = "months" /\ todo' = Kinds
  /\ UNCHANGED <<day, present, boundary, geo, comp, metric, share, force, start, faults>>

(* Class (a): each group the window has an event for is upserted. *)
RecomputeMonths ==
  /\ pc = "months"
  /\ \E k \in todo :
       /\ metric' = [c \in Features \X Months |->
            IF KindOf[c[1]] = k /\ Group(c[1], c[2]) # {} THEN Group(c[1], c[2]) ELSE metric[c]]
       /\ IF todo = {k} THEN pc' = "snapshot" /\ todo' = Kinds
                        ELSE pc' = pc /\ todo' = todo \ {k}
  /\ UNCHANGED <<day, present, boundary, geo, comp, distress, share, force, start, faults>>

(* Class (b): the current month's row of every polygon of the kind. *)
TakeSnapshot ==
  /\ pc = "snapshot"
  /\ \E k \in todo :
       /\ share' = [f \in Features |->
            IF KindOf[f] = k
            THEN {e \in distress : geo[<<ParcelOf[e], k>>] = f} ELSE share[f]]
       /\ todo' = todo \ {k}
       /\ pc' = IF todo = {k} THEN "done" ELSE pc
  /\ UNCHANGED <<day, present, boundary, geo, comp, distress, metric, force, start, faults>>

Finish ==
  /\ pc = "done"
  /\ pc' = "idle" /\ todo' = {} /\ start' = {} /\ force' = FALSE
  /\ UNCHANGED <<day, present, derived, faults>>

(* A statement or a fetch fails, or the job's time is up: main only logs.  *)
Fail ==
  /\ pc \notin {"idle", "done"} /\ faults < MaxFaults
  /\ pc' = "idle" /\ todo' = {} /\ start' = {} /\ force' = FALSE
  /\ faults' = faults + 1
  /\ UNCHANGED <<day, present, derived>>

Step ==
  \/ Begin \/ Check \/ Load \/ Stamp \/ RefreshComp \/ RefreshDistress
  \/ RecomputeMonths \/ TakeSnapshot \/ Finish

Next == Tick \/ (\E e \in Events : Arrive(e)) \/ Step \/ Fail

Spec == Init /\ [][Next]_vars

(* The nightly schedule, and statements that settle. *)
FairSpec == Spec /\ WF_vars(Step)

-----------------------------------------------------------------------------
(* Properties *)

(* A finished run has carried everything that was in the database when it  *)
(* began through the stamps, both views and the snapshot, whatever an      *)
(* earlier run left half-done, and into the months that lie wholly inside  *)
(* the window, late events too: nothing derived is a run behind.           *)
DerivedFresh ==
  /\ TypeOK
  /\ pc = "done" => \A e \in start, k \in Kinds :
       LET f == Place[ParcelOf[e]][k]
           m == MonthOf(DateOf[e])
       IN f \in boundary =>
            /\ Place[ParcelOf[e]][ViewKind] \in boundary => e \in share[f]
            /\ m * MonthDays >= day - TrailingMonths * MonthDays => e \in metric[<<f, m>>]

(* Every parcel inside a loaded polygon is stamped in the end, although a  *)
(* failure between the load and the stamp loses the forced re-stamp.       *)
StampsSettle ==
  <>[](\A s \in Slots : Place[s[1]][s[2]] \in boundary => geo[s] # None)

(* geoMetric.ts: class (a) is "a true historical MONTHLY series", and the  *)
(* trailing months are "the only months that can change": no month loses   *)
(* an event it has counted, for no event is ever deleted.                  *)
MonthsKeepTheirEvents ==
  [][\A c \in Features \X Months : metric[c] \subseteq metric'[c]]_vars
=============================================================================
