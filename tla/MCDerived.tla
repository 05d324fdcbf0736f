------------------------------ MODULE MCDerived ------------------------------
(***************************************************************************)
(* Instances for TLC of what a run of the worker derives from the rows it  *)
(* has loaded: the spine's table and change log, the event histories, and  *)
(* the stamps, views and metrics, one at a time.                           *)
(***************************************************************************)
EXTENDS Integers, TLC

CONSTANTS
  Parts,
  Runs, Parcels, Fields, MaxVersion, Content, LowRows, HighRows, ChunkSize,
  HeadMayFail,                                                     \* SpineIngest
  Violations, Delinquents, NoParcel, BatchSize, MaxVersions,       \* EventHistory
  Kinds, Features, KindOf, Lots, Place, Sales, ParcelOf, DateOf, ViewKind,
  MonthDays, TrailingMonths, MaxDay,                               \* DerivedFinalize
  Null, MaxFaults,
  nightly, p1, p2, p3, owner, price, nbhd, zip, n1, n2, z1, east, west, e1, e2, e3

VARIABLES
  part,
  (* SpineIngest *)
  object, watermark, parcel, active, changes, at, head, batch, left, fields, entries, run,
  failures,
  (* EventHistory *)
  city, actual, cursor, row, log, stage, rows, flips, misses,
  (* DerivedFinalize *)
  day, present, boundary, geo, comp, distress, metric, share, pc, todo, force, start, faults

spineVars   == <<object, watermark, parcel, active, changes, at, head, batch, left, fields,
                 entries, run, failures>>
historyVars == <<city, actual, cursor, row, log, stage, rows, flips, misses>>
derivedVars == <<day, present, boundary, geo, comp, distress, metric, share, pc, todo, force,
                 start, faults>>
vars == <<part, spineVars, historyVars, derivedVars>>

-----------------------------------------------------------------------------
Spine   == INSTANCE SpineIngest WITH log <- changes, pc <- at, todo <- left, faults <- failures
History == INSTANCE EventHistory WITH pc <- stage, batch <- rows, faults <- misses
Derived == INSTANCE DerivedFinalize WITH
             Parcels <- Lots, Events <- Sales, None <- Null, MaxFaults <- MaxFaults - 1

ASSUME ConstantsAssumption ==
  Spine!ConstantsOK /\ History!ConstantsOK /\ Derived!ConstantsOK

Row(o, s) == owner :> o @@ price :> s

(* Version 2 is a truncated file; version 3 lacks p2, changes p1's owner    *)
(* and empties its price, and brings p3, which version 1 lacks; version 4   *)
(* puts p1 back as it was, drops p3 and brings p2 back unchanged.           *)
FourVersions ==
  << p1 :> Row(1, 1) @@ p2 :> Row(1, Null),
     p1 :> Row(1, 2),
     p1 :> Row(2, Null) @@ p3 :> Row(1, 1),
     p1 :> Row(1, 1) @@ p2 :> Row(1, Null) >>

FeatureKind == n1 :> nbhd @@ n2 :> nbhd @@ z1 :> zip
Places == east :> (nbhd :> n1 @@ zip :> z1) @@ west :> (nbhd :> n2 @@ zip :> z1)

(* Two sales in the first month, one of them on its first day. *)
SaleParcel == e1 :> east @@ e2 :> east @@ e3 :> west
SaleDay    == e1 :> 0 @@ e2 :> 1 @@ e3 :> 2

-----------------------------------------------------------------------------

Init == part \in Parts /\ Spine!Init /\ History!Init /\ Derived!Init

OnSpine   == part = "spine" /\ Spine!Next /\ UNCHANGED <<part, historyVars, derivedVars>>
OnHistory == part = "history" /\ History!Next /\ UNCHANGED <<part, spineVars, derivedVars>>
OnDerived == part = "derived" /\ Derived!Next /\ UNCHANGED <<part, spineVars, historyVars>>

Next == OnSpine \/ OnHistory \/ OnDerived

Spec == Init /\ [][Next]_vars

(* One schedule, every night, for all of them. *)
SpineStep   == part = "spine" /\ (\E r \in Runs : Spine!Step(r))
                 /\ UNCHANGED <<part, historyVars, derivedVars>>
HistoryStep == part = "history" /\ History!Step /\ UNCHANGED <<part, spineVars, derivedVars>>
DerivedStep == part = "derived" /\ Derived!Step /\ UNCHANGED <<part, spineVars, historyVars>>
FairSpec == Spec /\ WF_vars(SpineStep \/ HistoryStep \/ DerivedStep)

-----------------------------------------------------------------------------
(* Properties: stated in the parts' modules *)

(* The recorded version is in the table and in the change log. *)
WatermarkSound == Spine!WatermarkSound

(* Both kinds of history are chains of changes that took place. *)
HistoriesAreChains == Spine!HistoryIsChain /\ History!HistoryIsChanges

(* The table, then the change log, end up at the newest object. *)
SpineCatchesUp == Spine!CatchesUp

(* The event history ends up at the city's last word. *)
HistoryCatchesUp == History!HistoryCatchesUp

(* Nothing derived by a finished run is a run behind. *)
DerivedFresh == Derived!DerivedFresh

(* Every parcel inside a loaded polygon is stamped in the end. *)
StampsSettle == Derived!StampsSettle

(* No month loses an event it has counted. *)
MonthsKeepTheirEvents == Derived!MonthsKeepTheirEvents
=============================================================================
