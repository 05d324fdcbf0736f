----------------------------- MODULE MarketScan -----------------------------
(***************************************************************************)
(* The Market Scan page: lens, geography, period and selection of one      *)
(* user, the five effects that ask the read API when they change, and the  *)
(* map, which joins the lens values into boundary geometry and paints.     *)
(*                                                                         *)
(* Re-running an effect cancels its earlier request, whose answer then     *)
(* changes nothing, so it leaves `asked`.  A paint and a save are never     *)
(* cancelled: they stay in `flight`, in the order asked.  Answers come in  *)
(* any order, and a paint remembers having been overtaken by a later one.  *)
(***************************************************************************)
EXTENDS Integers, SequencesExt

CONSTANTS
  GeoTypes,   \* of the crumbs: neighborhood, tract
  Periods,    \* lens -> the periods of its metric, a set of numbers
  Ids,        \* the boundaries of a geography, 1 first by distress
  SignedIn,
  None,
  MaxClicks,  \* choices the user makes             (bound)
  MaxFaults   \* failed requests, lost answers      (bound)

Lenses == DOMAIN Periods

ConstantsOK ==
  /\ "distress" \in Lenses /\ "neighborhood" \in GeoTypes
  /\ \A l \in Lenses : Periods[l] \subseteq 1 .. 9
  /\ 1 \in Ids /\ {MaxClicks, MaxFaults} \subseteq Nat
  /\ SignedIn \in BOOLEAN

VARIABLES
  lens, geoType,  \* the crumbs and the lens switcher
  period,         \* the period of the time strip, or None
  timeMeta,       \* <<lens, geography>> of the bounds and features, or None
  selected,       \* [geo_type, of, id]: `of` is the geography id belongs to
  detail,         \* the item whose detail the rail shows, or None
  railLoading,
  saveState,
  ready,          \* the map has loaded
  boundary,       \* the geography whose geometry is loaded, or None
  painted,        \* what the choropleth shows: [lens, geo, on, period, late], or NoPaint
  wired,          \* the geography the click handler was made for, or None
  status,         \* of the map
  asked,          \* the requests of the effects
  flight,         \* the paints and the saves
  saved,          \* the user's saved areas, on the server
  clicks, faults

choice == <<lens, geoType, period, timeMeta>>
rail   == <<selected, detail, railLoading, saveState>>
map    == <<ready, boundary, painted, wired, status>>
vars   == <<choice, rail, map, asked, flight, saved, clicks, faults>>

Req(eff, l, g, p, it) ==
  [eff |-> eff, lens |-> l, geo |-> g, period |-> p, item |-> it, late |-> FALSE]

NoItem  == [geo_type |-> None, of |-> None, id |-> 0]
NoPaint == [lens |-> None, geo |-> None, on |-> None, period |-> None, late |-> FALSE]
Item(g, of, id) == [geo_type |-> g, of |-> of, id |-> id]

-----------------------------------------------------------------------------
(* GET /api/scan and GET /api/geo *)

Latest(l) == IF Periods[l] = {} THEN None ELSE Max(Periods[l])

(* A period the metric does not have: the latest one it has. *)
Resolve(l, p) == IF p \in Periods[l] THEN p ELSE Latest(l)

HasFeatures(l) == Periods[l] # {}
Known(it) == it # NoItem /\ it.of = it.geo_type

-----------------------------------------------------------------------------
(* Effects.  Each takes the requests in flight and returns them with its own. *)

(* Slip: the cleanup is gone, an earlier request of the effect goes on. *)
RerunUncancelled(rs, req) == rs \cup {req}

Rerun(rs, req) == {r \in rs : r.eff # req.eff} \cup {req}

Bounds(rs, l, g)   == Rerun(rs, Req("bounds", l, g, None, NoItem))
Default(rs, g)     == Rerun(rs, Req("default", "distress", g, None, NoItem))
Boundaries(rs, g)  == Rerun(rs, Req("boundary", None, g, None, NoItem))
Detail(rs, it)     == Rerun(rs, Req("detail", None, it.geo_type, None, it))

(* Slip: the paint joins whatever geometry is loaded. *)
ApplyAnyGeometry(fl, l, g, p, geometry, loaded) ==
  IF loaded /\ geometry # None
  THEN Append(fl, Req("paint", l, g, p, geometry)) ELSE fl

(* applyData gives up while the geometry is another geography's. *)
ApplyData(fl, l, g, p, geometry, loaded) ==
  IF loaded /\ geometry = g
  THEN Append(fl, Req("paint", l, g, p, geometry)) ELSE fl

Init ==
  /\ lens = "distress" /\ geoType = "neighborhood" /\ period = None /\ timeMeta = None
  /\ selected = NoItem /\ detail = None /\ railLoading = FALSE /\ saveState = "idle"
  /\ ready = FALSE /\ boundary = None /\ painted = NoPaint /\ wired = None
  /\ status = "loading"
  /\ asked = Boundaries(Default(Bounds({}, lens, geoType), geoType), geoType)
  /\ flight = <<>>
  /\ saved = {} /\ clicks = 0 /\ faults = 0

-----------------------------------------------------------------------------
(* The user *)

Click == clicks < MaxClicks /\ clicks' = clicks + 1

ChooseLens(l) ==
  /\ Click /\ l # lens
  /\ lens' = l
  /\ asked' = Bounds(asked, l, geoType)
  /\ flight' = ApplyData(flight, l, geoType, period, boundary, ready)
  /\ UNCHANGED <<geoType, period, timeMeta, rail, map, saved, faults>>

ChooseGeoType(g) ==
  /\ Click /\ g # geoType
  /\ geoType' = g
  /\ asked' = Boundaries(Default(Bounds(asked, lens, g), g), g)
  /\ flight' = ApplyData(flight, lens, g, period, boundary, ready)
  /\ UNCHANGED <<lens, period, timeMeta, rail, map, saved, faults>>

(* The strip is shown while there are bounds, a period and more than one stop. *)
StripStops == IF timeMeta = None \/ period = None THEN {} ELSE Periods[timeMeta[1]]

ChoosePeriod(p) ==
  /\ Click /\ p \in StripStops /\ p # period
  /\ period' = p
  /\ flight' = ApplyData(flight, lens, geoType, p, boundary, ready)
  /\ UNCHANGED <<lens, geoType, timeMeta, rail, map, asked, saved, faults>>

(* setSelected, and the effect on the selection. *)
Select(rs, it) ==
  /\ selected' = it /\ railLoading' = TRUE /\ saveState' = "idle"
  /\ asked' = Detail(rs, it)

(* The list of the features last loaded, whatever the crumbs say by now. *)
ChooseFromList(id) ==
  /\ Click /\ timeMeta # None /\ HasFeatures(timeMeta[1])
  /\ LET it == Item(timeMeta[2], timeMeta[2], id) IN it # selected /\ Select(asked, it)
  /\ UNCHANGED <<choice, detail, map, flight, saved, faults>>

(* A polygon of the geometry painted; the handler of the first paint names *)
(* the geography, and it closed over the one of that day.                  *)
ClickPolygon(id) ==
  /\ Click /\ painted # NoPaint
  /\ Select(asked, Item(wired, painted.on, id))
  /\ UNCHANGED <<choice, detail, map, flight, saved, faults>>

(* The rail, and its save button, once a detail has come. *)
RailShown == detail # None

SaveArea ==
  /\ Click /\ RailShown
  /\ saveState \notin {"saving", "saved"}
  /\ saveState' = "saving"
  /\ flight' = Append(flight, Req("save", None, None, None, selected))
  /\ UNCHANGED <<choice, selected, detail, railLoading, map, asked, saved, faults>>

LoadMap ==
  /\ ~ ready /\ ready' = TRUE
  /\ flight' = ApplyData(flight, lens, geoType, period, boundary, TRUE)
  /\ UNCHANGED <<choice, rail, boundary, painted, wired, status, asked, saved, clicks, faults>>

-----------------------------------------------------------------------------
(* Answers *)

(* Slip: the rail wakes when the detail arrives, and stays dim when it fails. *)
DimmedOnFailure(eff, failed) == railLoading /\ (eff # "detail" \/ failed)

(* The `finally` of effect C: failed or not. *)
Dimmed(eff, failed) == railLoading /\ eff # "detail"

(* (A) the bounds of the lens, and the period goes to the latest. *)
AnswerBounds(r) ==
  /\ r.eff = "bounds"
  /\ timeMeta' = <<r.lens, r.geo>>
  /\ period' = Latest(r.lens)
  /\ asked' = asked \ {r}
  /\ flight' = IF period' = period THEN flight
               ELSE ApplyData(flight, lens, geoType, period', boundary, ready)
  /\ UNCHANGED <<lens, geoType, rail, map, saved, clicks, faults>>

(* (B) the first of the geography by distress. *)
AnswerDefault(r) ==
  /\ r.eff = "default"
  /\ IF HasFeatures("distress")
     THEN Select(asked \ {r}, Item(r.geo, r.geo, 1))
     ELSE asked' = asked \ {r} /\ UNCHANGED <<selected, railLoading, saveState>>
  /\ UNCHANGED <<choice, detail, map, flight, saved, clicks, faults>>

(* (C) an unknown id is a 404, and the rail keeps what it shows. *)
AnswerDetail(r) ==
  /\ r.eff = "detail"
  /\ detail' = IF Known(r.item) THEN r.item ELSE detail
  /\ railLoading' = Dimmed(r.eff, ~ Known(r.item))
  /\ asked' = asked \ {r}
  /\ UNCHANGED <<choice, selected, saveState, map, flight, saved, clicks, faults>>

AnswerBoundaries(r) ==
  /\ r.eff = "boundary"
  /\ boundary' = r.geo
  /\ asked' = asked \ {r}
  /\ flight' = ApplyData(flight, lens, geoType, period, r.geo, ready)
  /\ UNCHANGED <<choice, rail, ready, painted, wired, status, saved, clicks, faults>>

(* A failed fetch. *)
Fail(r) ==
  /\ faults < MaxFaults /\ faults' = faults + 1
  /\ asked' = asked \ {r}
  /\ timeMeta' = IF r.eff = "bounds" THEN None ELSE timeMeta
  /\ railLoading' = Dimmed(r.eff, TRUE)
  /\ status' = IF r.eff = "boundary" THEN "error" ELSE status
  /\ UNCHANGED <<lens, geoType, period, selected, detail, saveState, ready, boundary,
                 painted, wired, flight, saved, clicks>>

(* History: the paints asked before paint i whose answers are still to come. *)
Overtaken(fl, i) ==
  [j \in DOMAIN fl |-> IF j < i /\ fl[j].eff = "paint" THEN [fl[j] EXCEPT !.late = TRUE]
                       ELSE fl[j]]

(* The first paint adds the layers and wires the clicks.  Nothing asks     *)
(* whether a later choice has been painted already.                        *)
AnswerPaint(i) ==
  LET r == flight[i] IN
  /\ r.eff = "paint"
  /\ painted' = [lens |-> r.lens, geo |-> r.geo, on |-> r.item,
                period |-> Resolve(r.lens, r.period), late |-> r.late]
  /\ wired' = IF painted = NoPaint THEN r.geo ELSE wired
  /\ status' = "ready"
  /\ flight' = RemoveAt(Overtaken(flight, i), i)
  /\ UNCHANGED <<choice, rail, ready, boundary, asked, saved, clicks, faults>>

(* POST /api/areas: 401, 404 without such a boundary, or the area.  The    *)
(* answer is written whatever is selected by now.                          *)
AnswerSave(i) ==
  LET r == flight[i] IN
  /\ r.eff = "save"
  /\ saved' = IF SignedIn /\ Known(r.item) THEN saved \cup {r.item} ELSE saved
  /\ saveState' = CASE ~ SignedIn -> "signin"
                    [] SignedIn /\ Known(r.item) -> "saved"
                    [] OTHER -> "error"
  /\ flight' = RemoveAt(flight, i)
  /\ UNCHANGED <<choice, selected, detail, railLoading, map, asked, clicks, faults>>

(* A failed paint, or a failed save, whose area may be stored all the same. *)
FailSent(i) ==
  LET r == flight[i] IN
  /\ faults < MaxFaults /\ faults' = faults + 1
  /\ flight' = RemoveAt(flight, i)
  /\ saveState' = IF r.eff = "save" THEN "error" ELSE saveState
  /\ status' = IF r.eff = "paint" THEN "error" ELSE status
  /\ \/ saved' = saved
     \/ r.eff = "save" /\ SignedIn /\ Known(r.item) /\ saved' = saved \cup {r.item}
  /\ UNCHANGED <<choice, selected, detail, railLoading, ready, boundary, painted, wired,
                 asked, clicks>>

Answer(r)  == AnswerBounds(r) \/ AnswerDefault(r) \/ AnswerDetail(r) \/ AnswerBoundaries(r)
Deliver(i) == AnswerPaint(i) \/ AnswerSave(i)

Next ==
  \/ \E l \in Lenses : ChooseLens(l)
  \/ \E g \in GeoTypes : ChooseGeoType(g)
  \/ \E p \in StripStops : ChoosePeriod(p)
  \/ \E id \in Ids : ChooseFromList(id) \/ ClickPolygon(id)
  \/ SaveArea \/ LoadMap
  \/ \E r \in asked : Answer(r) \/ Fail(r)
  \/ \E i \in DOMAIN flight : Deliver(i) \/ FailSent(i)

Spec == Init /\ [][Next]_vars

(* The map loads, and every request is answered, be it by a failure. *)
Progress ==
  LoadMap \/ (\E r \in asked : Answer(r)) \/ (\E i \in DOMAIN flight : Deliver(i))

-----------------------------------------------------------------------------
(* Properties *)

(* The geometry has come, every paint is answered and nothing has failed. *)
Settled ==
  /\ faults = 0 /\ ready
  /\ \A i \in DOMAIN flight : flight[i].eff # "paint"
  /\ \A r \in asked : r.eff # "boundary"

(* The map shows the lens, the geography and the period the page names. *)
ShowsChoice ==
  /\ painted.lens = lens /\ painted.geo = geoType
  /\ painted.period = Resolve(lens, period)

(* Whatever the order of the choices and of the answers, the values of one *)
(* geography are never joined into the geometry of another, and no choice  *)
(* is left unpainted: the settled map shows what the page names, unless    *)
(* the values asked for it came first and older ones after them            *)
(* (ScanMap.tsx: the geometry is stamped, applyData bails out while it is  *)
(* another geography's, and the arrival of the geometry paints again).     *)
PaintSettles ==
  /\ painted.on = painted.geo
  /\ Settled => ShowsChoice \/ painted.late

(* Once nothing is awaited any more, the map shows what the page names:    *)
(* "painting never runs from a stale closure" (ScanMap.tsx).               *)
MapFollows ==
  faults = 0 /\ ready /\ asked = {} /\ flight = <<>> => ShowsChoice

(* A rail that is not dimmed shows the item selected, unless its detail    *)
(* could not be had: no answer of an earlier selection is ever shown under *)
(* a later one (MarketScan.tsx, effect C).                                 *)
RailFollows ==
  ~ railLoading /\ detail # None /\ faults = 0 /\ Known(selected) => detail = selected

(* The rail is dimmed for a while only: the request that ends it is never  *)
(* the one that was cancelled.                                             *)
RailWakes == railLoading ~> ~ railLoading
=============================================================================
