----------------------------- MODULE LeadsPage -----------------------------
(***************************************************************************)
(* The Leads page of one user: a filter edited at will, a debounced fetch  *)
(* of the first page and the per-signal counts, Load more, the export, and *)
(* the saved leads the rows write.  The list is public.distress_signal,    *)
(* which the nightly run replaces while the page is open.                  *)
(*                                                                         *)
(* A request in flight remembers the generation (reqId) it was asked in;   *)
(* answers come in any order and are read of any version of the data since *)
(* they were asked.                                                        *)
(***************************************************************************)
EXTENDS Integers, SequencesExt

CONSTANTS
  Market,     \* version -> the leads by score descending, then parcel_pk
  Named,      \* what may be typed as neighborhood -> the ids it resolves to
  Flags,      \* the boolean signals of the rail
  Floors, Ceilings, Years, \* settings of the other controls
  NoCeiling, NoYear, NoValue, Unsold,  \* numbers that mean null
  PartYear,   \* a year not typed to its end
  PageSize, RowCap,
  Statuses,
  SignedIn,
  None,
  MaxClicks,  \* things the user does               (bound)
  MaxFaults   \* failed requests                    (bound)

Versions == DOMAIN Market
Parcels  == UNION {{l.pk : l \in ToSet(Market[v])} : v \in Versions}

ConstantsOK ==
  /\ Market # <<>> /\ Market \in Seq(ToSet(Market))
  /\ \A v \in Versions : Market[v] \in Seq(ToSet(Market[v]))
  /\ PageSize \in Nat \ {0} /\ RowCap \in Nat \ {0}
  /\ {MaxClicks, MaxFaults} \subseteq Nat /\ "new" \in Statuses
  /\ SignedIn \in BOOLEAN /\ "" \in DOMAIN Named
  /\ \A v \in Versions : \A i \in 1 .. Len(Market[v]) - 1 :
       LET a == Market[v][i]  b == Market[v][i + 1] IN
         a.score > b.score \/ (a.score = b.score /\ a.pk < b.pk)

VARIABLES
  filter,     \* what the rail shows
  timer,      \* a debounced fetch is due
  reqId,      \* generation of the newest first page asked for
  rows, total, facets, page, loading, loadError,
  save,       \* parcel -> the state of its row's save button
  file,       \* the last export: [key, rows, cut, version], or None
  flight,
  version,    \* of the data, on the server
  saved,      \* parcel -> [status, notes] of the user's saved lead, or None
  clicks, faults

list  == <<rows, total, facets, page, loading, loadError>>
there == <<version, saved>>
vars  == <<filter, timer, reqId, list, save, file, flight, there, clicks, faults>>

-----------------------------------------------------------------------------
(* The filter, and the leads it keeps *)

EmptyFilter == [minScore |-> 30, signals |-> {}, maxValue |-> NoCeiling,
                saleBefore |-> NoYear, neighborhood |-> ""]

(* filterToParams: a year that is not four digits is no filter. *)
Key(f) == [f EXCEPT !.saleBefore = IF @ = PartYear THEN NoYear ELSE @]

(* buildLeadsWhere *)
Where(k, l) ==
  /\ l.score >= k.minScore /\ k.signals \subseteq l.flags
  /\ k.maxValue # NoCeiling => l.value # NoValue /\ l.value <= k.maxValue
  /\ k.saleBefore # NoYear => l.sold = Unsold \/ l.sold < k.saleBefore
  /\ k.neighborhood # "" => l.hood \in Named[k.neighborhood]

Hits(v, k)  == {i \in DOMAIN Market[v] : Where(k, Market[v][i])}
Count(v, k) == Cardinality(Hits(v, k))

(* ORDER BY: the n-th row has n - 1 of the hits before it. *)
Nth(v, k, n)   == CHOOSE i \in Hits(v, k) : Cardinality({j \in Hits(v, k) : j < i}) = n - 1
Matching(v, k) == [n \in 1 .. Count(v, k) |-> Market[v][Nth(v, k, n)]]

First(s, n)     == SubSeq(s, 1, Min({n, Len(s)}))
Pks(s)          == [i \in DOMAIN s |-> s[i].pk]

PageOf(v, k, n) ==
  LET s == Matching(v, k) IN Pks(First(SubSeq(s, n * PageSize + 1, Len(s)), PageSize))

FacetCount(v, k) ==
  [s \in Flags |-> Cardinality({i \in Hits(v, k) : s \in Market[v][i].flags})]

Init ==
  /\ \E h \in DOMAIN Named : filter = [EmptyFilter EXCEPT !.neighborhood = h]
  /\ timer = TRUE /\ reqId = 0
  /\ rows = <<>> /\ total = 0 /\ facets = None /\ page = 0
  /\ loading = FALSE /\ loadError = FALSE
  /\ save = [p \in Parcels |-> "idle"] /\ file = None /\ flight = {}
  /\ version = 1 /\ saved = [p \in Parcels |-> None]
  /\ clicks = 0 /\ faults = 0

Click == clicks < MaxClicks /\ clicks' = clicks + 1

-----------------------------------------------------------------------------
(* The rail *)

Patches(f) ==
  {[f EXCEPT !.minScore = x] : x \in Floors}
  \cup {[f EXCEPT !.maxValue = x] : x \in Ceilings \cup {NoCeiling}}
  \cup {[f EXCEPT !.saleBefore = x] : x \in Years \cup {NoYear, PartYear}}
  \cup {[f EXCEPT !.neighborhood = x] : x \in DOMAIN Named}
  \cup {[f EXCEPT !.signals = (@ \ {s}) \cup t] : s \in Flags, t \in {{}} \cup {{s} : s \in Flags}}
  \cup {EmptyFilter}

(* The debounce starts again when the query string changes. *)
Edit(f) ==
  /\ Click /\ f # filter
  /\ filter' = f
  /\ timer' = (timer \/ Key(f) # Key(filter))
  /\ UNCHANGED <<reqId, list, save, file, flight, there, faults>>

Retry ==
  /\ Click /\ loadError /\ rows = <<>> /\ ~ loading
  /\ timer' = TRUE
  /\ UNCHANGED <<filter, reqId, list, save, file, flight, there, faults>>

(* 250 ms later. *)
Fire ==
  /\ timer /\ timer' = FALSE
  /\ reqId' = reqId + 1 /\ loading' = TRUE /\ page' = 0
  /\ flight' = flight \cup {[kind |-> "first", id |-> reqId + 1, key |-> Key(filter),
                             page |-> 0, pk |-> None, since |-> version]}
  /\ UNCHANGED <<filter, rows, total, facets, loadError, save, file, there, clicks, faults>>

HasMore == Len(rows) < total

(* The button is disabled while the list loads, not while a fetch is due. *)
LoadMore ==
  /\ Click /\ HasMore /\ ~ loading
  /\ loading' = TRUE
  /\ flight' = flight \cup {[kind |-> "more", id |-> reqId, key |-> Key(filter),
                             page |-> page + 1, pk |-> None, since |-> version]}
  /\ UNCHANGED <<filter, timer, reqId, rows, total, facets, page, loadError, save, file, there, faults>>

-----------------------------------------------------------------------------
(* Answers to the list *)

(* A row that leaves the table takes its button's state with it. *)
Mounted(rs) == save' = [p \in Parcels |-> IF p \in ToSet(rs) THEN save[p] ELSE "idle"]
Unmounted(fl, rs) ==
  {IF r.kind = "save" /\ r.pk \notin ToSet(rs) THEN [r EXCEPT !.id = None] ELSE r : r \in fl}

(* Slip: an answer is taken whichever request it answers. *)
CurrentAny(r) == TRUE

Current(r) == r.id = reqId

Ignore(r) ==
  /\ r.kind \in {"first", "more"} /\ ~ Current(r)
  /\ flight' = flight \ {r}
  /\ UNCHANGED <<filter, timer, reqId, list, save, file, there, clicks, faults>>

Finally(failed) == loading' = FALSE

(* List and counts are two requests, and the list's rows and total two reads. *)
AnswerFirst(r) ==
  /\ r.kind = "first" /\ Current(r)
  /\ \E v, w, x \in r.since .. version :
       /\ rows' = PageOf(v, r.key, 0)
       /\ total' = Count(w, r.key) /\ facets' = FacetCount(x, r.key)
  /\ Finally(FALSE) /\ loadError' = FALSE
  /\ Mounted(rows') /\ flight' = Unmounted(flight \ {r}, rows')
  /\ UNCHANGED <<filter, timer, reqId, page, file, there, clicks, faults>>

FailFirst(r) ==
  /\ r.kind = "first" /\ Current(r)
  /\ faults < MaxFaults /\ faults' = faults + 1
  /\ rows' = <<>> /\ total' = 0 /\ facets' = None
  /\ Finally(TRUE) /\ loadError' = TRUE
  /\ Mounted(rows') /\ flight' = Unmounted(flight \ {r}, rows')
  /\ UNCHANGED <<filter, timer, reqId, page, file, there, clicks>>

AnswerMore(r) ==
  /\ r.kind = "more" /\ Current(r)
  /\ \E v \in r.since .. version : rows' = rows \o PageOf(v, r.key, r.page)
  /\ page' = r.page /\ Finally(FALSE)
  /\ flight' = flight \ {r}
  /\ UNCHANGED <<filter, timer, reqId, total, facets, loadError, save, file, there, clicks, faults>>

(* A failed Load more is silent, and may be pressed again. *)
FailMore(r) ==
  /\ r.kind = "more" /\ Current(r)
  /\ faults < MaxFaults /\ faults' = faults + 1
  /\ Finally(TRUE)
  /\ flight' = flight \ {r}
  /\ UNCHANGED <<filter, timer, reqId, rows, total, facets, page, loadError, save, file, there, clicks>>

-----------------------------------------------------------------------------
(* Export and saved leads *)

(* Slip: the statement's limit is the cap itself, no row is ever beyond it. *)
ExportToCap ==
  /\ Click
  /\ file' = IF ~ SignedIn THEN file
             ELSE LET s == First(Pks(Matching(version, Key(filter))), RowCap) IN
                    [key |-> Key(filter), rows |-> s,
                     cut |-> Len(s) > RowCap, version |-> version]
  /\ UNCHANGED <<filter, timer, reqId, list, save, flight, there, faults>>

(* One statement over a cursor; one row past the cap proves the cut. *)
Export ==
  /\ Click
  /\ file' = IF ~ SignedIn THEN file
             ELSE LET s == Pks(Matching(version, Key(filter))) IN
                    [key |-> Key(filter), rows |-> First(s, RowCap),
                     cut |-> Len(s) > RowCap, version |-> version]
  /\ UNCHANGED <<filter, timer, reqId, list, save, flight, there, faults>>

PressSave(p) ==
  /\ Click /\ p \in ToSet(rows) /\ save[p] \in {"idle", "error"}
  /\ save' = [save EXCEPT ![p] = "saving"]
  /\ flight' = flight \cup {[kind |-> "save", id |-> 0, key |-> None,
                             page |-> 0, pk |-> p, since |-> 0]}
  /\ UNCHANGED <<filter, timer, reqId, list, file, there, faults>>

(* The upsert writes status, tags and notes, given or not. *)
Upsert(p) == [saved EXCEPT ![p] = [status |-> "new", notes |-> None]]

Shows(r, label) ==
  save' = IF r.id = None THEN save ELSE [save EXCEPT ![r.pk] = label]

AnswerSave(r) ==
  /\ r.kind = "save"
  /\ saved' = IF SignedIn THEN Upsert(r.pk) ELSE saved
  /\ Shows(r, IF SignedIn THEN "saved" ELSE "signin")
  /\ flight' = flight \ {r}
  /\ UNCHANGED <<filter, timer, reqId, list, file, version, clicks, faults>>

(* 500, or an answer lost after the row was written. *)
FailSave(r) ==
  /\ r.kind = "save"
  /\ faults < MaxFaults /\ faults' = faults + 1
  /\ saved' \in {saved} \cup (IF SignedIn THEN {Upsert(r.pk)} ELSE {})
  /\ Shows(r, "error")
  /\ flight' = flight \ {r}
  /\ UNCHANGED <<filter, timer, reqId, list, file, version, clicks>>

(* PATCH and DELETE /api/leads/saved/:id.  Only the fields given change. *)
Patch(p, status, notes) ==
  /\ Click /\ saved[p] # None
  /\ saved' = [saved EXCEPT ![p] = [status |-> IF status = None THEN @.status ELSE status,
                                    notes  |-> IF notes = None THEN @.notes ELSE notes]]
  /\ UNCHANGED <<filter, timer, reqId, list, save, file, flight, version, faults>>

Unsave(p) ==
  /\ Click /\ saved[p] # None
  /\ saved' = [saved EXCEPT ![p] = None]
  /\ UNCHANGED <<filter, timer, reqId, list, save, file, flight, version, faults>>

(* The nightly run. *)
Refresh ==
  /\ version < Len(Market) /\ version' = version + 1
  /\ UNCHANGED <<filter, timer, reqId, list, save, file, flight, saved, clicks, faults>>

Answer(r) == Ignore(r) \/ AnswerFirst(r) \/ AnswerMore(r) \/ AnswerSave(r)

Next ==
  \/ \E f \in Patches(filter) : Edit(f)
  \/ Retry \/ Fire \/ LoadMore \/ Export \/ Refresh
  \/ \E p \in Parcels : \/ PressSave(p) \/ Unsave(p)
                        \/ \E s \in Statuses, n \in {None, "note"} : Patch(p, s, n)
  \/ \E r \in flight : Answer(r) \/ FailFirst(r) \/ FailMore(r) \/ FailSave(r)

Spec == Init /\ [][Next]_vars

-----------------------------------------------------------------------------
(* Properties *)

Settled == ~ timer /\ ~ loading /\ ~ loadError

(* Once the page has settled, on data that did not change meanwhile, the   *)
(* list is the first pages of what the filter keeps, without a gap, a      *)
(* repetition or a row of another filter, the total is its length, and     *)
(* each count is the number of leads the list would have with that signal  *)
(* switched on (leads-query.ts: "the list, the per-signal counts, and the  *)
(* exported set can never disagree").                                      *)
ListIsTheFilter ==
  Settled /\ version = 1 =>
    LET k == Key(filter) IN
      /\ rows = Pks(First(Matching(1, k), (page + 1) * PageSize))
      /\ total = Count(1, k)
      /\ \A s \in Flags : facets[s] = Count(1, [k EXCEPT !.signals = @ \cup {s}])

(* The export holds the rows the list of the same filter shows, in the     *)
(* same order, as far as both go; it says so when it was cut.              *)
ExportIsTheList ==
  file # None /\ Settled /\ version = 1 /\ file.key = Key(filter) =>
    /\ \A i \in DOMAIN rows : i <= RowCap => file.rows[i] = rows[i]
    /\ file.cut <=> total > Len(file.rows)

(* The list is dimmed only while a request that will undim it is in        *)
(* flight, one that no later request has superseded: it never loads for    *)
(* ever (LeadsView.tsx, the finally of the effect and of loadMore).        *)
LoadingIsAtWork ==
  loading => \E r \in flight : r.kind \in {"first", "more"} /\ Current(r)
=============================================================================
