-------------------------------- MODULE MCWeb --------------------------------
(***************************************************************************)
(* Instances of the three pages for TLC, one of which is open, and its     *)
(* properties by name.                                                     *)
(***************************************************************************)
EXTENDS Integers, TLC

CONSTANTS
  GeoTypes, Periods, Ids,                                       \* MarketScan
  Market, Named, Flags, Floors, Ceilings, Years, NoCeiling,     \* LeadsPage
  NoYear, NoValue, Unsold, PartYear, PageSize, RowCap, Statuses,
  Accounts, Vendors,                                            \* AccountPage
  SignedIn, None, MaxClicks, MaxListClicks, MaxFaults

VARIABLES
  page, clicks, faults,
  (* MarketScan *)
  lens, geoType, period, timeMeta, selected, detail, railLoading, saveState,
  ready, boundary, painted, wired, status, asked, sent, areas,
  (* LeadsPage *)
  filter, timer, reqId, rows, total, facets, listPage, loading, loadError,
  save, file, flight, version, leads,
  (* AccountPage *)
  server, view, shown, busy, calls

scanVars  == <<lens, geoType, period, timeMeta, selected, detail, railLoading, saveState,
               ready, boundary, painted, wired, status, asked, sent, areas>>
leadsVars == <<filter, timer, reqId, rows, total, facets, listPage, loading, loadError,
               save, file, flight, version, leads>>
acctVars  == <<server, view, shown, busy, calls>>
vars == <<page, clicks, faults, scanVars, leadsVars, acctVars>>

-----------------------------------------------------------------------------
Scan    == INSTANCE MarketScan WITH flight <- sent, saved <- areas
Leads   == INSTANCE LeadsPage WITH
             page <- listPage, saved <- leads, MaxClicks <- MaxListClicks
Account == INSTANCE AccountPage

ASSUME ConstantsAssumption ==
  Scan!ConstantsOK /\ Leads!ConstantsOK /\ Account!ConstantsOK

(* Two lenses whose metrics have different periods. *)
Grains == "distress" :> {1, 2} @@ "price" :> {2, 3}

Lead(pk, score, flags, value, sold, hood) ==
  [pk |-> pk, score |-> score, flags |-> flags, value |-> value, sold |-> sold, hood |-> hood]

(* A market and the next night's: one lead gone, one up in rank.  Two      *)
(* leads share a score, one has no value, one was never sold.              *)
Nights ==
  << << Lead(2, 60, {"vacancy"}, 1, 5, "a"), Lead(1, 40, {}, -2, 9, "a"),
        Lead(3, 40, {"vacancy"}, 3, -3, "b"), Lead(4, 10, {"vacancy"}, 1, 5, "b") >>,
     << Lead(3, 70, {"vacancy"}, 3, -3, "b"), Lead(1, 40, {}, -2, 9, "a"),
        Lead(4, 10, {"vacancy"}, 1, 5, "b") >> >>

Typed    == "" :> {} @@ "b" :> {"b"}
NegOne   == -1
NegTwo   == -2
NegThree == -3

(* A user who has been here before. *)
Users == {[attested |-> TRUE, key |-> "endato", areas |-> {0}, subs |-> {}, unread |-> {"alert"}]}

-----------------------------------------------------------------------------
Init ==
  /\ page \in {"scan", "leads", "account"}
  /\ Scan!Init /\ Leads!Init /\ Account!Init
  /\ page # "leads" => filter.neighborhood = ""
  /\ page # "account" => view = "login"

OnScan    == page = "scan" /\ Scan!Next /\ UNCHANGED <<page, leadsVars, acctVars>>
OnLeads   == page = "leads" /\ Leads!Next /\ UNCHANGED <<page, scanVars, acctVars>>
OnAccount == page = "account" /\ Account!Next /\ UNCHANGED <<page, scanVars, leadsVars>>

Next == OnScan \/ OnLeads \/ OnAccount

(* The map loads, and every request of the scan is answered. *)
ScanProgress  == page = "scan" /\ Scan!Progress /\ UNCHANGED <<page, leadsVars, acctVars>>

Spec == Init /\ [][Next]_vars /\ WF_vars(ScanProgress)

-----------------------------------------------------------------------------
(* Properties: stated in the pages' modules *)

(* The settled map shows what the page names, or values that came late. *)
PaintSettles == Scan!PaintSettles

(* Once nothing is awaited, the map shows what the page names. *)
MapFollows == Scan!MapFollows

(* No detail of an earlier selection is shown under a later one. *)
RailFollows == Scan!RailFollows

(* The rail is dimmed for a while only. *)
RailWakes == Scan!RailWakes

(* The list, its total and its counts are the filter's. *)
ListIsTheFilter == Leads!ListIsTheFilter

(* The export holds the rows of the list. *)
ExportIsTheList == Leads!ExportIsTheList

(* A list is dimmed and a card disabled only while what will undo it is at  *)
(* work.                                                                   *)
AtWork == Leads!LoadingIsAtWork /\ Account!BusyIsAtWork

(* The page a handler leaves behind shows what its own call did. *)
ReadsOwnWrites == Account!ReadsOwnWrites
=============================================================================
