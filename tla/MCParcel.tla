------------------------------- MODULE MCParcel -------------------------------
(***************************************************************************)
(* Instances for TLC of what the page of a parcel shows: its comparable    *)
(* sales and its record, one at a time, and their properties by name.      *)
(***************************************************************************)
EXTENDS Integers, TLC

CONSTANTS
  Parts,
  Sales, Profiles, Areas, NoDist, NoPrice, PoolMonths, PoolDist, Recency, RecencyWide,
  Radius, MaxRadius, BedsTol, AreaTol, YearTol, MinSample, Lot, Cap,         \* CompsLadder
  Violations, Hazardous, Complaints, Vacancy, Deeds, Snapshots, OutOfState,
  Expected, Floor, None, MaxYear, MaxLoads                                                     \* ParcelRecord

VARIABLES
  part,
  (* CompsLadder *)
  market, area, pool, stage, fs, matched, result, shown,
  (* ParcelRecord *)
  year, active, viol, compl, tax, inventory, sale, listings, deeds, row, fresh, page, loads

compsVars  == <<market, area, pool, stage, fs, matched, result, shown>>
recordVars == <<year, active, viol, compl, tax, inventory, sale, listings, deeds, row,
                fresh, page, loads>>
vars == <<part, compsVars, recordVars>>

Comps  == INSTANCE CompsLadder
Record == INSTANCE ParcelRecord

ASSUME ConstantsAssumption == Comps!ConstantsOK /\ Record!ConstantsOK

Unlocated == -1
Unpriced  == -2

Sale(age, dist, hood, beds, years, price) ==
  [similar |-> TRUE, age |-> age, dist |-> dist, hood |-> hood, beds |-> beds,
   area |-> 0, years |-> years, price |-> price]

(* One sale for every rung that could be the first to match it, sales that *)
(* no rung matches, a neighbor without coordinates, one without a price.   *)
Market == {
  Sale(0, 1, FALSE, 0, 0, 1), Sale(0, 2, TRUE, 1, 15, 4),
  Sale(18, Unlocated, TRUE, 0, 0, 2), Sale(30, 2, FALSE, 0, 0, 3),
  Sale(12, 4, FALSE, 0, 0, 2), Sale(12, 8, FALSE, 0, 0, 9),
  Sale(12, 2, FALSE, 0, 20, Unpriced), Sale(12, 6, TRUE, 2, 20, 5),
  Sale(48, 2, TRUE, 0, 0, 1), Sale(60, 2, TRUE, 0, 0, 7),
  [Sale(0, 1, FALSE, 0, 0, 1) EXCEPT !.area = 30],
  [Sale(0, 1, TRUE, 0, 0, 1) EXCEPT !.similar = FALSE]}

(* The first parcel was sold twice. *)
Lots == <<"a", "b", "c", "a">>

(* A market sale below and one above what is expected, a nominal deed,     *)
(* one of an estate, one of the sheriff, one without price.                *)
Deed(doc, price, estate, family) ==
  [doc |-> doc, price |-> price, estate |-> estate, family |-> family]
Recorded == {Deed("deed", 150, FALSE, TRUE), Deed("deed", 250, FALSE, FALSE),
             Deed("deed", 1, FALSE, FALSE), Deed("deed", 120, TRUE, FALSE),
             Deed("sheriff", 90, FALSE, FALSE), Deed("deed", None, FALSE, FALSE)}

TaxRows == {[due |-> 0, actionable |-> FALSE], [due |-> 625, actionable |-> FALSE],
            [due |-> 30000, actionable |-> TRUE]}

Init ==
  /\ part \in Parts /\ Comps!Init /\ Record!Init
  /\ part = "record" => area = 0 /\ \A s \in Sales : market[s] = Sale(60, 2, TRUE, 0, 0, 7)
OnComps  == part = "comps" /\ Comps!Next /\ UNCHANGED <<part, recordVars>>
OnRecord == part = "record" /\ Record!Next /\ UNCHANGED <<part, compsVars>>
Next == OnComps \/ OnRecord
Spec == Init /\ [][Next]_vars

-----------------------------------------------------------------------------
(* Properties: stated in the parts' modules *)

(* The ladder stops at the first rung with enough sales. *)
StopsAtFirstRung == Comps!StopsAtFirstRung

(* The estimate is the median of the trimmed sales, if there are enough. *)
EstimateSound == Comps!EstimateSound

(* The card shows the pinned sales and the nearest, each parcel once. *)
CardIsCurated == Comps!CardIsCurated

(* The page's score is that of the matview's row, and its cards agree. *)
PageAgrees == Record!PageAgrees

(* Nothing but an adverse filing raises the score. *)
OnlyFilingsRaise == Record!OnlyFilingsRaise

(* A sale that is over does not count. *)
NeverOverFlags == Record!NeverOverFlags
=============================================================================
