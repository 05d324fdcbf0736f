----------------------------- MODULE ParcelRecord -----------------------------
(***************************************************************************)
(* What the public record says of one parcel: the rows loaded for it under *)
(* their natural keys, the signals and the composite that the matview      *)
(* distress_signal computes of them in SQL, and the page, which reads that *)
(* row and scores it again in TypeScript.                                  *)
(*                                                                         *)
(* Scores are in millionths.  Statuses are free text: "" is none, "OPEN"   *)
(* and "CLOSED" the common ones, "CLOSEDCASE" one that only a tolerant     *)
(* reader takes for closed.                                                *)
(***************************************************************************)
EXTENDS Integers, Sequences, FiniteSets

CONSTANTS
  Violations, Hazardous,  \* violation ids, and those that are hazardous
  Complaints,             \* complaint ids
  Vacancy,                \* violations and complaints whose type says vacant
  Deeds,                  \* deeds that may be recorded
  Snapshots,              \* [due, actionable] rows of the tax list
  OutOfState,             \* the owner's address is
  Expected,               \* neighborhood price x area, or None
  Floor,                  \* nominal consideration
  None,
  MaxYear, MaxLoads       \* bounds on the years and on the rows loaded and sales moved

VARIABLES
  year,       \* the current one
  active,     \* the parcel is on the spine
  viol,       \* violation -> status, or None
  compl,      \* complaint -> year filed, or None
  tax,        \* year -> [due, actionable] of the snapshot's row, or None
  inventory,  \* "unsafe" and "demolition" -> status, or None
  sale,       \* the writ's status on the sheriff's page, or None
  listings,   \* the statuses under which the writ has been loaded
  deeds,      \* those recorded, in order
  row,        \* the parcel's row in distress_signal, or None
  fresh,      \* nothing has been loaded since the matview was refreshed
  page,       \* what the open page shows, or None
  loads

records == <<year, active, viol, compl, tax, inventory, sale, listings, deeds>>
vars    == <<records, row, fresh, page, loads>>

ConstantsOK ==
  /\ IsFiniteSet(Violations) /\ IsFiniteSet(Complaints) /\ OutOfState \in BOOLEAN
  /\ Snapshots \subseteq [due : Nat, actionable : BOOLEAN]
  /\ \A d \in Deeds : d.price \in Nat \cup {None}
  /\ Expected = None \/ Expected \in Nat \ {0}
  /\ Floor \in Nat /\ MaxYear \in Nat /\ MaxLoads \in Nat
  /\ None \notin Nat /\ None \notin BOOLEAN

-----------------------------------------------------------------------------
(* DISTRESS_CONFIG: the weights, in millionths, and the caps of the numbers. *)
Weight ==
  [tax_delinquent |-> 200000, actionable_sheriff_flag |-> 120000, open_violations |-> 140000,
   unsafe_or_imm_dang |-> 120000, recent_complaints |-> 80000, on_sheriff_list |-> 100000,
   out_of_state_owner |-> 60000, vacancy_proxy |-> 120000, below_market_last_sale |-> 60000]

LinearCap ==
  [tax_delinquent |-> 25000, open_violations |-> 5, recent_complaints |-> 4,
   below_market_last_sale |-> 40]  \* percent; each cap divides its weight

Whole == 1000000  \* 100 points

Components == DOMAIN Weight
Numeric    == DOMAIN LinearCap

Total(t) ==
  t.tax_delinquent + t.actionable_sheriff_flag + t.open_violations + t.unsafe_or_imm_dang
  + t.recent_complaints + t.on_sheriff_list + t.out_of_state_owner + t.vacancy_proxy
  + t.below_market_last_sale

Least(a, b) == IF a < b THEN a ELSE b

(* normalizeSql, times the weight: every column is coalesced. *)
LinearSql(v, weight, cap) == (weight \div cap) * Least(IF v < 0 THEN 0 ELSE v, cap)
FlagSql(v, weight)        == IF v THEN weight ELSE 0

TermsSql(raw) ==
  [k \in Components |-> IF k \in Numeric THEN LinearSql(raw[k], Weight[k], LinearCap[k])
                        ELSE FlagSql(raw[k], Weight[k])]

ScoreSql(raw) == Total(TermsSql(raw))

(* round half up; positive, so that away from zero is the same. *)
Points(score) == (score + 5000) \div 10000

(* normalizeRaw, times the weight: absent, or not a finite number, is 0.   *)
LinearTs(v, weight, cap) == IF v = None THEN 0 ELSE Least((weight \div cap) * Least(v, cap), weight)
FlagTs(v, weight)        == IF v = None THEN 0 ELSE IF v THEN weight ELSE 0

TermsTs(raw) ==
  [k \in Components |-> IF k \in Numeric THEN LinearTs(raw[k], Weight[k], LinearCap[k])
                        ELSE FlagTs(raw[k], Weight[k])]

-----------------------------------------------------------------------------
(* The column maps and the signals of the matview *)

Literal == {"CLOSED", "COMPLIED", "RESOLVED"}

Open(status) == status \notin Literal

OpenViolations == {v \in Violations : viol[v] # None /\ Open(viol[v])}

(* isClosedStatus of the page: any text that holds a settled token. *)
Settled == Literal \cup {"CLOSEDCASE"}
ListedOpen == {v \in Violations : viol[v] # None /\ viol[v] \notin Settled}

Filed(c, years) == compl[c] # None /\ year - compl[c] < years

(* deriveTransferFlags.  A deed is [doc, price, estate, family]: a party's *)
(* name says estate, the parties share a surname.                          *)
NominalPrice(d) == d.price # None /\ d.price <= Floor
NonMarket(d)    == d.estate \/ (NominalPrice(d) /\ d.family)

(* Slip: any price is a price. *)
AnyPrice(d) == d.doc = "deed" /\ d.price # None /\ ~ NonMarket(d)

ArmsLength(d) ==
  d.doc = "deed" /\ d.price # None /\ d.price > Floor /\ ~ NonMarket(d)

(* The last market sale. *)
Market == {i \in DOMAIN deeds : ArmsLength(deeds[i])}
LastPrice == deeds[CHOOSE i \in Market : \A j \in Market : j <= i].price

BelowMarket ==
  IF Expected = None \/ Market = {} THEN 0
  ELSE IF LastPrice >= Expected THEN 0 ELSE (100 * (Expected - LastPrice)) \div Expected

(* The parcel's latest row, whatever its snapshot. *)
Taxed == {y \in 0 .. MaxYear : tax[y] # None}
LatestTax == IF Taxed = {} THEN [due |-> 0, actionable |-> FALSE]
             ELSE tax[CHOOSE y \in Taxed : \A z \in Taxed : z <= y]

Listed == {"preview", "postponed"}

Signals ==
  [tax_delinquent          |-> LatestTax.due,
   actionable_sheriff_flag |-> LatestTax.actionable,
   open_violations         |-> Cardinality(OpenViolations)
                               + Cardinality(OpenViolations \cap Hazardous),
   unsafe_or_imm_dang      |-> inventory["unsafe"] \notin {None, "closed"},
   recent_complaints       |-> Cardinality({c \in Complaints : Filed(c, 1)}),
   on_sheriff_list         |-> listings \cap Listed # {},
   out_of_state_owner      |-> OutOfState,
   vacancy_proxy           |-> \/ OpenViolations \cap Vacancy # {}
                               \/ inventory["demolition"] # None
                               \/ \E c \in Complaints \cap Vacancy : Filed(c, 2),
   below_market_last_sale  |-> BelowMarket]

-----------------------------------------------------------------------------

Init ==
  /\ year = 0 /\ active = TRUE
  /\ viol = [v \in Violations |-> None] /\ compl = [c \in Complaints |-> None]
  /\ tax = [y \in 0 .. MaxYear |-> None]
  /\ inventory = [i \in {"unsafe", "demolition"} |-> None]
  /\ sale = None /\ listings = {} /\ deeds = <<>>
  /\ row = None /\ fresh = FALSE /\ page = None /\ loads = 0

Load ==
  /\ loads < MaxLoads /\ loads' = loads + 1
  /\ fresh' = FALSE /\ page' = None
  /\ UNCHANGED <<year, row>>

LoadViolation(v, status) ==
  /\ Load /\ viol' = [viol EXCEPT ![v] = status]
  /\ UNCHANGED <<active, compl, tax, inventory, sale, listings, deeds>>

LoadComplaint(c) ==
  /\ Load /\ compl[c] = None /\ compl' = [compl EXCEPT ![c] = year]
  /\ UNCHANGED <<active, viol, tax, inventory, sale, listings, deeds>>

(* The key is the account and the month: one row for each snapshot that    *)
(* still lists the parcel.                                                 *)
LoadDelinquency(snapshot) ==
  /\ Load /\ tax' = [tax EXCEPT ![year] = snapshot]
  /\ UNCHANGED <<active, viol, compl, inventory, sale, listings, deeds>>

LoadInventory(kind, status) ==
  /\ Load /\ inventory' = [inventory EXCEPT ![kind] = status]
  /\ UNCHANGED <<active, viol, compl, tax, sale, listings, deeds>>

LoadDeed(d) ==
  /\ Load /\ deeds' = Append(deeds, d)
  /\ UNCHANGED <<active, viol, compl, tax, inventory, sale, listings>>

(* The sale goes on at the sheriff's, whose pages are scraped whole.  The  *)
(* key of a listing holds its status.                                      *)
Proceed(status) ==
  /\ loads < MaxLoads /\ loads' = loads + 1
  /\ sale # "sold" /\ sale' = status
  /\ UNCHANGED <<year, active, viol, compl, tax, inventory, listings, deeds, row, fresh, page>>

Scrape ==
  /\ Load /\ sale # None /\ listings' = listings \cup {sale}
  /\ UNCHANGED <<active, viol, compl, tax, inventory, sale, deeds>>

(* The spine retires the parcel, or brings it back. *)
LoadParcel ==
  /\ Load /\ active' = ~ active
  /\ UNCHANGED <<viol, compl, tax, inventory, sale, listings, deeds>>

YearPasses ==
  /\ year < MaxYear /\ year' = year + 1
  /\ fresh' = FALSE /\ page' = None
  /\ UNCHANGED <<active, viol, compl, tax, inventory, sale, listings, deeds, row, loads>>

(* finalizeDerived: the matview has a row for each active parcel. *)
Refresh ==
  /\ LET raw == Signals
         score == ScoreSql(raw)
     IN row' = IF active THEN [raw |-> raw, score |-> score, points |-> Points(score)]
               ELSE None
  /\ fresh' = TRUE /\ page' = None
  /\ UNCHANGED <<records, loads>>

(* Slip: numeric columns arrive as text, which the scorer takes for absent. *)
AsSent(k) == IF row = None \/ k \in Numeric THEN None ELSE row.raw[k]

(* distressFromRow: coerced to the types the scorer expects. *)
Coerced(k) == IF row = None THEN None ELSE row.raw[k]

(* loadDeepDive and the page.  The sum is one of doubles: at half a point  *)
(* its last bit decides.                                                   *)
OpenPage ==
  LET terms == TermsTs([k \in Components |-> Coerced(k)])
      score == Least(Total(terms), Whole)
      count == Coerced("open_violations")
  IN /\ \E points \in {Points(score), (score + 4999) \div 10000} :
          page' = [terms |-> terms, score |-> score, points |-> points,
                   count |-> IF count = None THEN Cardinality(ListedOpen) ELSE count,
                   delinquent |-> LatestTax.due > 0]
     /\ UNCHANGED <<records, row, fresh, loads>>

Next ==
  \/ \E v \in Violations, status \in {"", "OPEN", "CLOSED", "CLOSEDCASE"} : LoadViolation(v, status)
  \/ \E c \in Complaints : LoadComplaint(c)
  \/ \E snapshot \in Snapshots : LoadDelinquency(snapshot)
  \/ \E status \in {"open", "closed"} : LoadInventory("unsafe", status)
  \/ LoadInventory("demolition", "issued")
  \/ \E d \in Deeds : LoadDeed(d)
  \/ \E status \in {"preview", "postponed", "sold"} : Proceed(status)
  \/ Scrape \/ LoadParcel \/ YearPasses
  \/ Refresh \/ OpenPage

Spec == Init /\ [][Next]_vars

-----------------------------------------------------------------------------
(* Properties *)

(* The page's own score is that of the matview's row, term by term summed, *)
(* and so are its points but for a half point, where the last bit of a sum *)
(* of doubles may round it down (distressSql.ts: two implementations of    *)
(* the same math, "the classic drift hazard").  Its cards agree when the   *)
(* matview is fresh: the count of open violations, which the matview takes *)
(* from the literal statuses, covers those the page lists as open, which   *)
(* it takes from any settled word ("never undercounts"), and the tax card  *)
(* says delinquent when the score counts it.                               *)
PageAgrees ==
  page # None =>
    /\ row # None =>
         /\ page.score = row.score /\ page.score \in 0 .. Whole
         /\ \/ page.points = row.points
            \/ row.score % 10000 = 5000 /\ page.points = row.points - 1
    /\ fresh =>
         /\ page.count >= Cardinality(ListedOpen)
         /\ row # None => (page.delinquent <=> page.terms["tax_delinquent"] > 0)

(* Nothing but an adverse filing raises the score: not the passing of time, *)
(* not an open violation that gets another status, not a delinquency paid  *)
(* down, a case closed, or a deed that is no market sale ("A $1 estate deed *)
(* is therefore NOT arms-length").                                         *)
Benign ==
  /\ \A v \in Violations : viol'[v] = viol[v] \/ (viol[v] # None /\ Open(viol[v]))
  /\ compl' = compl /\ listings' = listings
  /\ LatestTax'.due <= LatestTax.due /\ (LatestTax'.actionable => LatestTax.actionable)
  /\ inventory'["demolition"] = inventory["demolition"]
  /\ inventory'["unsafe"] \in {inventory["unsafe"], "closed"}
  /\ deeds' # deeds => LET d == deeds'[Len(deeds')] IN
       d.doc # "deed" \/ d.estate \/ d.price = None \/ d.price <= Floor
OnlyFilingsRaise ==
  [][Benign => \A old \in {Signals}, new \in {Signals'} : ScoreSql(new) <= ScoreSql(old)]_records

(* A sale that is over does not count: "the M2 follow-up filter so a future *)
(* 'sold'/'cancelled' page value never over-flags distress"                *)
(* (distressSql.ts).                                                       *)
NeverOverFlags ==
  row # None /\ fresh /\ sale = "sold" /\ sale \in listings => ~ row.raw.on_sheriff_list
=============================================================================
