------------------------------ MODULE CompsLadder ------------------------------
(***************************************************************************)
(* The comparable sales of one parcel (packages/core comps, called by      *)
(* apps/web comps-query): the candidate pool, the widening ladder of the   *)
(* filters, the p5-p95 trim, the median and the estimate.                  *)
(*                                                                         *)
(* A sale is a record of what the gates look at: age in months before      *)
(* today, distance in quarters of a mile (NoDist without coordinates), same  *)
(* neighborhood, same category, distance from the subject in bedrooms,     *)
(* percent of area and years, and its price per square foot (NoPrice where *)
(* the area is missing).  Percentiles are in hundredths.                   *)
(***************************************************************************)
EXTENDS Integers, FiniteSets

CONSTANTS
  Sales,        \* numbers of the sales, newest listed first by the query
  Profiles,     \* what a sale may look like
  Areas,        \* the subject's possible livable areas, 0 if unknown
  NoDist, NoPrice,
  PoolMonths, PoolDist,     \* 48 months, two miles
  Recency, RecencyWide,     \* 18 and 36 months
  Radius, MaxRadius,        \* 0.5 and 2 miles
  BedsTol, AreaTol, YearTol,
  MinSample,
  Lot,          \* sale -> the parcel sold
  Cap           \* sales the page has room for

VARIABLES
  market,   \* sale -> its profile
  area,     \* the subject's livable area
  pool,     \* the sales comps-query has loaded
  stage,    \* the rung that has been evaluated
  fs,       \* the filter state
  matched,  \* the sales that pass it
  result,   \* kept sales, percentiles, median and estimate
  shown     \* the sales on the page's card

vars == <<market, area, pool, stage, fs, matched, result, shown>>

ConstantsOK ==
  /\ IsFiniteSet(Sales) /\ Sales \subseteq Nat /\ Areas \subseteq Nat
  /\ \A m \in Profiles : /\ m.age \in Nat /\ m.dist \in Nat \cup {NoDist}
                         /\ m.price \in Nat \cup {NoPrice}
  /\ NoDist \notin Nat /\ NoPrice \notin Nat
  /\ Radius \in Nat \ {0} /\ MaxRadius \in Nat /\ Radius <= MaxRadius
  /\ Recency \in Nat /\ RecencyWide \in Nat /\ Recency < RecencyWide
  /\ MinSample \in Nat /\ MinSample >= 3 /\ Cap \in Nat

NoResult == [kept |-> {}, p5 |-> NoPrice, p95 |-> NoPrice, median |-> NoPrice,
             insufficient |-> FALSE, estimate |-> NoPrice]

Base == [radius |-> Radius, recency |-> Recency, years |-> TRUE, beds |-> TRUE]

-----------------------------------------------------------------------------
(* applyFilters. *)

Newest(S) == CHOOSE a \in {market[s].age : s \in S} : \A s \in S : a <= market[s].age

(* monthsBetween(sale_date, asOf): asOf is the newest sale of the pool. *)
Age(s) == market[s].age - Newest(pool)

Near(m, f) == m.hood \/ (m.dist # NoDist /\ m.dist <= f.radius)

Passes(s, f) ==
  LET m == market[s] IN
  /\ m.similar
  /\ Age(s) <= f.recency
  /\ Near(m, f)
  /\ f.beds => m.beds <= BedsTol
  /\ m.area <= AreaTol
  /\ f.years => m.years <= YearTol

Matches(f) == {s \in pool : Passes(s, f)}

Below(S, a)  == {s \in S : market[s].price < a}
UpTo(S, a)   == {s \in S : market[s].price <= a}

(* The i-th price of S, sorted. *)
Nth(S, i) ==
  CHOOSE a \in {market[s].price : s \in S} :
    Cardinality(Below(S, a)) < i /\ i <= Cardinality(UpTo(S, a))

(* Slip: the index runs over n instead of n - 1 places. *)
PercentileOffByOne(S, p) ==
  LET n  == Cardinality(S)
      i  == p * n
      lo == i \div 100
  IN IF S = {} THEN NoPrice
     ELSE IF lo + 2 > n THEN 100 * Nth(S, n)
     ELSE 100 * Nth(S, lo + 1) + (Nth(S, lo + 2) - Nth(S, lo + 1)) * (i % 100)

(* The linearly interpolated percentile of the prices of S, times 100. *)
Percentile(S, p) ==
  LET i  == p * (Cardinality(S) - 1)
      lo == i \div 100
  IN IF S = {} THEN NoPrice
     ELSE IF i % 100 = 0 THEN 100 * Nth(S, lo + 1)
     ELSE 100 * Nth(S, lo + 1) + (Nth(S, lo + 2) - Nth(S, lo + 1)) * (i % 100)

-----------------------------------------------------------------------------

Init ==
  /\ market \in [Sales -> Profiles]
  /\ area \in Areas
  /\ pool = {} /\ stage = "query" /\ fs = Base /\ matched = {} /\ result = NoResult
  /\ shown = {}

(* computeComps: the sales of the last PoolMonths in the neighborhood or   *)
(* within the ladder's largest radius.                                     *)
LoadPool ==
  /\ stage = "query"
  /\ pool' = {s \in Sales : /\ market[s].age <= PoolMonths
                            /\ Near(market[s], [Base EXCEPT !.radius = PoolDist])}
  /\ stage' = "pool"
  /\ UNCHANGED <<market, area, fs, matched, result, shown>>

Enough == Cardinality(matched) >= MinSample

(* A rung: the filter state g is evaluated and recorded on the ladder. *)
Rung(from, to, g) ==
  /\ stage = from
  /\ stage' = to /\ fs' = g /\ matched' = Matches(g)
  /\ UNCHANGED <<market, area, pool, result, shown>>

BaseRung == Rung("pool", "base", Base)

WidenRecency == ~ Enough /\ Rung("base", "recency", [fs EXCEPT !.recency = RecencyWide])

Doubled(r) == IF 2 * r < MaxRadius THEN 2 * r ELSE MaxRadius

WidenRadius ==
  /\ ~ Enough /\ fs.radius < MaxRadius
  /\ Rung("recency", "recency", [fs EXCEPT !.radius = Doubled(fs.radius)])

(* Slip: the year band is dropped although the sample is large enough. *)
DropYearBandAlways ==
  /\ Enough \/ fs.radius >= MaxRadius
  /\ Rung("recency", "years", [fs EXCEPT !.years = FALSE])

DropYearBand ==
  /\ ~ Enough /\ fs.radius >= MaxRadius
  /\ Rung("recency", "years", [fs EXCEPT !.years = FALSE])

DropBedsBand == ~ Enough /\ Rung("years", "beds", [fs EXCEPT !.beds = FALSE])

(* selectComps after the ladder.  computeComps loads no land areas: for a  *)
(* subject without livable area no sale has a metric.                      *)
Evaluate ==
  /\ \/ stage \in {"base", "recency", "years"} /\ Enough
     \/ stage = "beds"
  /\ LET Metric == {s \in matched : area > 0 /\ market[s].price # NoPrice}
         p5     == Percentile(Metric, 5)
         p95    == Percentile(Metric, 95)
         Kept   == {s \in Metric : 100 * market[s].price \in p5 .. p95}
         med    == Percentile(Kept, 50)
     IN result' = [kept |-> Kept, p5 |-> p5, p95 |-> p95, median |-> med,
                   insufficient |-> ~ Enough,
                   estimate |-> IF Enough /\ med # NoPrice THEN med * area ELSE NoPrice]
  /\ stage' = "done"
  /\ UNCHANGED <<market, area, pool, fs, matched, shown>>

-----------------------------------------------------------------------------
(* The page's card (DeepDive): a few of the kept sales. *)

Distance(s) == IF market[s].dist = NoDist THEN 0 ELSE market[s].dist

(* The query's order, and the order of distance, ties in the query's. *)
Listed(s, t) == market[s].age < market[t].age \/ (market[s].age = market[t].age /\ s < t)
Closer(s, t) == \/ Distance(s) < Distance(t)
                \/ Distance(s) = Distance(t) /\ Listed(s, t)

(* The first sale whose price is closest to the median "sets the number",  *)
(* and every sale of its parcel is marked as the median.                   *)
Off(s, m) == IF 100 * market[s].price > m THEN 100 * market[s].price - m
             ELSE m - 100 * market[s].price
MedianSale ==
  CHOOSE s \in result.kept : \A t \in result.kept \ {s} :
    \/ Off(s, result.median) < Off(t, result.median)
    \/ Off(s, result.median) = Off(t, result.median) /\ Listed(s, t)

(* Within five percent of a percentile. *)
NearTrim(s) == \E p \in {result.p5, result.p95} : 20 * Off(s, p) < p

Pinned == {s \in result.kept : Lot[s] = Lot[MedianSale] \/ NearTrim(s)}

(* The list the card is cut from: the pinned, then the rest, each nearest  *)
(* first.  A parcel is taken where it comes first.                         *)
Before(P, s, t) == IF s \in P THEN t \in P => Closer(s, t) ELSE t \notin P /\ Closer(s, t)
Firsts(P) ==
  {s \in result.kept : \A t \in result.kept : Lot[t] = Lot[s] => ~ Before(P, t, s)}

(* Slip: the list is cut before the repeat sales are dropped. *)
CurateCutFirst ==
  LET P == Pinned IN
  {s \in Firsts(P) : Cardinality({t \in result.kept : Before(P, t, s)}) < Cap}

(* curateComps: one sale of each parcel, as many as the card has room for. *)
Curate ==
  LET P == Pinned
      F == Firsts(P)
  IN {s \in F : Cardinality({t \in F : Before(P, t, s)}) < Cap}

ShowCard ==
  /\ stage = "done" /\ stage' = "shown"
  /\ shown' = IF result.kept = {} THEN {} ELSE Curate
  /\ UNCHANGED <<market, area, pool, fs, matched, result>>

Next ==
  \/ LoadPool \/ BaseRung \/ WidenRecency \/ WidenRadius
  \/ DropYearBand \/ DropBedsBand \/ Evaluate \/ ShowCard

Spec == Init /\ [][Next]_vars

-----------------------------------------------------------------------------
(* Properties *)

(* "We stop at the first rung that reaches the minimum sample": the comps  *)
(* are the matches of a filter state, and every strictly narrower filter   *)
(* state of the documented order (recency, then radius, then year band,    *)
(* then beds band) has fewer than the minimum.  The radii are the least set *)
(* that holds the first and, up to the largest, the double of each.        *)
Rings ==
  {r \in Radius .. MaxRadius : \A R \in SUBSET (Radius .. MaxRadius) :
     Radius \in R /\ (\A x \in R : Doubled(x) \in R) => r \in R}
Order(f) ==
  LET rank == IF f.recency = Recency THEN 0 ELSE 1 IN
  rank + f.radius + (IF f.years THEN 0 ELSE 1) + (IF f.beds THEN 0 ELSE 1)
RungStates ==
  {f \in [radius : Rings, recency : {Recency, RecencyWide}, years : BOOLEAN, beds : BOOLEAN] :
     /\ f.radius # Radius => f.recency = RecencyWide
     /\ ~ f.years => f.recency = RecencyWide /\ f.radius = MaxRadius
     /\ ~ f.beds => ~ f.years}
StopsAtFirstRung ==
  stage = "done" =>
    /\ fs \in RungStates /\ matched = Matches(fs)
    /\ \A f \in RungStates :
         Order(f) < Order(fs) => Cardinality(Matches(f)) < MinSample
    /\ result.insufficient <=> \A f \in RungStates : Cardinality(Matches(f)) < MinSample

(* An estimate needs the minimum sample, and is an order statistic: at     *)
(* least half of the kept sales are at or below the median and at least    *)
(* half at or above it.  The trim only drops prices beyond the kept ones,  *)
(* and of three priced sales it keeps one, so that a fully priced sample   *)
(* that was large enough always ends with an estimate.                     *)
EstimateSound ==
  LET Kept   == result.kept
      Priced == {s \in matched : area > 0 /\ market[s].price # NoPrice}
      price(s) == market[s].price
      AtMost(m)  == {s \in Kept : 100 * price(s) <= m}
      AtLeast(m) == {s \in Kept : 100 * price(s) >= m}
  IN stage = "done" =>
       /\ result.estimate # NoPrice =>
            Cardinality(matched) >= MinSample /\ result.estimate = result.median * area
       /\ Kept # {} =>
            /\ 2 * Cardinality(AtMost(result.median)) >= Cardinality(Kept)
            /\ 2 * Cardinality(AtLeast(result.median)) >= Cardinality(Kept)
       /\ \A s \in Priced \ Kept : \/ \A t \in Kept : price(t) < price(s)
                                  \/ \A t \in Kept : price(t) > price(s)
       /\ Cardinality(Priced) >= 3 => Kept # {}
       /\ Enough /\ Priced = matched => result.estimate # NoPrice

(* The card has one sale of each parcel, is as full as it can be, leaves   *)
(* out no pinned sale for one that is not, and of those shows the nearest. *)
CardIsCurated ==
  LET Lots(S) == {Lot[s] : s \in S}
      P       == Pinned
      Left    == {s \in result.kept : Lot[s] \notin Lots(shown)}
  IN stage = "shown" =>
       /\ shown \subseteq result.kept
       /\ \A s, t \in shown : Lot[s] = Lot[t] => s = t
       /\ Left # {} => Cardinality(shown) = Cap
       /\ \A s \in shown, t \in Left : s \notin P => t \notin P /\ ~ Closer(t, s)
=============================================================================
