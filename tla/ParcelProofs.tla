----------------------------- MODULE ParcelProofs -----------------------------
(***************************************************************************)
(* Proofs about the page of a parcel: where the ladder of filters stops,   *)
(* what the estimate is the median of, what the card keeps, how the two    *)
(* implementations of the score agree and what can raise it.               *)
(***************************************************************************)
EXTENDS MCParcel, Sequences, FiniteSets, FiniteSetTheorems, WellFoundedInduction, TLAPS

-----------------------------------------------------------------------------
(* Finite sets in a strict order *)

LEMMA SmallestExists ==
  ASSUME NEW S \in SUBSET Nat, S # {}
  PROVE  \E m \in S : \A x \in S : m <= x
<1>. DEFINE R == {p \in Nat \X Nat : p[1] < p[2]}
<1>1. R = OpToRel(<, Nat)
  BY DEF OpToRel
<1>2. IsWellFoundedOn(R, Nat)
  BY <1>1, NatLessThanWellFounded, Zenon
<1>3. PICK m \in S : \A x \in S : <<x, m>> \notin R
  <2>. HIDE DEF R
  <2>. QED BY <1>2, WFMin, Zenon
<1>4. \A x \in S : ~ (x < m)
  BY <1>3
<1>. QED BY <1>4

(* R orders F: x comes before y where <<x, y>> is in R. *)
Orders(R, F) ==
  /\ \A x \in F : <<x, x>> \notin R
  /\ \A x, y \in F : x # y => <<x, y>> \in R \/ <<y, x>> \in R
  /\ \A x, y, z \in F : <<x, y>> \in R /\ <<y, z>> \in R => <<x, z>> \in R

Prior(R, F, x) == {y \in F : <<y, x>> \in R}

LEMMA Counted ==
  ASSUME NEW F, IsFiniteSet(F), NEW G \in SUBSET F
  PROVE  IsFiniteSet(G) /\ Cardinality(G) \in Nat /\ Cardinality(G) <= Cardinality(F)
BY FS_Subset, FS_CardinalityType

(* What comes later has more before it, and all have fewer than there are. *)
LEMMA PriorGrows ==
  ASSUME NEW F, IsFiniteSet(F), NEW R, Orders(R, F), NEW x \in F
  PROVE  /\ Cardinality(Prior(R, F, x)) \in Nat
         /\ Cardinality(Prior(R, F, x)) < Cardinality(F)
         /\ \A y \in F : <<x, y>> \in R => Cardinality(Prior(R, F, x)) < Cardinality(Prior(R, F, y))
<1>1. ASSUME NEW G \in SUBSET F, NEW H \in SUBSET G, NEW z \in G \ H
      PROVE  Cardinality(H) < Cardinality(G)
  <2>1. IsFiniteSet(G) /\ Cardinality(G) \in Nat
    BY Counted
  <2>2. Cardinality(H) <= Cardinality(G) /\ Cardinality(G) # Cardinality(H) /\ Cardinality(H) \in Nat
    BY <2>1, FS_Subset, FS_CardinalityType
  <2>. QED BY <2>1, <2>2
<1>2. Prior(R, F, x) \in SUBSET F /\ x \in F \ Prior(R, F, x)
  BY DEF Prior, Orders
<1>3. Cardinality(Prior(R, F, x)) \in Nat
  BY <1>2, Counted
<1>4. ASSUME NEW y \in F, <<x, y>> \in R
      PROVE  Cardinality(Prior(R, F, x)) < Cardinality(Prior(R, F, y))
  <2>1. Prior(R, F, y) \in SUBSET F /\ Prior(R, F, x) \in SUBSET Prior(R, F, y)
    BY <1>4 DEF Prior, Orders
  <2>2. x \in Prior(R, F, y) \ Prior(R, F, x)
    BY <1>4 DEF Prior, Orders
  <2>. QED BY <1>1, <2>1, <2>2
<1>. QED BY <1>1, <1>2, <1>3, <1>4

LEMMA EarliestExists ==
  ASSUME NEW F, IsFiniteSet(F), NEW R, Orders(R, F), NEW S \in SUBSET F, S # {}
  PROVE  \E m \in S : \A x \in S : <<x, m>> \notin R
<1>. DEFINE K == {Cardinality(Prior(R, F, x)) : x \in S}
<1>1. K \in SUBSET Nat /\ K # {}
  BY PriorGrows
<1>2. PICK k \in K : \A l \in K : k <= l
  <2>. HIDE DEF K
  <2>. QED BY <1>1, SmallestExists
<1>3. PICK m \in S : k = Cardinality(Prior(R, F, m))
  BY <1>2
<1>4. ASSUME NEW x \in S, <<x, m>> \in R PROVE FALSE
  <2>1. Cardinality(Prior(R, F, x)) < Cardinality(Prior(R, F, m))
    BY <1>4, PriorGrows
  <2>2. Cardinality(Prior(R, F, m)) <= Cardinality(Prior(R, F, x))
    BY <1>2, <1>3
  <2>3. Cardinality(Prior(R, F, x)) \in Nat /\ Cardinality(Prior(R, F, m)) \in Nat
    BY PriorGrows
  <2>. QED BY <2>1, <2>2, <2>3
<1>. QED BY <1>4

(* Those with fewer than n before them are n, if there are as many. *)
LEMMA FirstAreMany ==
  ASSUME NEW F, IsFiniteSet(F), NEW R, Orders(R, F), NEW n \in Nat, n <= Cardinality(F)
  PROVE  Cardinality({x \in F : Cardinality(Prior(R, F, x)) < n}) = n
<1>. DEFINE rank == [x \in F |-> Cardinality(Prior(R, F, x))]
            N == Cardinality(F)
            G == {x \in F : rank[x] < n}
            low == [x \in G |-> rank[x]]
<1>1. N \in Nat
  BY FS_CardinalityType
<1>2. rank \in [F -> 0 .. N - 1]
  BY <1>1, PriorGrows
<1>3. \A x, y \in F : rank[x] = rank[y] => x = y
  <2>1. SUFFICES ASSUME NEW x \in F, NEW y \in F, x # y, <<x, y>> \in R PROVE rank[x] # rank[y]
    BY DEF Orders
  <2>2. Cardinality(Prior(R, F, x)) < Cardinality(Prior(R, F, y))
    BY <2>1, PriorGrows
  <2>3. Cardinality(Prior(R, F, x)) \in Nat /\ Cardinality(Prior(R, F, y)) \in Nat
    BY PriorGrows
  <2>4. rank[x] = Cardinality(Prior(R, F, x)) /\ rank[y] = Cardinality(Prior(R, F, y))
    OBVIOUS
  <2>. HIDE DEF rank
  <2>. QED BY <2>2, <2>3, <2>4
<1>4. IsFiniteSet(0 .. N - 1) /\ Cardinality(0 .. N - 1) = N
  <2>. HIDE DEF N
  <2>1. N - 1 \in Int /\ 0 \in Int
    BY <1>1
  <2>2. IsFiniteSet(0 .. N - 1) /\ Cardinality(0 .. N - 1) = IF 0 > N - 1 THEN 0 ELSE N - 1 - 0 + 1
    BY <2>1, FS_Interval
  <2>. QED BY <1>1, <2>2
<1>5. rank \in Surjection(F, 0 .. N - 1)
  <2>1. rank \in Injection(F, 0 .. N - 1)
    <3>. HIDE DEF rank
    <3>. QED BY <1>2, <1>3 DEF Injection, IsInjective
  <2>. HIDE DEF rank
  <2>. QED BY <1>4, <2>1, FS_Injection
<1>6. \A k \in 0 .. n - 1 : \E x \in G : low[x] = k
  <2>. SUFFICES ASSUME NEW k \in 0 .. n - 1 PROVE \E x \in F : rank[x] < n /\ rank[x] = k
    OBVIOUS
  <2>1. k \in 0 .. N - 1
    BY <1>1
  <2>2. PICK x \in F : rank[x] = k
    <3>. HIDE DEF rank
    <3>. QED BY <1>5, <2>1 DEF Surjection
  <2>. QED BY <2>2
<1>7. low \in [G -> 0 .. n - 1] /\ \A x, y \in G : low[x] = low[y] => x = y
  <2>. HIDE DEF rank
  <2>. QED BY <1>1, <1>2, <1>3
<1>8. low \in Injection(G, 0 .. n - 1) /\ low \in Surjection(G, 0 .. n - 1)
  <2>. HIDE DEF low, G
  <2>. QED BY <1>6, <1>7 DEF Injection, IsInjective, Surjection
<1>9. IsFiniteSet(0 .. n - 1) /\ Cardinality(0 .. n - 1) = n
  BY FS_Interval
<1>10. Cardinality(G) = n
  <2>. HIDE DEF low, G
  <2>. QED BY <1>8, <1>9, FS_Injection
<1>. QED BY <1>10

-----------------------------------------------------------------------------
(* The ladder *)

LEMMA CompsConstants ==
  /\ IsFiniteSet(Sales) /\ Sales \subseteq Nat /\ Areas \subseteq Nat
  /\ \A m \in Profiles : /\ m.age \in Nat /\ m.dist \in Nat \cup {NoDist}
                         /\ m.price \in Nat \cup {NoPrice}
  /\ NoDist \notin Nat /\ NoPrice \notin Nat
  /\ Radius \in Nat \ {0} /\ MaxRadius \in Nat /\ Radius <= MaxRadius
  /\ Recency \in Nat /\ RecencyWide \in Nat /\ Recency < RecencyWide
  /\ MinSample \in Nat /\ MinSample >= 3 /\ Cap \in Nat
BY ConstantsAssumption DEF Comps!ConstantsOK, Comps!IsFiniteSet, IsFiniteSet

LEMMA CompsCounts == ASSUME NEW S PROVE Comps!Cardinality(S) = Cardinality(S)
BY DEF Comps!Cardinality, Cardinality

(* Double is the next radius, wherever the ladder stands. *)
LEMMA NextRing ==
  ASSUME NEW p \in Comps!Rings
  PROVE  /\ p \in Radius .. MaxRadius /\ Radius \in Comps!Rings
         /\ Comps!Doubled(p) \in Comps!Rings
         /\ \A r \in Comps!Rings : r <= p \/ Comps!Doubled(p) <= r
<1>. DEFINE All == Radius .. MaxRadius
            D(x) == Comps!Doubled(x)
            Closed(R) == Radius \in R /\ \A x \in R : D(x) \in R
<1>1. \A x \in All : D(x) \in All /\ x <= D(x)
  BY CompsConstants DEF Comps!Doubled
<1>2. \A x, y \in All : x <= y => D(x) <= D(y)
  BY CompsConstants DEF Comps!Doubled
<1>3. Comps!Rings = {r \in All : \A R \in SUBSET All : Closed(R) => r \in R}
  BY DEF Comps!Rings
<1>. HIDE DEF D
<1>4. Comps!Rings \in SUBSET All /\ Closed(Comps!Rings)
  <2>1. Radius \in All
    BY CompsConstants
  <2>. QED BY <1>1, <1>3, <2>1
<1>5. \A x \in All : x \in Int
  BY CompsConstants
<1>. DEFINE Next_(q) == \A r \in Comps!Rings : r <= q \/ D(q) <= r
            G == {q \in Comps!Rings : Next_(q)}
<1>. HIDE DEF All
<1>6. Radius \in G
  <2>. DEFINE R == {Radius} \cup {x \in All : D(Radius) <= x}
  <2>1. R \in SUBSET All /\ Closed(R)
    <3>1. D(Radius) \in All /\ D(Radius) <= D(Radius)
      BY <1>1, <1>4, <1>5
    <3>2. ASSUME NEW x \in All, D(Radius) <= x PROVE D(x) \in All /\ D(Radius) <= D(x)
      <4>. D(x) \in All /\ x <= D(x) /\ D(Radius) \in Int /\ x \in Int /\ D(x) \in Int
        BY <1>1, <1>5, <3>1
      <4>. QED BY <3>2
    <3>. QED BY <1>4, <3>1, <3>2
  <2>2. \A r \in Comps!Rings : r \in R
    BY <1>3, <2>1
  <2>. QED BY <1>4, <1>5, <2>2
<1>7. ASSUME NEW q \in G PROVE D(q) \in G
  <2>. DEFINE u == D(q)
              R == {x \in Comps!Rings : x <= q} \cup {u} \cup {x \in All : D(u) <= x}
  <2>1. q \in All /\ u \in Comps!Rings /\ u \in All /\ D(u) \in All /\ u <= D(u)
    BY <1>1, <1>4
  <2>2. R \in SUBSET All
    BY <1>4, <2>1
  <2>3. Radius \in R
    <3>1. Radius \in Comps!Rings /\ Radius <= q
      BY <1>4, <2>1, CompsConstants DEF All
    <3>. QED BY <3>1
  <2>4. ASSUME NEW x \in R PROVE D(x) \in R
    <3>. HIDE DEF u
    <3>1. CASE x \in Comps!Rings /\ x <= q
      <4>1. D(x) \in Comps!Rings /\ D(x) <= u
        BY <1>2, <1>4, <2>1, <3>1 DEF u
      <4>2. D(x) <= q \/ u <= D(x)
        BY <4>1 DEF u
      <4>3. D(x) \in Int /\ u \in Int
        BY <1>4, <1>5, <2>1, <4>1
      <4>. QED BY <4>1, <4>2, <4>3
    <3>2. CASE x = u
      <4>1. D(u) \in All /\ D(u) <= D(u)
        BY <1>5, <2>1
      <4>. QED BY <3>2, <4>1
    <3>3. CASE x \in All /\ D(u) <= x
      <4>. D(x) \in All /\ x <= D(x) /\ D(u) \in Int /\ x \in Int /\ D(x) \in Int
        BY <1>1, <1>5, <2>1, <3>3
      <4>. QED BY <3>3
    <3>. QED BY <2>4, <3>1, <3>2, <3>3
  <2>5. \A r \in Comps!Rings : r \in R
    <3>. HIDE DEF R, u
    <3>. QED BY <1>3, <2>2, <2>3, <2>4
  <2>6. ASSUME NEW r \in Comps!Rings PROVE r <= u \/ D(u) <= r
    <3>1. r \in Int /\ q \in Int /\ u \in Int /\ q <= u /\ u <= u
      BY <1>1, <1>4, <1>5, <2>1
    <3>. HIDE DEF u
    <3>2. r <= q \/ r = u \/ D(u) <= r
      BY <2>5
    <3>. QED BY <3>1, <3>2
  <2>. QED BY <2>1, <2>6
<1>8. p \in G
  <2>1. G \in SUBSET All
    BY <1>4
  <2>. HIDE DEF G
  <2>. QED BY <1>3, <1>6, <1>7, <2>1
<1>. QED BY <1>4, <1>8 DEF D, All

LEMMA RadiusIsRing == Radius \in Comps!Rings
BY CompsConstants DEF Comps!Rings

(* What the filters of the ladder are, and how they are ordered. *)
LEMMA RungFact ==
  /\ Comps!Base \in Comps!RungStates /\ Comps!Base.recency = Recency
  /\ \A f \in Comps!RungStates :
       /\ f.radius \in Comps!Rings /\ f.radius \in Int /\ Radius <= f.radius /\ f.radius <= MaxRadius
       /\ f.recency \in {Recency, RecencyWide} /\ f.years \in BOOLEAN /\ f.beds \in BOOLEAN
       /\ f.radius # Radius => f.recency = RecencyWide
       /\ ~ f.years => f.recency = RecencyWide /\ f.radius = MaxRadius
       /\ ~ f.beds => ~ f.years
       /\ f.years => Comps!Order(f) = f.radius + IF f.recency = Recency THEN 0 ELSE 1
       /\ ~ f.years => Comps!Order(f) = MaxRadius + IF f.beds THEN 2 ELSE 3
  /\ \A f, g \in Comps!RungStates :
       f.radius = g.radius /\ f.recency = g.recency /\ f.years = g.years /\ f.beds = g.beds
         => f = g
<1>1. \A r \in Comps!Rings : r \in Int /\ Radius <= r /\ r <= MaxRadius
  BY CompsConstants DEF Comps!Rings
<1>2. Comps!Base \in Comps!RungStates /\ Comps!Base.recency = Recency
  BY RadiusIsRing DEF Comps!Base, Comps!RungStates
<1>3. ASSUME NEW f \in Comps!RungStates
      PROVE  /\ f.radius \in Comps!Rings /\ f.recency \in {Recency, RecencyWide}
             /\ f.years \in BOOLEAN /\ f.beds \in BOOLEAN
             /\ f.radius # Radius => f.recency = RecencyWide
             /\ ~ f.years => f.recency = RecencyWide /\ f.radius = MaxRadius
             /\ ~ f.beds => ~ f.years
  BY DEF Comps!RungStates
<1>4. ASSUME NEW f \in Comps!RungStates
      PROVE  /\ f.years => Comps!Order(f) = f.radius + IF f.recency = Recency THEN 0 ELSE 1
             /\ ~ f.years => Comps!Order(f) = MaxRadius + IF f.beds THEN 2 ELSE 3
  BY <1>1, <1>3, CompsConstants DEF Comps!Order
<1>5. ASSUME NEW f \in Comps!RungStates, NEW g \in Comps!RungStates,
             f.radius = g.radius, f.recency = g.recency, f.years = g.years, f.beds = g.beds
      PROVE  f = g
  BY <1>5 DEF Comps!RungStates
<1>. QED BY <1>1, <1>2, <1>3, <1>4, <1>5

LEMMA MatchesCount ==
  ASSUME pool \subseteq Sales, NEW f
  PROVE  /\ Comps!Matches(f) \subseteq Sales /\ IsFiniteSet(Comps!Matches(f))
         /\ Cardinality(Comps!Matches(f)) \in Nat
<1>1. Comps!Matches(f) \in SUBSET Sales
  BY DEF Comps!Matches
<1>. QED BY <1>1, Counted, CompsConstants

Few(f)   == Cardinality(Comps!Matches(f)) < MinSample
Tried(f) == \A g \in Comps!RungStates : Comps!Order(g) < Comps!Order(f) => Few(g)
Rungs    == {"base", "recency", "years", "beds"}

LadderInv ==
  /\ pool \subseteq Sales
  /\ stage \in {"query", "pool", "done", "shown"} \cup Rungs
  /\ stage \in Rungs => fs \in Comps!RungStates /\ matched = Comps!Matches(fs) /\ Tried(fs)
  /\ stage = "base" => fs.recency = Recency
  /\ stage = "recency" => fs.recency = RecencyWide /\ fs.years
  /\ stage = "years" => ~ fs.years /\ fs.beds
  /\ stage = "beds" => ~ fs.beds
  /\ StopsAtFirstRung

LEMMA MatchesStay ==
  ASSUME UNCHANGED <<market, pool>>
  PROVE  /\ \A f : Comps!Matches(f)' = Comps!Matches(f) /\ Few(f)' = Few(f)
         /\ \A f : Tried(f)' = Tried(f)
<1>1. ASSUME NEW f PROVE Comps!Matches(f)' = Comps!Matches(f)
  BY DEF Comps!Matches, Comps!Passes, Comps!Age, Comps!Newest, Comps!Near
<1>2. ASSUME NEW f PROVE Few(f)' = Few(f)
  BY <1>1 DEF Few
<1>. QED BY <1>1, <1>2 DEF Tried

LEMMA LadderStep ==
  ASSUME LadderInv, Comps!Next
  PROVE  LadderInv'
<1>1. CASE Comps!LoadPool
  BY <1>1 DEF Comps!LoadPool, LadderInv, Rungs, StopsAtFirstRung, Comps!StopsAtFirstRung
<1>2. ASSUME NEW from, NEW to \in Rungs, NEW f \in Comps!RungStates, Comps!Rung(from, to, f),
             Tried(f), to = "base" => f.recency = Recency,
             to = "recency" => f.recency = RecencyWide /\ f.years,
             to = "years" => ~ f.years /\ f.beds, to = "beds" => ~ f.beds
      PROVE  LadderInv'
  <2>1. /\ stage' = to /\ fs' = f /\ matched' = Comps!Matches(f)
        /\ UNCHANGED <<market, pool>>
    BY <1>2 DEF Comps!Rung
  <2>2. Tried(f)' /\ matched' = Comps!Matches(f)'
    BY <1>2, <2>1, MatchesStay
  <2>3. Tried(fs)' /\ (matched = Comps!Matches(fs))'
    BY <2>1, <2>2 DEF Tried, Few, Comps!Matches, Comps!Passes, Comps!Age, Comps!Newest, Comps!Near
  <2>. QED BY <1>2, <2>1, <2>3 DEF LadderInv, Rungs, StopsAtFirstRung, Comps!StopsAtFirstRung
<1>3. CASE Comps!BaseRung
  <2>1. Tried(Comps!Base)
    BY RungFact, CompsConstants DEF Tried
  <2>. QED BY <1>2, <1>3, <2>1, RungFact DEF Comps!BaseRung, Rungs
<1>4. ASSUME stage \in Rungs, ~ Comps!Enough PROVE Few(fs) /\ Tried(fs) /\ fs \in Comps!RungStates
  BY <1>4, CompsCounts, MatchesCount, CompsConstants DEF LadderInv, Few, Comps!Enough
(* The next rung is the next in the order. *)
<1>5. ASSUME stage \in Rungs, ~ Comps!Enough, NEW g \in Comps!RungStates,
             \A h \in Comps!RungStates : Comps!Order(h) < Comps!Order(g) =>
               h = fs \/ Comps!Order(h) < Comps!Order(fs)
      PROVE  Tried(g)
  BY <1>4, <1>5 DEF Tried
<1>6. CASE Comps!WidenRecency
  <2>. DEFINE g == [fs EXCEPT !.recency = RecencyWide]
  <2>1. /\ stage = "base" /\ ~ Comps!Enough /\ fs \in Comps!RungStates /\ fs.recency = Recency
        /\ Comps!Rung("base", "recency", g)
    BY <1>6 DEF Comps!WidenRecency, Comps!Rung, LadderInv, Rungs
  <2>2. fs.radius = Radius /\ fs.years /\ fs.beds
    BY <2>1, RungFact, CompsConstants
  <2>3. /\ g \in Comps!RungStates /\ g.radius = Radius /\ g.recency = RecencyWide
        /\ g.years /\ g.beds
    BY <2>1, <2>2 DEF Comps!RungStates
  <2>. HIDE DEF g
  <2>4. Tried(g)
    <3>1. Comps!Order(g) = Radius + 1 /\ Comps!Order(fs) = Radius
      BY <2>1, <2>2, <2>3, RungFact, CompsConstants
    <3>2. ASSUME NEW h \in Comps!RungStates, Comps!Order(h) < Radius + 1 PROVE h = fs
      <4>1. h.years /\ h.beds /\ h.recency = Recency /\ h.radius = Radius
        BY <3>2, RungFact, CompsConstants
      <4>. QED BY <2>1, <2>2, <4>1, RungFact
    <3>. QED BY <1>5, <2>1, <2>3, <3>1, <3>2 DEF Rungs
  <2>. QED BY <1>2, <2>1, <2>3, <2>4 DEF Rungs
<1>7. CASE Comps!WidenRadius
  <2>. DEFINE g == [fs EXCEPT !.radius = Comps!Doubled(fs.radius)]
  <2>1. /\ stage = "recency" /\ ~ Comps!Enough /\ fs.radius < MaxRadius
        /\ fs \in Comps!RungStates /\ fs.recency = RecencyWide /\ fs.years
        /\ Comps!Rung("recency", "recency", g)
    BY <1>7 DEF Comps!WidenRadius, Comps!Rung, LadderInv, Rungs
  <2>2. fs.beds /\ fs.radius \in Comps!Rings
    BY <2>1, RungFact
  <2>3. /\ Comps!Doubled(fs.radius) \in Comps!Rings
        /\ \A r \in Comps!Rings : r <= fs.radius \/ Comps!Doubled(fs.radius) <= r
    BY <2>2, NextRing
  <2>4. /\ g \in Comps!RungStates /\ g.radius = Comps!Doubled(fs.radius)
        /\ g.recency = RecencyWide /\ g.years /\ g.beds
    BY <2>1, <2>2, <2>3 DEF Comps!RungStates
  <2>. HIDE DEF g
  <2>5. Tried(g)
    <3>1. /\ Comps!Order(g) = g.radius + 1 /\ Comps!Order(fs) = fs.radius + 1
          /\ g.radius \in Int /\ fs.radius \in Int
      BY <2>1, <2>2, <2>4, RungFact, CompsConstants
    <3>2. ASSUME NEW h \in Comps!RungStates, Comps!Order(h) < g.radius + 1
          PROVE  h = fs \/ Comps!Order(h) < fs.radius + 1
      <4>1. h.years /\ h.beds
        BY <2>4, <3>1, <3>2, RungFact, CompsConstants
      <4>2. CASE h.recency = Recency
        <5>1. Comps!Order(h) = Radius
          BY <4>1, <4>2, RungFact, CompsConstants
        <5>. QED BY <2>1, <3>1, <5>1, RungFact, CompsConstants
      <4>3. CASE h.recency = RecencyWide
        <5>1. Comps!Order(h) = h.radius + 1 /\ h.radius \in Int /\ h.radius \in Comps!Rings
          BY <4>1, <4>3, RungFact, CompsConstants
        <5>2. h.radius <= fs.radius
          BY <2>3, <2>4, <3>1, <3>2, <5>1
        <5>3. CASE h.radius = fs.radius
          BY <2>1, <2>2, <4>1, <4>3, <5>3, RungFact
        <5>. QED BY <3>1, <5>1, <5>2, <5>3
      <4>. QED BY <4>2, <4>3, RungFact
    <3>. QED BY <1>5, <2>1, <2>4, <3>1, <3>2 DEF Rungs
  <2>. QED BY <1>2, <2>1, <2>4, <2>5 DEF Rungs
<1>8. CASE Comps!DropYearBand
  <2>. DEFINE g == [fs EXCEPT !.years = FALSE]
  <2>1. /\ stage = "recency" /\ ~ Comps!Enough /\ fs.radius >= MaxRadius
        /\ fs \in Comps!RungStates /\ fs.recency = RecencyWide /\ fs.years
        /\ Comps!Rung("recency", "years", g)
    BY <1>8 DEF Comps!DropYearBand, Comps!Rung, LadderInv, Rungs
  <2>2. fs.beds /\ fs.radius = MaxRadius /\ fs.radius \in Comps!Rings
    BY <2>1, RungFact, CompsConstants
  <2>3. /\ g \in Comps!RungStates /\ ~ g.years /\ g.beds
    BY <2>1, <2>2 DEF Comps!RungStates
  <2>. HIDE DEF g
  <2>4. Tried(g)
    <3>1. Comps!Order(g) = MaxRadius + 2 /\ Comps!Order(fs) = MaxRadius + 1
      BY <2>1, <2>2, <2>3, RungFact, CompsConstants
    <3>2. ASSUME NEW h \in Comps!RungStates, Comps!Order(h) < MaxRadius + 2
          PROVE  h = fs \/ Comps!Order(h) < MaxRadius + 1
      <4>1. h.years /\ h.beds
        BY <3>2, RungFact, CompsConstants
      <4>2. CASE h.recency = Recency
        BY <4>1, <4>2, RungFact, CompsConstants
      <4>3. CASE h.recency = RecencyWide
        <5>1. Comps!Order(h) = h.radius + 1 /\ h.radius \in Int /\ h.radius <= MaxRadius
          BY <4>1, <4>3, RungFact, CompsConstants
        <5>2. CASE h.radius = MaxRadius
          BY <2>1, <2>2, <4>1, <4>3, <5>2, RungFact
        <5>. QED BY <5>1, <5>2, CompsConstants
      <4>. QED BY <4>2, <4>3, RungFact
    <3>. QED BY <1>5, <2>1, <2>3, <3>1, <3>2 DEF Rungs
  <2>. QED BY <1>2, <2>1, <2>3, <2>4 DEF Rungs
<1>9. CASE Comps!DropBedsBand
  <2>. DEFINE g == [fs EXCEPT !.beds = FALSE]
  <2>1. /\ stage = "years" /\ ~ Comps!Enough /\ fs \in Comps!RungStates
        /\ ~ fs.years /\ fs.beds /\ Comps!Rung("years", "beds", g)
    BY <1>9 DEF Comps!DropBedsBand, Comps!Rung, LadderInv, Rungs
  <2>2. g \in Comps!RungStates /\ ~ g.years /\ ~ g.beds
    BY <2>1 DEF Comps!RungStates
  <2>. HIDE DEF g
  <2>3. Tried(g)
    <3>1. Comps!Order(g) = MaxRadius + 3 /\ Comps!Order(fs) = MaxRadius + 2
      BY <2>1, <2>2, RungFact
    <3>2. ASSUME NEW h \in Comps!RungStates, Comps!Order(h) < MaxRadius + 3
          PROVE  h = fs \/ Comps!Order(h) < MaxRadius + 2
      <4>1. CASE h.years
        BY <4>1, RungFact, CompsConstants
      <4>2. CASE ~ h.years
        <5>1. h.beds
          BY <3>2, <4>2, RungFact, CompsConstants
        <5>. QED BY <2>1, <4>2, <5>1, RungFact
      <4>. QED BY <4>1, <4>2
    <3>. QED BY <1>5, <2>1, <2>2, <3>1, <3>2 DEF Rungs
  <2>. QED BY <1>2, <2>1, <2>2, <2>3 DEF Rungs
<1>10. CASE Comps!Evaluate
  <2>1. stage \in Rungs /\ fs \in Comps!RungStates /\ matched = Comps!Matches(fs) /\ Tried(fs)
    BY <1>10 DEF Comps!Evaluate, LadderInv, Rungs
  <2>2. result'.insufficient <=> ~ Comps!Enough
    BY <1>10 DEF Comps!Evaluate
  <2>3. ~ Comps!Enough <=> \A f \in Comps!RungStates : Few(f)
    <3>1. CASE Comps!Enough
      BY <2>1, <3>1, CompsCounts, MatchesCount, CompsConstants DEF Few, Comps!Enough, LadderInv
    <3>2. CASE ~ Comps!Enough
      <4>1. stage = "beds" /\ ~ fs.beds /\ ~ fs.years /\ Few(fs)
        BY <1>4, <1>10, <2>1, <3>2, RungFact DEF Comps!Evaluate, LadderInv
      <4>2. ASSUME NEW h \in Comps!RungStates PROVE h = fs \/ Comps!Order(h) < Comps!Order(fs)
        <5>1. CASE h.years
          BY <2>1, <4>1, <5>1, RungFact, CompsConstants
        <5>2. CASE ~ h.years /\ h.beds
          BY <2>1, <4>1, <5>2, RungFact, CompsConstants
        <5>3. CASE ~ h.years /\ ~ h.beds
          BY <2>1, <4>1, <5>3, RungFact
        <5>. QED BY <5>1, <5>2, <5>3
      <4>. QED BY <2>1, <3>2, <4>1, <4>2 DEF Tried
    <3>. QED BY <3>1, <3>2
  <2>4. /\ stage' = "done" /\ fs' = fs /\ matched' = matched /\ UNCHANGED <<market, pool>>
    BY <1>10 DEF Comps!Evaluate
  <2>5. (matched = Comps!Matches(fs))'
    BY <2>1, <2>4 DEF Comps!Matches, Comps!Passes, Comps!Age, Comps!Newest, Comps!Near
  <2>6. \A f : (Comps!Cardinality(Comps!Matches(f)) < MinSample)' <=> Few(f)
    BY <2>4, CompsCounts, MatchesStay DEF Few
  <2>7. Comps!StopsAtFirstRung'
    BY <2>1, <2>2, <2>3, <2>4, <2>5, <2>6 DEF Comps!StopsAtFirstRung, Tried
  <2>. QED BY <2>4, <2>7 DEF LadderInv, Rungs, StopsAtFirstRung
<1>11. CASE Comps!ShowCard
  BY <1>11 DEF Comps!ShowCard, LadderInv, Rungs, StopsAtFirstRung, Comps!StopsAtFirstRung
<1>. QED BY <1>1, <1>3, <1>6, <1>7, <1>8, <1>9, <1>10, <1>11 DEF Comps!Next

-----------------------------------------------------------------------------
(* The card *)

CompsTyped == market \in [Sales -> Profiles] /\ area \in Areas /\ result.kept \subseteq Sales

LEMMA CloserOrders ==
  ASSUME CompsTyped
  PROVE  /\ \A s \in Sales : ~ Comps!Closer(s, s)
         /\ \A s, t \in Sales : s # t => Comps!Closer(s, t) \/ Comps!Closer(t, s)
         /\ \A s, t, u \in Sales : Comps!Closer(s, t) /\ Comps!Closer(t, u) => Comps!Closer(s, u)
<1>1. \A s \in Sales : s \in Int /\ Comps!Distance(s) \in Int /\ market[s].age \in Int
  <2>. TAKE s \in Sales
  <2>1. market[s] \in Profiles /\ s \in Int
    BY CompsConstants DEF CompsTyped
  <2>2. market[s].age \in Nat /\ (market[s].dist \in Nat \/ market[s].dist = NoDist)
    BY <2>1, CompsConstants
  <2>. QED BY <2>1, <2>2 DEF Comps!Distance
<1>. QED BY <1>1 DEF Comps!Closer, Comps!Listed

(* The card drops repeats, is full where something is left, and leaves out *)
(* only what comes later in its list.                                      *)
LEMMA CardFact ==
  ASSUME CompsTyped, NEW P, P = Comps!Pinned
  PROVE  LET kept == result.kept
             card == Comps!Curate
             left == {s \in kept : \A t \in card : Lot[t] # Lot[s]}
         IN /\ card \subseteq kept
            /\ \A s, t \in card : Lot[s] = Lot[t] => s = t
            /\ left # {} => Cardinality(card) = Cap
            /\ \A s \in card, t \in left : s \notin P => t \notin P /\ ~ Comps!Closer(t, s)
<1>. DEFINE kept == result.kept
            card == Comps!Curate
            left == {s \in kept : \A t \in card : Lot[t] # Lot[s]}
            F == Comps!Firsts(P)
            R == {p \in kept \X kept : Comps!Before(P, p[1], p[2])}
<1>1. /\ IsFiniteSet(kept) /\ kept \subseteq Sales /\ F \in SUBSET kept
      /\ \A s, t \in kept : <<s, t>> \in R <=> Comps!Before(P, s, t)
  BY CompsConstants, FS_Subset DEF CompsTyped, Comps!Firsts
<1>2. Orders(R, kept)
  <2>. HIDE DEF R
  <2>1. \A s \in kept : ~ Comps!Before(P, s, s)
    BY <1>1, CloserOrders DEF Comps!Before
  <2>2. \A s, t \in kept : s # t => Comps!Before(P, s, t) \/ Comps!Before(P, t, s)
    BY <1>1, CloserOrders DEF Comps!Before
  <2>3. \A s, t, u \in kept :
          Comps!Before(P, s, t) /\ Comps!Before(P, t, u) => Comps!Before(P, s, u)
    BY <1>1, CloserOrders DEF Comps!Before
  <2>. QED BY <1>1, <2>1, <2>2, <2>3 DEF Orders
<1>3. Orders(R, F) /\ IsFiniteSet(F) /\ Cardinality(F) \in Nat
  BY <1>1, <1>2, Counted DEF Orders
<1>4. card = {s \in F : Cardinality(Prior(R, F, s)) < Cap}
  <2>1. \A s \in F : {t \in F : Comps!Before(P, t, s)} = Prior(R, F, s)
    BY <1>1 DEF Prior
  <2>. HIDE DEF R
  <2>. QED BY <2>1, CompsCounts DEF Comps!Curate
<1>. HIDE DEF R
(* What is left has an earlier sale of its parcel that did not fit.        *)
<1>5. ASSUME NEW s \in left
      PROVE  \E f \in F \ card : f = s \/ Comps!Before(P, f, s)
  <2>. DEFINE S == {t \in kept : Lot[t] = Lot[s]}
  <2>1. PICK f \in S : \A t \in S : <<t, f>> \notin R
    <3>1. S \in SUBSET kept /\ S # {}
      OBVIOUS
    <3>. HIDE DEF S
    <3>. QED BY <1>1, <1>2, <3>1, EarliestExists
  <2>2. f \in F
    BY <1>1, <2>1 DEF Comps!Firsts
  <2>3. f \notin card
    BY <2>1
  <2>4. f = s \/ <<f, s>> \in R
    BY <1>2, <2>1 DEF Orders
  <2>. QED BY <1>1, <2>2, <2>3, <2>4
<1>6. ASSUME NEW s \in card, NEW t \in card, Lot[s] = Lot[t] PROVE s = t
  BY <1>1, <1>2, <1>4, <1>6 DEF Comps!Firsts, Orders
<1>7. ASSUME left # {} PROVE Cardinality(card) = Cap
  <2>1. PICK f \in F : ~ (Cardinality(Prior(R, F, f)) < Cap)
    BY <1>4, <1>5, <1>7
  <2>2. Cap <= Cardinality(F)
    <3>1. Cardinality(Prior(R, F, f)) \in Nat /\ Cardinality(Prior(R, F, f)) < Cardinality(F)
      BY <1>3, PriorGrows
    <3>. QED BY <1>3, <2>1, <3>1, CompsConstants
  <2>. QED BY <1>3, <1>4, <2>2, FirstAreMany, CompsConstants
<1>8. ASSUME NEW s \in card, NEW t \in left, s \notin P
      PROVE  t \notin P /\ ~ Comps!Closer(t, s)
  <2>1. PICK f \in F \ card : f = t \/ Comps!Before(P, f, t)
    BY <1>5
  <2>2. Cardinality(Prior(R, F, s)) < Cap /\ ~ (Cardinality(Prior(R, F, f)) < Cap) /\ s \in F
    BY <1>4
  <2>3. <<f, s>> \notin R
    <3>1. /\ Cardinality(Prior(R, F, f)) \in Nat /\ Cardinality(Prior(R, F, s)) \in Nat
          /\ <<f, s>> \in R => Cardinality(Prior(R, F, f)) < Cardinality(Prior(R, F, s))
      BY <1>3, <2>2, PriorGrows
    <3>. QED BY <2>2, <3>1, CompsConstants
  <2>4. Comps!Before(P, s, f)
    BY <1>1, <1>2, <2>1, <2>2, <2>3 DEF Orders
  <2>. QED BY <1>1, <1>8, <2>1, <2>2, <2>4, CloserOrders DEF Comps!Before
<1>. QED BY <1>1, <1>4, <1>6, <1>7, <1>8

-----------------------------------------------------------------------------
(* The estimate *)

Price(s)  == market[s].price
Priced(S) == S \subseteq Sales /\ \A s \in S : Price(s) \in Nat

LEMMA PricedSets ==
  ASSUME NEW S, Priced(S), NEW a \in Nat
  PROVE  /\ IsFiniteSet(S) /\ Cardinality(S) \in Nat
         /\ Priced(Comps!Below(S, a)) /\ Priced(Comps!UpTo(S, a))
         /\ IsFiniteSet(Comps!Below(S, a)) /\ IsFiniteSet(Comps!UpTo(S, a))
         /\ Cardinality(Comps!Below(S, a)) \in Nat /\ Cardinality(Comps!UpTo(S, a)) \in Nat
<1>1. IsFiniteSet(S) /\ Cardinality(S) \in Nat
  BY CompsConstants, Counted DEF Priced
<1>2. Comps!Below(S, a) \in SUBSET S /\ Comps!UpTo(S, a) \in SUBSET S
  BY DEF Comps!Below, Comps!UpTo
<1>. QED BY <1>1, <1>2, Counted DEF Priced

(* A set of priced sales has a dearest one. *)
LEMMA DearestExists ==
  ASSUME NEW S, Priced(S), S # {}
  PROVE  \E m \in S : \A s \in S : Price(s) <= Price(m)
<1>. DEFINE Above(s) == {t \in S : Price(t) > Price(s)}
            K == {Cardinality(Above(s)) : s \in S}
<1>1. IsFiniteSet(S)
  BY CompsConstants, Counted DEF Priced
<1>2. \A s \in S : Above(s) \in SUBSET S /\ IsFiniteSet(Above(s)) /\ Cardinality(Above(s)) \in Nat
  BY <1>1, Counted
<1>3. PICK k \in K : \A l \in K : k <= l
  <2>1. K \in SUBSET Nat /\ K # {}
    BY <1>2
  <2>. HIDE DEF K
  <2>. QED BY <2>1, SmallestExists
<1>4. PICK m \in S : k = Cardinality(Above(m))
  BY <1>3
<1>5. ASSUME NEW s \in S, ~ (Price(s) <= Price(m)) PROVE FALSE
  <2>1. Price(s) \in Nat /\ Price(m) \in Nat /\ \A t \in S : Price(t) \in Nat
    BY DEF Priced
  <2>2. s \in Above(m) /\ s \notin Above(s) /\ Above(s) \in SUBSET Above(m)
    BY <1>5, <2>1
  <2>3. Cardinality(Above(s)) <= Cardinality(Above(m)) /\ Cardinality(Above(s)) # Cardinality(Above(m))
    <3>1. IsFiniteSet(Above(m))
      BY <1>2
    <3>. HIDE DEF Above
    <3>. QED BY <2>2, <3>1, FS_Subset
  <2>4. Cardinality(Above(m)) <= Cardinality(Above(s))
    BY <1>3, <1>4
  <2>5. Cardinality(Above(m)) \in Nat /\ Cardinality(Above(s)) \in Nat
    BY <1>2
  <2>. HIDE DEF Above
  <2>. QED BY <2>3, <2>4, <2>5
<1>. QED BY <1>5

(* The i-th price: fewer than i sales are cheaper, i are not dearer. *)
LEMMA NthFact ==
  ASSUME NEW S, Priced(S), NEW i \in 1 .. Cardinality(S)
  PROVE  /\ Comps!Nth(S, i) \in Nat /\ \E s \in S : Comps!Nth(S, i) = Price(s)
         /\ Cardinality(Comps!Below(S, Comps!Nth(S, i))) < i
         /\ i <= Cardinality(Comps!UpTo(S, Comps!Nth(S, i)))
<1>. DEFINE All == {market[s].price : s \in S}
            A == {a \in All : i <= Cardinality(Comps!UpTo(S, a))}
            Is(a) == Cardinality(Comps!Below(S, a)) < i /\ i <= Cardinality(Comps!UpTo(S, a))
<1>1. IsFiniteSet(S) /\ Cardinality(S) \in Nat /\ All \subseteq Nat /\ S # {}
  <2>1. IsFiniteSet(S) /\ Cardinality(S) \in Nat
    BY PricedSets
  <2>2. S # {}
    BY <2>1, FS_EmptySet
  <2>. QED BY <2>1, <2>2 DEF Priced, Price
<1>2. A # {}
  <2>1. PICK m \in S : \A s \in S : Price(s) <= Price(m)
    BY <1>1, DearestExists
  <2>2. Comps!UpTo(S, Price(m)) = S
    BY <2>1 DEF Comps!UpTo, Price
  <2>3. Price(m) \in A
    BY <2>2 DEF Price
  <2>. QED BY <2>3
<1>3. PICK a \in A : \A b \in A : a <= b
  <2>1. A \in SUBSET Nat
    BY <1>1
  <2>. HIDE DEF A
  <2>. QED BY <1>2, <2>1, SmallestExists
<1>4. a \in All /\ a \in Nat /\ i <= Cardinality(Comps!UpTo(S, a))
  BY <1>1
<1>5. Cardinality(Comps!Below(S, a)) < i
  <2>. DEFINE B == Comps!Below(S, a)
  <2>1. Priced(B) /\ IsFiniteSet(B) /\ Cardinality(B) \in Nat
    BY <1>4, PricedSets, CompsConstants, Counted DEF Priced
  <2>. SUFFICES ASSUME i <= Cardinality(B) PROVE FALSE
    BY <2>1
  <2>2. B # {}
    BY <2>1, FS_EmptySet
  <2>3. PICK m \in B : \A s \in B : Price(s) <= Price(m)
    <3>. HIDE DEF B
    <3>. QED BY <2>1, <2>2, DearestExists
  <2>4. m \in S /\ Price(m) < a /\ Price(m) \in Nat
    BY <2>3 DEF Comps!Below, Price, Priced
  <2>5. B \in SUBSET Comps!UpTo(S, Price(m))
    BY <2>3 DEF Comps!Below, Comps!UpTo, Price
  <2>6. i <= Cardinality(Comps!UpTo(S, Price(m)))
    <3>1. /\ IsFiniteSet(Comps!UpTo(S, Price(m))) /\ Cardinality(Comps!UpTo(S, Price(m))) \in Nat
      BY <2>4, PricedSets, CompsConstants, Counted DEF Priced
    <3>2. Cardinality(B) <= Cardinality(Comps!UpTo(S, Price(m)))
      <4>. HIDE DEF B
      <4>. QED BY <2>5, <3>1, FS_Subset
    <3>. QED BY <2>1, <3>1, <3>2
  <2>7. Price(m) \in A
    BY <2>4, <2>6 DEF Price
  <2>. QED BY <1>3, <1>4, <2>4, <2>7
<1>6. Is(Comps!Nth(S, i)) /\ Comps!Nth(S, i) \in All
  <2>1. Comps!Nth(S, i) = CHOOSE b \in All : Is(b)
    BY CompsCounts DEF Comps!Nth
  <2>2. \E b \in All : Is(b)
    BY <1>4, <1>5
  <2>. HIDE DEF Is, All
  <2>. QED BY <2>1, <2>2
<1>. QED BY <1>1, <1>6 DEF Price

LEMMA NthGrows ==
  ASSUME NEW S, Priced(S), NEW i \in 1 .. Cardinality(S), NEW j \in 1 .. Cardinality(S), i <= j
  PROVE  Comps!Nth(S, i) <= Comps!Nth(S, j)
<1>. DEFINE a == Comps!Nth(S, i)
            b == Comps!Nth(S, j)
<1>1. /\ a \in Nat /\ b \in Nat /\ Cardinality(Comps!Below(S, a)) < i
      /\ j <= Cardinality(Comps!UpTo(S, b))
  BY NthFact
<1>. HIDE DEF a, b
<1>2. ASSUME b < a PROVE FALSE
  <2>1. Comps!UpTo(S, b) \in SUBSET Comps!Below(S, a)
    BY <1>1, <1>2 DEF Comps!UpTo, Comps!Below, Priced, Price
  <2>2. /\ IsFiniteSet(Comps!Below(S, a)) /\ Cardinality(Comps!Below(S, a)) \in Nat
        /\ Cardinality(Comps!UpTo(S, b)) \in Nat
    BY <1>1, PricedSets
  <2>3. Cardinality(Comps!UpTo(S, b)) <= Cardinality(Comps!Below(S, a))
    BY <2>1, <2>2, FS_Subset
  <2>4. Cardinality(S) \in Nat
    BY <1>1, PricedSets
  <2>. QED BY <1>1, <2>2, <2>3, <2>4
<1>3. a <= b
  BY <1>1, <1>2
<1>. QED BY <1>3 DEF a, b

(* A percentile lies between two neighbors of the sorted prices. *)
LEMMA PercentileFact ==
  ASSUME NEW S, Priced(S), S # {}, NEW p \in Nat, NEW i \in Nat,
         i = p * (Cardinality(S) - 1), i <= 100 * (Cardinality(S) - 1)
  PROVE  LET lo == i \div 100 + 1
             hi == IF i % 100 = 0 THEN lo ELSE lo + 1
         IN /\ lo \in 1 .. Cardinality(S) /\ hi \in 1 .. Cardinality(S)
            /\ Comps!Percentile(S, p) \in Nat
            /\ 100 * Comps!Nth(S, lo) <= Comps!Percentile(S, p)
            /\ Comps!Percentile(S, p) <= 100 * Comps!Nth(S, hi)
<1>. DEFINE n == Cardinality(S)
            lo == i \div 100 + 1
            hi == IF i % 100 = 0 THEN lo ELSE lo + 1
            w == i % 100
            a == Comps!Nth(S, lo)
            b == Comps!Nth(S, hi)
<1>1. n \in Nat /\ n # 0
  BY PricedSets, FS_EmptySet
<1>2. /\ w \in 0 .. 99 /\ i \div 100 \in Nat /\ i = 100 * (i \div 100) + w
  <2>. HIDE DEF n
  <2>. QED OBVIOUS
<1>3. lo \in 1 .. n /\ hi \in 1 .. n /\ lo <= hi
  <2>. HIDE DEF n
  <2>. DEFINE d == i \div 100
  <2>1. d \in Nat /\ i = 100 * d + w /\ w \in 0 .. 99 /\ i <= 100 * (n - 1)
    BY <1>2 DEF n
  <2>2. d <= n - 1 /\ (w # 0 => d + 1 <= n - 1)
    <3>. HIDE DEF d, w
    <3>. QED BY <1>1, <2>1
  <2>3. lo = d + 1 /\ hi = IF w = 0 THEN d + 1 ELSE d + 2
    OBVIOUS
  <2>. HIDE DEF d, w, lo, hi
  <2>. QED BY <1>1, <2>1, <2>2, <2>3
<1>4. a \in Nat /\ b \in Nat /\ a <= b
  <2>. HIDE DEF lo, hi
  <2>. QED BY <1>3, NthFact, NthGrows
<1>5. Comps!Percentile(S, p) = IF w = 0 THEN 100 * a ELSE 100 * a + (b - a) * w
  <2>1. Comps!Cardinality(S) = n
    BY CompsCounts
  <2>2. w # 0 => hi = i \div 100 + 2
    BY <1>2
  <2>. QED BY <2>1, <2>2 DEF Comps!Percentile
<1>6. 0 <= (b - a) * w /\ (b - a) * w <= 100 * (b - a)
  <2>. HIDE DEF a, b, w
  <2>1. b - a \in Nat /\ w \in Nat /\ w <= 100
    BY <1>2, <1>4
  <2>2. \A x \in Nat, y \in Nat : y <= 100 => 0 <= x * y /\ x * y <= 100 * x
    OBVIOUS
  <2>. QED BY <2>1, <2>2
<1>7. Comps!Percentile(S, p) \in Nat /\ 100 * a <= Comps!Percentile(S, p)
      /\ Comps!Percentile(S, p) <= 100 * b
  <2>. DEFINE x == (b - a) * w
  <2>1. x \in Int
    BY <1>2, <1>4
  <2>2. Comps!Percentile(S, p) = (IF w = 0 THEN 100 * a ELSE 100 * a + x)
        /\ 0 <= x /\ x <= 100 * (b - a)
    BY <1>5, <1>6
  <2>. HIDE DEF x, a, b, w
  <2>. QED BY <1>4, <2>1, <2>2
<1>. QED BY <1>3, <1>7

(* At least half of the priced sales are at or below their median, and at  *)
(* least half at or above it.                                              *)
LEMMA MedianFact ==
  ASSUME NEW S, Priced(S), S # {}, NEW m, m = Comps!Percentile(S, 50)
  PROVE  /\ 2 * Cardinality({s \in S : 100 * Price(s) <= m}) >= Cardinality(S)
         /\ 2 * Cardinality({s \in S : 100 * Price(s) >= m}) >= Cardinality(S)
<1>. DEFINE n == Cardinality(S)
            i == 50 * (n - 1)
            lo == i \div 100 + 1
            hi == IF i % 100 = 0 THEN lo ELSE lo + 1
            a == Comps!Nth(S, lo)
            b == Comps!Nth(S, hi)
            AtMost == {s \in S : 100 * Price(s) <= m}
            AtLeast == {s \in S : 100 * Price(s) >= m}
<1>1. n \in Nat /\ n >= 1 /\ IsFiniteSet(S) /\ i \in Nat
  <2>1. n \in Nat /\ IsFiniteSet(S) /\ n # 0
    BY PricedSets, FS_EmptySet
  <2>. HIDE DEF n
  <2>. QED BY <2>1
<1>2. /\ lo \in 1 .. n /\ hi \in 1 .. n /\ m \in Nat /\ 100 * a <= m /\ m <= 100 * b
  BY <1>1, PercentileFact
<1>3. n <= 2 * lo /\ 2 * hi <= n + 2
  <2>. HIDE DEF n
  <2>. QED BY <1>1
<1>4. /\ a \in Nat /\ b \in Nat /\ lo <= Cardinality(Comps!UpTo(S, a))
      /\ Cardinality(Comps!Below(S, b)) < hi
  <2>. HIDE DEF lo, hi
  <2>. QED BY <1>2, NthFact
<1>5. n <= 2 * Cardinality(AtMost)
  <2>1. Comps!UpTo(S, a) \in SUBSET AtMost
    <3>. HIDE DEF a
    <3>. QED BY <1>2, <1>4 DEF Comps!UpTo, Priced, Price
  <2>2. IsFiniteSet(AtMost) /\ Cardinality(AtMost) \in Nat /\ Cardinality(Comps!UpTo(S, a)) \in Nat
    BY <1>1, <1>4, Counted, PricedSets
  <2>3. Cardinality(Comps!UpTo(S, a)) <= Cardinality(AtMost)
    <3>. HIDE DEF AtMost, a
    <3>. QED BY <2>1, <2>2, FS_Subset
  <2>. HIDE DEF AtMost, a, n, lo
  <2>. QED BY <1>1, <1>2, <1>3, <1>4, <2>2, <2>3
<1>6. n <= 2 * Cardinality(AtLeast)
  <2>. DEFINE B == Comps!Below(S, b)
  <2>1. S \ B \in SUBSET AtLeast /\ B \in SUBSET S
    <3>. HIDE DEF b
    <3>. QED BY <1>2, <1>4 DEF Comps!Below, Priced, Price
  <2>2. /\ IsFiniteSet(AtLeast) /\ Cardinality(AtLeast) \in Nat
        /\ IsFiniteSet(B) /\ Cardinality(B) \in Nat /\ Cardinality(S \ B) \in Nat
    BY <1>1, <1>4, <2>1, Counted
  <2>3. Cardinality(S \ B) <= Cardinality(AtLeast)
    <3>. HIDE DEF AtLeast, B
    <3>. QED BY <2>1, <2>2, FS_Subset
  <2>4. Cardinality(S \ B) = n - Cardinality(B)
    <3>1. S \cap B = B
      BY <2>1
    <3>2. Cardinality(S \ B) = Cardinality(S) - Cardinality(S \cap B)
      BY <1>1, FS_Difference
    <3>. QED BY <3>1, <3>2
  <2>. HIDE DEF AtLeast, B, n, hi
  <2>. QED BY <1>1, <1>2, <1>3, <1>4, <2>2, <2>3, <2>4 DEF B
<1>7. Cardinality(AtMost) \in Nat /\ Cardinality(AtLeast) \in Nat
  BY <1>1, Counted
<1>. HIDE DEF AtMost, AtLeast, n
<1>8. 2 * Cardinality(AtMost) >= n /\ 2 * Cardinality(AtLeast) >= n
  BY <1>1, <1>5, <1>6, <1>7
<1>. QED BY <1>8 DEF AtMost, AtLeast, n

(* The trim of three priced sales or more keeps one: the middle one. *)
LEMMA TrimFact ==
  ASSUME NEW S, Priced(S), Cardinality(S) >= 3
  PROVE  \E s \in S : 100 * Price(s) \in Comps!Percentile(S, 5) .. Comps!Percentile(S, 95)
<1>. DEFINE n == Cardinality(S)
            k == (n - 1) \div 2 + 1
            i == 5 * (n - 1)
            j == 95 * (n - 1)
            hi == IF i % 100 = 0 THEN i \div 100 + 1 ELSE i \div 100 + 1 + 1
            lo == j \div 100 + 1
<1>1. n \in Nat /\ n >= 3 /\ S # {} /\ i \in Nat /\ j \in Nat
  <2>1. n \in Nat /\ (n = 0 <=> S = {})
    BY PricedSets, FS_EmptySet
  <2>2. n >= 3
    OBVIOUS
  <2>. HIDE DEF n
  <2>. QED BY <2>1, <2>2
<1>2. hi <= k /\ k <= lo /\ k \in 1 .. n
  <2>. HIDE DEF n
  <2>. QED BY <1>1
<1>3. hi \in 1 .. n /\ Comps!Percentile(S, 5) \in Nat /\ Comps!Percentile(S, 5) <= 100 * Comps!Nth(S, hi)
  BY <1>1, PercentileFact
<1>4. lo \in 1 .. n /\ Comps!Percentile(S, 95) \in Nat /\ 100 * Comps!Nth(S, lo) <= Comps!Percentile(S, 95)
  BY <1>1, PercentileFact
<1>. HIDE DEF hi, lo, k
<1>5. /\ Comps!Nth(S, hi) <= Comps!Nth(S, k) /\ Comps!Nth(S, k) <= Comps!Nth(S, lo)
      /\ Comps!Nth(S, hi) \in Nat /\ Comps!Nth(S, k) \in Nat /\ Comps!Nth(S, lo) \in Nat
  BY <1>2, <1>3, <1>4, NthFact, NthGrows
<1>6. PICK s \in S : Comps!Nth(S, k) = Price(s)
  BY <1>2, NthFact
<1>7. 100 * Comps!Nth(S, k) \in Comps!Percentile(S, 5) .. Comps!Percentile(S, 95)
  BY <1>3, <1>4, <1>5
<1>. QED BY <1>6, <1>7

(* Evaluating: the trimmed sales are those that the estimate is sound for. *)
LEMMA EvaluateStep ==
  ASSUME CompsTyped, matched \subseteq Sales, Comps!Evaluate
  PROVE  Comps!EstimateSound' /\ result'.kept \subseteq Sales
<1>. DEFINE metric == {s \in matched : area > 0 /\ market[s].price # NoPrice}
            p5 == Comps!Percentile(metric, 5)
            p95 == Comps!Percentile(metric, 95)
            kept == {s \in metric : 100 * market[s].price \in p5 .. p95}
            med == Comps!Percentile(kept, 50)
            r == [kept |-> kept, p5 |-> p5, p95 |-> p95, median |-> med,
                  insufficient |-> ~ Comps!Enough,
                  estimate |-> IF Comps!Enough /\ med # NoPrice THEN med * area ELSE NoPrice]
<1>1. /\ result' = r /\ stage' = "done" /\ UNCHANGED <<market, area, pool, fs, matched, shown>>
  BY DEF Comps!Evaluate
<1>2. Priced(metric) /\ Priced(kept) /\ area \in Nat /\ NoPrice \notin Nat
  <2>1. \A s \in Sales : market[s] \in Profiles
    BY DEF CompsTyped
  <2>2. \A s \in metric : market[s].price \in Nat
    BY <2>1, CompsConstants
  <2>. QED BY <2>2, CompsConstants DEF Priced, Price, CompsTyped
<1>3. /\ IsFiniteSet(metric) /\ Cardinality(metric) \in Nat
      /\ IsFiniteSet(kept) /\ Cardinality(kept) \in Nat
  BY <1>2, CompsConstants, Counted DEF Priced
<1>. DEFINE P(s) == market[s].price
            few == {s \in kept : 100 * P(s) <= med}
            many == {s \in kept : 100 * P(s) >= med}
<1>4. /\ kept # {} => med \in Nat
      /\ kept # {} => 2 * Cardinality(few) >= Cardinality(kept) /\ 2 * Cardinality(many) >= Cardinality(kept)
  <2>1. SUFFICES ASSUME kept # {}
                 PROVE  /\ med \in Nat /\ 2 * Cardinality(few) >= Cardinality(kept)
                        /\ 2 * Cardinality(many) >= Cardinality(kept)
    BY Zenon
  <2>2. Cardinality(kept) # 0
    <3>. HIDE DEF kept
    <3>. QED BY <1>3, <2>1, FS_EmptySet
  <2>. HIDE DEF kept
  <2>3. /\ 50 * (Cardinality(kept) - 1) \in Nat
        /\ 50 * (Cardinality(kept) - 1) <= 100 * (Cardinality(kept) - 1)
    BY <1>3, <2>2
  <2>4. med \in Nat
    BY <1>2, <2>1, <2>3, PercentileFact
  <2>5. /\ 2 * Cardinality({s \in kept : 100 * Price(s) <= med}) >= Cardinality(kept)
        /\ 2 * Cardinality({s \in kept : 100 * Price(s) >= med}) >= Cardinality(kept)
    <3>. HIDE DEF med
    <3>. QED BY <1>2, <2>1, MedianFact DEF med
  <2>. QED BY <2>4, <2>5 DEF Price
<1>5. Cardinality(metric) >= 3 => kept # {}
  <2>1. ASSUME Cardinality(metric) >= 3 PROVE kept # {}
    <3>. HIDE DEF metric
    <3>1. PICK s \in metric : 100 * Price(s) \in p5 .. p95
      BY <1>2, <2>1, TrimFact
    <3>. QED BY <3>1 DEF Price
  <2>. QED BY <2>1, Zenon
<1>6. ASSUME NEW s \in metric \ kept
      PROVE  (\A t \in kept : P(t) < P(s)) \/ (\A t \in kept : P(t) > P(s))
  <2>1. metric # {} /\ Cardinality(metric) # 0
    <3>. HIDE DEF metric
    <3>. QED BY <1>3, <1>6, FS_EmptySet
  <2>2. p5 \in Nat /\ p95 \in Nat
    <3>. HIDE DEF metric
    <3>. DEFINE n == Cardinality(metric)
    <3>1. 5 * (n - 1) \in Nat /\ 5 * (n - 1) <= 100 * (n - 1)
          /\ 95 * (n - 1) \in Nat /\ 95 * (n - 1) <= 100 * (n - 1)
      <4>. HIDE DEF n
      <4>. QED BY <1>3, <2>1 DEF n
    <3>. QED BY <1>2, <2>1, <3>1, PercentileFact
  <2>3. \A t \in metric : P(t) \in Nat
    BY <1>2 DEF Priced, Price
  <2>. HIDE DEF metric, p5, p95
  <2>. QED BY <1>6, <2>2, <2>3
<1>7. ASSUME Comps!Enough, metric = matched PROVE med * area # NoPrice /\ med # NoPrice
  <2>1. Cardinality(metric) >= 3
    <3>. HIDE DEF metric
    <3>1. Cardinality(metric) >= MinSample
      BY <1>7, CompsCounts DEF Comps!Enough
    <3>. QED BY <1>3, <3>1, CompsConstants
  <2>. HIDE DEF metric, kept, med
  <2>2. med \in Nat
    BY <1>4, <1>5, <2>1
  <2>. QED BY <1>2, <2>2
<1>. DEFINE Kept == result'.kept
            Few_ == {s \in Kept : 100 * market'[s].price <= result'.median}
            Many_ == {s \in Kept : 100 * market'[s].price >= result'.median}
            Metric == {s \in matched' : area' > 0 /\ market'[s].price # NoPrice}
<1>8. /\ Kept = kept /\ result'.median = med /\ Metric = metric /\ Few_ = few /\ Many_ = many
      /\ Comps!Enough' = Comps!Enough
      /\ result'.estimate = IF Comps!Enough /\ med # NoPrice THEN med * area ELSE NoPrice
  <2>1. /\ result'.kept = kept /\ result'.median = med
        /\ result'.estimate = IF Comps!Enough /\ med # NoPrice THEN med * area ELSE NoPrice
    <3>. HIDE DEF kept, med, p5, p95
    <3>. QED BY <1>1
  <2>2. Comps!Enough' = Comps!Enough
    BY <1>1, CompsCounts DEF Comps!Enough
  <2>3. Metric = metric
    BY <1>1
  <2>. HIDE DEF kept, med
  <2>. QED BY <1>1, <2>1, <2>2, <2>3
<1>9. result'.estimate # NoPrice =>
        Comps!Cardinality(matched') >= MinSample /\ result'.estimate = result'.median * area'
  <2>1. Comps!Enough <=> Comps!Cardinality(matched') >= MinSample
    BY <1>1 DEF Comps!Enough
  <2>. HIDE DEF kept, med
  <2>. QED BY <1>1, <1>8, <2>1
<1>10. Kept # {} =>
         /\ 2 * Comps!Cardinality(Few_) >= Comps!Cardinality(Kept)
         /\ 2 * Comps!Cardinality(Many_) >= Comps!Cardinality(Kept)
  <2>. HIDE DEF kept, med, few, many, Few_, Many_, Kept
  <2>. QED BY <1>4, <1>8, CompsCounts
<1>11. \A s \in Metric \ Kept : \/ \A t \in Kept : market'[t].price < market'[s].price
                                \/ \A t \in Kept : market'[t].price > market'[s].price
  <2>. HIDE DEF kept, metric, Kept, Metric
  <2>. QED BY <1>1, <1>6, <1>8
<1>12. /\ Comps!Cardinality(Metric) >= 3 => Kept # {}
       /\ Comps!Enough' /\ Metric = matched' => result'.estimate # NoPrice
  <2>. HIDE DEF kept, metric, Kept, Metric, med
  <2>. QED BY <1>1, <1>5, <1>7, <1>8, CompsCounts
<1>13. kept \subseteq Sales
  BY <1>2 DEF Priced
<1>14. Comps!EstimateSound'
  <2>. HIDE DEF kept, med, few, many, metric
  <2>. QED BY <1>9, <1>10, <1>11, <1>12 DEF Comps!EstimateSound
<1>. QED BY <1>8, <1>13, <1>14

(* Showing: the card is the curated list. *)
LEMMA ShowStep ==
  ASSUME CompsTyped, Comps!ShowCard
  PROVE  Comps!CardIsCurated'
<1>. DEFINE kept == result.kept
            card == IF kept = {} THEN {} ELSE Comps!Curate
            left == {s \in kept : \A t \in card : Lot[t] # Lot[s]}
            P == Comps!Pinned
<1>1. shown' = card /\ stage' = "shown" /\ UNCHANGED <<market, result>>
  BY DEF Comps!ShowCard
<1>2. /\ card \subseteq kept
      /\ \A s, t \in card : Lot[s] = Lot[t] => s = t
      /\ left # {} => Cardinality(card) = Cap
      /\ \A s \in card, t \in left : s \notin P => t \notin P /\ ~ Comps!Closer(t, s)
  <2>1. CASE kept = {}
    BY <2>1
  <2>2. CASE kept # {}
    BY <2>2, CardFact
  <2>. QED BY <2>1, <2>2
<1>3. /\ Comps!Pinned' = P /\ \A s, t : Comps!Closer(s, t)' = Comps!Closer(s, t)
  BY <1>1 DEF Comps!Pinned, Comps!MedianSale, Comps!NearTrim, Comps!Off, Comps!Listed,
              Comps!Closer, Comps!Distance
<1>4. {s \in result'.kept : Lot[s] \notin {Lot[t] : t \in shown'}} = left
  BY <1>1
<1>. HIDE DEF card, left, P
<1>. QED BY <1>1, <1>2, <1>3, <1>4, CompsCounts DEF Comps!CardIsCurated

CompsInv ==
  /\ LadderInv /\ CompsTyped /\ matched \subseteq Sales
  /\ EstimateSound /\ CardIsCurated

LEMMA CompsInit == ASSUME Comps!Init PROVE CompsInv
BY DEF Comps!Init, Comps!NoResult, CompsInv, LadderInv, CompsTyped, Rungs, StopsAtFirstRung,
       Comps!StopsAtFirstRung, EstimateSound, Comps!EstimateSound, CardIsCurated,
       Comps!CardIsCurated

LEMMA CompsStep ==
  ASSUME CompsInv, Comps!Next
  PROVE  CompsInv'
<1>1. LadderInv'
  BY LadderStep DEF CompsInv
<1>2. CASE Comps!Evaluate
  <2>1. /\ stage' = "done" /\ UNCHANGED <<market, area, matched>>
    BY <1>2 DEF Comps!Evaluate
  <2>. QED BY <1>1, <1>2, <2>1, EvaluateStep
           DEF CompsInv, CompsTyped, EstimateSound, CardIsCurated, Comps!CardIsCurated
<1>3. CASE Comps!ShowCard
  <2>1. /\ stage' = "shown" /\ UNCHANGED <<market, area, matched, result>>
    BY <1>3 DEF Comps!ShowCard
  <2>. QED BY <1>1, <1>3, <2>1, ShowStep
           DEF CompsInv, CompsTyped, EstimateSound, Comps!EstimateSound, CardIsCurated
<1>4. ASSUME stage' \notin {"done", "shown"}, UNCHANGED <<market, area, result>>,
             matched' \subseteq Sales
      PROVE  CompsInv'
  BY <1>1, <1>4 DEF CompsInv, CompsTyped, EstimateSound, Comps!EstimateSound, CardIsCurated,
                    Comps!CardIsCurated
<1>5. CASE Comps!LoadPool
  BY <1>4, <1>5 DEF Comps!LoadPool, CompsInv
<1>6. ASSUME NEW from, NEW to \in Rungs, NEW f, Comps!Rung(from, to, f) PROVE CompsInv'
  <2>1. matched' \subseteq Sales
    BY <1>6 DEF Comps!Rung, Comps!Matches, CompsInv, LadderInv
  <2>. QED BY <1>4, <1>6, <2>1 DEF Comps!Rung, Rungs
<1>. QED BY <1>2, <1>3, <1>5, <1>6
         DEF Comps!Next, Comps!BaseRung, Comps!WidenRecency, Comps!WidenRadius,
             Comps!DropYearBand, Comps!DropBedsBand, Rungs

LEMMA CompsRest ==
  ASSUME CompsInv, UNCHANGED compsVars
  PROVE  CompsInv'
<1>1. UNCHANGED <<market, area, pool, stage, fs, matched, result, shown>>
  BY DEF compsVars
<1>2. /\ \A f : Tried(f)' = Tried(f) /\ Comps!Matches(f)' = Comps!Matches(f)
      /\ \A f : (Comps!Cardinality(Comps!Matches(f)) < MinSample)' = (Comps!Cardinality(Comps!Matches(f)) < MinSample)
  BY <1>1, MatchesStay
<1>3. StopsAtFirstRung'
  BY <1>1, <1>2 DEF CompsInv, LadderInv, StopsAtFirstRung, Comps!StopsAtFirstRung
<1>4. (matched = Comps!Matches(fs))' = (matched = Comps!Matches(fs)) /\ Tried(fs)' = Tried(fs)
  BY <1>1 DEF Tried, Few, Comps!Matches, Comps!Passes, Comps!Age, Comps!Newest, Comps!Near
<1>5. LadderInv'
  BY <1>1, <1>3, <1>4 DEF CompsInv, LadderInv
<1>6. EstimateSound'
  BY <1>1 DEF CompsInv, EstimateSound, Comps!EstimateSound, Comps!Enough
<1>7. CardIsCurated'
  <2>1. /\ Comps!Pinned' = Comps!Pinned /\ \A s, t : Comps!Closer(s, t)' = Comps!Closer(s, t)
    BY <1>1 DEF Comps!Pinned, Comps!MedianSale, Comps!NearTrim, Comps!Off, Comps!Listed,
                Comps!Closer, Comps!Distance
  <2>. QED BY <1>1, <2>1 DEF CompsInv, CardIsCurated, Comps!CardIsCurated
<1>. QED BY <1>1, <1>5, <1>6, <1>7 DEF CompsInv, CompsTyped

-----------------------------------------------------------------------------
(* The record *)

LEMMA RecordConstants ==
  /\ IsFiniteSet(Violations) /\ IsFiniteSet(Complaints) /\ OutOfState \in BOOLEAN
  /\ Snapshots \subseteq [due : Nat, actionable : BOOLEAN]
  /\ \A d \in Deeds : d.price \in Nat \cup {None}
  /\ Expected = None \/ Expected \in Nat \ {0}
  /\ Floor \in Nat /\ MaxYear \in Nat /\ None \notin Nat /\ None \notin BOOLEAN
BY ConstantsAssumption DEF Record!ConstantsOK, Record!IsFiniteSet, IsFiniteSet

LEMMA RecordCounts == ASSUME NEW S PROVE Record!Cardinality(S) = Cardinality(S)
BY DEF Record!Cardinality, Cardinality

LEMMA HighestExists ==
  ASSUME NEW S \in SUBSET Nat, S # {}, NEW n \in Nat, \A x \in S : x <= n
  PROVE  \E m \in S : \A x \in S : x <= m
<1>. DEFINE K == {k \in Nat : \A x \in S : x <= k}
<1>1. PICK k \in K : \A l \in K : k <= l
  <2>1. K \in SUBSET Nat /\ K # {}
    OBVIOUS
  <2>. HIDE DEF K
  <2>. QED BY <2>1, SmallestExists
<1>2. ASSUME k \notin S PROVE FALSE
  <2>1. \A x \in S : x <= k - 1
    BY <1>1, <1>2
  <2>2. k - 1 \in Nat
    <3>1. PICK x \in S : TRUE
      OBVIOUS
    <3>. QED BY <1>1, <1>2, <3>1
  <2>3. k - 1 \in K
    BY <2>1, <2>2
  <2>. QED BY <1>1, <2>2, <2>3
<1>. QED BY <1>1, <1>2

(* What the matview's row may hold. *)
Scored(raw) ==
  /\ raw.tax_delinquent \in Nat /\ raw.open_violations \in Nat
  /\ raw.recent_complaints \in Nat /\ raw.below_market_last_sale \in Nat
  /\ raw.actionable_sheriff_flag \in BOOLEAN /\ raw.unsafe_or_imm_dang \in BOOLEAN
  /\ raw.on_sheriff_list \in BOOLEAN /\ raw.out_of_state_owner \in BOOLEAN
  /\ raw.vacancy_proxy \in BOOLEAN

Numbers == {"tax_delinquent", "open_violations", "recent_complaints", "below_market_last_sale"}
Flags   == {"actionable_sheriff_flag", "unsafe_or_imm_dang", "on_sheriff_list",
            "out_of_state_owner", "vacancy_proxy"}

LEMMA WeightFact ==
  /\ Record!Numeric = Numbers /\ Record!Components = Numbers \cup Flags
  /\ \A k \in Numbers \cup Flags : Record!Weight[k] \in Nat
  /\ Record!Total(Record!Weight) <= Record!Whole /\ Record!Whole \in Nat
<1>1. Record!Numeric = Numbers
  BY SMTT(30) DEF Record!Numeric, Record!LinearCap, Numbers
<1>2. Record!Components = Numbers \cup Flags
  BY SMTT(30) DEF Record!Components, Record!Weight, Numbers, Flags
<1>3. \A k \in Numbers \cup Flags : Record!Weight[k] \in Nat
  BY SMTT(30) DEF Record!Weight, Numbers, Flags
<1>4. Record!Total(Record!Weight) <= Record!Whole /\ Record!Whole \in Nat
  BY SMTT(30) DEF Record!Total, Record!Weight, Record!Whole
<1>. QED BY SMTT(30), <1>1, <1>2, <1>3, <1>4

Linear(k, v) == Record!LinearSql(v, Record!Weight[k], Record!LinearCap[k])

(* A number's term: the same on the page, within its weight, and never less *)
(* of more.  Of taxes, any at all count.                                    *)
LEMMA LinearFact ==
  /\ \A k \in Numbers, v \in Nat :
       /\ Record!LinearTs(v, Record!Weight[k], Record!LinearCap[k]) = Linear(k, v)
       /\ Linear(k, v) \in Nat /\ Linear(k, v) <= Record!Weight[k]
  /\ \A k \in Numbers, v, w \in Nat : v <= w => Linear(k, v) <= Linear(k, w)
  /\ \A v \in Nat : Linear("tax_delinquent", v) > 0 <=> v > 0
<1>. DEFINE Good(k) ==
       \A v \in Nat :
         /\ Record!LinearTs(v, Record!Weight[k], Record!LinearCap[k]) = Linear(k, v)
         /\ Linear(k, v) \in Nat /\ Linear(k, v) <= Record!Weight[k]
         /\ \A w \in Nat : v <= w => Linear(k, v) <= Linear(k, w)
<1>1. /\ Record!Weight["tax_delinquent"] = 200000 /\ Record!LinearCap["tax_delinquent"] = 25000
      /\ Record!Weight["open_violations"] = 140000 /\ Record!LinearCap["open_violations"] = 5
      /\ Record!Weight["recent_complaints"] = 80000 /\ Record!LinearCap["recent_complaints"] = 4
      /\ Record!Weight["below_market_last_sale"] = 60000
      /\ Record!LinearCap["below_market_last_sale"] = 40
  BY SMTT(30) DEF Record!Weight, Record!LinearCap
<1>2. Good("tax_delinquent") /\ \A v \in Nat : Linear("tax_delinquent", v) > 0 <=> v > 0
  BY SMTT(30), <1>1, RecordConstants DEF Linear, Record!LinearSql, Record!LinearTs, Record!Least
<1>3. Good("open_violations")
  BY SMTT(30), <1>1, RecordConstants DEF Linear, Record!LinearSql, Record!LinearTs, Record!Least
<1>4. Good("recent_complaints")
  BY SMTT(30), <1>1, RecordConstants DEF Linear, Record!LinearSql, Record!LinearTs, Record!Least
<1>5. Good("below_market_last_sale")
  BY SMTT(30), <1>1, RecordConstants DEF Linear, Record!LinearSql, Record!LinearTs, Record!Least
<1>6. \A k \in Numbers : Good(k)
  <2>. HIDE DEF Good
  <2>. QED BY <1>2, <1>3, <1>4, <1>5 DEF Numbers
<1>. QED BY <1>2, <1>6

LEMMA FlagFact ==
  \A v \in BOOLEAN, w \in Nat :
    /\ Record!FlagTs(v, w) = Record!FlagSql(v, w)
    /\ Record!FlagSql(v, w) \in Nat /\ Record!FlagSql(v, w) <= w
BY RecordConstants DEF Record!FlagTs, Record!FlagSql

(* A sum of nine terms, none above another's. *)
LEMMA TotalGrows ==
  ASSUME NEW s, NEW t,
         \A k \in Numbers \cup Flags : s[k] \in Nat /\ t[k] \in Nat /\ s[k] <= t[k]
  PROVE  /\ Record!Total(s) \in Nat /\ Record!Total(t) \in Nat
         /\ Record!Total(s) <= Record!Total(t)
<1>1. \A k \in {"tax_delinquent", "actionable_sheriff_flag", "open_violations",
                "unsafe_or_imm_dang", "recent_complaints", "on_sheriff_list",
                "out_of_state_owner", "vacancy_proxy", "below_market_last_sale"} :
        s[k] \in Nat /\ t[k] \in Nat /\ s[k] <= t[k]
  BY DEF Numbers, Flags
<1>. QED BY <1>1 DEF Record!Total

LEMMA TermsSqlFact ==
  ASSUME NEW raw, Scored(raw)
  PROVE  /\ \A k \in Numbers : /\ raw[k] \in Nat /\ Record!TermsSql(raw)[k] = Linear(k, raw[k])
         /\ \A k \in Flags : /\ raw[k] \in BOOLEAN
                             /\ Record!TermsSql(raw)[k] = Record!FlagSql(raw[k], Record!Weight[k])
         /\ \A k \in Numbers \cup Flags : /\ Record!TermsSql(raw)[k] \in Nat
                                          /\ Record!TermsSql(raw)[k] <= Record!Weight[k]
<1>1. \A k \in Numbers : raw[k] \in Nat
  BY DEF Scored, Numbers
<1>2. \A k \in Flags : raw[k] \in BOOLEAN
  BY DEF Scored, Flags
<1>3. Numbers \cap Flags = {}
  BY DEF Numbers, Flags
<1>. DEFINE H == Record!Numeric
            C == Record!Components
<1>4. H = Numbers /\ C = Numbers \cup Flags /\ \A k \in Flags : Record!Weight[k] \in Nat
  BY SMTT(30), WeightFact
<1>5. \A k \in C : Record!TermsSql(raw)[k] =
        IF k \in H THEN Linear(k, raw[k]) ELSE Record!FlagSql(raw[k], Record!Weight[k])
  BY SMTT(30) DEF Record!TermsSql, Linear
<1>. HIDE DEF H, C
<1>6. \A k \in Numbers : Record!TermsSql(raw)[k] = Linear(k, raw[k])
  BY <1>4, <1>5
<1>7. \A k \in Flags : Record!TermsSql(raw)[k] = Record!FlagSql(raw[k], Record!Weight[k])
  BY <1>3, <1>4, <1>5
<1>8. \A k \in Numbers : Record!TermsSql(raw)[k] \in Nat
                         /\ Record!TermsSql(raw)[k] <= Record!Weight[k]
  BY <1>1, <1>6, LinearFact
<1>9. \A k \in Flags : Record!TermsSql(raw)[k] \in Nat
                       /\ Record!TermsSql(raw)[k] <= Record!Weight[k]
  BY <1>2, <1>4, <1>7, FlagFact
<1>. QED BY <1>1, <1>2, <1>6, <1>7, <1>8, <1>9

(* The page's terms of the matview's row are the matview's, and their sum,  *)
(* the score, is at most the sum of the weights.                            *)
LEMMA TermsFact ==
  ASSUME NEW raw, Scored(raw),
         NEW sent, sent = [k \in Record!Components |-> raw[k]]
  PROVE  /\ Record!Total(Record!TermsTs(sent)) = Record!ScoreSql(raw)
         /\ Record!ScoreSql(raw) \in Nat /\ Record!ScoreSql(raw) <= Record!Whole
         /\ Record!TermsTs(sent)["tax_delinquent"] = Linear("tax_delinquent", raw.tax_delinquent)
<1>. DEFINE sql == Record!TermsSql(raw)
            ts == Record!TermsTs(sent)
            H == Record!Numeric
            C == Record!Components
<1>1. H = Numbers /\ C = Numbers \cup Flags /\ \A k \in Flags : Record!Weight[k] \in Nat
  BY SMTT(30), WeightFact
<1>2. \A k \in C : ts[k] =
        IF k \in H THEN Record!LinearTs(raw[k], Record!Weight[k], Record!LinearCap[k])
        ELSE Record!FlagTs(raw[k], Record!Weight[k])
  BY SMTT(30) DEF Record!TermsTs
<1>. HIDE DEF sql, ts, H, C
<1>3. \A k \in Numbers : ts[k] = sql[k]
  <2>1. \A k \in Numbers : ts[k] = Record!LinearTs(raw[k], Record!Weight[k], Record!LinearCap[k])
    BY <1>1, <1>2
  <2>. QED BY <2>1, TermsSqlFact, LinearFact DEF sql
<1>4. \A k \in Flags : ts[k] = sql[k]
  <2>1. \A k \in Flags : ts[k] = Record!FlagTs(raw[k], Record!Weight[k])
    <3>1. Numbers \cap Flags = {}
      BY DEF Numbers, Flags
    <3>. QED BY <1>1, <1>2, <3>1
  <2>. QED BY <1>1, <2>1, TermsSqlFact, FlagFact DEF sql
<1>5. \A k \in Numbers \cup Flags : /\ ts[k] = sql[k] /\ sql[k] \in Nat
                                    /\ sql[k] <= Record!Weight[k]
  BY <1>3, <1>4, TermsSqlFact DEF sql
<1>6. Record!Total(ts) = Record!Total(sql)
  <2>1. \A k \in Numbers \cup Flags : ts[k] \in Nat /\ sql[k] \in Nat
                                      /\ ts[k] <= sql[k] /\ sql[k] <= ts[k]
    BY <1>5
  <2>2. Record!Total(ts) <= Record!Total(sql) /\ Record!Total(sql) <= Record!Total(ts)
        /\ Record!Total(ts) \in Nat /\ Record!Total(sql) \in Nat
    BY <2>1, TotalGrows
  <2>. QED BY <2>2
<1>7. Record!Total(sql) \in Nat /\ Record!Total(sql) <= Record!Total(Record!Weight)
      /\ Record!Total(Record!Weight) \in Nat
  <2>1. \A k \in Numbers \cup Flags : Record!Weight[k] \in Nat
    BY SMTT(30), WeightFact
  <2>. QED BY <1>5, <2>1, TotalGrows
<1>8. Record!Total(sql) \in Nat /\ Record!Total(sql) <= Record!Whole
  BY SMTT(30), <1>7, WeightFact
<1>9. ts["tax_delinquent"] = Linear("tax_delinquent", raw.tax_delinquent)
  <2>1. "tax_delinquent" \in Numbers
    BY DEF Numbers
  <2>. QED BY <1>3, <2>1, TermsSqlFact DEF sql
<1>10. Record!ScoreSql(raw) = Record!Total(sql)
  BY DEF sql, Record!ScoreSql
<1>. QED BY SMTT(30), <1>6, <1>8, <1>9, <1>10 DEF ts

(* The score grows with each of its signals. *)
LEMMA ScoreGrows ==
  ASSUME NEW r, NEW s, Scored(r), Scored(s),
         \A k \in Numbers : r[k] <= s[k], \A k \in Flags : r[k] => s[k]
  PROVE  Record!ScoreSql(r) <= Record!ScoreSql(s)
<1>. DEFINE a == Record!TermsSql(r)
            b == Record!TermsSql(s)
<1>1. \A k \in Numbers \cup Flags : a[k] \in Nat /\ b[k] \in Nat
  BY TermsSqlFact
<1>2. \A k \in Numbers : a[k] <= b[k]
  BY TermsSqlFact, LinearFact
<1>3. \A k \in Flags : a[k] <= b[k]
  <2>1. \A k \in Flags : Record!Weight[k] \in Nat
    BY SMTT(30), WeightFact
  <2>2. \A k \in Flags : /\ r[k] \in BOOLEAN /\ a[k] = Record!FlagSql(r[k], Record!Weight[k])
                         /\ s[k] \in BOOLEAN /\ b[k] = Record!FlagSql(s[k], Record!Weight[k])
    BY TermsSqlFact
  <2>3. \A w \in Nat : \A p, q \in BOOLEAN :
          (p => q) => Record!FlagSql(p, w) <= Record!FlagSql(q, w)
    BY DEF Record!FlagSql
  <2>. HIDE DEF a, b
  <2>. QED BY <2>1, <2>2, <2>3
<1>4. \A k \in Numbers \cup Flags : a[k] \in Nat /\ b[k] \in Nat /\ a[k] <= b[k]
  BY <1>1, <1>2, <1>3
<1>. HIDE DEF a, b
<1>5. Record!Total(a) <= Record!Total(b)
  BY <1>4, TotalGrows
<1>. QED BY <1>5 DEF Record!ScoreSql, a, b

RecordTyped ==
  /\ year \in 0 .. MaxYear
  /\ compl \in [Complaints -> Nat \cup {None}]
  /\ tax \in [0 .. MaxYear -> Snapshots \cup {None}]
  /\ deeds \in Seq(Deeds)

(* The last sale of the market is one of the deeds, at a price. *)
LEMMA LastPriceFact ==
  ASSUME RecordTyped, Record!Market # {}
  PROVE  \E i \in Record!Market :
           /\ i = CHOOSE k \in Record!Market : \A j \in Record!Market : j <= k
           /\ Record!LastPrice = deeds[i].price /\ Record!LastPrice \in Nat
<1>1. Record!Market \in SUBSET Nat /\ \A x \in Record!Market : x <= Len(deeds) /\ Len(deeds) \in Nat
  BY DEF Record!Market, RecordTyped
<1>2. \E m \in Record!Market : \A x \in Record!Market : x <= m
  BY <1>1, HighestExists
<1>. DEFINE i == CHOOSE k \in Record!Market : \A j \in Record!Market : j <= k
<1>3. i \in Record!Market
  BY <1>2
<1>4. Record!LastPrice = deeds[i].price
  BY DEF Record!LastPrice
<1>. HIDE DEF i
<1>5. deeds[i].price \in Nat
  <2>1. deeds[i] \in Deeds /\ deeds[i].price # None
    BY <1>3 DEF Record!Market, Record!ArmsLength, RecordTyped
  <2>. QED BY <2>1, RecordConstants
<1>. QED BY <1>3, <1>4, <1>5 DEF i

LEMMA TaxFact ==
  ASSUME RecordTyped
  PROVE  Record!LatestTax.due \in Nat /\ Record!LatestTax.actionable \in BOOLEAN
<1>1. CASE Record!Taxed = {}
  BY <1>1 DEF Record!LatestTax
<1>2. CASE Record!Taxed # {}
  <2>1. Record!Taxed \in SUBSET Nat /\ \A y \in Record!Taxed : y <= MaxYear
    BY RecordConstants DEF Record!Taxed
  <2>2. \E y \in Record!Taxed : \A z \in Record!Taxed : z <= y
    BY <1>2, <2>1, HighestExists, RecordConstants
  <2>. DEFINE y == CHOOSE q \in Record!Taxed : \A z \in Record!Taxed : z <= q
  <2>3. y \in Record!Taxed /\ Record!LatestTax = tax[y]
    BY <1>2, <2>2 DEF Record!LatestTax
  <2>. HIDE DEF y
  <2>4. tax[y] \in Snapshots
    BY <2>3 DEF Record!Taxed, RecordTyped
  <2>. QED BY <2>3, <2>4, RecordConstants
<1>. QED BY <1>1, <1>2

LEMMA SignalsTyped ==
  ASSUME RecordTyped
  PROVE  /\ Scored(Record!Signals) /\ DOMAIN Record!Signals = Record!Components
         /\ Record!Signals.open_violations >= Cardinality(Record!ListedOpen)
         /\ Cardinality(Record!ListedOpen) \in Nat
<1>1. /\ Cardinality(Record!OpenViolations) \in Nat /\ Cardinality(Record!ListedOpen) \in Nat
      /\ Cardinality(Record!OpenViolations \cap Hazardous) \in Nat
      /\ Cardinality(Record!ListedOpen) <= Cardinality(Record!OpenViolations)
  <2>1. /\ Record!OpenViolations \in SUBSET Violations
        /\ Record!OpenViolations \cap Hazardous \in SUBSET Violations
        /\ Record!ListedOpen \in SUBSET Record!OpenViolations
    BY DEF Record!OpenViolations, Record!ListedOpen, Record!Open, Record!Settled
  <2>. QED BY <2>1, RecordConstants, Counted
<1>2. Cardinality({c \in Complaints : Record!Filed(c, 1)}) \in Nat
  BY RecordConstants, Counted
<1>3. Record!BelowMarket \in Nat
  <2>1. CASE Expected = None \/ Record!Market = {}
    BY <2>1 DEF Record!BelowMarket
  <2>2. CASE Expected # None /\ Record!Market # {}
    <3>1. Record!LastPrice \in Nat /\ Expected \in Nat /\ Expected > 0
      BY <2>2, LastPriceFact, RecordConstants
    <3>. DEFINE d == 100 * (Expected - Record!LastPrice)
    <3>2. ~ (Record!LastPrice >= Expected) => d \in Nat /\ d \div Expected \in Nat
      <4>1. ~ (Record!LastPrice >= Expected) => d \in Nat
        BY <3>1
      <4>2. \A x \in Nat, y \in Nat \ {0} : x \div y \in Nat
        OBVIOUS
      <4>. QED BY <3>1, <4>1, <4>2
    <3>. QED BY <2>2, <3>2 DEF Record!BelowMarket
  <2>. QED BY <2>1, <2>2
<1>4. /\ Record!Signals.open_violations
           = Cardinality(Record!OpenViolations) + Cardinality(Record!OpenViolations \cap Hazardous)
      /\ Record!Signals.recent_complaints = Cardinality({c \in Complaints : Record!Filed(c, 1)})
      /\ Record!Signals.tax_delinquent = Record!LatestTax.due
      /\ Record!Signals.actionable_sheriff_flag = Record!LatestTax.actionable
      /\ Record!Signals.below_market_last_sale = Record!BelowMarket
      /\ Record!Signals.out_of_state_owner = OutOfState
  BY RecordCounts DEF Record!Signals
<1>5. /\ Record!Signals.unsafe_or_imm_dang \in BOOLEAN /\ Record!Signals.on_sheriff_list \in BOOLEAN
      /\ Record!Signals.vacancy_proxy \in BOOLEAN
  BY DEF Record!Signals
<1>6. DOMAIN Record!Signals = Record!Components
  BY SMTT(30), WeightFact DEF Record!Signals, Numbers, Flags
<1>. QED BY <1>1, <1>2, <1>3, <1>4, <1>5, <1>6, TaxFact, RecordConstants DEF Scored

LEMMA SignalsScored == RecordTyped => Scored(Record!Signals)
BY SignalsTyped

RecordInv ==
  /\ RecordTyped
  /\ row # None => /\ Scored(row.raw) /\ row.score = Record!ScoreSql(row.raw)
                   /\ row.points = Record!Points(row.score)
  /\ row # None /\ fresh => row.raw = Record!Signals
  /\ PageAgrees

(* The points of the page's sum, whose last bit may be down. *)
LEMMA HalfPoint ==
  ASSUME NEW score \in Nat, NEW points,
         points \in {Record!Points(score), (score + 4999) \div 10000}
  PROVE  \/ points = Record!Points(score)
         \/ score % 10000 = 5000 /\ points = Record!Points(score) - 1
BY SMTT(30) DEF Record!Points

LEMMA OpenPageStep ==
  ASSUME RecordInv, Record!OpenPage
  PROVE  PageAgrees'
<1>. DEFINE sent == [k \in Record!Components |-> Record!Coerced(k)]
            terms == Record!TermsTs(sent)
            score == Record!Least(Record!Total(terms), Record!Whole)
            count == Record!Coerced("open_violations")
            shows(points) ==
              [terms |-> terms, score |-> score, points |-> points,
               count |-> IF count = None THEN Record!Cardinality(Record!ListedOpen) ELSE count,
               delinquent |-> Record!LatestTax.due > 0]
<1>1. PICK points \in {Record!Points(score), (score + 4999) \div 10000} : page' = shows(points)
  BY DEF Record!OpenPage
<1>2. UNCHANGED <<year, active, viol, compl, tax, inventory, sale, listings, deeds, row, fresh>>
  BY DEF Record!OpenPage, Record!records
<1>3. /\ page'.score = score /\ page'.points = points /\ page'.terms = terms
      /\ page'.count = (IF count = None THEN Cardinality(Record!ListedOpen) ELSE count)
      /\ page'.delinquent <=> Record!LatestTax.due > 0
  <2>1. Record!Cardinality(Record!ListedOpen) = Cardinality(Record!ListedOpen)
    BY RecordCounts
  <2>2. page'.delinquent <=> Record!LatestTax.due > 0
    <3>. DEFINE owed == Record!LatestTax.due > 0
    <3>1. owed \in BOOLEAN
      OBVIOUS
    <3>2. page'.delinquent = owed
      BY <1>1
    <3>. HIDE DEF owed
    <3>3. page'.delinquent <=> owed
      BY <3>1, <3>2
    <3>. QED BY <3>3 DEF owed
  <2>. QED BY <1>1, <2>1, <2>2
<1>4. ASSUME row # None
      PROVE  /\ score = row.score /\ score \in 0 .. Record!Whole
             /\ terms["tax_delinquent"] = Linear("tax_delinquent", row.raw.tax_delinquent)
             /\ count = row.raw.open_violations /\ count # None
  <2>1. Scored(row.raw) /\ row.score = Record!ScoreSql(row.raw)
    BY <1>4 DEF RecordInv
  <2>2. sent = [k \in Record!Components |-> row.raw[k]] /\ count = row.raw.open_violations
    BY <1>4 DEF Record!Coerced
  <2>3. /\ Record!Total(terms) = row.score /\ row.score \in Nat /\ row.score <= Record!Whole
        /\ terms["tax_delinquent"] = Linear("tax_delinquent", row.raw.tax_delinquent)
    <3>. HIDE DEF sent
    <3>. QED BY SMTT(30), <2>1, <2>2, TermsFact
  <2>4. count # None
    BY <2>1, <2>2, RecordConstants DEF Scored
  <2>. HIDE DEF terms, count
  <2>5. score = row.score /\ score \in 0 .. Record!Whole
    BY <2>3, WeightFact DEF Record!Least
  <2>. QED BY <2>2, <2>3, <2>4, <2>5 DEF count
<1>. HIDE DEF score, terms, count
<1>5. ASSUME row # None
      PROVE  /\ page'.score = row.score /\ page'.score \in 0 .. Record!Whole
             /\ \/ page'.points = row.points
                \/ row.score % 10000 = 5000 /\ page'.points = row.points - 1
  <2>1. row.points = Record!Points(score) /\ score \in Nat
    BY SMTT(30), <1>4, <1>5 DEF RecordInv
  <2>. QED BY SMTT(30), <1>1, <1>3, <1>4, <1>5, <2>1, HalfPoint
<1>6. ASSUME fresh
      PROVE  /\ page'.count >= Cardinality(Record!ListedOpen)
             /\ row # None => (page'.delinquent <=> page'.terms["tax_delinquent"] > 0)
  <2>1. /\ Scored(Record!Signals) /\ Cardinality(Record!ListedOpen) \in Nat
        /\ Record!Signals.open_violations >= Cardinality(Record!ListedOpen)
        /\ Record!Signals.tax_delinquent = Record!LatestTax.due /\ Record!LatestTax.due \in Nat
    BY SignalsTyped, TaxFact DEF RecordInv, Record!Signals
  <2>2. CASE row = None
    <3>1. count = None
      BY <2>2 DEF count, Record!Coerced
    <3>. QED BY <1>3, <2>1, <2>2, <3>1
  <2>3. CASE row # None
    <3>1. row.raw = Record!Signals
      BY <1>6, <2>3 DEF RecordInv
    <3>2. terms["tax_delinquent"] > 0 <=> Record!LatestTax.due > 0
      <4>1. terms["tax_delinquent"] = Linear("tax_delinquent", Record!LatestTax.due)
        BY <1>4, <2>1, <2>3, <3>1
      <4>2. \A v \in Nat : Linear("tax_delinquent", v) > 0 <=> v > 0
        BY LinearFact
      <4>. QED BY <2>1, <4>1, <4>2
    <3>3. page'.delinquent <=> page'.terms["tax_delinquent"] > 0
      <4>1. page'.delinquent <=> Record!LatestTax.due > 0
        BY <1>3
      <4>2. page'.terms = terms
        BY <1>3
      <4>. QED BY <3>2, <4>1, <4>2
    <3>4. page'.count >= Cardinality(Record!ListedOpen)
      <4>1. page'.count = Record!Signals.open_violations
        BY <1>3, <1>4, <2>3, <3>1
      <4>. QED BY <2>1, <4>1
    <3>. QED BY <3>3, <3>4
  <2>. QED BY <2>2, <2>3
<1>7. Record!ListedOpen' = Record!ListedOpen
  BY <1>2 DEF Record!ListedOpen
<1>. QED BY <1>2, <1>5, <1>6, <1>7, RecordCounts DEF PageAgrees, Record!PageAgrees

LEMMA RecordInit == ASSUME Record!Init PROVE RecordInv
<1>1. RecordTyped
  BY RecordConstants DEF Record!Init, RecordTyped
<1>. QED BY <1>1 DEF Record!Init, RecordInv, PageAgrees, Record!PageAgrees

LEMMA TypedStep ==
  ASSUME RecordTyped, Record!Next
  PROVE  RecordTyped' /\ year <= year'
<1>0. year \in Nat /\ year <= year
  BY RecordConstants DEF RecordTyped
<1>1. ASSUME NEW v, NEW status, Record!LoadViolation(v, status) PROVE RecordTyped' /\ year <= year'
  BY <1>0, <1>1 DEF Record!LoadViolation, Record!Load, RecordTyped
<1>2. ASSUME NEW c \in Complaints, Record!LoadComplaint(c) PROVE RecordTyped' /\ year <= year'
  BY <1>0, <1>2 DEF Record!LoadComplaint, Record!Load, RecordTyped
<1>3. ASSUME NEW snapshot \in Snapshots, Record!LoadDelinquency(snapshot)
      PROVE  RecordTyped' /\ year <= year'
  BY <1>0, <1>3 DEF Record!LoadDelinquency, Record!Load, RecordTyped
<1>4. ASSUME NEW kind, NEW status, Record!LoadInventory(kind, status)
      PROVE  RecordTyped' /\ year <= year'
  BY <1>0, <1>4 DEF Record!LoadInventory, Record!Load, RecordTyped
<1>5. ASSUME NEW d \in Deeds, Record!LoadDeed(d) PROVE RecordTyped' /\ year <= year'
  BY <1>0, <1>5 DEF Record!LoadDeed, Record!Load, RecordTyped
<1>6. ASSUME NEW status, Record!Proceed(status) PROVE RecordTyped' /\ year <= year'
  BY <1>0, <1>6 DEF Record!Proceed, RecordTyped
<1>7. CASE Record!Scrape \/ Record!LoadParcel
  BY <1>0, <1>7 DEF Record!Scrape, Record!LoadParcel, Record!Load, RecordTyped
<1>8. CASE Record!YearPasses
  BY <1>0, <1>8, RecordConstants DEF Record!YearPasses, RecordTyped
<1>9. CASE Record!Refresh \/ Record!OpenPage
  BY <1>0, <1>9 DEF Record!Refresh, Record!OpenPage, Record!records, RecordTyped
<1>. QED BY <1>1, <1>2, <1>3, <1>4, <1>5, <1>6, <1>7, <1>8, <1>9 DEF Record!Next

(* The signals are a matter of the record; the sheriff's own page is not.  *)
LEMMA SignalsStay ==
  ASSUME UNCHANGED <<year, viol, compl, tax, inventory, listings, deeds>>
  PROVE  /\ Record!Signals' = Record!Signals /\ Record!ListedOpen' = Record!ListedOpen
         /\ Record!LatestTax' = Record!LatestTax
<1>1. /\ Record!OpenViolations' = Record!OpenViolations /\ Record!ListedOpen' = Record!ListedOpen
      /\ \A c, n : Record!Filed(c, n)' = Record!Filed(c, n)
  BY DEF Record!OpenViolations, Record!ListedOpen, Record!Filed
<1>2. Record!LatestTax' = Record!LatestTax
  BY DEF Record!LatestTax, Record!Taxed
<1>3. Record!BelowMarket' = Record!BelowMarket
  BY DEF Record!BelowMarket, Record!Market, Record!LastPrice
<1>. QED BY <1>1, <1>2, <1>3 DEF Record!Signals

LEMMA RecordStep ==
  ASSUME RecordInv, Record!Next
  PROVE  RecordInv'
<1>1. RecordTyped'
  BY TypedStep DEF RecordInv
<1>2. ASSUME page' = None, row' = row, ~ fresh' PROVE RecordInv'
  BY <1>1, <1>2 DEF RecordInv, PageAgrees, Record!PageAgrees
<1>3. ASSUME Record!Load PROVE RecordInv'
  BY <1>2, <1>3 DEF Record!Load
<1>4. CASE Record!YearPasses
  BY <1>2, <1>4 DEF Record!YearPasses
<1>5. ASSUME NEW status, Record!Proceed(status) PROVE RecordInv'
  <2>1. UNCHANGED <<year, viol, compl, tax, inventory, listings, deeds, row, fresh, page>>
    BY <1>5 DEF Record!Proceed
  <2>2. /\ Record!Signals' = Record!Signals /\ Record!ListedOpen' = Record!ListedOpen
    BY <2>1, SignalsStay
  <2>. QED BY <1>1, <2>1, <2>2, RecordCounts DEF RecordInv, PageAgrees, Record!PageAgrees
<1>6. CASE Record!Refresh
  <2>1. /\ row' = (IF active THEN [raw |-> Record!Signals, score |-> Record!ScoreSql(Record!Signals),
                                   points |-> Record!Points(Record!ScoreSql(Record!Signals))]
                   ELSE None)
        /\ page' = None
        /\ UNCHANGED <<year, viol, compl, tax, inventory, listings, deeds>>
    BY <1>6 DEF Record!Refresh, Record!records
  <2>2. Scored(Record!Signals)
    BY SignalsTyped DEF RecordInv
  <2>3. Record!Signals' = Record!Signals
    BY <2>1, SignalsStay
  <2>. QED BY <1>1, <2>1, <2>2, <2>3 DEF RecordInv, PageAgrees, Record!PageAgrees
<1>7. CASE Record!OpenPage
  <2>1. UNCHANGED <<year, viol, compl, tax, inventory, listings, deeds, row, fresh>>
    BY <1>7 DEF Record!OpenPage, Record!records
  <2>2. Record!Signals' = Record!Signals
    BY <2>1, SignalsStay
  <2>3. PageAgrees'
    BY <1>7, OpenPageStep
  <2>. QED BY <1>1, <2>1, <2>2, <2>3 DEF RecordInv
<1>. QED BY <1>3, <1>4, <1>5, <1>6, <1>7
         DEF Record!Next, Record!LoadViolation, Record!LoadComplaint, Record!LoadDelinquency,
             Record!LoadInventory, Record!LoadDeed, Record!Scrape, Record!LoadParcel

LEMMA RecordRest ==
  ASSUME RecordInv, UNCHANGED recordVars
  PROVE  RecordInv'
<1>1. UNCHANGED <<year, viol, compl, tax, inventory, listings, deeds, row, fresh, page>>
  BY DEF recordVars
<1>2. /\ Record!Signals' = Record!Signals /\ Record!ListedOpen' = Record!ListedOpen
  BY <1>1, SignalsStay
<1>. QED BY <1>1, <1>2, RecordCounts
         DEF RecordInv, RecordTyped, PageAgrees, Record!PageAgrees

(* A deed that is no market sale leaves the last price alone. *)
LEMMA MarketStays ==
  ASSUME RecordTyped, RecordTyped', Record!Next, Record!Benign
  PROVE  Record!BelowMarket' = Record!BelowMarket
<1>1. CASE deeds' = deeds
  BY <1>1 DEF Record!BelowMarket, Record!Market, Record!LastPrice
<1>2. CASE deeds' # deeds
  <2>1. PICK d \in Deeds : deeds' = Append(deeds, d)
    <3>1. Record!Refresh \/ Record!OpenPage => deeds' = deeds
      BY DEF Record!Refresh, Record!OpenPage, Record!records
    <3>2. ASSUME NEW d \in Deeds, Record!LoadDeed(d) PROVE deeds' = Append(deeds, d)
      BY <3>2 DEF Record!LoadDeed
    <3>. QED BY <1>2, <3>1, <3>2
             DEF Record!Next, Record!LoadViolation, Record!LoadComplaint, Record!LoadDelinquency,
                 Record!LoadInventory, Record!Proceed, Record!Scrape, Record!LoadParcel,
                 Record!YearPasses
  <2>2. /\ Len(deeds) \in Nat /\ DOMAIN deeds = 1 .. Len(deeds)
        /\ DOMAIN deeds' = 1 .. Len(deeds) + 1 /\ Len(deeds') = Len(deeds) + 1
        /\ deeds'[Len(deeds) + 1] = d /\ \A i \in 1 .. Len(deeds) : deeds'[i] = deeds[i]
    BY <2>1 DEF RecordTyped
  <2>3. d.doc # "deed" \/ d.estate \/ d.price = None \/ d.price <= Floor
    BY <1>2, <2>2 DEF Record!Benign
  <2>4. ~ Record!ArmsLength(d)
    BY <2>3, RecordConstants DEF Record!ArmsLength, Record!NonMarket
  <2>5. Record!Market' = Record!Market
    BY <2>2, <2>4 DEF Record!Market
  <2>6. Record!Market # {} => Record!LastPrice' = Record!LastPrice
    <3>1. ASSUME NEW i \in Record!Market PROVE deeds'[i].price = deeds[i].price
      BY <2>2 DEF Record!Market
    <3>2. Record!LastPrice' = deeds'[CHOOSE i \in Record!Market : \A j \in Record!Market : j <= i].price
      BY <2>5 DEF Record!LastPrice
    <3>. QED BY <3>1, <3>2, LastPriceFact
  <2>. QED BY <2>5, <2>6 DEF Record!BelowMarket
<1>. QED BY <1>1, <1>2

(* Without an adverse filing no signal rises. *)
LEMMA SignalsFall ==
  ASSUME RecordTyped, Record!Next, Record!Benign
  PROVE  Record!ScoreSql(Record!Signals') <= Record!ScoreSql(Record!Signals)
<1>. DEFINE r == Record!Signals'
            s == Record!Signals
<1>1. RecordTyped' /\ year <= year' /\ year \in Nat /\ year' \in Nat
  BY TypedStep, RecordConstants DEF RecordTyped
<1>2. Scored(s) /\ Scored(r)
  <2>1. (RecordTyped => Scored(Record!Signals))'
    BY SignalsScored, PTL
  <2>. QED BY <1>1, <2>1, SignalsTyped DEF Scored
<1>3. r.tax_delinquent <= s.tax_delinquent
      /\ (r.actionable_sheriff_flag => s.actionable_sheriff_flag)
  BY DEF Record!Benign, Record!Signals
<1>4. Record!OpenViolations' \subseteq Record!OpenViolations
  BY DEF Record!Benign, Record!OpenViolations, Record!Open
<1>5. r.open_violations <= s.open_violations
  <2>. DEFINE O == Record!OpenViolations
              N == Record!OpenViolations'
  <2>1. /\ O \in SUBSET Violations /\ O \cap Hazardous \in SUBSET Violations
        /\ N \in SUBSET O /\ N \cap Hazardous \in SUBSET (O \cap Hazardous)
    BY <1>4 DEF Record!OpenViolations
  <2>2. /\ Cardinality(N) <= Cardinality(O)
        /\ Cardinality(N \cap Hazardous) <= Cardinality(O \cap Hazardous)
        /\ Cardinality(N) \in Nat /\ Cardinality(O) \in Nat
        /\ Cardinality(N \cap Hazardous) \in Nat /\ Cardinality(O \cap Hazardous) \in Nat
    <3>. HIDE DEF O, N
    <3>1. IsFiniteSet(O) /\ IsFiniteSet(O \cap Hazardous)
      BY <2>1, RecordConstants, Counted
    <3>. QED BY <2>1, <3>1, Counted, FS_CardinalityType
  <2>3. /\ s.open_violations = Cardinality(O) + Cardinality(O \cap Hazardous)
        /\ r.open_violations = Cardinality(N) + Cardinality(N \cap Hazardous)
    BY RecordCounts DEF Record!Signals
  <2>. HIDE DEF O, N
  <2>. QED BY <2>2, <2>3
<1>6. \A c \in Complaints, n \in Nat : Record!Filed(c, n)' => Record!Filed(c, n)
  <2>1. compl' = compl /\ \A c \in Complaints : compl[c] \in Nat \cup {None}
    BY DEF Record!Benign, RecordTyped
  <2>. QED BY <1>1, <2>1 DEF Record!Filed
<1>7. r.recent_complaints <= s.recent_complaints
  <2>. DEFINE C == {c \in Complaints : Record!Filed(c, 1)}
              D == {c \in Complaints : Record!Filed(c, 1)'}
  <2>1. C \in SUBSET Complaints /\ D \in SUBSET C
    BY <1>6
  <2>2. Cardinality(D) <= Cardinality(C)
    <3>. HIDE DEF C, D
    <3>1. IsFiniteSet(C)
      BY <2>1, RecordConstants, Counted
    <3>. QED BY <2>1, <3>1, Counted
  <2>3. s.recent_complaints = Cardinality(C) /\ r.recent_complaints = Cardinality(D)
    BY RecordCounts DEF Record!Signals
  <2>. QED BY <2>2, <2>3
<1>8. r.below_market_last_sale <= s.below_market_last_sale
  <2>1. /\ r.below_market_last_sale = Record!BelowMarket'
        /\ s.below_market_last_sale = Record!BelowMarket
    BY DEF Record!Signals
  <2>2. r.below_market_last_sale = s.below_market_last_sale
    BY <1>1, <2>1, MarketStays
  <2>. QED BY <1>2, <2>2 DEF Scored
<1>9. r.unsafe_or_imm_dang => s.unsafe_or_imm_dang
  BY DEF Record!Benign, Record!Signals
<1>10. /\ r.on_sheriff_list => s.on_sheriff_list
       /\ r.out_of_state_owner => s.out_of_state_owner
  BY DEF Record!Benign, Record!Signals
<1>11. r.vacancy_proxy => s.vacancy_proxy
  <2>1. /\ r.vacancy_proxy <=> \/ Record!OpenViolations' \cap Vacancy # {}
                               \/ inventory'["demolition"] # None
                               \/ \E c \in Complaints \cap Vacancy : Record!Filed(c, 2)'
        /\ s.vacancy_proxy <=> \/ Record!OpenViolations \cap Vacancy # {}
                               \/ inventory["demolition"] # None
                               \/ \E c \in Complaints \cap Vacancy : Record!Filed(c, 2)
    BY DEF Record!Signals
  <2>. QED BY <1>4, <1>6, <2>1 DEF Record!Benign
<1>. HIDE DEF r, s
<1>12. /\ \A k \in Numbers : r[k] <= s[k]
       /\ \A k \in Flags : r[k] => s[k]
  BY <1>3, <1>5, <1>7, <1>8, <1>9, <1>10, <1>11 DEF Numbers, Flags
<1>13. Record!ScoreSql(r) <= Record!ScoreSql(s)
  BY <1>2, <1>12, ScoreGrows
<1>. QED BY <1>13 DEF r, s

-----------------------------------------------------------------------------
(* Theorems of the specification *)

LEMMA PartsStep ==
  ASSUME CompsInv, RecordInv, [Next]_vars
  PROVE  CompsInv' /\ RecordInv'
<1>1. CASE OnComps
  BY <1>1, CompsStep, RecordRest DEF OnComps
<1>2. CASE OnRecord
  BY <1>2, CompsRest, RecordStep DEF OnRecord
<1>3. CASE UNCHANGED vars
  BY <1>3, CompsRest, RecordRest DEF vars
<1>. QED BY <1>1, <1>2, <1>3 DEF Next

LEMMA PartsInvariant == Spec => [](CompsInv /\ RecordInv)
<1>1. Init => CompsInv /\ RecordInv
  BY CompsInit, RecordInit DEF Init
<1>2. CompsInv /\ RecordInv /\ [Next]_vars => (CompsInv /\ RecordInv)'
  BY PartsStep
<1>. QED BY <1>1, <1>2, PTL DEF Spec

(* The ladder (selectComps): the comps are the matches of the first filter *)
(* state of the documented order that has enough of them, whatever the     *)
(* market, the tolerances and the radii.                                   *)
THEOREM LadderStops == Spec => []StopsAtFirstRung
<1>1. CompsInv => StopsAtFirstRung
  BY DEF CompsInv, LadderInv
<1>. QED BY <1>1, PartsInvariant, PTL

(* The estimate (trimOutliers, percentile): what is shown as the value is  *)
(* the median of the kept sales times the area, and the trim leaves one to *)
(* take the median of wherever three have a price.                         *)
THEOREM EstimateIsSound == Spec => []EstimateSound
<1>1. CompsInv => EstimateSound
  BY DEF CompsInv
<1>. QED BY <1>1, PartsInvariant, PTL

(* The card (curateComps): one sale of each parcel, full, the pinned before *)
(* the others and of those the nearest, for every size of the card.        *)
THEOREM CardStaysCurated == Spec => []CardIsCurated
<1>1. CompsInv => CardIsCurated
  BY DEF CompsInv
<1>. QED BY <1>1, PartsInvariant, PTL

(* The page (distressFromRow) and the matview (distressSql) score a parcel *)
(* alike, to the half point, and a fresh page's cards agree with its row.  *)
THEOREM PageAlwaysAgrees == Spec => []PageAgrees
<1>1. RecordInv => PageAgrees
  BY DEF RecordInv
<1>. QED BY <1>1, PartsInvariant, PTL

(* The signals (distressSql, deriveTransferFlags): a step that files       *)
(* nothing adverse does not raise the score.                               *)
THEOREM OnlyFilingsRaiseScore == Spec => OnlyFilingsRaise
<1>1. ASSUME RecordInv, [Next]_vars
      PROVE  [Record!Benign => \A old \in {Record!Signals}, new \in {Record!Signals'} :
                Record!ScoreSql(new) <= Record!ScoreSql(old)]_(Record!records)
  <2>1. CASE OnRecord
    BY <1>1, <2>1, SignalsFall DEF OnRecord, RecordInv
  <2>2. CASE UNCHANGED recordVars
    BY <2>2 DEF recordVars, Record!records
  <2>. QED BY <1>1, <2>1, <2>2 DEF Next, OnComps, vars
<1>. QED BY <1>1, PartsInvariant, PTL DEF Spec, OnlyFilingsRaise, Record!OnlyFilingsRaise
=============================================================================
