------------------------------ MODULE WebProofs ------------------------------
(***************************************************************************)
(* What holds of the pages for any lenses, geographies, markets, accounts  *)
(* and any number of clicks and failed requests.                           *)
(***************************************************************************)
EXTENDS MCWeb, FiniteSets, FiniteSetTheorems, SequenceTheorems, TLAPS

(* Failures are counted, on whichever page they happen. *)
LEMMA FaultsCount ==
  ASSUME faults \in Nat, [Next]_vars
  PROVE  faults' \in {faults, faults + 1}
<1>1. ASSUME Scan!Next PROVE faults' \in {faults, faults + 1}
  BY <1>1 DEF Scan!Next, Scan!ChooseLens, Scan!ChooseGeoType, Scan!ChoosePeriod,
     Scan!ChooseFromList, Scan!ClickPolygon, Scan!SaveArea, Scan!LoadMap, Scan!Answer, Scan!Fail,
     Scan!Deliver, Scan!FailSent, Scan!AnswerBounds, Scan!AnswerDefault, Scan!AnswerDetail,
     Scan!AnswerBoundaries, Scan!AnswerPaint, Scan!AnswerSave
<1>2. ASSUME Leads!Next PROVE faults' \in {faults, faults + 1}
  BY <1>2 DEF Leads!Next, Leads!Edit, Leads!Retry, Leads!Fire, Leads!LoadMore, Leads!Export,
     Leads!Refresh, Leads!PressSave, Leads!Unsave, Leads!Patch, Leads!Answer, Leads!Ignore,
     Leads!AnswerFirst, Leads!AnswerMore, Leads!AnswerSave, Leads!FailFirst, Leads!FailMore,
     Leads!FailSave
<1>3. ASSUME Account!Next PROVE faults' \in {faults, faults + 1}
  BY <1>3 DEF Account!Next, Account!ToggleAttestation, Account!RemoveKey, Account!SaveArea,
     Account!MarkAllRead, Account!OpenBilling, Account!SignIn, Account!MagicLink, Account!SaveKey,
     Account!RemoveArea, Account!CreateAlert, Account!RemoveAlert, Account!Press, Account!Answer,
     Account!ServeFirst, Account!Serve, Account!Land, Account!LandBilling, Account!LandLogin,
     Account!Refuse, Account!Throw, Account!Fetch, Account!RefuseRead, Account!Fault
<1>4. UNCHANGED vars => faults' = faults
  BY DEF vars
<1>. QED BY <1>1, <1>2, <1>3, <1>4 DEF Next, OnScan, OnLeads, OnAccount

-----------------------------------------------------------------------------
(* The rail.  The only detail asked for is the selection's. *)

AskedDetail == Scan!Req("detail", None, selected.geo_type, None, selected)

RailInv ==
  /\ faults \in Nat
  /\ \A r \in asked : r.eff = "detail" => r = AskedDetail /\ railLoading
  /\ RailFollows

LEMMA RailInit == Init => RailInv
<1>. SUFFICES ASSUME Init PROVE RailInv
  OBVIOUS
<1>1. \A r \in asked : r.eff # "detail"
  <2>1. ASSUME NEW rs, NEW q, \A r \in rs : r.eff # "detail", q.eff # "detail"
        PROVE  \A r \in Scan!Rerun(rs, q) : r.eff # "detail"
    BY <2>1 DEF Scan!Rerun
  <2>2. \A e, l, g, p, it : Scan!Req(e, l, g, p, it).eff = e
    BY DEF Scan!Req
  <2>3. \A r \in Scan!Bounds({}, lens, geoType) : r.eff # "detail"
    BY <2>1, <2>2 DEF Scan!Bounds
  <2>4. \A r \in Scan!Default(Scan!Bounds({}, lens, geoType), geoType) : r.eff # "detail"
    BY <2>1, <2>2, <2>3 DEF Scan!Default
  <2>5. asked = Scan!Boundaries(Scan!Default(Scan!Bounds({}, lens, geoType), geoType), geoType)
    BY DEF Init, Scan!Init
  <2>. QED BY <2>1, <2>2, <2>4, <2>5 DEF Scan!Boundaries
<1>2. faults = 0 /\ detail = None
  BY DEF Init, Scan!Init
<1>. QED BY <1>1, <1>2 DEF RailInv, RailFollows, Scan!RailFollows

LEMMA RailStep == RailInv /\ [Next]_vars => RailInv'
<1>. SUFFICES ASSUME RailInv, [Next]_vars PROVE RailInv'
  OBVIOUS
<1>1. faults' \in Nat /\ (faults' = 0 => faults = 0)
  BY FaultsCount DEF RailInv
<1>2. ASSUME UNCHANGED <<asked, selected, railLoading, detail>> PROVE RailInv'
  BY <1>1, <1>2 DEF RailInv, RailFollows, Scan!RailFollows, Scan!Known, AskedDetail,
                    Scan!Req
<1>3. CASE UNCHANGED vars \/ OnLeads \/ OnAccount
  BY <1>2, <1>3 DEF vars, OnLeads, OnAccount, scanVars
<1>4. ASSUME UNCHANGED <<selected, railLoading, detail>>,
             \A r \in asked' : r \in asked \/ r.eff # "detail"
      PROVE  RailInv'
  BY <1>1, <1>4 DEF RailInv, RailFollows, Scan!RailFollows, Scan!Known, AskedDetail,
                    Scan!Req
<1>5. ASSUME NEW rs, NEW it, Scan!Select(rs, it), rs \subseteq asked
      PROVE  RailInv'
  <2>1. railLoading' /\ selected' = it
    BY <1>5 DEF Scan!Select
  <2>2. \A r \in asked' : r.eff = "detail" => r = AskedDetail'
    BY <1>5 DEF Scan!Select, Scan!Detail, Scan!Rerun, Scan!Req, AskedDetail
  <2>. QED BY <1>1, <2>1, <2>2 DEF RailInv, RailFollows, Scan!RailFollows
<1>6. ASSUME NEW l \in Scan!Lenses, Scan!ChooseLens(l) PROVE RailInv'
  BY <1>4, <1>6 DEF Scan!ChooseLens, Scan!rail, Scan!Bounds, Scan!Rerun, Scan!Req
<1>7. ASSUME NEW g \in GeoTypes, Scan!ChooseGeoType(g) PROVE RailInv'
  BY <1>4, <1>7 DEF Scan!ChooseGeoType, Scan!rail, Scan!Bounds, Scan!Default,
                    Scan!Boundaries,
     Scan!Rerun, Scan!Req
<1>8. ASSUME NEW p \in Scan!StripStops, Scan!ChoosePeriod(p) PROVE RailInv'
  BY <1>2, <1>8 DEF Scan!ChoosePeriod, Scan!rail
<1>9. ASSUME NEW id \in Ids, Scan!ChooseFromList(id) \/ Scan!ClickPolygon(id) PROVE RailInv'
  BY <1>5, <1>9 DEF Scan!ChooseFromList, Scan!ClickPolygon
<1>10. CASE Scan!SaveArea \/ Scan!LoadMap
  BY <1>2, <1>10 DEF Scan!SaveArea, Scan!LoadMap, Scan!rail
<1>11. ASSUME NEW r \in asked, Scan!AnswerBounds(r) \/ Scan!AnswerBoundaries(r)
       PROVE RailInv'
  BY <1>4, <1>11 DEF Scan!AnswerBounds, Scan!AnswerBoundaries, Scan!rail
<1>12. ASSUME NEW r \in asked, Scan!AnswerDefault(r) PROVE RailInv'
  <2>1. CASE Scan!HasFeatures("distress")
    BY <1>5, <1>12, <2>1 DEF Scan!AnswerDefault
  <2>2. CASE ~ Scan!HasFeatures("distress")
    BY <1>4, <1>12, <2>2 DEF Scan!AnswerDefault
  <2>. QED BY <2>1, <2>2
<1>13. ASSUME NEW r \in asked, Scan!AnswerDetail(r) PROVE RailInv'
  <2>1. r = AskedDetail /\ selected' = selected
    BY <1>13 DEF Scan!AnswerDetail, RailInv
  <2>2. \A q \in asked' : q.eff # "detail"
    BY <1>13, <2>1 DEF Scan!AnswerDetail, RailInv
  <2>3. r.item = selected
    BY <2>1 DEF AskedDetail, Scan!Req
  <2>4. Scan!Known(selected) => detail' = selected
    BY <1>13, <2>3 DEF Scan!AnswerDetail
  <2>. QED BY <1>1, <2>1, <2>2, <2>4 DEF RailInv, RailFollows, Scan!RailFollows
<1>14. ASSUME NEW r \in asked, Scan!Fail(r) PROVE RailInv'
  <2>1. faults' # 0 /\ selected' = selected
    BY <1>14 DEF Scan!Fail, RailInv
  <2>2. \A q \in asked' : q.eff = "detail" => q = AskedDetail' /\ railLoading /\ r.eff # "detail"
    BY <1>14, <2>1 DEF Scan!Fail, RailInv, AskedDetail, Scan!Req
  <2>3. r.eff # "detail" /\ railLoading => railLoading'
    BY <1>14 DEF Scan!Fail, Scan!Dimmed
  <2>. QED BY <1>1, <2>1, <2>2, <2>3 DEF RailInv, RailFollows, Scan!RailFollows
<1>15. ASSUME NEW i \in DOMAIN sent, Scan!Deliver(i) \/ Scan!FailSent(i) PROVE RailInv'
  BY <1>2, <1>15 DEF Scan!Deliver, Scan!AnswerPaint, Scan!AnswerSave, Scan!FailSent,
                     Scan!rail
<1>16. CASE OnScan
  BY <1>6, <1>7, <1>8, <1>9, <1>10, <1>11, <1>12, <1>13, <1>14, <1>15, <1>16
     DEF OnScan, Scan!Next, Scan!Answer
<1>. QED BY <1>3, <1>16 DEF Next

(* No answer of an earlier selection is ever shown under a later one, for    *)
(* any choices in any order (MarketScan.tsx, effect C and its cleanup).      *)
THEOREM RailAlwaysFollows == Spec => []RailFollows
<1>1. RailInv => RailFollows
  BY DEF RailInv
<1>. QED BY RailInit, RailStep, <1>1, PTL DEF Spec

-----------------------------------------------------------------------------
(* Sequences whose elements are not typed. *)

IsSeq(s) == s \in Seq({s[i] : i \in DOMAIN s})

LEMMA SeqShape == ASSUME NEW s, IsSeq(s) PROVE Len(s) \in Nat /\ DOMAIN s = 1 .. Len(s)
BY LenProperties DEF IsSeq

LEMMA MemberSeq ==
  ASSUME NEW S, NEW s \in Seq(S)
  PROVE  IsSeq(s)
<1>1. Len(s) \in Nat /\ DOMAIN s = 1 .. Len(s) /\ s \in [1 .. Len(s) -> S]
  BY LenProperties
<1>. DEFINE T == {s[i] : i \in DOMAIN s}
<1>2. \A i \in 1 .. Len(s) : s[i] \in T
  BY <1>1
<1>. HIDE DEF T
<1>3. s = [i \in 1 .. Len(s) |-> s[i]]
  BY <1>1
<1>4. s \in [1 .. Len(s) -> T]
  BY <1>2, <1>3
<1>5. s \in UNION {[1 .. n -> T] : n \in Nat}
  BY <1>1, <1>4
<1>6. s \in Seq(T)
  BY <1>5, SeqDef
<1>. QED BY <1>6 DEF IsSeq, T

LEMMA FunctionSeq ==
  ASSUME NEW n \in Nat, NEW f, f = [i \in 1 .. n |-> f[i]]
  PROVE  IsSeq(f) /\ Len(f) = n /\ DOMAIN f = 1 .. n
<1>. DEFINE T == {f[i] : i \in DOMAIN f}
<1>1. DOMAIN f = 1 .. n
  OBVIOUS
<1>2. \A i \in 1 .. n : f[i] \in T
  BY <1>1
<1>. HIDE DEF T
<1>3. f \in [1 .. n -> T]
  BY <1>2
<1>4. f \in UNION {[1 .. m -> T] : m \in Nat}
  BY <1>3
<1>5. f \in Seq(T)
  BY <1>4, SeqDef
<1>6. Len(f) = n
  <2>1. Len(f) \in Nat /\ DOMAIN f = 1 .. Len(f)
    BY <1>5, LenProperties
  <2>. QED BY <1>1, <2>1
<1>. QED BY <1>1, <1>5, <1>6 DEF IsSeq, T

LEMMA Appended ==
  ASSUME NEW s, NEW e, IsSeq(s)
  PROVE  /\ IsSeq(Append(s, e))
         /\ Len(Append(s, e)) = Len(s) + 1
         /\ \A i \in 1 .. Len(s) : Append(s, e)[i] = s[i]
         /\ Append(s, e)[Len(s) + 1] = e
<1>. DEFINE T == {s[i] : i \in DOMAIN s} \cup {e}
<1>1. s \in Seq(T) /\ e \in T
  <2>1. s \in Seq({s[i] : i \in DOMAIN s})
    BY DEF IsSeq
  <2>. QED BY <2>1
<1>. HIDE DEF T
<1>2. /\ Append(s, e) \in Seq(T)
      /\ Len(Append(s, e)) = Len(s) + 1
      /\ \A i \in 1 .. Len(s) : Append(s, e)[i] = s[i]
      /\ Append(s, e)[Len(s) + 1] = e
  BY <1>1, AppendProperties
<1>3. IsSeq(Append(s, e))
  BY <1>2, MemberSeq
<1>. QED BY <1>2, <1>3

LEMMA Removed ==
  ASSUME NEW s, IsSeq(s), NEW i \in DOMAIN s
  PROVE  /\ IsSeq(Scan!RemoveAt(s, i))
         /\ Len(Scan!RemoveAt(s, i)) = Len(s) - 1
         /\ \A j \in 1 .. Len(s) - 1 :
              Scan!RemoveAt(s, i)[j] = IF j < i THEN s[j] ELSE s[j + 1]
<1>. DEFINE S == {s[j] : j \in DOMAIN s}
            a == SubSeq(s, 1, i - 1)
            b == SubSeq(s, i + 1, Len(s))
<1>1. Len(s) \in Nat /\ DOMAIN s = 1 .. Len(s) /\ \A j \in 1 .. Len(s) : s[j] \in S
  BY SeqShape
<1>. HIDE DEF S
<1>2. i \in 1 .. Len(s)
  BY <1>1
<1>3. a \in Seq(S) /\ Len(a) = i - 1 /\ \A j \in 1 .. i - 1 : a[j] = s[j]
  BY <1>1, <1>2, SubSeqProperties
<1>4. b \in Seq(S) /\ Len(b) = Len(s) - i /\ \A j \in 1 .. Len(s) - i : b[j] = s[i + j]
  BY <1>1, <1>2, SubSeqProperties
<1>5. Scan!RemoveAt(s, i) = a \o b
  BY DEF Scan!RemoveAt
<1>. HIDE DEF a, b
<1>6. /\ a \o b \in Seq(S) /\ Len(a \o b) = Len(s) - 1
      /\ \A j \in 1 .. Len(s) - 1 : (a \o b)[j] = IF j <= i - 1 THEN a[j] ELSE b[j - (i - 1)]
  <2>1. /\ a \o b \in Seq(S) /\ Len(a \o b) = Len(a) + Len(b)
        /\ \A j \in 1 .. Len(a) + Len(b) : (a \o b)[j] = IF j <= Len(a) THEN a[j] ELSE b[j - Len(a)]
    BY <1>3, <1>4, ConcatProperties
  <2>2. Len(a) + Len(b) = Len(s) - 1
    BY <1>1, <1>2, <1>3, <1>4
  <2>. QED BY <1>3, <2>1, <2>2
<1>7. ASSUME NEW j \in 1 .. Len(s) - 1
      PROVE  (a \o b)[j] = IF j < i THEN s[j] ELSE s[j + 1]
  <2>1. CASE j < i
    BY <1>1, <1>2, <1>3, <1>6, <2>1
  <2>2. CASE ~ (j < i)
    <3>1. j - (i - 1) \in 1 .. Len(s) - i /\ i + (j - (i - 1)) = j + 1
      BY <1>1, <1>2, <2>2
    <3>2. (a \o b)[j] = b[j - (i - 1)]
      BY <1>1, <1>2, <1>6, <2>2
    <3>. QED BY <1>4, <2>2, <3>1, <3>2
  <2>. QED BY <2>1, <2>2
<1>. QED BY <1>5, <1>6, <1>7, MemberSeq

-----------------------------------------------------------------------------
(* The map.  The last paint asked for is the one the page names. *)

NoPaintAfter(s, n) == \A j \in DOMAIN s : j > n => s[j].eff # "paint"

(* What the page names, as a request. *)
Wanted == Scan!Req("paint", lens, geoType, period, geoType)

(* Once that one has been answered, whatever is still to come is late.     *)
AllLate(s) == \A j \in DOMAIN s : s[j].eff = "paint" => s[j].late

LastPaintWanted ==
  \/ AllLate(sent) /\ (Scan!ShowsChoice \/ painted.late)
  \/ \E n \in DOMAIN sent : sent[n] = Wanted /\ NoPaintAfter(sent, n)

ReqFields == {"eff", "lens", "geo", "period", "item", "late"}
Fits(s) ==
  \A i \in DOMAIN s :
    /\ DOMAIN s[i] = ReqFields
    /\ s[i].eff = "paint" => s[i].item = s[i].geo

(* The parts a failure does not touch. *)
Joined ==
  /\ faults \in Nat /\ IsSeq(sent) /\ Fits(sent)
  /\ painted.on = painted.geo
  /\ \A r \in asked : r.eff = "boundary" => r.geo = geoType

PaintInv ==
  /\ Joined
  /\ faults = 0 /\ boundary # geoType => \E r \in asked : r.eff = "boundary"
  /\ faults = 0 /\ ready /\ boundary = geoType => LastPaintWanted

LEMMA PaintInit == Init => PaintInv
<1>. SUFFICES ASSUME Init PROVE PaintInv
  OBVIOUS
<1>1. \A e, l, g, p, it : Scan!Req(e, l, g, p, it).eff = e /\ Scan!Req(e, l, g, p, it).geo = g
  BY DEF Scan!Req
<1>2. asked = Scan!Boundaries(Scan!Default(Scan!Bounds({}, lens, geoType), geoType), geoType)
  BY Zenon DEF Init, Scan!Init
<1>3. \A r \in asked : r.eff = "boundary" => r.geo = geoType
  BY <1>1, <1>2 DEF Scan!Boundaries, Scan!Rerun
<1>4. \E r \in asked : r.eff = "boundary"
  BY <1>1, <1>2 DEF Scan!Boundaries, Scan!Rerun
<1>5. sent = <<>> /\ painted.on = painted.geo /\ ready = FALSE /\ faults = 0
  <2>1. sent = <<>> /\ painted = Scan!NoPaint /\ ready = FALSE /\ faults = 0
    BY Zenon DEF Init, Scan!Init
  <2>. QED BY <2>1 DEF Scan!NoPaint
<1>6. IsSeq(sent) /\ DOMAIN sent = {}
  <2>1. sent \in Seq({}) /\ Len(sent) = 0
    BY <1>5
  <2>2. IsSeq(sent)
    BY <2>1, MemberSeq
  <2>3. DOMAIN sent = 1 .. 0
    BY <2>1, <2>2, SeqShape
  <2>. QED BY <2>2, <2>3
<1>. QED BY <1>3, <1>4, <1>5, <1>6 DEF PaintInv, Joined, Fits

(* A paint joined by applyData is the last, and is of one geography. *)
LEMMA PaintAdded ==
  ASSUME NEW s, IsSeq(s), NEW l, NEW g, NEW p, NEW b, NEW on, Fits(s)
  PROVE  LET t == Scan!ApplyData(s, l, g, p, b, on) IN
           /\ IsSeq(t) /\ Fits(t)
           /\ on /\ b = g => \E n \in DOMAIN t :
                               t[n] = Scan!Req("paint", l, g, p, g) /\ NoPaintAfter(t, n)
<1>1. CASE ~ (on /\ b = g)
  BY <1>1 DEF Scan!ApplyData
<1>2. CASE on /\ b = g
  <2>. DEFINE e == Scan!Req("paint", l, g, p, g)
              t == Append(s, e)
  <2>1. Scan!ApplyData(s, l, g, p, b, on) = t
    BY <1>2 DEF Scan!ApplyData
  <2>2. e.eff = "paint" /\ e.item = g /\ e.geo = g /\ DOMAIN e = ReqFields
    BY DEF Scan!Req, ReqFields
  <2>. HIDE DEF e
  <2>3. /\ IsSeq(t) /\ Len(t) = Len(s) + 1
        /\ \A i \in 1 .. Len(s) : t[i] = s[i]
        /\ t[Len(s) + 1] = e
    BY Appended
  <2>. HIDE DEF t
  <2>4. Len(s) \in Nat /\ DOMAIN s = 1 .. Len(s) /\ DOMAIN t = 1 .. Len(s) + 1
    BY <2>3, SeqShape
  <2>5. NoPaintAfter(t, Len(s) + 1)
    BY <2>4 DEF NoPaintAfter
  <2>6. Fits(t)
    <3>1. ASSUME NEW i \in DOMAIN t, i # Len(s) + 1 PROVE i \in DOMAIN s /\ t[i] = s[i]
      BY <2>3, <2>4, <3>1
    <3>. QED BY <2>2, <2>3, <3>1 DEF Fits
  <2>7. Len(s) + 1 \in DOMAIN t
    BY <2>4
  <2>. QED BY <2>1, <2>3, <2>5, <2>6, <2>7 DEF e
<1>. QED BY <1>1, <1>2

(* The paints before the one answered are late from now on. *)
LEMMA PaintOvertaken ==
  ASSUME NEW s, IsSeq(s), Fits(s), NEW k
  PROVE  LET o == Scan!Overtaken(s, k) IN
           /\ IsSeq(o) /\ Fits(o) /\ DOMAIN o = DOMAIN s
           /\ \A j \in DOMAIN s :
                /\ o[j].eff = s[j].eff
                /\ j < k /\ s[j].eff = "paint" => o[j].late
                /\ s[j].late => o[j].late
                /\ ~ (j < k) => o[j] = s[j]
<1>0. \A j \in DOMAIN s : DOMAIN s[j] = ReqFields /\ (s[j].eff = "paint" => s[j].item = s[j].geo)
  BY DEF Fits
<1>. DEFINE o == Scan!Overtaken(s, k)
<1>1. Len(s) \in Nat /\ DOMAIN s = 1 .. Len(s)
  BY SeqShape
<1>2. o = [j \in 1 .. Len(s) |-> IF j < k /\ s[j].eff = "paint"
                                THEN [s[j] EXCEPT !.late = TRUE] ELSE s[j]]
  BY <1>1 DEF Scan!Overtaken
<1>3. IsSeq(o) /\ DOMAIN o = DOMAIN s
  <2>. HIDE DEF o
  <2>1. o = [j \in 1 .. Len(s) |-> o[j]]
    BY <1>2
  <2>. QED BY <1>1, <2>1, FunctionSeq
<1>4. ASSUME NEW j \in DOMAIN s
      PROVE  /\ DOMAIN o[j] = ReqFields /\ o[j].eff = s[j].eff
             /\ o[j].item = s[j].item /\ o[j].geo = s[j].geo
             /\ j < k /\ s[j].eff = "paint" => o[j].late
             /\ s[j].late => o[j].late
             /\ ~ (j < k) => o[j] = s[j]
  <2>1. o[j] = IF j < k /\ s[j].eff = "paint" THEN [s[j] EXCEPT !.late = TRUE] ELSE s[j]
    BY <1>1, <1>2
  <2>2. DOMAIN s[j] = ReqFields
    BY <1>0
  <2>3. CASE j < k /\ s[j].eff = "paint"
    <3>1. o[j] = [s[j] EXCEPT !.late = TRUE]
      BY <2>1, <2>3
    <3>. HIDE DEF o
    <3>2. /\ DOMAIN o[j] = ReqFields /\ o[j].late = TRUE /\ o[j].eff = s[j].eff
          /\ o[j].item = s[j].item /\ o[j].geo = s[j].geo
      BY <2>2, <3>1 DEF ReqFields
    <3>. QED BY <2>3, <3>2
  <2>4. CASE ~ (j < k /\ s[j].eff = "paint")
    <3>1. o[j] = s[j]
      BY <2>1, <2>4
    <3>. HIDE DEF o
    <3>. QED BY <2>2, <2>4, <3>1
  <2>. QED BY <2>3, <2>4
<1>5. Fits(o)
  <2>. HIDE DEF o
  <2>1. ASSUME NEW j \in DOMAIN o
        PROVE  DOMAIN o[j] = ReqFields /\ (o[j].eff = "paint" => o[j].item = o[j].geo)
    BY <1>0, <1>3, <1>4
  <2>. QED BY <2>1 DEF Fits
<1>. QED BY <1>3, <1>4, <1>5

(* What is left when one request is taken out was there before, and the     *)
(* last paint stays the last.                                               *)
LEMMA PaintRemoved ==
  ASSUME NEW s, IsSeq(s), NEW k \in DOMAIN s, Fits(s)
  PROVE  LET t == Scan!RemoveAt(s, k) IN
           /\ IsSeq(t) /\ Fits(t)
           /\ \A i \in DOMAIN t : \E j \in DOMAIN s \ {k} : t[i] = s[j]
           /\ \A n \in DOMAIN s : NoPaintAfter(s, n) /\ n # k =>
                \E m \in DOMAIN t : t[m] = s[n] /\ NoPaintAfter(t, m)
<1>. DEFINE t == Scan!RemoveAt(s, k)
<1>1. /\ IsSeq(t) /\ Len(t) = Len(s) - 1
      /\ \A j \in 1 .. Len(s) - 1 : t[j] = IF j < k THEN s[j] ELSE s[j + 1]
  BY Removed
<1>. HIDE DEF t
<1>2. Len(s) \in Nat /\ DOMAIN s = 1 .. Len(s) /\ DOMAIN t = 1 .. Len(s) - 1
  BY <1>1, SeqShape
<1>3. \A j \in DOMAIN t : /\ j \in DOMAIN s /\ j + 1 \in DOMAIN s
                          /\ (j < k /\ t[j] = s[j]) \/ (j + 1 > k /\ t[j] = s[j + 1])
  <2>1. ASSUME NEW j \in DOMAIN t
        PROVE  /\ j \in DOMAIN s /\ j + 1 \in DOMAIN s
               /\ (j < k /\ t[j] = s[j]) \/ (j + 1 > k /\ t[j] = s[j + 1])
    <3>1. j \in 1 .. Len(s) - 1 /\ j + 1 \in 1 .. Len(s) /\ j \in 1 .. Len(s) /\ k \in 1 .. Len(s)
      BY <1>2
    <3>2. t[j] = IF j < k THEN s[j] ELSE s[j + 1]
      BY <1>1, <3>1
    <3>3. j < k \/ j + 1 > k
      BY <3>1
    <3>4. CASE j < k
      <4>1. t[j] = s[j]
        BY <3>2, <3>4
      <4>. QED BY <1>2, <3>1, <3>4, <4>1
    <3>5. CASE ~ (j < k)
      BY <1>2, <3>1, <3>2, <3>3, <3>5
    <3>. QED BY <3>4, <3>5
  <2>. QED BY <2>1
<1>4. \A i \in DOMAIN t : \E j \in DOMAIN s \ {k} : t[i] = s[j]
  <2>1. ASSUME NEW i \in DOMAIN t PROVE \E j \in DOMAIN s \ {k} : t[i] = s[j]
    BY <1>2, <1>3
  <2>. QED BY <2>1
<1>5. ASSUME NEW n \in DOMAIN s, NoPaintAfter(s, n), n # k
      PROVE  \E m \in DOMAIN t : t[m] = s[n] /\ NoPaintAfter(t, m)
  <2>1. CASE n < k
    <3>1. n \in DOMAIN t /\ t[n] = s[n]
      BY <1>1, <1>2, <2>1
    <3>2. NoPaintAfter(t, n)
      BY <1>2, <1>3, <1>5 DEF NoPaintAfter
    <3>. QED BY <3>1, <3>2
  <2>2. CASE n > k
    <3>1. n - 1 \in DOMAIN t /\ ~ (n - 1 < k) /\ n - 1 + 1 = n
      BY <1>2, <2>2
    <3>2. t[n - 1] = s[n]
      BY <1>1, <1>2, <3>1
    <3>3. NoPaintAfter(t, n - 1)
      BY <1>2, <1>3, <1>5, <2>2 DEF NoPaintAfter
    <3>. QED BY <3>1, <3>2, <3>3
  <2>. QED BY <1>2, <1>5, <2>1, <2>2
<1>6. Fits(t)
  BY <1>4 DEF Fits
<1>. QED BY <1>1, <1>4, <1>5, <1>6 DEF t

LEMMA PaintStep == PaintInv /\ [Next]_vars => PaintInv'
<1>. SUFFICES ASSUME PaintInv, [Next]_vars PROVE PaintInv'
  OBVIOUS
<1>1. faults' \in Nat /\ (faults' = 0 => faults = 0)
  BY FaultsCount DEF PaintInv, Joined
<1>2. \A e, l, g, p, it : /\ Scan!Req(e, l, g, p, it).eff = e
                          /\ Scan!Req(e, l, g, p, it).geo = g
                          /\ Scan!Req(e, l, g, p, it).item = it
  BY DEF Scan!Req
<1>3. IsSeq(sent) /\ Fits(sent)
  BY DEF PaintInv, Joined
(* Nothing of the map's, and no request for a geometry. *)
<1>4. ASSUME UNCHANGED <<geoType, ready, boundary, painted>>,
             \A r \in asked' : r.eff = "boundary" => r \in asked,
             \A r \in asked : r.eff = "boundary" /\ faults' = 0 => r \in asked',
             IsSeq(sent'), Fits(sent'),
             faults' = 0 /\ ready /\ boundary = geoType => LastPaintWanted'
      PROVE  PaintInv'
  BY <1>1, <1>4 DEF PaintInv, Joined
<1>5. ASSUME UNCHANGED <<sent, lens, geoType, period, painted>>, LastPaintWanted
      PROVE  LastPaintWanted'
  BY <1>5 DEF LastPaintWanted, Wanted, AllLate, Scan!ShowsChoice, NoPaintAfter
<1>6. ASSUME UNCHANGED <<sent, lens, geoType, period, ready, boundary, painted>>,
             \A r \in asked' : r.eff = "boundary" => r \in asked,
             \A r \in asked : r.eff = "boundary" /\ faults' = 0 => r \in asked'
      PROVE  PaintInv'
  BY <1>1, <1>3, <1>4, <1>5, <1>6 DEF PaintInv
<1>7. CASE UNCHANGED vars \/ OnLeads \/ OnAccount
  BY <1>6, <1>7 DEF vars, OnLeads, OnAccount, scanVars
(* A choice, or a geometry, asks applyData. *)
<1>8. ASSUME painted' = painted,
             sent' = Scan!ApplyData(sent, lens', geoType', period', boundary', ready'),
             faults' = 0 /\ boundary' # geoType' => \E r \in asked' : r.eff = "boundary",
             \A r \in asked' : r.eff = "boundary" => r.geo = geoType'
      PROVE  PaintInv'
  <2>1. /\ IsSeq(sent') /\ Fits(sent')
        /\ ready' /\ boundary' = geoType' =>
             \E n \in DOMAIN sent' :
               /\ sent'[n] = Scan!Req("paint", lens', geoType', period', geoType')
               /\ NoPaintAfter(sent', n)
    BY <1>3, <1>8, PaintAdded
  <2>2. ready' /\ boundary' = geoType' => LastPaintWanted'
    BY <2>1 DEF LastPaintWanted, Wanted, NoPaintAfter
  <2>. QED BY <1>1, <1>8, <2>1, <2>2 DEF PaintInv, Joined
<1>9. ASSUME NEW rs, NEW q, NEW r, r.eff = "boundary", q.eff # "boundary"
      PROVE  r \in Scan!Rerun(rs, q) <=> r \in rs
  BY <1>9 DEF Scan!Rerun

<1>10. ASSUME NEW rs, NEW it, Scan!Select(rs, it), rs \subseteq asked,
              \A r \in asked : r.eff = "boundary" => r \in rs
       PROVE  \A r : r.eff = "boundary" => (r \in asked' <=> r \in asked)
  BY <1>2, <1>9, <1>10 DEF Scan!Select, Scan!Detail
<1>11. faults' = 0 /\ boundary # geoType => \E r \in asked : r.eff = "boundary"
  BY <1>1 DEF PaintInv
<1>12. ASSUME NEW l \in Scan!Lenses, Scan!ChooseLens(l) PROVE PaintInv'
  <2>1. \A r : r.eff = "boundary" => (r \in asked' <=> r \in asked)
    BY <1>2, <1>9, <1>12 DEF Scan!ChooseLens, Scan!Bounds
  <2>2. UNCHANGED <<geoType, period, boundary, ready, painted>> /\ lens' = l
    BY <1>12 DEF Scan!ChooseLens, Scan!map
  <2>3. sent' = Scan!ApplyData(sent, lens', geoType', period', boundary', ready')
    BY <1>12, <2>2 DEF Scan!ChooseLens
  <2>. QED BY <1>8, <1>11, <2>1, <2>2, <2>3 DEF PaintInv, Joined
<1>13. ASSUME NEW g \in GeoTypes, Scan!ChooseGeoType(g) PROVE PaintInv'
  <2>1. /\ \A r \in asked' : r.eff = "boundary" => r.geo = g
        /\ \E r \in asked' : r.eff = "boundary"
    BY <1>2, <1>13 DEF Scan!ChooseGeoType, Scan!Boundaries, Scan!Rerun
  <2>2. UNCHANGED <<lens, period, boundary, ready, painted>> /\ geoType' = g
    BY <1>13 DEF Scan!ChooseGeoType, Scan!map
  <2>3. sent' = Scan!ApplyData(sent, lens', geoType', period', boundary', ready')
    BY <1>13, <2>2 DEF Scan!ChooseGeoType
  <2>. QED BY <1>8, <2>1, <2>2, <2>3
<1>14. ASSUME NEW p \in Scan!StripStops, Scan!ChoosePeriod(p) PROVE PaintInv'
  <2>1. UNCHANGED <<lens, geoType, boundary, ready, painted, asked>> /\ period' = p
    BY <1>14 DEF Scan!ChoosePeriod, Scan!map
  <2>2. sent' = Scan!ApplyData(sent, lens', geoType', period', boundary', ready')
    BY <1>14, <2>1 DEF Scan!ChoosePeriod
  <2>. QED BY <1>8, <1>11, <2>1, <2>2 DEF PaintInv, Joined
<1>15. ASSUME NEW id \in Ids, Scan!ChooseFromList(id) \/ Scan!ClickPolygon(id)
       PROVE PaintInv'
  <2>1. PICK it : Scan!Select(asked, it)
    BY <1>15 DEF Scan!ChooseFromList, Scan!ClickPolygon
  <2>2. \A r : r.eff = "boundary" => (r \in asked' <=> r \in asked)
    BY <1>10, <2>1
  <2>3. UNCHANGED <<sent, lens, geoType, period, ready, boundary, painted>>
    BY <1>15 DEF Scan!ChooseFromList, Scan!ClickPolygon, Scan!choice, Scan!map
  <2>. QED BY <1>6, <2>2, <2>3
<1>16. CASE Scan!SaveArea
  <2>. DEFINE e == Scan!Req("save", None, None, None, selected)
  <2>1. sent' = Append(sent, e) /\ e.eff = "save" /\ DOMAIN e = ReqFields
    BY <1>16 DEF Scan!SaveArea, Scan!Req, ReqFields
  <2>. HIDE DEF e
  <2>2. /\ IsSeq(sent') /\ Len(sent') = Len(sent) + 1
        /\ \A i \in 1 .. Len(sent) : sent'[i] = sent[i]
        /\ sent'[Len(sent) + 1] = e
    BY <1>3, <2>1, Appended
  <2>3. Len(sent) \in Nat /\ DOMAIN sent = 1 .. Len(sent) /\ DOMAIN sent' = 1 .. Len(sent) + 1
    BY <1>3, <2>2, SeqShape
  <2>4. \A i \in DOMAIN sent' : sent'[i].eff = "paint" => i \in DOMAIN sent /\ sent'[i] = sent[i]
    BY <2>1, <2>2, <2>3
  <2>5. UNCHANGED <<lens, geoType, period, ready, boundary, painted, asked>>
    BY <1>16 DEF Scan!SaveArea, Scan!choice, Scan!map
  <2>6. \A n \in Int : NoPaintAfter(sent, n) => NoPaintAfter(sent', n)
    BY <2>4 DEF NoPaintAfter
  <2>7. LastPaintWanted => LastPaintWanted'
    <3>1. CASE AllLate(sent) /\ (Scan!ShowsChoice \/ painted.late)
      BY <2>4, <2>5, <3>1 DEF LastPaintWanted, AllLate, Scan!ShowsChoice
    <3>2. ASSUME NEW n \in DOMAIN sent, sent[n] = Wanted, NoPaintAfter(sent, n)
          PROVE  LastPaintWanted'
      <4>1. n \in DOMAIN sent' /\ sent'[n] = Wanted'
        BY <2>2, <2>3, <2>5, <3>2 DEF Wanted
      <4>2. NoPaintAfter(sent', n)
        BY <2>3, <2>6, <3>2
      <4>. QED BY <4>1, <4>2 DEF LastPaintWanted, NoPaintAfter
    <3>. QED BY <3>1, <3>2 DEF LastPaintWanted
  <2>8. faults' = 0 /\ ready /\ boundary = geoType => LastPaintWanted'
    BY <1>1, <2>7 DEF PaintInv
  <2>9. Fits(sent')
    <3>1. \A i \in DOMAIN sent' : (i \in DOMAIN sent /\ sent'[i] = sent[i]) \/ sent'[i] = e
      BY <2>2, <2>3
    <3>. QED BY <1>3, <2>1, <3>1 DEF Fits
  <2>. QED BY <1>3, <1>4, <2>2, <2>5, <2>8, <2>9
<1>17. CASE Scan!LoadMap
  <2>1. UNCHANGED <<lens, geoType, period, boundary, painted, asked>> /\ ready' = TRUE
    BY <1>17 DEF Scan!LoadMap, Scan!choice
  <2>2. sent' = Scan!ApplyData(sent, lens', geoType', period', boundary', ready')
    BY <1>17, <2>1 DEF Scan!LoadMap
  <2>. QED BY <1>8, <1>11, <2>1, <2>2 DEF PaintInv, Joined
<1>18. ASSUME NEW r \in asked, Scan!AnswerBounds(r) PROVE PaintInv'
  <2>1. UNCHANGED <<lens, geoType, boundary, ready, painted>>
    BY <1>18 DEF Scan!AnswerBounds, Scan!map
  <2>2. \A q : q.eff = "boundary" => (q \in asked' <=> q \in asked)
    BY <1>18 DEF Scan!AnswerBounds
  <2>3. CASE period' = period
    BY <1>6, <1>18, <2>1, <2>2, <2>3 DEF Scan!AnswerBounds
  <2>4. CASE period' # period
    <3>1. sent' = Scan!ApplyData(sent, lens', geoType', period', boundary', ready')
      BY <1>18, <2>1, <2>4 DEF Scan!AnswerBounds
    <3>. QED BY <1>8, <1>11, <2>1, <2>2, <3>1 DEF PaintInv, Joined
  <2>. QED BY <2>3, <2>4
<1>19. ASSUME NEW r \in asked, Scan!AnswerDefault(r) \/ Scan!AnswerDetail(r) PROVE PaintInv'
  <2>1. r.eff # "boundary"
    BY <1>19 DEF Scan!AnswerDefault, Scan!AnswerDetail
  <2>2. UNCHANGED <<sent, lens, geoType, period, ready, boundary, painted>>
    BY <1>19 DEF Scan!AnswerDefault, Scan!AnswerDetail, Scan!choice, Scan!map
  <2>3. asked' = asked \ {r} \/ \E it : Scan!Select(asked \ {r}, it)
    BY <1>19 DEF Scan!AnswerDefault, Scan!AnswerDetail
  <2>4. \A q : q.eff = "boundary" => (q \in asked' <=> q \in asked)
    <3>1. CASE asked' = asked \ {r}
      BY <2>1, <3>1
    <3>2. ASSUME NEW it, Scan!Select(asked \ {r}, it)
          PROVE  \A q : q.eff = "boundary" => (q \in asked' <=> q \in asked)
      BY <1>10, <2>1, <3>2
    <3>. QED BY <2>3, <3>1, <3>2
  <2>. QED BY <1>6, <2>2, <2>4
<1>20. ASSUME NEW r \in asked, Scan!AnswerBoundaries(r) PROVE PaintInv'
  <2>1. UNCHANGED <<lens, geoType, period, ready, painted>> /\ boundary' = r.geo
    BY <1>20 DEF Scan!AnswerBoundaries, Scan!choice
  <2>2. r.geo = geoType
    BY <1>20 DEF Scan!AnswerBoundaries, PaintInv, Joined
  <2>3. sent' = Scan!ApplyData(sent, lens', geoType', period', boundary', ready')
    BY <1>20, <2>1 DEF Scan!AnswerBoundaries
  <2>4. \A q \in asked' : q \in asked
    BY <1>20 DEF Scan!AnswerBoundaries
  <2>. QED BY <1>8, <2>1, <2>2, <2>3, <2>4 DEF PaintInv, Joined
<1>21. ASSUME NEW r \in asked, Scan!Fail(r) PROVE PaintInv'
  <2>1. faults' # 0
    BY <1>21 DEF Scan!Fail, PaintInv, Joined
  <2>. QED BY <1>6, <1>21, <2>1 DEF Scan!Fail

<1>22. ASSUME NEW i \in DOMAIN sent, Scan!AnswerPaint(i) PROVE PaintInv'
  <2>. DEFINE o == Scan!Overtaken(sent, i)
  <2>0. sent[i].eff = "paint" => sent[i].item = sent[i].geo
    BY <1>3 DEF Fits
  <2>1. /\ sent[i].eff = "paint" /\ sent[i].item = sent[i].geo
        /\ sent' = Scan!RemoveAt(o, i)
        /\ UNCHANGED <<lens, geoType, period, ready, boundary, asked>>
    BY <1>22, <2>0 DEF Scan!AnswerPaint, Scan!choice
  <2>2. painted' = [lens |-> sent[i].lens, geo |-> sent[i].geo, on |-> sent[i].item,
                    period |-> Scan!Resolve(sent[i].lens, sent[i].period),
                    late |-> sent[i].late]
    BY <1>22 DEF Scan!AnswerPaint
  <2>3. painted'.on = painted'.geo /\ painted'.late = sent[i].late
    BY <2>1, <2>2
  <2>4. /\ IsSeq(o) /\ Fits(o) /\ DOMAIN o = DOMAIN sent
        /\ \A j \in DOMAIN sent :
             /\ o[j].eff = sent[j].eff
             /\ j < i /\ sent[j].eff = "paint" => o[j].late
             /\ sent[j].late => o[j].late
             /\ ~ (j < i) => o[j] = sent[j]
    BY <1>3, PaintOvertaken
  <2>. HIDE DEF o
  <2>5. /\ IsSeq(sent') /\ Fits(sent')
        /\ \A j \in DOMAIN sent' : \E m \in DOMAIN o \ {i} : sent'[j] = o[m]
        /\ \A n \in DOMAIN o : NoPaintAfter(o, n) /\ n # i =>
             \E m \in DOMAIN sent' : sent'[m] = o[n] /\ NoPaintAfter(sent', m)
    BY <2>1, <2>4, PaintRemoved
  <2>6. DOMAIN sent \subseteq Nat
    BY <1>3, SeqShape
  <2>7. LastPaintWanted => LastPaintWanted'
    (* The paint the page names is still to come, or has come already. *)
    <3>1. CASE AllLate(sent)
      <4>1. AllLate(sent')
        BY <2>4, <2>5, <3>1 DEF AllLate
      <4>2. painted'.late
        BY <2>1, <2>3, <3>1 DEF AllLate
      <4>. QED BY <4>1, <4>2 DEF LastPaintWanted, AllLate
    <3>2. ASSUME NEW n \in DOMAIN sent, sent[n] = Wanted, NoPaintAfter(sent, n)
          PROVE  LastPaintWanted'
      <4>1. CASE n = i
        <5>1. Scan!ShowsChoice'
          BY <2>1, <2>2, <3>2, <4>1 DEF Wanted, Scan!ShowsChoice, Scan!Req, Scan!Resolve, Scan!Latest
        <5>2. \A m \in DOMAIN o \ {i} : o[m].eff = "paint" => o[m].late
          BY <2>4, <2>6, <3>2, <4>1 DEF NoPaintAfter
        <5>3. AllLate(sent')
          BY <2>5, <5>2 DEF AllLate
        <5>. QED BY <5>1, <5>3 DEF LastPaintWanted, AllLate, Scan!ShowsChoice
      <4>2. CASE n # i
        <5>1. ~ (n < i)
          BY <2>1, <3>2 DEF NoPaintAfter
        <5>2. o[n] = Wanted /\ NoPaintAfter(o, n)
          BY <2>4, <3>2, <5>1 DEF NoPaintAfter
        <5>3. PICK m \in DOMAIN sent' : sent'[m] = o[n] /\ NoPaintAfter(sent', m)
          BY <2>4, <2>5, <4>2, <5>2
        <5>4. sent'[m] = Wanted'
          BY <2>1, <5>2, <5>3 DEF Wanted
        <5>. QED BY <5>3, <5>4 DEF LastPaintWanted, NoPaintAfter
      <4>. QED BY <4>1, <4>2
    <3>. QED BY <3>1, <3>2 DEF LastPaintWanted
  <2>. QED BY <1>1, <2>1, <2>3, <2>5, <2>7 DEF PaintInv, Joined
<1>23. ASSUME NEW i \in DOMAIN sent, Scan!AnswerSave(i) \/ Scan!FailSent(i) PROVE PaintInv'
  <2>1. /\ sent' = Scan!RemoveAt(sent, i) /\ (faults' = 0 => sent[i].eff = "save")
        /\ UNCHANGED <<lens, geoType, period, ready, boundary, painted, asked>>
    BY <1>23 DEF Scan!AnswerSave, Scan!FailSent, Scan!choice, Scan!map, PaintInv, Joined
  <2>2. /\ IsSeq(sent') /\ Fits(sent')
        /\ \A j \in DOMAIN sent' : \E m \in DOMAIN sent \ {i} : sent'[j] = sent[m]
        /\ \A n \in DOMAIN sent : NoPaintAfter(sent, n) /\ n # i =>
             \E m \in DOMAIN sent' : sent'[m] = sent[n] /\ NoPaintAfter(sent', m)
    BY <1>3, <2>1, PaintRemoved
  <2>3. faults' = 0 /\ LastPaintWanted => LastPaintWanted'
    <3>1. CASE AllLate(sent) /\ (Scan!ShowsChoice \/ painted.late)
      <4>1. AllLate(sent')
        BY <2>2, <3>1 DEF AllLate
      <4>. QED BY <2>1, <3>1, <4>1 DEF LastPaintWanted, AllLate, Scan!ShowsChoice
    <3>2. ASSUME NEW n \in DOMAIN sent, sent[n] = Wanted, NoPaintAfter(sent, n), faults' = 0
          PROVE  LastPaintWanted'
      <4>1. n # i
        BY <1>2, <2>1, <3>2 DEF Wanted
      <4>2. PICK m \in DOMAIN sent' : sent'[m] = sent[n] /\ NoPaintAfter(sent', m)
        BY <2>2, <3>2, <4>1
      <4>3. sent'[m] = Wanted'
        BY <2>1, <3>2, <4>2 DEF Wanted
      <4>. QED BY <4>2, <4>3 DEF LastPaintWanted, NoPaintAfter
    <3>. QED BY <3>1, <3>2 DEF LastPaintWanted
  <2>4. faults' = 0 /\ ready /\ boundary = geoType => LastPaintWanted'
    BY <1>1, <2>3 DEF PaintInv
  <2>. QED BY <1>4, <2>1, <2>2, <2>4
<1>24. CASE OnScan
  BY <1>12, <1>13, <1>14, <1>15, <1>16, <1>17, <1>18, <1>19, <1>20, <1>21, <1>22, <1>23,
     <1>24
     DEF OnScan, Scan!Next, Scan!Answer, Scan!Deliver
<1>. QED BY <1>7, <1>24 DEF Next

(* For any choices, and answers in any order: never the values of one        *)
(* geography in the geometry of another, and once all paints have arrived    *)
(* the lens, geography and period the page names, unless their values came   *)
(* before those of an earlier choice (ScanMap.tsx, applyData).               *)
THEOREM PaintAlwaysSettles == Spec => []PaintSettles
<1>1. PaintInv => PaintSettles
  BY DEF PaintInv, Joined, PaintSettles, Scan!PaintSettles, Scan!Settled, LastPaintWanted,
         Wanted, NoPaintAfter, Scan!Req
<1>2. PaintInv /\ [Next]_vars => PaintInv'
  BY PaintStep
<1>. QED BY PaintInit, <1>1, <1>2, PTL DEF Spec

-----------------------------------------------------------------------------
(* Pages of a sequence *)

Lesser(a, b) == IF a <= b THEN a ELSE b

LEMMA MinOfTwo == ASSUME NEW a \in Int, NEW b \in Int PROVE Leads!Min({a, b}) = Lesser(a, b)
<1>1. Lesser(a, b) \in {a, b} /\ \A y \in {a, b} : Lesser(a, b) <= y
  BY DEF Lesser
<1>2. \A x \in {a, b} : (\A y \in {a, b} : x <= y) => x = Lesser(a, b)
  BY DEF Lesser
<1>. QED BY <1>1, <1>2 DEF Leads!Min

LEMMA Joining ==
  ASSUME NEW s, NEW t, IsSeq(s), IsSeq(t)
  PROVE  s \o t = [i \in 1 .. Len(s) + Len(t) |-> IF i <= Len(s) THEN s[i] ELSE t[i - Len(s)]]
<1>. DEFINE S == {s[i] : i \in DOMAIN s}
            T == {t[i] : i \in DOMAIN t}
<1>1. s \in Seq(S) /\ t \in Seq(T)
  BY DEF IsSeq
<1>. HIDE DEF S, T
<1>2. s \in Seq(S \cup T) /\ t \in Seq(S \cup T)
  BY <1>1
<1>3. /\ s \o t \in Seq(S \cup T) /\ Len(s \o t) = Len(s) + Len(t)
      /\ \A i \in 1 .. Len(s) + Len(t) : (s \o t)[i] = IF i <= Len(s) THEN s[i] ELSE t[i - Len(s)]
  BY <1>2, ConcatProperties
<1>4. s \o t = [i \in 1 .. Len(s \o t) |-> (s \o t)[i]]
  BY <1>3, LenProperties
<1>. QED BY <1>3, <1>4

LEMMA FirstOf ==
  ASSUME NEW s, IsSeq(s), NEW n \in Nat
  PROVE  Leads!Pks(Leads!First(s, n)) = [i \in 1 .. Lesser(n, Len(s)) |-> s[i].pk]
<1>. DEFINE m == Lesser(n, Len(s))
            t == SubSeq(s, 1, m)
<1>1. Len(s) \in Nat /\ DOMAIN s = 1 .. Len(s)
  BY SeqShape
<1>2. m \in Nat /\ m <= Len(s)
  BY <1>1 DEF Lesser
<1>3. Leads!First(s, n) = t
  <2>1. Leads!Min({n, Len(s)}) = Lesser(n, Len(s))
    BY <1>1, MinOfTwo
  <2>. QED BY <2>1 DEF Leads!First
<1>. HIDE DEF m
<1>4. t \in Seq({s[i] : i \in DOMAIN s}) /\ Len(t) = m /\ \A i \in 1 .. m : t[i] = s[i]
  <2>1. \A i \in 1 .. m : s[i] \in {s[j] : j \in DOMAIN s}
    BY <1>1, <1>2
  <2>2. /\ t \in Seq({s[i] : i \in DOMAIN s})
        /\ Len(t) = IF 1 <= m THEN m - 1 + 1 ELSE 0
        /\ \A i \in 1 .. m - 1 + 1 : t[i] = s[1 + i - 1]
    BY <1>2, <2>1, SubSeqProperties
  <2>. QED BY <1>2, <2>2
<1>5. DOMAIN t = 1 .. m
  BY <1>4, LenProperties
<1>. HIDE DEF t
<1>6. Leads!Pks(t) = [i \in 1 .. m |-> s[i].pk]
  BY <1>4, <1>5 DEF Leads!Pks
<1>. QED BY <1>3, <1>6 DEF m

(* The pages of a list put end to end are its beginning. *)
LEMMA NextPage ==
  ASSUME NEW s, IsSeq(s), NEW n \in Nat, NEW m \in Nat
  PROVE  Leads!Pks(Leads!First(s, n)) \o Leads!Pks(Leads!First(SubSeq(s, n + 1, Len(s)), m))
           = Leads!Pks(Leads!First(s, n + m))
<1>. DEFINE L == Len(s)
            u == SubSeq(s, n + 1, L)
            a == Lesser(n, L)
            b == Lesser(m, Len(u))
            c == Lesser(n + m, L)
            f == [i \in 1 .. a |-> s[i].pk]
            g == [i \in 1 .. b |-> u[i].pk]
<1>1. L \in Nat /\ DOMAIN s = 1 .. L
  BY SeqShape
<1>2. /\ u \in Seq({s[i] : i \in DOMAIN s})
      /\ Len(u) = IF n + 1 <= L THEN L - n ELSE 0
      /\ \A i \in 1 .. L - n : u[i] = s[n + i]
  <2>1. \A i \in n + 1 .. L : s[i] \in {s[j] : j \in DOMAIN s}
    BY <1>1
  <2>2. /\ u \in Seq({s[i] : i \in DOMAIN s})
        /\ Len(u) = IF n + 1 <= L THEN L - (n + 1) + 1 ELSE 0
        /\ \A i \in 1 .. L - (n + 1) + 1 : u[i] = s[(n + 1) + i - 1]
    BY <1>1, <2>1, SubSeqProperties
  <2>. QED BY <1>1, <2>2
<1>3. IsSeq(u)
  BY <1>2, MemberSeq
<1>. HIDE DEF L, u
<1>4. a \in Nat /\ b \in Nat /\ c = a + b /\ (b > 0 => a = n) /\ b <= Len(u)
  BY <1>1, <1>2 DEF Lesser
<1>5. Leads!Pks(Leads!First(s, n)) = f /\ Leads!Pks(Leads!First(u, m)) = g
      /\ Leads!Pks(Leads!First(s, n + m)) = [i \in 1 .. c |-> s[i].pk]
  <2>1. Leads!Pks(Leads!First(s, n)) = f
    BY FirstOf DEF L
  <2>2. Leads!Pks(Leads!First(u, m)) = g
    BY <1>3, FirstOf
  <2>3. n + m \in Nat
    OBVIOUS
  <2>4. Leads!Pks(Leads!First(s, n + m)) = [i \in 1 .. c |-> s[i].pk]
    BY <2>3, FirstOf DEF L
  <2>. QED BY <2>1, <2>2, <2>4
<1>. HIDE DEF a, b, c
<1>6. IsSeq(f) /\ Len(f) = a
  BY <1>4, FunctionSeq
<1>7. IsSeq(g) /\ Len(g) = b
  BY <1>4, FunctionSeq
<1>8. f \o g = [i \in 1 .. a + b |-> IF i <= a THEN f[i] ELSE g[i - a]]
  <2>. HIDE DEF f, g
  <2>. QED BY <1>6, <1>7, Joining
<1>9. \A i \in 1 .. a + b : (IF i <= a THEN f[i] ELSE g[i - a]) = s[i].pk
  <2>. SUFFICES ASSUME NEW i \in 1 .. a + b
                PROVE  (IF i <= a THEN f[i] ELSE g[i - a]) = s[i].pk
    OBVIOUS
  <2>1. CASE i <= a
    BY <1>4, <2>1
  <2>2. CASE ~ (i <= a)
    <3>1. i - a \in 1 .. b /\ a = n
      BY <1>4, <2>2
    <3>2. i - a \in 1 .. L - n /\ n + (i - a) = i
      BY <1>1, <1>2, <1>4, <3>1
    <3>3. u[i - a] = s[i]
      BY <1>2, <3>2
    <3>. QED BY <2>2, <3>1, <3>3
  <2>. QED BY <2>1, <2>2
<1>10. f \o g = [i \in 1 .. c |-> s[i].pk]
  BY <1>4, <1>8, <1>9
<1>. HIDE DEF f, g
<1>. QED BY <1>5, <1>10 DEF u, L

-----------------------------------------------------------------------------
(* What the filter keeps *)

LEMMA MarketShape ==
  /\ Len(Market) \in Nat \ {0} /\ Leads!Versions = 1 .. Len(Market)
  /\ \A v \in Leads!Versions : IsSeq(Market[v])
  /\ PageSize \in Nat \ {0} /\ RowCap \in Nat \ {0}
<1>1. /\ Market # <<>> /\ Market \in Seq(Leads!ToSet(Market))
      /\ \A v \in Leads!Versions : Market[v] \in Seq(Leads!ToSet(Market[v]))
      /\ PageSize \in Nat \ {0} /\ RowCap \in Nat \ {0}
  BY ConstantsAssumption DEF Leads!ConstantsOK
<1>2. IsSeq(Market) /\ \A v \in Leads!Versions : IsSeq(Market[v])
  BY <1>1 DEF IsSeq, Leads!ToSet
<1>3. Len(Market) \in Nat /\ DOMAIN Market = 1 .. Len(Market)
  BY <1>2, SeqShape
<1>4. Len(Market) # 0
  BY <1>1, <1>3, EmptySeq
<1>. QED BY <1>1, <1>2, <1>3, <1>4 DEF Leads!Versions

LEMMA SameCardinality == \A S : Leads!Cardinality(S) = Cardinality(S)
BY DEF Leads!Cardinality, Cardinality

LEMMA MatchingShape ==
  ASSUME NEW v \in Leads!Versions, NEW k
  PROVE  /\ Leads!Count(v, k) \in Nat
         /\ IsSeq(Leads!Matching(v, k)) /\ Len(Leads!Matching(v, k)) = Leads!Count(v, k)
<1>. DEFINE f == Leads!Matching(v, k)
            n == Leads!Count(v, k)
<1>1. Len(Market[v]) \in Nat /\ DOMAIN Market[v] = 1 .. Len(Market[v])
  BY MarketShape, SeqShape
<1>2. Leads!Hits(v, k) \subseteq 1 .. Len(Market[v])
  BY <1>1 DEF Leads!Hits
<1>3. IsFiniteSet(Leads!Hits(v, k))
  <2>1. IsFiniteSet(1 .. Len(Market[v]))
    BY <1>1, FS_Interval
  <2>. QED BY <1>2, <2>1, FS_Subset
<1>4. n \in Nat
  BY <1>3, FS_CardinalityType, SameCardinality DEF Leads!Count
<1>5. f = [i \in 1 .. n |-> f[i]]
  BY DEF Leads!Matching
<1>. HIDE DEF f, n
<1>6. IsSeq(f) /\ Len(f) = n
  BY <1>4, <1>5, FunctionSeq
<1>. QED BY <1>4, <1>6 DEF f, n

(* A signal's count is the number of leads that have it besides. *)
LEMMA Facets ==
  ASSUME NEW v \in Leads!Versions, NEW s \in Flags,
         NEW k, DOMAIN k = {"minScore", "signals", "maxValue", "saleBefore", "neighborhood"}
  PROVE  Leads!FacetCount(v, k)[s] = Leads!Count(v, [k EXCEPT !.signals = @ \cup {s}])
<1>. DEFINE q == [k EXCEPT !.signals = @ \cup {s}]
<1>1. /\ q.minScore = k.minScore /\ q.signals = k.signals \cup {s} /\ q.maxValue = k.maxValue
      /\ q.saleBefore = k.saleBefore /\ q.neighborhood = k.neighborhood
  OBVIOUS
<1>. HIDE DEF q
<1>2. \A l : Leads!Where(q, l) <=> Leads!Where(k, l) /\ s \in l.flags
  BY <1>1 DEF Leads!Where
<1>3. Leads!Hits(v, q) = {i \in Leads!Hits(v, k) : s \in Market[v][i].flags}
  BY <1>2 DEF Leads!Hits
<1>4. Leads!FacetCount(v, k)[s] = Cardinality({i \in Leads!Hits(v, k) : s \in Market[v][i].flags})
  BY SameCardinality DEF Leads!FacetCount
<1>. QED BY <1>3, <1>4, SameCardinality DEF Leads!Count, q

(* The first page, and a page after the ones shown. *)
LEMMA Paged ==
  ASSUME NEW v \in Leads!Versions, NEW k, NEW p \in Nat
  PROVE  /\ Leads!PageOf(v, k, 0) = Leads!Pks(Leads!First(Leads!Matching(v, k), 1 * PageSize))
         /\ Leads!Pks(Leads!First(Leads!Matching(v, k), p * PageSize)) \o Leads!PageOf(v, k, p)
              = Leads!Pks(Leads!First(Leads!Matching(v, k), (p + 1) * PageSize))
<1>. DEFINE s == Leads!Matching(v, k)
<1>1. IsSeq(s)
  BY MatchingShape
<1>2. PageSize \in Nat /\ p * PageSize \in Nat /\ (p + 1) * PageSize = p * PageSize + PageSize
  BY MarketShape
<1>3. Leads!PageOf(v, k, p)
        = Leads!Pks(Leads!First(SubSeq(s, p * PageSize + 1, Len(s)), PageSize))
  BY DEF Leads!PageOf
<1>4. Leads!PageOf(v, k, 0)
        = Leads!Pks(Leads!First(SubSeq(s, 0 * PageSize + 1, Len(s)), PageSize))
  BY DEF Leads!PageOf
<1>. HIDE DEF s
<1>5. SubSeq(s, 1, Len(s)) = s
  BY <1>1, SubSeqFull DEF IsSeq
<1>6. 0 * PageSize + 1 = 1 /\ 1 * PageSize = PageSize
  BY <1>2
<1>7. Leads!PageOf(v, k, 0) = Leads!Pks(Leads!First(s, 1 * PageSize))
  BY <1>4, <1>5, <1>6
<1>8. Leads!Pks(Leads!First(s, p * PageSize)) \o Leads!PageOf(v, k, p)
        = Leads!Pks(Leads!First(s, p * PageSize + PageSize))
  <2>. DEFINE n == p * PageSize
  <2>. HIDE DEF n
  <2>1. n \in Nat
    BY <1>2 DEF n
  <2>2. Leads!Pks(Leads!First(s, n)) \o Leads!Pks(Leads!First(SubSeq(s, n + 1, Len(s)), PageSize))
           = Leads!Pks(Leads!First(s, n + PageSize))
    BY <1>1, <1>2, <2>1, NextPage
  <2>. QED BY <1>3, <2>2 DEF n
<1>. QED BY <1>2, <1>7, <1>8 DEF s

-----------------------------------------------------------------------------
(* The list.  At most one request is awaited: the newest first page, or one  *)
(* more page after the ones shown.                                           *)

FilterFields  == {"minScore", "signals", "maxValue", "saleBefore", "neighborhood"}
RequestFields == {"kind", "id", "key", "page", "pk", "since"}

Asking == {r \in flight : r.kind \in {"first", "more"} /\ r.id = reqId}

(* The rows, total and counts of the filter, as far as the pages shown go. *)
ListShown ==
  LET k == Leads!Key(filter) IN
    /\ rows = Leads!Pks(Leads!First(Leads!Matching(1, k), (listPage + 1) * PageSize))
    /\ total = Leads!Count(1, k)
    /\ \A s \in Flags : facets[s] = Leads!Count(1, [k EXCEPT !.signals = @ \cup {s}])

LeadsTyped ==
  /\ reqId \in Nat /\ version \in Leads!Versions /\ listPage \in Nat
  /\ DOMAIN filter = FilterFields
  /\ \A r \in flight : DOMAIN r = RequestFields
  /\ \A r \in flight : r.kind \in {"first", "more"} => r.id \in 0 .. reqId /\ r.since \in 1 .. version

Awaited ==
  /\ loading => \E r \in flight : Asking = {r}
  /\ ~ loading => Asking = {}
  /\ loadError => rows = <<>> /\ total = 0
  /\ \A r \in Asking : /\ r.kind = "first" => listPage = 0
                       /\ r.kind = "more" => r.page = listPage + 1 /\ ~ loadError

Listed ==
  version = 1 /\ ~ timer =>
    /\ \A r \in Asking : r.key = Leads!Key(filter) /\ (r.kind = "more" => ListShown)
    /\ ~ loading /\ ~ loadError => ListShown

(* The last export, of the version it was made of. *)
Exported ==
  file # None =>
    LET s == Leads!Pks(Leads!Matching(file.version, file.key)) IN
      /\ file.version \in 1 .. version
      /\ file.rows = Leads!First(s, RowCap) /\ (file.cut <=> Len(s) > RowCap)

LeadsInv == LeadsTyped /\ Awaited /\ Listed /\ Exported

LEMMA LeadsInit == Init => LeadsInv
<1>. SUFFICES ASSUME Init PROVE LeadsInv
  OBVIOUS
<1>1. 1 \in Leads!Versions
  BY MarketShape
<1>2. /\ reqId = 0 /\ version = 1 /\ listPage = 0 /\ flight = {} /\ timer /\ ~ loading /\ ~ loadError
      /\ file = None /\ \E h \in DOMAIN Named : filter = [Leads!EmptyFilter EXCEPT !.neighborhood = h]
  BY DEF Init, Leads!Init
<1>3. DOMAIN filter = FilterFields
  BY <1>2 DEF Leads!EmptyFilter, FilterFields
<1>. QED BY <1>1, <1>2, <1>3 DEF LeadsInv, LeadsTyped, Awaited, Listed, Exported, Asking

LEMMA LeadsStep == LeadsInv /\ [Next]_vars => LeadsInv'
<1>. SUFFICES ASSUME LeadsInv, [Next]_vars PROVE LeadsInv'
  OBVIOUS
<1>1. /\ reqId \in Nat /\ version \in 1 .. Len(Market) /\ listPage \in Nat /\ Len(Market) \in Nat
      /\ 1 \in Leads!Versions /\ Leads!Versions = 1 .. Len(Market)
  BY MarketShape DEF LeadsInv, LeadsTyped
(* Nothing of the list moves. *)
<1>2. ASSUME UNCHANGED <<filter, rows, total, facets, listPage>>
      PROVE  ListShown => ListShown'
  BY <1>2 DEF ListShown
<1>3. ASSUME UNCHANGED <<version, file>> PROVE Exported'
  BY <1>3 DEF Exported, LeadsInv
<1>4. ASSUME UNCHANGED <<reqId, version, listPage, filter>>, \A r \in flight' :
               \/ r \in flight
               \/ DOMAIN r = RequestFields /\ r.kind \notin {"first", "more"}
      PROVE  LeadsTyped'
  BY <1>4 DEF LeadsTyped, LeadsInv
<1>5. ASSUME UNCHANGED <<timer, reqId, rows, total, facets, listPage, loading, loadError,
             version,
                         filter>>,
             Asking' = Asking
      PROVE  Awaited' /\ Listed'
  <2>1. Asking' \subseteq flight'
    BY DEF Asking
  <2>2. loading' => \E r \in flight' : Asking' = {r}
    BY <1>5, <2>1 DEF Awaited, LeadsInv
  <2>. QED BY <1>2, <1>5, <2>2 DEF Awaited, Listed, LeadsInv
(* No request awaited is touched. *)
<1>6. ASSUME NEW rs \in SUBSET flight, NEW q, q.kind \notin {"first", "more"},
             reqId' = reqId,
             flight' = rs \/ flight' = rs \cup {q},
             \A r \in flight : r \notin rs => r \notin Asking
      PROVE  Asking' = Asking
  BY <1>6 DEF Asking
<1>7. CASE UNCHANGED vars \/ OnScan \/ OnAccount
  <2>1. UNCHANGED leadsVars
    BY <1>7 DEF vars, OnScan, OnAccount
  <2>2. Asking' = Asking
    BY <2>1 DEF Asking, leadsVars
  <2>. QED BY <1>3, <1>4, <1>5, <2>1, <2>2 DEF LeadsInv, leadsVars
<1>8. ASSUME NEW f \in Leads!Patches(filter), Leads!Edit(f) PROVE LeadsInv'
  <2>1. DOMAIN f = FilterFields
    <3>1. DOMAIN filter = FilterFields /\ DOMAIN Leads!EmptyFilter = FilterFields
      BY DEF LeadsInv, LeadsTyped, Leads!EmptyFilter, FilterFields
    <3>2. \A x : /\ DOMAIN [filter EXCEPT !.minScore = x] = DOMAIN filter
                 /\ DOMAIN [filter EXCEPT !.maxValue = x] = DOMAIN filter
                 /\ DOMAIN [filter EXCEPT !.saleBefore = x] = DOMAIN filter
                 /\ DOMAIN [filter EXCEPT !.neighborhood = x] = DOMAIN filter
      OBVIOUS
    <3>3. \A x, t : DOMAIN [filter EXCEPT !.signals = (@ \ {x}) \cup t] = DOMAIN filter
      OBVIOUS
    <3>. QED BY <1>8, <3>1, <3>2, <3>3 DEF Leads!Patches
  <2>2. /\ filter' = f /\ timer' = (timer \/ Leads!Key(f) # Leads!Key(filter))
        /\ UNCHANGED <<reqId, rows, total, facets, listPage, loading, loadError, file, flight, version>>
    BY <1>8 DEF Leads!Edit, Leads!list, Leads!there
  <2>3. Asking' = Asking
    BY <2>2 DEF Asking
  <2>4. Awaited'
    BY <2>2, <2>3 DEF Awaited, LeadsInv
  <2>5. ~ timer' => ~ timer /\ Leads!Key(filter') = Leads!Key(filter)
    BY <2>2
  <2>6. ~ timer' /\ ListShown => ListShown'
    BY <2>2, <2>5 DEF ListShown
  <2>7. Listed'
    BY <2>2, <2>3, <2>5, <2>6 DEF Listed, LeadsInv
  <2>8. LeadsTyped'
    BY <2>1, <2>2 DEF LeadsTyped, LeadsInv
  <2>. QED BY <1>3, <2>2, <2>4, <2>7, <2>8 DEF LeadsInv
<1>9. CASE Leads!Retry
  <2>1. /\ timer' = TRUE
        /\ UNCHANGED <<filter, reqId, rows, total, facets, listPage, loading, loadError, file, flight,
                       version>>
    BY <1>9 DEF Leads!Retry, Leads!list, Leads!there
  <2>2. Asking' = Asking
    BY <2>1 DEF Asking
  <2>. QED BY <1>3, <1>4, <2>1, <2>2 DEF LeadsInv, Awaited, Listed
<1>10. CASE Leads!Fire
  <2>. DEFINE q == [kind |-> "first", id |-> reqId + 1, key |-> Leads!Key(filter),
                    page |-> 0, pk |-> None, since |-> version]
  <2>1. /\ timer' = FALSE /\ reqId' = reqId + 1 /\ loading' = TRUE /\ listPage' = 0
        /\ flight' = flight \cup {q}
        /\ UNCHANGED <<filter, rows, total, facets, loadError, file, version>>
    BY <1>10 DEF Leads!Fire, Leads!there
  <2>2. /\ q.kind = "first" /\ q.id = reqId + 1 /\ q.key = Leads!Key(filter) /\ q.since = version
        /\ DOMAIN q = RequestFields
    BY DEF RequestFields
  <2>. HIDE DEF q
  <2>3. \A r \in flight : r.kind \in {"first", "more"} => r.id \in 0 .. reqId
    BY DEF LeadsInv, LeadsTyped
  <2>4. Asking' = {q}
    BY <1>1, <2>1, <2>2, <2>3 DEF Asking
  <2>5. LeadsTyped'
    <3>1. \A r \in flight' : DOMAIN r = RequestFields
      BY <2>1, <2>2 DEF LeadsInv, LeadsTyped
    <3>2. \A r \in flight' : r.kind \in {"first", "more"} =>
                               r.id \in 0 .. reqId' /\ r.since \in 1 .. version'
      BY <1>1, <2>1, <2>2 DEF LeadsInv, LeadsTyped
    <3>. QED BY <1>1, <2>1, <3>1, <3>2 DEF LeadsInv, LeadsTyped
  <2>6. Awaited'
    BY <2>1, <2>2, <2>4 DEF Awaited, LeadsInv
  <2>7. Listed'
    BY <2>1, <2>2, <2>4 DEF Listed
  <2>. QED BY <1>3, <2>1, <2>5, <2>6, <2>7 DEF LeadsInv
<1>11. CASE Leads!LoadMore
  <2>. DEFINE q == [kind |-> "more", id |-> reqId, key |-> Leads!Key(filter),
                    page |-> listPage + 1, pk |-> None, since |-> version]
  <2>1. /\ Len(rows) < total /\ ~ loading /\ loading' = TRUE /\ flight' = flight \cup {q}
        /\ UNCHANGED <<filter, timer, reqId, rows, total, facets, listPage, loadError, file, version>>
    BY <1>11 DEF Leads!LoadMore, Leads!HasMore, Leads!there
  <2>2. /\ q.kind = "more" /\ q.id = reqId /\ q.key = Leads!Key(filter) /\ q.since = version
        /\ DOMAIN q = RequestFields /\ q.page = listPage + 1
    BY DEF RequestFields
  <2>. HIDE DEF q
  <2>3. ~ loadError
    <3>1. ~ (Len(<<>>) < 0)
      BY EmptySeq
    <3>. QED BY <2>1, <3>1 DEF Awaited, LeadsInv
  <2>4. Asking' = {q}
    BY <2>1, <2>2 DEF Asking, Awaited, LeadsInv
  <2>5. LeadsTyped'
    BY <1>1, <2>1, <2>2 DEF LeadsInv, LeadsTyped
  <2>6. Awaited'
    BY <2>1, <2>2, <2>3, <2>4 DEF Awaited, LeadsInv
  <2>7. Listed'
    BY <1>2, <2>1, <2>2, <2>3, <2>4 DEF Listed, LeadsInv
  <2>. QED BY <1>3, <2>1, <2>5, <2>6, <2>7 DEF LeadsInv

<1>12. CASE Leads!Export
  <2>1. UNCHANGED <<filter, timer, reqId, rows, total, facets, listPage, loading, loadError, flight,
                    version>>
    BY <1>12 DEF Leads!Export, Leads!list, Leads!there
  <2>2. Asking' = Asking
    BY <2>1 DEF Asking
  <2>3. Exported'
    <3>1. CASE ~ SignedIn
      BY <1>3, <1>12, <2>1, <3>1 DEF Leads!Export
    <3>2. CASE SignedIn
      <4>. DEFINE s == Leads!Pks(Leads!Matching(version, Leads!Key(filter)))
      <4>1. file' = [key |-> Leads!Key(filter), rows |-> Leads!First(s, RowCap),
                     cut |-> Len(s) > RowCap, version |-> version]
        BY <1>12, <3>2 DEF Leads!Export
      <4>2. /\ file'.version = version /\ file'.key = Leads!Key(filter)
            /\ file'.rows = Leads!First(s, RowCap) /\ file'.cut = (Len(s) > RowCap)
        BY <4>1
      <4>. HIDE DEF s
      <4>3. s = Leads!Pks(Leads!Matching(file'.version, file'.key))
        BY <4>2 DEF s
      <4>4. file'.version \in 1 .. version'
        BY <1>1, <2>1, <4>2
      <4>5. /\ file'.rows = Leads!First(Leads!Pks(Leads!Matching(file'.version, file'.key)), RowCap)
            /\ file'.cut <=> Len(Leads!Pks(Leads!Matching(file'.version, file'.key))) > RowCap
        BY <4>2, <4>3
      <4>. QED BY <4>4, <4>5 DEF Exported
    <3>. QED BY <3>1, <3>2
  <2>. QED BY <1>4, <1>5, <2>1, <2>2, <2>3 DEF LeadsInv
<1>13. CASE Leads!Refresh
  <2>1. /\ version < Len(Market) /\ version' = version + 1
        /\ UNCHANGED <<filter, timer, reqId, rows, total, facets, listPage, loading, loadError, flight,
                       file>>
    BY <1>13 DEF Leads!Refresh, Leads!list
  <2>2. version' \in Leads!Versions /\ version' # 1 /\ \A v \in 1 .. version : v \in 1 .. version'
    BY <1>1, <2>1
  <2>3. Asking' = Asking
    BY <2>1 DEF Asking
  <2>4. Exported'
    BY <2>1, <2>2 DEF Exported, LeadsInv
  <2>5. LeadsTyped'
    BY <2>1, <2>2 DEF LeadsTyped, LeadsInv
  <2>. QED BY <2>1, <2>2, <2>3, <2>4, <2>5 DEF LeadsInv, Awaited, Listed
<1>14. ASSUME NEW p \in Leads!Parcels, Leads!PressSave(p) PROVE LeadsInv'
  <2>. DEFINE q == [kind |-> "save", id |-> 0, key |-> None, page |-> 0, pk |-> p,
     since |-> 0]
  <2>1. /\ flight' = flight \cup {q}
        /\ UNCHANGED <<filter, timer, reqId, rows, total, facets, listPage, loading, loadError, file,
                       version>>
    BY <1>14 DEF Leads!PressSave, Leads!list, Leads!there
  <2>2. q.kind = "save" /\ DOMAIN q = RequestFields
    BY DEF RequestFields
  <2>. HIDE DEF q
  <2>3. Asking' = Asking
    BY <2>1, <2>2 DEF Asking
  <2>4. LeadsTyped'
    BY <1>4, <2>1, <2>2
  <2>. QED BY <1>3, <1>5, <2>1, <2>3, <2>4 DEF LeadsInv
<1>15. ASSUME NEW p \in Leads!Parcels,
              \/ Leads!Unsave(p)
              \/ \E s \in Statuses, n \in {None, "note"} : Leads!Patch(p, s, n)
       PROVE  LeadsInv'
  <2>1. UNCHANGED <<filter, timer, reqId, rows, total, facets, listPage, loading, loadError, flight,
                    file, version>>
    BY <1>15 DEF Leads!Unsave, Leads!Patch, Leads!list
  <2>2. Asking' = Asking
    BY <2>1 DEF Asking
  <2>. QED BY <1>3, <1>4, <1>5, <2>1, <2>2 DEF LeadsInv
<1>16. ASSUME NEW r \in flight, Leads!Ignore(r) \/ Leads!AnswerSave(r) \/ Leads!FailSave(r)
       PROVE  LeadsInv'
  <2>1. /\ flight' = flight \ {r} /\ (r.kind = "save" \/ r.id # reqId)
        /\ UNCHANGED <<filter, timer, reqId, rows, total, facets, listPage, loading, loadError, file,
                       version>>
    BY <1>16 DEF Leads!Ignore, Leads!AnswerSave, Leads!FailSave, Leads!Current,
                 Leads!list, Leads!there
  <2>2. Asking' = Asking
    BY <2>1 DEF Asking
  <2>3. LeadsTyped'
    BY <1>4, <2>1
  <2>. QED BY <1>3, <1>5, <2>1, <2>2, <2>3 DEF LeadsInv
(* The list's own answers: nothing is awaited any more. *)
<1>17. ASSUME NEW r \in Asking, UNCHANGED <<reqId>>,
              flight' = flight \ {r} \/ flight' = Leads!Unmounted(flight \ {r}, rows')
       PROVE  /\ Asking' = {}
              /\ \A q \in flight' : \/ q \in flight
                                    \/ DOMAIN q = RequestFields /\ q.kind \notin {"first", "more"}
  <2>1. Asking = {r}
    BY <1>17 DEF Awaited, LeadsInv
  <2>2. ASSUME NEW q \in flight'
        PROVE  \/ q \in flight /\ q # r
               \/ DOMAIN q = RequestFields /\ q.kind = "save"
    <3>1. CASE flight' = flight \ {r}
      BY <3>1
    <3>2. ASSUME NEW x \in flight, x # r, x.kind = "save", q = [x EXCEPT !.id = None]
          PROVE  DOMAIN q = RequestFields /\ q.kind = "save"
      <4>1. DOMAIN x = {"kind", "id", "key", "page", "pk", "since"}
        BY DEF LeadsTyped, LeadsInv, RequestFields
      <4>. QED BY <3>2, <4>1 DEF RequestFields
    <3>3. CASE flight' = Leads!Unmounted(flight \ {r}, rows')
      BY <3>2, <3>3 DEF Leads!Unmounted
    <3>. QED BY <1>17, <3>1, <3>3
  <2>. QED BY <1>17, <2>1, <2>2 DEF Asking
<1>18. ASSUME NEW r \in flight, Leads!AnswerFirst(r) PROVE LeadsInv'
  <2>1. r \in Asking /\ r.kind = "first"
    BY <1>18 DEF Leads!AnswerFirst, Leads!Current, Asking
  <2>2. /\ loading' = FALSE /\ loadError' = FALSE
        /\ UNCHANGED <<filter, timer, reqId, listPage, file, version>>
        /\ flight' = Leads!Unmounted(flight \ {r}, rows')
    BY <1>18 DEF Leads!AnswerFirst, Leads!Finally, Leads!there
  <2>3. Asking' = {} /\ LeadsTyped'
    BY <1>4, <1>17, <2>1, <2>2
  <2>4. r.since \in 1 .. version /\ listPage = 0
    BY <2>1 DEF LeadsInv, LeadsTyped, Awaited
  <2>5. ASSUME version = 1, ~ timer PROVE ListShown'
    <3>. DEFINE k == Leads!Key(filter)
    <3>1. r.key = k
      BY <2>1, <2>5 DEF Listed, LeadsInv
    <3>2. r.since .. version = {1}
      BY <2>4, <2>5
    <3>3. rows' = Leads!PageOf(1, k, 0) /\ total' = Leads!Count(1, k) /\ facets' = Leads!FacetCount(1, k)
      BY <1>18, <3>1, <3>2 DEF Leads!AnswerFirst
    <3>4. k = Leads!Key(filter') /\ listPage' + 1 = 1
      BY <2>2, <2>4
    <3>5. DOMAIN k = {"minScore", "signals", "maxValue", "saleBefore", "neighborhood"}
      BY DEF Leads!Key, LeadsInv, LeadsTyped, FilterFields
    <3>. HIDE DEF k
    <3>6. \A s \in Flags : facets'[s] = Leads!Count(1, [k EXCEPT !.signals = @ \cup {s}])
      BY <1>1, <3>3, <3>5, Facets
    <3>7. rows' = Leads!Pks(Leads!First(Leads!Matching(1, k), 1 * PageSize))
      BY <1>1, <3>3, Paged
    <3>. QED BY <3>3, <3>4, <3>6, <3>7 DEF ListShown
  <2>. QED BY <1>3, <2>2, <2>3, <2>5 DEF LeadsInv, Awaited, Listed
<1>19. ASSUME NEW r \in flight, Leads!FailFirst(r) PROVE LeadsInv'
  <2>1. r \in Asking
    BY <1>19 DEF Leads!FailFirst, Leads!Current, Asking
  <2>2. /\ loading' = FALSE /\ loadError' = TRUE /\ rows' = <<>> /\ total' = 0
        /\ UNCHANGED <<filter, timer, reqId, listPage, file, version>>
        /\ flight' = Leads!Unmounted(flight \ {r}, rows')
    BY <1>19 DEF Leads!FailFirst, Leads!Finally, Leads!there
  <2>3. Asking' = {} /\ LeadsTyped'
    BY <1>4, <1>17, <2>1, <2>2
  <2>. QED BY <1>3, <2>2, <2>3 DEF LeadsInv, Awaited, Listed
<1>20. ASSUME NEW r \in flight, Leads!AnswerMore(r) PROVE LeadsInv'
  <2>1. r \in Asking /\ r.kind = "more"
    BY <1>20 DEF Leads!AnswerMore, Leads!Current, Asking
  <2>2. /\ loading' = FALSE /\ listPage' = r.page
        /\ UNCHANGED <<filter, timer, reqId, total, facets, loadError, file, version>>
        /\ flight' = flight \ {r}
    BY <1>20 DEF Leads!AnswerMore, Leads!Finally, Leads!there
  <2>3. r.page = listPage + 1 /\ ~ loadError /\ r.since \in 1 .. version
    BY <2>1 DEF LeadsInv, LeadsTyped, Awaited, Asking
  <2>4. Asking' = {}
    BY <1>17, <2>1, <2>2
  <2>5. LeadsTyped'
    BY <1>1, <2>2, <2>3 DEF LeadsTyped, LeadsInv
  <2>6. ASSUME version = 1, ~ timer PROVE ListShown'
    <3>. DEFINE k == Leads!Key(filter)
    <3>1. r.key = k /\ ListShown
      BY <2>1, <2>6 DEF Listed, LeadsInv
    <3>2. r.since .. version = {1}
      BY <2>3, <2>6
    <3>3. rows' = rows \o Leads!PageOf(1, k, listPage + 1)
      BY <1>20, <2>3, <3>1, <3>2 DEF Leads!AnswerMore
    <3>4. /\ rows = Leads!Pks(Leads!First(Leads!Matching(1, k), (listPage + 1) * PageSize))
          /\ total = Leads!Count(1, k)
          /\ \A s \in Flags : facets[s] = Leads!Count(1, [k EXCEPT !.signals = @ \cup {s}])
      BY <3>1 DEF ListShown
    <3>5. k = Leads!Key(filter') /\ listPage' = listPage + 1
      BY <2>2, <2>3
    <3>. HIDE DEF k
    <3>6. rows' = Leads!Pks(Leads!First(Leads!Matching(1, k), (listPage + 1 + 1) * PageSize))
      <4>1. listPage + 1 \in Nat
        BY <1>1
      <4>2. Leads!Pks(Leads!First(Leads!Matching(1, k), (listPage + 1) * PageSize))
              \o Leads!PageOf(1, k, listPage + 1)
              = Leads!Pks(Leads!First(Leads!Matching(1, k), (listPage + 1 + 1) * PageSize))
        BY <1>1, <4>1, Paged
      <4>. QED BY <3>3, <3>4, <4>2
    <3>. QED BY <2>2, <3>4, <3>5, <3>6 DEF ListShown
  <2>. QED BY <1>3, <2>2, <2>3, <2>4, <2>5, <2>6 DEF LeadsInv, Awaited, Listed
<1>21. ASSUME NEW r \in flight, Leads!FailMore(r) PROVE LeadsInv'
  <2>1. r \in Asking /\ r.kind = "more"
    BY <1>21 DEF Leads!FailMore, Leads!Current, Asking
  <2>2. /\ loading' = FALSE
        /\ UNCHANGED <<filter, timer, reqId, rows, total, facets, listPage, loadError, file, version>>
        /\ flight' = flight \ {r}
    BY <1>21 DEF Leads!FailMore, Leads!Finally, Leads!there
  <2>3. Asking' = {} /\ LeadsTyped'
    BY <1>4, <1>17, <2>1, <2>2
  <2>4. version = 1 /\ ~ timer => ListShown'
    BY <1>2, <2>1, <2>2 DEF Listed, LeadsInv
  <2>5. ~ loadError
    BY <2>1 DEF Awaited, LeadsInv
  <2>. QED BY <1>3, <2>2, <2>3, <2>4, <2>5 DEF LeadsInv, Awaited, Listed
<1>22. CASE OnLeads
  BY <1>8, <1>9, <1>10, <1>11, <1>12, <1>13, <1>14, <1>15, <1>16, <1>18, <1>19, <1>20,
     <1>21, <1>22
     DEF OnLeads, Leads!Next, Leads!Answer
<1>. QED BY <1>7, <1>22 DEF Next

(* A list that has settled is what the filter keeps, as far as the pages     *)
(* shown go, in order and without a gap or a repetition, and so are its      *)
(* total and counts, for any market, filter, page size and order of answers  *)
(* (leads-query.ts, buildLeadsWhere; LeadsView.tsx, reqId).                  *)
THEOREM ListIsAlwaysTheFilter == Spec => []ListIsTheFilter
<1>1. LeadsInv => ListIsTheFilter
  BY DEF LeadsInv, Listed, ListShown, ListIsTheFilter, Leads!ListIsTheFilter, Leads!Settled
<1>. QED BY LeadsInit, LeadsStep, <1>1, PTL DEF Spec

(* The export of the filter shown holds the rows the list shows, in their    *)
(* order, up to the cap, and says so when the list is longer (leads/export   *)
(* route.ts and leads-query.ts share one query).                             *)
THEOREM ExportIsAlwaysTheList == Spec => []ExportIsTheList
<1>1. LeadsInv => ExportIsTheList
  <2>. SUFFICES ASSUME LeadsInv, file # None, Leads!Settled, version = 1,
                       file.key = Leads!Key(filter)
                PROVE  /\ \A i \in DOMAIN rows : i <= RowCap => file.rows[i] = rows[i]
                       /\ file.cut <=> total > Len(file.rows)
    BY DEF ExportIsTheList, Leads!ExportIsTheList
  <2>. DEFINE k == Leads!Key(filter)
              m == Leads!Matching(1, k)
              s == Leads!Pks(m)
              n == Leads!Count(1, k)
              depth == (listPage + 1) * PageSize
  <2>1. ListShown /\ listPage \in Nat
    BY DEF LeadsInv, LeadsTyped, Listed, Leads!Settled
  <2>2. rows = Leads!Pks(Leads!First(m, depth)) /\ total = n
    BY <2>1 DEF ListShown
  <2>3. file.version = 1
    BY DEF LeadsInv, Exported
  <2>4. file.rows = Leads!First(s, RowCap) /\ (file.cut <=> Len(s) > RowCap)
    BY <2>3 DEF LeadsInv, Exported
  <2>5. n \in Nat /\ IsSeq(m) /\ Len(m) = n
    BY MarketShape, MatchingShape
  <2>6. depth \in Nat /\ RowCap \in Nat
    BY <2>1, MarketShape
  <2>. HIDE DEF depth, n, m
  <2>7. DOMAIN m = 1 .. n
    BY <2>5, SeqShape
  <2>8. s = [i \in 1 .. n |-> s[i]] /\ \A i \in 1 .. n : s[i] = m[i].pk
    BY <2>7 DEF Leads!Pks
  <2>9. rows = [i \in 1 .. Lesser(depth, n) |-> m[i].pk]
    BY <2>2, <2>5, <2>6, FirstOf
  <2>. HIDE DEF s
  <2>10. IsSeq(s) /\ Len(s) = n
    BY <2>5, <2>8, FunctionSeq
  <2>11. Leads!Min({RowCap, n}) = Lesser(RowCap, n)
    BY <2>5, <2>6, MinOfTwo
  <2>12. file.rows = SubSeq(s, 1, Lesser(RowCap, n))
    BY <2>4, <2>10, <2>11 DEF Leads!First
  <2>. DEFINE c == Lesser(RowCap, n)
  <2>13. c \in Nat /\ c <= n /\ c <= RowCap /\ (n > c <=> n > RowCap)
         /\ \A i \in 1 .. n : i <= RowCap => i <= c
    BY <2>5, <2>6 DEF Lesser
  <2>14. Lesser(depth, n) \in Nat /\ Lesser(depth, n) <= n
    BY <2>5, <2>6 DEF Lesser
  <2>. HIDE DEF c
  <2>15. Len(file.rows) = c /\ \A i \in 1 .. c : file.rows[i] = s[i]
    <3>1. \A i \in 1 .. c : s[i] \in {s[j] : j \in DOMAIN s}
      <4>1. DOMAIN s = 1 .. n
        BY <2>10, SeqShape
      <4>. QED BY <2>5, <2>13, <4>1
    <3>2. /\ Len(SubSeq(s, 1, c)) = IF 1 <= c THEN c - 1 + 1 ELSE 0
          /\ \A i \in 1 .. c - 1 + 1 : SubSeq(s, 1, c)[i] = s[1 + i - 1]
      BY <2>13, <3>1, SubSeqProperties
    <3>3. file.rows = SubSeq(s, 1, c)
      BY <2>12 DEF c
    <3>. QED BY <2>13, <3>2, <3>3
  <2>16. file.cut <=> total > Len(file.rows)
    BY <2>2, <2>4, <2>10, <2>13, <2>15
  <2>17. ASSUME NEW i \in DOMAIN rows, i <= RowCap PROVE file.rows[i] = rows[i]
    <3>1. i \in 1 .. Lesser(depth, n) /\ rows[i] = m[i].pk
      BY <2>9
    <3>2. i \in 1 .. n /\ i \in 1 .. c
      BY <2>5, <2>13, <2>14, <2>17, <3>1
    <3>. QED BY <2>8, <2>15, <3>1, <3>2
  <2>. QED BY <2>16, <2>17
<1>. QED BY LeadsInit, LeadsStep, <1>1, PTL DEF Spec

-----------------------------------------------------------------------------
(* The account page *)

AcctFields == {"attested", "key", "areas", "subs", "unread"}
CallFields == {"id", "op", "arg", "stage", "ok", "got"}
Parts      == {"account", "areas", "subs"}

Card(c) == Account!CardOf[c.op]

CallTyped(c) ==
  /\ DOMAIN c = CallFields /\ DOMAIN c.got = Parts
  /\ c.op \in Account!Ops /\ c.id \in Nat /\ (c.stage # "reading" => c.id # 0)
  /\ c.stage # "reading" => \A p \in Parts : c.got[p] = None
  /\ c.op = "area" => c.arg = c.id

AcctTyped ==
  /\ faults \in Nat /\ clicks \in Nat /\ DOMAIN server = AcctFields
  /\ \A c \in calls : CallTyped(c) /\ c.id <= clicks /\ c.id <= MaxClicks

(* A card's flag lets one of its handlers run at a time; the calls of the     *)
(* delete links overlap, each with an id of its own.                          *)
OneOfEach ==
  /\ \A c \in calls : Card(c) # None => busy[Card(c)]
  /\ \A c, d \in calls : Card(c) = Card(d) /\ Card(c) # None => c = d
  /\ \A c, d \in calls : c.id = d.id /\ c.id # 0 => c = d
  /\ view = "stripe" => calls = {}

(* An id whose call the server has not carried out is nowhere yet. *)
Unborn(n) == n > clicks \/ \E c \in calls : c.id = n /\ c.stage # "reading"

Silent(c, n) ==
  /\ c.op = "unarea" => c.arg # n
  /\ c.op = "unalert" => c.arg.id # n
  /\ c.got["areas"] # None => n \notin c.got["areas"].value
  /\ c.got["subs"] # None => \A x \in c.got["subs"].value : x.id # n

Unheard(n) ==
  /\ n \notin server.areas /\ n \notin shown.areas
  /\ \A x \in server.subs : x.id # n
  /\ \A x \in shown.subs : x.id # n

Fresh == \A n \in 1 .. MaxClicks : Unborn(n) => Unheard(n) /\ \A c \in calls : Silent(c, n)

(* What a call did is there still, and in every part read after it. *)
Did(c) ==
  /\ c.op = "attest" => /\ server.attested = c.arg
                        /\ c.got["account"] # None => c.got["account"].value.attested = c.arg
  /\ c.op = "key" => /\ server.key = c.arg
                     /\ c.got["account"] # None => c.got["account"].value.key = c.arg
  /\ c.op = "area" => (c.got["areas"] # None =>
       c.arg \in c.got["areas"].value \/ c.arg \notin server.areas)
  /\ c.op = "alert" => (c.got["subs"] # None =>
       \/ \E x \in c.got["subs"].value : x.id = c.id
       \/ \A x \in server.subs : x.id # c.id)
  /\ c.op = "unarea" => /\ c.arg \notin server.areas
                        /\ c.got["areas"] # None => c.arg \notin c.got["areas"].value
  /\ c.op = "unalert" => /\ c.arg \notin server.subs
                         /\ c.got["subs"] # None => c.arg \notin c.got["subs"].value
  /\ c.op = "read" => /\ server.unread \cap c.arg = {}
                      /\ c.got["account"] # None => c.got["account"].value.unread \cap c.arg = {}

Own == faults = 0 => \A c \in calls : c.stage = "reading" /\ c.ok => Did(c)

AccountInv == AcctTyped /\ OneOfEach /\ Fresh /\ Own /\ Account!BusyIsAtWork

LEMMA AccountConstants ==
  /\ MaxClicks \in Nat
  /\ None \notin {"attest", "key", "area", "alert", "billing", "login"}
  /\ \A a \in Accounts :
       /\ DOMAIN a = AcctFields
       /\ \A n \in 1 .. MaxClicks : n \notin a.areas /\ \A s \in a.subs : s.id # n
BY ConstantsAssumption DEF Account!ConstantsOK, AcctFields

LEMMA Visits ==
  LET v == Account!Visit IN
    /\ CallTyped(v) /\ Card(v) = None /\ v.id = 0 /\ v.stage = "reading" /\ v.op = "visit"
    /\ Did(v) /\ \A n : Silent(v, n)
BY DEF Account!Visit, Account!Call, Account!NoParts, Account!Parts, CallTyped, CallFields,
       Parts,
       Card, Account!CardOf, Account!Ops, Did, Silent

LEMMA AccountInit == Init => AccountInv
<1>. SUFFICES ASSUME Init PROVE AccountInv
  OBVIOUS
<1>1. /\ server \in Accounts /\ shown = Account!Nothing /\ clicks = 0 /\ faults = 0
      /\ busy = [c \in Account!Cards |-> FALSE]
      /\ view \in {"login", "account"}
      /\ calls = {} \/ calls = {Account!Visit}
  BY DEF Init, Account!Init
<1>2. AcctTyped
  BY <1>1, AccountConstants, Visits DEF AcctTyped
<1>3. OneOfEach
  BY <1>1, Visits DEF OneOfEach
<1>4. Fresh
  <2>1. \A n \in 1 .. MaxClicks : Unheard(n)
    BY <1>1, AccountConstants DEF Unheard, Account!Nothing
  <2>. QED BY <1>1, <2>1, Visits DEF Fresh, Unborn
<1>5. Own
  BY <1>1, Visits DEF Own
<1>6. Account!BusyIsAtWork
  BY <1>1 DEF Account!BusyIsAtWork
<1>. QED BY <1>2, <1>3, <1>4, <1>5, <1>6 DEF AccountInv

LEMMA ClicksCount ==
  ASSUME clicks \in Nat, [Next]_vars
  PROVE  clicks' \in {clicks, clicks + 1}
<1>1. ASSUME Scan!Next PROVE clicks' \in {clicks, clicks + 1}
  BY <1>1 DEF Scan!Next, Scan!ChooseLens, Scan!ChooseGeoType, Scan!ChoosePeriod,
     Scan!ChooseFromList, Scan!ClickPolygon, Scan!SaveArea, Scan!LoadMap, Scan!Answer, Scan!Fail,
     Scan!Deliver, Scan!FailSent, Scan!AnswerBounds, Scan!AnswerDefault, Scan!AnswerDetail,
     Scan!AnswerBoundaries, Scan!AnswerPaint, Scan!AnswerSave, Scan!Click
<1>2. ASSUME Leads!Next PROVE clicks' \in {clicks, clicks + 1}
  BY <1>2 DEF Leads!Next, Leads!Edit, Leads!Retry, Leads!Fire, Leads!LoadMore, Leads!Export,
     Leads!Refresh, Leads!PressSave, Leads!Unsave, Leads!Patch, Leads!Answer, Leads!Ignore,
     Leads!AnswerFirst, Leads!AnswerMore, Leads!AnswerSave, Leads!FailFirst, Leads!FailMore,
     Leads!FailSave, Leads!Click
<1>3. ASSUME Account!Next PROVE clicks' \in {clicks, clicks + 1}
  BY <1>3 DEF Account!Next, Account!ToggleAttestation, Account!RemoveKey, Account!SaveArea,
     Account!MarkAllRead, Account!OpenBilling, Account!SignIn, Account!MagicLink, Account!SaveKey,
     Account!RemoveArea, Account!CreateAlert, Account!RemoveAlert, Account!Press, Account!Answer,
     Account!ServeFirst, Account!Serve, Account!Land, Account!LandBilling, Account!LandLogin,
     Account!Refuse, Account!Throw, Account!Fetch, Account!RefuseRead
<1>4. UNCHANGED vars => clicks' = clicks
  BY DEF vars
<1>. QED BY <1>1, <1>2, <1>3, <1>4 DEF Next, OnScan, OnLeads, OnAccount

(* A button pressed. *)
LEMMA PressStep ==
  ASSUME AccountInv, NEW op \in Account!Ops, NEW arg, Account!Press(op, arg),
         view # "stripe",
         op # "visit",
         op = "area" => arg = clicks + 1,
         op = "unarea" => arg \in shown.areas,
         op = "unalert" => arg \in shown.subs
  PROVE  AccountInv'
<1>. DEFINE d == Account!Call(clicks + 1, op, arg)
            o == Account!CardOf[op]
<1>1. /\ clicks < MaxClicks /\ clicks' = clicks + 1
      /\ o # None => ~ busy[o]
      /\ busy' = [c \in Account!Cards |-> (busy[c] \/ c = o)]
      /\ calls' = calls \cup {d}
      /\ UNCHANGED <<server, view, shown, faults>>
  BY DEF Account!Press
<1>2. /\ DOMAIN d = CallFields /\ DOMAIN d.got = Parts /\ d.id = clicks + 1 /\ d.op = op
      /\ d.arg = arg /\ d.stage = "sent" /\ \A p \in Parts : d.got[p] = None
  BY DEF Account!Call, Account!NoParts, Account!Parts, CallFields, Parts
<1>3. Card(d) = o
  BY <1>2 DEF Card
<1>4. o # None => o \in Account!Cards
  BY DEF Account!Cards
<1>5. clicks \in Nat /\ MaxClicks \in Nat /\ \A c \in calls : c.id \in Nat /\ c.id <= clicks
  BY AccountConstants DEF AccountInv, AcctTyped, CallTyped
<1>. HIDE DEF d, o
<1>6. AcctTyped'
  <2>1. CallTyped(d)
    BY <1>2, <1>5 DEF CallTyped
  <2>2. \A c \in calls' : CallTyped(c) /\ c.id <= clicks' /\ c.id <= MaxClicks
    BY <1>1, <1>2, <1>5, <2>1 DEF AccountInv, AcctTyped
  <2>. QED BY <1>1, <1>5, <2>2 DEF AccountInv, AcctTyped
<1>7. OneOfEach'
  <2>1. \A c \in calls : Card(c) # None => busy[Card(c)] /\ Card(c) \in Account!Cards
    BY DEF AccountInv, OneOfEach, AcctTyped, CallTyped, Card, Account!Cards
  <2>2. \A c \in calls' : Card(c) # None => busy'[Card(c)]
    BY <1>1, <1>3, <1>4, <2>1
  <2>3. \A c, e \in calls' : Card(c) = Card(e) /\ Card(c) # None => c = e
    BY <1>1, <1>3, <2>1 DEF AccountInv, OneOfEach
  <2>4. \A c, e \in calls' : c.id = e.id /\ c.id # 0 => c = e
    BY <1>1, <1>2, <1>5 DEF AccountInv, OneOfEach
  <2>. QED BY <1>1, <2>2, <2>3, <2>4 DEF OneOfEach
<1>8. Fresh'
  <2>. SUFFICES ASSUME NEW n \in 1 .. MaxClicks, Unborn(n)'
                PROVE  Unheard(n)' /\ \A c \in calls' : Silent(c, n)
    BY DEF Fresh, Silent
  <2>1. Unborn(n)
    BY <1>1, <1>2, <1>5 DEF Unborn
  <2>2. Unheard(n) /\ \A c \in calls : Silent(c, n)
    BY <2>1 DEF AccountInv, Fresh
  <2>3. Silent(d, n)
    BY <1>2, <2>2 DEF Silent, Unheard, Parts
  <2>. QED BY <1>1, <2>2, <2>3 DEF Unheard
<1>9. Own'
  BY <1>1, <1>2 DEF AccountInv, Own, Did
<1>10. Account!BusyIsAtWork'
  BY <1>1, <1>3 DEF AccountInv, Account!BusyIsAtWork, Card
<1>. QED BY <1>6, <1>7, <1>8, <1>9, <1>10 DEF AccountInv

(* A call goes on, as `d`. *)
LEMMA MoveStep ==
  ASSUME AccountInv, NEW c \in calls, NEW d, Account!Moves(c, d),
         UNCHANGED <<view, shown, busy, clicks>>, faults' \in {faults, faults + 1},
         CallTyped(d), d.id = c.id, d.op = c.op, d.stage # "reading" => c.stage # "reading",
         DOMAIN server' = AcctFields,
         \A n \in 1 .. MaxClicks :
           /\ Unborn(n) /\ Unheard(n) /\ Silent(c, n) /\ (d.stage = "reading" => n # c.id)
           => Unheard(n)' /\ Silent(d, n),
         faults' = 0 => \A e \in calls :
           e # c /\ e.stage = "reading" /\ e.ok /\ Did(e) => Did(e)',
         faults' = 0 /\ d.stage = "reading" /\ d.ok => Did(d)'
  PROVE  AccountInv'
<1>1. calls' = (calls \ {c}) \cup {d} /\ view # "stripe"
  BY DEF Account!Moves, AccountInv, OneOfEach
<1>2. faults' \in Nat /\ (faults' = 0 => faults = 0) /\ (faults > 0 => faults' > 0)
  BY DEF AccountInv, AcctTyped
<1>3. AcctTyped'
  BY <1>1, <1>2 DEF AccountInv, AcctTyped
<1>4. Card(d) = Card(c)
  BY DEF Card
<1>5. OneOfEach'
  <2>1. \A e \in calls' : Card(e) # None => busy'[Card(e)]
    BY <1>1, <1>4 DEF AccountInv, OneOfEach
  <2>2. \A e, f \in calls' : Card(e) = Card(f) /\ Card(e) # None => e = f
    BY <1>1, <1>4 DEF AccountInv, OneOfEach
  <2>3. \A e, f \in calls' : e.id = f.id /\ e.id # 0 => e = f
    BY <1>1 DEF AccountInv, OneOfEach
  <2>. QED BY <1>1, <2>1, <2>2, <2>3 DEF OneOfEach
<1>6. Fresh'
  <2>. SUFFICES ASSUME NEW n \in 1 .. MaxClicks, Unborn(n)'
                PROVE  Unheard(n)' /\ \A e \in calls' : Silent(e, n)
    BY DEF Fresh, Silent
  <2>1. c.id \in Nat /\ clicks \in Nat /\ c.id <= clicks /\ MaxClicks \in Nat
    BY AccountConstants DEF AccountInv, AcctTyped, CallTyped
  <2>2. Unborn(n)
    BY <1>1 DEF Unborn
  <2>3. d.stage = "reading" => n # c.id
    BY <1>1, <2>1 DEF Unborn, AccountInv, OneOfEach
  <2>4. Unheard(n) /\ \A e \in calls : Silent(e, n)
    BY <2>2 DEF AccountInv, Fresh
  <2>5. Unheard(n)' /\ Silent(d, n)
    BY <2>2, <2>3, <2>4
  <2>. QED BY <1>1, <2>4, <2>5
<1>7. Own'
  <2>. SUFFICES ASSUME faults' = 0, NEW e \in calls', e.stage = "reading", e.ok PROVE Did(e)'
    BY DEF Own, Did
  <2>1. CASE e = d
    BY <1>2, <2>1
  <2>2. CASE e \in calls /\ e # c
    <3>1. Did(e)
      BY <1>2, <2>2 DEF AccountInv, Own
    <3>. QED BY <1>2, <2>2, <3>1
  <2>. QED BY <1>1, <2>1, <2>2
<1>8. Account!BusyIsAtWork'
  <2>. SUFFICES ASSUME NEW b \in Account!Cards, busy'[b]
                PROVE  \/ \E k \in calls' : Account!CardOf[k.op] = b
                       \/ view' = "stripe"
                       \/ faults' > 0 /\ b # "billing"
    BY DEF Account!BusyIsAtWork
  <2>1. (\E k \in calls : Account!CardOf[k.op] = b) \/ (faults > 0 /\ b # "billing")
    BY <1>1 DEF AccountInv, Account!BusyIsAtWork
  <2>2. ASSUME NEW k \in calls, Account!CardOf[k.op] = b
        PROVE  \E e \in calls' : Account!CardOf[e.op] = b
    <3>1. CASE k = c
      BY <1>1, <2>2, <3>1
    <3>2. CASE k # c
      BY <1>1, <2>2, <3>2
    <3>. QED BY <3>1, <3>2
  <2>. QED BY <1>2, <2>1, <2>2
<1>. QED BY <1>3, <1>5, <1>6, <1>7, <1>8 DEF AccountInv

(* A call ends, and clears its flag unless it threw. *)
LEMMA EndStep ==
  ASSUME AccountInv, NEW c \in calls,
         calls' = calls \ {c} \/ calls' = (calls \ {c}) \cup {Account!Visit},
         view' \in {view, "account"}, UNCHANGED <<server, clicks>>,
         Account!Ends(c) \/ (UNCHANGED busy /\ faults' > 0 /\ c.op # "billing"),
         faults' \in {faults, faults + 1},
         \A n \in 1 .. MaxClicks : Unborn(n) /\ Unheard(n) => Unheard(n)'
  PROVE  AccountInv'
<1>1. view # "stripe" /\ \A e \in calls' : (e \in calls /\ e # c) \/ e = Account!Visit
  BY DEF AccountInv, OneOfEach
<1>2. faults' \in Nat /\ (faults' = 0 => faults = 0) /\ (faults > 0 => faults' > 0)
  BY DEF AccountInv, AcctTyped
<1>3. AcctTyped'
  BY <1>1, <1>2, Visits, AccountConstants DEF AccountInv, AcctTyped
<1>4. \A e \in calls : Card(e) # None => busy[Card(e)] /\ Card(e) \in Account!Cards
  BY DEF AccountInv, OneOfEach, AcctTyped, CallTyped, Card, Account!Cards
<1>5. OneOfEach'
  <2>1. ASSUME NEW e \in calls', Card(e) # None PROVE busy'[Card(e)]
    <3>1. e \in calls /\ e # c
      BY <1>1, <2>1, Visits
    <3>2. Card(e) # Card(c)
      BY <2>1, <3>1 DEF AccountInv, OneOfEach
    <3>3. busy[Card(e)] /\ Card(e) \in Account!Cards
      BY <1>4, <2>1, <3>1
    <3>. QED BY <3>2, <3>3 DEF Account!Ends, Card
  <2>2. \A e, f \in calls' : Card(e) = Card(f) /\ Card(e) # None => e = f
    BY <1>1, Visits DEF AccountInv, OneOfEach
  <2>3. \A e, f \in calls' : e.id = f.id /\ e.id # 0 => e = f
    BY <1>1, Visits DEF AccountInv, OneOfEach
  <2>. QED BY <1>1, <2>1, <2>2, <2>3 DEF OneOfEach
<1>6. Fresh'
  <2>. SUFFICES ASSUME NEW n \in 1 .. MaxClicks, Unborn(n)'
                PROVE  Unheard(n)' /\ \A e \in calls' : Silent(e, n)
    BY DEF Fresh, Silent
  <2>1. Unborn(n)
    BY <1>1, Visits DEF Unborn
  <2>2. Unheard(n) /\ \A e \in calls : Silent(e, n)
    BY <2>1 DEF AccountInv, Fresh
  <2>. QED BY <1>1, <2>1, <2>2, Visits
<1>7. Own'
  <2>. SUFFICES ASSUME faults' = 0, NEW e \in calls', e.stage = "reading", e.ok PROVE Did(e)'
    BY DEF Own, Did
  <2>1. Did(e)
    BY <1>1, <1>2, Visits DEF AccountInv, Own
  <2>. QED BY <2>1 DEF Did
<1>8. Account!BusyIsAtWork'
  <2>. SUFFICES ASSUME NEW b \in Account!Cards, busy'[b]
                PROVE  \/ \E k \in calls' : Account!CardOf[k.op] = b
                       \/ view' = "stripe"
                       \/ faults' > 0 /\ b # "billing"
    BY DEF Account!BusyIsAtWork
  <2>1. busy[b] /\ (b = Card(c) => faults' > 0 /\ c.op # "billing")
    BY DEF Account!Ends, Card
  <2>2. (\E k \in calls : Card(k) = b) \/ (faults > 0 /\ b # "billing")
    BY <1>1, <2>1 DEF AccountInv, Account!BusyIsAtWork, Card
  <2>3. Card(c) = "billing" => c.op = "billing"
    <3>1. c.op \in Account!Ops
      BY DEF AccountInv, AcctTyped, CallTyped
    <3>. QED BY <3>1, AccountConstants DEF Card, Account!CardOf, Account!Ops
  <2>4. ASSUME NEW k \in calls, Card(k) = b, k # c
        PROVE  \E e \in calls' : Account!CardOf[e.op] = b
    BY <2>4 DEF Card
  <2>. QED BY <1>2, <2>1, <2>2, <2>3, <2>4
<1>. QED BY <1>3, <1>5, <1>6, <1>7, <1>8 DEF AccountInv

LEMMA Excepts ==
  ASSUME NEW c, CallTyped(c)
  PROVE  /\ \A s : LET d == [c EXCEPT !.stage = s] IN
              /\ DOMAIN d = CallFields /\ d.id = c.id /\ d.op = c.op /\ d.arg = c.arg
              /\ d.stage = s /\ d.ok = c.ok /\ d.got = c.got
         /\ \A s, o : LET d == [c EXCEPT !.stage = s, !.ok = o] IN
              /\ DOMAIN d = CallFields /\ d.id = c.id /\ d.op = c.op /\ d.arg = c.arg
              /\ d.stage = s /\ d.ok = o /\ d.got = c.got
         /\ \A s, a : LET d == [[c EXCEPT !.arg = a] EXCEPT !.stage = s] IN
              /\ DOMAIN d = CallFields /\ d.id = c.id /\ d.op = c.op /\ d.arg = a
              /\ d.stage = s /\ d.ok = c.ok /\ d.got = c.got
         /\ \A p \in Parts : \A v : LET d == [c EXCEPT !.got[p] = v] IN
              /\ DOMAIN d = CallFields /\ d.id = c.id /\ d.op = c.op /\ d.arg = c.arg
              /\ d.stage = c.stage /\ d.ok = c.ok /\ DOMAIN d.got = Parts
              /\ d.got[p] = v /\ \A q \in Parts \ {p} : d.got[q] = c.got[q]
BY DEF CallTyped, CallFields

LEMMA AccountStep == AccountInv /\ [Next]_vars => AccountInv'
<1>. SUFFICES ASSUME AccountInv, [Next]_vars PROVE AccountInv'
  OBVIOUS
<1>1. /\ faults \in Nat /\ faults' \in {faults, faults + 1}
      /\ clicks \in Nat /\ clicks' \in {clicks, clicks + 1}
  BY FaultsCount, ClicksCount DEF AccountInv, AcctTyped
<1>2. CASE UNCHANGED vars \/ OnScan \/ OnLeads
  <2>1. UNCHANGED <<server, view, shown, busy, calls>>
    BY <1>2 DEF vars, OnScan, OnLeads, acctVars
  <2>2. AcctTyped'
    BY <1>1, <2>1 DEF AccountInv, AcctTyped, CallTyped
  <2>3. OneOfEach'
    BY <2>1 DEF AccountInv, OneOfEach
  <2>4. Fresh'
    BY <1>1, AccountConstants, <2>1 DEF AccountInv, Fresh, Unborn, Unheard
  <2>5. Own'
    BY <1>1, <2>1 DEF AccountInv, Own, Did
  <2>6. Account!BusyIsAtWork'
    BY <1>1, <2>1 DEF AccountInv, Account!BusyIsAtWork
  <2>. QED BY <2>2, <2>3, <2>4, <2>5, <2>6 DEF AccountInv
<1>3. CASE \/ Account!ToggleAttestation \/ Account!RemoveKey \/ Account!SaveArea
           \/ Account!MarkAllRead \/ Account!OpenBilling \/ Account!SignIn \/ Account!MagicLink
           \/ \E v \in Vendors : Account!SaveKey(v)
           \/ \E a \in shown.areas : Account!RemoveArea(a) \/ Account!CreateAlert(a)
           \/ \E s \in shown.subs : Account!RemoveAlert(s)
  <2>1. \E op \in Account!Ops : \E arg :
           /\ Account!Press(op, arg) /\ op # "visit" /\ view # "stripe"
           /\ op = "area" => arg = clicks + 1
           /\ op = "unarea" => arg \in shown.areas
           /\ op = "unalert" => arg \in shown.subs
    <3>1. {"attest", "key", "area", "unarea", "alert", "unalert", "read", "billing", "signin",
           "magic"} \subseteq Account!Ops
      BY DEF Account!Ops, Account!CardOf
    <3>2. CASE Account!ToggleAttestation \/ Account!RemoveKey \/ Account!SaveArea
      BY <3>1, <3>2 DEF Account!ToggleAttestation, Account!RemoveKey, Account!SaveArea
    <3>3. CASE Account!MarkAllRead \/ Account!OpenBilling \/ Account!SignIn \/ Account!MagicLink
      BY <3>1, <3>3 DEF Account!MarkAllRead, Account!OpenBilling, Account!SignIn,
                        Account!MagicLink
    <3>4. CASE \E v \in Vendors : Account!SaveKey(v)
      BY <3>1, <3>4 DEF Account!SaveKey
    <3>5. CASE \E a \in shown.areas : Account!RemoveArea(a) \/ Account!CreateAlert(a)
      BY <3>1, <3>5 DEF Account!RemoveArea, Account!CreateAlert
    <3>6. CASE \E s \in shown.subs : Account!RemoveAlert(s)
      BY <3>1, <3>6 DEF Account!RemoveAlert
    <3>. QED BY <1>3, <3>2, <3>3, <3>4, <3>5, <3>6
  <2>. QED BY <2>1, PressStep
<1>4. ASSUME NEW c \in calls, Account!Land(c) PROVE AccountInv'
  <2>1. /\ shown' = [p \in Parts |-> c.got[p].value] /\ \A p \in Parts : c.got[p] # None
        /\ Account!Ends(c) /\ calls' = calls \ {c} /\ UNCHANGED <<server, view, clicks>>
    BY <1>4 DEF Account!Land, Account!Parts, Parts
  <2>2. \A n \in 1 .. MaxClicks : Unborn(n) /\ Unheard(n) => Unheard(n)'
    <3>1. ASSUME NEW n \in 1 .. MaxClicks, Unborn(n), Unheard(n) PROVE Unheard(n)'
      <4>1. Silent(c, n)
        BY <3>1 DEF AccountInv, Fresh
      <4>. QED BY <2>1, <3>1, <4>1 DEF Unheard, Silent, Parts
    <3>. QED BY <3>1
  <2>. QED BY <1>1, <2>1, <2>2, EndStep
<1>5. ASSUME NEW c \in calls, Account!LandBilling(c) PROVE AccountInv'
  <2>1. CASE view' = "stripe" /\ calls' = {} /\ UNCHANGED busy
    <3>1. UNCHANGED <<server, shown, clicks, faults>>
      BY <1>5 DEF Account!LandBilling
    <3>2. Fresh'
      BY <2>1, <3>1 DEF AccountInv, Fresh, Unborn, Unheard
    <3>. QED BY <2>1, <3>1, <3>2 DEF AccountInv, AcctTyped, OneOfEach, Own,
                                     Account!BusyIsAtWork
  <2>2. CASE UNCHANGED view /\ Account!Ends(c) /\ calls' = calls \ {c}
    BY <1>1, <1>5, <2>2, EndStep DEF Account!LandBilling, Unheard
  <2>. QED BY <1>5, <2>1, <2>2 DEF Account!LandBilling
<1>6. ASSUME NEW c \in calls, Account!LandLogin(c) PROVE AccountInv'
  BY <1>1, <1>6, EndStep DEF Account!LandLogin, Unheard
<1>7. ASSUME NEW c \in calls, Account!Throw(c) PROVE AccountInv'
  <2>1. faults' > 0
    BY <1>1, <1>7 DEF Account!Throw, Account!Fault
  <2>2. Account!Ends(c) \/ (UNCHANGED busy /\ faults' > 0 /\ c.op # "billing")
    BY <1>7, <2>1 DEF Account!Throw, Account!Guarded
  <2>. QED BY <1>1, <1>7, <2>2, EndStep DEF Account!Throw, Unheard

<1>8. ASSUME NEW c \in calls
      PROVE  /\ CallTyped(c) /\ DOMAIN server = AcctFields /\ c.op \in Account!Ops /\ c.id \in Nat
             /\ \A n \in 1 .. MaxClicks : Unborn(n) => Unheard(n) /\ \A e \in calls : Silent(e, n)
             /\ c.stage # "reading" => /\ \A p \in Parts : c.got[p] = None
                                       /\ c.id \in 1 .. MaxClicks /\ Unborn(c.id)
  <2>1. CallTyped(c) /\ DOMAIN server = AcctFields /\ c.id <= MaxClicks
    BY DEF AccountInv, AcctTyped
  <2>2. \A n \in 1 .. MaxClicks : Unborn(n) => Unheard(n) /\ \A e \in calls : Silent(e, n)
    BY DEF AccountInv, Fresh
  <2>3. ASSUME c.stage # "reading" PROVE c.id \in 1 .. MaxClicks /\ Unborn(c.id)
    <3>1. c.id # 0
      BY <2>1, <2>3 DEF CallTyped
    <3>. QED BY <2>1, <2>3, <3>1, AccountConstants DEF CallTyped, Unborn
  <2>. QED BY <2>1, <2>2, <2>3 DEF CallTyped
<1>9. ASSUME NEW c \in calls, Account!Refuse(c) PROVE AccountInv'
  <2>. DEFINE d == Account!Refused(c)
  <2>1. /\ Account!Moves(c, d) /\ faults' = faults + 1
        /\ UNCHANGED <<server, view, shown, busy, clicks>>
    BY <1>9 DEF Account!Refuse, Account!Fault
  <2>2. /\ DOMAIN d = CallFields /\ d.id = c.id /\ d.op = c.op /\ d.arg = c.arg
        /\ d.stage = "reading" /\ d.got = c.got
    BY <1>8, Excepts DEF Account!Refused
  <2>. HIDE DEF d
  <2>3. CallTyped(d)
    BY <1>8, <2>2 DEF CallTyped
  <2>4. \A n : Silent(c, n) => Silent(d, n)
    BY <2>2 DEF Silent
  <2>5. faults' # 0 /\ faults' \in {faults, faults + 1} /\ DOMAIN server' = AcctFields
    BY <1>1, <1>8, <2>1
  <2>6. \A n : Unheard(n) => Unheard(n)'
    BY <2>1 DEF Unheard
  <2>. QED BY <2>1, <2>2, <2>3, <2>4, <2>5, <2>6, MoveStep
<1>10. ASSUME NEW c \in calls, NEW p \in Account!Parts, Account!RefuseRead(c, p)
       PROVE AccountInv'
  <2>. DEFINE v == [value |-> Account!Nothing[p]]
              d == [c EXCEPT !.got[p] = v]
  <2>1. /\ Account!Moves(c, d) /\ faults' = faults + 1 /\ c.stage = "reading" /\ p \in Parts
        /\ UNCHANGED <<server, view, shown, busy, clicks>>
    BY <1>10 DEF Account!RefuseRead, Account!Fault, Account!Parts, Parts
  <2>2. /\ DOMAIN d = CallFields /\ d.id = c.id /\ d.op = c.op /\ d.arg = c.arg
        /\ d.stage = c.stage /\ DOMAIN d.got = Parts
        /\ d.got[p] = v /\ \A q \in Parts \ {p} : d.got[q] = c.got[q]
    BY <1>8, <2>1, Excepts
  <2>3. v.value = Account!Nothing[p]
    OBVIOUS
  <2>. HIDE DEF d, v
  <2>4. CallTyped(d)
    BY <1>8, <2>1, <2>2 DEF CallTyped
  <2>5. ASSUME NEW n, Silent(c, n) PROVE Silent(d, n)
    <3>1. d.got["areas"] # None => n \notin d.got["areas"].value
      BY <2>1, <2>2, <2>3, <2>5 DEF Silent, Account!Nothing, Parts
    <3>2. d.got["subs"] # None => \A x \in d.got["subs"].value : x.id # n
      BY <2>1, <2>2, <2>3, <2>5 DEF Silent, Account!Nothing, Parts
    <3>. QED BY <2>2, <2>5, <3>1, <3>2 DEF Silent
  <2>6. faults' # 0 /\ faults' \in {faults, faults + 1} /\ DOMAIN server' = AcctFields
    BY <1>1, <1>8, <2>1
  <2>7. \A n : Unheard(n) => Unheard(n)'
    BY <2>1 DEF Unheard
  <2>. QED BY <2>1, <2>2, <2>4, <2>5, <2>6, <2>7, MoveStep
<1>11. ASSUME NEW c \in calls, NEW p \in Account!Parts, Account!Fetch(c, p)
       PROVE AccountInv'
  <2>. DEFINE v == [value |-> Account!Read(p)]
              d == [c EXCEPT !.got[p] = v]
  <2>1. /\ Account!Moves(c, d) /\ c.stage = "reading" /\ p \in Parts
        /\ UNCHANGED <<server, view, shown, busy, clicks, faults>>
    BY <1>11 DEF Account!Fetch, Account!Refreshes, Account!Parts, Parts
  <2>2. /\ DOMAIN d = CallFields /\ d.id = c.id /\ d.op = c.op /\ d.arg = c.arg
        /\ d.stage = c.stage /\ d.ok = c.ok /\ DOMAIN d.got = Parts
        /\ d.got[p] = v /\ \A q \in Parts \ {p} : d.got[q] = c.got[q]
    BY <1>8, <2>1, Excepts
  <2>3. /\ p = "account" => /\ v.value.attested = server.attested /\ v.value.key = server.key
                            /\ v.value.unread = server.unread
        /\ p = "areas" => v.value = server.areas
        /\ p = "subs" => v.value = server.subs
    BY DEF Account!Read
  <2>. HIDE DEF d, v
  <2>4. CallTyped(d)
    BY <1>8, <2>1, <2>2 DEF CallTyped
  <2>5. ASSUME NEW n, Silent(c, n), Unheard(n) PROVE Silent(d, n)
    <3>1. d.got["areas"] # None => n \notin d.got["areas"].value
      BY <2>1, <2>2, <2>3, <2>5 DEF Silent, Unheard, Parts
    <3>2. d.got["subs"] # None => \A x \in d.got["subs"].value : x.id # n
      BY <2>1, <2>2, <2>3, <2>5 DEF Silent, Unheard, Parts
    <3>. QED BY <2>2, <2>5, <3>1, <3>2 DEF Silent
  <2>6. ASSUME d.ok, faults' = 0 PROVE Did(d)
    <3>1. Did(c)
      BY <2>1, <2>2, <2>6 DEF AccountInv, Own
    <3>2. CASE p = "account"
      <4>1. d.got["areas"] = c.got["areas"] /\ d.got["subs"] = c.got["subs"] /\ d.got["account"] = v
        BY <2>2, <3>2 DEF Parts
      <4>. QED BY <2>2, <2>3, <3>1, <3>2, <4>1 DEF Did
    <3>3. CASE p = "areas"
      <4>1. d.got["account"] = c.got["account"] /\ d.got["subs"] = c.got["subs"] /\ d.got["areas"] = v
        BY <2>2, <3>3 DEF Parts
      <4>. QED BY <2>2, <2>3, <3>1, <3>3, <4>1 DEF Did
    <3>4. CASE p = "subs"
      <4>1. d.got["account"] = c.got["account"] /\ d.got["areas"] = c.got["areas"] /\ d.got["subs"] = v
        BY <2>2, <3>4 DEF Parts
      <4>. QED BY <2>2, <2>3, <3>1, <3>4, <4>1 DEF Did
    <3>. QED BY <2>1, <3>2, <3>3, <3>4 DEF Parts
  <2>7. \A e : Did(e) => Did(e)'
    BY <2>1 DEF Did
  <2>8. \A n : Unheard(n) => Unheard(n)'
    BY <2>1 DEF Unheard
  <2>9. faults' \in {faults, faults + 1} /\ DOMAIN server' = AcctFields
    BY <1>1, <1>8, <2>1
  <2>. QED BY <2>1, <2>2, <2>4, <2>5, <2>6, <2>7, <2>8, <2>9, MoveStep

<1>12. ASSUME NEW c \in calls, Account!ServeFirst(c) PROVE AccountInv'
  <2>1. /\ c.stage = "sent" /\ UNCHANGED <<view, shown, busy, clicks, faults>>
        /\ faults' \in {faults, faults + 1}
    BY <1>1, <1>12 DEF Account!ServeFirst
  (* The server holds no more than before. *)
  <2>2. ASSUME DOMAIN server' = AcctFields, server'.areas = server.areas,
               server'.subs \subseteq server.subs,
               UNCHANGED <<server.attested, server.key, server.unread>>
        PROVE  (\A n : Unheard(n) => Unheard(n)') /\ (\A e : Did(e) => Did(e)')
    BY <2>1, <2>2 DEF Unheard, Did
  <2>3. ASSUME NEW d, Account!Moves(c, d), d \in {[c EXCEPT !.stage = "half"],
               Account!Refused(c)},
               DOMAIN server' = AcctFields, server'.areas = server.areas,
               server'.subs \subseteq server.subs,
               UNCHANGED <<server.attested, server.key, server.unread>>
        PROVE  AccountInv'
    <3>1. /\ DOMAIN d = CallFields /\ d.id = c.id /\ d.op = c.op /\ d.arg = c.arg
          /\ d.got = c.got /\ (d.stage = "half" \/ ~ d.ok)
      <4>1. CASE d = [c EXCEPT !.stage = "half"]
        BY <1>8, <4>1, Excepts
      <4>2. CASE d = Account!Refused(c)
        BY <1>8, <4>2, Excepts DEF Account!Refused
      <4>. QED BY <2>3, <4>1, <4>2
    <3>2. CallTyped(d)
      BY <1>8, <2>1, <3>1 DEF CallTyped
    <3>3. \A n : Silent(c, n) => Silent(d, n)
      BY <3>1 DEF Silent
    <3>4. d.stage # "reading" => c.stage # "reading"
      BY <2>1
    <3>5. ~ (d.stage = "reading" /\ d.ok)
      BY <3>1
    <3>. QED BY <2>1, <2>2, <2>3, <3>1, <3>2, <3>3, <3>4, <3>5, MoveStep
  <2>4. CASE c.op = "alert" /\ UNCHANGED server
    BY <1>8, <1>12, <2>3, <2>4 DEF Account!ServeFirst
  <2>5. CASE c.op = "unarea"
    <3>1. /\ server' = [server EXCEPT !.subs = {s \in @ : s.area # c.arg}]
          /\ Account!Moves(c, [c EXCEPT !.stage = "half"])
      BY <1>12, <2>5 DEF Account!ServeFirst
    <3>2. /\ DOMAIN server' = AcctFields /\ server'.areas = server.areas
          /\ server'.subs \subseteq server.subs
          /\ server'.attested = server.attested /\ server'.key = server.key
          /\ server'.unread = server.unread
      BY <1>8, <3>1 DEF AcctFields
    <3>. QED BY <2>3, <3>1, <3>2
  <2>. QED BY <1>12, <2>4, <2>5 DEF Account!ServeFirst
<1>13. ASSUME NEW c \in calls, Account!Serve(c) PROVE AccountInv'
  <2>1. /\ c.stage # "reading" /\ UNCHANGED <<view, shown, busy, clicks, faults>>
        /\ faults' \in {faults, faults + 1} /\ c.op \in Account!Mutating
    BY <1>1, <1>13 DEF Account!Serve, Account!Ready
  <2>2. CASE c.op = "area" /\ UNCHANGED server /\ Account!Moves(c, Account!Refused(c))
    <3>. DEFINE d == Account!Refused(c)
    <3>1. /\ DOMAIN d = CallFields /\ d.id = c.id /\ d.op = c.op /\ d.arg = c.arg
          /\ d.got = c.got /\ ~ d.ok
      BY <1>8, Excepts DEF Account!Refused
    <3>. HIDE DEF d
    <3>2. CallTyped(d)
      BY <1>8, <2>1, <3>1 DEF CallTyped
    <3>3. \A n : Silent(c, n) => Silent(d, n)
      BY <3>1 DEF Silent
    <3>4. (\A n : Unheard(n) => Unheard(n)') /\ (\A e : Did(e) => Did(e)')
      BY <2>1, <2>2 DEF Unheard, Did
    <3>5. DOMAIN server' = AcctFields /\ Account!Moves(c, d)
      BY <1>8, <2>2 DEF d
    <3>. QED BY <2>1, <3>1, <3>2, <3>3, <3>4, <3>5, MoveStep
  <2>3. CASE /\ server' = Account!Effect(c)
             /\ Account!Moves(c, Account!Served(IF c.op = "read" THEN [c EXCEPT !.arg = server.unread]
                                                                 ELSE c))
    <3>. PICK d : d = Account!Served(IF c.op = "read" THEN [c EXCEPT !.arg = server.unread] ELSE c)
      OBVIOUS
    <3>1. /\ DOMAIN d = CallFields /\ d.id = c.id /\ d.op = c.op /\ d.got = c.got
          /\ d.stage = "reading" /\ d.arg = IF c.op = "read" THEN server.unread ELSE c.arg
      <4>1. CASE c.op = "read"
        BY <1>8, <4>1, Excepts DEF Account!Served
      <4>2. CASE c.op # "read"
        BY <1>8, <4>2, Excepts DEF Account!Served
      <4>. QED BY <4>1, <4>2
    <3>2. CallTyped(d)
      BY <1>8, <2>1, <3>1 DEF CallTyped
    <3>3. \A n : Silent(c, n) => Silent(d, n)
      BY <3>1 DEF Silent
    <3>4. \A p \in Parts : d.got[p] = None
      BY <1>8, <2>1, <3>1
    <3>5. DOMAIN server' = AcctFields /\ Account!Moves(c, d)
      BY <1>8, <2>3 DEF Account!Effect, AcctFields
    (* What the call changes of the server, by its kind. *)
    <3>6. /\ server'.attested = IF c.op = "attest" THEN c.arg ELSE server.attested
          /\ server'.key = IF c.op = "key" THEN c.arg ELSE server.key
          /\ server'.unread = IF c.op = "read" THEN {} ELSE server.unread
      BY <1>8, <2>3 DEF Account!Effect, AcctFields
    <3>7. server'.areas = CASE c.op = "area" -> server.areas \cup {c.id}
                            [] c.op = "unarea" -> server.areas \ {c.arg}
                            [] OTHER -> server.areas
      BY <1>8, <2>3 DEF Account!Effect, AcctFields, CallTyped
    <3>8. server'.subs = CASE c.op = "alert" -> server.subs \cup {[id |-> c.id, area |-> c.arg]}
                           [] c.op = "unalert" -> server.subs \ {c.arg}
                           [] OTHER -> server.subs
      BY <1>8, <2>3 DEF Account!Effect, AcctFields
    <3>9. ASSUME NEW n, Unheard(n), n # c.id PROVE Unheard(n)'
      <4>1. n \notin server'.areas
        BY <3>7, <3>9 DEF Unheard
      <4>2. \A x \in server'.subs : x.id # n
        BY <3>8, <3>9 DEF Unheard
      <4>. QED BY <2>1, <3>9, <4>1, <4>2 DEF Unheard
    <3>10. ASSUME d.ok PROVE Did(d)'
      <4>1. /\ d.op = "attest" => server'.attested = d.arg
            /\ d.op = "key" => server'.key = d.arg
            /\ d.op = "read" => server'.unread \cap d.arg = {}
        BY <3>1, <3>6
      <4>2. d.op = "unarea" => d.arg \notin server'.areas
        BY <3>1, <3>7
      <4>3. d.op = "unalert" => d.arg \notin server'.subs
        BY <3>1, <3>8
      <4>4. d.got["account"] = None /\ d.got["areas"] = None /\ d.got["subs"] = None
        BY <3>4 DEF Parts
      <4>. QED BY <4>1, <4>2, <4>3, <4>4 DEF Did
    <3>11. ASSUME NEW e \in calls, e # c, e.stage = "reading", e.ok, Did(e) PROVE Did(e)'
      <4>1. c.op = e.op => e.op \in {"unarea", "unalert", "read"}
        <5>1. c.op = e.op => Card(c) = None
          BY <3>11 DEF AccountInv, OneOfEach, Card
        <5>. QED BY <1>8, <2>1, <5>1, AccountConstants
               DEF Card, Account!CardOf, Account!Ops, Account!Mutating
      <4>2. Silent(e, c.id)
        BY <1>8, <2>1
      <4>3. /\ e.op = "attest" => server'.attested = e.arg
            /\ e.op = "key" => server'.key = e.arg
            /\ e.op = "read" => server'.unread \cap e.arg = {}
        BY <3>6, <3>11, <4>1 DEF Did
      <4>4. e.op = "area" /\ e.arg \notin server.areas => e.arg \notin server'.areas
        BY <3>7, <4>1
      <4>5. e.op = "unarea" => e.arg \notin server'.areas
        BY <3>7, <3>11, <4>2 DEF Did, Silent
      <4>6. e.op = "alert" => \A x \in server'.subs : x \in server.subs
        BY <3>8, <4>1
      <4>7. e.op = "unalert" => e.arg \notin server'.subs
        BY <3>8, <3>11, <4>2 DEF Did, Silent
      <4>8. e.op = "area" => (e.got["areas"] # None =>
               e.arg \in e.got["areas"].value \/ e.arg \notin server'.areas)
        BY <3>11, <4>4 DEF Did
      <4>9. e.op = "alert" => (e.got["subs"] # None =>
               \/ \E x \in e.got["subs"].value : x.id = e.id
               \/ \A x \in server'.subs : x.id # e.id)
        BY <3>11, <4>6 DEF Did
      <4>10. e.got["account"] # None =>
               /\ e.op = "attest" => e.got["account"].value.attested = e.arg
               /\ e.op = "key" => e.got["account"].value.key = e.arg
               /\ e.op = "read" => e.got["account"].value.unread \cap e.arg = {}
        BY <3>11 DEF Did
      <4>11. /\ e.op = "unarea" /\ e.got["areas"] # None => e.arg \notin e.got["areas"].value
             /\ e.op = "unalert" /\ e.got["subs"] # None => e.arg \notin e.got["subs"].value
        BY <3>11 DEF Did
      <4>. QED BY <4>3, <4>5, <4>7, <4>8, <4>9, <4>10, <4>11 DEF Did
    <3>. QED BY <2>1, <3>1, <3>2, <3>3, <3>5, <3>9, <3>10, <3>11, MoveStep
  <2>. QED BY <1>13, <2>2, <2>3 DEF Account!Serve
<1>14. CASE OnAccount
  <2>1. Account!Next
    BY <1>14 DEF OnAccount
  <2>2. CASE \E c \in calls : \/ Account!Answer(c) \/ Account!Refuse(c) \/ Account!Throw(c)
                              \/ \E p \in Account!Parts : Account!Fetch(c, p) \/ Account!RefuseRead(c, p)
    BY <1>4, <1>5, <1>6, <1>7, <1>9, <1>10, <1>11, <1>12, <1>13, <2>2 DEF Account!Answer
  <2>. QED BY <1>3, <2>1, <2>2 DEF Account!Next
<1>. QED BY <1>2, <1>14 DEF Next

(* The page a handler leaves behind shows what its own call did, whatever    *)
(* other handlers overlap it and in whichever order their reads are answered *)
(* (AccountView.tsx: every handler awaits its call, then the refresh).       *)
THEOREM OwnWritesAreRead == Spec => ReadsOwnWrites
<1>1. ASSUME AccountInv, NEW c \in calls, Account!Land(c), c.ok, faults = 0
      PROVE  Account!Shows(shown', c)
  <2>1. /\ c.stage = "reading" /\ \A p \in Parts : c.got[p] # None
        /\ shown' = [p \in Parts |-> c.got[p].value]
    BY <1>1 DEF Account!Land, Account!Parts, Parts
  <2>2. /\ shown'.account = c.got["account"].value /\ shown'.areas = c.got["areas"].value
        /\ shown'.subs = c.got["subs"].value
        /\ c.got["account"] # None /\ c.got["areas"] # None /\ c.got["subs"] # None
    BY <2>1 DEF Parts
  <2>3. Did(c)
    BY <1>1, <2>1 DEF AccountInv, Own
  <2>. QED BY <2>2, <2>3 DEF Did, Account!Shows
<1>2. ASSUME AccountInv
      PROVE  \A c \in calls : Account!Land(c) /\ c.ok /\ faults = 0 => Account!Shows(shown', c)
  BY <1>1, <1>2
<1>. QED BY AccountInit, AccountStep, <1>2, PTL DEF Spec, ReadsOwnWrites,
                                                    Account!ReadsOwnWrites

(* A list is dimmed only while a request that will undim it is awaited, and  *)
(* a card disabled only while a handler of its own is at work, even when a   *)
(* fetch throws, where the handler catches that (LeadsView.tsx, the finally  *)
(* of the effect and of loadMore; BillingCard's catch).                      *)
THEOREM AlwaysAtWork == Spec => []AtWork
<1>1. LeadsInv /\ AccountInv => AtWork
  BY DEF LeadsInv, Awaited, Asking, AccountInv, AtWork, Leads!LoadingIsAtWork, Leads!Current
<1>. QED BY LeadsInit, LeadsStep, AccountInit, AccountStep, <1>1, PTL DEF Spec

=============================================================================
