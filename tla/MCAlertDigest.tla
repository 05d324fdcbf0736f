--------------------------- MODULE MCAlertDigest ---------------------------
(* Instances of AlertDigest for TLC. *)
EXTENDS AlertDigest, TLC

CONSTANTS nightly, user, a1, a2, s1, s2, near, far, distress, permit, r1, r2

(* The two areas overlap in one parcel, which is hot.  The records are     *)
(* alike.                                                                  *)
AreaParcels == a1 :> {near} @@ a2 :> {near, far}
OneUser     == [s \in Subs |-> user]
SubArea     == s1 :> a1 @@ s2 :> a2
SubTriggers == s1 :> {distress, permit} @@ s2 :> {distress, Lead}

Rec(p, t, n) == [parcel |-> p, trigger |-> t, lag |-> n]
RecordsOnTime == r1 :> Rec(near, distress, 0) @@ r2 :> Rec(near, distress, 0)
=============================================================================
