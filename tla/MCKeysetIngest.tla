--------------------------- MODULE MCKeysetIngest ---------------------------
(* Instances of KeysetIngest for TLC. *)
EXTENDS KeysetIngest

CONSTANTS nightly, weekly, backfill, k1, k2, k3

(* Rows 1 and 3 share a key, row 2 is one mapRow rejects, row 4 has its own. *)
SharedKeys  == <<k1, k2, k1, k3>>
ThreeRowKeys == <<k1, k2, k1>>
UsableRows  == {1, 3, 4}

TwoPages == [w \in Workers |-> 2]
(* nightly.yml sets NIGHTLY_MAX_PAGES, weekly.yml keeps the larger default. *)
NightlySmall == [w \in Workers |-> IF w = nightly THEN 1 ELSE 2]

(* The gate sees every row join, or none of the first two. *)
AllJoin     == {Ids}
JoinOrNot   == {Ids, Ids \ {1, 2}}
=============================================================================
