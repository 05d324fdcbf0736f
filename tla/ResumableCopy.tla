---------------------------- MODULE ResumableCopy ----------------------------
(***************************************************************************)
(* What a resumable copy of an append-only table promises, whoever copies: *)
(* rows appear at the end, rows are copied (idempotently, by key) and never*)
(* uncopied, and the shared cursor is only set to a position below which   *)
(* every usable row has been copied, so a reader that starts there misses  *)
(* nothing (PRD 4.1, "Resumability").                                      *)
(***************************************************************************)
EXTENDS Integers

CONSTANTS MaxId, Keys, RowKey, Usable

VARIABLES source, present, cursor

Ids == 1 .. MaxId

Init == source = {} /\ present = {} /\ cursor = 0

Publish(r) ==
  /\ \A q \in source : q < r
  /\ source' = source \cup {r}
  /\ UNCHANGED <<present, cursor>>

CopyRows(S) ==
  /\ present' = present \cup {RowKey[r] : r \in S}
  /\ UNCHANGED <<source, cursor>>

MoveCursor(c) ==
  /\ \A r \in source \cap Usable : r <= c => RowKey[r] \in present
  /\ cursor' = c
  /\ UNCHANGED <<source, present>>

Next ==
  \/ \E r \in Ids : Publish(r)
  \/ \E S \in SUBSET (source \cap Usable) : CopyRows(S)
  \/ \E c \in 0 .. MaxId : MoveCursor(c)

Spec == Init /\ [][Next]_<<source, present, cursor>>
=============================================================================
