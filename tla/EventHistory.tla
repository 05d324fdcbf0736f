----------------------------- MODULE EventHistory -----------------------------
(***************************************************************************)
(* The event history of a source (violation_event, delinquency_event): the *)
(* batch is promoted, then one statement appends the (re)appearances and   *)
(* another the clears, each from what the whole canonical table and the    *)
(* whole history say at that moment.                                       *)
(*                                                                         *)
(* The city publishes row versions [subject, state] in keyset order; a     *)
(* subject is a violation id, or the parcel of a tax delinquency.  A parcel*)
(* that pays has no row in the next snapshot: no version, only a Leave.    *)
(***************************************************************************)
EXTENDS Integers, Sequences, FiniteSets, SequencesExt

CONSTANTS
  Violations, Delinquents,
  NoParcel,     \* violations whose row has no usable parcel key
  BatchSize,    \* row versions a run fetches at most
  MaxVersions,  \* row versions and departures the city makes     (bound)
  MaxFaults     \* failures and crashes of a behaviour            (bound)

Subjects == Violations \cup Delinquents

ConstantsOK ==
  /\ Violations \cap Delinquents = {} /\ NoParcel \subseteq Violations
  /\ BatchSize \in Nat \ {0} /\ MaxVersions \in Nat /\ MaxFaults \in Nat

VARIABLES
  city,     \* sequence of the row versions published
  actual,   \* subject -> its state in the city's books
  cursor,   \* versions consumed
  row,      \* subject -> canonical state, "none" before the first row
  log,      \* subject -> sequence of event types
  pc,       \* where the run is
  batch,    \* versions it fetched
  flips,    \* history: subject -> times its row went from or to "open"
  faults

vars == <<city, actual, cursor, row, log, pc, batch, flips, faults>>

States == {"none", "open", "closed", "gone"}
Events == {"appeared", "reappeared", "cleared"}

TypeOK ==
  /\ \A i \in DOMAIN city : city[i].subject \in Subjects /\ city[i].state \in States
  /\ actual \in [Subjects -> States]
  /\ cursor \in 0 .. Len(city)
  /\ row \in [Subjects -> States \ {"gone"}]
  /\ \A s \in Subjects : \A i \in DOMAIN log[s] : log[s][i] \in Events
  /\ pc \in {"idle", "promote", "appeared", "cleared", "persist"}
  /\ cursor + Len(batch) <= Len(city)
  /\ flips \in [Subjects -> Nat] /\ faults \in 0 .. MaxFaults

Init ==
  /\ city = <<>> /\ actual = [s \in Subjects |-> "none"]
  /\ cursor = 0
  /\ row = [s \in Subjects |-> "none"] /\ log = [s \in Subjects |-> <<>>]
  /\ pc = "idle" /\ batch = <<>>
  /\ flips = [s \in Subjects |-> 0] /\ faults = 0

-----------------------------------------------------------------------------
(* The latest event of the subject is an appearance. *)
Standing(s) == log[s] # <<>> /\ Last(log[s]) \in {"appeared", "reappeared"}

Keyed(s) == s \notin NoParcel

(* Delinquent now, or a violation whose status is not terminal. *)
IsOpen(s) == row[s] = "open" /\ Keyed(s)

(* A violation's clear joins a row that is closed; a delinquency's asks    *)
(* for no row at all.                                                      *)
IsOver(s) ==
  \/ s \in Violations /\ row[s] = "closed" /\ Keyed(s)
  \/ s \in Delinquents /\ row[s] = "none"

(* Of the versions of one subject in a batch the last one wins. *)
LastOf(b, s) == LET S == {i \in DOMAIN b : b[i].subject = s} IN
  IF S = {} THEN row[s] ELSE b[CHOOSE i \in S : \A j \in S : j <= i].state

Flip(s, new) == IF (row[s] = "open") # (new = "open") THEN 1 ELSE 0

-----------------------------------------------------------------------------
Moves == Len(city) + Cardinality({s \in Subjects : actual[s] = "gone"})

(* The city publishes a version of the subject's row. *)
Publish(s, state) ==
  /\ Moves < MaxVersions
  /\ state # actual[s]
  /\ s \in Delinquents => state = "open"
  /\ city' = Append(city, [subject |-> s, state |-> state])
  /\ actual' = [actual EXCEPT ![s] = state]
  /\ UNCHANGED <<cursor, row, log, pc, batch, flips, faults>>

Leave(s) ==
  /\ s \in Delinquents /\ actual[s] = "open" /\ Moves < MaxVersions
  /\ actual' = [actual EXCEPT ![s] = "gone"]
  /\ UNCHANGED <<city, cursor, row, log, pc, batch, flips, faults>>

(* A run fetches past the cursor; an empty batch ends it at once. *)
Fetch ==
  /\ pc = "idle" /\ cursor < Len(city)
  /\ batch' = SubSeq(city, cursor + 1,
                     IF Len(city) - cursor < BatchSize THEN Len(city) ELSE cursor + BatchSize)
  /\ pc' = "promote"
  /\ UNCHANGED <<city, actual, cursor, row, log, flips, faults>>

Promote ==
  /\ pc = "promote"
  /\ row' = [s \in Subjects |-> LastOf(batch, s)]
  /\ flips' = [s \in Subjects |-> flips[s] + Flip(s, LastOf(batch, s))]
  /\ pc' = "appeared"
  /\ UNCHANGED <<city, actual, cursor, log, batch, faults>>

(* *_APPEARED_SQL *)
Appeared ==
  /\ pc = "appeared"
  /\ log' = [s \in Subjects |->
       IF IsOpen(s) /\ ~ Standing(s)
       THEN Append(log[s], IF log[s] = <<>> THEN "appeared" ELSE "reappeared")
       ELSE log[s]]
  /\ pc' = "cleared"
  /\ UNCHANGED <<city, actual, cursor, row, batch, flips, faults>>

(* Slip: a terminal status clears whatever the history says. *)
ClearedAgain ==
  /\ pc = "cleared"
  /\ log' = [s \in Subjects |-> IF IsOver(s) /\ log[s] # <<>>
                                THEN Append(log[s], "cleared") ELSE log[s]]
  /\ pc' = "persist"
  /\ UNCHANGED <<city, actual, cursor, row, batch, flips, faults>>

(* *_CLEARED_SQL *)
Cleared ==
  /\ pc = "cleared"
  /\ log' = [s \in Subjects |-> IF IsOver(s) /\ Standing(s)
                                THEN Append(log[s], "cleared") ELSE log[s]]
  /\ pc' = "persist"
  /\ UNCHANGED <<city, actual, cursor, row, batch, flips, faults>>

Persist ==
  /\ pc = "persist"
  /\ cursor' = cursor + Len(batch)
  /\ batch' = <<>> /\ pc' = "idle"
  /\ UNCHANGED <<city, actual, row, log, flips, faults>>

(* Slip: the cursor is moved before the diff, and a failure keeps it. *)
FailKeepingCursor ==
  /\ pc # "idle" /\ faults < MaxFaults
  /\ cursor' = IF pc = "promote" THEN cursor ELSE cursor + Len(batch)
  /\ batch' = <<>> /\ pc' = "idle" /\ faults' = faults + 1
  /\ UNCHANGED <<city, actual, row, log, flips>>

(* A statement fails or the process dies: what was written stays. *)
Fail ==
  /\ pc # "idle" /\ faults < MaxFaults
  /\ batch' = <<>> /\ pc' = "idle" /\ faults' = faults + 1
  /\ UNCHANGED <<city, actual, cursor, row, log, flips>>

Step == Fetch \/ Promote \/ Appeared \/ Cleared \/ Persist

Next ==
  \/ \E s \in Subjects : Leave(s) \/ \E state \in {"open", "closed"} : Publish(s, state)
  \/ Step
  \/ Fail

Spec == Init /\ [][Next]_vars

(* The nightly schedule, and awaits that settle. *)
FairSpec == Spec /\ WF_vars(Step)

-----------------------------------------------------------------------------
(* Properties *)

(* The history of a subject alternates: it starts with the one "appeared", *)
(* every clear ends a standing, every reappearance follows a clear, however*)
(* often a promoted batch is diffed again after a failure.                 *)
Alternates ==
  \A s \in Subjects : \A i \in DOMAIN log[s] :
    /\ log[s][i] = "appeared" <=> i = 1
    /\ log[s][i] = "cleared" <=> i % 2 = 0

(* An event stands for a change the canonical table went through: nothing  *)
(* is logged twice ("re-running the same state appends nothing").  When    *)
(* the diff is through, the history stands exactly where the table does,   *)
(* also for changes whose own run failed before its diff.                  *)
HistoryIsChanges ==
  /\ TypeOK /\ Alternates
  /\ \A s \in Subjects : Len(log[s]) <= flips[s]
  /\ pc = "persist" => \A s \in Violations : Standing(s) <=> IsOpen(s)

(* The history catches up with the city's last word on every violation,    *)
(* whatever failed between a promote and its diff.                         *)
HistoryCatchesUp ==
  \A s \in Violations \ NoParcel :
    <>[](Standing(s) <=> actual[s] = "open")
=============================================================================
