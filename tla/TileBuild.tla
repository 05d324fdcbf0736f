----------------------------- MODULE TileBuild -----------------------------
(***************************************************************************)
(* The tile build of one night after another: for the parcels, then each   *)
(* boundary layer, tippecanoe is spawned and fed by a pump that reads a    *)
(* cursor; the archive it writes is then uploaded over the one the map     *)
(* reads.  Pump and child are two processes joined by a pipe; the first of *)
(* their endings settles the build.                                        *)
(***************************************************************************)
EXTENDS Integers, Sequences

CONSTANTS
  Keys,       \* the objects, in the order built
  Batches,    \* of the cursor
  None,
  MaxVersion, \* versions of the table              (bound)
  MaxFaults   \* failures                           (bound)

ConstantsOK ==
  /\ Keys # <<>> /\ Batches \in Nat \ {0}
  /\ {MaxVersion, MaxFaults} \subseteq Nat

VARIABLES
  version,    \* of the tables
  served,     \* key -> [version, batches] of the object, or None
  pc, at,
  snapshot,   \* version the cursor reads, or None
  piped,      \* batches written into the pipe
  pump,       \* "feeding", "ended" or "broken"
  child,      \* "none", "reading", "closed" or "crashed"
  archive,    \* [version, batches] of the local file, or None
  settled,    \* "no", "resolved" or "rejected"
  faults

build == <<at, snapshot, piped, pump, child, archive, settled>>
vars  == <<version, served, pc, build, faults>>

Objects == {Keys[k] : k \in DOMAIN Keys}

Init ==
  /\ version = 1 /\ served = [k \in Objects |-> None]
  /\ pc = "idle" /\ at = 1 /\ snapshot = None /\ piped = 0
  /\ pump = "ended" /\ child = "none" /\ archive = None /\ settled = "no"
  /\ faults = 0

Fault == faults < MaxFaults /\ faults' = faults + 1

-----------------------------------------------------------------------------
Grow ==
  /\ version < MaxVersion /\ version' = version + 1
  /\ UNCHANGED <<served, pc, build, faults>>

(* A night's first build, or the next of it.  Without the binary nothing    *)
(* starts.                                                                  *)
Spawn ==
  /\ pc = "idle" /\ pc' = "running"
  /\ snapshot' = None /\ piped' = 0 /\ pump' = "feeding" /\ child' = "reading"
  /\ archive' = None /\ settled' = "no"
  /\ UNCHANGED <<version, served, at, faults>>

NoBinary ==
  /\ pc = "idle" /\ Fault
  /\ at' = 1
  /\ UNCHANGED <<version, served, pc, snapshot, piped, pump, child, archive, settled>>

Running == pc = "running"

(* A batch of the cursor, whose snapshot is that of its first fetch, is     *)
(* written into the pipe.                                                   *)
Feed ==
  /\ Running /\ pump = "feeding" /\ piped < Batches
  /\ settled = "no" /\ child = "reading"
  /\ snapshot' = IF snapshot = None THEN version ELSE snapshot
  /\ piped' = piped + 1
  /\ UNCHANGED <<version, served, pc, at, pump, child, archive, settled, faults>>

EndFeed ==
  /\ Running /\ pump = "feeding" /\ piped = Batches /\ settled = "no"
  /\ pump' = "ended"
  /\ UNCHANGED <<version, served, pc, at, snapshot, piped, child, archive, settled, faults>>

(* Slip: a failed pump only closes the pipe. *)
FailQuietly == UNCHANGED settled

(* `fail`: the first failure rejects, and destroys the pipe. *)
Rejects == settled' = IF settled = "no" THEN "rejected" ELSE settled

(* The cursor fails between two batches, or a write fails because the       *)
(* child is gone.                                                           *)
PumpFails ==
  /\ Running /\ pump = "feeding"
  /\ \/ Fault
     \/ child = "crashed" /\ UNCHANGED faults
  /\ pump' = "broken" /\ Rejects
  /\ UNCHANGED <<version, served, pc, at, snapshot, piped, child, archive>>

(* At the end of its input, be it the end of the features or a destroyed    *)
(* pipe, tippecanoe writes the archive of what it was fed and exits with 0. *)
ChildExits ==
  /\ Running /\ child = "reading" /\ pump # "feeding"
  /\ child' = "closed"
  /\ archive' = [version |-> snapshot, batches |-> piped]
  /\ settled' = IF settled = "no" THEN "resolved" ELSE settled
  /\ UNCHANGED <<version, served, pc, at, snapshot, piped, pump, faults>>

(* Not spawned, or an exit code other than 0. *)
ChildCrashes ==
  /\ Running /\ child = "reading" /\ Fault
  /\ child' = "crashed" /\ Rejects
  /\ UNCHANGED <<version, served, pc, at, snapshot, piped, pump, archive>>

(* The whole file, over the object of the night before. *)
Upload ==
  /\ Running /\ settled = "resolved" /\ pc' = "idle"
  /\ served' = [served EXCEPT ![Keys[at]] = archive]
  /\ at' = IF at = Len(Keys) THEN 1 ELSE at + 1
  /\ UNCHANGED <<version, snapshot, piped, pump, child, archive, settled, faults>>

(* The build rejected, or the upload failed, with or without its effect:    *)
(* the night's remaining layers are left as they are.                       *)
GiveUp ==
  /\ Running /\ pc' = "idle" /\ at' = 1
  /\ \/ settled = "rejected" /\ UNCHANGED <<served, faults>>
     \/ settled = "resolved" /\ Fault
        /\ \/ UNCHANGED served
           \/ served' = [served EXCEPT ![Keys[at]] = archive]
  /\ UNCHANGED <<version, snapshot, piped, pump, child, archive, settled>>

Steps == Spawn \/ Feed \/ EndFeed \/ ChildExits \/ Upload \/ PumpFails \/ GiveUp
Next  == Grow \/ NoBinary \/ ChildCrashes \/ Steps

Spec == Init /\ [][Next]_vars

-----------------------------------------------------------------------------
(* Properties *)

(* What the map reads is a whole archive of one version of its table: a     *)
(* build whose features broke off, which tippecanoe ends with exit code 0,  *)
(* is never uploaded ("rather than uploading junk").                        *)
ServedWhole ==
  /\ \A k \in Objects : served[k] # None => served[k].batches = Batches
  /\ settled = "resolved" => archive.batches = Batches
=============================================================================
