------------------------------ MODULE Migrate ------------------------------
(***************************************************************************)
(* The migration runner: the files not yet in the ledger, in the order of  *)
(* their names, each in a transaction with its ledger row.  Several        *)
(* runners may be started on one database, each with the files of its own  *)
(* checkout, and each may die at any step.                                 *)
(***************************************************************************)
EXTENDS Integers

CONSTANTS
  Runners,
  Releases,   \* of the repository: set of files, by number, of each
  None,
  MaxStarts   \* runs started                       (bound)

ConstantsOK ==
  /\ Releases # {} /\ None \notin Releases
  /\ \A r \in Releases : r \subseteq Nat
  /\ \A a, b \in Releases : a \subseteq b \/ b \subseteq a
  /\ \A a, b \in Releases : a \subseteq b => \A f \in a, g \in b \ a : f < g
  /\ MaxStarts \in Nat

VARIABLES
  hasLedger,  \* the table ops.schema_migration exists
  ledger,     \* files recorded
  schema,     \* file -> times its statements were committed
  files,      \* runner -> the files of its checkout, or None when it is not running
  known,      \* runner -> the ledger as it read it, or None
  tx,         \* runner -> [file, step] of its open transaction, or None
  outcome,    \* runner -> "none", "applied" or "failed"
  starts

vars == <<hasLedger, ledger, schema, files, known, tx, outcome, starts>>

AllFiles == UNION Releases

Init ==
  /\ hasLedger = FALSE /\ ledger = {} /\ schema = [f \in AllFiles |-> 0]
  /\ files = [r \in Runners |-> None] /\ known = [r \in Runners |-> None]
  /\ tx = [r \in Runners |-> None] /\ outcome = [r \in Runners |-> "none"]
  /\ starts = 0

Start(r, release) ==
  /\ starts < MaxStarts /\ starts' = starts + 1
  /\ files[r] = None
  /\ files' = [files EXCEPT ![r] = release]
  /\ outcome' = [outcome EXCEPT ![r] = "none"]
  /\ UNCHANGED <<hasLedger, ledger, schema, known, tx>>

Stop(r, how) ==
  /\ files' = [files EXCEPT ![r] = None] /\ known' = [known EXCEPT ![r] = None]
  /\ tx' = [tx EXCEPT ![r] = None] /\ outcome' = [outcome EXCEPT ![r] = how]

EnsureLedger(r) ==
  /\ files[r] # None /\ known[r] = None /\ ~ hasLedger
  /\ hasLedger' = TRUE
  /\ UNCHANGED <<ledger, schema, files, known, tx, outcome, starts>>

ReadLedger(r) ==
  /\ files[r] # None /\ known[r] = None /\ hasLedger
  /\ known' = [known EXCEPT ![r] = ledger]
  /\ UNCHANGED <<hasLedger, ledger, schema, files, tx, outcome, starts>>

(* `known` grows by the files this runner applies. *)
Pending(r) == files[r] \ known[r]

InOrder(r, f) == f \in Pending(r) /\ \A g \in Pending(r) : f <= g

Begin(r, f) ==
  /\ known[r] # None /\ tx[r] = None /\ InOrder(r, f)
  /\ tx' = [tx EXCEPT ![r] = [file |-> f, step |-> "statements"]]
  /\ UNCHANGED <<hasLedger, ledger, schema, files, known, outcome, starts>>

(* The ledger's key: another transaction's uncommitted row of the file is   *)
(* waited for, a committed one is a violation that rolls this one back.     *)
Record(r) ==
  /\ tx[r] # None /\ tx[r].step = "statements"
  /\ tx[r].file \notin ledger
  /\ \A o \in Runners \ {r} :
       tx[o] # None => ~ (tx[o].file = tx[r].file /\ tx[o].step = "recorded")
  /\ tx' = [tx EXCEPT ![r].step = "recorded"]
  /\ UNCHANGED <<hasLedger, ledger, schema, files, known, outcome, starts>>

Collide(r) ==
  /\ tx[r] # None /\ tx[r].step = "statements" /\ tx[r].file \in ledger
  /\ Stop(r, "failed")
  /\ UNCHANGED <<hasLedger, ledger, schema, starts>>

(* Slip: the statements are committed before the ledger's row. *)
CommitApart(r) ==
  /\ tx[r] # None
  /\ LET f == tx[r].file IN
       \/ /\ tx[r].step = "statements"
          /\ schema' = [schema EXCEPT ![f] = @ + 1]
          /\ tx' = [tx EXCEPT ![r].step = "recorded"]
          /\ UNCHANGED <<ledger, known>>
       \/ /\ tx[r].step = "recorded"
          /\ ledger' = ledger \cup {f} /\ known' = [known EXCEPT ![r] = @ \cup {f}]
          /\ tx' = [tx EXCEPT ![r] = None] /\ UNCHANGED schema
  /\ UNCHANGED <<hasLedger, files, outcome, starts>>

Commit(r) ==
  /\ tx[r] # None /\ tx[r].step = "recorded"
  /\ LET f == tx[r].file IN
       /\ schema' = [schema EXCEPT ![f] = @ + 1]
       /\ ledger' = ledger \cup {f}
       /\ known' = [known EXCEPT ![r] = @ \cup {f}]
  /\ tx' = [tx EXCEPT ![r] = None]
  /\ UNCHANGED <<hasLedger, files, outcome, starts>>

Finish(r) ==
  /\ known[r] # None /\ tx[r] = None /\ Pending(r) = {}
  /\ Stop(r, "applied")
  /\ UNCHANGED <<hasLedger, ledger, schema, starts>>

(* A statement fails, the connection breaks or the process dies: what is    *)
(* not committed is rolled back.                                            *)
Die(r) ==
  /\ files[r] # None
  /\ Stop(r, "failed")
  /\ UNCHANGED <<hasLedger, ledger, schema, starts>>

Next ==
  \E r \in Runners :
    \/ \E release \in Releases : Start(r, release)
    \/ EnsureLedger(r) \/ ReadLedger(r) \/ Record(r) \/ Collide(r)
    \/ \E f \in AllFiles : Begin(r, f)
    \/ Commit(r) \/ Finish(r) \/ Die(r)

Spec == Init /\ [][Next]_vars

-----------------------------------------------------------------------------
(* Properties *)

(* Files are applied in the order of their names, as long as every release  *)
(* only appends (migrate.ts: "in lexical order").                           *)
AppliedInOrder ==
  \E r \in Releases : ledger \subseteq r /\ \A f \in ledger, g \in r : g < f => g \in ledger

(* No file is ever applied twice or out of order, whatever runners overlap  *)
(* or die; the ledger names exactly the files applied; and what a runner    *)
(* takes for applied is (migrate.ts: "exactly once each").                  *)
ExactlyOnce ==
  /\ \A f \in AllFiles : schema[f] = IF f \in ledger THEN 1 ELSE 0
  /\ \A r \in Runners : known[r] # None => known[r] \subseteq ledger
  /\ AppliedInOrder
=============================================================================
