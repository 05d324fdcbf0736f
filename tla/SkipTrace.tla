------------------------------- MODULE SkipTrace -------------------------------
(***************************************************************************)
(* The bring-your-own-key skip trace of one user (apps/web): concurrent    *)
(* POST /api/skiptrace/:pk lookups against the daily cap in                *)
(* app.skiptrace_usage, and concurrent POST / DELETE /api/skiptrace/key    *)
(* calls of the Vault functions of migration 0014.  Everything is keyed by *)
(* user id, so users do not meet.                                          *)
(*                                                                         *)
(* A stored key is its Vault secret's number; a row of app.skiptrace_key   *)
(* is the number of the secret it points at.  A key call is one            *)
(* transaction at READ COMMITTED: it lists the rows, shreds the secrets it *)
(* listed and deletes the rows it then sees, and commits.                  *)
(***************************************************************************)
EXTENDS Integers, FiniteSets

CONSTANTS
  Lookups,    \* lookups that may be in flight at once
  KeyCalls,   \* key calls that may be in flight at once
  DailyCap,   \* DAILY_CAP
  MaxDay,     \* UTC days of a behaviour                           (bound)
  MaxKeys,    \* keys stored in a behaviour                        (bound)
  MaxTries    \* lookups of a behaviour                            (bound)

ASSUME SizesAssumption ==
  /\ IsFiniteSet(Lookups)
  /\ DailyCap \in Nat \ {0}
  /\ {MaxDay, MaxKeys, MaxTries} \subseteq Nat

VARIABLES
  day,        \* the UTC day
  usage,      \* day -> n of app.skiptrace_usage
  look,       \* lookup -> where it is
  sent,       \* lookup -> the key it resolved, 0 for the 'vault' sentinel
  tries,      \* lookups started
  rows,       \* app.skiptrace_key
  vault,      \* vault.secrets
  minted,     \* secrets created
  call,       \* key call -> its transaction
  met,        \* history: two key calls have been open at once
  charged,    \* history: lookups whose usage was recorded
  answered    \* history: lookups that returned a contact

usageVars == <<day, usage, charged, answered>>
keyVars   == <<rows, vault, minted, call, met>>
vars      == <<usageVars, look, sent, tries, keyVars>>

Days    == 0 .. MaxDay
Secrets == 1 .. MaxKeys
LookPC  == {"idle", "keyed", "asked", "body", "parsed", "recorded"}

Calls == [pc : {"idle", "listed", "purged"}, op : {"set", "delete"},
          listed : SUBSET Secrets, doomed : SUBSET Secrets, behind : SUBSET KeyCalls]
NoCall == [pc |-> "idle", op |-> "delete", listed |-> {}, doomed |-> {}, behind |-> {}]

TypeOK ==
  /\ day \in Days /\ usage \in [Days -> Nat]
  /\ look \in [Lookups -> LookPC] /\ sent \in [Lookups -> 0 .. MaxKeys]
  /\ tries \in 0 .. MaxTries /\ minted \in 0 .. MaxKeys
  /\ rows \subseteq Secrets /\ vault \subseteq Secrets
  /\ call \in [KeyCalls -> Calls]
  /\ met \in BOOLEAN /\ charged \in Nat /\ answered \in Nat

Init ==
  /\ day = 0 /\ usage = [d \in Days |-> 0]
  /\ look = [r \in Lookups |-> "idle"] /\ sent = [r \in Lookups |-> 0]
  /\ tries = 0
  /\ rows = {} /\ vault = {} /\ minted = 0
  /\ call = [c \in KeyCalls |-> NoCall] /\ met = FALSE
  /\ charged = 0 /\ answered = 0

-----------------------------------------------------------------------------
(* A lookup.  A user without a subscription or an attestation, and a       *)
(* parcel that is not there, are refused before anything changes.          *)

Goto(r, label) ==
  /\ look' = [look EXCEPT ![r] = label]
  /\ sent' = IF label = "idle" THEN [sent EXCEPT ![r] = 0] ELSE sent

(* app.get_skiptrace_key, in one statement: a row's secret, or the         *)
(* sentinel of its encrypted_key column where the secret is gone.          *)
ResolvedKey(k) == IF k \in vault THEN k ELSE 0

Resolve(r) ==
  /\ look[r] = "idle" /\ tries < MaxTries
  /\ \E k \in rows : sent' = [sent EXCEPT ![r] = ResolvedKey(k)]
  /\ tries' = tries + 1
  /\ look' = [look EXCEPT ![r] = "keyed"]
  /\ UNCHANGED <<usageVars, keyVars>>

(* Slip: the comparison lets the lookup after the last one through. *)
AllowedOneMore(n) == n <= DailyCap

Allowed(n) == n < DailyCap

(* store.check, and the vendor request if it allows the lookup. *)
Check(r) ==
  /\ look[r] = "keyed"
  /\ Goto(r, IF Allowed(usage[day]) THEN "asked" ELSE "idle")
  /\ UNCHANGED <<usageVars, tries, keyVars>>

(* The vendor's headers arrive with a 2xx status; the timer is cleared. *)
Headers(r) ==
  /\ look[r] = "asked"
  /\ Goto(r, "body")
  /\ UNCHANGED <<usageVars, tries, keyVars>>

(* The body is read and parsed, under no timer. *)
Parse(r) ==
  /\ look[r] = "body"
  /\ Goto(r, "parsed")
  /\ UNCHANGED <<usageVars, tries, keyVars>>

(* The request times out or fails, the status is not 2xx, the body is not  *)
(* JSON or not a contact: VendorError.  Or the server function dies, or    *)
(* the usage statement throws.  Nothing is recorded.                       *)
LookupFails(r) ==
  /\ look[r] \in {"asked", "body", "parsed", "recorded"}
  /\ Goto(r, "idle")
  /\ UNCHANGED <<usageVars, tries, keyVars>>

(* store.record: an atomic increment, on the day it runs. *)
Record(r) ==
  /\ look[r] = "parsed"
  /\ usage' = [usage EXCEPT ![day] = @ + 1]
  /\ charged' = charged + 1
  /\ Goto(r, "recorded")
  /\ UNCHANGED <<day, answered, tries, keyVars>>

(* Slip: the record is not awaited, the contact may be returned without it. *)
AnswerUnrecorded(r) ==
  /\ look[r] \in {"parsed", "recorded"}
  /\ answered' = answered + 1
  /\ Goto(r, "idle")
  /\ UNCHANGED <<day, usage, charged, tries, keyVars>>

Answer(r) ==
  /\ look[r] = "recorded"
  /\ answered' = answered + 1
  /\ Goto(r, "idle")
  /\ UNCHANGED <<day, usage, charged, tries, keyVars>>

Midnight ==
  /\ day < MaxDay
  /\ day' = day + 1
  /\ UNCHANGED <<usage, charged, answered, look, sent, tries, keyVars>>

-----------------------------------------------------------------------------
(* A key call. *)

Busy(c) == call[c].pc # "idle"

(* set_skiptrace_key (which starts with delete_skiptrace_key) or           *)
(* delete_skiptrace_key: the rows that are committed now are listed.       *)
ListRows(c, op) ==
  /\ ~ Busy(c)
  /\ call' = [call EXCEPT ![c] = [NoCall EXCEPT !.pc = "listed", !.op = op, !.listed = rows]]
  /\ met' = (met \/ \E d \in KeyCalls : Busy(d))
  /\ UNCHANGED <<usageVars, look, sent, tries, rows, vault, minted>>

(* A transaction that holds the lock on a secret the call has listed. *)
Holds(d, S) == call[d].pc = "purged" /\ call[d].listed \cap S # {}

(* Slip: the call goes on without its row deletion. *)
PurgeSecretsOnly(c) ==
  /\ call[c].pc = "listed"
  /\ \A d \in KeyCalls \ {c} : ~ Holds(d, call[c].listed)
  /\ call' = [call EXCEPT ![c].pc = "purged"]
  /\ UNCHANGED <<usageVars, look, sent, tries, rows, vault, minted, met>>

(* The listed secrets are shredded, waiting for whoever holds one; then    *)
(* every row committed by now is deleted.  Rows another open call is       *)
(* deleting make this call commit after it.                                *)
Purge(c) ==
  /\ call[c].pc = "listed"
  /\ \A d \in KeyCalls \ {c} : ~ Holds(d, call[c].listed)
  /\ call' = [call EXCEPT ![c].pc = "purged", ![c].doomed = rows,
                          ![c].behind = {d \in KeyCalls : call[d].doomed \cap rows # {}}]
  /\ UNCHANGED <<usageVars, look, sent, tries, rows, vault, minted, met>>

Finish(c) == [d \in KeyCalls |-> IF d = c THEN NoCall
                                 ELSE [call[d] EXCEPT !.behind = @ \ {c}]]

CommitDelete(c) ==
  /\ call[c].pc = "purged" /\ call[c].op = "delete" /\ call[c].behind = {}
  /\ rows' = rows \ call[c].doomed /\ vault' = vault \ call[c].listed
  /\ call' = Finish(c)
  /\ UNCHANGED <<usageVars, look, sent, tries, minted, met>>

(* The new secret and its row become visible with the deletions. *)
CommitSet(c) ==
  /\ call[c].pc = "purged" /\ call[c].op = "set" /\ call[c].behind = {}
  /\ minted < MaxKeys
  /\ minted' = minted + 1
  /\ rows' = (rows \ call[c].doomed) \cup {minted + 1}
  /\ vault' = (vault \ call[c].listed) \cup {minted + 1}
  /\ call' = Finish(c)
  /\ UNCHANGED <<usageVars, look, sent, tries, met>>

(* The connection is lost: the transaction is rolled back. *)
Rollback(c) ==
  /\ Busy(c)
  /\ call' = Finish(c)
  /\ UNCHANGED <<usageVars, look, sent, tries, rows, vault, minted, met>>

-----------------------------------------------------------------------------

LookupStep(r) ==
  \/ Resolve(r) \/ Check(r) \/ Headers(r) \/ Parse(r)
  \/ LookupFails(r) \/ Record(r) \/ Answer(r)

KeyStep(c) ==
  \/ \E op \in {"set", "delete"} : ListRows(c, op)
  \/ Purge(c) \/ CommitDelete(c) \/ CommitSet(c) \/ Rollback(c)

Next ==
  \/ \E r \in Lookups : LookupStep(r)
  \/ \E c \in KeyCalls : KeyStep(c)
  \/ Midnight

Spec == Init /\ [][Next]_vars

-----------------------------------------------------------------------------
(* Properties *)

(* createDbUsageStore: between check and record a user "could exceed the   *)
(* cap by the number of simultaneous in-flight lookups": whatever the      *)
(* interleaving, and across midnight, a day's count passes the cap by at   *)
(* most the lookups in flight beside the last one the check let through.   *)
CapHolds == \A d \in Days : usage[d] <= DailyCap + Cardinality(Lookups) - 1

(* Why it holds, as an inductive invariant: a lookup in flight takes its   *)
(* place in today's count before it is counted; later days are untouched.  *)
InFlight == {r \in Lookups : look[r] \in {"asked", "body", "parsed"}}
CapInv ==
  /\ CapHolds
  /\ usage[day] + Cardinality(InFlight) <= DailyCap + Cardinality(Lookups) - 1
  /\ \A d \in Days : d > day => usage[d] = 0

(* "Record usage only on success": no contact is returned without having   *)
(* been counted on some day, no lookup is counted twice, and what failed   *)
(* before the record cost the user nothing, also when the day changes      *)
(* between the check and the record.                                       *)
Total[d \in Days] == usage[d] + (IF d = 0 THEN 0 ELSE Total[d - 1])
AnswersAreCharged ==
  /\ Total[MaxDay] = charged
  /\ answered + Cardinality({r \in Lookups : look[r] = "recorded"}) <= charged

(* No lookup ever sends the sentinel for a key, and every row's secret     *)
(* exists.  While key calls have not overlapped the user has at most one   *)
(* key and the Vault holds nothing else of theirs ("replaces any prior     *)
(* key", "removes the key + its Vault secret").                            *)
KeysWhole ==
  /\ rows \subseteq vault
  /\ \A r \in Lookups : look[r] # "idle" => sent[r] # 0
  /\ ~ met => vault = rows /\ Cardinality(rows) <= 1

=============================================================================
