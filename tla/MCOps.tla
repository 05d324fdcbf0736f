-------------------------------- MODULE MCOps --------------------------------
(***************************************************************************)
(* Instances for TLC of what runs with no page open: the nightly workflow, *)
(* the tile build, the migration runner and the billing of one user, one   *)
(* at a time, and their properties by name.                                *)
(***************************************************************************)
EXTENDS NightlyJob, TLC

CONSTANTS
  Keys, Batches, MaxVersion,    \* TileBuild
  Runners, Releases, MaxStarts, \* Migrate
  Requests, Customers, Handlers, Ordered, Null, MaxPaid, MaxPeriod, MaxRedelivered \* Billing

VARIABLES
  part,
  (* TileBuild *)
  version, served, tilePc, layer, snapshot, piped, pump, child, archive, settled, tileFaults,
  (* Migrate *)
  hasLedger, ledger, schema, files, known, tx, outcome, starts,
  (* Billing *)
  row, created, stripe, period, sent, answered, again, asks, customer, hookPc, event,
  status, end, failures

tileVars == <<version, served, tilePc, layer, snapshot, piped, pump, child, archive,
              settled, tileFaults>>
ledgerVars == <<hasLedger, ledger, schema, files, known, tx, outcome, starts>>
billVars == <<row, created, stripe, period, sent, answered, again, asks, customer, hookPc,
              event, status, end, failures>>
allVars == <<part, vars, tileVars, ledgerVars, billVars>>

Tile      == INSTANCE TileBuild WITH pc <- tilePc, at <- layer, faults <- tileFaults
Migration == INSTANCE Migrate
Bill      == INSTANCE Billing WITH
               pc <- hookPc, faults <- failures, MaxFaults <- MaxFaults - 1

ASSUME ConstantsAssumption ==
  ConstantsOK /\ Tile!ConstantsOK /\ Migration!ConstantsOK /\ Bill!ConstantsOK

(* One source of each kind. *)
Order == <<"opa", "permits", "crime", "sheriff", "planned">>
Kinds == "opa" :> "spine" @@ "permits" :> "keyset" @@ "crime" :> "spatial"
         @@ "sheriff" :> "scrape" @@ "planned" :> "unwired"

TileKeys == <<"parcels", "zip">>

(* A release, and the next, which appends a file. *)
Checkouts == {{1, 2}, {1, 2, 3}}

InitAll ==
  /\ part \in {"night", "tile", "migrate", "billing"}
  /\ Init /\ Tile!Init /\ Migration!Init /\ Bill!Init

OnNight   == part = "night" /\ Next /\ UNCHANGED <<part, tileVars, ledgerVars, billVars>>
OnTile    == part = "tile" /\ Tile!Next /\ UNCHANGED <<part, vars, ledgerVars, billVars>>
OnMigrate == part = "migrate" /\ Migration!Next /\ UNCHANGED <<part, vars, tileVars, billVars>>
OnBilling == part = "billing" /\ Bill!Next /\ UNCHANGED <<part, vars, tileVars, ledgerVars>>

NextAll == OnNight \/ OnTile \/ OnMigrate \/ OnBilling

NightGoesOn == part = "night" /\ Progress /\ UNCHANGED <<part, tileVars, ledgerVars, billVars>>
HookGoesOn(h) ==
  part = "billing" /\ Bill!Handle(h) /\ UNCHANGED <<part, vars, tileVars, ledgerVars>>

SpecAll ==
  /\ InitAll /\ [][NextAll]_allVars
  /\ WF_allVars(NightGoesOn) /\ \A h \in Handlers : WF_allVars(HookGoesOn(h))

-----------------------------------------------------------------------------
(* Properties: those of the night by their names, and the others' *)

(* What the map reads is a whole archive. *)
ServedWhole == Tile!ServedWhole

(* No migration file is ever applied twice or out of order. *)
ExactlyOnce == Migration!ExactlyOnce

(* Nobody is entitled who has not paid. *)
GrantOnlyIfPaid == Bill!GrantOnlyIfPaid

(* The paid period, once known, is never forgotten. *)
PeriodKept == Bill!PeriodKept

(* The row ends at what Stripe says. *)
Converges == Bill!Converges
=============================================================================
