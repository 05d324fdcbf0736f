---------------------------- MODULE AccountPage ----------------------------
(***************************************************************************)
(* The account page and the login form of one user in one tab.  A card's   *)
(* handler calls one mutating route, then refreshes the whole page: four   *)
(* reads at once, shown together when the last has arrived.  Handlers of   *)
(* different cards, and the delete links, which no flag disables, overlap. *)
(*                                                                         *)
(* A fetch may be refused (401 or 500, `ok` is false) or throw, before or  *)
(* after the server did its part; then the handler ends where it stands.   *)
(***************************************************************************)
EXTENDS Integers, FiniteSets

CONSTANTS
  Accounts,   \* what the server may hold when the page opens
  Vendors,
  None,
  MaxClicks,  \* buttons pressed                    (bound)
  MaxFaults   \* fetches that fail                  (bound)

(* The ids of areas and alerts are new ones: numbers, here, of the click that *)
(* made them.                                                               *)
ConstantsOK ==
  /\ {MaxClicks, MaxFaults} \subseteq Nat
  /\ None \notin {"attest", "key", "area", "alert", "billing", "login"}
  /\ \A a \in Accounts :
       /\ DOMAIN a = {"attested", "key", "areas", "subs", "unread"}
       /\ \A n \in 1 .. MaxClicks : n \notin a.areas /\ \A s \in a.subs : s.id # n

(* The flag that disables a button while its handler runs. *)
CardOf == [attest |-> "attest", key |-> "key", area |-> "area", alert |-> "alert",
           billing |-> "billing", signin |-> "login", magic |-> "login",
           unarea |-> None, unalert |-> None, read |-> None, visit |-> None]
Ops   == DOMAIN CardOf
Cards == {CardOf[op] : op \in Ops} \ {None}

(* The account and the feed are read apart, but nothing relates them. *)
Parts == {"account", "areas", "subs"}

VARIABLES
  server,   \* [attested, key, areas, subs, unread], of the signed-in user
  view,     \* "login", "account" or "stripe"
  shown,    \* what the page's state holds: part -> value
  busy,     \* card -> its flag
  calls,    \* handlers that have not ended
  clicks, faults

vars == <<server, view, shown, busy, calls, clicks, faults>>

NoParts == [p \in Parts |-> None]
Nothing == [account |-> [attested |-> FALSE, key |-> None, unread |-> {}],
            areas |-> {}, subs |-> {}]

(* The answer to the read of a part.  The feed is shortened to 200 events,  *)
(* more than any instance has.                                              *)
Read(p) ==
  CASE p = "account" -> [attested |-> server.attested, key |-> server.key,
                         unread |-> server.unread]
    [] p = "areas"   -> server.areas
    [] p = "subs"    -> server.subs

Call(id, op, arg) == [id |-> id, op |-> op, arg |-> arg, stage |-> "sent",
                      ok |-> TRUE, got |-> NoParts]

Visit == [Call(0, "visit", None) EXCEPT !.stage = "reading"]

Init ==
  /\ server \in Accounts
  /\ shown = Nothing /\ busy = [c \in Cards |-> FALSE]
  /\ \/ view = "login" /\ calls = {}
     \/ view = "account" /\ calls = {Visit}
  /\ clicks = 0 /\ faults = 0

-----------------------------------------------------------------------------
(* The user *)

Press(op, arg) ==
  /\ clicks < MaxClicks /\ clicks' = clicks + 1
  /\ CardOf[op] # None => ~ busy[CardOf[op]]
  /\ busy' = [c \in Cards |-> (busy[c] \/ c = CardOf[op])]
  /\ calls' = calls \cup {Call(clicks', op, arg)}
  /\ UNCHANGED <<server, view, shown, faults>>

Account == shown.account

(* The method is chosen by the attestation shown. *)
ToggleAttestation ==
  view = "account" /\ Press("attest", ~ Account.attested)
SaveKey(v)     == view = "account" /\ Press("key", v)
RemoveKey      == view = "account" /\ Account.key # None /\ Press("key", None)
SaveArea       == view = "account" /\ Press("area", clicks + 1)
RemoveArea(a)  == view = "account" /\ a \in shown.areas /\ Press("unarea", a)
CreateAlert(a) == view = "account" /\ a \in shown.areas /\ Press("alert", a)
RemoveAlert(s) == view = "account" /\ s \in shown.subs /\ Press("unalert", s)
MarkAllRead    == view = "account" /\ Account.unread # {} /\ Press("read", {})
OpenBilling    == view = "account" /\ Press("billing", None)
SignIn         == view = "login" /\ Press("signin", None)
MagicLink      == view = "login" /\ Press("magic", None)

-----------------------------------------------------------------------------
(* The server *)

Moves(c, d) == calls' = (calls \ {c}) \cup {d}
Served(c)   == [c EXCEPT !.stage = "reading"]
Refused(c)  == [c EXCEPT !.stage = "reading", !.ok = FALSE]

(* Checks the area, or removes its subscriptions: the first of two statements. *)
ServeFirst(c) ==
  /\ c.stage = "sent"
  /\ \/ /\ c.op = "alert"
        /\ Moves(c, IF c.arg \in server.areas THEN [c EXCEPT !.stage = "half"] ELSE Refused(c))
        /\ UNCHANGED server
     \/ /\ c.op = "unarea"
        /\ server' = [server EXCEPT !.subs = {s \in @ : s.area # c.arg}]
        /\ Moves(c, [c EXCEPT !.stage = "half"])
  /\ UNCHANGED <<view, shown, busy, clicks, faults>>

(* A canonical area needs the id of a known geography, else it is a 404. *)
Effect(c) ==
  CASE c.op = "attest"  -> [server EXCEPT !.attested = c.arg]
    [] c.op = "key"     -> [server EXCEPT !.key = c.arg]
    [] c.op = "area"    -> [server EXCEPT !.areas = @ \cup {c.arg}]
    [] c.op = "alert"   -> [server EXCEPT !.subs = @ \cup {[id |-> c.id, area |-> c.arg]}]
    [] c.op = "unarea"  -> [server EXCEPT !.areas = @ \ {c.arg}]
    [] c.op = "unalert" -> [server EXCEPT !.subs = @ \ {c.arg}]
    [] c.op = "read"    -> [server EXCEPT !.unread = {}]
    [] OTHER            -> server

(* The one statement, or the second of two.  Marking read remembers what   *)
(* it marked.                                                              *)
Ready(c) == c.stage = IF c.op \in {"alert", "unarea"} THEN "half" ELSE "sent"

Mutating == Ops \ {"signin", "magic", "billing", "visit"}

Serve(c) ==
  /\ Ready(c) /\ c.op \in Mutating
  /\ \/ /\ server' = Effect(c)
        /\ Moves(c, Served(IF c.op = "read" THEN [c EXCEPT !.arg = server.unread] ELSE c))
     \/ c.op = "area" /\ UNCHANGED server /\ Moves(c, Refused(c))
  /\ UNCHANGED <<view, shown, busy, clicks, faults>>

-----------------------------------------------------------------------------
(* The page *)

(* Slip: the refresh does not wait for the call. *)
RefreshesAtOnce(c) == c.stage # "done"

Refreshes(c) == c.stage = "reading"

Fetch(c, p) ==
  /\ Refreshes(c) /\ c.op \in Mutating \cup {"visit"}
  /\ c.got[p] = None
  /\ Moves(c, [c EXCEPT !.got[p] = [value |-> Read(p)]])
  /\ UNCHANGED <<server, view, shown, busy, clicks, faults>>

Ends(c) == busy' = [d \in Cards |-> busy[d] /\ d # CardOf[c.op]]

Land(c) ==
  /\ c.stage = "reading" /\ \A p \in Parts : c.got[p] # None
  /\ shown' = [p \in Parts |-> c.got[p].value]
  /\ Ends(c) /\ calls' = calls \ {c}
  /\ UNCHANGED <<server, view, clicks, faults>>

(* Checkout answers with a url, and the page is left for it, or refuses. *)
LandBilling(c) ==
  /\ c.op = "billing"
  /\ \/ view' = "stripe" /\ calls' = {} /\ UNCHANGED busy
     \/ UNCHANGED view /\ Ends(c) /\ calls' = calls \ {c}
  /\ UNCHANGED <<server, shown, clicks, faults>>

(* Signed in, or told why not.  The magic link opens the page from the mail. *)
LandLogin(c) ==
  /\ c.op \in {"signin", "magic"} /\ Ends(c)
  /\ \/ c.op = "signin" /\ view' = "account" /\ calls' = (calls \ {c}) \cup {Visit}
     \/ UNCHANGED view /\ calls' = calls \ {c}
  /\ UNCHANGED <<server, shown, clicks, faults>>

-----------------------------------------------------------------------------
(* Faults *)

Fault == faults < MaxFaults /\ faults' = faults + 1

(* The mutating call answers with an error, whatever it did by then. *)
Refuse(c) ==
  /\ Fault /\ c.op \in Mutating /\ c.stage \in {"sent", "half"}
  /\ Moves(c, Refused(c))
  /\ UNCHANGED <<server, view, shown, busy, clicks>>

(* A read refused shows nothing of its part. *)
RefuseRead(c, p) ==
  /\ Fault /\ c.stage = "reading" /\ c.got[p] = None
  /\ Moves(c, [c EXCEPT !.got[p] = [value |-> Nothing[p]]])
  /\ UNCHANGED <<server, view, shown, busy, clicks>>

(* The handlers that catch, or finally clear, what a thrown fetch leaves. *)
Guarded == {"billing", "signin"}

(* Slip: no handler clears its flag when a fetch throws. *)
ThrowUncaught(c) ==
  /\ Fault /\ calls' = calls \ {c} /\ UNCHANGED busy
  /\ UNCHANGED <<server, view, shown, clicks>>

Throw(c) ==
  /\ Fault /\ calls' = calls \ {c}
  /\ IF c.op \in Guarded THEN Ends(c) ELSE UNCHANGED busy
  /\ UNCHANGED <<server, view, shown, clicks>>

-----------------------------------------------------------------------------
Answer(c) == ServeFirst(c) \/ Serve(c) \/ Land(c) \/ LandBilling(c) \/ LandLogin(c)

Next ==
  \/ ToggleAttestation \/ RemoveKey \/ SaveArea \/ MarkAllRead
  \/ OpenBilling \/ SignIn \/ MagicLink
  \/ \E v \in Vendors : SaveKey(v)
  \/ \E a \in shown.areas : RemoveArea(a) \/ CreateAlert(a)
  \/ \E s \in shown.subs : RemoveAlert(s)
  \/ \E c \in calls : \/ Answer(c) \/ Refuse(c) \/ Throw(c)
                      \/ \E p \in Parts : Fetch(c, p) \/ RefuseRead(c, p)

Spec == Init /\ [][Next]_vars

-----------------------------------------------------------------------------
(* Properties *)

Shows(s, c) ==
  CASE c.op = "attest"  -> s.account.attested = c.arg
    [] c.op = "key"     -> s.account.key = c.arg
    [] c.op = "area"    -> c.arg \in s.areas \/ c.arg \notin server.areas
    [] c.op = "alert"   -> \/ \E x \in s.subs : x.id = c.id
                           \/ \A x \in server.subs : x.id # c.id
    [] c.op = "unarea"  -> c.arg \notin s.areas
    [] c.op = "unalert" -> c.arg \notin s.subs
    [] c.op = "read"    -> s.account.unread \cap c.arg = {}
    [] OTHER            -> TRUE

(* The page a handler leaves behind shows what its own call did, whatever  *)
(* other handlers were under way and in whichever order their reads were   *)
(* answered; what was deleted or read does not come back with it           *)
(* (AccountView.tsx: every handler awaits its call, then the refresh).     *)
ReadsOwnWrites ==
  [][\A c \in calls : Land(c) /\ c.ok /\ faults = 0 => Shows(shown', c)]_vars

(* A card is disabled only while a handler of its own is at work, which    *)
(* will enable it again, even when a fetch throws where the handler        *)
(* catches that; the page never waits for a handler that is gone           *)
(* (BillingCard's catch; the other cards have none).                       *)
BusyIsAtWork ==
  \A c \in Cards : busy[c] => \/ \E k \in calls : CardOf[k.op] = c
                              \/ view = "stripe"
                              \/ (faults > 0 /\ c # "billing")
=============================================================================
