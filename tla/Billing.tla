------------------------------- MODULE Billing -------------------------------
(***************************************************************************)
(* Entitlement of one user: checkout requests, Stripe's subscriptions and  *)
(* events, and the webhook handler that turns events into the user's row   *)
(* of app.subscription.  Stripe is external: a paid session creates the    *)
(* customer's subscription, every change of it is an event, an event is    *)
(* delivered until it is answered 200 and possibly again.                  *)
(***************************************************************************)
EXTENDS Integers, Sequences, FiniteSets

CONSTANTS
  Requests,     \* POST /api/billing/checkout requests
  Customers,    \* ids Stripe may hand out
  Handlers,     \* concurrent invocations of the webhook
  Ordered,      \* events are handled one by one in the order sent
  Null,
  MaxPaid,      \* sessions the user completes                     (bound)
  MaxPeriod,    \* billing periods                                 (bound)
  MaxRedelivered, \* deliveries of answered events                 (bound)
  MaxFaults     \* failed invocations                              (bound)

ConstantsOK ==
  /\ {MaxPaid, MaxPeriod, MaxRedelivered, MaxFaults} \subseteq Nat /\ MaxPeriod > 0
  /\ Ordered \in BOOLEAN /\ Null \notin Customers \cup Int
  /\ Cardinality(Requests) <= Cardinality(Customers)

VARIABLES
  row,       \* the app.subscription row: [customer, status, end], or NoRow
  created,   \* customers created for the user (metadata.user_id)
  stripe,    \* customer -> its subscription's Stripe status, or "none"
  period,    \* customer -> the end of its paid period
  sent,      \* sequence of events [type, customer, status, end]
  answered,  \* indices of events answered 200
  again,     \* redeliveries so far
  asks,      \* request -> "new" | "create" | "record" | "session" | "open" | "paid"
  customer,  \* request -> the customer it read or created, or Null
  pc, event, \* handler -> step; index of its event, 0 if none
  status, end, \* handler -> what it is going to write
  faults

web   == <<asks, customer>>
hook  == <<pc, event, status, end>>
there == <<stripe, period, sent>>
vars  == <<row, created, there, answered, again, web, hook, faults>>

NoRow == [customer |-> Null, status |-> "none", end |-> Null]
StripeStatus == {"none", "active", "past_due", "canceled"}
Ends == 1 .. MaxPeriod \cup {Null}

TypeOK ==
  /\ row.customer \in Customers \cup {Null} /\ row.end \in Ends
  /\ row.status \in {"none", "active", "inactive"}
  /\ created \subseteq Customers
  /\ stripe \in [Customers -> StripeStatus] /\ period \in [Customers -> Ends]
  /\ answered \subseteq DOMAIN sent
  /\ asks \in [Requests -> {"new", "create", "record", "session", "open", "paid"}]
  /\ customer \in [Requests -> Customers \cup {Null}]
  /\ \A h \in Handlers : /\ pc[h] \in {"idle", "grant", "retrieve", "update", "lookup", "write"}
                         /\ event[h] \in 0 .. Len(sent)
                         /\ status[h] \in {"active", "inactive"} /\ end[h] \in Ends
  /\ again \in 0 .. MaxRedelivered /\ faults \in 0 .. MaxFaults

Init ==
  /\ row = NoRow /\ created = {}
  /\ stripe = [c \in Customers |-> "none"] /\ period = [c \in Customers |-> Null]
  /\ sent = <<>> /\ answered = {} /\ again = 0
  /\ asks = [q \in Requests |-> "new"] /\ customer = [q \in Requests |-> Null]
  /\ pc = [h \in Handlers |-> "idle"] /\ event = [h \in Handlers |-> 0]
  /\ status = [h \in Handlers |-> "inactive"] /\ end = [h \in Handlers |-> Null]
  /\ faults = 0

-----------------------------------------------------------------------------
MapStatus(s) == IF s = "active" THEN "active" ELSE "inactive"
Coalesce(x, y) == IF x = Null THEN y ELSE x

(* Slip: a null period end overwrites the one known. *)
UpsertByUserPlain(c, s, e) == row' = [customer |-> c, status |-> s, end |-> e]

UpsertByUser(c, s, e) ==
  row' = [customer |-> c, status |-> s, end |-> Coalesce(e, row.end)]

Event(type, c, s, e) == [type |-> type, customer |-> c, status |-> s, end |-> e]

Ask(q, label) == asks' = [asks EXCEPT ![q] = label]

-----------------------------------------------------------------------------
(* POST /api/billing/checkout *)

ReadCustomer(q) ==
  /\ asks[q] = "new"
  /\ customer' = [customer EXCEPT ![q] = row.customer]
  /\ Ask(q, IF row.customer = Null THEN "create" ELSE "session")
  /\ UNCHANGED <<row, created, there, answered, again, hook, faults>>

CreateCustomer(q) ==
  /\ asks[q] = "create"
  /\ \E c \in Customers \ created :
       /\ created' = created \cup {c}
       /\ customer' = [customer EXCEPT ![q] = c]
  /\ Ask(q, "record")
  /\ UNCHANGED <<row, there, answered, again, hook, faults>>

(* Slip: the row is recorded as active, the redirect being on its way. *)
RecordActive(q) ==
  /\ asks[q] = "record"
  /\ row' = [row EXCEPT !.customer = customer[q], !.status = "active"]
  /\ Ask(q, "session")
  /\ UNCHANGED <<created, there, answered, again, customer, hook, faults>>

(* An existing row keeps its status and its period. *)
RecordCustomer(q) ==
  /\ asks[q] = "record"
  /\ row' = [row EXCEPT !.customer = customer[q],
                        !.status = IF row = NoRow THEN "inactive" ELSE @]
  /\ Ask(q, "session")
  /\ UNCHANGED <<created, there, answered, again, customer, hook, faults>>

CreateSession(q) ==
  /\ asks[q] = "session"
  /\ Ask(q, "open")
  /\ UNCHANGED <<row, created, there, answered, again, customer, hook, faults>>

-----------------------------------------------------------------------------
(* Stripe. *)

Pay(q) ==
  /\ asks[q] = "open"
  /\ Cardinality({x \in Requests : asks[x] = "paid"}) < MaxPaid
  /\ LET c == customer[q] IN
       /\ stripe[c] = "none"
       /\ stripe' = [stripe EXCEPT ![c] = "active"]
       /\ period' = [period EXCEPT ![c] = 1]
       /\ sent' = sent \o << Event("subscription", c, "active", 1),
                             Event("completed", c, "active", Null),
                             Event("invoice.paid", c, "active", Null) >>
  /\ Ask(q, "paid")
  /\ UNCHANGED <<row, created, answered, again, customer, hook, faults>>

(* A renewal, or a charge that fails for now. *)
Renew(c) ==
  /\ stripe[c] \in {"active", "past_due"} /\ period[c] < MaxPeriod
  /\ stripe' = [stripe EXCEPT ![c] = "active"]
  /\ period' = [period EXCEPT ![c] = @ + 1]
  /\ sent' = sent \o << Event("subscription", c, "active", period[c] + 1),
                        Event("invoice.paid", c, "active", Null) >>
  /\ UNCHANGED <<row, created, answered, again, web, hook, faults>>

FallDue(c) ==
  /\ stripe[c] = "active" /\ period[c] < MaxPeriod
  /\ stripe' = [stripe EXCEPT ![c] = "past_due"]
  /\ sent' = Append(sent, Event("subscription", c, "past_due", period[c]))
  /\ UNCHANGED <<period, row, created, answered, again, web, hook, faults>>

Cancel(c) ==
  /\ stripe[c] \in {"active", "past_due"}
  /\ stripe' = [stripe EXCEPT ![c] = "canceled"]
  /\ sent' = Append(sent, Event("deleted", c, "canceled", period[c]))
  /\ UNCHANGED <<period, row, created, answered, again, web, hook, faults>>

-----------------------------------------------------------------------------
(* POST /api/billing/webhook *)

Busy(i) == \E h \in Handlers : event[h] = i

(* Delivery of event i: until it is answered, and sometimes again.  In     *)
(* order: no event before those sent earlier, none again after a later one.*)
Deliverable(i) ==
  /\ i \notin answered \/ again < MaxRedelivered
  /\ Ordered => /\ \A j \in DOMAIN sent : j < i => j \in answered
                /\ \A j \in answered : j <= i
                /\ \A h \in Handlers : event[h] = 0

Receive(h, i) ==
  /\ pc[h] = "idle" /\ i \in DOMAIN sent /\ ~ Busy(i)
  /\ Deliverable(i)
  /\ again' = IF i \in answered THEN again + 1 ELSE again
  /\ event' = [event EXCEPT ![h] = i]
  /\ pc' = [pc EXCEPT ![h] = IF sent[i].type = "completed" THEN "grant" ELSE "update"]
  /\ status' = [status EXCEPT ![h] = IF sent[i].type = "deleted" THEN "inactive"
                                     ELSE MapStatus(sent[i].status)]
  /\ end' = [end EXCEPT ![h] = sent[i].end]
  /\ UNCHANGED <<row, created, there, answered, web, faults>>

(* 200. *)
Answer(h) ==
  /\ answered' = answered \cup {event[h]}
  /\ event' = [event EXCEPT ![h] = 0]
  /\ pc' = [pc EXCEPT ![h] = "idle"]

(* checkout.session.completed: active first, then what Stripe says now. *)
Grant(h) ==
  /\ pc[h] = "grant"
  /\ UpsertByUser(sent[event[h]].customer, "active", Null)
  /\ pc' = [pc EXCEPT ![h] = "retrieve"]
  /\ UNCHANGED <<created, there, answered, again, web, event, status, end, faults>>

Retrieve(h) ==
  /\ pc[h] = "retrieve"
  /\ LET c == sent[event[h]].customer IN
       /\ status' = [status EXCEPT ![h] = MapStatus(stripe[c])]
       /\ end' = [end EXCEPT ![h] = period[c]]
  /\ pc' = [pc EXCEPT ![h] = "write"]
  /\ UNCHANGED <<row, created, there, answered, again, web, event, faults>>

(* Slip: an event of a customer that is not on the row is dropped. *)
UpdateKnownCustomer(h) ==
  /\ pc[h] = "update"
  /\ row' = IF row.customer = sent[event[h]].customer
            THEN [row EXCEPT !.status = status[h], !.end = Coalesce(end[h], row.end)] ELSE row
  /\ Answer(h)
  /\ UNCHANGED <<created, there, again, web, status, end, faults>>

(* upsertByCustomer: the row of the event's customer, if there is one. *)
UpdateByCustomer(h) ==
  /\ pc[h] = "update"
  /\ IF row.customer = sent[event[h]].customer
     THEN /\ row' = [row EXCEPT !.status = status[h], !.end = Coalesce(end[h], row.end)]
          /\ Answer(h)
     ELSE /\ pc' = [pc EXCEPT ![h] = "lookup"]
          /\ UNCHANGED <<row, answered, event>>
  /\ UNCHANGED <<created, there, again, web, status, end, faults>>

(* Otherwise the user comes from the customer's metadata. *)
Lookup(h) ==
  /\ pc[h] = "lookup"
  /\ IF sent[event[h]].customer \in created
     THEN pc' = [pc EXCEPT ![h] = "write"] /\ UNCHANGED <<answered, event>>
     ELSE Answer(h)
  /\ UNCHANGED <<row, created, there, again, web, status, end, faults>>

Write(h) ==
  /\ pc[h] = "write"
  /\ UpsertByUser(sent[event[h]].customer, status[h], end[h])
  /\ Answer(h)
  /\ UNCHANGED <<created, there, again, web, status, end, faults>>

(* 500, or no answer: Stripe delivers the event again. *)
FailHandler(h) ==
  /\ pc[h] # "idle" /\ faults < MaxFaults
  /\ faults' = faults + 1
  /\ event' = [event EXCEPT ![h] = 0] /\ pc' = [pc EXCEPT ![h] = "idle"]
  /\ UNCHANGED <<row, created, there, answered, again, web, status, end>>

(* The last answered event may only be delivered again: not a duty. *)
Handle(h) ==
  \/ \E i \in DOMAIN sent \ answered : Receive(h, i)
  \/ Grant(h) \/ Retrieve(h) \/ UpdateByCustomer(h) \/ Lookup(h) \/ Write(h)

Next ==
  \/ \E q \in Requests : \/ ReadCustomer(q) \/ CreateCustomer(q)
                         \/ RecordCustomer(q) \/ CreateSession(q) \/ Pay(q)
  \/ \E c \in Customers : Renew(c) \/ FallDue(c) \/ Cancel(c)
  \/ \E h \in Handlers : \/ Handle(h) \/ FailHandler(h)
                         \/ \E i \in answered : Receive(h, i)

Spec == Init /\ [][Next]_vars

(* Stripe retries until an event is answered, and a handler gets on. *)
FairSpec == Spec /\ \A h \in Handlers : WF_vars(Handle(h))

-----------------------------------------------------------------------------
(* Properties *)

(* No entitlement without a payment: neither a checkout nor the redirect   *)
(* grants it ("granted by the verified webhook, never by the redirect").   *)
GrantOnlyIfPaid ==
  TypeOK /\ (row.status = "active" => \E q \in Requests : asks[q] = "paid")

(* The row never forgets the paid period it has learned of, although half  *)
(* the events carry none and a checkout may rewrite the row.               *)
PeriodKept == [][row.end # Null => row'.end # Null]_vars

(* The row ends at what Stripe says of the paid subscription, whichever    *)
(* customer a second checkout put on it in between (webhook/route.ts:      *)
(* "Stripe's at-least-once redelivery and out-of-order events converge to  *)
(* the same state").                                                       *)
InSync ==
  \A c \in Customers : stripe[c] # "none" =>
    row.status = MapStatus(stripe[c]) /\ row.end = period[c]
Converges == <>[]InSync
=============================================================================
