---------------------------- MODULE BillingProofs ----------------------------
(***************************************************************************)
(* Proofs about the entitlement, the billing part of MCOps, for any        *)
(* checkouts, customers and handlers in any order of deliveries: it is     *)
(* granted only after a payment, and the paid period is never forgotten.   *)
(***************************************************************************)
EXTENDS MCOps, TLAPS, SequenceTheorems

Somebody == \E q \in Requests : asks[q] = "paid"

Events == [type : {"subscription", "completed", "invoice.paid", "deleted"},
           customer : Customers, status : Bill!StripeStatus, end : Bill!Ends]

Rows == [customer : Customers \cup {Null}, status : {"none", "active", "inactive"},
         end : Bill!Ends]

(* The variables are functions and records, a request that has passed its   *)
(* creation has a customer, and a subscription has a period.                *)
Shaped ==
  /\ row \in Rows
  /\ sent \in Seq(Events)
  /\ \A q \in Requests :
       asks[q] \in {"record", "session", "open", "paid"} => customer[q] \in Customers
  /\ \A c \in Customers : stripe[c] # "none" => period[c] # Null
  /\ hookPc = [h \in Handlers |-> hookPc[h]] /\ event = [h \in Handlers |-> event[h]]
  /\ status = [h \in Handlers |-> status[h]] /\ end = [h \in Handlers |-> end[h]]

(* Whatever could lead to a grant, an event or a handler at work on one,    *)
(* comes after a payment.                                                   *)
Earned ==
  /\ Len(sent) > 0 \/ row.status = "active" => Somebody
  /\ \A c \in Customers : stripe[c] # "none" => Somebody
  /\ \A h \in Handlers : hookPc[h] # "idle" => event[h] \in DOMAIN sent

Inv == Bill!TypeOK /\ Shaped /\ Earned

-----------------------------------------------------------------------------

LEMMA EndsFact ==
  ASSUME Bill!ConstantsOK
  PROVE  /\ Null \in Bill!Ends /\ 1 \in Bill!Ends
         /\ \A e \in Bill!Ends : e # Null =>
              e \in 1 .. MaxPeriod /\ (e < MaxPeriod => e + 1 \in Bill!Ends /\ e + 1 # Null)
BY DEF Bill!ConstantsOK, Bill!Ends

LEMMA CoalesceFact ==
  ASSUME NEW x \in Bill!Ends, NEW y \in Bill!Ends
  PROVE  Bill!Coalesce(x, y) \in Bill!Ends /\ (y # Null => Bill!Coalesce(x, y) # Null)
BY DEF Bill!Coalesce

LEMMA InitInv == ASSUME Bill!ConstantsOK PROVE Bill!Init => Inv
<1>. SUFFICES ASSUME Bill!Init PROVE Inv
  OBVIOUS
<1>1. Bill!TypeOK
  BY EndsFact DEF Bill!ConstantsOK, Bill!Init, Bill!TypeOK, Bill!NoRow, Bill!StripeStatus
<1>2. Shaped
  BY EndsFact DEF Bill!Init, Rows, Shaped, Bill!NoRow
<1>3. Earned
  BY DEF Bill!Init, Earned, Bill!NoRow
<1>. QED BY <1>1, <1>2, <1>3 DEF Inv

(* A payment is not taken back. *)
LEMMA PaidOnce ==
  ASSUME Inv, Somebody, NEW q \in Requests, NEW label, asks[q] # "paid", Bill!Ask(q, label)
  PROVE  Somebody'
BY DEF Inv, Bill!TypeOK, Somebody, Bill!Ask

(* A request that does not pay changes its label and perhaps the row.       *)
LEMMA CheckoutInv ==
  ASSUME Inv, NEW q \in Requests,
         Bill!ReadCustomer(q) \/ Bill!CreateCustomer(q) \/ Bill!RecordCustomer(q) \/
         Bill!CreateSession(q)
  PROVE  Inv'
<1>1. asks[q] # "paid" /\ \E label \in {"create", "record", "session", "open"} : Bill!Ask(q, label)
  BY DEF Bill!ReadCustomer, Bill!CreateCustomer, Bill!RecordCustomer, Bill!CreateSession, Bill!Ask
<1>2. Somebody => Somebody'
  BY <1>1, PaidOnce
<1>3. row.customer \in Customers \cup {Null}
  BY DEF Inv, Bill!TypeOK
<1>4. Bill!TypeOK'
  <2>. USE <1>3 DEF Inv, Bill!TypeOK, Rows, Shaped, Bill!Ask, Bill!web, Bill!hook, Bill!there
  <2>1. CASE Bill!ReadCustomer(q)
    BY <2>1 DEF Bill!ReadCustomer
  <2>2. CASE Bill!CreateCustomer(q)
    BY <2>2 DEF Bill!CreateCustomer
  <2>3. CASE Bill!RecordCustomer(q)
    BY <2>3 DEF Bill!RecordCustomer
  <2>4. CASE Bill!CreateSession(q)
    BY <2>4 DEF Bill!CreateSession
  <2>. QED BY <2>1, <2>2, <2>3, <2>4
<1>5. Shaped'
  <2>. USE <1>3 DEF Inv, Bill!TypeOK, Rows, Shaped, Bill!Ask, Bill!web, Bill!hook, Bill!there
  <2>1. CASE Bill!ReadCustomer(q)
    BY <2>1 DEF Bill!ReadCustomer
  <2>2. CASE Bill!CreateCustomer(q)
    BY <2>2 DEF Bill!CreateCustomer
  <2>3. CASE Bill!RecordCustomer(q)
    BY <2>3 DEF Bill!RecordCustomer
  <2>4. CASE Bill!CreateSession(q)
    BY <2>4 DEF Bill!CreateSession
  <2>. QED BY <2>1, <2>2, <2>3, <2>4
<1>6. row' = row \/ (row'.status = "active" => row.status = "active")
  BY DEF Rows, Inv, Shaped, Bill!ReadCustomer, Bill!CreateCustomer, Bill!RecordCustomer,
         Bill!CreateSession
<1>7. UNCHANGED <<Bill!there, Bill!hook>>
  BY DEF Bill!ReadCustomer, Bill!CreateCustomer, Bill!RecordCustomer, Bill!CreateSession
<1>8. Earned'
  BY <1>2, <1>6, <1>7 DEF Inv, Earned, Bill!there, Bill!hook
<1>. QED BY <1>4, <1>5, <1>8 DEF Inv

(* Stripe's log grows by one event or more of customers, after a payment.   *)
LEMMA SentInv ==
  ASSUME Inv, NEW es \in Seq(Events), sent' = sent \o es, Somebody',
         stripe' \in [Customers -> Bill!StripeStatus], period' \in [Customers -> Bill!Ends],
         \A c \in Customers : stripe'[c] # "none" => period'[c] # Null,
         asks' \in [Requests -> {"new", "create", "record", "session", "open", "paid"}],
         \A q \in Requests :
           asks'[q] \in {"record", "session", "open", "paid"} => customer[q] \in Customers,
         UNCHANGED <<row, created, answered, again, customer, Bill!hook, failures>>
  PROVE  Inv'
<1>1. sent' \in Seq(Events) /\ Len(sent') >= Len(sent)
  <2>1. sent \in Seq(Events) /\ Len(es) \in Nat
    BY DEF Inv, Shaped
  <2>2. sent \o es \in Seq(Events) /\ Len(sent \o es) = Len(sent) + Len(es)
    BY <2>1, ConcatProperties
  <2>. QED BY <2>1, <2>2
<1>2. /\ DOMAIN sent = 1 .. Len(sent) /\ DOMAIN sent' = 1 .. Len(sent')
      /\ Len(sent) \in Nat /\ Len(sent') \in Nat
  BY <1>1 DEF Inv, Shaped
<1>3. Bill!TypeOK'
  BY <1>1, <1>2 DEF Inv, Bill!TypeOK, Bill!hook
<1>4. Shaped'
  BY <1>1 DEF Inv, Shaped, Bill!hook
<1>5. Earned'
  BY <1>1, <1>2 DEF Inv, Earned, Bill!hook
<1>. QED BY <1>3, <1>4, <1>5 DEF Inv

LEMMA PayInv == ASSUME Bill!ConstantsOK, Inv, NEW q \in Requests, Bill!Pay(q) PROVE Inv'
<1>. DEFINE c == customer[q]
            es == << Bill!Event("subscription", c, "active", 1),
                     Bill!Event("completed", c, "active", Null),
                     Bill!Event("invoice.paid", c, "active", Null) >>
<1>1. c \in Customers
  BY DEF Inv, Shaped, Bill!Pay
<1>2. es \in Seq(Events)
  BY <1>1, EndsFact DEF Events, Bill!Event, Bill!StripeStatus
<1>3. stripe' \in [Customers -> Bill!StripeStatus] /\ period' \in [Customers -> Bill!Ends]
  BY <1>1, EndsFact DEF Inv, Bill!TypeOK, Bill!Pay, Bill!StripeStatus
<1>4. \A d \in Customers : stripe'[d] # "none" => period'[d] # Null
  <2>1. 1 # Null
    BY DEF Bill!ConstantsOK
  <2>. QED BY <1>1, <2>1 DEF Inv, Bill!TypeOK, Shaped, Bill!Pay
<1>5. /\ asks' \in [Requests -> {"new", "create", "record", "session", "open", "paid"}]
      /\ asks'[q] = "paid" /\ \A r \in Requests : r # q => asks'[r] = asks[r]
  BY DEF Inv, Bill!TypeOK, Bill!Pay, Bill!Ask
<1>6. sent' = sent \o es
  BY DEF Bill!Pay
<1>7. UNCHANGED <<row, created, answered, again, customer, Bill!hook, failures>>
  BY DEF Bill!Pay
<1>. HIDE DEF es
<1>8. Somebody'
  BY <1>5 DEF Somebody
<1>9. \A r \in Requests :
        asks'[r] \in {"record", "session", "open", "paid"} => customer[r] \in Customers
  BY <1>1, <1>5 DEF Inv, Shaped
<1>. QED BY <1>2, <1>3, <1>4, <1>5, <1>6, <1>7, <1>8, <1>9, SentInv

LEMMA StripeInv ==
  ASSUME Bill!ConstantsOK, Inv, NEW c \in Customers, Bill!Renew(c) \/ Bill!FallDue(c) \/
                                                     Bill!Cancel(c)
  PROVE  Inv'
<1>1. period[c] \in Bill!Ends /\ period[c] # Null /\ Somebody
  BY DEF Inv, Bill!TypeOK, Shaped, Earned, Bill!Renew, Bill!FallDue, Bill!Cancel
<1>2. period[c] < MaxPeriod => period[c] + 1 \in Bill!Ends /\ period[c] + 1 # Null
  BY <1>1, EndsFact
<1>3. UNCHANGED <<row, created, answered, again, customer, Bill!hook, failures>> /\ asks' = asks
  BY DEF Bill!Renew, Bill!FallDue, Bill!Cancel, Bill!web
<1>4. stripe' \in [Customers -> Bill!StripeStatus] /\ period' \in [Customers -> Bill!Ends]
  BY <1>2 DEF Inv, Bill!TypeOK, Bill!Renew, Bill!FallDue, Bill!Cancel, Bill!StripeStatus
<1>5. \A d \in Customers : stripe'[d] # "none" => period'[d] # Null
  BY <1>1, <1>2 DEF Inv, Bill!TypeOK, Shaped, Bill!Renew, Bill!FallDue, Bill!Cancel
<1>6. \E es \in Seq(Events) : sent' = sent \o es
  <2>1. CASE Bill!Renew(c)
    <3>. DEFINE es == << Bill!Event("subscription", c, "active", period[c] + 1),
                         Bill!Event("invoice.paid", c, "active", Null) >>
    <3>1. es \in Seq(Events)
      BY <1>2, <2>1, EndsFact DEF Bill!Renew, Events, Bill!Event, Bill!StripeStatus
    <3>2. sent' = sent \o es
      BY <2>1 DEF Bill!Renew
    <3>. QED BY <3>1, <3>2
  <2>2. CASE Bill!FallDue(c) \/ Bill!Cancel(c)
    <3>1. PICK e \in Events : sent' = Append(sent, e)
      BY <1>1, <2>2 DEF Bill!FallDue, Bill!Cancel, Events, Bill!Event, Bill!StripeStatus
    <3>2. Append(sent, e) = sent \o <<e>>
      BY <3>1, AppendIsConcat DEF Inv, Shaped
    <3>3. <<e>> \in Seq(Events)
      BY <3>1
    <3>. QED BY <3>1, <3>2, <3>3
  <2>. QED BY <2>1, <2>2
<1>7. Somebody'
  BY <1>1, <1>3 DEF Somebody
<1>8. /\ asks' \in [Requests -> {"new", "create", "record", "session", "open", "paid"}]
      /\ \A q \in Requests :
           asks'[q] \in {"record", "session", "open", "paid"} => customer[q] \in Customers
  BY <1>3 DEF Inv, Bill!TypeOK, Shaped
<1>. QED BY <1>3, <1>4, <1>5, <1>6, <1>7, <1>8, SentInv

-----------------------------------------------------------------------------
(* The webhook *)

HookTyped(h) ==
  /\ hookPc[h] \in {"idle", "grant", "retrieve", "update", "lookup", "write"}
  /\ event[h] \in 0 .. Len(sent) /\ status[h] \in {"active", "inactive"} /\ end[h] \in Bill!Ends
  /\ hookPc[h] # "idle" => event[h] \in DOMAIN sent

(* A handler at work has an event of a customer, sent after a payment.      *)
LEMMA AtEvent ==
  ASSUME Inv, NEW i \in DOMAIN sent
  PROVE  sent[i] \in Events /\ Somebody /\ i \in 1 .. Len(sent)
BY DEF Inv, Shaped, Earned

(* What a handler writes of its own, and on the row, keeps the invariant    *)
(* when somebody has paid.                                                  *)
LEMMA HookInv ==
  ASSUME Inv, NEW h \in Handlers, Somebody, HookTyped(h)',
         \A g \in Handlers : g # h => /\ hookPc'[g] = hookPc[g] /\ event'[g] = event[g]
                                      /\ status'[g] = status[g] /\ end'[g] = end[g],
         hookPc' = [g \in Handlers |-> hookPc'[g]], event' = [g \in Handlers |-> event'[g]],
         status' = [g \in Handlers |-> status'[g]], end' = [g \in Handlers |-> end'[g]],
         row' \in Rows,
         answered' \subseteq DOMAIN sent, again' \in 0 .. MaxRedelivered,
         failures' \in 0 .. (MaxFaults - 1), UNCHANGED <<created, Bill!there, Bill!web>>
  PROVE  Inv'
<1>1. \A g \in Handlers : HookTyped(g)'
  BY DEF Inv, Bill!TypeOK, Shaped, Earned, HookTyped, Bill!there
<1>2. Bill!TypeOK'
  BY <1>1 DEF Rows, Inv, Bill!TypeOK, HookTyped, Bill!there, Bill!web
<1>3. Shaped'
  BY DEF Inv, Shaped, Bill!there, Bill!web
<1>4. Earned'
  BY <1>1 DEF Inv, Earned, HookTyped, Somebody, Bill!there, Bill!web
<1>. QED BY <1>2, <1>3, <1>4 DEF Inv

LEMMA ReceiveInv ==
  ASSUME Bill!ConstantsOK, Inv, NEW h \in Handlers, NEW i \in DOMAIN sent, Bill!Receive(h, i)
  PROVE  Inv'
<1>1. sent[i] \in Events /\ Somebody /\ i \in 1 .. Len(sent)
  BY AtEvent
<1>2. HookTyped(h)'
  BY <1>1
  DEF Inv, Shaped, Bill!TypeOK, HookTyped, Bill!Receive, Bill!MapStatus, Events, Bill!there
<1>3. again' \in 0 .. MaxRedelivered
  BY DEF Bill!ConstantsOK, Inv, Bill!TypeOK, Bill!Receive, Bill!Deliverable
<1>4. UNCHANGED <<created, Bill!there, Bill!web, row, answered, failures>>
  BY DEF Bill!Receive
<1>5. row' \in Rows
  BY <1>4 DEF Inv, Shaped
<1>6. answered' \subseteq DOMAIN sent /\ failures' \in 0 .. (MaxFaults - 1)
  BY <1>4 DEF Inv, Bill!TypeOK
<1>7. /\ hookPc' = [g \in Handlers |-> hookPc'[g]] /\ event' = [g \in Handlers |-> event'[g]]
      /\ status' = [g \in Handlers |-> status'[g]] /\ end' = [g \in Handlers |-> end'[g]]
      /\ \A g \in Handlers : g # h => /\ hookPc'[g] = hookPc[g] /\ event'[g] = event[g]
                                      /\ status'[g] = status[g] /\ end'[g] = end[g]
  BY DEF Inv, Shaped, Bill!Receive
<1>. QED BY <1>1, <1>2, <1>3, <1>4, <1>5, <1>6, <1>7, HookInv

LEMMA WorkInv ==
  ASSUME Bill!ConstantsOK, Inv, NEW h \in Handlers,
         Bill!Grant(h) \/ Bill!Retrieve(h) \/ Bill!UpdateByCustomer(h) \/ Bill!Lookup(h) \/
         Bill!Write(h)
  PROVE  Inv'
<1>1. HookTyped(h) /\ hookPc[h] # "idle"
  BY DEF Inv, Bill!TypeOK, Earned, HookTyped, Bill!Grant, Bill!Retrieve, Bill!UpdateByCustomer,
         Bill!Lookup, Bill!Write
<1>. DEFINE e == sent[event[h]]
<1>2. e \in Events /\ Somebody /\ event[h] \in 1 .. Len(sent) /\ Len(sent) \in Nat
  BY <1>1, AtEvent DEF HookTyped, Inv, Shaped
<1>3. e.customer \in Customers
  BY <1>2 DEF Events
<1>4. UNCHANGED <<created, Bill!there, again, Bill!web, failures>>
  BY DEF Bill!Grant, Bill!Retrieve, Bill!UpdateByCustomer, Bill!Lookup, Bill!Write
<1>5. /\ hookPc' = [g \in Handlers |-> hookPc'[g]] /\ event' = [g \in Handlers |-> event'[g]]
      /\ status' = [g \in Handlers |-> status'[g]] /\ end' = [g \in Handlers |-> end'[g]]
      /\ \A g \in Handlers : g # h => /\ hookPc'[g] = hookPc[g] /\ event'[g] = event[g]
                                      /\ status'[g] = status[g] /\ end'[g] = end[g]
  BY DEF Inv, Shaped, Bill!Grant, Bill!Retrieve, Bill!UpdateByCustomer, Bill!Lookup,
         Bill!Write, Bill!Answer
<1>6. HookTyped(h)'
  <2>1. /\ Bill!MapStatus(stripe[e.customer]) \in {"active", "inactive"}
        /\ period[e.customer] \in Bill!Ends
    BY <1>3 DEF Bill!MapStatus, Inv, Bill!TypeOK
  <2>. HIDE DEF e
  <2>2. CASE Bill!Grant(h) \/ Bill!UpdateByCustomer(h) \/ Bill!Lookup(h) \/ Bill!Write(h)
    BY <1>1, <1>2, <1>4, <2>2
    DEF Inv, Shaped, HookTyped, Bill!Grant, Bill!UpdateByCustomer, Bill!Lookup, Bill!Write,
        Bill!Answer, Bill!there
  <2>3. CASE Bill!Retrieve(h)
    BY <1>1, <1>2, <1>4, <2>1, <2>3 DEF e, Inv, Shaped, HookTyped, Bill!Retrieve, Bill!there
  <2>. QED BY <2>2, <2>3
<1>7. answered' \subseteq DOMAIN sent
  BY <1>1
  DEF Inv, Bill!TypeOK, HookTyped, Bill!Grant, Bill!Retrieve, Bill!UpdateByCustomer,
      Bill!Lookup, Bill!Write, Bill!Answer
<1>8. row' \in Rows
  <2>1. row.end \in Bill!Ends /\ Null \in Bill!Ends /\ end[h] \in Bill!Ends
    BY <1>1, EndsFact DEF Inv, Bill!TypeOK, HookTyped
  <2>2. Bill!Coalesce(end[h], row.end) \in Bill!Ends /\ Bill!Coalesce(Null, row.end) \in Bill!Ends
    BY <2>1, CoalesceFact
  <2>3. CASE Bill!Grant(h) \/ Bill!Write(h)
    BY <1>1, <1>3, <2>2, <2>3 DEF Rows, Bill!Grant, Bill!Write, Bill!UpsertByUser, HookTyped
  <2>4. CASE Bill!UpdateByCustomer(h)
    BY <1>1, <2>2, <2>4 DEF Rows, Bill!UpdateByCustomer, HookTyped, Inv, Shaped
  <2>5. CASE Bill!Retrieve(h) \/ Bill!Lookup(h)
    BY <2>5 DEF Bill!Retrieve, Bill!Lookup, Inv, Shaped
  <2>. QED BY <2>3, <2>4, <2>5
<1>9. again' \in 0 .. MaxRedelivered /\ failures' \in 0 .. (MaxFaults - 1)
  BY <1>4 DEF Inv, Bill!TypeOK
<1>. QED BY <1>2, <1>4, <1>5, <1>6, <1>7, <1>8, <1>9, HookInv

(* An invocation that fails leaves the row as it got it. *)
LEMMA FailInv == ASSUME Bill!ConstantsOK, Inv, NEW h \in Handlers, Bill!FailHandler(h) PROVE Inv'
<1>1. hookPc[h] # "idle" /\ Somebody
  BY AtEvent DEF Bill!FailHandler, Inv, Earned
<1>2. HookTyped(h)'
  BY DEF Bill!FailHandler, Inv, Bill!TypeOK, Shaped, HookTyped, Bill!there
<1>3. /\ hookPc' = [g \in Handlers |-> hookPc'[g]] /\ event' = [g \in Handlers |-> event'[g]]
      /\ status' = [g \in Handlers |-> status'[g]] /\ end' = [g \in Handlers |-> end'[g]]
      /\ \A g \in Handlers : g # h => /\ hookPc'[g] = hookPc[g] /\ event'[g] = event[g]
                                      /\ status'[g] = status[g] /\ end'[g] = end[g]
  BY DEF Bill!FailHandler, Inv, Shaped
<1>4. UNCHANGED <<row, created, Bill!there, answered, again, Bill!web>>
  BY DEF Bill!FailHandler
<1>5. /\ row' \in Rows
      /\ answered' \subseteq DOMAIN sent /\ again' \in 0 .. MaxRedelivered
  BY <1>4 DEF Inv, Bill!TypeOK, Shaped
<1>6. failures' \in 0 .. (MaxFaults - 1)
  BY DEF Bill!ConstantsOK, Bill!FailHandler, Inv, Bill!TypeOK
<1>. QED BY <1>1, <1>2, <1>3, <1>4, <1>5, <1>6, HookInv

LEMMA NextInv == ASSUME Bill!ConstantsOK PROVE Inv /\ [Bill!Next]_(Bill!vars) => Inv'
<1>. SUFFICES ASSUME Inv, [Bill!Next]_(Bill!vars) PROVE Inv'
  OBVIOUS
<1>1. ASSUME NEW q \in Requests, Bill!ReadCustomer(q) \/ Bill!CreateCustomer(q) \/
                                 Bill!RecordCustomer(q) \/ Bill!CreateSession(q)
      PROVE  Inv'
  BY <1>1, CheckoutInv
<1>2. ASSUME NEW q \in Requests, Bill!Pay(q) PROVE Inv'
  BY <1>2, PayInv
<1>3. ASSUME NEW c \in Customers, Bill!Renew(c) \/ Bill!FallDue(c) \/ Bill!Cancel(c) PROVE Inv'
  BY <1>3, StripeInv
<1>4. ASSUME NEW h \in Handlers, NEW i, i \in answered \/ i \in DOMAIN sent, Bill!Receive(h, i)
      PROVE  Inv'
  BY <1>4, ReceiveInv DEF Inv, Bill!TypeOK
<1>5. ASSUME NEW h \in Handlers, Bill!Grant(h) \/ Bill!Retrieve(h) \/
                                 Bill!UpdateByCustomer(h) \/ Bill!Lookup(h) \/ Bill!Write(h)
      PROVE  Inv'
  BY <1>5, WorkInv
<1>6. ASSUME NEW h \in Handlers, Bill!FailHandler(h) PROVE Inv'
  BY <1>6, FailInv
<1>7. CASE UNCHANGED Bill!vars
  BY <1>7
  DEF Bill!vars, Bill!web, Bill!hook, Bill!there, Inv, Bill!TypeOK, Shaped, Earned, Somebody
<1>. QED BY <1>1, <1>2, <1>3, <1>4, <1>5, <1>6, <1>7 DEF Bill!Next, Bill!Handle

-----------------------------------------------------------------------------

(* Where another part of the instance moves, nothing here does. *)
LEMMA BillingStep == ASSUME Bill!ConstantsOK PROVE Inv /\ [NextAll]_allVars => Inv'
<1>. SUFFICES ASSUME Inv, [NextAll]_allVars PROVE Inv'
  OBVIOUS
<1>1. [Bill!Next]_(Bill!vars)
  BY DEF NextAll, OnNight, OnTile, OnMigrate, OnBilling, allVars, billVars, Bill!vars,
         Bill!web, Bill!hook, Bill!there
<1>. QED BY <1>1, NextInv

(* Neither a checkout nor the redirect entitles anybody: the row is active  *)
(* only after some session was paid (webhook/route.ts).                     *)
THEOREM PaidBeforeGranted == SpecAll => []GrantOnlyIfPaid
<1>1. Inv => GrantOnlyIfPaid
  BY DEF Inv, Earned, Somebody, GrantOnlyIfPaid, Bill!GrantOnlyIfPaid
<1>2. InitAll => Inv
  BY InitInv, ConstantsAssumption DEF InitAll
<1>3. Inv /\ [NextAll]_allVars => Inv'
  BY BillingStep, ConstantsAssumption
<1>. QED BY <1>1, <1>2, <1>3, PTL DEF SpecAll

(* No step of any request or handler takes the period off the row           *)
(* (webhook/route.ts, the upserts' COALESCE).                               *)
THEOREM PeriodNeverLost == SpecAll => PeriodKept
<1>1. Inv /\ Bill!Next /\ row.end # Null => row'.end # Null
  <2>. SUFFICES ASSUME Inv, Bill!Next, row.end # Null PROVE row'.end # Null
    OBVIOUS
  <2>1. row = [customer |-> row.customer, status |-> row.status, end |-> row.end]
    BY DEF Rows, Inv, Shaped
  <2>2. \A x : Bill!Coalesce(x, row.end) # Null
    BY DEF Bill!Coalesce
  <2>3. ASSUME NEW q \in Requests, Bill!RecordCustomer(q) PROVE row'.end # Null
    BY <2>1, <2>3 DEF Bill!RecordCustomer
  <2>4. ASSUME NEW h \in Handlers, Bill!Grant(h) \/ Bill!Write(h) PROVE row'.end # Null
    BY <2>2, <2>4 DEF Bill!Grant, Bill!Write, Bill!UpsertByUser
  <2>5. ASSUME NEW h \in Handlers, Bill!UpdateByCustomer(h) PROVE row'.end # Null
    BY <2>1, <2>2, <2>5 DEF Bill!UpdateByCustomer
  <2>6. CASE row' = row
    BY <2>6
  <2>. QED
    BY <2>3, <2>4, <2>5, <2>6
    DEF Bill!Next, Bill!Handle, Bill!ReadCustomer, Bill!CreateCustomer, Bill!CreateSession,
        Bill!Pay, Bill!Renew, Bill!FallDue, Bill!Cancel, Bill!Receive, Bill!Retrieve,
        Bill!Lookup, Bill!FailHandler
<1>2. Inv /\ [NextAll]_allVars => [row.end # Null => row'.end # Null]_(Bill!vars)
  BY <1>1 DEF NextAll, OnNight, OnTile, OnMigrate, OnBilling, allVars, billVars, Bill!vars,
              Bill!web, Bill!hook, Bill!there
<1>3. InitAll => Inv
  BY InitInv, ConstantsAssumption DEF InitAll
<1>4. Inv /\ [NextAll]_allVars => Inv'
  BY BillingStep, ConstantsAssumption
<1>. QED BY <1>2, <1>3, <1>4, PTL DEF SpecAll, PeriodKept, Bill!PeriodKept
=============================================================================
