--------------------------- MODULE BillingProofs ---------------------------
(***************************************************************************)
(* The billing webhooks for any events, clients, subscriptions, invoices   *)
(* and any number of processes: they implement Ledger, never wait in a     *)
(* circle, and set a subscription and its client by one and the same event. *)
(***************************************************************************)
EXTENDS Billing, TLAPS

-----------------------------------------------------------------------------
(* What a row may hold.  The clients are the ones there were at the start; *)
(* a subscription belongs to the client that its events name.              *)
Owns(s, c) == \E e \in Events : Payload[e].sub = s /\ Payload[e].client = c

SubRecords ==
  [client : KnownClients,
   status : Statuses \cup {"payment_failed"}]

Sound(x, v) ==
  /\ \A e \in Events : x = EventRow(e) => v \in {None, "accepted", "ignored"}
  /\ \A c \in Clients : x = ClientRow(c) =>
       IF c \in KnownClients THEN v \in {"trial", "starter", "churned"} ELSE v = None
  /\ \A s \in Subs : x = SubRow(s) =>
       v = None \/ (v \in SubRecords /\ Owns(s, v.client))

RowsSound ==
  /\ DOMAIN db = RowIds /\ DOMAIN new = RowIds /\ DOMAIN holder = RowIds
  /\ \A x \in RowIds : holder[x] \in Txs \cup {NoTx} /\ Sound(x, db[x]) /\ Sound(x, new[x])
  /\ UnlockedIsCommitted

StatementNames == {"client", "invoice", "subscription", "unpaid"}
ProcRecords ==
  [pc : {"idle", "claim", "resolve", "execute"}, event : Events \cup {None},
   client : Clients \cup {None}, todo : Seq(StatementNames)]

ProcsSound ==
  /\ proc \in [Txs -> ProcRecords]
  /\ \A t \in Txs : proc[t].pc # "idle" => proc[t].event \in Events
  /\ pending \subseteq Events /\ faults \in 0..MaxFaults

-----------------------------------------------------------------------------
(* How far an event is.  The statements executed so far are those of the   *)
(* event that are not left.                                                *)
Elements(q) == {q[i] : i \in DOMAIN q}
Suffixes(q) == {q, <<>>} \cup (IF Len(q) = 2 THEN {<<q[2]>>} ELSE {})
Done(t) == Elements(Statements(Load(t))) \ Elements(proc[t].todo)

HoldsJust(t, X) == \A x \in RowIds : holder[x] = t <=> x \in X
EventOf(t) == EventRow(proc[t].event)
RowOf(t, s) == StatementRow(s, Load(t), proc[t].client)
Wrote(t, s) == WritesRow(s, Load(t), proc[t].client, db)

Claimed(t, v) == db[EventOf(t)] = None /\ holder[EventOf(t)] = t /\ new[EventOf(t)] = v

(* To be answered "ignored": nothing but the event is written.             *)
Ignoble(p) ==
  \/ LooksUp(p) \/ Unusable(p)
  \/ p.client # None /\ p.client \notin KnownClients /\ ChecksClient(p)
Dropping(t) ==
  /\ Claimed(t, "ignored") /\ HoldsJust(t, {EventOf(t)})
  /\ proc[t].todo = <<>> /\ Ignoble(Load(t))

(* Being taken: the client is the event's, or the one of the subscription  *)
(* that it names; each statement so far has written what Ledger writes.    *)
ClientIsFound(p, c) ==
  /\ c \in Clients
  /\ IF LooksUp(p)
       THEN db[SubRow(p.sub)] # None /\ db[SubRow(p.sub)].client = c
       ELSE c = p.client

WrittenSoFar(t) ==
  LET p == Load(t)
      c == proc[t].client
  IN /\ HoldsJust(t, {EventOf(t)} \cup {RowOf(t, s) : s \in {s \in Done(t) : Wrote(t, s)}})
     /\ \A s \in Done(t) :
          /\ Wrote(t, s) => new[RowOf(t, s)] = Written(s, p, c, db)
          /\ s \in {"invoice", "subscription"} \/ ChecksClient(p) => c \in KnownClients

Taking(t) ==
  /\ Claimed(t, "accepted") /\ ~Unusable(Load(t))
  /\ ClientIsFound(Load(t), proc[t].client)
  /\ proc[t].todo \in Suffixes(Statements(Load(t)))
  /\ WrittenSoFar(t)

Working(t) ==
  /\ proc[t].pc \in {"idle", "claim"} => HoldsJust(t, {})
  /\ proc[t].pc = "resolve" =>
       Claimed(t, "accepted") /\ HoldsJust(t, {EventOf(t)}) /\ LooksUp(Load(t))
  /\ proc[t].pc = "execute" => Dropping(t) \/ Taking(t)

Inv == RowsSound /\ ProcsSound /\ \A t \in Txs : Working(t)
-----------------------------------------------------------------------------
LEMMA Names ==
  /\ \A a, b :
       /\ EventRow(a) \notin {ClientRow(b), SubRow(b), InvoiceRow(b)}
       /\ ClientRow(a) \notin {SubRow(b), InvoiceRow(b)}
       /\ SubRow(a) # InvoiceRow(b)
       /\ EventRow(a) = EventRow(b) => a = b
       /\ ClientRow(a) = ClientRow(b) => a = b
       /\ SubRow(a) = SubRow(b) => a = b
       /\ InvoiceRow(a) = InvoiceRow(b) => a = b
  /\ \A e \in Events : EventRow(e) \in RowIds
  /\ \A c \in Clients : ClientRow(c) \in RowIds
  /\ \A s \in Subs : SubRow(s) \in RowIds
  /\ \A i \in Invoices : InvoiceRow(i) \in RowIds
<1>1. \A a, b :
       /\ EventRow(a) \notin {ClientRow(b), SubRow(b), InvoiceRow(b)}
       /\ ClientRow(a) \notin {SubRow(b), InvoiceRow(b)}
       /\ SubRow(a) # InvoiceRow(b)
       /\ EventRow(a) = EventRow(b) => a = b
       /\ ClientRow(a) = ClientRow(b) => a = b
       /\ SubRow(a) = SubRow(b) => a = b
       /\ InvoiceRow(a) = InvoiceRow(b) => a = b
  BY DEF EventRow, ClientRow, SubRow, InvoiceRow
<1>2. QED
  BY <1>1, RowsAre DEF BillingRows

Payloads ==
  [provider : Providers, kind : Kinds, client : Clients \cup {None},
   sub : Subs \cup {None}, invoice : Invoices \cup {None}, status : Statuses]

LEMMA Loads == \A e \in Events : Payload[e] \in Payloads
BY PayloadIs DEF Payloads

(* Sequences of one and of two statements, and what is left of them.       *)
LEMMA NoStatement ==
  Elements(<<>>) = {} /\ Suffixes(<<>>) = {<<>>} /\ <<>> \in Seq(StatementNames)
BY DEF Elements, Suffixes

LEMMA OneStatement ==
  ASSUME NEW a
  PROVE  /\ Elements(<<a>>) = {a} /\ Elements(<<>>) = {}
         /\ Suffixes(<<a>>) = {<<a>>, <<>>} /\ Suffixes(<<>>) = {<<>>}
         /\ <<a>> # <<>> /\ Head(<<a>>) = a /\ Tail(<<a>>) = <<>>
BY DEF Elements, Suffixes

LEMMA TwoStatements ==
  ASSUME NEW a, NEW b
  PROVE  /\ Elements(<<a, b>>) = {a, b}
         /\ Suffixes(<<a, b>>) = {<<a, b>>, <<b>>, <<>>}
         /\ <<a, b>> # <<>> /\ Head(<<a, b>>) = a /\ Tail(<<a, b>>) = <<b>>
<1>1. DOMAIN <<a, b>> = {1, 2} /\ Len(<<a, b>>) = 2 /\ <<a, b>>[1] = a /\ <<a, b>>[2] = b
  OBVIOUS
<1>2. QED
  BY <1>1 DEF Elements, Suffixes

LEMMA LeftOfTwo ==
  ASSUME NEW a, NEW b, a # b, NEW q \in Suffixes(<<a, b>>), q # <<>>
  PROVE  LET All == Elements(<<a, b>>)
         IN /\ Tail(q) \in Suffixes(<<a, b>>) /\ Elements(q) \subseteq All /\ Head(q) \in All
            /\ All \ Elements(Tail(q)) = (All \ Elements(q)) \cup {Head(q)}
            /\ \/ Head(q) = a /\ All \ Elements(q) = {}
               \/ Head(q) = b /\ All \ Elements(q) = {a} /\ Elements(q) # All
<1>1. CASE q = <<a, b>>
  BY <1>1, OneStatement, TwoStatements
<1>2. CASE q = <<b>>
  <2>1. Elements(q) = {b} /\ Head(q) = b /\ Tail(q) = <<>> /\ Elements(<<>>) = {}
    BY <1>2, OneStatement
  <2>2. Elements(<<a, b>>) = {a, b} /\ <<>> \in Suffixes(<<a, b>>)
    BY TwoStatements
  <2>3. QED
    BY <2>1, <2>2
<1>3. q = <<a, b>> \/ q = <<b>>
  <2>1. Suffixes(<<a, b>>) = {<<a, b>>, <<b>>, <<>>}
    BY TwoStatements
  <2>2. QED
    BY <2>1, Zenon
<1>4. QED
  BY <1>1, <1>2, <1>3, Zenon

LEMMA LeftOfOne ==
  ASSUME NEW a, NEW q \in Suffixes(<<a>>), q # <<>>
  PROVE  LET All == Elements(<<a>>)
         IN /\ Tail(q) \in Suffixes(<<a>>) /\ Elements(q) \subseteq All /\ Head(q) \in All
            /\ All \ Elements(Tail(q)) = (All \ Elements(q)) \cup {Head(q)}
            /\ Head(q) = a /\ All \ Elements(q) = {}
<1>1. q = <<a>>
  BY OneStatement
<1>2. QED
  BY <1>1, OneStatement

LEMMA Shapes ==
  ASSUME NEW p \in Payloads
  PROVE  \/ p.kind = "paid" /\ Statements(p) = <<"invoice">>
         \/ p.kind = "failed" /\ p.provider = "razorpay" /\ Statements(p) = <<"client", "unpaid">>
         \/ p.kind = "failed" /\ p.provider = "paddle" /\ Statements(p) = <<"client", "invoice">>
         \/ p.kind = "refund" /\ p.invoice = None /\ Statements(p) = <<"client">>
         \/ p.kind = "refund" /\ p.invoice # None /\ Statements(p) = <<"invoice", "client">>
         \/ p.kind \in SubscriptionKinds /\ Statements(p) = <<"client", "subscription">>
         \/ p.kind = "other" /\ Statements(p) = <<>>
<1>1. p.kind \in Kinds /\ p.provider \in Providers
  BY DEF Payloads
<1>2. QED
  BY <1>1, Zenon DEF Kinds, SubscriptionKinds, Providers, Statements

(* The next statement of an event, and the ones before it.                 *)
Follows(p, s, D) ==
  \/ D = {} /\ s \in {"client", "invoice"}
  \/ D = {"client"} /\ s = "unpaid" /\ p.kind = "failed" /\ p.provider = "razorpay"
  \/ D = {"client"} /\ s = "invoice" /\ p.kind # "refund"
  \/ D = {"client"} /\ s = "subscription" /\ p.kind \in SubscriptionKinds
  \/ D = {"invoice"} /\ s = "client" /\ p.kind = "refund" /\ p.invoice # None

LEMMA NextStatement ==
  ASSUME NEW p \in Payloads, NEW q \in Suffixes(Statements(p)), q # <<>>
  PROVE  LET All == Elements(Statements(p))
         IN /\ Tail(q) \in Suffixes(Statements(p))
            /\ Follows(p, Head(q), All \ Elements(q))
            /\ All \ Elements(Tail(q)) = (All \ Elements(q)) \cup {Head(q)}
            /\ Head(q) \in All
            /\ Elements(q) \subseteq All
            /\ Head(q) = "invoice" /\ Elements(q) = All => p.kind \in {"paid", "refund"}
<1>1. CASE p.kind = "paid" /\ Statements(p) = <<"invoice">>
  BY <1>1, LeftOfOne DEF Follows
<1>2. CASE p.kind = "refund" /\ p.invoice = None /\ Statements(p) = <<"client">>
  BY <1>2, LeftOfOne DEF Follows
<1>3. CASE p.kind = "other" /\ Statements(p) = <<>>
  BY <1>3, OneStatement
<1>4. CASE p.kind = "failed" /\ p.provider = "razorpay" /\ Statements(p) = <<"client", "unpaid">>
  BY <1>4, LeftOfTwo DEF Follows
<1>5. CASE p.kind = "failed" /\ p.provider = "paddle" /\ Statements(p) = <<"client", "invoice">>
  BY <1>5, LeftOfTwo DEF Follows
<1>6. CASE p.kind = "refund" /\ p.invoice # None /\ Statements(p) = <<"invoice", "client">>
  BY <1>6, LeftOfTwo DEF Follows
<1>7. CASE p.kind \in SubscriptionKinds /\ Statements(p) = <<"client", "subscription">>
  BY <1>7, LeftOfTwo DEF Follows
<1>8. QED
  BY <1>1, <1>2, <1>3, <1>4, <1>5, <1>6, <1>7, Shapes

LEMMA AllStatements ==
  ASSUME NEW p \in Payloads
  PROVE  /\ Statements(p) \in Suffixes(Statements(p)) /\ <<>> \in Suffixes(Statements(p))
         /\ Statements(p) \in Seq(StatementNames)
         /\ Elements(Statements(p)) \subseteq StatementNames
         /\ p.kind # "other" => Elements(Statements(p)) # {}
         /\ "subscription" \in Elements(Statements(p)) => p.kind \in SubscriptionKinds
         /\ "unpaid" \in Elements(Statements(p)) => p.kind = "failed"
         /\ "invoice" \in Elements(Statements(p)) => p.kind \in {"paid", "refund", "failed"}
         /\ p.kind = "refund" /\ "invoice" \in Elements(Statements(p)) => p.invoice # None
         /\ p.kind \in {"failed", "refund"} \cup SubscriptionKinds =>
              "client" \in Elements(Statements(p))
         /\ p.kind \in SubscriptionKinds => "subscription" \in Elements(Statements(p))
         /\ p.kind = "failed" /\ p.provider = "razorpay" =>
              "unpaid" \in Elements(Statements(p))
         /\ "unpaid" \in Elements(Statements(p)) => p.provider = "razorpay"
         /\ p.kind = "paid" => Elements(Statements(p)) = {"invoice"}
<1> DEFINE S == Statements(p)
<1>1. /\ S \in Suffixes(S) /\ <<>> \in Suffixes(S) /\ S \in Seq(StatementNames)
      /\ \/ p.kind = "paid" /\ Elements(S) = {"invoice"}
         \/ p.kind = "failed" /\ p.provider = "razorpay" /\ Elements(S) = {"client", "unpaid"}
         \/ p.kind = "failed" /\ p.provider = "paddle" /\ Elements(S) = {"client", "invoice"}
         \/ p.kind = "refund" /\ p.invoice = None /\ Elements(S) = {"client"}
         \/ p.kind = "refund" /\ p.invoice # None /\ Elements(S) = {"invoice", "client"}
         \/ p.kind \in SubscriptionKinds /\ Elements(S) = {"client", "subscription"}
         \/ p.kind = "other" /\ Elements(S) = {}
  <2>1. ASSUME NEW a \in StatementNames, S = <<a>>
        PROVE  S \in Suffixes(S) /\ <<>> \in Suffixes(S) /\ S \in Seq(StatementNames)
               /\ Elements(S) = {a}
    <3> HIDE DEF S
    <3>1. <<a>> \in Seq(StatementNames)
      OBVIOUS
    <3>2. Elements(<<a>>) = {a} /\ Suffixes(<<a>>) = {<<a>>, <<>>}
      BY OneStatement
    <3>3. QED
      BY <2>1, <3>1, <3>2
  <2>2. ASSUME NEW a \in StatementNames, NEW b \in StatementNames, S = <<a, b>>
        PROVE  S \in Suffixes(S) /\ <<>> \in Suffixes(S) /\ S \in Seq(StatementNames)
               /\ Elements(S) = {a, b}
    <3> HIDE DEF S
    <3>1. <<a, b>> \in Seq(StatementNames)
      OBVIOUS
    <3>2. Elements(<<a, b>>) = {a, b} /\ Suffixes(<<a, b>>) = {<<a, b>>, <<b>>, <<>>}
      BY TwoStatements
    <3>3. QED
      BY <2>2, <3>1, <3>2
  <2>3. ASSUME S = <<>>
        PROVE  S \in Suffixes(S) /\ <<>> \in Suffixes(S) /\ S \in Seq(StatementNames)
               /\ Elements(S) = {}
    <3> HIDE DEF S
    <3>1. QED
      BY <2>3, NoStatement
  <2>4. {"client", "invoice", "subscription", "unpaid"} \subseteq StatementNames
    BY DEF StatementNames
  <2> HIDE DEF S
  <2>5. QED
    BY <2>1, <2>2, <2>3, <2>4, Shapes DEF S
<1> HIDE DEF S
<1>2. PICK K : K = Elements(S)
  OBVIOUS
<1>3. K \subseteq StatementNames /\ (p.kind # "other" => K # {})
  <2>1. \/ p.kind = "other" /\ K = {}
        \/ \E a, b \in {"client", "invoice", "subscription", "unpaid"} : K = {a} \/ K = {a, b}
    BY <1>1, <1>2, Zenon
  <2>2. QED
    BY <2>1, SMT DEF StatementNames
<1>4. /\ "subscription" \in K => p.kind \in SubscriptionKinds
      /\ "unpaid" \in K => p.kind = "failed"
  BY <1>1, <1>2, SMT
<1>5. /\ "invoice" \in K => p.kind \in {"paid", "refund", "failed"}
      /\ p.kind = "refund" /\ "invoice" \in K => p.invoice # None
  BY <1>1, <1>2, SMT DEF SubscriptionKinds
<1>6. /\ p.kind \in {"failed", "refund"} \cup SubscriptionKinds => "client" \in K
      /\ p.kind \in SubscriptionKinds => "subscription" \in K
      /\ p.kind = "failed" /\ p.provider = "razorpay" => "unpaid" \in K
      /\ "unpaid" \in K => p.provider = "razorpay"
      /\ p.kind = "paid" => K = {"invoice"}
  BY <1>1, <1>2, SMT DEF SubscriptionKinds
<1>7. QED
  BY <1>1, <1>2, <1>3, <1>4, <1>5, <1>6, Zenon DEF S
-----------------------------------------------------------------------------
(* The rows an event's statements write.                                   *)
LEMMA OneOwner ==
  ASSUME NEW s \in Subs, NEW c, NEW d, c # None, d # None, Owns(s, c), Owns(s, d)
  PROVE  c = d
BY NoneIsNone, SubsHaveOneClient DEF Owns

(* Rows in which the clients are those that were there at the start.       *)
ClientsAre(f) == \A c \in Clients : f[ClientRow(c)] = None <=> c \notin KnownClients

LEMMA ClientsStay ==
  ASSUME RowsSound
  PROVE  ClientsAre(db) /\ ClientsAre(new) /\ \A t : ClientsAre(View(t))
<1>1. ASSUME NEW v, NEW c \in Clients, Sound(ClientRow(c), v)
      PROVE  v = None <=> c \notin KnownClients
  BY <1>1, NoneIsNone DEF Sound
<1>2. \A c \in Clients : ClientRow(c) \in RowIds
  BY Names
<1>3. QED
  BY <1>1, <1>2 DEF RowsSound, ClientsAre, View, Sees

LEMMA RowOfStatement ==
  ASSUME NEW p, NEW c
  PROVE  /\ StatementRow("client", p, c) = ClientRow(c)
         /\ StatementRow("invoice", p, c) = InvoiceRow(p.invoice)
         /\ StatementRow("subscription", p, c) = SubRow(p.sub)
         /\ StatementRow("unpaid", p, c) = SubRow(p.sub)
BY DEF StatementRow

LEMMA WhatItWrites ==
  ASSUME NEW p, NEW c, NEW f
  PROVE  /\ Written("client", p, c, f) = Entitlement(p)
         /\ Written("invoice", p, c, f) = [client |-> c, status |-> InvoiceStatus(p)]
         /\ Written("subscription", p, c, f) = [client |-> c, status |-> SubStatus(p)]
         /\ Written("unpaid", p, c, f) = [f[SubRow(p.sub)] EXCEPT !.status = "payment_failed"]
BY DEF Written

LEMMA WhatWrites ==
  ASSUME NEW p, NEW c \in Clients, NEW f, ClientsAre(f)
  PROVE  /\ WritesRow("client", p, c, f) <=> c \in KnownClients
         /\ WritesRow("invoice", p, c, f) /\ WritesRow("subscription", p, c, f)
         /\ WritesRow("unpaid", p, c, f) <=> p.sub # None /\ f[SubRow(p.sub)] # None
         /\ \A s \in StatementNames : 
              BreaksKey(s, c, f) <=> s \in {"invoice", "subscription"} /\ c \notin KnownClients
BY RowOfStatement DEF WritesRow, BreaksKey, ClientsAre

LEMMA RowsAreThere ==
  ASSUME NEW p \in Payloads, NEW c \in Clients, NEW f, ClientsAre(f), ~Unusable(p),
         NEW s \in Elements(Statements(p)), WritesRow(s, p, c, f)
  PROVE  StatementRow(s, p, c) \in RowIds /\ \A e : StatementRow(s, p, c) # EventRow(e)
<1>1. s \in StatementNames
  BY AllStatements
<1>2. CASE s = "client"
  BY <1>2, RowOfStatement, Names
<1>3. CASE s = "invoice"
  <2>1. p.invoice \in Invoices
    <3>1. ASSUME p.kind = "failed", p.provider # "paddle" PROVE FALSE
      <4>1. Statements(p) = <<"client", "unpaid">>
        BY <3>1, Shapes DEF SubscriptionKinds
      <4>2. s \in {"client", "unpaid"}
        BY <4>1, TwoStatements
      <4>3. QED
        BY <1>3, <4>2
    <3>2. p.kind \in {"paid", "refund", "failed"} /\ p.invoice \in Invoices \cup {None}
      BY <1>3, AllStatements DEF Payloads
    <3>3. p.kind = "refund" => p.invoice # None
      BY <1>3, AllStatements
    <3>4. QED
      BY <3>1, <3>2, <3>3, SMT DEF Unusable
  <2>2. QED
    BY <1>3, <2>1, RowOfStatement, Names
<1>4. CASE s = "subscription"
  <2>1. p.sub \in Subs
    BY <1>4, AllStatements DEF Unusable, Payloads
  <2>2. QED
    BY <1>4, <2>1, RowOfStatement, Names
<1>5. CASE s = "unpaid"
  <2>1. p.sub \in Subs
    BY <1>5, WhatWrites DEF Payloads
  <2>2. QED
    BY <1>5, <2>1, RowOfStatement, Names
<1>6. QED
  BY <1>1, <1>2, <1>3, <1>4, <1>5 DEF StatementNames

(* No two statements of an event write the same row.                       *)
LEMMA RowsDiffer ==
  ASSUME NEW p \in Payloads, NEW c, NEW s \in Elements(Statements(p)),
         NEW q \in Elements(Statements(p)), StatementRow(s, p, c) = StatementRow(q, p, c)
  PROVE  s = q
<1>1. /\ s \in StatementNames /\ q \in StatementNames
      /\ ~("subscription" \in Elements(Statements(p)) /\ "unpaid" \in Elements(Statements(p)))
  BY AllStatements DEF SubscriptionKinds
<1>2. QED
  BY <1>1, RowOfStatement, Names DEF StatementNames
-----------------------------------------------------------------------------
(* What a step of one process leaves of another one's work.                *)
SubsStay(u) ==
  \A s \in Subs :
    /\ db[SubRow(s)] # None =>
         db'[SubRow(s)] # None /\ db'[SubRow(s)].client = db[SubRow(s)].client
    /\ db[SubRow(s)] = None /\ s = Load(u).sub /\ "unpaid" \in Done(u)
         /\ proc[u].pc = "execute" /\ Taking(u) =>
         db'[SubRow(s)] = None

Untouched(u) ==
  /\ proc'[u] = proc[u]
  /\ \A x \in RowIds :
       /\ holder'[x] = u <=> holder[x] = u
       /\ holder[x] = u => new'[x] = new[x] /\ db'[x] = db[x]

LEMMA EventsAreRows ==
  ASSUME ProcsSound, NEW t \in Txs, proc[t].pc # "idle"
  PROVE  /\ proc[t].event \in Events /\ EventOf(t) \in RowIds /\ Load(t) \in Payloads
         /\ proc[t].todo \in Seq(StatementNames) /\ proc[t].client \in Clients \cup {None}
<1>1. proc[t].event \in Events /\ proc[t] \in ProcRecords
  BY DEF ProcsSound
<1>2. proc[t].todo \in Seq(StatementNames) /\ proc[t].client \in Clients \cup {None}
  BY <1>1 DEF ProcRecords
<1>3. QED
  BY <1>1, <1>2, Names, Loads DEF EventOf, Load

LEMMA SameProcess ==
  ASSUME NEW u, proc'[u] = proc[u]
  PROVE  /\ Load(u)' = Load(u) /\ EventOf(u)' = EventOf(u) /\ Done(u)' = Done(u)
         /\ \A s : RowOf(u, s)' = RowOf(u, s)
BY DEF Load, EventOf, Done, RowOf

LEMMA OthersStay ==
  ASSUME NEW u \in Txs, ProcsSound, Working(u), Untouched(u), SubsStay(u),
         ClientsAre(db), ClientsAre(db)'
  PROVE  Working(u)'
<1>1. PICK p, c, e : p = Load(u) /\ c = proc[u].client /\ e = EventOf(u)
  OBVIOUS
<1>2. Load(u)' = p /\ proc'[u].client = c /\ EventOf(u)' = e /\ proc'[u] = proc[u]
      /\ Done(u)' = Done(u)
  BY <1>1, SameProcess DEF Untouched
<1>3. ASSUME NEW X, HoldsJust(u, X) PROVE HoldsJust(u, X)'
  BY <1>3 DEF HoldsJust, Untouched
<1>4. ASSUME NEW v, proc[u].pc # "idle", Claimed(u, v) PROVE Claimed(u, v)'
  <2>1. e \in RowIds
    BY <1>1, <1>4, EventsAreRows
  <2>2. QED
    BY <1>1, <1>2, <1>4, <2>1 DEF Claimed, Untouched
<1>5. ASSUME proc[u].pc = "execute", Dropping(u) PROVE Dropping(u)'
  <2>1. HoldsJust(u, {e}) /\ Claimed(u, "ignored")
    BY <1>1, <1>5 DEF Dropping
  <2>2. HoldsJust(u, {e})' /\ Claimed(u, "ignored")'
    BY <1>3, <1>4, <1>5, <2>1
  <2>3. HoldsJust(u, {EventOf(u)})'
    BY <1>2, <2>2 DEF HoldsJust
  <2>4. QED
    BY <1>1, <1>2, <1>5, <2>2, <2>3 DEF Dropping
<1>6. ASSUME proc[u].pc = "execute", Taking(u) PROVE Taking(u)'
  <2>1. p \in Payloads /\ c \in Clients /\ ~Unusable(p) /\ ClientIsFound(p, c) /\ WrittenSoFar(u)
    BY <1>1, <1>6, EventsAreRows DEF Taking, ClientIsFound
  <2>2. LooksUp(p) => p.sub \in Subs
    BY <2>1 DEF LooksUp, Payloads
  <2>3. ClientIsFound(p, c)'
    BY <2>1, <2>2 DEF ClientIsFound, SubsStay
  <2>4. PICK D : D = Done(u)
    OBVIOUS
  <2>5. D \subseteq Elements(Statements(p)) /\ D \subseteq StatementNames
    BY <1>1, <2>1, <2>4, AllStatements DEF Done
  <2>6. \A s \in D : WritesRow(s, p, c, db) <=> WritesRow(s, p, c, db')
    <3> TAKE s \in D
    <3>1. CASE s # "unpaid"
      BY <2>1, <2>5, <3>1, WhatWrites DEF StatementNames, ClientsAre
    <3>2. CASE s = "unpaid"
      <4>1. \A f \in {db, db'} : ClientsAre(f)
        BY DEF ClientsAre
      <4>2. \A f \in {db, db'} : WritesRow(s, p, c, f) <=> p.sub # None /\ f[SubRow(p.sub)] # None
        BY <2>1, <3>2, <4>1, WhatWrites
      <4>3. p.sub # None => (db[SubRow(p.sub)] # None <=> db'[SubRow(p.sub)] # None)
        BY <1>1, <1>6, <2>1, <2>4, <3>2 DEF SubsStay, Payloads
      <4>4. QED
        BY <4>2, <4>3
    <3>3. QED
      BY <3>1, <3>2
  <2>7. PICK X : X = {e} \cup {StatementRow(s, p, c) : s \in {s \in D : WritesRow(s, p, c, db)}}
    OBVIOUS
  <2>8. HoldsJust(u, X)
    BY <1>1, <2>1, <2>4, <2>7 DEF WrittenSoFar, RowOf, Wrote
  <2>9. X = {e} \cup {StatementRow(s, p, c) : s \in {s \in D : WritesRow(s, p, c, db')}}
    BY <2>6, <2>7
  <2>10. HoldsJust(u, {EventOf(u)} \cup {RowOf(u, s) : s \in {s \in Done(u) : Wrote(u, s)}})'
    BY <1>2, <1>3, <2>4, <2>8, <2>9 DEF HoldsJust, RowOf, Wrote
  <2>11. ASSUME NEW s \in D, WritesRow(s, p, c, db')
         PROVE  new'[StatementRow(s, p, c)] = Written(s, p, c, db')
    <3>1. WritesRow(s, p, c, db)
      BY <2>6, <2>11
    <3>2. new[StatementRow(s, p, c)] = Written(s, p, c, db)
      BY <1>1, <2>1, <2>4, <3>1 DEF WrittenSoFar, RowOf, Wrote
    <3>3. StatementRow(s, p, c) \in RowIds /\ holder[StatementRow(s, p, c)] = u
      BY <2>1, <2>5, <2>7, <2>8, <3>1, RowsAreThere DEF HoldsJust
    <3>4. /\ new'[StatementRow(s, p, c)] = new[StatementRow(s, p, c)]
          /\ db'[StatementRow(s, p, c)] = db[StatementRow(s, p, c)]
      BY <3>3 DEF Untouched
    <3>5. Written(s, p, c, db') = Written(s, p, c, db)
      BY <2>5, <3>4, WhatItWrites, RowOfStatement DEF StatementNames
    <3>6. QED
      BY <3>2, <3>4, <3>5
  <2>12. \A s \in D : s \in {"invoice", "subscription"} \/ ChecksClient(p) => c \in KnownClients
    BY <1>1, <2>1, <2>4 DEF WrittenSoFar
  <2>13. WrittenSoFar(u)'
    BY <1>2, <2>4, <2>10, <2>11, <2>12 DEF WrittenSoFar, RowOf, Wrote
  <2>14. Claimed(u, "accepted")' /\ proc[u].todo \in Suffixes(Statements(p))
    BY <1>1, <1>4, <1>6 DEF Taking
  <2>15. QED
    BY <1>2, <2>1, <2>3, <2>13, <2>14 DEF Taking
<1>7. HoldsJust(u, {e}) => HoldsJust(u, {EventOf(u)})'
  BY <1>2, <1>3 DEF HoldsJust
<1>8. HoldsJust(u, {}) => HoldsJust(u, {})'
  BY <1>3
<1>9. QED
  BY <1>1, <1>2, <1>4, <1>5, <1>6, <1>7, <1>8 DEF Working
-----------------------------------------------------------------------------
(* The rows after each kind of step, and everybody else.                   *)
Alone(t) == \A u \in Txs \ {t} : proc'[u] = proc[u]

LEMMA WriteKeeps ==
  ASSUME NEW t \in Txs, NEW ws, Write(t, ws), RowsSound, Alone(t),
         \A x \in DOMAIN ws \cap RowIds : CanLock(t, x) /\ Sound(x, ws[x])
  PROVE  RowsSound' /\ db' = db /\ \A u \in Txs \ {t} : Untouched(u)
<1>1. RowsSound'
  BY NoTxIsNoTx DEF RowsSound, Write, UnlockedIsCommitted
<1>2. QED
  BY <1>1, NoTxIsNoTx DEF Write, CanLock, Untouched, Alone

LEMMA RollbackKeeps ==
  ASSUME NEW t \in Txs, Rollback(t), RowsSound, Alone(t)
  PROVE  /\ RowsSound' /\ db' = db /\ HoldsJust(t, {})'
         /\ \A u \in Txs \ {t} : Untouched(u)
<1>1. RowsSound'
  BY NoTxIsNoTx DEF RowsSound, Rollback, Release, UnlockedIsCommitted
<1>2. QED
  BY <1>1, NoTxIsNoTx DEF Rollback, Release, Untouched, HoldsJust, Alone

LEMMA PublishKeeps ==
  ASSUME NEW t \in Txs, Publish(t), RowsSound, Alone(t)
  PROVE  /\ RowsSound' /\ HoldsJust(t, {})'
         /\ \A u \in Txs \ {t} : Untouched(u)
         /\ \A x \in RowIds : holder[x] # t => db'[x] = db[x]
         /\ \A x \in RowIds : holder[x] = t => db'[x] = new[x]
<1>1. RowsSound'
  BY NoTxIsNoTx DEF RowsSound, Publish, Release, UnlockedIsCommitted
<1>2. QED
  BY <1>1, NoTxIsNoTx DEF Publish, Release, Untouched, HoldsJust, Alone

LEMMA QuietStep ==
  ASSUME RowsSound, ProcsSound, db' = db, NEW u \in Txs, Working(u), Untouched(u)
  PROVE  Working(u)'
<1>1. ClientsAre(db) /\ ClientsAre(db)'
  BY ClientsStay DEF ClientsAre
<1>2. SubsStay(u)
  BY DEF SubsStay
<1>3. QED
  BY <1>1, <1>2, OthersStay

LEMMA NewState ==
  ASSUME ProcsSound, NEW t \in Txs, NEW r \in ProcRecords, r.pc # "idle" => r.event \in Events,
         proc' = [proc EXCEPT ![t] = r]
  PROVE  /\ proc'[t] = r /\ Alone(t) /\ proc' \in [Txs -> ProcRecords]
         /\ \A u \in Txs : proc'[u].pc # "idle" => proc'[u].event \in Events
BY DEF ProcsSound, Alone

LEMMA IdleIs == Idle \in ProcRecords /\ Idle.pc = "idle"
BY DEF Idle, ProcRecords

(* A process that starts over holds nothing.                               *)
LEMMA AbandonKeeps ==
  ASSUME Inv, NEW t \in Txs, Rollback(t), proc' = [proc EXCEPT ![t] = Idle],
         pending' \subseteq Events, faults' \in 0..MaxFaults
  PROVE  Inv'
<1>1. proc'[t].pc = "idle" /\ Alone(t) /\ ProcsSound'
  BY IdleIs, NewState DEF Inv, ProcsSound
<1>2. RowsSound' /\ HoldsJust(t, {})' /\ db' = db /\ \A u \in Txs \ {t} : Untouched(u)
  BY <1>1, RollbackKeeps DEF Inv
<1>3. Working(t)'
  BY <1>1, <1>2 DEF Working
<1>4. \A u \in Txs \ {t} : Working(u)'
  BY <1>2, QuietStep DEF Inv
<1>5. QED
  BY <1>1, <1>2, <1>3, <1>4 DEF Inv

(* Writing the event, and nothing before it.                               *)
LEMMA WritesEvent ==
  ASSUME RowsSound, ProcsSound, NEW t \in Txs, proc[t].pc # "idle", Alone(t),
         NEW v \in {"accepted", "ignored"},
         Write(t, Row(EventOf(t), v)), CanLock(t, EventOf(t)), db[EventOf(t)] = None,
         HoldsJust(t, {}) \/ HoldsJust(t, {EventOf(t)}), proc'[t].event = proc[t].event
  PROVE  /\ RowsSound' /\ db' = db /\ \A u \in Txs \ {t} : Untouched(u)
         /\ Claimed(t, v)' /\ HoldsJust(t, {EventOf(t)})'
<1>1. PICK x \in RowIds : x = EventOf(t)
  BY EventsAreRows
<1>2. EventOf(t)' = x
  BY <1>1 DEF EventOf
<1>3. Sound(x, v)
  BY <1>1, Names DEF Sound, EventOf
<1>4. DOMAIN Row(x, v) = {x} /\ Row(x, v)[x] = v
  BY DEF Row
<1>5. RowsSound' /\ db' = db /\ \A u \in Txs \ {t} : Untouched(u)
  BY <1>1, <1>3, <1>4, WriteKeeps
<1>6. Claimed(t, v)'
  BY <1>1, <1>2, <1>4, <1>5 DEF Claimed, Write
<1>7. HoldsJust(t, {x})'
  BY <1>1, <1>4 DEF HoldsJust, Write
<1>8. QED
  BY <1>2, <1>5, <1>6, <1>7 DEF HoldsJust

LEMMA IgnoringKeeps ==
  ASSUME Inv, NEW t \in Txs, proc[t].pc # "idle", Ignoring(t, proc[t].event),
         CanLock(t, EventOf(t)), db[EventOf(t)] = None,
         HoldsJust(t, {}) \/ HoldsJust(t, {EventOf(t)}), Ignoble(Load(t)),
         pending' \subseteq Events, faults' = faults
  PROVE  Inv'
<1>1. PICK r \in ProcRecords : r = [proc[t] EXCEPT !.pc = "execute", !.todo = <<>>]
  <2>1. proc[t] \in ProcRecords
    BY DEF Inv, ProcsSound
  <2>2. <<>> \in Seq(StatementNames)
    OBVIOUS
  <2>3. [proc[t] EXCEPT !.pc = "execute", !.todo = <<>>] \in ProcRecords
    BY <2>1, <2>2 DEF ProcRecords
  <2>4. QED
    BY <2>3
<1>2. r.pc = "execute" /\ r.todo = <<>> /\ r.event = proc[t].event
  BY <1>1 DEF Inv, ProcsSound, ProcRecords
<1>3. proc' = [proc EXCEPT ![t] = r]
  BY <1>1 DEF Ignoring, Inv, ProcsSound
<1>4. r.event \in Events
  BY <1>2, EventsAreRows DEF Inv
<1>5. proc'[t] = r /\ Alone(t) /\ ProcsSound'
  BY <1>2, <1>3, <1>4, NewState DEF Inv, ProcsSound
<1>6. /\ RowsSound' /\ db' = db /\ \A u \in Txs \ {t} : Untouched(u)
      /\ Claimed(t, "ignored")' /\ HoldsJust(t, {EventOf(t)})'
  BY <1>2, <1>5, WritesEvent DEF Inv, Ignoring, EventOf
<1>7. Working(t)'
  <2>1. Load(t)' = Load(t)
    BY <1>2, <1>5 DEF Load
  <2>2. Ignoble(Load(t))'
    BY <2>1 DEF Ignoble
  <2>3. Dropping(t)'
    BY <1>2, <1>5, <1>6, <2>2 DEF Dropping
  <2>4. QED
    BY <1>2, <1>5, <2>3 DEF Working
<1>8. \A u \in Txs \ {t} : Working(u)'
  BY <1>6, QuietStep DEF Inv
<1>9. QED
  BY <1>5, <1>6, <1>7, <1>8 DEF Inv

LEMMA AcceptingKeeps ==
  ASSUME Inv, NEW t \in Txs, proc[t].pc # "idle", NEW c, Accepting(t, proc[t].event, c),
         CanLock(t, EventOf(t)), db[EventOf(t)] = None,
         HoldsJust(t, {}) \/ HoldsJust(t, {EventOf(t)}),
         ~Unusable(Load(t)), ClientIsFound(Load(t), c),
         pending' \subseteq Events, faults' = faults
  PROVE  Inv'
<1>1. PICK p \in Payloads : p = Load(t)
  BY EventsAreRows DEF Inv
<1>2. PICK r \in ProcRecords :
        r = [proc[t] EXCEPT !.pc = "execute", !.client = c, !.todo = Statements(p)]
  <2>1. proc[t] \in ProcRecords /\ c \in Clients /\ Statements(p) \in Seq(StatementNames)
    BY AllStatements DEF Inv, ProcsSound, ClientIsFound
  <2>2. [proc[t] EXCEPT !.pc = "execute", !.client = c, !.todo = Statements(p)] \in ProcRecords
    BY <2>1 DEF ProcRecords
  <2>3. QED
    BY <2>2
<1>3. r.pc = "execute" /\ r.todo = Statements(p) /\ r.event = proc[t].event /\ r.client = c
  BY <1>2 DEF Inv, ProcsSound, ProcRecords
<1>4. proc' = [proc EXCEPT ![t] = r]
  BY <1>1, <1>2 DEF Accepting, Inv, ProcsSound
<1>5. r.event \in Events
  BY <1>3, EventsAreRows DEF Inv
<1>6. proc'[t] = r /\ Alone(t) /\ ProcsSound'
  BY <1>3, <1>4, <1>5, NewState DEF Inv, ProcsSound
<1>7. /\ RowsSound' /\ db' = db /\ \A u \in Txs \ {t} : Untouched(u)
      /\ Claimed(t, "accepted")' /\ HoldsJust(t, {EventOf(t)})'
  BY <1>3, <1>6, WritesEvent DEF Inv, Accepting, EventOf
<1>8. Working(t)'
  <2>1. Load(t)' = p
    BY <1>1, <1>3, <1>6 DEF Load
  <2>2. Done(t)' = {}
    BY <1>3, <1>6, <2>1 DEF Done
  <2>3. WrittenSoFar(t)'
    BY <1>7, <2>2 DEF WrittenSoFar, HoldsJust
  <2>4. ~Unusable(Load(t))' /\ Statements(p) \in Suffixes(Statements(p))
    BY <1>1, <2>1, AllStatements
  <2>5. ClientIsFound(Load(t), proc[t].client)'
    BY <1>1, <1>3, <1>6, <1>7, <2>1 DEF ClientIsFound
  <2>6. Taking(t)'
    BY <1>3, <1>6, <1>7, <2>1, <2>3, <2>4, <2>5 DEF Taking
  <2>7. QED
    BY <1>3, <1>6, <2>6 DEF Working
<1>9. \A u \in Txs \ {t} : Working(u)'
  BY <1>7, QuietStep DEF Inv
<1>10. QED
  BY <1>6, <1>7, <1>8, <1>9 DEF Inv
-----------------------------------------------------------------------------
LEMMA RowsUnchanged ==
  ASSUME RowsSound, UNCHANGED dbVars, NEW t \in Txs, Alone(t)
  PROVE  RowsSound' /\ db' = db /\ \A u \in Txs \ {t} : Untouched(u)
BY DEF RowsSound, UnlockedIsCommitted, dbVars, Untouched, Alone

LEMMA ReceiveKeeps ==
  ASSUME Inv, NEW t \in Txs, NEW e \in Events, Receive(t, e)
  PROVE  Inv'
<1>1. PICK r \in ProcRecords : r = [Idle EXCEPT !.pc = "claim", !.event = e]
  BY IdleIs DEF ProcRecords
<1>2. r.pc = "claim" /\ r.event = e
  BY <1>1, IdleIs DEF ProcRecords
<1>3. proc' = [proc EXCEPT ![t] = r] /\ pending' \subseteq Events /\ faults' = faults
  BY <1>1 DEF Receive, Inv, ProcsSound
<1>4. proc'[t] = r /\ Alone(t) /\ ProcsSound'
  BY <1>2, <1>3, NewState DEF Inv, ProcsSound
<1>5. RowsSound' /\ db' = db /\ \A u \in Txs \ {t} : Untouched(u)
  BY <1>4, RowsUnchanged DEF Inv, Receive
<1>6. Working(t)'
  BY <1>2, <1>4 DEF Receive, Inv, Working, HoldsJust, dbVars
<1>7. \A u \in Txs \ {t} : Working(u)'
  BY <1>5, QuietStep DEF Inv
<1>8. QED
  BY <1>4, <1>5, <1>6, <1>7 DEF Inv

LEMMA ClaimKeeps ==
  ASSUME Inv, NEW t \in Txs, Claim(t)
  PROVE  Inv'
<1>1. PICK p \in Payloads : p = Load(t)
  BY EventsAreRows DEF Inv, Claim
<1>2. PICK x \in RowIds : x = EventOf(t) /\ x = EventRow(proc[t].event)
  BY EventsAreRows DEF Inv, Claim, EventOf
<1>3. HoldsJust(t, {}) /\ proc[t].pc = "claim" /\ CanLock(t, x) /\ proc[t].event \in Events
  BY <1>2, EventsAreRows DEF Inv, Claim, Working
<1>4. pending \cup {proc[t].event} \subseteq Events /\ faults' = faults /\ faults \in 0..MaxFaults
  BY <1>3 DEF Inv, ProcsSound, Claim
<1>5. CASE proc' = [proc EXCEPT ![t] = Idle] /\ UNCHANGED <<dbVars, pending>>
  <2>1. proc'[t].pc = "idle" /\ Alone(t) /\ ProcsSound'
    BY <1>4, <1>5, IdleIs, NewState DEF Inv, ProcsSound
  <2>2. RowsSound' /\ db' = db /\ \A u \in Txs \ {t} : Untouched(u)
    BY <1>5, <2>1, RowsUnchanged DEF Inv
  <2>3. Working(t)'
    BY <1>3, <1>5, <2>1 DEF Working, HoldsJust, dbVars
  <2>4. \A u \in Txs \ {t} : Working(u)'
    BY <2>2, QuietStep DEF Inv
  <2>5. QED
    BY <2>1, <2>2, <2>3, <2>4 DEF Inv
<1>6. CASE Abandon(t)
  BY <1>4, <1>6, AbandonKeeps DEF Abandon
<1>7. ASSUME Claimable(proc[t].event), UNCHANGED pending,
             IF LooksUp(p)
               THEN /\ Write(t, Row(EventRow(proc[t].event), "accepted"))
                    /\ proc' = [proc EXCEPT ![t].pc = "resolve"]
               ELSE IF Unusable(p)
                      THEN Ignoring(t, proc[t].event)
                      ELSE Accepting(t, proc[t].event, p.client)
      PROVE  Inv'
  <2>1. holder[x] = NoTx /\ db[x] = None
    BY <1>2, <1>3, <1>7 DEF CanLock, HoldsJust, Claimable, Inv, RowsSound, UnlockedIsCommitted
  <2>2. CASE LooksUp(p)
    <3>1. PICK r \in ProcRecords : r = [proc[t] EXCEPT !.pc = "resolve"]
      BY DEF Inv, ProcsSound, ProcRecords
    <3>2. r.pc = "resolve" /\ r.event = proc[t].event
      BY <3>1 DEF Inv, ProcsSound, ProcRecords
    <3>3. proc' = [proc EXCEPT ![t] = r]
      BY <1>7, <2>2, <3>1 DEF Inv, ProcsSound
    <3>4. proc'[t] = r /\ Alone(t) /\ ProcsSound'
      BY <1>3, <1>4, <1>7, <3>2, <3>3, NewState DEF Inv, ProcsSound
    <3>5. /\ RowsSound' /\ db' = db /\ \A u \in Txs \ {t} : Untouched(u)
          /\ Claimed(t, "accepted")' /\ HoldsJust(t, {EventOf(t)})'
      BY <1>2, <1>3, <1>7, <2>1, <2>2, <3>2, <3>4, WritesEvent DEF Inv
    <3>6. LooksUp(Load(t))'
      BY <1>1, <2>2, <3>2, <3>4 DEF Load
    <3>7. Working(t)'
      BY <3>2, <3>4, <3>5, <3>6 DEF Working
    <3>8. \A u \in Txs \ {t} : Working(u)'
      BY <3>5, QuietStep DEF Inv
    <3>9. QED
      BY <3>4, <3>5, <3>7, <3>8 DEF Inv
  <2>3. CASE ~LooksUp(p) /\ Unusable(p)
    BY <1>1, <1>2, <1>3, <1>4, <1>7, <2>1, <2>3, IgnoringKeeps DEF Ignoble
  <2>4. CASE ~LooksUp(p) /\ ~Unusable(p)
    <3>1. ClientIsFound(p, p.client)
      BY <2>4 DEF ClientIsFound, Unusable, Payloads
    <3>2. QED
      BY <1>1, <1>2, <1>3, <1>4, <1>7, <2>1, <2>4, <3>1, AcceptingKeeps
  <2>5. QED
    BY <2>2, <2>3, <2>4
<1>8. QED
  BY <1>1, <1>5, <1>6, <1>7 DEF Claim

LEMMA ResolveKeeps ==
  ASSUME Inv, NEW t \in Txs, Resolve(t)
  PROVE  Inv'
<1>1. PICK p \in Payloads : p = Load(t)
  BY EventsAreRows DEF Inv, Resolve
<1>2. Claimed(t, "accepted") /\ HoldsJust(t, {EventOf(t)}) /\ LooksUp(p) /\ proc[t].pc = "resolve"
  BY <1>1 DEF Inv, Working, Resolve
<1>3. p.sub \in Subs
  BY <1>2 DEF LooksUp, Payloads
<1>4. PICK y \in RowIds : y = SubRow(p.sub)
  BY <1>3, Names
<1>5. Sees(t, y) = db[y]
  BY <1>2, <1>4, Names DEF HoldsJust, EventOf, Sees
<1>6. db[y] = None \/ db[y].client \in Clients
  <2>1. Sound(y, db[y])
    BY DEF Inv, RowsSound
  <2>2. QED
    BY <1>3, <1>4, <2>1, KnownAreClients DEF Sound, SubRecords
<1>7. ~Unusable(p)
  BY <1>2 DEF LooksUp, Unusable, SubscriptionKinds
<1>8. db[EventOf(t)] = None /\ CanLock(t, EventOf(t)) /\ pending' \subseteq Events /\ faults' = faults
  BY <1>2 DEF Claimed, CanLock, Inv, ProcsSound, Resolve
<1>9. CASE db[y] = None
  <2>1. Ignoring(t, proc[t].event)
    BY <1>1, <1>4, <1>5, <1>9 DEF Resolve
  <2>2. QED
    BY <1>1, <1>2, <1>8, <2>1, IgnoringKeeps DEF Ignoble
<1>10. CASE db[y] # None
  <2>1. Accepting(t, proc[t].event, db[y].client)
    BY <1>1, <1>4, <1>5, <1>10 DEF Resolve
  <2>2. ClientIsFound(p, db[y].client)
    BY <1>2, <1>4, <1>6, <1>10 DEF ClientIsFound
  <2>3. QED
    BY <1>1, <1>2, <1>7, <1>8, <2>1, <2>2, AcceptingKeeps
<1>11. QED
  BY <1>9, <1>10
-----------------------------------------------------------------------------
(* A statement that locks its row has nothing of its own in it yet, and    *)
(* sees there what is committed.                                           *)
LEMMA NextRow ==
  ASSUME Inv, NEW t \in Txs, proc[t].pc = "execute", proc[t].todo # <<>>, Taking(t)
  PROVE  LET s == Statement(t)
             p == Load(t)
             c == proc[t].client
         IN /\ s \in Elements(Statements(p)) /\ s \in StatementNames
            /\ Follows(p, s, Done(t)) /\ s \notin Done(t)
            /\ Wrote(t, s) => RowOf(t, s) \in RowIds /\ holder[RowOf(t, s)] # t
                                /\ \A e : RowOf(t, s) # EventRow(e)
            /\ Wrote(t, s) <=> WritesRow(s, p, c, View(t))
            /\ Wrote(t, s) /\ CanLock(t, RowOf(t, s)) =>
                 Written(s, p, c, new) = Written(s, p, c, db)
            /\ BreaksKey(s, c, View(t)) <=>
                 s \in {"invoice", "subscription"} /\ c \notin KnownClients
<1>1. PICK p \in Payloads, c \in Clients, s \in {Statement(t)} :
          p = Load(t) /\ c = proc[t].client /\ s = Statement(t)
  BY EventsAreRows DEF Inv, Taking, ClientIsFound
<1>2. ~Unusable(p) /\ WrittenSoFar(t) /\ proc[t].todo \in Suffixes(Statements(p))
  BY <1>1 DEF Taking
<1>3. /\ s \in Elements(Statements(p)) /\ s \in StatementNames /\ Follows(p, s, Done(t))
      /\ Done(t) \subseteq Elements(Statements(p)) /\ s \notin Done(t)
  <2>1. Follows(p, s, Done(t)) /\ s \in Elements(Statements(p))
    BY <1>1, <1>2, NextStatement DEF Done, Statement
  <2>2. s \notin Done(t)
    BY <2>1 DEF Follows
  <2>3. QED
    BY <1>1, <2>1, <2>2, AllStatements DEF Done
<1>4. ClientsAre(db) /\ ClientsAre(new) /\ ClientsAre(View(t))
  BY ClientsStay DEF Inv
<1>5. RowOf(t, s) = StatementRow(s, p, c) /\ (Wrote(t, s) <=> WritesRow(s, p, c, db))
  BY <1>1 DEF RowOf, Wrote
<1>6. ASSUME RowOf(t, s) \in RowIds, \A e : RowOf(t, s) # EventRow(e) PROVE holder[RowOf(t, s)] # t
  <2>1. ASSUME NEW q \in Done(t) PROVE RowOf(t, q) # RowOf(t, s)
    BY <1>1, <1>3, <2>1, RowsDiffer DEF RowOf
  <2>2. RowOf(t, s) # EventOf(t)
    BY <1>6 DEF EventOf
  <2>3. QED
    BY <1>2, <1>6, <2>1, <2>2 DEF WrittenSoFar, HoldsJust
<1>7. ASSUME Wrote(t, s)
      PROVE  /\ RowOf(t, s) \in RowIds /\ holder[RowOf(t, s)] # t
             /\ \A e : RowOf(t, s) # EventRow(e)
  BY <1>2, <1>3, <1>4, <1>5, <1>6, <1>7, RowsAreThere
<1>8. Wrote(t, s) <=> WritesRow(s, p, c, View(t))
  <2>1. CASE s # "unpaid"
    BY <1>3, <1>4, <1>5, <2>1, WhatWrites DEF StatementNames
  <2>2. CASE s = "unpaid"
    <3>1. \A f \in {db, View(t)} : WritesRow(s, p, c, f) <=> p.sub # None /\ f[SubRow(p.sub)] # None
      BY <1>4, <2>2, WhatWrites
    <3>2. ASSUME p.sub # None PROVE View(t)[SubRow(p.sub)] = db[SubRow(p.sub)]
      <4>1. SubRow(p.sub) \in RowIds /\ \A e : SubRow(p.sub) # EventRow(e)
        BY <3>2, Names DEF Payloads
      <4>2. holder[SubRow(p.sub)] # t
        BY <1>5, <1>6, <2>2, <4>1, RowOfStatement
      <4>3. QED
        BY <4>1, <4>2 DEF View, Sees
    <3>3. QED
      BY <1>5, <3>1, <3>2
  <2>3. QED
    BY <2>1, <2>2
<1>9. ASSUME Wrote(t, s), CanLock(t, RowOf(t, s))
      PROVE  Written(s, p, c, new) = Written(s, p, c, db)
  <2>1. new[RowOf(t, s)] = db[RowOf(t, s)]
    BY <1>7, <1>9 DEF CanLock, Inv, RowsSound, UnlockedIsCommitted
  <2>2. CASE s = "unpaid"
    BY <1>5, <2>1, <2>2, RowOfStatement, WhatItWrites
  <2>3. CASE s # "unpaid"
    BY <1>3, <2>3, WhatItWrites DEF StatementNames
  <2>4. QED
    BY <2>2, <2>3
<1>10. BreaksKey(s, c, View(t)) <=> s \in {"invoice", "subscription"} /\ c \notin KnownClients
  BY <1>3, <1>4, WhatWrites
<1>11. QED
  BY <1>1, <1>3, <1>7, <1>8, <1>9, <1>10

(* What the statements write is what such rows may hold.                   *)
LEMMA WrittenIsSound ==
  ASSUME Inv, NEW t \in Txs, proc[t].pc # "idle", NEW p, p = Load(t), NEW c, c = proc[t].client,
         NEW s \in Elements(Statements(p)), Taking(t), Wrote(t, s),
         s \in {"invoice", "subscription"} => c \in KnownClients
  PROVE  Sound(RowOf(t, s), Written(s, p, c, db))
<1>1. p \in Payloads /\ s \in StatementNames /\ c \in Clients /\ ClientIsFound(p, c)
      /\ ~Unusable(p) /\ proc[t].event \in Events /\ p = Payload[proc[t].event]
  BY EventsAreRows, AllStatements DEF Inv, Taking, ClientIsFound, Load
<1>2. ClientsAre(db)
  BY ClientsStay DEF Inv
<1>3. RowOf(t, s) = StatementRow(s, p, c) /\ WritesRow(s, p, c, db)
  BY DEF RowOf, Wrote
<1>4. CASE s = "client"
  <2>1. c \in KnownClients /\ RowOf(t, s) = ClientRow(c)
    BY <1>1, <1>2, <1>3, <1>4, WhatWrites, RowOfStatement
  <2>2. Written(s, p, c, db) \in {"trial", "starter", "churned"}
    BY <1>4, WhatItWrites DEF Entitlement
  <2>3. PICK v : v = Written(s, p, c, db)
    OBVIOUS
  <2>4. Sound(ClientRow(c), v)
    BY <2>1, <2>2, <2>3, Names DEF Sound
  <2>5. QED
    BY <2>1, <2>3, <2>4
<1>5. CASE s = "invoice"
  BY <1>3, <1>5, RowOfStatement, Names DEF Sound
<1>6. CASE s = "subscription"
  <2>1. p.kind \in SubscriptionKinds /\ p.sub \in Subs
    BY <1>1, <1>6, AllStatements DEF Unusable, Payloads
  <2>2. Written(s, p, c, db) = [client |-> c, status |-> SubStatus(p)] /\ RowOf(t, s) = SubRow(p.sub)
    BY <1>3, <1>6, WhatItWrites, RowOfStatement
  <2>3. PICK w \in Statuses \cup {"payment_failed"} : w = SubStatus(p)
    BY <1>1 DEF Payloads, SubStatus
  <2>4. Owns(p.sub, c)
    BY <1>1, <2>1 DEF Owns, ClientIsFound, LooksUp, SubscriptionKinds
  <2>5. PICK v \in SubRecords : v = [client |-> c, status |-> w] /\ v.client = c
    <3>1. c \in KnownClients
      BY <1>6
    <3>2. [client |-> c, status |-> w] \in SubRecords
      BY <3>1 DEF SubRecords
    <3>3. [client |-> c, status |-> w].client = c
      OBVIOUS
    <3>4. QED
      BY <3>2, <3>3
  <2>6. Sound(SubRow(p.sub), v)
    BY <2>4, <2>5, Names DEF Sound
  <2>7. QED
    BY <2>2, <2>3, <2>5, <2>6
<1>7. CASE s = "unpaid"
  <2>1. p.sub \in Subs /\ db[SubRow(p.sub)] # None
    BY <1>1, <1>2, <1>3, <1>7, WhatWrites DEF Payloads
  <2>2. PICK r \in SubRecords : r = db[SubRow(p.sub)] /\ Owns(p.sub, r.client)
    BY <2>1, Names DEF Inv, RowsSound, Sound
  <2>3. [r EXCEPT !.status = "payment_failed"] \in SubRecords
        /\ [r EXCEPT !.status = "payment_failed"].client = r.client
    BY DEF SubRecords
  <2>4. RowOf(t, s) = SubRow(p.sub) /\ Written(s, p, c, db) = [r EXCEPT !.status = "payment_failed"]
    BY <1>3, <1>7, <2>2, RowOfStatement, WhatItWrites
  <2>5. QED
    BY <2>2, <2>3, <2>4, Names DEF Sound
<1>8. QED
  BY <1>1, <1>4, <1>5, <1>6, <1>7 DEF StatementNames
-----------------------------------------------------------------------------
LEMMA StatementKeeps ==
  ASSUME Inv, NEW t \in Txs, proc[t].pc = "execute", proc[t].todo # <<>>, Taking(t),
         NEW s, s = Statement(t), NEW p, p = Load(t), NEW c, c = proc[t].client,
         \A x \in Locks(t) : CanLock(t, x),
         ~BreaksKey(s, c, View(t)), ChecksClient(p) => Locks(t) # {},
         Write(t, [x \in Locks(t) |-> Written(s, p, c, new)]),
         proc' = [proc EXCEPT ![t].todo = Tail(@)], UNCHANGED <<pending, faults>>
  PROVE  Inv'
<1>1. /\ s \in Elements(Statements(p)) /\ s \in StatementNames
      /\ Follows(p, s, Done(t)) /\ s \notin Done(t)
      /\ Wrote(t, s) => RowOf(t, s) \in RowIds /\ holder[RowOf(t, s)] # t
                          /\ \A e : RowOf(t, s) # EventRow(e)
      /\ Wrote(t, s) <=> WritesRow(s, p, c, View(t))
      /\ Wrote(t, s) /\ CanLock(t, RowOf(t, s)) => Written(s, p, c, new) = Written(s, p, c, db)
      /\ s \in {"invoice", "subscription"} => c \in KnownClients
  BY NextRow
<1>2. /\ p \in Payloads /\ c \in Clients /\ ~Unusable(p) /\ WrittenSoFar(t)
      /\ proc[t].todo \in Suffixes(Statements(p)) /\ EventOf(t) \in RowIds
      /\ proc[t].todo \in Seq(StatementNames) /\ ClientIsFound(p, c) /\ Claimed(t, "accepted")
  BY EventsAreRows DEF Inv, Taking, ClientIsFound
<1>3. PICK r \in ProcRecords : r = [proc[t] EXCEPT !.todo = Tail(@)]
  <2>1. Tail(proc[t].todo) \in Seq(StatementNames)
    BY <1>2
  <2>2. proc[t] \in ProcRecords
    BY DEF Inv, ProcsSound
  <2>3. [proc[t] EXCEPT !.todo = Tail(@)] \in ProcRecords
    BY <2>1, <2>2 DEF ProcRecords
  <2>4. QED
    BY <2>3
<1>4. /\ r.pc = "execute" /\ r.todo = Tail(proc[t].todo)
      /\ r.event = proc[t].event /\ r.client = c
  BY <1>3 DEF Inv, ProcsSound, ProcRecords
<1>5. proc' = [proc EXCEPT ![t] = r]
  BY <1>3 DEF Inv, ProcsSound
<1>6. proc'[t] = r /\ Alone(t) /\ ProcsSound'
  BY <1>4, <1>5, EventsAreRows, NewState DEF Inv, ProcsSound
<1>7. Load(t)' = p /\ EventOf(t)' = EventOf(t) /\ \A q : RowOf(t, q)' = RowOf(t, q)
  BY <1>4, <1>6 DEF Load, EventOf, RowOf
<1>8. Tail(proc[t].todo) \in Suffixes(Statements(p)) /\ Done(t)' = Done(t) \cup {s}
  <2>1. proc'[t].todo = Tail(proc[t].todo) /\ s = Head(proc[t].todo)
    BY <1>4, <1>6 DEF Statement
  <2>2. QED
    BY <1>2, <1>7, <2>1, NextStatement DEF Done
<1>9. Locks(t) = IF Wrote(t, s) THEN {RowOf(t, s)} ELSE {}
  BY <1>1 DEF Locks, RowOf
<1>10. /\ RowsSound' /\ db' = db /\ \A u \in Txs \ {t} : Untouched(u)
       /\ Wrote(t, s) => new'[RowOf(t, s)] = Written(s, p, c, db)
       /\ \A x \in RowIds : holder'[x] = t <=> holder[x] = t \/ (Wrote(t, s) /\ x = RowOf(t, s))
       /\ \A x \in RowIds : holder[x] = t => new'[x] = new[x]
  <2>1. CASE Wrote(t, s)
    <3>1. PICK x \in RowIds : x = RowOf(t, s)
      BY <1>1, <2>1
    <3>2. Locks(t) = {x} /\ CanLock(t, x) /\ holder[x] # t
      BY <1>1, <1>9, <2>1, <3>1
    <3>3. PICK v : v = Written(s, p, c, db)
      OBVIOUS
    <3>4. Written(s, p, c, new) = v
      BY <1>1, <2>1, <3>1, <3>2, <3>3
    <3>5. Sound(x, v)
      BY <1>1, <2>1, <3>1, <3>3, WrittenIsSound
    <3>6. PICK ws : ws = [y \in {x} |-> v]
      OBVIOUS
    <3>7. Write(t, ws) /\ DOMAIN ws = {x} /\ ws[x] = v
      BY <3>2, <3>4, <3>6
    <3>8. RowsSound' /\ db' = db /\ \A u \in Txs \ {t} : Untouched(u)
      BY <1>6, <3>2, <3>5, <3>7, WriteKeeps DEF Inv
    <3>9. /\ new'[x] = v /\ holder'[x] = t
          /\ \A y \in RowIds \ {x} : new'[y] = new[y] /\ holder'[y] = holder[y]
      BY <3>7 DEF Write
    <3>10. QED
      BY <2>1, <3>1, <3>2, <3>3, <3>8, <3>9
  <2>2. CASE ~Wrote(t, s)
    <3>1. PICK ws : ws = [x \in Locks(t) |-> Written(s, p, c, new)]
      OBVIOUS
    <3>2. Write(t, ws) /\ DOMAIN ws = {}
      BY <1>9, <2>2, <3>1
    <3>3. RowsSound' /\ db' = db /\ \A u \in Txs \ {t} : Untouched(u)
      BY <1>6, <3>2, WriteKeeps DEF Inv
    <3>4. \A x \in RowIds : holder'[x] = holder[x] /\ new'[x] = new[x]
      BY <3>2 DEF Write
    <3>5. QED
      BY <2>2, <3>3, <3>4
  <2>3. QED
    BY <2>1, <2>2
<1>11. \A q : Wrote(t, q)' <=> Wrote(t, q)
  BY <1>4, <1>6, <1>7, <1>10 DEF Wrote
<1>12. WrittenSoFar(t)'
  <2>1. HoldsJust(t, {EventOf(t)} \cup {RowOf(t, q) : q \in {q \in Done(t) : Wrote(t, q)}})
    BY <1>2 DEF WrittenSoFar
  <2>2. PICK X : X = {EventOf(t)} \cup {RowOf(t, q) : q \in {q \in Done(t) : Wrote(t, q)}}
    OBVIOUS
  <2>3. PICK Y : Y = {EventOf(t)} \cup {RowOf(t, q) : q \in {q \in Done(t) \cup {s} : Wrote(t, q)}}
    OBVIOUS
  <2>4. \A x : x \in Y <=> x \in X \/ (Wrote(t, s) /\ x = RowOf(t, s))
    BY <2>2, <2>3
  <2>5. \A x \in RowIds : holder'[x] = t <=> x \in Y
    BY <1>10, <2>1, <2>2, <2>4 DEF HoldsJust
  <2>6. {EventOf(t)'} \cup {RowOf(t, q)' : q \in {q \in Done(t)' : Wrote(t, q)'}} = Y
    BY <1>7, <1>8, <1>11, <2>3
  <2>7. HoldsJust(t, {EventOf(t)} \cup {RowOf(t, q) : q \in {q \in Done(t) : Wrote(t, q)}})'
    BY <2>5, <2>6 DEF HoldsJust
  <2>8. ASSUME NEW q \in Done(t), Wrote(t, q)
        PROVE  new'[RowOf(t, q)] = Written(q, p, c, db)
    <3>1. q \in Elements(Statements(p))
      BY DEF Done
    <3>2. RowOf(t, q) \in RowIds
      BY <1>2, <2>8, <3>1, RowsAreThere, ClientsStay DEF RowOf, Wrote, Inv
    <3>3. holder[RowOf(t, q)] = t
      BY <2>1, <2>8, <3>2 DEF HoldsJust
    <3>4. QED
      BY <1>2, <1>10, <2>8, <3>2, <3>3 DEF WrittenSoFar
  <2>9. \A q \in Done(t) \cup {s} : Wrote(t, q) => new'[RowOf(t, q)] = Written(q, p, c, db)
    BY <1>10, <2>8
  <2>10. ASSUME ChecksClient(p) PROVE c \in KnownClients
    <3>1. Wrote(t, s) /\ ClientsAre(db) /\ p.kind # "failed"
      BY <1>9, <2>10, ClientsStay DEF Inv, ChecksClient
    <3>2. CASE s = "client"
      BY <1>2, <3>1, <3>2, WhatWrites DEF Wrote
    <3>3. CASE s # "client"
      BY <1>1, <3>1, <3>3 DEF Follows
    <3>4. QED
      BY <3>2, <3>3
  <2>11. \A q \in Done(t) \cup {s} :
           q \in {"invoice", "subscription"} \/ ChecksClient(p) => c \in KnownClients
    BY <1>1, <1>2, <2>10 DEF WrittenSoFar
  <2>12. QED
    BY <1>4, <1>6, <1>7, <1>8, <1>10, <1>11, <2>7, <2>9, <2>11 DEF WrittenSoFar
<1>13. Claimed(t, "accepted")'
  BY <1>2, <1>7, <1>10 DEF Claimed
<1>14. ClientIsFound(p, c)'
  BY <1>2, <1>10 DEF ClientIsFound
<1>15. Working(t)'
  BY <1>2, <1>4, <1>6, <1>7, <1>8, <1>12, <1>13, <1>14 DEF Taking, Working
<1>16. \A u \in Txs \ {t} : Working(u)'
  BY <1>10, QuietStep DEF Inv
<1>17. QED
  BY <1>6, <1>10, <1>15, <1>16 DEF Inv

LEMMA ExecuteKeeps ==
  ASSUME Inv, NEW t \in Txs, Execute(t)
  PROVE  Inv'
<1>1. PICK p, c, s : p = Load(t) /\ c = proc[t].client /\ s = Statement(t)
  OBVIOUS
<1>2. proc[t].pc = "execute" /\ proc[t].todo # <<>> /\ Taking(t)
  BY DEF Execute, Inv, Working, Dropping
<1>3. CASE BreaksKey(s, c, View(t))
  <2>1. Abandon(t) /\ faults' = faults
    BY <1>1, <1>3 DEF Execute
  <2>2. QED
    BY <1>2, <2>1, EventsAreRows, AbandonKeeps DEF Abandon, Inv, ProcsSound
<1>4. CASE ~BreaksKey(s, c, View(t)) /\ ChecksClient(p) /\ Locks(t) = {}
  <2>1. Ignoring(t, proc[t].event) /\ UNCHANGED <<pending, faults>>
    BY <1>1, <1>4 DEF Execute
  <2>2. /\ p \in Payloads /\ c \in Clients /\ WrittenSoFar(t)
        /\ Claimed(t, "accepted") /\ ClientIsFound(p, c)
    BY <1>1, <1>2, EventsAreRows DEF Inv, Taking, ClientIsFound
  <2>3. p.kind \in SubscriptionKinds
    BY <1>4 DEF ChecksClient, SubscriptionKinds
  <2>4. ~Wrote(t, s) /\ Follows(p, s, Done(t)) /\ s \in StatementNames
        /\ (s \in {"invoice", "subscription"} => c \in KnownClients)
    BY <1>1, <1>2, <1>4, NextRow DEF Locks
  <2>5. ClientsAre(db)
    BY ClientsStay DEF Inv
  <2>6. s = "client" /\ c \notin KnownClients /\ Done(t) = {}
    <3>1. s \notin {"invoice", "subscription"}
      BY <1>1, <2>2, <2>4, <2>5, WhatWrites DEF Wrote
    <3>2. s = "client" /\ Done(t) = {}
      BY <2>3, <2>4, <3>1 DEF Follows, SubscriptionKinds
    <3>3. QED
      BY <1>1, <2>2, <2>4, <2>5, <3>2, WhatWrites DEF Wrote
  <2>7. c = p.client /\ c # None
    BY <2>2, <2>3, NoneIsNone DEF ClientIsFound, LooksUp, SubscriptionKinds
  <2>8. Ignoble(Load(t))
    BY <1>1, <1>4, <2>6, <2>7 DEF Ignoble
  <2>9. HoldsJust(t, {EventOf(t)})
    BY <2>2, <2>6 DEF WrittenSoFar, HoldsJust
  <2>10. db[EventOf(t)] = None /\ CanLock(t, EventOf(t))
    BY <2>2 DEF Claimed, CanLock
  <2>11. pending' \subseteq Events /\ faults' = faults
    BY <2>1 DEF Inv, ProcsSound
  <2>12. QED
    BY <1>2, <2>1, <2>8, <2>9, <2>10, <2>11, IgnoringKeeps
<1>5. CASE ~BreaksKey(s, c, View(t)) /\ ~(ChecksClient(p) /\ Locks(t) = {})
  <2>1. /\ Write(t, [x \in Locks(t) |-> Written(s, p, c, new)])
        /\ proc' = [proc EXCEPT ![t].todo = Tail(@)] /\ UNCHANGED <<pending, faults>>
        /\ \A x \in Locks(t) : CanLock(t, x)
    BY <1>1, <1>5 DEF Execute
  <2>2. QED
    BY <1>1, <1>2, <1>5, <2>1, StatementKeeps
<1>6. QED
  BY <1>3, <1>4, <1>5
-----------------------------------------------------------------------------
(* A commit leaves what the others rely on.  The row of a subscription is  *)
(* inserted after the client's has been locked, which a failed payment of  *)
(* the same client locks, too, before it looks for the subscription.       *)
LEMMA ClientFirst ==
  ASSUME Inv, NEW u \in Txs, proc[u].pc = "execute", Taking(u),
         NEW s \in {"unpaid", "subscription"}, s \in Done(u), proc[u].client \in KnownClients
  PROVE  holder[ClientRow(proc[u].client)] = u
<1>1. PICK p \in Payloads, c \in Clients : p = Load(u) /\ c = proc[u].client
  BY EventsAreRows DEF Inv, Taking, ClientIsFound
<1>2. proc[u].todo \in Suffixes(Statements(p)) /\ WrittenSoFar(u) /\ ClientsAre(db)
  BY <1>1, ClientsStay DEF Inv, Taking
<1>3. "client" \in Done(u)
  <2>1. Statements(p) = <<"client", s>>
    <3>1. s \in Elements(Statements(p))
      BY <1>1 DEF Done
    <3>2. CASE s = "subscription"
      BY <3>1, <3>2, AllStatements, Shapes DEF SubscriptionKinds
    <3>3. CASE s = "unpaid"
      <4>1. p.kind = "failed" /\ Elements(<<"client", "invoice">>) = {"client", "invoice"}
        BY <3>1, <3>3, AllStatements, TwoStatements
      <4>2. Statements(p) # <<"client", "invoice">>
        BY <3>1, <3>3, <4>1
      <4>3. QED
        BY <3>3, <4>1, <4>2, Shapes DEF SubscriptionKinds
    <3>4. QED
      BY <3>2, <3>3
  <2>2. Suffixes(<<"client", s>>) = {<<"client", s>>, <<s>>, <<>>}
        /\ Elements(<<"client", s>>) = {"client", s}
    BY TwoStatements
  <2>3. proc[u].todo = <<>>
    <3>1. s \notin Elements(proc[u].todo)
      BY DEF Done
    <3>2. Elements(<<s>>) = {s}
      BY OneStatement
    <3>3. QED
      BY <1>2, <2>1, <2>2, <3>1, <3>2
  <2>4. QED
    BY <1>1, <2>1, <2>2, <2>3, NoStatement DEF Done
<1>4. Wrote(u, "client") /\ RowOf(u, "client") = ClientRow(c)
  BY <1>1, <1>2, WhatWrites, RowOfStatement DEF Wrote, RowOf
<1>5. QED
  BY <1>1, <1>2, <1>3, <1>4, Names DEF WrittenSoFar, HoldsJust

LEMMA HeldSub ==
  ASSUME Inv, NEW t \in Txs, proc[t].pc # "idle", NEW s \in Subs, holder[SubRow(s)] = t
  PROVE  /\ proc[t].pc = "execute" /\ Taking(t) /\ Load(t).sub = s /\ new[SubRow(s)] # None
         /\ \/ "unpaid" \in Done(t) /\ db[SubRow(s)] # None
            \/ "subscription" \in Done(t) /\ proc[t].client \in KnownClients
               /\ Load(t).client = proc[t].client
<1>1. SubRow(s) \in RowIds /\ SubRow(s) # EventOf(t)
  BY Names DEF EventOf
<1>2. proc[t].pc = "execute" /\ Taking(t)
  BY <1>1 DEF Inv, Working, HoldsJust, Dropping, ProcsSound, ProcRecords
<1>3. PICK p \in Payloads, c \in Clients : p = Load(t) /\ c = proc[t].client
  BY <1>2, EventsAreRows DEF Inv, Taking, ClientIsFound
<1>4. WrittenSoFar(t) /\ ClientsAre(db) /\ ClientIsFound(p, c)
  BY <1>2, <1>3, ClientsStay DEF Inv, Taking
<1>5. PICK q \in Done(t) : Wrote(t, q) /\ SubRow(s) = RowOf(t, q)
  BY <1>1, <1>4 DEF WrittenSoFar, HoldsJust
<1>6. q \in StatementNames /\ q \in Elements(Statements(p))
  BY <1>3, AllStatements DEF Done
<1>7. q \in {"unpaid", "subscription"} /\ p.sub = s
  BY <1>3, <1>5, <1>6, RowOfStatement, Names DEF RowOf, StatementNames
<1>8. PICK v : v = Written(q, p, c, db) /\ new[SubRow(s)] = v
  BY <1>3, <1>4, <1>5 DEF WrittenSoFar
<1>9. CASE q = "unpaid"
  <2>1. db[SubRow(s)] # None
    BY <1>3, <1>4, <1>5, <1>7, <1>9, WhatWrites DEF Wrote
  <2>2. PICK r \in SubRecords : r = db[SubRow(s)]
    BY <1>1, <2>1 DEF Inv, RowsSound, Sound
  <2>3. v = [r EXCEPT !.status = "payment_failed"]
    BY <1>7, <1>8, <1>9, <2>2, WhatItWrites
  <2>4. v \in [client : Clients, status : Statuses \cup {"payment_failed"}]
    BY <2>3, KnownAreClients DEF SubRecords
  <2>5. v # None
    BY <2>4, NoneIsNone
  <2>6. QED
    BY <1>2, <1>3, <1>5, <1>7, <1>8, <1>9, <2>1, <2>5
<1>10. CASE q = "subscription"
  <2>1. c \in KnownClients /\ p.kind \in SubscriptionKinds
    BY <1>3, <1>4, <1>5, <1>6, <1>10, AllStatements DEF WrittenSoFar
  <2>2. v = [client |-> c, status |-> SubStatus(p)]
    BY <1>8, <1>10, WhatItWrites
  <2>3. PICK w \in Statuses \cup {"payment_failed"} : w = SubStatus(p)
    BY <1>4 DEF Payloads, SubStatus
  <2>4. v \in [client : Clients, status : Statuses \cup {"payment_failed"}]
    BY <2>2, <2>3
  <2>5. v # None
    BY <2>4, NoneIsNone
  <2>6. p.client = c
    BY <1>4, <2>1 DEF ClientIsFound, LooksUp, SubscriptionKinds
  <2>7. QED
    BY <1>2, <1>3, <1>5, <1>7, <1>8, <1>10, <2>1, <2>5, <2>6
<1>11. QED
  BY <1>7, <1>9, <1>10

LEMMA CommitLeavesSubs ==
  ASSUME Inv, NEW t \in Txs, proc[t].pc # "idle", Publish(t), Alone(t), NEW u \in Txs \ {t}
  PROVE  SubsStay(u)
<1> SUFFICES ASSUME NEW s \in Subs
             PROVE  /\ db[SubRow(s)] # None =>
                         db'[SubRow(s)] # None /\ db'[SubRow(s)].client = db[SubRow(s)].client
                    /\ db[SubRow(s)] = None /\ s = Load(u).sub /\ "unpaid" \in Done(u)
                         /\ proc[u].pc = "execute" /\ Taking(u) =>
                         db'[SubRow(s)] = None
  BY DEF SubsStay
<1>1. PICK x \in RowIds : x = SubRow(s)
  BY Names
<1>2. CASE holder[x] # t
  BY <1>1, <1>2, PublishKeeps DEF Inv
<1>3. CASE holder[x] = t
  <2>1. db'[x] = new[x]
    BY <1>3, PublishKeeps DEF Inv
  <2>2. /\ proc[t].pc = "execute" /\ Taking(t) /\ Load(t).sub = s /\ new[x] # None
        /\ \/ "unpaid" \in Done(t) /\ db[x] # None
           \/ "subscription" \in Done(t) /\ proc[t].client \in KnownClients
              /\ Load(t).client = proc[t].client
    BY <1>1, <1>3, HeldSub
  <2>3. ASSUME db[x] # None PROVE db'[x].client = db[x].client
    <3>1. \A v \in {db[x], new[x]} : v \in SubRecords /\ Owns(s, v.client)
      BY <1>1, <2>2, <2>3 DEF Inv, RowsSound, Sound
    <3>2. \A v \in {db[x], new[x]} : v.client \in Clients /\ v.client # None
      BY <3>1, KnownAreClients, NoneIsNone DEF SubRecords
    <3>3. QED
      BY <2>1, <3>1, <3>2, OneOwner
  <2>4. ASSUME db[x] = None, s = Load(u).sub, "unpaid" \in Done(u),
               proc[u].pc = "execute", Taking(u)
        PROVE  FALSE
    <3>1. PICK c \in KnownClients : c = proc[t].client /\ holder[ClientRow(c)] = t /\ Owns(s, c)
      <4>1. Owns(s, Load(t).client)
        BY <2>2, EventsAreRows DEF Inv, Load, Owns
      <4>2. QED
        BY <2>2, <2>4, <4>1, ClientFirst
    <3>2. Load(u) \in Payloads /\ ClientIsFound(Load(u), proc[u].client)
      BY <2>4, EventsAreRows DEF Taking, Inv
    <3>3. proc[u].client = Load(u).client /\ proc[u].client \in Clients
      BY <1>1, <2>4, <3>2 DEF ClientIsFound
    <3>4. Owns(s, proc[u].client)
      BY <2>4, <3>3, EventsAreRows DEF Inv, Load, Owns
    <3>5. proc[u].client = c
      BY <3>1, <3>3, <3>4, OneOwner, KnownAreClients, NoneIsNone
    <3>6. holder[ClientRow(c)] = u
      BY <2>4, <3>1, <3>5, ClientFirst
    <3>7. QED
      BY <3>1, <3>6
  <2>5. QED
    BY <1>1, <2>1, <2>2, <2>3, <2>4
<1>4. QED
  BY <1>2, <1>3

LEMMA FinishKeeps ==
  ASSUME Inv, NEW t \in Txs, Finish(t)
  PROVE  Inv'
<1>1. proc'[t].pc = "idle" /\ Alone(t) /\ ProcsSound'
  BY IdleIs, NewState DEF Inv, ProcsSound, Finish
<1>2. RowsSound' /\ HoldsJust(t, {})' /\ \A u \in Txs \ {t} : Untouched(u)
  BY <1>1, PublishKeeps DEF Inv, Finish
<1>3. Working(t)'
  BY <1>1, <1>2 DEF Working
<1>4. ClientsAre(db) /\ ClientsAre(db)'
  <2>1. ClientsAre(db)
    BY ClientsStay DEF Inv
  <2>2. ASSUME NEW c \in Clients PROVE db'[ClientRow(c)] = None <=> c \notin KnownClients
    <3>1. PICK x \in RowIds : x = ClientRow(c)
      BY Names
    <3>2. db'[x] \in {db[x], new[x]}
      BY <3>1, <1>1, PublishKeeps DEF Inv, Finish
    <3>3. QED
      BY <3>1, <3>2, ClientsStay DEF Inv, ClientsAre
  <2>3. QED
    BY <2>1, <2>2 DEF ClientsAre
<1>5. ASSUME NEW u \in Txs \ {t} PROVE Working(u)'
  <2>1. SubsStay(u)
    BY <1>1, CommitLeavesSubs DEF Finish
  <2>2. QED
    BY <1>2, <1>4, <2>1, OthersStay DEF Inv
<1>6. QED
  BY <1>1, <1>2, <1>3, <1>5 DEF Inv

LEMMA CrashKeeps ==
  ASSUME Inv, NEW t \in Txs, Crash(t)
  PROVE  Inv'
<1>1. pending \cup {proc[t].event} \subseteq Events /\ faults' \in 0..MaxFaults
  BY FaultsAreBounded DEF Inv, ProcsSound, Crash
<1>2. QED
  BY <1>1, AbandonKeeps DEF Crash, Abandon

LEMMA StutterKeeps ==
  ASSUME Inv, UNCHANGED <<dbVars, proc>>, pending' \subseteq Events, faults' \in 0..MaxFaults
  PROVE  Inv'
<1>1. RowsSound' /\ db' = db /\ ProcsSound'
  BY DEF Inv, RowsSound, ProcsSound, UnlockedIsCommitted, dbVars
<1>2. \A u \in Txs : Untouched(u)
  BY DEF Untouched, dbVars
<1>3. QED
  BY <1>1, <1>2, QuietStep DEF Inv

LEMMA InitInv == Init => Inv
<1> SUFFICES ASSUME Init PROVE Inv
  OBVIOUS
<1>1. RowsSound
  <2>1. ASSUME NEW x \in RowIds PROVE Sound(x, db[x])
    <3>1. CASE x \in {ClientRow(c) : c \in KnownClients}
      BY <3>1, Names, NoneIsNone DEF Init, Sound
    <3>2. CASE x \notin {ClientRow(c) : c \in KnownClients}
      BY <3>2, Names, NoneIsNone DEF Init, Sound
    <3>3. QED
      BY <3>1, <3>2
  <2>2. QED
    BY <2>1 DEF Init, RowsSound, UnlockedIsCommitted
<1>2. ProcsSound
  BY IdleIs, FaultsAreBounded DEF Init, ProcsSound
<1>3. \A t \in Txs : Working(t)
  BY NoTxIsNoTx, IdleIs DEF Init, Working, HoldsJust
<1>4. QED
  BY <1>1, <1>2, <1>3 DEF Inv

LEMMA NextInv == Inv /\ [Next]_vars => Inv'
<1> SUFFICES ASSUME Inv, [Next]_vars PROVE Inv'
  OBVIOUS
<1>1. ASSUME NEW e \in Events, Redeliver(e) PROVE Inv'
  BY <1>1, StutterKeeps, FaultsAreBounded DEF Redeliver, Inv, ProcsSound
<1>2. CASE UNCHANGED vars
  BY <1>2, StutterKeeps DEF vars, Inv, ProcsSound
<1>3. QED
  BY <1>1, <1>2, ReceiveKeeps, ClaimKeeps, ResolveKeeps, ExecuteKeeps, FinishKeeps, CrashKeeps
     DEF Next

(* The rows, the locks and the statements executed agree at all times: who *)
(* works on an event holds what its statements have written and nothing    *)
(* else, and has written what they would write on the committed rows.      *)
THEOREM Invariance == Spec => []Inv
BY InitInv, NextInv, PTL DEF Spec

(* The rows of events and clients hold what the migrations' columns allow. *)
THEOREM TypeCorrect == Spec => []TypeOK
<1>1. Inv => TypeOK
  <2> SUFFICES ASSUME Inv PROVE TypeOK
    OBVIOUS
  <2>1. \A e \in Events : db[EventRow(e)] \in {None, "accepted", "ignored"}
    BY Names DEF Inv, RowsSound, Sound
  <2>2. \A c \in Clients : db[ClientRow(c)] \in {None, "trial", "starter", "churned"}
    BY Names DEF Inv, RowsSound, Sound
  <2>3. QED
    BY <2>1, <2>2 DEF Inv, RowsSound, ProcsSound, ProcRecords, TypeOK
<1>2. QED
  BY <1>1, Invariance, PTL
-----------------------------------------------------------------------------
(* Rows are locked in ascending order: the event, the invoice of a refund, *)
(* the client, then its subscription or any other invoice.                 *)
RefundRow(x) ==
  \E e \in Events : /\ Payload[e].kind = "refund" /\ Payload[e].invoice # None
                    /\ x = InvoiceRow(Payload[e].invoice)
Level(x) ==
  IF \E e \in Events : x = EventRow(e) THEN 0
  ELSE IF RefundRow(x) THEN 1
  ELSE IF \E c \in Clients : x = ClientRow(c) THEN 2
  ELSE 3

LEMMA Levels ==
  /\ \A x : Level(x) \in 0..3
  /\ \A e \in Events : Level(EventRow(e)) = 0
  /\ \A c \in Clients : Level(ClientRow(c)) = 2
  /\ \A s \in Subs : Level(SubRow(s)) = 3
  /\ \A e \in Events :
       LET p == Payload[e]
       IN p.invoice \in Invoices => Level(InvoiceRow(p.invoice)) = IF p.kind = "refund" THEN 1 ELSE 3
<1>1. \A x : Level(x) \in 0..3
  BY DEF Level
<1>2. /\ \A e \in Events : Level(EventRow(e)) = 0
      /\ \A c \in Clients : Level(ClientRow(c)) = 2
      /\ \A s \in Subs : Level(SubRow(s)) = 3
  BY Names DEF Level, RefundRow
<1>3. ASSUME NEW e \in Events, NEW i \in Invoices, i = Payload[e].invoice
      PROVE  Level(InvoiceRow(i)) = IF Payload[e].kind = "refund" THEN 1 ELSE 3
  <2>1. RefundRow(InvoiceRow(i)) <=> Payload[e].kind = "refund"
    BY <1>3, Names, RefundsApart, NoneIsNone DEF RefundRow
  <2>2. \A d : InvoiceRow(i) # EventRow(d) /\ InvoiceRow(i) # ClientRow(d)
    BY Names
  <2>3. QED
    BY <2>1, <2>2 DEF Level
<1>4. QED
  BY <1>1, <1>2, <1>3

LEMMA Ascending ==
  ASSUME Inv, NEW t \in Txs, NEW y \in Wants(t)
  PROVE  /\ y \in RowIds
         /\ \A x \in RowIds : holder[x] = t => Level(x) < Level(y)
<1>1. CASE proc[t].pc = "claim"
  <2>1. y = EventOf(t) /\ HoldsJust(t, {})
    BY <1>1 DEF Wants, EventOf, Inv, Working
  <2>2. QED
    BY <1>1, <2>1, EventsAreRows DEF Inv, HoldsJust
<1>2. CASE proc[t].pc # "claim"
  <2>1. y \in Locks(t)
    BY <1>2 DEF Wants
  <2>2. proc[t].pc = "execute" /\ proc[t].todo # <<>>
    BY <2>1 DEF Locks
  <2>3. Taking(t)
    BY <2>2 DEF Inv, Working, Dropping
  <2>4. PICK p \in Payloads, c \in Clients, s \in {Statement(t)} :
          p = Load(t) /\ c = proc[t].client /\ s = Statement(t)
    BY <2>2, <2>3, EventsAreRows DEF Inv, Taking, ClientIsFound
  <2>5. y = RowOf(t, s) /\ Wrote(t, s)
    BY <2>1, <2>2, <2>3, <2>4, NextRow DEF Locks, RowOf
  <2>6. /\ Follows(p, s, Done(t)) /\ y \in RowIds /\ (\A e : y # EventRow(e))
        /\ s \in Elements(Statements(p))
    BY <2>2, <2>3, <2>4, <2>5, NextRow
  <2>7. /\ WrittenSoFar(t) /\ ~Unusable(p) /\ proc[t].event \in Events
        /\ p = Payload[proc[t].event] /\ ClientsAre(db)
    BY <2>2, <2>3, <2>4, EventsAreRows, ClientsStay DEF Inv, Taking, Load
  <2>8. ASSUME NEW x \in RowIds, holder[x] = t
        PROVE  Level(x) < Level(y)
    <3>1. CASE x = EventOf(t)
      <4>1. Level(x) = 0 /\ Level(y) \in 0..3
        BY <2>7, <3>1, Levels DEF EventOf
      <4>2. Level(y) # 0
        BY <2>6 DEF Level
      <4>3. QED
        BY <4>1, <4>2
    <3>2. CASE \E q \in Done(t) : x = RowOf(t, q)
      <4>1. PICK q \in Done(t) : x = RowOf(t, q)
        BY <3>2
      <4>2. p.invoice \in Invoices => 
              Level(InvoiceRow(p.invoice)) = IF p.kind = "refund" THEN 1 ELSE 3
        BY <2>7, Levels
      <4>3. Level(ClientRow(c)) = 2
        BY Levels
      <4>4. CASE q = "client" /\ s \in {"unpaid", "subscription"}
        <5>1. p.sub \in Subs
          <6>1. CASE s = "unpaid"
            BY <2>4, <2>5, <2>7, <6>1, WhatWrites DEF Wrote, Payloads
          <6>2. CASE s = "subscription"
            BY <2>6, <2>7, <6>2, AllStatements DEF Unusable, Payloads
          <6>3. QED
            BY <4>4, <6>1, <6>2
        <5>2. y = SubRow(p.sub) /\ x = ClientRow(c)
          BY <2>4, <2>5, <4>1, <4>4, RowOfStatement DEF RowOf
        <5>3. QED
          BY <4>3, <5>1, <5>2, Levels
      <4>5. CASE q = "client" /\ s = "invoice" /\ p.kind # "refund"
        <5>1. y = InvoiceRow(p.invoice) /\ x = ClientRow(c)
          BY <2>4, <2>5, <4>1, <4>5, RowOfStatement DEF RowOf
        <5>2. p.invoice \in Invoices
          <6>1. \A d : y # EventRow(d) /\ y # ClientRow(d) /\ y # SubRow(d)
            BY <5>1, Names
          <6>2. PICK i \in Invoices : y = InvoiceRow(i)
            BY <2>6, <6>1, RowsAre DEF BillingRows
          <6>3. QED
            BY <5>1, <6>2, Names
        <5>3. QED
          BY <4>2, <4>3, <4>5, <5>1, <5>2
      <4>6. CASE q = "invoice" /\ s = "client" /\ p.kind = "refund" /\ p.invoice # None
        <5>1. y = ClientRow(c) /\ x = InvoiceRow(p.invoice) /\ p.invoice \in Invoices
          BY <2>4, <2>5, <4>1, <4>6, RowOfStatement DEF RowOf, Payloads
        <5>2. QED
          BY <4>2, <4>3, <4>6, <5>1
      <4>7. QED
        BY <2>6, <4>4, <4>5, <4>6 DEF Follows
    <3>3. QED
      BY <2>7, <2>8, <3>1, <3>2 DEF WrittenSoFar, HoldsJust
  <2>9. QED
    BY <2>6, <2>8
<1>3. QED
  BY <1>1, <1>2

(* Whatever both providers post, and however many processes serve them, no *)
(* handlers of billing_api wait for each other in a circle.                *)
THEOREM NobodyWaitsInACircle == Spec => []NoCircle
<1>1. Inv => NoCircle
  <2> SUFFICES ASSUME Inv, NEW t \in Txs, NEW T \in SUBSET Txs, t \in T,
                      \A u \in T : \E x \in Wants(u) : holder[x] \in T \ {u}
               PROVE  FALSE
    BY DEF NoCircle, Deadlocked
  <2> DEFINE Waits(n) == \E u \in T, x \in RowIds :
                           x \in Wants(u) /\ holder[x] \in T \ {u} /\ Level(x) \geq n
  <2>1. ASSUME NEW u \in T
        PROVE  \E x \in RowIds : x \in Wants(u) /\ holder[x] \in T \ {u}
    BY Ascending
  <2>2. Waits(0)
    BY <2>1, Levels
  <2>3. ASSUME NEW n \in 0..3, Waits(n) PROVE Waits(n + 1)
    <3>1. PICK u \in T, x \in RowIds :
            x \in Wants(u) /\ holder[x] \in T \ {u} /\ Level(x) \geq n
      BY <2>3
    <3>2. PICK v \in T : v = holder[x]
      BY <3>1
    <3>3. PICK y \in RowIds : y \in Wants(v) /\ holder[y] \in T \ {v}
      BY <2>1
    <3>4. Level(x) < Level(y)
      BY <3>2, <3>3, Ascending
    <3>5. Level(y) \geq n + 1
      BY <3>1, <3>4, Levels
    <3>6. QED
      BY <3>3, <3>5
  <2>4. Waits(1) /\ Waits(2) /\ Waits(3) /\ Waits(4)
    <3> HIDE DEF Waits
    <3>1. Waits(1)
      BY <2>2, <2>3
    <3>2. Waits(2)
      BY <3>1, <2>3
    <3>3. Waits(3)
      BY <3>2, <2>3
    <3>4. Waits(4)
      BY <3>3, <2>3
    <3>5. QED
      BY <3>1, <3>2, <3>3, <3>4
  <2>5. QED
    BY <2>4, Levels
<1>2. QED
  BY <1>1, Invariance, PTL
-----------------------------------------------------------------------------
(* What a commit makes of the rows: an event of Ledger, taken or dropped.  *)
LEMMA CommitTakes ==
  ASSUME Inv, NEW t \in Txs, Finish(t), Taking(t)
  PROVE  LET e == proc[t].event
             p == Load(t)
             c == proc[t].client
             All == Elements(Statements(p))
         IN /\ e \in Events /\ p = Payload[e] /\ p \in Payloads /\ c \in Clients
            /\ c = ClientOf(p, db) /\ ClientIsFound(p, c)
            /\ db[EventRow(e)] = None /\ ~Ignored(p, c, db) /\ p.kind # "other"
            /\ \A s \in All : ~BreaksKey(s, c, db)
            /\ db'[EventRow(e)] = "accepted"
            /\ \A s \in All : Wrote(t, s) =>
                 /\ RowOf(t, s) \in RowIds /\ RowOf(t, s) # EventRow(e)
                 /\ db'[RowOf(t, s)] = Written(s, p, c, db)
            /\ \A x \in RowIds : \/ x = EventRow(e)
                                 \/ \E s \in All : Wrote(t, s) /\ x = RowOf(t, s)
                                 \/ db'[x] = db[x]
<1>1. PICK e, p, c, All : /\ e = proc[t].event /\ p = Load(t) /\ c = proc[t].client
                          /\ All = Elements(Statements(p))
  OBVIOUS
<1>2. /\ proc[t].pc = "execute" /\ proc[t].todo = <<>> /\ Publish(t) /\ Alone(t)
  BY IdleIs, NewState DEF Finish, Inv
<1>3. /\ e \in Events /\ p = Payload[e] /\ p \in Payloads /\ c \in Clients
      /\ ~Unusable(p) /\ WrittenSoFar(t) /\ ClientIsFound(p, c) /\ Claimed(t, "accepted")
      /\ EventOf(t) = EventRow(e) /\ EventRow(e) \in RowIds
  BY <1>1, <1>2, EventsAreRows DEF Inv, Taking, ClientIsFound, Load, EventOf
<1>4. Done(t) = All /\ p.kind # "other" /\ All # {} /\ All \subseteq StatementNames
  BY <1>1, <1>2, <1>3, NoStatement, AllStatements DEF Done, Unusable
<1>5. ClientsAre(db)
  BY ClientsStay DEF Inv
<1>6. c = ClientOf(p, db)
  BY <1>3 DEF ClientIsFound, ClientOf
<1>7. /\ ChecksClient(p) => c \in KnownClients
      /\ \A s \in All : s \in {"invoice", "subscription"} => c \in KnownClients
  BY <1>1, <1>3, <1>4 DEF WrittenSoFar
<1>8. ~Ignored(p, c, db)
  BY <1>3, <1>5, <1>7, NoneIsNone DEF Ignored, ClientsAre
<1>9. \A s \in All : ~BreaksKey(s, c, db)
  BY <1>3, <1>4, <1>5, <1>7, WhatWrites
<1>10. db'[EventRow(e)] = "accepted"
  BY <1>2, <1>3, PublishKeeps DEF Inv, Claimed
<1>11. ASSUME NEW s \in All, Wrote(t, s)
       PROVE  /\ RowOf(t, s) \in RowIds /\ RowOf(t, s) # EventRow(e)
              /\ db'[RowOf(t, s)] = Written(s, p, c, db)
  <2>1. RowOf(t, s) \in RowIds /\ RowOf(t, s) # EventRow(e)
    BY <1>1, <1>3, <1>5, <1>11, RowsAreThere DEF RowOf, Wrote
  <2>2. holder[RowOf(t, s)] = t /\ new[RowOf(t, s)] = Written(s, p, c, db)
    BY <1>1, <1>3, <1>4, <1>11, <2>1 DEF WrittenSoFar, HoldsJust
  <2>3. QED
    BY <1>2, <2>1, <2>2, PublishKeeps DEF Inv
<1>12. ASSUME NEW x \in RowIds, x # EventRow(e), \A s \in All : Wrote(t, s) => x # RowOf(t, s)
       PROVE  db'[x] = db[x]
  <2>1. holder[x] # t
    BY <1>3, <1>4, <1>12 DEF WrittenSoFar, HoldsJust
  <2>2. QED
    BY <1>2, <2>1, PublishKeeps DEF Inv
<1>13. \A x \in RowIds : \/ x = EventRow(e)
                         \/ \E s \in All : Wrote(t, s) /\ x = RowOf(t, s)
                         \/ db'[x] = db[x]
  BY <1>12
<1>14. db[EventRow(e)] = None
  BY <1>3 DEF Claimed
<1>15. QED
  BY <1>1, <1>3, <1>4, <1>6, <1>8, <1>9, <1>10, <1>11, <1>13, <1>14, Zenon

LEMMA CommitDrops ==
  ASSUME Inv, NEW t \in Txs, Finish(t), Dropping(t)
  PROVE  LET e == proc[t].event
             p == Load(t)
         IN /\ e \in Events /\ p = Payload[e] /\ db[EventRow(e)] = None
            /\ LooksUp(p) \/ Ignored(p, p.client, db)
            /\ db' = [db EXCEPT ![EventRow(e)] = "ignored"]
<1>1. /\ proc[t].pc = "execute" /\ Publish(t) /\ Alone(t)
  BY IdleIs, NewState DEF Finish, Inv
<1>2. PICK x \in RowIds : x = EventOf(t)
  BY <1>1, EventsAreRows DEF Inv
<1>3. /\ proc[t].event \in Events /\ Load(t) = Payload[proc[t].event] /\ Load(t) \in Payloads
      /\ x = EventRow(proc[t].event)
  BY <1>1, <1>2, EventsAreRows DEF Inv, Load, EventOf
<1>4. db[x] = None /\ new[x] = "ignored" /\ HoldsJust(t, {x}) /\ Ignoble(Load(t))
  BY <1>2 DEF Dropping, Claimed
<1>5. LooksUp(Load(t)) \/ Ignored(Load(t), Load(t).client, db)
  <2>1. PICK p \in Payloads : p = Load(t)
    BY <1>3
  <2>2. ASSUME p.client # None PROVE p.client \notin KnownClients => db[ClientRow(p.client)] = None
    BY <2>2, ClientsStay DEF Inv, ClientsAre, Payloads
  <2>3. QED
    BY <1>4, <2>1, <2>2 DEF Ignoble, Ignored
<1>6. db' = [y \in RowIds |-> IF holder[y] = t THEN new[y] ELSE db[y]]
  BY <1>1 DEF Publish
<1>7. db' = [db EXCEPT ![x] = "ignored"]
  BY <1>2, <1>4, <1>6 DEF HoldsJust, Inv, RowsSound
<1>8. QED
  BY <1>3, <1>4, <1>5, <1>7

(* Only commits change committed rows.                                     *)
LEMMA OnlyCommits ==
  ASSUME Inv, [Next]_vars
  PROVE  \/ db' = db
         \/ \E t \in Txs : Finish(t) /\ (Taking(t) \/ Dropping(t))
<1>1. ASSUME NEW t \in Txs, Finish(t) PROVE Taking(t) \/ Dropping(t)
  BY <1>1 DEF Inv, Working, Finish
<1>2. ASSUME NEW t \in Txs, Claim(t) \/ Resolve(t) \/ Execute(t) \/ Crash(t)
                              \/ \E e \in Events : Receive(t, e)
      PROVE  db' = db
  BY <1>2 DEF Claim, Resolve, Execute, Crash, Receive, Abandon, Rollback, Ignoring, Accepting,
              Write, dbVars
<1>3. QED
  BY <1>1, <1>2 DEF Next, Redeliver, vars, dbVars

-----------------------------------------------------------------------------
(* Ledger has the operators of BillingOps under names of its own.          *)
LEMMA SameOperators ==
  /\ \A e : L!EventRow(e) = EventRow(e)
  /\ L!BillingRows = RowIds
  /\ \A p : /\ L!Statements(p) = Statements(p)
            /\ L!LooksUp(p) <=> LooksUp(p)
  /\ \A p, f : L!ClientOf(p, f) = ClientOf(p, f)
  /\ \A p, c, f : L!Ignored(p, c, f) <=> Ignored(p, c, f)
  /\ \A s, p, c : L!StatementRow(s, p, c) = StatementRow(s, p, c)
  /\ \A s, p, c, f : /\ L!WritesRow(s, p, c, f) <=> WritesRow(s, p, c, f)
                     /\ L!Written(s, p, c, f) = Written(s, p, c, f)
  /\ \A s, c, f : L!BreaksKey(s, c, f) <=> BreaksKey(s, c, f)
<1>1. /\ \A e : L!EventRow(e) = EventRow(e) /\ L!ClientRow(e) = ClientRow(e)
      /\ \A e : L!SubRow(e) = SubRow(e) /\ L!InvoiceRow(e) = InvoiceRow(e)
  BY DEF L!EventRow, EventRow, L!ClientRow, ClientRow, L!SubRow, SubRow, L!InvoiceRow, InvoiceRow
<1>2. L!BillingRows = RowIds
  BY <1>1, RowsAre DEF L!BillingRows, BillingRows
<1>3. \A p : L!LooksUp(p) <=> LooksUp(p)
  BY DEF L!LooksUp, LooksUp
<1>4. L!SubscriptionKinds = SubscriptionKinds
  BY DEF L!SubscriptionKinds, SubscriptionKinds
<1>5. \A p : L!Statements(p) = Statements(p)
  BY <1>4, Zenon DEF L!Statements, Statements
<1>6. \A p, f : L!ClientOf(p, f) = ClientOf(p, f)
  BY <1>1, <1>3 DEF L!ClientOf, ClientOf
<1>7. \A p, c, f : L!Ignored(p, c, f) <=> Ignored(p, c, f)
  <2>1. \A p : L!ChecksClient(p) <=> ChecksClient(p)
    BY DEF L!ChecksClient, ChecksClient
  <2>2. \A p : L!Unusable(p) <=> Unusable(p)
    BY <1>3, <1>4 DEF L!Unusable, Unusable
  <2>3. QED
    BY <1>1, <2>1, <2>2 DEF L!Ignored, Ignored
<1>8. \A s, p, c : L!StatementRow(s, p, c) = StatementRow(s, p, c)
  BY <1>1, Zenon DEF L!StatementRow, StatementRow
<1>9. \A s, p, c, f : L!WritesRow(s, p, c, f) <=> WritesRow(s, p, c, f)
  BY <1>8 DEF L!WritesRow, WritesRow
<1>10. \A s, p, c, f : L!Written(s, p, c, f) = Written(s, p, c, f)
  <2>1. \A p : L!Entitlement(p) = Entitlement(p)
    BY DEF L!Entitlement, Entitlement
  <2>2. \A p : L!InvoiceStatus(p) = InvoiceStatus(p) /\ L!SubStatus(p) = SubStatus(p)
    BY Zenon DEF L!InvoiceStatus, InvoiceStatus, L!SubStatus, SubStatus
  <2>3. QED
    BY <1>1, <2>1, <2>2, Zenon DEF L!Written, Written
<1>11. \A s, c, f : L!BreaksKey(s, c, f) <=> BreaksKey(s, c, f)
  BY <1>1 DEF L!BreaksKey, BreaksKey
<1>12. QED
  BY <1>1, <1>2, <1>3, <1>5, <1>6, <1>7, <1>8, <1>9, <1>10, <1>11

LEMMA TakesAnEvent ==
  ASSUME Inv, NEW t \in Txs, Finish(t), Taking(t)
  PROVE  \E e \in Events : L!Take(e)
<1>1. PICK e, p, c, All : /\ e = proc[t].event /\ p = Load(t) /\ c = proc[t].client
                          /\ All = Elements(Statements(p))
  OBVIOUS
<1>2. /\ e \in Events /\ p = Payload[e] /\ p \in Payloads /\ c = ClientOf(p, db)
      /\ db[EventRow(e)] = None /\ ~Ignored(p, c, db)
      /\ \A s \in All : ~BreaksKey(s, c, db)
      /\ db'[EventRow(e)] = "accepted"
      /\ \A s \in All : Wrote(t, s) =>
           /\ RowOf(t, s) \in RowIds /\ RowOf(t, s) # EventRow(e)
           /\ db'[RowOf(t, s)] = Written(s, p, c, db)
      /\ \A x \in RowIds : \/ x = EventRow(e)
                           \/ \E s \in All : Wrote(t, s) /\ x = RowOf(t, s)
                           \/ db'[x] = db[x]
  BY <1>1, CommitTakes
<1>3. \A s : (Wrote(t, s) <=> WritesRow(s, p, c, db)) /\ RowOf(t, s) = StatementRow(s, p, c)
  BY <1>1 DEF Wrote, RowOf
<1>4. DOMAIN db' = RowIds /\ db' = [x \in RowIds |-> db'[x]]
  BY DEF Finish, Publish
<1> DEFINE Whole(q, d, D) ==
      db' = [x \in L!BillingRows |->
               IF x = L!EventRow(e) THEN "accepted"
               ELSE IF \E s \in D : x = L!StatementRow(s, q, d) /\ L!WritesRow(s, q, d, db)
                 THEN LET s == CHOOSE s \in D : x = L!StatementRow(s, q, d)
                      IN L!Written(s, q, d, db)
               ELSE db[x]]
<1>5. Whole(p, c, All)
  <2>1. ASSUME NEW x \in RowIds, x # EventRow(e), NEW s \in All, 
               x = StatementRow(s, p, c), WritesRow(s, p, c, db)
        PROVE  db'[x] = L!Written(CHOOSE q \in All : x = L!StatementRow(q, p, c), p, c, db)
    <3>1. \A q \in All : x = L!StatementRow(q, p, c) <=> q = s
      BY <1>1, <1>2, <2>1, RowsDiffer, SameOperators
    <3>2. s = CHOOSE q \in All : x = L!StatementRow(q, p, c)
      BY <3>1
    <3>3. db'[x] = Written(s, p, c, db)
      BY <1>2, <1>3, <2>1
    <3>4. L!Written(s, p, c, db) = Written(s, p, c, db)
      BY SameOperators
    <3>5. QED
      BY <3>2, <3>3, <3>4
  <2>2. ASSUME NEW x \in RowIds, x # EventRow(e),
               ~ \E s \in All : x = StatementRow(s, p, c) /\ WritesRow(s, p, c, db)
        PROVE  db'[x] = db[x]
    BY <1>2, <1>3, <2>2
  <2>3. ASSUME NEW x \in RowIds
        PROVE  db'[x] = IF x = L!EventRow(e) THEN "accepted"
               ELSE IF \E s \in All : x = L!StatementRow(s, p, c) /\ L!WritesRow(s, p, c, db)
                 THEN L!Written(CHOOSE s \in All : x = L!StatementRow(s, p, c), p, c, db)
               ELSE db[x]
    <3>1. L!EventRow(e) = EventRow(e)
      BY SameOperators
    <3>2. \A s \in All : x = L!StatementRow(s, p, c) /\ L!WritesRow(s, p, c, db)
                         <=> x = StatementRow(s, p, c) /\ WritesRow(s, p, c, db)
      BY SameOperators
    <3>3. QED
      BY <1>2, <2>1, <2>2, <3>1, <3>2, Zenon
  <2>4. L!BillingRows = RowIds
    BY SameOperators
  <2>5. QED
    BY <1>4, <2>3, <2>4, Zenon
<1>6. L!Take(e)
  <2>1. {L!Statements(p)[i] : i \in DOMAIN L!Statements(p)} = All
    BY <1>1, SameOperators DEF Elements
  <2>2. L!ClientOf(p, db) = c /\ ~L!Ignored(p, c, db) /\ db[L!EventRow(e)] = None
    BY <1>2, SameOperators
  <2>3. \A s \in All : ~L!BreaksKey(s, c, db)
    BY <1>2, SameOperators
  <2> DEFINE q == Payload[e]
             d == L!ClientOf(q, db)
             D == {L!Statements(q)[i] : i \in DOMAIN L!Statements(q)}
  <2>4. p = q /\ c = d /\ All = D
    BY <1>2, <2>1, <2>2
  <2>5. Whole(q, d, D)
    <3> HIDE DEF Whole, q, d, D
    <3>1. QED
      BY <1>5, <2>4
  <2>6. db[L!EventRow(e)] = None /\ ~L!Ignored(q, d, db) /\ \A s \in D : ~L!BreaksKey(s, d, db)
    <3> HIDE DEF q, d, D
    <3>1. QED
      BY <2>2, <2>3, <2>4
  <2>7. QED
    BY <2>5, <2>6, Zenon DEF L!Take
<1>7. QED
  BY <1>2, <1>6

(* Whatever is redelivered, overlaps or fails half way, the billing rows   *)
(* change as if the events were taken one at a time, each once and whole:  *)
(* every commit of process_webhook.py is one event of Ledger.              *)
THEOREM BillingImplementsLedger == Spec => LedgerSpec
<1>1. Init => L!Init
  <2>1. \A c : L!ClientRow(c) = ClientRow(c)
    BY DEF L!ClientRow, ClientRow
  <2>2. {L!ClientRow(c) : c \in KnownClients} = {ClientRow(c) : c \in KnownClients}
    BY <2>1
  <2>3. QED
    BY <2>2, SameOperators DEF Init, L!Init
<1>2. Inv /\ [Next]_vars => [L!Next]_db
  <2> SUFFICES ASSUME Inv, [Next]_vars, db' # db PROVE L!Next
    OBVIOUS
  <2>1. PICK t \in Txs : Finish(t) /\ (Taking(t) \/ Dropping(t))
    BY OnlyCommits
  <2>2. CASE Taking(t)
    BY <2>1, <2>2, TakesAnEvent DEF L!Next
  <2>3. CASE Dropping(t)
    BY <2>1, <2>3, CommitDrops, SameOperators DEF L!Next, L!Drop
  <2>4. QED
    BY <2>1, <2>2, <2>3
<1>3. QED
  BY <1>1, <1>2, Invariance, PTL DEF Spec, LedgerSpec, L!Spec
-----------------------------------------------------------------------------
(* Subscriptions keep their clients, so the events that were taken stay    *)
(* the events about their client.                                          *)
LEMMA SubsKeepClients ==
  ASSUME RowsSound, RowsSound', NEW s \in Subs, db[SubRow(s)] # None, db'[SubRow(s)] # None
  PROVE  db'[SubRow(s)].client = db[SubRow(s)].client
<1>1. SubRow(s) \in RowIds
  BY Names
<1>2. Sound(SubRow(s), db[SubRow(s)]) /\ Sound(SubRow(s), db'[SubRow(s)])
  BY <1>1 DEF RowsSound, Sound
<1>3. /\ Owns(s, db[SubRow(s)].client) /\ Owns(s, db'[SubRow(s)].client)
      /\ db[SubRow(s)].client \in Clients /\ db'[SubRow(s)].client \in Clients
  BY <1>2, KnownAreClients DEF Sound, SubRecords
<1>4. QED
  BY <1>3, NoneIsNone, OneOwner

LEMMA ClientOfKept ==
  ASSUME RowsSound, RowsSound', NEW p \in Payloads, NEW c \in Clients, ClientOf(p, db) = c,
         \A s \in Subs : db[SubRow(s)] # None => db'[SubRow(s)] # None
  PROVE  ClientOf(p, db') = c
<1>1. CASE LooksUp(p) /\ db[SubRow(p.sub)] # None
  <2>1. p.sub \in Subs
    BY <1>1 DEF LooksUp, Payloads
  <2>2. db'[SubRow(p.sub)] # None /\ db'[SubRow(p.sub)].client = db[SubRow(p.sub)].client
    BY <1>1, <2>1, SubsKeepClients
  <2>3. QED
    BY <1>1, <2>2 DEF ClientOf
<1>2. CASE LooksUp(p) /\ db[SubRow(p.sub)] = None
  BY <1>2, NoneIsNone DEF ClientOf, LooksUp
<1>3. CASE ~LooksUp(p)
  BY <1>3 DEF ClientOf
<1>4. QED
  BY <1>1, <1>2, <1>3

(* What an event writes of a subscription is never None, and it undoes     *)
(* nothing that was taken.                                                 *)
LEMMA SubsAreWritten ==
  ASSUME Inv, NEW t \in Txs, Finish(t), Taking(t), NEW k \in Subs,
         NEW q \in Elements(Statements(Load(t))), Wrote(t, q), SubRow(k) = RowOf(t, q)
  PROVE  db'[SubRow(k)] # None
<1>1. PICK e, p, d : e = proc[t].event /\ p = Load(t) /\ d = proc[t].client
  OBVIOUS
<1>2. /\ e \in Events /\ p \in Payloads /\ d \in Clients /\ ~Ignored(p, d, db)
      /\ db'[RowOf(t, q)] = Written(q, p, d, db)
  BY <1>1, CommitTakes
<1>3. ClientsAre(db) /\ q \in StatementNames
  BY <1>1, <1>2, ClientsStay, AllStatements DEF Inv
<1>4. q \in {"subscription", "unpaid"} /\ p.sub = k
  <2>1. SubRow(k) = StatementRow(q, p, d)
    BY <1>1 DEF RowOf
  <2>2. StatementRow("client", p, d) = ClientRow(d) /\ StatementRow("invoice", p, d) = InvoiceRow(p.invoice)
        /\ StatementRow("subscription", p, d) = SubRow(p.sub)
        /\ StatementRow("unpaid", p, d) = SubRow(p.sub)
    BY RowOfStatement
  <2>3. QED
    BY <1>3, <2>1, <2>2, Names DEF StatementNames
<1>5. PICK v \in [client : Clients, status : Statuses \cup {"payment_failed"}] :
        db'[SubRow(k)] = v
  <2>1. CASE q = "subscription"
    <3>1. SubStatus(p) \in Statuses
      BY <1>2 DEF Payloads, SubStatus
    <3>2. db'[SubRow(k)] = [client |-> d, status |-> SubStatus(p)]
      BY <1>2, <2>1, WhatItWrites
    <3>3. QED
      BY <1>2, <3>1, <3>2
  <2>2. CASE q = "unpaid"
    <3>1. db[SubRow(k)] # None
      BY <1>1, <1>2, <1>3, <1>4, <2>2, WhatWrites DEF Wrote
    <3>2. db[SubRow(k)] \in SubRecords
      BY <3>1, Names DEF Inv, RowsSound, Sound
    <3>3. db'[SubRow(k)] = [db[SubRow(k)] EXCEPT !.status = "payment_failed"]
      BY <1>2, <1>4, <2>2, WhatItWrites
    <3>4. QED
      BY <3>2, <3>3, KnownAreClients DEF SubRecords
  <2>3. QED
    BY <1>4, <2>1, <2>2
<1>6. QED
  BY <1>5, NoneIsNone

LEMMA TakenStay ==
  ASSUME Inv, NEW t \in Txs, Finish(t), Taking(t)
  PROVE  /\ \A e \in Events : db[EventRow(e)] = "accepted" => db'[EventRow(e)] = "accepted"
         /\ \A k \in Subs : db[SubRow(k)] # None => db'[SubRow(k)] # None
<1>1. PICK e, p, d, All : /\ e = proc[t].event /\ p = Load(t) /\ d = proc[t].client
                          /\ All = Elements(Statements(p))
  OBVIOUS
<1>2. /\ e \in Events /\ p \in Payloads /\ db'[EventRow(e)] = "accepted"
      /\ \A x \in RowIds : \/ x = EventRow(e)
                           \/ \E q \in All : Wrote(t, q) /\ x = RowOf(t, q)
                           \/ db'[x] = db[x]
  BY <1>1, CommitTakes
<1>3. ASSUME NEW i \in Events, db[EventRow(i)] = "accepted" PROVE db'[EventRow(i)] = "accepted"
  <2>1. \A q \in All : RowOf(t, q) # EventRow(i)
    <3>1. \A q \in All : q \in StatementNames /\ RowOf(t, q) = StatementRow(q, p, d)
      BY <1>1, <1>2, AllStatements DEF RowOf
    <3>2. StatementRow("client", p, d) = ClientRow(d) /\ StatementRow("invoice", p, d) = InvoiceRow(p.invoice)
          /\ StatementRow("subscription", p, d) = SubRow(p.sub)
          /\ StatementRow("unpaid", p, d) = SubRow(p.sub)
      BY RowOfStatement
    <3>3. QED
      BY <3>1, <3>2, Names DEF StatementNames
  <2>2. EventRow(i) \in RowIds
    BY Names
  <2>3. QED
    BY <1>2, <1>3, <2>1, <2>2
<1>4. ASSUME NEW k \in Subs, db[SubRow(k)] # None PROVE db'[SubRow(k)] # None
  <2>1. SubRow(k) \in RowIds /\ SubRow(k) # EventRow(e)
    BY Names
  <2>2. CASE db'[SubRow(k)] = db[SubRow(k)]
    BY <1>4, <2>2
  <2>3. CASE \E q \in All : Wrote(t, q) /\ SubRow(k) = RowOf(t, q)
    BY <1>1, <2>3, SubsAreWritten
  <2>4. QED
    BY <1>2, <2>1, <2>2, <2>3
<1>5. QED
  BY <1>3, <1>4

(* What one event is to a subscription s of the client c: it sets both, or *)
(* the entitlement only and is not one of s, or neither.                   *)
LEMMA WhatAnEventSets ==
  ASSUME Inv, Inv', NEW t \in Txs, Finish(t), Taking(t),
         NEW c \in KnownClients, NEW s \in Subs,
         db'[SubRow(s)] # None, db'[SubRow(s)].client = c
  PROVE  LET e == proc[t].event
             p == Payload[e]
             mine == e \in Taken(c)' /\ db'[ClientRow(c)] = Entitlement(p)
         IN \/ mine /\ Sets(p, s) /\ db'[SubRow(s)].status = StatusSet(p)
            \/ db'[SubRow(s)] = db[SubRow(s)] /\ mine /\ ~Sets(p, s)
            \/ db'[SubRow(s)] = db[SubRow(s)] /\ db'[ClientRow(c)] = db[ClientRow(c)]
<1>1. PICK e, p, d, All : /\ e = proc[t].event /\ p = Payload[e] /\ d = proc[t].client
                          /\ All = Elements(Statements(p))
  OBVIOUS
<1>2. /\ e \in Events /\ p = Load(t) /\ p \in Payloads /\ d \in Clients
      /\ d = ClientOf(p, db) /\ ClientIsFound(p, d)
      /\ p.kind # "other" /\ ~Ignored(p, d, db)
      /\ db'[EventRow(e)] = "accepted"
      /\ \A q \in All : Wrote(t, q) =>
           /\ RowOf(t, q) \in RowIds
           /\ db'[RowOf(t, q)] = Written(q, p, d, db)
      /\ \A x \in RowIds : \/ x = EventRow(e)
                           \/ \E q \in All : Wrote(t, q) /\ x = RowOf(t, q)
                           \/ db'[x] = db[x]
  BY <1>1, CommitTakes
<1>3. RowsSound /\ RowsSound' /\ ClientsAre(db) /\ ~Unusable(p)
  BY <1>2, ClientsStay DEF Inv, Ignored
<1>4. /\ All \subseteq StatementNames
      /\ \A q : RowOf(t, q) = StatementRow(q, p, d) /\ (Wrote(t, q) <=> WritesRow(q, p, d, db))
  BY <1>1, <1>2, AllStatements DEF RowOf, Wrote
<1>5. c \in Clients /\ c # None /\ d # None
  BY <1>2, KnownAreClients, NoneIsNone
<1>6. \A k \in Subs : db[SubRow(k)] # None => db'[SubRow(k)] # None
  BY TakenStay
<1>7. c = d => e \in Taken(c)' \/ p.kind = "paid"
  <2>1. c = d => ClientOf(p, db') = c
    BY <1>2, <1>3, <1>6, ClientOfKept
  <2>2. QED
    BY <1>1, <1>2, <2>1 DEF Taken
<1>8. "client" \in All /\ c = d => db'[ClientRow(c)] = Entitlement(p)
  <2>1. c = d => WritesRow("client", p, d, db) /\ RowOf(t, "client") = ClientRow(c)
    BY <1>2, <1>3, <1>4, WhatWrites, RowOfStatement
  <2>2. QED
    BY <1>2, <1>4, <2>1, WhatItWrites
<1>9. p.kind \in {"failed", "refund"} \cup SubscriptionKinds => "client" \in All
  BY <1>1, <1>2, AllStatements
<1>10. SubRow(s) \in RowIds /\ ClientRow(c) \in RowIds
       /\ SubRow(s) # EventRow(e) /\ ClientRow(c) # EventRow(e)
  BY <1>5, Names
<1>11. CASE \E q \in All : Wrote(t, q) /\ SubRow(s) = RowOf(t, q)
  <2>1. PICK q \in All : Wrote(t, q) /\ SubRow(s) = RowOf(t, q)
    BY <1>11
  <2>2. q \in {"subscription", "unpaid"} /\ p.sub = s
    <3>1. /\ q \in StatementNames
          /\ SubRow(s) = StatementRow(q, p, d)
      BY <1>4, <2>1
    <3>2. StatementRow("client", p, d) = ClientRow(d) /\ StatementRow("invoice", p, d) = InvoiceRow(p.invoice)
          /\ StatementRow("subscription", p, d) = SubRow(p.sub)
          /\ StatementRow("unpaid", p, d) = SubRow(p.sub)
      BY RowOfStatement
    <3>3. QED
      BY <3>1, <3>2, Names DEF StatementNames
  <2>3. /\ q = "subscription" => p.kind \in SubscriptionKinds
        /\ q = "unpaid" => p.kind = "failed" /\ p.provider = "razorpay"
    BY <1>1, <1>2, <2>1, AllStatements
  <2>4. Sets(p, s) /\ p.kind \in {"failed", "refund"} \cup SubscriptionKinds /\ p.kind # "paid"
    BY <2>2, <2>3 DEF Sets, SubscriptionKinds
  <2>5. db'[SubRow(s)] = Written(q, p, d, db)
    BY <1>2, <2>1
  <2>6. c = d /\ db'[SubRow(s)].status = StatusSet(p)
    <3>1. CASE q = "subscription"
      <4>1. db'[SubRow(s)] = [client |-> d, status |-> SubStatus(p)] /\ p.kind # "failed"
        BY <2>3, <2>5, <3>1, WhatItWrites DEF SubscriptionKinds
      <4>2. QED
        BY <4>1 DEF StatusSet
    <3>2. CASE q = "unpaid"
      <4>1. db[SubRow(s)] # None /\ db'[SubRow(s)] = [db[SubRow(s)] EXCEPT !.status = "payment_failed"]
        BY <1>2, <1>3, <1>4, <2>1, <2>2, <2>5, <3>2, WhatItWrites, WhatWrites
      <4>2. db[SubRow(s)] \in SubRecords /\ Owns(s, db[SubRow(s)].client)
        BY <1>3, <1>10, <4>1 DEF RowsSound, Sound
      <4>3. db'[SubRow(s)].status = "payment_failed" /\ db[SubRow(s)].client = c
        BY <4>1, <4>2 DEF SubRecords
      <4>4. d = c
        <5>1. CASE LooksUp(p)
          BY <1>2, <2>2, <4>3, <5>1 DEF ClientIsFound
        <5>2. CASE ~LooksUp(p)
          <6>1. Owns(s, d)
            BY <1>1, <1>2, <2>2, <5>2 DEF ClientIsFound, Owns
          <6>2. QED
            BY <1>5, <4>2, <4>3, <6>1, OneOwner
        <5>3. QED
          BY <5>1, <5>2
      <4>5. QED
        BY <2>3, <3>2, <4>3, <4>4 DEF StatusSet
    <3>3. QED
      BY <2>2, <3>1, <3>2
  <2>7. QED
    BY <1>1, <1>7, <1>8, <1>9, <2>4, <2>6
<1>12. CASE ~ \E q \in All : Wrote(t, q) /\ SubRow(s) = RowOf(t, q)
  <2>1. db'[SubRow(s)] = db[SubRow(s)]
    BY <1>2, <1>10, <1>12
  <2>2. CASE db'[ClientRow(c)] = db[ClientRow(c)]
    BY <1>1, <2>1, <2>2
  <2>3. CASE db'[ClientRow(c)] # db[ClientRow(c)]
    <3>1. PICK q \in All : Wrote(t, q) /\ ClientRow(c) = RowOf(t, q)
      BY <1>2, <1>10, <2>3
    <3>2. q = "client" /\ c = d
      <4>1. q \in StatementNames /\ ClientRow(c) = StatementRow(q, p, d)
        BY <1>4, <3>1
      <4>2. StatementRow("client", p, d) = ClientRow(d) /\ StatementRow("invoice", p, d) = InvoiceRow(p.invoice)
            /\ StatementRow("subscription", p, d) = SubRow(p.sub)
            /\ StatementRow("unpaid", p, d) = SubRow(p.sub)
        BY RowOfStatement
      <4>3. QED
        BY <4>1, <4>2, Names DEF StatementNames
    <3>3. p.kind # "paid" /\ db'[ClientRow(c)] = Entitlement(p)
      <4>1. p.kind = "paid" => All = {"invoice"}
        BY <1>1, <1>2, AllStatements
      <4>2. QED
        BY <1>8, <3>1, <3>2, <4>1
    <3>4. ~Sets(p, s)
      <4> SUFFICES ASSUME Sets(p, s) PROVE FALSE
        OBVIOUS
      <4>1. p.sub = s /\ p.sub # None
        BY NoneIsNone DEF Sets
      <4>2. RowOf(t, "subscription") = SubRow(s) /\ RowOf(t, "unpaid") = SubRow(s)
        BY <1>4, <4>1, RowOfStatement
      <4>3. CASE p.kind \in SubscriptionKinds
        <5>1. "subscription" \in All /\ WritesRow("subscription", p, d, db)
          BY <1>1, <1>2, <1>3, <4>3, AllStatements, WhatWrites
        <5>2. QED
          BY <1>4, <1>12, <4>2, <5>1
      <4>4. CASE p.kind = "failed" /\ p.provider = "razorpay"
        <5>1. "unpaid" \in All
          BY <1>1, <1>2, <4>4, AllStatements
        <5>2. db[SubRow(p.sub)] # None
          BY <2>1, <4>1
        <5>3. WritesRow("unpaid", p, d, db)
          BY <1>2, <1>3, <4>1, <5>2, WhatWrites
        <5>4. QED
          BY <1>4, <1>12, <4>2, <5>1, <5>3
      <4>5. QED
        BY <4>3, <4>4 DEF Sets
    <3>5. QED
      BY <1>1, <1>7, <2>1, <3>2, <3>3, <3>4
  <2>4. QED
    BY <2>2, <2>3
<1>13. QED
  BY <1>11, <1>12

(* However the events of both providers overlap, fail half way or come     *)
(* twice, the status of a subscription and the entitlement of its client   *)
(* come of the same event of process_webhook.py, or the entitlement of one *)
(* that does not set this subscription.                                    *)
THEOREM BothOfOneEvent == Spec => []OneEventSetsBoth
<1>1. Init => OneEventSetsBoth
  <2>1. Init => \A s \in Subs : db[SubRow(s)] = None
    BY Names DEF Init
  <2>2. QED
    BY <2>1 DEF OneEventSetsBoth
<1>2. Inv /\ Inv' /\ OneEventSetsBoth /\ [Next]_vars => OneEventSetsBoth'
  <2> SUFFICES ASSUME Inv, Inv', OneEventSetsBoth, [Next]_vars,
                      NEW c \in KnownClients, NEW s \in Subs,
                      db'[SubRow(s)] # None, db'[SubRow(s)].client = c
               PROVE  \E e \in Taken(c)' :
                        /\ Sets(Payload[e], s) /\ StatusSet(Payload[e]) = db'[SubRow(s)].status
                        /\ \E f \in {e} \cup {g \in Taken(c)' : ~Sets(Payload[g], s)} :
                             db'[ClientRow(c)] = Entitlement(Payload[f])
    BY DEF OneEventSetsBoth
  <2>1. c \in Clients /\ RowsSound /\ RowsSound'
    BY KnownAreClients DEF Inv
  <2> DEFINE Old ==
        \E e \in Taken(c) :
          /\ Sets(Payload[e], s) /\ StatusSet(Payload[e]) = db[SubRow(s)].status
          /\ \E f \in {e} \cup {g \in Taken(c) : ~Sets(Payload[g], s)} :
               db[ClientRow(c)] = Entitlement(Payload[f])
  <2>2. db'[SubRow(s)] = db[SubRow(s)] => Old
    BY DEF OneEventSetsBoth
  <2>3. ASSUME db'[SubRow(s)] = db[SubRow(s)], db'[ClientRow(c)] = db[ClientRow(c)],
               Taken(c) \subseteq Taken(c)'
        PROVE  \E e \in Taken(c)' :
                 /\ Sets(Payload[e], s) /\ StatusSet(Payload[e]) = db'[SubRow(s)].status
                 /\ \E f \in {e} \cup {g \in Taken(c)' : ~Sets(Payload[g], s)} :
                      db'[ClientRow(c)] = Entitlement(Payload[f])
    BY <2>2, <2>3
  <2>4. CASE db' = db
    BY <2>3, <2>4 DEF Taken
  <2>5. ASSUME \A e \in Events : db[EventRow(e)] = "accepted" => db'[EventRow(e)] = "accepted",
               \A k \in Subs : db[SubRow(k)] # None => db'[SubRow(k)] # None
        PROVE  Taken(c) \subseteq Taken(c)'
    <3>1. \A e \in Events : ClientOf(Payload[e], db) = c => ClientOf(Payload[e], db') = c
      BY <2>1, <2>5, Loads, ClientOfKept
    <3>2. QED
      BY <2>5, <3>1 DEF Taken
  <2>6. ASSUME NEW t \in Txs, Finish(t), Taking(t)
        PROVE  \E e \in Taken(c)' :
                 /\ Sets(Payload[e], s) /\ StatusSet(Payload[e]) = db'[SubRow(s)].status
                 /\ \E f \in {e} \cup {g \in Taken(c)' : ~Sets(Payload[g], s)} :
                      db'[ClientRow(c)] = Entitlement(Payload[f])
    <3>1. Taken(c) \subseteq Taken(c)'
      BY <2>5, <2>6, TakenStay
    <3>2. PICK e : e = proc[t].event
      OBVIOUS
    <3> DEFINE mine == e \in Taken(c)' /\ db'[ClientRow(c)] = Entitlement(Payload[e])
    <3>3. \/ mine /\ Sets(Payload[e], s) /\ db'[SubRow(s)].status = StatusSet(Payload[e])
          \/ db'[SubRow(s)] = db[SubRow(s)] /\ mine /\ ~Sets(Payload[e], s)
          \/ db'[SubRow(s)] = db[SubRow(s)] /\ db'[ClientRow(c)] = db[ClientRow(c)]
      BY <2>6, <3>2, WhatAnEventSets
    <3>4. CASE mine /\ Sets(Payload[e], s) /\ db'[SubRow(s)].status = StatusSet(Payload[e])
      BY <3>4
    <3>5. CASE db'[SubRow(s)] = db[SubRow(s)] /\ mine /\ ~Sets(Payload[e], s)
      <4>1. PICK k \in Taken(c) :
              Sets(Payload[k], s) /\ StatusSet(Payload[k]) = db[SubRow(s)].status
        BY <2>2, <3>5
      <4>2. k \in Taken(c)' /\ e \in {g \in Taken(c)' : ~Sets(Payload[g], s)}
        BY <3>1, <3>5, <4>1
      <4>3. QED
        BY <3>5, <4>1, <4>2
    <3>6. CASE db'[SubRow(s)] = db[SubRow(s)] /\ db'[ClientRow(c)] = db[ClientRow(c)]
      BY <2>3, <3>1, <3>6
    <3>7. QED
      BY <3>3, <3>4, <3>5, <3>6
  <2>7. ASSUME NEW t \in Txs, Finish(t), Dropping(t)
        PROVE  \E e \in Taken(c)' :
                 /\ Sets(Payload[e], s) /\ StatusSet(Payload[e]) = db'[SubRow(s)].status
                 /\ \E f \in {e} \cup {g \in Taken(c)' : ~Sets(Payload[g], s)} :
                      db'[ClientRow(c)] = Entitlement(Payload[f])
    <3>1. PICK e \in Events : /\ db' = [db EXCEPT ![EventRow(e)] = "ignored"]
                              /\ db[EventRow(e)] = None
      BY <2>7, CommitDrops
    <3>2. \A x : x # EventRow(e) => db'[x] = db[x]
      BY <3>1 DEF Inv, RowsSound
    <3>3. db'[ClientRow(c)] = db[ClientRow(c)] /\ \A k : db'[SubRow(k)] = db[SubRow(k)]
      BY <3>2, Names
    <3>4. \A k \in Events : db[EventRow(k)] = "accepted" => db'[EventRow(k)] = "accepted"
      BY <3>1, <3>2, NoneIsNone, Names
    <3>5. Taken(c) \subseteq Taken(c)'
      BY <2>5, <3>3, <3>4
    <3>6. QED
      BY <2>3, <3>3, <3>5
  <2>8. QED
    BY <2>4, <2>6, <2>7, OnlyCommits
<1>3. QED
  BY <1>1, <1>2, Invariance, PTL DEF Spec
=============================================================================
