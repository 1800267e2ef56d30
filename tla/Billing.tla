------------------------------ MODULE Billing -------------------------------
(***************************************************************************)
(* The webhooks of backend/apps/billing_api: main.py opens a transaction,  *)
(* process_webhook.py claims the event's id, executes its statements and   *)
(* commits; anything that is raised rolls everything back and is answered  *)
(* 500, after which the provider posts the event again.                    *)
(*                                                                         *)
(* A handler does not await between its statements, so a process serves    *)
(* one request at a time; several processes may serve at once.             *)
(***************************************************************************)
EXTENDS BillingOps, Naturals, Sequences, ReadCommitted

CONSTANTS
  KnownClients,     \* the rows of api_clients
  Helpers,          \* "clobbered" is the code: the second definition of
                    \* _rz_subscription_entity (line 520) is the body of
                    \* _paddle_custom_data, which no longer exists; "intact":
                    \* each function has its own name
  MaxFaults         \* bound: crashes and redeliveries in one behaviour

ASSUME HelpersIs == Helpers \in {"clobbered", "intact"}
ASSUME RowsAre == RowIds = BillingRows
ASSUME KnownAreClients == KnownClients \subseteq Clients
ASSUME FaultsAreBounded == MaxFaults \in Nat

VARIABLES
  pending,          \* events posted and not yet answered with a 200
  proc,             \* the local state of every process
  faults            \* faults the environment may still inject

vars == <<dbVars, pending, proc, faults>>

(* What a process remembers: the event, its client, the statements left.   *)
Idle == [pc |-> "idle", event |-> None, client |-> None, todo |-> <<>>]

Load(t) == Payload[proc[t].event]

TypeOK ==
  /\ \A x \in RowIds : holder[x] \in Txs \cup {NoTx}
  /\ \A e \in Events : db[EventRow(e)] \in {None, "accepted", "ignored"}
  /\ \A c \in Clients : db[ClientRow(c)] \in {None, "trial", "starter", "churned"}
  /\ pending \subseteq Events
  /\ \A t \in Txs : proc[t].pc \in {"idle", "claim", "resolve", "execute"}
  /\ faults \in 0..MaxFaults

Init ==
  /\ db = [x \in RowIds |->
             IF x \in {ClientRow(c) : c \in KnownClients} THEN "trial" ELSE None]
  /\ new = db
  /\ holder = [x \in RowIds |-> NoTx]
  /\ pending = Events
  /\ proc = [t \in Txs |-> Idle]
  /\ faults = MaxFaults

-----------------------------------------------------------------------------
Receive(t, e) ==
  /\ proc[t].pc = "idle" /\ e \in pending
  /\ pending' = pending \ {e}
  /\ proc' = [proc EXCEPT ![t] = [Idle EXCEPT !.pc = "claim", !.event = e]]
  /\ UNCHANGED <<dbVars, faults>>

(* Rolled back and answered 500, or never answered.                        *)
AbandonCommits(t) ==
  /\ Publish(t)
  /\ pending' = pending \cup {proc[t].event}
  /\ proc' = [proc EXCEPT ![t] = Idle]
AbandonAnswered(t) ==
  /\ Rollback(t)
  /\ proc' = [proc EXCEPT ![t] = Idle]
  /\ UNCHANGED pending
Abandon(t) ==
  /\ Rollback(t)
  /\ pending' = pending \cup {proc[t].event}
  /\ proc' = [proc EXCEPT ![t] = Idle]

(* NameError: what is left of the helpers reads a name that is not bound.  *)
Raises(p) ==
  /\ Helpers = "clobbered"
  /\ p.provider = "paddle" \/ p.kind \in SubscriptionKinds \cup {"other"}

Ignoring(t, e) ==
  /\ Write(t, Row(EventRow(e), "ignored"))
  /\ proc' = [proc EXCEPT ![t].pc = "execute", ![t].todo = <<>>]

Accepting(t, e, c) ==
  /\ Write(t, Row(EventRow(e), "accepted"))
  /\ proc' = [proc EXCEPT ![t].pc = "execute", ![t].client = c,
                          ![t].todo = Statements(Load(t))]

(* claim_bill_event: ON CONFLICT DO NOTHING waits for another transaction  *)
(* that claims the same id, then either finds it or inserts it.            *)
ClaimableAlways(e) == TRUE
Claimable(e) == new[EventRow(e)] = None

Claim(t) ==
  LET e == proc[t].event
      p == Load(t)
  IN /\ proc[t].pc = "claim" /\ CanLock(t, EventRow(e))
     /\ \/ /\ ~Claimable(e)
           /\ proc' = [proc EXCEPT ![t] = Idle]
           /\ UNCHANGED <<dbVars, pending>>
        \/ /\ Claimable(e) /\ Raises(p)
           /\ Abandon(t)
        \/ /\ Claimable(e) /\ ~Raises(p)
           /\ IF LooksUp(p)
                THEN /\ Write(t, Row(EventRow(e), "accepted"))
                     /\ proc' = [proc EXCEPT ![t].pc = "resolve"]
                ELSE IF Unusable(p)
                       THEN Ignoring(t, e)
                       ELSE Accepting(t, e, p.client)
           /\ UNCHANGED pending
     /\ UNCHANGED faults

(* _resolve_rz_client_from_payment: a plain SELECT.                        *)
Resolve(t) ==
  LET s == Sees(t, SubRow(Load(t).sub))
  IN /\ proc[t].pc = "resolve"
     /\ IF s = None THEN Ignoring(t, proc[t].event)
                    ELSE Accepting(t, proc[t].event, s.client)
     /\ UNCHANGED <<pending, faults>>

(* The row that the next statement writes: an UPDATE looks for the row     *)
(* without waiting, an upsert waits for whoever inserts it.                *)
Statement(t) == Head(proc[t].todo)
View(t) == [x \in RowIds |-> Sees(t, x)]
Locks(t) ==
  IF proc[t].pc = "execute" /\ proc[t].todo # <<>>
       /\ WritesRow(Statement(t), Load(t), proc[t].client, View(t))
    THEN {StatementRow(Statement(t), Load(t), proc[t].client)}
    ELSE {}

Execute(t) ==
  LET p == Load(t)
      c == proc[t].client
      s == Statement(t)
  IN /\ proc[t].pc = "execute" /\ proc[t].todo # <<>>
     /\ \A x \in Locks(t) : CanLock(t, x)
     /\ IF BreaksKey(s, c, View(t))
          THEN Abandon(t)
          ELSE /\ UNCHANGED pending
               /\ IF ChecksClient(p) /\ Locks(t) = {}
                    THEN Ignoring(t, proc[t].event)
                    ELSE /\ Write(t, [x \in Locks(t) |-> Written(s, p, c, new)])
                         /\ proc' = [proc EXCEPT ![t].todo = Tail(@)]
     /\ UNCHANGED faults

(* _mark_event, COMMIT, 200.                                               *)
Finish(t) ==
  /\ proc[t].pc = "execute" /\ proc[t].todo = <<>>
  /\ Publish(t)
  /\ proc' = [proc EXCEPT ![t] = Idle]
  /\ UNCHANGED <<pending, faults>>

-----------------------------------------------------------------------------
Crash(t) ==
  /\ proc[t].pc # "idle" /\ faults > 0
  /\ faults' = faults - 1
  /\ Abandon(t)

(* An event that was answered, or whose answer was lost, is posted again;  *)
(* also while it is being handled.                                         *)
Redeliver(e) ==
  /\ e \notin pending /\ faults > 0
  /\ faults' = faults - 1
  /\ pending' = pending \cup {e}
  /\ UNCHANGED <<dbVars, proc>>

Next ==
  \/ \E t \in Txs :
       \/ Claim(t) \/ Resolve(t) \/ Execute(t) \/ Finish(t) \/ Crash(t)
       \/ \E e \in Events : Receive(t, e)
  \/ \E e \in Events : Redeliver(e)

(* A provider posts an event until it gets a 200, and some process takes   *)
(* it; a statement that can be executed is.                                *)
Fairness ==
  /\ \A e \in Events : SF_vars(\E t \in Txs : Receive(t, e))
  /\ \A t \in Txs : WF_vars(Claim(t) \/ Resolve(t) \/ Execute(t) \/ Finish(t))

Spec == Init /\ [][Next]_vars
FairSpec == Spec /\ Fairness

-----------------------------------------------------------------------------
(* Every transaction locks the event, then its invoice or subscription and *)
(* client in orders that never close a circle, whatever the two providers  *)
(* send at once: nobody waits for somebody who waits for him.  A refund    *)
(* takes its invoice before the client, a declined transaction after it:   *)
(* the prefix of RefundsApart is what keeps the two from meeting.          *)
Wants(t) == IF proc[t].pc = "claim" THEN {EventRow(proc[t].event)} ELSE Locks(t)
NoCircle == \A t \in Txs : ~Deadlocked(t, Wants)

(* The events about c that were taken and say what it is entitled to, and  *)
(* those that set the status of a subscription.                            *)
Taken(c) ==
  {e \in Events : /\ db[EventRow(e)] = "accepted" /\ Payload[e].kind # "paid"
                  /\ ClientOf(Payload[e], db) = c}
Sets(p, s) ==
  /\ p.sub = s
  /\ p.kind \in SubscriptionKinds \/ (p.kind = "failed" /\ p.provider = "razorpay")
StatusSet(p) == IF p.kind = "failed" THEN "payment_failed" ELSE SubStatus(p)

(* The status of a subscription, which the gateways look at, and the       *)
(* entitlement of its client, which the rest looks at, come of one and the *)
(* same event, or the entitlement of one that does not set this            *)
(* subscription: however events of both providers overlap, fail half way   *)
(* or come twice, no client is left with what one event says of the        *)
(* subscription and another event of it said of the entitlement.           *)
OneEventSetsBoth ==
  \A c \in KnownClients, s \in Subs :
    db[SubRow(s)] # None /\ db[SubRow(s)].client = c =>
      \E e \in Taken(c) :
        /\ Sets(Payload[e], s) /\ StatusSet(Payload[e]) = db[SubRow(s)].status
        /\ \E f \in {e} \cup {g \in Taken(c) : ~Sets(Payload[g], s)} :
             db[ClientRow(c)] = Entitlement(Payload[f])

(* Taken one at a time, each once and whole (README.md:410: no double      *)
(* update), also when a handler fails half way or an event comes twice.    *)
L == INSTANCE Ledger WITH rows <- db
LedgerSpec == L!Spec

(* The events about clients of ours are all taken at last, past crashes    *)
(* and waits; one that is posted again is then answered "duplicate".       *)
EventuallyTaken ==
  <>(\A e \in Events :
       Payload[e].client \in KnownClients => db[EventRow(e)] # None)
=============================================================================
