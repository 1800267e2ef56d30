# TLA+ models of ZY Smart Serv

ZY Smart Serv answers WhatsApp messages for businesses: Python services
(FastAPI) and polling workers under `backend/`, one PostgreSQL database between
them, and Flutter clients. The services never call each other, except that
the batch processor calls the AI engine; everything else passes through
tables. The hard part of the system is therefore what its transactions do to
the same rows at the same time, and what is left when one of them is aborted,
repeated or late. That is what the modules here are about.

Contents: [the system](#the-system) - [modules](#the-modules) -
[runs](#the-runs) - [findings](#what-the-code-does-otherwise) -
[proofs](#the-proofs) - [limits](#what-is-not-shown) - [plan](#plan)

## The system

| Component | State it keeps | Operations | What is hard | What makes it correct |
|---|---|---|---|---|
| WA gateway, inbound (`wa_gateway/main.py`) | `inbox_chats`, `inbox_messages`, `inbox_inbound_batches`, `wa_outbox` (PAYWALL) | `meta_inbound`: one transaction per webhook | redelivery, webhooks of one chat at the same time, snapshots against row locks | messages stored and counted once, one OPEN batch per chat |
| Batch processor (`workers/batch_processor.py`) | batches, `processing_locks`, chat state, `wa_outbox` (AI_REPLY) | `run_once`: lock, seal, read, ask the AI, apply, for all due batches in one transaction | the AI call inside the transaction, several workers, window boundaries, deadlocks with the gateway | every batch processed, once, with the messages it had; a human silences the AI |
| Outbox sender (`workers/outbox_sender.py`) | `wa_outbox` | claim under a lease, call Meta, finalize | leases that run out, crashes after Meta accepted, stale senders | at-least-once delivery with bounded copies, settled rows stay settled |
| Status webhook (`wa_gateway/main.py`) | `wa_outbox.status` | `meta_status` | reports in any order, late, repeated | only a report on the recorded id changes a settled row |
| Client API inbox (`client_api/routes_inbox.py`) | chat state and assignee, `chat_assignments`, audit, messages, outbox | assign, reassign, escalate, unassign, resolve, reply | operations of several people and the AI's handoff at once, retries | serializability, assignee and audit agree, one message per key |
| Client API events (`client_api/events.py`) | subscriber queues, poller watermarks | subscribe, publish, poll | rows committed late, polls cut by a LIMIT, full queues, restarts | what a socket hears is in order and not repeated; only rows committed late are passed over |
| Billing (`billing_api/`) | events, subscriptions, invoices, `api_clients` | webhooks of two providers, KYC | redelivered events, two at once, errors half way | each event taken once and whole, no circles of locks, subscription and entitlement set by one event |
| Usage and metrics workers | `bill_usage_daily`, cursor, rollups | `run_once` | cursor against late commits, equal timestamps, two workers, limits and plans that change | each message up to the cursor counted once, marks that follow the limits; rollups catch up |
| Broadcasts (`workers/broadcast_campaign_worker.py`) | campaigns, targets, consent, outbox | create, opt in, pick, process a target, finish | lost and overlapping ticks, consent withdrawn meanwhile | every target settled once, nothing sent to who had withdrawn |
| Ops API (`ops_api/`) | config and audit, releases, SOPs, versions, runs | create, update, run, put, register, promote | edits of one row at once | versions without gaps, an audit that explains the value, promotions that demote what they found |
| Alert evaluator | alerts, automatic runs | one tick | duplicates abort the transaction | an alert and its run together |
| AI engine | usage rows only | `respond` | timeouts | one of four answers |
| Database | rows, locks | READ COMMITTED transactions | (external) | |
| Login, Flutter clients | none the services depend on | | | |

`PROJECT.json` lists the components with their sources and what of each is
modelled, and every hazard with its line and the properties that cover it.

### How they interact

    Meta --webhook--> gateway --chats, messages, batches--> batch processor --HTTP--> AI engine
                                                                 |
    people --HTTP--> client API --wa_outbox--+<-----wa_outbox----+
                                             v
                                      outbox sender --HTTP--> Meta --status webhook--> gateway

The chat row is what all of them meet on: the gateway's upsert locks it until
its transaction ends, the inbox operations take it `FOR UPDATE`, and the batch
processor reads it without a lock and updates it after the AI answered.

Around them: the usage workers, the rollup and the event poller follow the tables
by timestamp and only read them; the broadcast worker makes outbox rows that the
sender takes; the ops API writes `ops_runtime_config`, where the broadcast policy,
the thresholds and the map from alerts to SOPs are read, without locks, by the
workers.

## The modules

| Module | What it is | Code |
|---|---|---|
| `ReadCommitted` | the database as the services use it: committed and newest version of every row, the holder of its lock, commit, rollback, circles of waiting transactions | external; `shared/db.py` leaves PostgreSQL's default level in force |
| `Delivery` | abstract: what the outbox promises about a message | |
| `Outbox` | senders, leases, Meta, status webhook | `outbox_sender.py`, `meta_status` |
| `OutboxProofs` | proofs about `Outbox` | |
| `InboundPipeline` | gateway and batch processor over shared rows | `meta_inbound`, `run_once` |
| `PipelineProofs` | proofs about `InboundPipeline` | |
| `InboxOps` | the inbox operations as functions from rows to rows | `routes_inbox.py`, `inbox_notify.py` |
| `Desk` | abstract: a chat whose operations are carried out one at a time | |
| `Conversation` | the same operations as transactions of several threads, and the AI's handoff between them | `_load_chat` and the handlers; `batch_processor.py` 334-375, 485-503 |
| `ConversationProofs` | proofs about `Conversation` | |
| `BillingOps` | what an event does to the billing rows, statement by statement | `process_webhook.py` |
| `Ledger` | abstract: events taken one at a time, each once and whole | |
| `Billing` | the webhooks as transactions of several processes | `main.py`, `process_webhook.py` of `billing_api` |
| `BillingProofs` | proofs about `Billing`: it implements `Ledger`, locks, subscriptions with their clients | |
| `Arrivals` | rows whose timestamp is the start of a transaction and which become visible at its commit | external; the tables followed |
| `UsageCursor` | usage worker and metrics rollup | `usage_increment_worker.py`, `metrics_rollup_worker.py` |
| `EventFeed` | poller, hub, WebSocket queues | `events.py`, `routes_ws.py` |
| `Feeds` | the two over the same arrivals | their `main` loops |
| `FeedsProofs` | proofs about `Feeds`: what was counted, what was heard | |
| `OpsDesk` | the writing operations of the ops API as transactions | `routes_ops.py`, `routes_extended.py` |
| `Alerts` | the alert evaluator and automatic runs, over `OpsDesk` | `alert_eval_worker.py`, `ops_alerts.py`, `ops_sop_auto_trigger.py` |
| `Campaigns` | campaigns, consent and the broadcast worker, over `OpsDesk` | `broadcast_campaign_worker.py`, `routes_broadcast.py`, `broadcast_gating.py` |
| `Backoffice` | the three over one database | |
| `BackofficeProofs` | proofs about `Backoffice`: rows, audits, promotions | |
| `VersionProofs` | proofs about `Backoffice`: the versions of SOPs and their runs | |
| `WorkerProofs` | proofs about `Backoffice`: types, alerts, campaigns | |
| `MCOutbox`, `MCPipeline`, `MCConversation`, `MCBilling`, `MCFeeds`, `MCBackoffice` | instances for TLC | |

In the modules, a definition that follows a variant of itself (`ClaimableNoLease`
before `Claimable`) is the code's; the variant is a plausible mistake, and
`PROJECT.json` ("mutants") says which property notices it.

### ReadCommitted

`db` is the committed version of every row, `new` the newest one, `holder` the
transaction that has the row locked. A plain SELECT is `Sees`: what is
committed, or what the transaction itself wrote. An UPDATE, `FOR UPDATE` or an
INSERT with `ON CONFLICT` is guarded by `CanLock` and works on `new`. A row that
does not exist is a row whose value says so, and the lock on it is the
uniqueness of its key. `Publish` and `Rollback` end a transaction.
`Deadlocked` names the transactions PostgreSQL may abort because they wait for
each other. A lost connection or a failed statement is a rollback.

### Outbox

A sender's `pc` follows `run_once`: it claims in one transaction, calls Meta
outside any, and finalizes in another. Time is kept only as `due`, the rows
whose `next_attempt_at` has passed: a lease or a backoff takes a row out of
`due`, `TimePasses` puts it back. The lease may run out while its holder works,
since nothing ties it to the HTTP timeouts. `MetaAccepts` hands out the next id
for the row; the sender may or may not read it. Meta's reports are a set of
events that arrive in any order, and may arrive twice. `reports` only observes.

`Delivery` knows three facts of a message: its outcome, how many ids Meta handed
out, which one is recorded. `Outbox` implements it under
`outcomeBar` (FAILED and SENDING are both "open"). `Delivery` allows
`MetaReport` to open a settled message again, because a FAILED report does: the
code claims such rows again.

### InboundPipeline

Every statement that may wait for a row, or whose snapshot matters, is a step.
The gateway: `Receive` (BEGIN), `CheckClient` (the reads), `StoreMessage`
(upsert of the chat and insert of the message), `FindBatch` and `ExtendBatch`
(one SQL statement, whose snapshot and whose UPDATE may be apart),
`GatewayPaywall`, `Commit`. The worker: `BeginTick` (BEGIN, which fixes `now()` and
so every `sealed_at` of the tick), `SelectDue` (the SELECT of the due batches, with a
snapshot of its own, which shows what was committed since), `LockBatch`, `LockChat`, `Seal`, `ReadChat`, `WorkerPaywall`,
`AskAI`, `ApplyAnswer`, and `Commit` after the last batch. A `Crash` or a
circle of locks (`BreakDeadlock`) rolls back; Meta then posts the webhook again,
and the batch is still OPEN.

`now()` is the start of a transaction and decides which message is in which
window, so only the order of starts matters: `Now` is an instant later than all
that rows and processes remember, and `Renumber` renumbers when old ones are
forgotten. Debouncing is abstracted: an OPEN batch may be due at any time from its
`opened_at` on. An agent's part in it is one step, `AgentTakes`.

The model has a constant, `CountRead`. As the code stands ("subscript"), line
479 of the gateway raises for every message, so nothing behind it would ever
happen (run `store_first`). All other pipeline runs take "get": they are about
the gateway with that one line reading 0 by default, as line 527 does.

### InboxOps, Desk, Conversation

`InboxOps` has one operator per operation, from the rows it finds (state and
assignee, as the handler read them) and the rows as they are when it writes, to
the rows it leaves. An HTTP error rolls back and leaves the rows. `Desk` applies
one operation at a time. `Conversation` has the transactions: `Load` takes the
rows `_load_chat` locks and remembers state and assignee, `Act` writes what the
operation says, `Commit` or `Abort` ends it. The batch processor's `ReadChat` and
`Handoff` come in between, with the AI call between them.

One chat is modelled, since no operation touches two. `ai_paused_until` is left
out: whoever sets it makes the chat AGENT_ACTIVE (or did, when the key it replays
was new), and no code makes a chat AI_ACTIVE again. `HardLock` is `inbox.typing_hard_lock_enabled`, FALSE (the
default) in the runs and either value in the proofs.

### BillingOps, Ledger, Billing

`BillingOps` says which statements an event executes, in which order, which row
each one writes (an UPDATE of a row that is not there writes none, an insert for
a client that is not there breaks the foreign key) and when an event is ignored.
`Ledger` takes an event in one step. `Billing` has the transaction: `Receive`,
`Claim` (the insert into `bill_events`, which waits for another claim of the same
id), `Resolve` (the unlocked lookup of a failed payment's client), `Execute` (one
statement, which may wait for its row), `Finish` (COMMIT and 200). Whatever is
raised is `Abandon`: everything is rolled back, the claim too, and the provider
posts the event again.

A subscription's status is the provider's own word (`status` of the payload),
stored as it comes; the entitlement is decided by the type of the event. So an
"updated" event may say "canceled" and leave the client its plan: the gateways look at
the first (`wa_gateway/main.py` 240-258), the rest at the second. What the code does
promise is `OneEventSetsBoth`: the two were set by the same event, or the entitlement
by an event that sets no status of this subscription (a refund, a declined transaction,
an event of another subscription).

`Ledger` lets a failed payment that names no client be dropped at any time
(`Drop`): its handler may look the subscription up before the event that makes
it known commits.

The constant `Helpers` is "clobbered" for the code as it stands: a function of
`process_webhook.py` has the name of another one (line 520), and every event that
needs either raises NameError (run `billing_activation`). The run `billing` takes
"intact", two functions with their own names, since it is about the transactions
behind that line.

### Arrivals, UsageCursor, EventFeed, Feeds

`inbox_messages.timestamp`, `wa_outbox.created_at` and the notifications' are
`now()`, the start of the inserting transaction. In `Arrivals` a group of rows gets
its timestamp in `Begin` and is seen from `Store` on; groups overlap, so a later
`Store` may bring an earlier timestamp. Everything that follows a table by
timestamp can miss such a row, and does.

`UsageCursor`: a counter's `LoadLimits`, `FetchCursor` and `SelectRows` are its reads,
`CommitUsage` the upserts, the cursor and the thresholds. The writes are one step:
the upserts add to the newest version and hold their rows, so a transaction's effect
is that of its COMMIT. `missed` records which rows the cursor passed while they were
not yet committed; the invariant says exactly what is counted: all up to the cursor
but those. The configuration goes through the values of `Limits`, and each client
through the plans of `Entitled` (`Reprice`), at any time. A tick keeps the limits it has
read first and reads the plan after its upserts (`MayRead`: any plan since the rows were
selected), so it may compare with a limit of an old configuration and a new plan. A plan
without an entry has no limit and marks nothing, and only days the tick has touched are
looked at. `Recount` and `CommitRollup` are the rollup's read and its overwrite.

`EventFeed`: `Fetch` is a poll's SELECT (any rows in timestamp order up to the
LIMIT; equal timestamps are cut anywhere), `HandOut` the loop's body for the next row,
with the ring of ids, the largest timestamp and `Hub.publish`; the last one moves the
watermark. Sockets subscribe, leave and send between these steps, as the poll runs in
a thread. The model has one table, the three polls of that form differ in nothing
else. With nobody subscribed `_tick` returns first, so the watermark stays and the
first to connect is sent what came since; the model does the same. `GroupsFit` is an
assumption on the data: fewer rows of one transaction than the LIMIT (200), else the
poll would return the same rows for ever.

`Feeds` composes them. They only read the rows, so a behaviour has the processes of
one of `Deployments`; running them together would multiply states and show nothing.

### OpsDesk, Alerts, Campaigns, Backoffice

Each request is a transaction of a thread, with a step per statement: `ReadVersion`,
`InsertVersion`, `UpdateSop` for an edit of a SOP, `SelectConfig`, `WriteConfig`
for a configuration key, `FindCurrent` (the snapshot), `Demote` (a row at a time, each
looked at again when its lock is had) and `Promote` for a release. Whatever is raised
is `Refuse`; `Die` is a crash at any statement. A key's audit rows are kept with its
value (`trail`).

`Alerts`: which spikes there are is any choice of `StartTick`. `Record` inserts the
alert and its run; a duplicate sets `aborted`, because PostgreSQL refuses everything
that follows in that transaction: the next statement raises (`StatementFails`), and
a COMMIT rolls back (`EndTick`). `due` remembers for which alerts a run was called
for.

`Campaigns`: `StartBroadcast` reads the policy, `Pick` and `SelectTargets` skip what
others have locked, `CheckPlan` and `CheckConsent` read the plan and the consent as
they are then, `Enqueue` inserts the outbox row under the key `broadcast:campaign:chat`
and settles the target, `MaybeFinish` completes the campaign when no target is pending.
`agreed` and `allowed` record whether customer and plan allowed the message at some
time since the tick began: reading without locks, the code cannot promise more.

## The runs

| Run | Instance | Checks |
|---|---|---|
| `outbox` | 1 row, 2 senders, 2 attempts, 2 faults | `TypeOK`, `CopiesBounded`, `SettledIsStable`, `EventuallySettled`, `ImplementsDelivery` |
| `pipeline_one` | 1 gateway, 1 worker, 2 messages in 2 webhooks, 1 fault | `ReadyIsAsked`, `AskedOnce`, `EventuallyStored`, `EventuallyProcessed` |
| `pipeline_many` | 2 gateways, 2 workers, 2 messages in webhooks that overlap | `TypeOK`, `OneOpenBatch`, `CountedOnce`, `NeverLeftSealed`, `ProcessedOnce` |
| `store_first` | as `pipeline_one`, line 479 as it is | violates `EventuallyStored` |
| `asked_all` | 1 gateway, 1 worker, 2 messages | violates `AskedAboutAll` |
| `silence` | 1 gateway, 1 worker, 1 message | violates `AgentSilencesAI` |
| `conversation` | 3 users, 2 handlers, 1 worker, 3 of 9 requests | `TypeOK`, `AssigneeAgrees`, `ClosedIsFree`, `AuditExplains`, `OneMessagePerKey`, `RepliesByAssignee`, `ImplementsDesk` |
| `billing` | 6 events of 2 providers, 2 processes, 1 fault, a client and an unknown id | `TypeOK`, `NoCircle`, `OneEventSetsBoth`, `LedgerSpec`, `EventuallyTaken` |
| `billing_activation` | 1 event, line 520 as it is | violates `EventuallyTaken` |
| `feeds` | 4 rows in 3 transactions; 1 or 2 counters with batches of 2, 2 configurations and 2 plans, or the rollup, or the poller with LIMIT 3, a ring of 2, 2 sockets, a restart | `TypeOK`, `UsageExact`, `MarksFollowLimits`, `FeedExact`, `RollupCatchesUp`, `EveryRowFed` |
| `backoffice` | 2 handlers with up to 3 requests; 2 evaluators, 2 slots; 2 broadcasters, campaigns of 2 and 1 targets with batches of 1, a change and a lost tick | `TypeOK`, `VersionsSound`, `AuditChains`, `AlertsWithRuns`, `TargetsAddUp`, `DemotesWhatItFound`, `ConsentRespected`, `CampaignsFinish` |
| `campaign_stuck` | 1 broadcaster, a campaign of 2 targets, batches of 1 | violates `LargeCampaignsFinish` |

Why the bounds are enough. Rows of the outbox do not influence each other, so one
row and two senders show every race for it; two attempts have a retry and an
exhausted row; a fault is a crash, an early end of a lease, a failure report or a
redelivery, and two of them combine any pair. In the pipeline two messages give
an opening and an extension of a batch, or a batch behind a processed one; two
gateways and two workers give every pair that can wait for each other. The
second worker, and redelivery of a message in another webhook, are in
`pipeline_many`; liveness and crashes are in `pipeline_one`, because
fairness does not go with symmetry. With one chat, nobody waits for the paywall row of
another chat of the client. In `Conversation` the unlocked race needs two
handlers and the worker, and three requests reach every state of a chat. The six
events of `billing` lock invoice then client, client then invoice and client then
subscription, more than one of them on the same client and subscription; among two
processes a circle is one of two transactions. One of them is an "updated" event with a status
that says the subscription has ended ("halted").

In `feeds` the transaction of two rows is cut by the batch and by the LIMIT; three
transactions commit in any of their orders, and a ring of two has to forget. Its rows
fall on two days of one client, one of them an outbound message, which touches its day
without counting towards the limit. The configuration lowers the limit of one plan and
gives another plan one it did not have; the client changes from the first plan to the
second.
In `backoffice` each deployment has the requests that touch the same rows: SOPs with the
evaluators that start their runs, SOPs alone, configuration keys that are there and
one that is not, releases with an id that is not there yet, and broadcasts with a
change of policy, consent or plan. Two editors of a row and a third request show
every race for it. Two evaluators are more than the one that is deployed.

`ReadyIsAsked` speaks of the messages whose webhooks began before the worker's
transaction. One that begins between the worker's BEGIN and its SELECT may join the
batch that is then selected, but is timed after `sealed_at`: it is left out of the window,
and stays in a batch that is processed.

`ReadyIsAsked` and `AskedOnce` hold for one gateway process only and say so: with
two, a message's timestamp (the start of its transaction) can be before the
`opened_at` of the batch it joins, since `opened_at` is the start of a
transaction that came later and committed first.

CHECK_DEADLOCK is off because each of these systems may stop: every row settled,
every message processed, or (`Conversation`) the bound of requests reached.

### Fairness

`Outbox`: clocks run; `main()` loops and `run_once` claims the oldest due row
until none is due, hence strong fairness of a row's claim by some sender (rows
are passed over while another sender has them locked or leased); a claimed row is
worked off since the HTTP client has timeouts. Nothing is assumed about crashes
and reports, which `MaxFaults` bounds.

`InboundPipeline`: Meta repeats a webhook until it gets a 200; some worker's tick
selects all due batches again and again (strong: the loop goes on, and the
`process_after` of an OPEN batch passes, though it may be pushed back in between);
transactions that have begun go on (weak), also through rows that are free only for a
while (strong, because PostgreSQL queues those who wait); circles are broken. Nothing is
assumed of `processing_locks`: whoever holds one ends its transaction. Nothing
says that the AI answers well: any of its four outcomes may come.

`Billing`: an event is posted until it gets a 200 and then taken by some process
(strong: the processes are busy in between); a statement that can be executed is
(weak: rows are never held for ever, and the other process ends its event).

`Feeds`: the poller's loop and the rollup's go on whatever a tick ends with (weak); a
rollup that is begun again and again commits at last (strong). Nothing is assumed
about sockets, about writers or about the counters.

`Backoffice`: the loop of the broadcast worker (weak); ticks lost half way are bounded
by `MaxLosses`. Requests may never come, and one that is under way may stop anywhere.

`Conversation`, `asked_all` and `silence` are about safety and assume nothing.

## What the code does otherwise

Five runs show the code doing something its documents do not say. In each the
property is the sentence, and the counterexample is the program's.

- `store_first`: `extra_inbound_this_tx[client_id]` (gateway, line 479) raises
  KeyError on the first message of a client in a request; the request is rolled
  back, and so is every retry ("Store-first ingestion").
- `asked_all`: a message extends a batch that the statement's snapshot shows OPEN
  and that is sealed and processed when the UPDATE gets the row; its status
  is not looked at again. The AI never sees the message ("build batch_text from
  inbound messages since opened_at").
- `silence`: an agent takes the chat during the AI call, and the reply is queued
  all the same (HANDOFF.md 50).
- `billing_activation`: `_rz_subscription_entity` is defined a second time (line 520)
  with the body of `_paddle_custom_data`, whose own definition is gone; every
  subscription event of Razorpay and every event of Paddle with data is rolled back
  and answered 500 each time ("Run the same `curl` line again to see `duplicate`").
- `campaign_stuck`: a tick makes a queued campaign running, works off one batch and
  leaves the rest pending; only queued campaigns are picked, so nobody comes back
  ("Max wa_broadcast_targets rows processed per campaign tick", `config.py` 153;
  a campaign may have 5000 targets, the batch has 50).

Seen in the models as well, without a run of their own:

- A sender whose answer was lost gives up a row that another one had sent; a late
  FAILED report makes the DEAD row FAILED, and it is sent again.
- The replay of an Idempotency-Key is looked up by chat and key, the outbox row by
  chat, user and key: a second user's text is queued but not shown.
- The handoff's UPDATE overwrites AGENT_ACTIVE; escalating to the assignee then
  returns 200 and leaves HUMAN_REQ.
- When both spikes are there and the second alert is a duplicate, the first alert and
  its run are rolled back although they were logged (`ops_alerts.py` 47: the caught
  error has aborted the transaction); when the first is, the tick fails.
- Two usage workers count messages twice, and a message committed late is never
  counted, so `bill_usage_daily` is not quite "in sync with `inbox_messages`"
  (the repository's README, line 232). The poller passes over such rows too.
- Two promotions at once leave two current releases; one of an unknown id commits the
  demotion and answers 404, and there is none.
- The comment of `DBPoller` (line 111) says strict `>`; the queries use `>=`, and
  `EveryRowFed` shows why they must.

## The proofs

The eight modules of proofs hold for every value of the constants, from the
assumptions named in the modules they extend; TLC evaluates those in the runs.
The bounds of the models (`MaxFaults`, `MaxRequests`, `MaxLosses`) are arbitrary in
the proofs. The assumptions are of four kinds.

- The shape of the model: the rows are the module's rows (`RowsAre`), processes of
  different kinds are apart (`TxsAre`, `ProcessesDiffer`, `HandlersAreNoWorkers`),
  `None`, `NoTx` and `NoOne` are outside the sets they are told from (`NoneIsNone`,
  `NoneIsNoStatus`, `NoneIsNoAlert`, `CampaignsAreNamed` and their like), bounds are
  numbers (`FaultsAreBounded`, `SizesAreNumbers`, `TicksAreBounded`). The inbound column
  of a day is that day's (`InboundOfItsDay`).
- Finitely many senders, processes, messages, chats, rows and counters.
- The start: SOPs with one version, no runs, keys with empty audits, releases with a
  status, campaigns that no tick has begun (`SopsAtStart`, `NoRunsAtStart`,
  `TrailsStartEmpty`, `ReleasesAtStart`, `CampaignsAtStart`); requests name users, SOPs,
  keys and builds.
- The data. Outbox rows have at least one attempt. A webhook has at least one message
  and a message one chat (`WebhooksAre`, `MessagesAre`). A limit is a number or there is
  none (`LimitsAreNumbers`: `plan_soft_hard`). Fewer rows of one
  transaction than a poll's LIMIT (`GroupsFit`). Two are about the payment providers:
  `RefundsApart`, refunds are kept under `refund:` and their id, which no invoice is
  called; and `SubsHaveOneClient`, the events of a subscription that name a client name
  the same one, since the notes that name it are given when the subscription is made
  (`routes_rest.py` 55) and each event copies them. Without the first two events could
  wait for each other in a circle; without the second a subscription could pass from
  one client to another, with the status of one event and its entitlement given to both.

**Outbox.** `TypeInv` is inductive: the types, a busy sender holds an inserted row
and an accepted id is one Meta handed out (`SenderOK`, `NoneUntouched`), rows and
reports carry only such ids (`IdIssued`, `EventIssued`). `SentIsAccepted` is a
part of it, and `SettledStable` and `RetryBelow` follow step by step: a sender
finds SENDING or does nothing, and a row it gives back was compared with the
maximum. `CopiesAreBounded` needs an idea: a sender that has claimed and not yet
called Meta is a copy to come. `Paid` counts acceptances and such senders
(`Claimants`, finite because the senders are) against counted attempts, failure
reports and the attempt being made. The claim of an expired lease pays with an
attempt; a PENDING or FAILED row had that attempt or report counted when it became
claimable. `OutboxImplementsDelivery` maps each action to the step of `Delivery`
that its outcome is.

**Conversation.** `IInv` has two layers. The rows: `GoodDesk` (types, `Agrees`,
`Unrepeated`) is kept by each operation alone (`AssignedIsGood`, `FreedIsGood`,
`RepliedIsGood`, `OutcomeIsGood`, `HandedOffIsGood`). The transactions: the
chat's row guards the others (whoever holds any row holds the chat), a row nobody
holds is committed, and who holds the chat is about to act or to commit
(`Guarded`); so what a handler has seen is what is committed, and what it has written
is `Outcome` of that (`Served`). `HolderIsAlone` is the heart: when `t` has the
chat, nobody else is between his lock and his commit. From `CommitOperates` and
`NextOperates` every committed change is one operation, which gives
`ConversationImplementsDesk`, and with `AgentsOwn` also `AgentsReplyOnTheirs`. The
other theorems are parts of `GoodDesk`.

**Back office.** `Base` says that the rows of the operations API are held by its
handlers or by nobody, and that a row nobody holds is committed; evaluators and
broadcasters leave those rows alone (`OthersAreQuiet`). Over it:

- `AuditsChain`: a key's audit rows link up and end in its value, committed or not,
  and a handler about to write an existing key holds it and has seen its newest
  value (`AuditInv`). For a key that is not there FOR UPDATE locks nothing; the insert
  then waits for another of the same key and fails if that one commits, and the audit of
  the key starts empty.
- `PromotionsDemote`: what a promotion found is still on its list, demoted by it, or
  not current any more, because nobody else makes a release current without being
  about to commit (`PromotionInv`).
- `VersionsAreSound`: the number after the current one is read without a lock, so two
  handlers may hold the same number. `SopsInv` says that the committed versions are
  exactly `1..current`; that whoever has inserted a version holds it, and it is the one
  after the current; so at most one handler can commit it, and a stale number finds its
  row taken. A run names a version that is committed, because versions never go
  (`RunsInv`). That numbers stay within `Versions` is a pigeonhole (`NextVersionFits`):
  every version was written by another request, and one more is still at work.

**Workers of the back office.** `LocksSound`: each kind of process locks rows of its
own, and none while it rests. Over it:

- `AlertsHaveRuns`: alert and run are written by the same transaction, which is the one
  that holds either, and an alert being recorded is not committed (`AlertSound`), so
  that a rollback takes both and a duplicate writes neither.
- `CampaignsAddUp`: whoever holds a target or its outbox row holds the campaign; target
  and message agree in the committed and in the newest version; a completed campaign has
  nothing pending (`CampaignSound`). For `MaybeFinish` it takes that the targets a tick
  has still before it are locked by it and pending (`SenderSound`).
- `ConsentIsRespected`: `agreed` and `allowed` cover what the tick has read so far, all it
  has queued, and what it is about to queue (`SenderCareful`).
- `TypeCorrect` needs all of these, `SopsInv` for the numbers of versions, and
  `ReleasesSound`.

**Pipeline.** `SerialInv` says who may hold what: a gateway that holds a batch, or is
looking for one, holds the chat's row; a worker holds a batch that was OPEN, SEALED
only while he is at work on it; a reply is held by whoever holds its batch
(`Holders`, `Guarded`, `Committed`). Then at most one batch of a chat is OPEN in either
version (`OneMaybeOpen`): a second one would be opened under the chat's lock, which the
first one's gateway has until it commits. `OneBatchPerChat`, `NothingStranded` and
`ProcessedIsSettled` follow. Counting needs `CountInv`: a message that is stored and not
gated is in a batch, or a gateway that holds its row is about to join it
(`NoneForgotten`, `JoinersAreNew`), and it is in no second one (`JoinedOnce`), because
the key of the message is locked until the first one ends. That there is always a free
batch is a pigeonhole (`FreeBatch`): each batch has a message of its own.

`AllReadyAreAsked` and `NoneAskedTwice` assume one gateway process (`OneGateway`) and any
number of workers; with a second gateway TLC violates their invariant. They compare
instants, so they need `TimesInv`: what the gateway finds committed is older than its
transaction, a message or batch it writes carries its start (`GatewayTimed`,
`MessageTimed`, `BatchTimed`), and a worker's window reaches from the batch's start to
the worker's BEGIN, and has all of the batch that is no later than that (`InTime`,
`WorkTimed`): what joins the batch while the worker has it cannot, because the row is
locked, and what joined before carries the start of its webhook. Of two batches of a chat, one is opened only when the other is committed
as PROCESSED, later than all it asked about (`InTurn`, from `OthersAreProcessed`).
Renumbering the instants keeps their order (`RankIsMonotone`, `RenumberTimed`).

**Billing.** `Working` says how far a transaction is: having claimed an event it holds
the event's row and exactly the rows of the statements behind it, and has written there
what `Ledger` writes (`Taking`), or it has written nothing but the event (`Dropping`).
The remaining statements are a suffix of the event's. `BillingImplementsLedger` takes
`Finish` to the step of `Ledger` for that event and everything else to a stutter; what is
read before the row is locked is the committed version, and `WrittenSoFar` says that it
still is at the COMMIT. `NobodyWaitsInACircle`: an invoice is taken before its client
or after it, by kinds of events that do not share invoices (`RefundsApart`), and whoever
has a subscription or the last row of his event waits for nobody. `BothOfOneEvent`
looks at what a COMMIT has written together: an event that sets the status of a
subscription sets the entitlement of its client in the same transaction
(`WhatAnEventSets`), and the events taken so far stay the events about that client
(`TakenStay`), since a subscription keeps its client.

**Feeds.** `PlaceSound` is said of the cursor and of the place each tick has fetched:
everything up to it that was not missed is committed, so it cannot grow, and it is
counted. With one counter the count is exact and the tick's place is the cursor
(`UsageSound`); that the batch cut from the snapshot is a first part of it is
`FirstOf`, a choice that exists because the rows are finite and ordered by time and id
(`HasFirst`). `MarksAreRight` needs `TermsSound`: what a tick has read of configuration
and plan is not newer than what is in force, so every limit it compares with is one the
client has had (`LimitsHadAre`); a day it does not touch has the count it had
(`CommitMarks`). For the feed, `PollSound` says where the rows of a poll are: published, held
and not older than `top`, or cut off by the LIMIT and not older than any held;
`RingSound` that the ring has all rows of the largest timestamp, which is why reading
them again does not repeat them; `SocketsSound` that a socket's queue is in order.

TLC checked the inductive invariants on the runs' instances before they were proved.

## What is not shown

Only model-checked: the liveness properties (`EventuallySettled`,
`EventuallyStored`, `EventuallyProcessed`, `EventuallyTaken`, `RollupCatchesUp`,
`EveryRowFed`, `CampaignsFinish`), which are beyond the prover. The runs that expect a
violation need no proof.

Not modelled: the LIMIT of 200 messages of a window and the sender's batch;
debouncing times; the trial routing by phone number; signatures and parsing of
payloads; the wording of messages; metric and notification rows of the pipeline;
typing presence. In billing: KYC, checkout, amounts, the types of the dates that
providers send, and which of several subscriptions is the newest. In the event feed:
the poll of `chat_assignments`, which sorts by one timestamp and moves its watermark
by two, so that its LIMIT can pass over rows; and what REST handlers publish
themselves. The dashboards (`routes_dash.py`) and all lists only read. The AI engine
keeps a counter of its calls; the pipeline takes any of its answers. Login and the
clients keep no state that matters here.

## Plan

In order of importance. Done: the outbox with `Delivery`, the pipeline, the
conversation with `Desk`, the billing webhooks with `Ledger`, the feeds, the back
office, and the proofs about all of them.

1. The newest subscription by the times of the transactions; KYC.
2. The poll of assignments, with rows that have two timestamps.
