------------------------------ MODULE EventFeed ------------------------------
(***************************************************************************)
(* backend/apps/client_api/events.py: a poller that looks for new rows of  *)
(* one table and a hub that hands them to the WebSockets of the row's      *)
(* client, each with a bounded queue of its own.  The poller remembers the *)
(* largest timestamp it has seen, its watermark, and the ids it published  *)
(* last.  It lives in the process; a restart forgets everything.           *)
(*                                                                         *)
(* The polls of messages, outbox rows and notifications differ only in the *)
(* table.  A poll runs in a thread, so WebSockets come and go between its  *)
(* publications.                                                           *)
(***************************************************************************)
EXTENDS Arrivals, Sequences

CONSTANTS
  Sockets,          \* WebSocket connections, each of one client
  ClientOf,         \* the client of every row and socket
  Limit,            \* LIMIT of the poll's query
  RingSize,         \* SEEN_RING
  QueueMax,         \* _QUEUE_MAX
  MaxSubscriptions, \* bound: connections in one behaviour
  MaxRestarts       \* bound: restarts of the process

ASSUME SizesAreNumbers == Limit \in Nat /\ RingSize \in Nat /\ QueueMax \in Nat

(* A row with more than Limit - 1 others of its timestamp would never be   *)
(* reached, and one with more than RingSize others would come again.       *)
ASSUME GroupsFit ==
  \A g \in Groups : Cardinality(g) < Limit /\ Cardinality(g) <= RingSize

VARIABLES
  anchor,           \* the time of the start
  watermark,
  ring,             \* the ids published last
  fetched,          \* the rows of the poll that is under way
  top,              \* max_ts of that poll
  snapshot,         \* what was committed when it read the table
  subscribed,       \* sockets in the hub
  heard,            \* all that was ever put into a socket's queue, in order
  backlog,          \* how many of those the socket has not sent yet
  subscriptions, restarts,  \* so far
  published,        \* rows handed to the hub
  late              \* rows the watermark went past before they were committed

feedVars == <<anchor, watermark, ring, fetched, top, snapshot, subscribed, heard,
              backlog, subscriptions, restarts, published, late>>

pollerVars == <<anchor, watermark, ring, fetched, top, snapshot, restarts>>

NotPolling == {}

FeedInit ==
  /\ anchor = Latest + 1 /\ watermark = anchor /\ top = anchor
  /\ ring = <<>> /\ fetched = NotPolling /\ snapshot = {}
  /\ subscribed = {} /\ heard = [s \in Sockets |-> <<>>]
  /\ backlog = [s \in Sockets |-> 0]
  /\ subscriptions = 0 /\ restarts = 0 /\ published = {} /\ late = {}

-----------------------------------------------------------------------------
(* ws_endpoint subscribes after accept(); the hub gives it a new queue.    *)
Subscribe(s) ==
  /\ s \notin subscribed /\ subscriptions < MaxSubscriptions
  /\ subscriptions' = subscriptions + 1
  /\ subscribed' = subscribed \cup {s}
  /\ UNCHANGED <<pollerVars, heard, backlog, published, late>>

(* The socket closes; what is still queued is gone.                        *)
Unsubscribe(s) ==
  /\ s \in subscribed
  /\ subscribed' = subscribed \ {s}
  /\ backlog' = [backlog EXCEPT ![s] = 0]
  /\ UNCHANGED <<pollerVars, heard, subscriptions, published, late>>

(* writer(): takes an event from the queue and sends it.                   *)
Send(s) ==
  /\ s \in subscribed /\ backlog[s] > 0
  /\ backlog' = [backlog EXCEPT ![s] = @ - 1]
  /\ UNCHANGED <<pollerVars, subscribed, heard, subscriptions, published, late>>

-----------------------------------------------------------------------------
(* WHERE created_at >= :wm ORDER BY created_at LIMIT: rows that share the  *)
(* last timestamp are cut anywhere.                                        *)
Window == {r \in stored : stamp[r] >= watermark}

Cuts(S) == {C \in SUBSET S :
              /\ Cardinality(C) <= Limit
              /\ C # S => Cardinality(C) = Limit
              /\ \A r \in C, q \in S \ C : stamp[r] <= stamp[q]}

(* _tick does not read anything while nobody listens.                      *)
Fetch ==
  /\ fetched = NotPolling /\ subscribed # {}
  /\ \E C \in Cuts(Window) : fetched' = C
  /\ top' = watermark /\ snapshot' = stored
  /\ UNCHANGED <<anchor, watermark, ring, subscribed, heard, backlog,
                 subscriptions, restarts, published, late>>

(* _remember.                                                              *)
InRing(r) == \E i \in 1..Len(ring) : ring[i] = r
RememberAll(r) == Append(ring, r)
Remember(r) ==
  LET all == Append(ring, r)
  IN IF Len(all) > RingSize THEN Tail(all) ELSE all

(* Hub.publish: put_nowait, and a full queue drops the event.              *)
Listeners(r) == {s \in subscribed : ClientOf[s] = ClientOf[r]}
Takers(r) == {s \in Listeners(r) : backlog[s] < QueueMax}

PublishAgain(r) == TRUE
PublishLater(r) == stamp[r] > watermark
Publishes(r) == ~InRing(r)

HandOut(r) ==
  /\ r \in fetched /\ \A q \in fetched : stamp[r] <= stamp[q]
  /\ IF Publishes(r)
       THEN /\ ring' = Remember(r)
            /\ top' = IF stamp[r] > top THEN stamp[r] ELSE top
            /\ heard' = [s \in Sockets |->
                           IF s \in Takers(r) THEN Append(heard[s], r) ELSE heard[s]]
            /\ backlog' = [s \in Sockets |->
                             IF s \in Takers(r) THEN backlog[s] + 1 ELSE backlog[s]]
            /\ published' = published \cup {r}
       ELSE UNCHANGED <<ring, top, heard, backlog, published>>
  /\ fetched' = fetched \ {r}
  (* The last row ends the poll: the watermark is the largest timestamp.   *)
  /\ IF fetched' = {}
       THEN /\ watermark' = top'
            /\ late' = late \cup {q \in Begun \ snapshot : stamp[q] < top'}
       ELSE UNCHANGED <<watermark, late>>
  /\ UNCHANGED <<anchor, snapshot, subscribed, subscriptions, restarts>>

(* _run anchors the watermark at now(); sockets connect again.             *)
Restart ==
  /\ restarts < MaxRestarts
  /\ restarts' = restarts + 1
  /\ anchor' = Latest + 1 /\ watermark' = anchor' /\ top' = anchor'
  /\ ring' = <<>> /\ fetched' = NotPolling /\ snapshot' = {}
  /\ subscribed' = {} /\ backlog' = [s \in Sockets |-> 0]
  /\ UNCHANGED <<heard, subscriptions, published, late>>

FeedStep ==
  \/ Fetch \/ Restart \/ \E r \in Rows : HandOut(r)
  \/ \E s \in Sockets : Subscribe(s) \/ Unsubscribe(s) \/ Send(s)

-----------------------------------------------------------------------------
FeedTypeOK ==
  /\ anchor \in Nat /\ watermark \in Nat /\ anchor <= watermark
  /\ Len(ring) <= RingSize
  /\ fetched \subseteq stored /\ Cardinality(fetched) <= Limit
  /\ \A s \in Sockets : backlog[s] <= QueueMax /\ backlog[s] <= Len(heard[s])

(* Nobody gets a row twice or an older row after a newer one, although the *)
(* poller reads rows of the watermark's timestamp again, rows are          *)
(* committed out of order, sockets reconnect and the process restarts.     *)
HeardInOrder ==
  \A s \in Sockets : \A i, j \in 1..Len(heard[s]) :
    i < j => /\ heard[s][i] # heard[s][j]
             /\ stamp[heard[s][i]] <= stamp[heard[s][j]]

(* The watermark skips nothing that the poller could have read: every row  *)
(* since the start and before the watermark was published, or it was not   *)
(* committed yet when the poll that moved the watermark read the table.    *)
SkipsOnlyLate ==
  \A r \in stored :
    anchor <= stamp[r] /\ stamp[r] < watermark => r \in published \cup late
=============================================================================
