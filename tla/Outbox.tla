------------------------------- MODULE Outbox -------------------------------
(***************************************************************************)
(* The life of a wa_outbox row: the INSERT of a producer, the sender       *)
(* processes of backend/workers/outbox_sender.py that claim it under a     *)
(* lease and call the Meta Cloud API between two short transactions, and   *)
(* the status webhook of backend/apps/wa_gateway/main.py that rewrites the *)
(* row's status from Meta's reports.                                       *)
(*                                                                         *)
(* Time.  The code compares next_attempt_at with now(); the model keeps    *)
(* only the outcome of that comparison: `due' is the set of rows whose     *)
(* next_attempt_at has passed.  Setting next_attempt_at into the future    *)
(* (a lease or a backoff) takes the row out of `due' and TimePasses puts   *)
(* it back.  A lease can run out while its holder is still at work: the    *)
(* HTTP timeouts (20 s and 25 s per operation) are not tied to the lease,  *)
(* which may be configured down to 10 s, and a process can be suspended.   *)
(*                                                                         *)
(* Meta ids.  The n-th time Meta accepts row r it hands out the id n, so   *)
(* that metaId[r] = n says which acceptance the row remembers.             *)
(***************************************************************************)
EXTENDS Naturals, FiniteSets

CONSTANTS
  Rows,             \* rows of wa_outbox, one per idempotency key
  Senders,          \* outbox_sender processes
  None,             \* no row is held
  MaxAttempts,      \* settings.outbox_max_attempts
  MaxFaults         \* bound: crashes, early lease expiries, failure
                    \* reports and redelivered webhooks in one behaviour

ASSUME SendersFinite == IsFiniteSet(Senders)
ASSUME NoneIsNoRow == None \notin Rows
ASSUME MaxAttemptsPos == MaxAttempts \in Nat \ {0}
ASSUME MaxFaultsNat == MaxFaults \in Nat

VARIABLES
  status,           \* wa_outbox.status; "NONE" before the row is inserted
  attempts,         \* wa_outbox.attempt_count
  due,              \* rows with next_attempt_at <= now()
  metaId,           \* wa_outbox.meta_message_id, 0 for NULL
  pc,               \* where a sender is in run_once
  row,              \* the row a sender has claimed
  id,               \* the id Meta returned to the sender, 0 for none
  accepted,         \* Meta: number of times it accepted the row
  events,           \* status webhooks in flight
  reports,          \* observer: failure reports the webhook applied
  faults            \* faults the environment may still inject

senderVars == <<pc, row, id>>
rowVars == <<status, attempts, due, metaId>>
vars == <<status, attempts, due, metaId, pc, row, id,
          accepted, events, reports, faults>>

(* A definition that follows a variant of itself (ClaimableNoLease, say)   *)
(* is the code's; the variant is a mistake the properties must notice.     *)
ClaimableNoLease == {"PENDING", "FAILED"}
Claimable == {"PENDING", "FAILED", "SENDING"}
SentStatus == {"SENT", "DELIVERED", "READ"}
Status == {"NONE", "PENDING", "SENDING", "FAILED", "DEAD"} \cup SentStatus
EventType == {"DELIVERED", "READ", "FAILED"}

TypeOK ==
  /\ status \in [Rows -> Status]
  /\ attempts \in [Rows -> Nat]
  /\ due \in SUBSET Rows
  /\ metaId \in [Rows -> Nat]
  /\ pc \in [Senders -> {"idle", "claimed", "accepted", "retry", "fatal"}]
  /\ row \in [Senders -> Rows \cup {None}]
  /\ id \in [Senders -> Nat]
  /\ accepted \in [Rows -> Nat]
  /\ events \in SUBSET [row : Rows, id : Nat, type : EventType]
  /\ reports \in [Rows -> Nat]
  /\ faults \in Nat

Init ==
  /\ status = [r \in Rows |-> "NONE"]
  /\ attempts = [r \in Rows |-> 0]
  /\ due = {}
  /\ metaId = [r \in Rows |-> 0]
  /\ pc = [s \in Senders |-> "idle"]
  /\ row = [s \in Senders |-> None]
  /\ id = [s \in Senders |-> 0]
  /\ accepted = [r \in Rows |-> 0]
  /\ events = {}
  /\ reports = [r \in Rows |-> 0]
  /\ faults = MaxFaults

Holders(r) == {s \in Senders : pc[s] # "idle" /\ row[s] = r}
Claimants(r) == {s \in Senders : pc[s] = "claimed" /\ row[s] = r}

Fault == faults > 0 /\ faults' = faults - 1

(* The status every producer inserts.                                      *)
InsertStatusQueued == "QUEUED"
InsertStatus == "PENDING"

(* attempt_count after a claim: an expired lease counts as an attempt.     *)
ClaimFree(st, n) == n
ClaimCount(st, n) == IF st = "SENDING" THEN n + 1 ELSE n

(* new_count >= max_a                                                      *)
Exhausted(n) == n >= MaxAttempts

(* WHERE id = :id AND status = 'SENDING', in every finalizing UPDATE.      *)
Unguarded(r) == status[r] # "NONE"
StillSending(r) == status[r] = "SENDING"

(* WHERE meta_message_id = :mid                                            *)
Matches(e) == metaId[e.row] = e.id

-----------------------------------------------------------------------------
(* INSERT ... ON CONFLICT (idempotency_key) DO NOTHING by any producer: a  *)
(* second insert under the same key changes nothing.                       *)
Enqueue(r) ==
  /\ status[r] = "NONE"
  /\ status' = [status EXCEPT ![r] = InsertStatus]
  /\ due' = due \cup {r}
  /\ UNCHANGED <<attempts, metaId, senderVars, accepted, events, reports, faults>>

(* The row's next_attempt_at passes.  It costs a fault only when a sender  *)
(* is still working under the lease that runs out.                         *)
TimePasses(r) ==
  /\ status[r] # "NONE" /\ r \notin due
  /\ due' = due \cup {r}
  /\ IF status[r] = "SENDING" /\ Holders(r) # {} THEN Fault ELSE UNCHANGED faults
  /\ UNCHANGED <<status, attempts, metaId, senderVars, accepted, events, reports>>

(* _claim_one_outbox_row: one statement, rows locked by others skipped.    *)
Claim(s, r) ==
  /\ pc[s] = "idle"
  /\ r \in due /\ status[r] \in Claimable
  /\ status' = [status EXCEPT ![r] = "SENDING"]
  /\ due' = due \ {r}
  /\ attempts' = [attempts EXCEPT ![r] = ClaimCount(status[r], @)]
  /\ pc' = [pc EXCEPT ![s] = "claimed"]
  /\ row' = [row EXCEPT ![s] = r]
  /\ UNCHANGED <<metaId, id, accepted, events, reports, faults>>

(* Meta takes the message and will report on it: delivered and read, in    *)
(* either order of arrival, or failed.  Either the sender reads the id or  *)
(* the answer is lost or unusable (timeout, bad JSON, no id in it), which  *)
(* the sender takes for a retryable failure.                               *)
MetaAccepts(s) ==
  LET r == row[s]
      n == accepted[r] + 1
      report(T) == events' = events \cup [row : {r}, id : {n}, type : T]
  IN /\ pc[s] = "claimed"
     /\ accepted' = [accepted EXCEPT ![r] = n]
     /\ \/ report({"DELIVERED", "READ"}) /\ UNCHANGED faults
        \/ report({"FAILED"}) /\ Fault
     /\ \/ /\ pc' = [pc EXCEPT ![s] = "accepted"]
           /\ id' = [id EXCEPT ![s] = n]
        \/ /\ pc' = [pc EXCEPT ![s] = "retry"]
           /\ UNCHANGED id
     /\ UNCHANGED <<rowVars, row, reports>>

(* Nothing was sent: no token, connection error, 429 or 5xx (retryable);   *)
(* no phone number row, bad template, 401, 403 or other 4xx (fatal).       *)
NotSent(s) ==
  /\ pc[s] = "claimed"
  /\ \E o \in {"retry", "fatal"} : pc' = [pc EXCEPT ![s] = o]
  /\ UNCHANGED <<rowVars, row, id, accepted, events, reports, faults>>

Release(s) ==
  /\ pc' = [pc EXCEPT ![s] = "idle"]
  /\ row' = [row EXCEPT ![s] = None]
  /\ id' = [id EXCEPT ![s] = 0]

(* _finalize_sent: UPDATE ... WHERE status = 'SENDING'.                    *)
FinalizeSent(s) ==
  /\ pc[s] = "accepted"
  /\ IF StillSending(row[s])
       THEN /\ status' = [status EXCEPT ![row[s]] = "SENT"]
            /\ metaId' = [metaId EXCEPT ![row[s]] = id[s]]
       ELSE UNCHANGED <<status, metaId>>
  /\ Release(s)
  /\ UNCHANGED <<attempts, due, accepted, events, reports, faults>>

(* _finalize_failure_or_dead.                                              *)
FinalizeFailure(s) ==
  LET r == row[s]
      newCount == attempts[r] + 1
  IN /\ pc[s] \in {"retry", "fatal"}
     /\ \/ /\ ~StillSending(r)
           /\ UNCHANGED <<status, attempts, due>>
        \/ /\ StillSending(r)
           /\ attempts' = [attempts EXCEPT ![r] = newCount]
           /\ IF pc[s] = "fatal" \/ Exhausted(newCount)
                THEN status' = [status EXCEPT ![r] = "DEAD"] /\ UNCHANGED due
                ELSE status' = [status EXCEPT ![r] = "FAILED"] /\ due' = due \ {r}
     /\ Release(s)
     /\ UNCHANGED <<metaId, accepted, events, reports, faults>>

(* The process dies, or an exception leaves run_once (a finalize that      *)
(* fails in the database): the row keeps its lease, nothing else is kept.  *)
Crash(s) ==
  /\ pc[s] # "idle" /\ Fault
  /\ Release(s)
  /\ UNCHANGED <<rowVars, accepted, events, reports>>

(* meta_status: the event is looked up by meta_message_id; an event whose  *)
(* id no row carries (yet) is dropped.  Meta may deliver it once more.     *)
StatusWebhook(e) ==
  /\ e \in events
  /\ \/ events' = events \ {e} /\ UNCHANGED faults
     \/ UNCHANGED events /\ Fault
  /\ IF Matches(e)
       THEN /\ status' = [status EXCEPT ![e.row] = e.type]
            /\ reports' = [reports EXCEPT ![e.row] =
                             IF e.type = "FAILED" THEN @ + 1 ELSE @]
       ELSE UNCHANGED <<status, reports>>
  /\ UNCHANGED <<attempts, due, metaId, senderVars, accepted>>

Next ==
  \/ \E r \in Rows : Enqueue(r) \/ TimePasses(r)
  \/ \E s \in Senders, r \in Rows : Claim(s, r)
  \/ \E s \in Senders : \/ MetaAccepts(s) \/ NotSent(s)
                        \/ FinalizeSent(s) \/ FinalizeFailure(s)
                        \/ Crash(s)
  \/ \E e \in events : StatusWebhook(e)

(* main() loops for ever and run_once claims until nothing is due, oldest  *)
(* next_attempt_at first, so no due row is passed over for ever; every     *)
(* claim is worked off because the HTTP client has timeouts; clocks run.   *)
Fairness ==
  /\ \A r \in Rows : WF_vars(TimePasses(r))
  /\ \A r \in Rows : SF_vars(\E s \in Senders : Claim(s, r))
  /\ \A s \in Senders : WF_vars(MetaAccepts(s) \/ NotSent(s))
  /\ \A s \in Senders : WF_vars(FinalizeSent(s) \/ FinalizeFailure(s))

Spec == Init /\ [][Next]_vars
FairSpec == Spec /\ Fairness

-----------------------------------------------------------------------------
(* A row that is SENT, DELIVERED or READ carries an id that Meta really    *)
(* handed out for this row: no path through timeouts, expired leases,      *)
(* crashes or webhooks shows a message as sent that Meta never accepted.   *)
SentWasAccepted ==
  \A r \in Rows :
    status[r] \in SentStatus => metaId[r] \in 1..accepted[r]

(* Every copy of a message beyond the first is paid for by a counted       *)
(* attempt or by a failure report from Meta: leases, crashes and stale     *)
(* senders may duplicate a message, but never for free.                    *)
CopiesBounded ==
  \A r \in Rows : accepted[r] <= attempts[r] + reports[r] + 1

(* A row the sender gave back for a retry has attempts left, whatever      *)
(* number of expired leases was counted before.                            *)
RetryBelowMax ==
  \A r \in Rows :
    status[r] = "FAILED" /\ metaId[r] = 0 => attempts[r] < MaxAttempts

(* A settled row is touched again only by a status webhook that carries    *)
(* the id recorded in the row: no late sender, reclaim or retry reopens    *)
(* what was SENT, DELIVERED, READ or DEAD.                                 *)
SettledIsStable ==
  [][\A r \in Rows :
       status[r] \in SentStatus \cup {"DEAD"} /\ status'[r] # status[r]
         => \E e \in events : e.row = r /\ e.id = metaId[r] /\ e.type = status'[r]
    ]_vars

(* Every inserted message is eventually recorded as sent or given up.      *)
EventuallySettled ==
  \A r \in Rows :
    status[r] = "PENDING" ~> status[r] \in SentStatus \cup {"DEAD"}

-----------------------------------------------------------------------------
(* The outbox implements Delivery.                                         *)
Outcome(st) ==
  IF st = "NONE" THEN "none"
  ELSE IF st = "DEAD" THEN "dead"
  ELSE IF st \in SentStatus THEN "sent" ELSE "open"

outcomeBar == [r \in Rows |-> Outcome(status[r])]

Abstract == INSTANCE Delivery
              WITH outcome <- outcomeBar, issued <- accepted, recorded <- metaId

(* Every step of senders, clocks, crashes and webhooks is a step Delivery  *)
(* allows, or no step of it at all.                                        *)
ImplementsDelivery == Abstract!Spec
=============================================================================
