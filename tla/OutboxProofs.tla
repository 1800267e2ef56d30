---------------------------- MODULE OutboxProofs ----------------------------
(***************************************************************************)
(* Outbox's invariants and its refinement of Delivery, for any sets of     *)
(* rows and senders and any values of MaxAttempts and MaxFaults.           *)
(***************************************************************************)
EXTENDS Outbox, FiniteSetTheorems, TLAPS

(* What a sender remembers is about a row it really claimed, and the id it *)
(* remembers is one Meta handed out for that row.                          *)
SenderOK ==
  \A s \in Senders :
    /\ pc[s] # "idle" => row[s] \in Rows
    /\ pc[s] = "accepted" => id[s] \in 1..accepted[row[s]]

(* A row nobody inserted has not been claimed.                             *)
NoneUntouched ==
  \A s \in Senders : pc[s] # "idle" => status[row[s]] # "NONE"

(* A row records only an id Meta handed out for it, and has one if sent.   *)
IdIssued ==
  \A r \in Rows :
    /\ metaId[r] \in 0..accepted[r]
    /\ status[r] \in SentStatus => metaId[r] # 0

(* A report in flight is about an acceptance that happened.                *)
EventIssued == \A e \in events : e.id \in 1..accepted[e.row]

TypeInv == TypeOK /\ SenderOK /\ NoneUntouched /\ IdIssued /\ EventIssued

LEMMA InitTypeInv == Init => TypeInv
BY MaxFaultsNat
DEF Init, TypeInv, TypeOK, SenderOK, NoneUntouched, IdIssued, EventIssued,
    Status, SentStatus

LEMMA StepTypeInv == TypeInv /\ [Next]_vars => TypeInv'
<1> SUFFICES ASSUME TypeInv, [Next]_vars PROVE TypeInv'
  OBVIOUS
<1> USE NoneIsNoRow DEF TypeInv, TypeOK, SenderOK, NoneUntouched, IdIssued,
        EventIssued, Status, SentStatus, rowVars, senderVars
<1>1. ASSUME NEW r \in Rows, Enqueue(r) PROVE TypeInv'
  BY <1>1 DEF Enqueue, InsertStatus
<1>2. ASSUME NEW r \in Rows, TimePasses(r) PROVE TypeInv'
  BY <1>2 DEF TimePasses, Fault
<1>3. ASSUME NEW s \in Senders, NEW r \in Rows, Claim(s, r) PROVE TypeInv'
  BY <1>3 DEF Claim, ClaimCount, Claimable
<1>4. ASSUME NEW s \in Senders, MetaAccepts(s) PROVE TypeInv'
  BY <1>4 DEF MetaAccepts, Fault, EventType
<1>5. ASSUME NEW s \in Senders, NotSent(s) PROVE TypeInv'
  BY <1>5 DEF NotSent
<1>6. ASSUME NEW s \in Senders, FinalizeSent(s) PROVE TypeInv'
  BY <1>6 DEF FinalizeSent, StillSending, Release
<1>7. ASSUME NEW s \in Senders, FinalizeFailure(s) PROVE TypeInv'
  BY <1>7 DEF FinalizeFailure, StillSending, Release
<1>8. ASSUME NEW s \in Senders, Crash(s) PROVE TypeInv'
  BY <1>8 DEF Crash, Release, Fault
<1>9. ASSUME NEW e \in events, StatusWebhook(e) PROVE TypeInv'
  <2>1. e \in [row : Rows, id : Nat, type : EventType] /\ e.id # 0
    BY <1>9
  <2>2. CASE ~Matches(e)
    BY <1>9, <2>2 DEF StatusWebhook, Fault
  <2>3. CASE Matches(e)
    BY <1>9, <2>1, <2>3 DEF StatusWebhook, Matches, Fault, EventType
  <2>4. QED
    BY <2>2, <2>3
<1>10. CASE UNCHANGED vars
  BY <1>10 DEF vars
<1>11. QED
  BY <1>1, <1>2, <1>3, <1>4, <1>5, <1>6, <1>7, <1>8, <1>9, <1>10 DEF Next

LEMMA TypeInvHolds == Spec => []TypeInv
BY InitTypeInv, StepTypeInv, PTL DEF Spec

(* Every variable keeps its type, for any sets of rows and senders.        *)
THEOREM TypeCorrect == Spec => []TypeOK
<1>1. TypeInv => TypeOK
  BY DEF TypeInv
<1>2. QED
  BY <1>1, TypeInvHolds, PTL

(* A row shown as sent carries an id that Meta handed out for it.          *)
THEOREM SentIsAccepted == Spec => []SentWasAccepted
<1>1. TypeInv => SentWasAccepted
  BY DEF TypeInv, IdIssued, SentWasAccepted, TypeOK
<1>2. QED
  BY <1>1, TypeInvHolds, PTL

-----------------------------------------------------------------------------
(* Only a webhook with the recorded id touches a settled row.              *)
SettledStep ==
  \A r \in Rows :
    status[r] \in SentStatus \cup {"DEAD"} /\ status'[r] # status[r]
      => \E e \in events : e.row = r /\ e.id = metaId[r] /\ e.type = status'[r]

LEMMA StepSettled == TypeInv /\ [Next]_vars => SettledStep
<1> SUFFICES ASSUME TypeInv, [Next]_vars PROVE SettledStep
  OBVIOUS
<1> USE DEF TypeInv, TypeOK, SettledStep, SentStatus, rowVars
<1>1. ASSUME NEW r \in Rows, Enqueue(r) PROVE SettledStep
  BY <1>1 DEF Enqueue
<1>2. ASSUME NEW s \in Senders, NEW r \in Rows, Claim(s, r) PROVE SettledStep
  BY <1>2 DEF Claim, Claimable
<1>3. ASSUME NEW s \in Senders, FinalizeSent(s) PROVE SettledStep
  BY <1>3 DEF FinalizeSent, StillSending
<1>4. ASSUME NEW s \in Senders, FinalizeFailure(s) PROVE SettledStep
  BY <1>4 DEF FinalizeFailure, StillSending
<1>5. ASSUME NEW e \in events, StatusWebhook(e) PROVE SettledStep
  BY <1>5 DEF StatusWebhook, Matches
<1>6. ASSUME UNCHANGED status PROVE SettledStep
  BY <1>6
<1>7. QED
  BY <1>1, <1>2, <1>3, <1>4, <1>5, <1>6
  DEF Next, vars, TimePasses, MetaAccepts, NotSent, Crash

(* A settled row changes only by a report from Meta about its own id.      *)
THEOREM SettledStable == Spec => SettledIsStable
<1>1. TypeInv /\ [Next]_vars => [SettledStep]_vars
  BY StepSettled
<1>2. Spec => [][SettledStep]_vars
  BY <1>1, TypeInvHolds, PTL DEF Spec
<1>3. QED
  BY <1>2 DEF SettledIsStable, SettledStep

-----------------------------------------------------------------------------
LEMMA StepRetry == TypeInv /\ RetryBelowMax /\ [Next]_vars => RetryBelowMax'
<1> SUFFICES ASSUME TypeInv, RetryBelowMax, [Next]_vars PROVE RetryBelowMax'
  OBVIOUS
<1> USE MaxAttemptsPos DEF TypeInv, TypeOK, RetryBelowMax, rowVars
<1>1. ASSUME NEW r \in Rows, Enqueue(r) PROVE RetryBelowMax'
  BY <1>1 DEF Enqueue, InsertStatus
<1>2. ASSUME NEW s \in Senders, NEW r \in Rows, Claim(s, r) PROVE RetryBelowMax'
  BY <1>2 DEF Claim, ClaimCount
<1>3. ASSUME NEW s \in Senders, FinalizeSent(s) PROVE RetryBelowMax'
  BY <1>3 DEF FinalizeSent, StillSending
<1>4. ASSUME NEW s \in Senders, FinalizeFailure(s) PROVE RetryBelowMax'
  BY <1>4 DEF FinalizeFailure, StillSending, Exhausted, SenderOK
<1>5. ASSUME NEW e \in events, StatusWebhook(e) PROVE RetryBelowMax'
  <2>1. e \in [row : Rows, id : Nat, type : EventType] /\ e.id # 0
    BY DEF EventIssued
  <2>2. QED
    BY <1>5, <2>1 DEF StatusWebhook, Matches
<1>6. ASSUME UNCHANGED <<status, metaId, attempts>> PROVE RetryBelowMax'
  BY <1>6
<1>7. QED
  BY <1>1, <1>2, <1>3, <1>4, <1>5, <1>6
  DEF Next, vars, TimePasses, MetaAccepts, NotSent, Crash

(* What is scheduled for a retry still has attempts left.                  *)
THEOREM RetryBelow == Spec => []RetryBelowMax
<1>1. Init => RetryBelowMax
  BY DEF Init, RetryBelowMax
<1>2. QED
  BY <1>1, StepRetry, TypeInvHolds, PTL DEF Spec

-----------------------------------------------------------------------------
(* The budget behind CopiesBounded: a row's copies and the senders about   *)
(* to make another are covered by its counted attempts, the failures Meta  *)
(* reported and, once it is claimed, the attempt being made.               *)
Claimed(st) == IF st \in {"NONE", "PENDING", "FAILED"} THEN 0 ELSE 1

Paid ==
  \A r \in Rows :
    accepted[r] + Cardinality(Claimants(r))
      <= attempts[r] + reports[r] + Claimed(status[r])

LEMMA ClaimantsFinite ==
  \A r : IsFiniteSet(Claimants(r)) /\ Cardinality(Claimants(r)) \in Nat
BY SendersFinite, FS_Subset, FS_CardinalityType, Zenon DEF Claimants

LEMMA InitPaid == Init => Paid
<1> SUFFICES ASSUME Init, NEW r \in Rows
             PROVE accepted[r] + Cardinality(Claimants(r))
                     <= attempts[r] + reports[r] + Claimed(status[r])
  BY DEF Paid
<1>1. Claimants(r) = {}
  BY DEF Init, Claimants
<1>2. Cardinality(Claimants(r)) = 0
  BY <1>1, FS_EmptySet
<1>3. QED
  BY <1>2 DEF Init, Claimed

(* A step that leaves a row's claimants among those there were, and what   *)
(* the row has been granted no smaller, keeps the budget.                  *)
LEMMA StepPaid == TypeInv /\ TypeInv' /\ Paid /\ [Next]_vars => Paid'
<1> SUFFICES ASSUME TypeInv, TypeInv', Paid, [Next]_vars, NEW q \in Rows
             PROVE (accepted[q] + Cardinality(Claimants(q))
                      <= attempts[q] + reports[q] + Claimed(status[q]))'
  BY DEF Paid
<1> DEFINE C == Cardinality(Claimants(q))
           D == Cardinality(Claimants(q)')
<1>a. C \in Nat /\ IsFiniteSet(Claimants(q))
  BY ClaimantsFinite
<1>b. D \in Nat
  <2>1. IsFiniteSet(Claimants(q)')
    BY SendersFinite, FS_Subset, Zenon DEF Claimants
  <2>2. QED
    BY <2>1, FS_CardinalityType
<1>c. accepted[q] + C <= attempts[q] + reports[q] + Claimed(status[q])
  BY DEF Paid
<1>d. ASSUME Claimants(q)' \subseteq Claimants(q) PROVE D <= C
  BY <1>a, <1>d, FS_Subset
<1>e. accepted[q] \in Nat /\ attempts[q] \in Nat /\ reports[q] \in Nat
  BY DEF TypeInv, TypeOK
<1>f. \A st : Claimed(st) \in Nat
  BY DEF Claimed
<1> HIDE DEF C, D
<1> SUFFICES accepted'[q] + D <= attempts'[q] + reports'[q] + Claimed(status'[q])
  BY DEF D, Claimed
<1>1. ASSUME NEW r \in Rows, Enqueue(r)
      PROVE accepted'[q] + D <= attempts'[q] + reports'[q] + Claimed(status'[q])
  <2>1. D <= C
    BY <1>1, <1>d DEF Enqueue, Claimants, senderVars
  <2>2. QED
    BY <1>1, <1>a, <1>b, <1>c, <1>e, <2>1
    DEF Enqueue, InsertStatus, Claimed, TypeInv, TypeOK
<1>2. ASSUME NEW s \in Senders, NEW r \in Rows, Claim(s, r)
      PROVE accepted'[q] + D <= attempts'[q] + reports'[q] + Claimed(status'[q])
  <2>1. CASE q = r
    <3>1. Claimants(q)' = Claimants(q) \cup {s} /\ s \notin Claimants(q)
      BY <1>2, <2>1 DEF Claim, Claimants, TypeInv, TypeOK
    <3>2. D = C + 1
      BY <3>1, <1>a, FS_AddElement DEF C, D
    <3>3. QED
      BY <1>2, <2>1, <3>2, <1>a, <1>c, <1>e
      DEF Claim, ClaimCount, Claimable, Claimed, TypeInv, TypeOK
  <2>2. CASE q # r
    <3>1. D <= C
      BY <1>2, <2>2, <1>d DEF Claim, Claimants, TypeInv, TypeOK
    <3>2. QED
      BY <1>2, <2>2, <3>1, <1>a, <1>b, <1>c, <1>e, <1>f DEF Claim, TypeInv, TypeOK
  <2>3. QED
    BY <2>1, <2>2
<1>3. ASSUME NEW s \in Senders, MetaAccepts(s)
      PROVE accepted'[q] + D <= attempts'[q] + reports'[q] + Claimed(status'[q])
  <2>1. CASE q = row[s]
    <3>1. Claimants(q)' = Claimants(q) \ {s} /\ s \in Claimants(q)
      BY <1>3, <2>1 DEF MetaAccepts, Claimants, TypeInv, TypeOK
    <3>2. D = C - 1
      BY <3>1, <1>a, FS_RemoveElement DEF C, D
    <3>3. QED
      BY <1>3, <2>1, <3>2, <1>a, <1>c, <1>e
      DEF MetaAccepts, rowVars, TypeInv, TypeOK
  <2>2. CASE q # row[s]
    <3>1. D <= C
      BY <1>3, <2>2, <1>d DEF MetaAccepts, Claimants, TypeInv, TypeOK
    <3>2. QED
      BY <1>3, <2>2, <3>1, <1>a, <1>b, <1>c, <1>e, <1>f
      DEF MetaAccepts, rowVars, TypeInv, TypeOK
  <2>3. QED
    BY <2>1, <2>2
<1>4. ASSUME NEW s \in Senders, NotSent(s) \/ Crash(s)
      PROVE accepted'[q] + D <= attempts'[q] + reports'[q] + Claimed(status'[q])
  <2>1. D <= C
    BY <1>4, <1>d DEF NotSent, Crash, Release, Claimants, TypeInv, TypeOK
  <2>2. QED
    BY <1>4, <2>1, <1>a, <1>b, <1>c, <1>e, <1>f DEF NotSent, Crash, rowVars
<1>5. ASSUME NEW s \in Senders, FinalizeSent(s)
      PROVE accepted'[q] + D <= attempts'[q] + reports'[q] + Claimed(status'[q])
  <2>1. D <= C
    BY <1>5, <1>d DEF FinalizeSent, Release, Claimants, TypeInv, TypeOK
  <2>2. QED
    BY <1>5, <2>1, <1>a, <1>b, <1>c, <1>e
    DEF FinalizeSent, StillSending, Claimed, TypeInv, TypeOK
<1>6. ASSUME NEW s \in Senders, FinalizeFailure(s)
      PROVE accepted'[q] + D <= attempts'[q] + reports'[q] + Claimed(status'[q])
  <2>1. D <= C
    BY <1>6, <1>d DEF FinalizeFailure, Release, Claimants, TypeInv, TypeOK
  <2>2. QED
    BY <1>6, <2>1, <1>a, <1>b, <1>c, <1>e
    DEF FinalizeFailure, StillSending, Claimed, TypeInv, TypeOK
<1>7. ASSUME NEW e \in events, StatusWebhook(e)
      PROVE accepted'[q] + D <= attempts'[q] + reports'[q] + Claimed(status'[q])
  <2>1. D <= C
    BY <1>7, <1>d DEF StatusWebhook, senderVars, Claimants
  <2>2. e \in [row : Rows, id : Nat, type : EventType]
    BY DEF TypeInv, TypeOK
  <2>3. QED
    BY <1>7, <2>1, <2>2, <1>a, <1>b, <1>c, <1>e
    DEF StatusWebhook, EventType, Claimed, TypeInv, TypeOK
<1>8. ASSUME UNCHANGED <<senderVars, status, attempts, accepted, reports>>
      PROVE accepted'[q] + D <= attempts'[q] + reports'[q] + Claimed(status'[q])
  <2>1. D <= C
    BY <1>8, <1>d DEF senderVars, Claimants
  <2>2. QED
    BY <1>8, <2>1, <1>a, <1>b, <1>c, <1>e, <1>f
<1>9. QED
  BY <1>1, <1>2, <1>3, <1>4, <1>5, <1>6, <1>7, <1>8
  DEF Next, vars, TimePasses, senderVars

(* Duplicates are paid for: every copy beyond the first has a counted      *)
(* attempt or a failure report behind it, with any number of senders,      *)
(* crashes and early lease expiries.                                       *)
THEOREM CopiesAreBounded == Spec => []CopiesBounded
<1>1. TypeInv /\ Paid => CopiesBounded
  <2> SUFFICES ASSUME TypeInv, Paid, NEW r \in Rows
               PROVE accepted[r] <= attempts[r] + reports[r] + 1
    BY DEF CopiesBounded
  <2>1. Cardinality(Claimants(r)) \in Nat
    BY ClaimantsFinite
  <2>2. QED
    BY <2>1 DEF Paid, Claimed, TypeInv, TypeOK
<1>2. Spec => []Paid
  BY InitPaid, StepPaid, TypeInvHolds, PTL DEF Spec
<1>3. QED
  BY <1>1, <1>2, TypeInvHolds, PTL

-----------------------------------------------------------------------------
LEMMA InitAbstract == Init => Abstract!Init
<1>1. Outcome("NONE") = "none"
  BY DEF Outcome
<1>2. Init => outcomeBar = [r \in Rows |-> "none"]
  BY <1>1 DEF Init, outcomeBar
<1>3. QED
  BY <1>2 DEF Init, Abstract!Init

LEMMA StepAbstract ==
  TypeInv /\ TypeInv' /\ [Next]_vars => [Abstract!Next]_(Abstract!dvars)
<1> SUFFICES ASSUME TypeInv, TypeInv', [Next]_vars,
                    UNCHANGED <<outcomeBar, accepted, metaId>> => FALSE
             PROVE Abstract!Next
  BY DEF Abstract!dvars
<1> USE DEF outcomeBar, Outcome, SentStatus
<1>t. status \in [Rows -> Status]
  BY DEF TypeInv, TypeOK
<1>1. ASSUME NEW r \in Rows, Enqueue(r) PROVE Abstract!Open(r)
  BY <1>1, <1>t DEF Enqueue, InsertStatus, Abstract!Open
<1>2. ASSUME NEW s \in Senders, NEW r \in Rows, Claim(s, r) PROVE FALSE
  BY <1>2, <1>t DEF Claim, Claimable
<1>3. ASSUME NEW s \in Senders, MetaAccepts(s)
      PROVE row[s] \in Rows /\ Abstract!Issue(row[s])
  <2>1. row[s] \in Rows /\ status[row[s]] # "NONE"
    BY <1>3 DEF MetaAccepts, TypeInv, SenderOK, NoneUntouched
  <2>2. accepted' = [accepted EXCEPT ![row[s]] = @ + 1]
    BY <1>3, <2>1 DEF MetaAccepts, TypeInv, TypeOK
  <2>3. UNCHANGED <<status, metaId>>
    BY <1>3 DEF MetaAccepts, rowVars
  <2>4. QED
    BY <2>1, <2>2, <2>3, <1>t DEF Abstract!Issue, Status
<1>4. ASSUME NEW s \in Senders, FinalizeSent(s)
      PROVE row[s] \in Rows /\ Abstract!Record(row[s])
  <2>1. row[s] \in Rows /\ id[s] \in 1..accepted[row[s]]
    BY <1>4 DEF FinalizeSent, TypeInv, SenderOK
  <2>2. StillSending(row[s])
    BY <1>4 DEF FinalizeSent
  <2>3. QED
    BY <1>4, <2>1, <2>2, <1>t DEF FinalizeSent, StillSending, Abstract!Record
<1>5. ASSUME NEW s \in Senders, FinalizeFailure(s)
      PROVE row[s] \in Rows /\ Abstract!GiveUp(row[s])
  <2>1. row[s] \in Rows
    BY <1>5 DEF FinalizeFailure, TypeInv, SenderOK
  <2>2. StillSending(row[s])
    BY <1>5 DEF FinalizeFailure
  <2>3. status' = [status EXCEPT ![row[s]] = "DEAD"]
    BY <1>5, <2>1, <2>2, <1>t DEF FinalizeFailure, StillSending
  <2>4. QED
    BY <1>5, <2>1, <2>2, <2>3, <1>t
    DEF FinalizeFailure, StillSending, Abstract!GiveUp
<1>6. ASSUME NEW e \in events, StatusWebhook(e)
      PROVE e.row \in Rows /\ Abstract!MetaReport(e.row)
  <2>1. e.row \in Rows /\ e.type \in EventType /\ e.id # 0
    BY DEF TypeInv, TypeOK, EventIssued
  <2>2. Matches(e)
    BY <1>6 DEF StatusWebhook
  <2>3. status' = [status EXCEPT ![e.row] = e.type] /\ UNCHANGED <<accepted, metaId>>
    BY <1>6, <2>2 DEF StatusWebhook
  <2>4. QED
    BY <2>1, <2>2, <2>3, <1>t DEF Matches, EventType, Abstract!MetaReport
<1>7. ASSUME UNCHANGED <<status, accepted, metaId>> PROVE FALSE
  BY <1>7
<1>8. (\E r \in Rows : TimePasses(r)) \/ (\E s \in Senders : NotSent(s) \/ Crash(s))
        \/ UNCHANGED vars
        => UNCHANGED <<status, accepted, metaId>>
  BY DEF TimePasses, NotSent, Crash, rowVars, vars
<1> HIDE DEF outcomeBar, Outcome, SentStatus
<1>9. QED
  BY <1>1, <1>2, <1>3, <1>4, <1>5, <1>6, <1>7, <1>8, ZenonT(30)
  DEF Next, Abstract!Next

(* The sender processes, leases, crashes and webhooks implement the        *)
(* at-least-once Delivery.                                                 *)
THEOREM OutboxImplementsDelivery == Spec => ImplementsDelivery
<1>1. QED
  BY InitAbstract, StepAbstract, TypeInvHolds, PTL
  DEF Spec, ImplementsDelivery, Abstract!Spec
=============================================================================
