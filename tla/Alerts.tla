------------------------------- MODULE Alerts -------------------------------
(***************************************************************************)
(* backend/workers/alert_eval_worker.py: one transaction per tick looks    *)
(* for a spike of DEAD outbox rows and then for one of Meta webhook        *)
(* errors, records an alert for each, once per time slot (dedupe_key), and *)
(* starts the run of the SOP that the configuration maps the alert to.     *)
(*                                                                         *)
(* insert_ops_alert_event catches the IntegrityError of a duplicate, but   *)
(* PostgreSQL has aborted the transaction: the next statement raises, and  *)
(* a COMMIT is a ROLLBACK that says nothing.                               *)
(*                                                                         *)
(* Which spikes there are is up to the rows of other components and the    *)
(* configured thresholds, so it is any choice.                             *)
(***************************************************************************)
EXTENDS OpsDesk

CONSTANTS
  Evaluators,       \* processes that run alert_eval_worker
  MapKey,           \* the key alerts.sop_trigger_map; its value is "mapped" or not
  SopFor,           \* the SOP it maps an alert type to
  Width,            \* the length of an alert type's slots
  Horizon           \* bound: the time a behaviour may reach

Types == {"dead", "meta"}
Slots == 0..Horizon
AlertRow(a) == <<"alert", a[1], a[2]>>
AutoRow(a) == <<"run", a[1], a[2]>>
AlertIds == Types \X Slots
AlertRows == {AlertRow(a) : a \in AlertIds} \cup {AutoRow(a) : a \in AlertIds}

ASSUME AlertsNameSops == \A type \in Types : SopFor[type] \in Sops
ASSUME NoneIsNoAlert == None # "recorded" /\ None \notin [sop : Sops, version : Versions]

VARIABLES
  now,              \* the time
  eval,             \* the local state of every evaluator
  due               \* alerts for which a mapped, active SOP was found

alertVars == <<now, eval, due>>

AtRest == [pc |-> "idle", spikes |-> {}, time |-> 0, aborted |-> FALSE]

AlertsInit == now = 0 /\ eval = [e \in Evaluators |-> AtRest] /\ due = {}

(* _window_floor_key.                                                      *)
AlertOf(e, type) == <<type, eval[e].time \div Width[type]>>

TimePasses == now < Horizon /\ now' = now + 1 /\ UNCHANGED <<eval, due>>

StartTick(e, spikes) ==
  /\ eval[e].pc = "idle"
  /\ eval' = [eval EXCEPT ![e] = [AtRest EXCEPT !.pc = "dead", !.spikes = spikes,
                                                !.time = now]]
  /\ UNCHANGED <<dbVars, now, due>>

Then(type) == IF type = "dead" THEN "meta" ELSE "commit"

(* maybe_create_auto_sop_run: the configuration and the SOP are read       *)
(* without locks (here at once), and a run of this alert is not repeated.  *)
Mapped(e, type) ==
  LET map == Sees(e, ConfigRow(MapKey))
      sop == Sees(e, SopRow(SopFor[type]))
  IN map # None /\ map.value = "mapped" /\ sop # None /\ sop.status = "active"

RunOfType(e, a) == \E t \in Slots : Sees(e, AutoRow(<<a[1], t>>)) # None
RunExists(e, a) == Sees(e, AutoRow(a)) # None

AutoRun(e, a) ==
  IF Mapped(e, a[1]) /\ ~RunExists(e, a)
    THEN Row(AutoRow(a), [sop |-> SopFor[a[1]],
                          version |-> Sees(e, SopRow(SopFor[a[1]])).current])
    ELSE NoRow

(* One of the two evaluations: no spike; a failed statement, since the     *)
(* transaction is aborted; a duplicate, which aborts it; or a new alert.   *)
NoSpike(e, type) ==
  /\ type \notin eval[e].spikes /\ ~eval[e].aborted
  /\ eval' = [eval EXCEPT ![e].pc = Then(type)]
  /\ UNCHANGED <<dbVars, due>>

StatementFails(e) ==
  /\ eval[e].aborted
  /\ Rollback(e)
  /\ eval' = [eval EXCEPT ![e] = AtRest]
  /\ UNCHANGED due

Record(e, type) ==
  LET a == AlertOf(e, type)
  IN /\ type \in eval[e].spikes /\ ~eval[e].aborted
     /\ CanLock(e, AlertRow(a))
     /\ IF new[AlertRow(a)] # None
          THEN /\ eval' = [eval EXCEPT ![e].pc = Then(type), ![e].aborted = TRUE]
               /\ UNCHANGED <<dbVars, due>>
          ELSE /\ Write(e, Both(Row(AlertRow(a), "recorded"), AutoRun(e, a)))
               /\ due' = IF Mapped(e, type) THEN due \cup {a} ELSE due \ {a}
               /\ eval' = [eval EXCEPT ![e].pc = Then(type)]

Evaluate(e) ==
  /\ \E type \in Types :
       /\ eval[e].pc = type
       /\ NoSpike(e, type) \/ StatementFails(e) \/ Record(e, type)
  /\ UNCHANGED now

EndTick(e) ==
  /\ eval[e].pc = "commit"
  /\ IF eval[e].aborted THEN Rollback(e) ELSE Publish(e)
  /\ eval' = [eval EXCEPT ![e] = AtRest]
  /\ UNCHANGED <<now, due>>

LoseEvaluation(e) ==
  /\ eval[e].pc # "idle"
  /\ Rollback(e)
  /\ eval' = [eval EXCEPT ![e] = AtRest]
  /\ UNCHANGED <<now, due>>

-----------------------------------------------------------------------------
(* An alert and the run of its SOP are recorded together: each alert for   *)
(* which a mapped, active SOP was found has its run, and no run is there   *)
(* without its alert, although later statements may abort the transaction. *)
AlertsWithRuns ==
  \A a \in AlertIds :
    db[AutoRow(a)] # None <=> db[AlertRow(a)] # None /\ a \in due
=============================================================================
