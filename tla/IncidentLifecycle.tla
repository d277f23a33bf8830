-------------------------- MODULE IncidentLifecycle --------------------------
(***************************************************************************)
(* The path of an incident through the agent (uyuni_ai_agent/main.py): the *)
(* poll loop reconciles the snapshot of each minion, resolves what is gone *)
(* and queues what is due; the workers of the queue investigate it and     *)
(* deliver the alert; the store remembers what was delivered.              *)
(*                                                                         *)
(* Everything runs on one asyncio event loop.  A task runs until it awaits *)
(* something that is not there yet: the answer of the LLM, an answer of    *)
(* Alertmanager, or work in the queue.  turn names the task that has begun *)
(* to run and has not come to such a point; no other task steps meanwhile. *)
(*                                                                         *)
(* Alertmanager identifies an alert by its labels.  Those of an incident   *)
(* differ only in the severity, so alerts[f] is the set of severities with *)
(* which incident f is firing there.  A request that the agent has given   *)
(* up is not recalled: it may be applied later, and more than once.        *)
(***************************************************************************)
EXTENDS Naturals, FiniteSets

CONSTANTS
    Fingerprints, Minions, MinionOf, Severities, ResolveAfter, Generations,
    Workers, MaxPending, None,
    Changing,       \* incidents whose anomaly may appear, change or go
    SaltChecks,     \* incidents that only Salt can observe
    Faults,         \* which faults occur
    MaxFaults       \* bound on the number of faults in a behaviour

ASSUME LifecycleAssumption ==
    /\ MinionOf \in [Fingerprints -> Minions]
    /\ ResolveAfter \in Nat \ {0} /\ Generations \in Nat \ {0}
    /\ MaxPending \in Nat \ {0}
    /\ Changing \subseteq Fingerprints /\ SaltChecks \subseteq Fingerprints
    /\ Faults \subseteq {"abort", "astray", "poll", "crash", "salt"}
    /\ MaxFaults \in Nat
    /\ Minions \cap Workers = {} /\ None \notin Fingerprints \cup Minions \cup Workers

VARIABLES
    rows, changes,                              \* the incident store
    heap, inFlight, accepting, closing,         \* the investigation queue
    pc, job, closer, shutdown,
    anomaly,    \* the severity of each anomaly of the system, or None
    alerts,     \* the severities each incident is firing with
    stage,      \* what the handler of each worker waits for
    resolving,  \* the incident each poll task sends a resolution of, or None
    answered,   \* the poll tasks whose resolution Alertmanager has applied
    stray,      \* the requests to Alertmanager given up while under way
    turn,       \* the task that runs, or None
    budget      \* how many faults may still occur

storeVars == <<rows, changes>>
queueVars == <<heap, inFlight, accepting, closing, pc, job, closer, shutdown>>
pollVars  == <<resolving, answered>>
vars == <<storeVars, queueVars, anomaly, alerts, stray, stage, pollVars, turn, budget>>

Store == INSTANCE IncidentStore
Queue == INSTANCE InvestigationQueue WITH Payloads <- Store!Work

ASSUME NoneIsNoRow == None \notin Store!Row /\ None \notin Severities

Init ==
    /\ Store!StoreInit
    /\ Queue!QueueInit
    /\ anomaly \in [Fingerprints -> Severities \cup {None}]
    /\ alerts = [f \in Fingerprints |-> {}]
    /\ stage = [w \in Workers |-> "none"]
    /\ resolving = [m \in Minions |-> None]
    /\ answered = {} /\ stray = {}
    /\ turn = None
    /\ budget = MaxFaults

Fault(kind) == kind \in Faults /\ budget > 0 /\ budget' = budget - 1

(* run() starts the workers before it polls.                               *)
Start ==
    /\ Queue!Start
    /\ UNCHANGED <<storeVars, anomaly, alerts, stray, stage, pollVars, turn, budget>>

Alter(f) ==
    /\ f \in Changing
    /\ anomaly' \in {[anomaly EXCEPT ![f] = s] : s \in Severities \cup {None}}
    /\ UNCHANGED <<storeVars, queueVars, alerts, stray, stage, pollVars, turn, budget>>

CooldownElapses(f) ==
    /\ Store!CooldownElapses(f)
    /\ UNCHANGED <<changes, queueVars, anomaly, alerts, stray, stage, pollVars, turn,
                   budget>>

-----------------------------------------------------------------------------
(* The requests to Alertmanager under way: the resolution a poll task      *)
(* waits for, and what the handler of a worker withdraws or sends.         *)

Serving(w, s) == pc[w] = "running" /\ stage[w] = s

Request(f, severity, firing) ==
    [incident |-> f, severity |-> severity, firing |-> firing]

ResolutionOf(m) == Request(resolving[m], changes[m].resolved[resolving[m]], FALSE)

Withdrawing(w) == Serving(w, "withdrawing") \/ Serving(w, "withdrawn")
Delivering(w) == Withdrawing(w) \/ Serving(w, "sending") \/ Serving(w, "sent")

DeliveryOf(w) ==
    IF Withdrawing(w) THEN Request(job[w].fingerprint, job[w].payload.previous, FALSE)
                      ELSE Request(job[w].fingerprint, job[w].payload.severity, TRUE)

Resolutions == {ResolutionOf(m) : m \in {n \in Minions : resolving[n] # None}}
Deliveries == {DeliveryOf(w) : w \in {v \in Workers : Delivering(v)}}

(* What a cancelled task or a dead process leaves under way, but for what  *)
(* is lost on its way.                                                     *)
Strand(requests) == \E late \in SUBSET requests : stray' = stray \cup late

-----------------------------------------------------------------------------
(* One poll of a minion: process_minion_anomalies().  What is still to be  *)
(* done with the returned IncidentChanges is changes[m].                   *)

Idle(m) == resolving[m] = None /\ changes[m] = Store!NoChanges

Observed(m) == {f \in Store!IncidentsOf(m) : anomaly[f] # None}

(* The snapshot of detect_minion() is what the minion suffers from, but    *)
(* for what only Salt could tell while there is no Salt session.           *)
Poll(m) ==
    /\ turn = None /\ Queue!started /\ Idle(m)
    /\ turn' = m
    /\ \/ Store!Reconcile(m, [f \in Observed(m) |-> anomaly[f]]) /\ UNCHANGED budget
       \/ /\ Fault("salt")
          /\ Store!Reconcile(m, [f \in Observed(m) \ SaltChecks |-> anomaly[f]])
    /\ UNCHANGED <<queueVars, anomaly, alerts, stray, stage, pollVars>>

Handled(m, f) ==
    [changes EXCEPT ![m].resolved =
        [g \in DOMAIN @ \ {f} |-> changes[m].resolved[g]]]

(* Variant with a bug: an investigation in flight is overlooked.           *)
Overlooked(f) == FALSE

OnlyInFlight(f) == f \notin Queue!pending /\ f \in inFlight

(* Variant with a bug: the row of a silent incident stays open.            *)
LeaveOpen(f) == UNCHANGED rows

CloseSilently(f) == Store!MarkResolved(f)

(* A resolved incident: cancel its pending investigation, leave it for     *)
(* later while one is in flight, close it silently when there is no alert  *)
(* to resolve, else send the resolution and wait.                          *)
ResolveNext(m) ==
    /\ turn = m /\ resolving[m] = None
    /\ \E f \in DOMAIN changes[m].resolved :
          LET payload == changes[m].resolved[f]
          IN  /\ Queue!Cancel(f)
              /\ \/ /\ OnlyInFlight(f)
                    /\ changes' = Handled(m, f)
                    /\ UNCHANGED <<rows, resolving, turn>>
                 \/ /\ ~OnlyInFlight(f) /\ payload = None
                    /\ CloseSilently(f)
                    /\ changes' = Handled(m, f)
                    /\ UNCHANGED <<resolving, turn>>
                 \/ /\ ~OnlyInFlight(f) /\ payload # None
                    /\ resolving' = [resolving EXCEPT ![m] = f]
                    /\ turn' = None
                    /\ UNCHANGED storeVars
    /\ UNCHANGED <<anomaly, alerts, stray, stage, answered, budget>>

(* Alertmanager applies the resolution; answered remembers that the poll   *)
(* task does not know it yet.                                              *)
ApplyResolution(m) ==
    /\ resolving[m] # None /\ m \notin answered
    /\ LET f == resolving[m]
       IN  alerts' = [alerts EXCEPT ![f] = @ \ {changes[m].resolved[f]}]
    /\ answered' = answered \cup {m}
    /\ UNCHANGED <<storeVars, queueVars, anomaly, stray, stage, resolving, turn, budget>>

ResolutionEnds(m) ==
    /\ turn = None /\ resolving[m] # None
    /\ changes' = Handled(m, resolving[m])
    /\ resolving' = [resolving EXCEPT ![m] = None]
    /\ answered' = answered \ {m}
    /\ turn' = m
    /\ UNCHANGED <<queueVars, anomaly, alerts, stage>>

ResolutionReturns(m) ==
    /\ m \in answered /\ Store!MarkResolved(resolving[m])
    /\ ResolutionEnds(m)
    /\ UNCHANGED <<stray, budget>>

(* Variant with a bug: the row is closed whatever came of the delivery.    *)
CloseAnyway(m) ==
    /\ resolving[m] # None /\ m \notin answered /\ Fault("abort")
    /\ Store!MarkResolved(resolving[m]) /\ ResolutionEnds(m)
    /\ UNCHANGED stray

(* The delivery failed, or the circuit of Alertmanager refused it.         *)
ResolutionFails(m) ==
    m \notin answered /\ Fault("abort") /\ ResolutionEnds(m) /\ UNCHANGED <<rows, stray>>

ResolutionRefused(m) ==
    m \notin answered /\ ResolutionEnds(m) /\ UNCHANGED <<rows, stray, budget>>

(* Then the firing incidents are queued one by one, without a pause.       *)
EnqueueNext(m) ==
    /\ turn = m /\ resolving[m] = None /\ changes[m].resolved = Store!Nothing
    /\ \E f \in DOMAIN changes[m].firing :
          LET work == changes[m].firing[f]
          IN  /\ Queue!Enqueue(f, work.severity, work)
              /\ changes' = [changes EXCEPT ![m].firing =
                    [g \in DOMAIN @ \ {f} |-> changes[m].firing[g]]]
    /\ UNCHANGED <<rows, anomaly, alerts, stray, stage, pollVars, turn, budget>>

PollEnds(m) ==
    /\ turn = m /\ Idle(m)
    /\ turn' = None
    /\ UNCHANGED <<storeVars, queueVars, anomaly, alerts, stray, stage, pollVars, budget>>

(* poll_cycle_seconds are over: every poll task that waits is cancelled    *)
(* and drops what it had left to do.                                       *)
PollTimeout ==
    /\ turn = None /\ \E m \in Minions : resolving[m] # None
    /\ Fault("poll") /\ Strand(Resolutions)
    /\ changes' = [m \in Minions |-> Store!NoChanges]
    /\ resolving' = [m \in Minions |-> None]
    /\ answered' = {}
    /\ UNCHANGED <<rows, queueVars, anomaly, alerts, stage, turn>>

-----------------------------------------------------------------------------
(* A worker: _worker() and process_firing_investigation().                 *)

Turn(w) == turn \in {None, w}

Actionable(w) == Store!is_actionable(job[w].fingerprint, job[w].payload.starts_at)

Take(w) ==
    /\ Turn(w) /\ Queue!Take(w)
    /\ turn' = w
    /\ UNCHANGED <<storeVars, anomaly, alerts, stray, stage, pollVars, budget>>

Sleep(w) ==
    /\ Turn(w) /\ Queue!Sleep(w)
    /\ turn' = None
    /\ UNCHANGED <<storeVars, anomaly, alerts, stray, stage, pollVars, budget>>

(* The handler ends, and the worker asks the queue for more at once.       *)
End(w) ==
    /\ Queue!Finish(w)
    /\ stage' = [stage EXCEPT ![w] = "none"]
    /\ turn' = w

AwaitAt(w, s) ==
    /\ stage' = [stage EXCEPT ![w] = s]
    /\ turn' = None
    /\ UNCHANGED queueVars

(* A job too old, or no longer actionable, is dropped; otherwise the       *)
(* investigation begins.                                                   *)
Begin(w) ==
    /\ turn = w /\ Serving(w, "none")
    /\ \/ Actionable(w) /\ AwaitAt(w, "investigating") /\ UNCHANGED budget
       \/ ~Actionable(w) /\ End(w) /\ UNCHANGED budget
       \/ Fault("abort") /\ End(w)
    /\ UNCHANGED <<storeVars, anomaly, alerts, stray, pollVars>>

(* Variant with a bug: the labels are never compared.                      *)
SameLabels(work) == FALSE

Relabels(work) == work.previous \notin {None, work.severity}

(* The analysis is there: drop it when the incident recovered meanwhile;   *)
(* withdraw the alert with other labels first, if there is one.            *)
Investigated(w) ==
    /\ turn = None /\ Serving(w, "investigating")
    /\ LET relabels == Relabels(job[w].payload)
       IN  \/ ~Actionable(w) /\ End(w)
           \/ Actionable(w) /\ relabels /\ AwaitAt(w, "withdrawing")
           \/ Actionable(w) /\ ~relabels /\ AwaitAt(w, "sending")
    /\ UNCHANGED <<storeVars, anomaly, alerts, stray, pollVars, budget>>

ApplyWithdrawal(w) ==
    /\ Serving(w, "withdrawing")
    /\ alerts' = [alerts EXCEPT ![job[w].fingerprint] =
                     @ \ {job[w].payload.previous}]
    /\ stage' = [stage EXCEPT ![w] = "withdrawn"]
    /\ UNCHANGED <<storeVars, queueVars, anomaly, stray, pollVars, turn, budget>>

WithdrawalReturns(w) ==
    /\ turn = None /\ Serving(w, "withdrawn")
    /\ \/ Actionable(w) /\ AwaitAt(w, "sending")
       \/ ~Actionable(w) /\ End(w)
    /\ UNCHANGED <<storeVars, anomaly, alerts, stray, pollVars, budget>>

ApplyAlert(w) ==
    /\ Serving(w, "sending")
    /\ alerts' = [alerts EXCEPT ![job[w].fingerprint] =
                     @ \cup {job[w].payload.severity}]
    /\ stage' = [stage EXCEPT ![w] = "sent"]
    /\ UNCHANGED <<storeVars, queueVars, anomaly, stray, pollVars, turn, budget>>

(* Variant with a bug: the row is marked before the answer is there.       *)
MarkWhileSending(w) ==
    /\ turn = None /\ (Serving(w, "sending") \/ Serving(w, "sent"))
    /\ Store!MarkEmitted(job[w].fingerprint, job[w].payload.severity,
                         job[w].payload.starts_at)
    /\ End(w)
    /\ UNCHANGED <<changes, anomaly, alerts, stray, pollVars, budget>>

AlertReturns(w) ==
    /\ turn = None /\ Serving(w, "sent")
    /\ Store!MarkEmitted(job[w].fingerprint, job[w].payload.severity,
                         job[w].payload.starts_at)
    /\ End(w)
    /\ UNCHANGED <<changes, anomaly, alerts, stray, pollVars, budget>>

(* The investigation produced no analysis, a delivery failed, or the       *)
(* overall deadline passed: the handler ends and the row is as it was.     *)
Abort(w) ==
    /\ turn = None /\ Fault("abort")
    /\ \E s \in {"investigating", "withdrawing", "sending"} : Serving(w, s)
    /\ End(w)
    /\ UNCHANGED <<storeVars, anomaly, alerts, stray, pollVars>>

(* So it does when the circuit of the LLM or of Alertmanager refuses the   *)
(* call, at the first attempt or, opened meanwhile, at a later one.        *)
Refused(w) ==
    /\ turn = None
    /\ \/ Serving(w, "investigating") /\ Actionable(w)
       \/ Serving(w, "withdrawing") \/ Serving(w, "sending")
    /\ End(w)
    /\ UNCHANGED <<storeVars, anomaly, alerts, stray, pollVars, budget>>

(* The process dies and is started again: the database and Alertmanager    *)
(* keep what they have.                                                    *)
Crash ==
    /\ Fault("crash") /\ Strand(Resolutions \cup Deliveries)
    /\ \A w \in Workers : stage[w] = "sent" => DeliveryOf(w) \in stray'
    /\ changes' = [m \in Minions |-> Store!NoChanges]
    /\ heap' = Store!Nothing /\ inFlight' = {}
    /\ pc' = [w \in Workers |-> "off"] /\ job' = [w \in Workers |-> None]
    /\ stage' = [w \in Workers |-> "none"]
    /\ resolving' = [m \in Minions |-> None]
    /\ answered' = {} /\ turn' = None
    /\ UNCHANGED <<rows, accepting, closing, closer, shutdown, anomaly, alerts>>

-----------------------------------------------------------------------------
(* Requests that the agent gives up: their answer is late or lost, while   *)
(* deliver_alert() tries again or the caller has already turned away.      *)

ResolutionAstray(m) ==
    /\ turn = None /\ resolving[m] # None /\ Fault("astray")
    /\ stray' = stray \cup {ResolutionOf(m)}
    /\ \/ ResolutionEnds(m) /\ UNCHANGED rows
       \/ UNCHANGED <<storeVars, queueVars, anomaly, alerts, stage, pollVars, turn>>

DeliveryAstray(w) ==
    /\ turn = None /\ Delivering(w) /\ Fault("astray")
    /\ stray' = stray \cup {DeliveryOf(w)}
    /\ End(w) \/ UNCHANGED <<queueVars, stage, turn>>
    /\ UNCHANGED <<storeVars, anomaly, alerts, pollVars>>

ApplyStray ==
    /\ \E r \in stray :
          alerts' = [alerts EXCEPT ![r.incident] =
                        IF r.firing THEN @ \cup {r.severity} ELSE @ \ {r.severity}]
    /\ UNCHANGED <<storeVars, queueVars, anomaly, stray, stage, pollVars, turn, budget>>

-----------------------------------------------------------------------------
PollStep(m) ==
    ResolveNext(m) \/ ResolutionReturns(m) \/ EnqueueNext(m) \/ PollEnds(m)

HandlerStep(w) ==
    Begin(w) \/ Investigated(w) \/ WithdrawalReturns(w) \/ AlertReturns(w)

AlertmanagerStep ==
    \/ ApplyStray
    \/ \E m \in Minions : ApplyResolution(m)
    \/ \E w \in Workers : ApplyWithdrawal(w) \/ ApplyAlert(w)

Next ==
    \/ Start \/ PollTimeout \/ Crash \/ AlertmanagerStep
    \/ \E f \in Fingerprints : Alter(f) \/ CooldownElapses(f)
    \/ \E m \in Minions :
          \/ Poll(m) \/ PollStep(m)
          \/ ResolutionFails(m) \/ ResolutionRefused(m) \/ ResolutionAstray(m)
    \/ \E w \in Workers :
          \/ Take(w) \/ Sleep(w) \/ HandlerStep(w)
          \/ Abort(w) \/ Refused(w) \/ DeliveryAstray(w)

(* Time passes, Alertmanager answers every request, the poll loop polls    *)
(* every minion again and again, and the event loop, whose ready tasks     *)
(* form a queue, gives every waiting task its turn in the end.             *)
Fairness ==
    /\ WF_vars(Start)
    /\ \A f \in Fingerprints : WF_vars(CooldownElapses(f))
    /\ \A m \in Minions : /\ WF_vars(ApplyResolution(m))
                          /\ SF_vars(Poll(m)) /\ SF_vars(PollStep(m))
    /\ \A w \in Workers : /\ WF_vars(ApplyWithdrawal(w) \/ ApplyAlert(w))
                          /\ SF_vars(Take(w) \/ Sleep(w))
                          /\ SF_vars(HandlerStep(w))

Spec == Init /\ [][Next]_vars /\ Fairness

-----------------------------------------------------------------------------
(* Properties.                                                             *)

Requests ==
    [incident : Fingerprints, severity : Severities, firing : {TRUE}]
        \cup [incident : Fingerprints, severity : Severities \cup {None}, firing : {FALSE}]

TypeOK ==
    /\ Store!StoreTypeOK
    /\ Queue!QueueTypeOK
    /\ anomaly \in [Fingerprints -> Severities \cup {None}]
    /\ alerts \in [Fingerprints -> SUBSET Severities]
    /\ stage \in [Workers -> {"none", "investigating", "withdrawing",
                              "withdrawn", "sending", "sent"}]
    /\ resolving \in [Minions -> Fingerprints \cup {None}]
    /\ answered \subseteq Minions
    /\ stray \subseteq Requests
    /\ turn \in Minions \cup Workers \cup {None}
    /\ budget \in 0..MaxFaults

(* A job, queued or in the hands of a worker, belongs to the incident that *)
(* is open now: resolving one leaves no investigation of it behind.        *)
JobsAreOfOpenIncidents ==
    /\ \A f \in Queue!pending :
          Store!Active(f) /\ rows[f].starts_at = heap[f].payload.starts_at
    /\ \A w \in Queue!Busy : LET f == job[w].fingerprint IN
          Store!Active(f) /\ rows[f].starts_at = job[w].payload.starts_at

(* A row is marked emitted only for an alert that Alertmanager has, unless *)
(* an earlier withdrawal of the same labels went astray and may be applied *)
(* after it (mark_emitted()).                                              *)
EmittedMeansDelivered ==
    [][\A f \in Fingerprints :
          rows[f] # None /\ rows'[f].emitted \notin {None, rows[f].emitted}
          => \/ rows'[f].emitted \in alerts[f]
             \/ Request(f, rows'[f].emitted, FALSE) \in stray]_vars

(* Whatever closes an incident, the label set delivered last for it is no  *)
(* longer firing (docs/architecture.md: "resolution uses the last          *)
(* successfully emitted label set").                                       *)
ResolutionUsesLastEmitted ==
    \A f \in Fingerprints :
        rows[f] # None /\ rows[f].status = "resolved"
        => rows[f].emitted \notin alerts[f]

(* The circuits of the LLM and of Alertmanager do not refuse for ever.     *)
RefusalsEnd ==
    <>[][/\ \A w \in Workers : ~Refused(w)
         /\ \A m \in Minions : ~ResolutionRefused(m)]_vars

(* No request that the agent has given up is, or has been, applied: those  *)
(* that are may fire without a row that remembers them.                    *)
NothingAstray == [](stray = {})

(* An anomaly that persists is in the end firing with its severity, and    *)
(* with no other, once no circuit refuses any more.                        *)
PersistentAnomalyIsReported ==
    NothingAstray /\ RefusalsEnd =>
        \A f \in Fingerprints, s \in Severities :
            <>[](anomaly[f] = s) => <>[](alerts[f] = {s})

(* An anomaly that is gone for good is in the end resolved everywhere,     *)
(* once no circuit refuses any more.                                       *)
RecoveryIsResolved ==
    NothingAstray /\ RefusalsEnd =>
        \A f \in Fingerprints :
            <>[](anomaly[f] = None) => <>[](alerts[f] = {} /\ ~Store!Active(f))
=============================================================================
