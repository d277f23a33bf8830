------------------------------ MODULE PollCycle ------------------------------
(***************************************************************************)
(* The polling loop of the agent (uyuni_ai_agent/main.py): refresh the     *)
(* inventory, take a snapshot of every minion at once, correlate what was  *)
(* found, reconcile the incident rows of every minion that has a snapshot, *)
(* and report the poll to the health probes; then sleep.  Every call of a  *)
(* snapshot and every login goes through the circuit of its dependency     *)
(* (execute()), and the deadline of a minion or of the cycle cancels what  *)
(* is under way.                                                           *)
(*                                                                         *)
(* A symptom is an anomaly a minion suffers from.  What Prometheus shows   *)
(* is read when the snapshot of the minion begins, what only Salt can tell *)
(* later, so symptoms that come and go are seen or missed side by side.    *)
(* Alerts and their delivery are in IncidentLifecycle; here an incident    *)
(* that reconcile() returns as resolved is closed at once.                 *)
(***************************************************************************)
EXTENDS Naturals, Sequences, FiniteSets

CONSTANTS
    Minions, Maintainer, None, RefreshInterval, Grace, ReadyAge,
    ResolveAfter, Generations, Severities,
    Order,          \* every symptom, in the order detection lists them
    Constant,       \* symptoms that never go away
    Scenarios,      \* what may change and go wrong in a behaviour, and its
                    \* dependency_correlation
    FailureThreshold, RecoveryTimeout,      \* of both circuits
    Interval,       \* polling.interval_seconds, in ticks
    MaxFaults       \* faults of a behaviour

Symptoms == {Order[i] : i \in DOMAIN Order}
Dependencies == {"salt", "prometheus"}

VARIABLES
    systems, last_good, refreshed_age, logged_in, session, stage, answer,
    first_seen,
    last_poll, available, server,
    rows, changes,
    symptoms,       \* what the minions suffer from now
    scenario,
    phase,          \* what the loop is doing
    cycle,          \* cycle_minions
    salt,           \* logged_in of the Salt client
    with_salt,      \* its value when the snapshots of the cycle began
    pc,             \* how far the snapshot of each minion is
    found,          \* the symptoms in it
    complete,       \* the minions whose snapshot lacks nothing so far
    released,       \* the anomalies the correlator let through
    slept,
    budget,
    \* the circuit of "salt" and that of "prometheus"
    salt_state, salt_failures, salt_opened, salt_probing, salt_call,
    prom_state, prom_failures, prom_opened, prom_probing, prom_call

inventoryVars == <<systems, last_good, refreshed_age, logged_in, session, stage, answer>>
readinessVars == <<last_poll, available, server>>
storeVars == <<rows, changes>>
worldVars == <<systems, symptoms, scenario>>
snapshotVars == <<with_salt, pc, found, complete>>
saltCircuitVars == <<salt_state, salt_failures, salt_opened, salt_probing, salt_call>>
promCircuitVars == <<prom_state, prom_failures, prom_opened, prom_probing, prom_call>>
circuitVars == <<saltCircuitVars, promCircuitVars>>
vars == <<inventoryVars, first_seen, readinessVars, storeVars, symptoms, scenario,
          phase, cycle, salt, snapshotVars, released, slept,
          budget, circuitVars>>

Inv == INSTANCE Inventory
Window == INSTANCE DependencyCorrelation
Health == INSTANCE Readiness
SaltCircuit == INSTANCE CircuitBreaker
    WITH Calls <- Minions \cup {Maintainer}, Cancellable <- Minions,
         ExternalReports <- FALSE,
         state <- salt_state, failures <- salt_failures, openedAgo <- salt_opened,
         probing <- salt_probing, call <- salt_call
PromCircuit == INSTANCE CircuitBreaker
    WITH Calls <- Minions, Cancellable <- Minions, ExternalReports <- FALSE,
         state <- prom_state, failures <- prom_failures, openedAgo <- prom_opened,
         probing <- prom_probing, call <- prom_call

(* The symptoms are the two that are correlated; each keeps the severity it *)
(* has, and the resource of saturated workers is a constant of the code.   *)
ASSUME PollAssumption ==
    /\ Constant \subseteq Symptoms
    /\ \A s \in Symptoms :
          /\ s.minion \in Minions /\ s.severity \in Severities
          /\ \/ s.metric = "apache_busy_workers" /\ s.resource = "apache:workers"
             \/ s.metric = "postgres_blocked_transaction"
    /\ \A s, t \in Symptoms : Window!identity_key(s) = Window!identity_key(t) => s = t
    /\ {"warning", "critical"} \subseteq Severities /\ None \notin Severities
    /\ Scenarios \subseteq [unsettled : {"symptoms", "systems", "nothing"},
                            edges : SUBSET (Minions \X Minions),
                            faults : SUBSET {"uyuni", "expire", "prometheus", "salt",
                                             "deadline", "slow", "crash", "stop"},
                            most : 0..MaxFaults]
    /\ Interval \in Nat \ {0} /\ MaxFaults \in Nat
    /\ Maintainer \notin Minions
    /\ FailureThreshold \in Nat \ {0} /\ RecoveryTimeout \in Nat \ {0}
    /\ RefreshInterval \in Nat /\ Grace \in Nat /\ ReadyAge \in Nat \ {0}
    /\ ResolveAfter \in Nat \ {0} /\ Generations \in Nat \ {0}

Chains == {Window!Chain(a, p) : a \in {s \in Symptoms : Window!is_apache(s)},
                                p \in {s \in Symptoms : Window!is_postgres(s)}}
Fingerprints == {Window!identity_key(s) : s \in Symptoms \cup Chains}
MinionOf == [f \in Fingerprints |-> f[1]]

Store == INSTANCE IncidentStore

Init ==
    /\ Inv!InventoryInit /\ systems = Minions
    /\ Window!CorrelationInit /\ Health!ReadinessInit /\ Store!StoreInit
    /\ scenario \in Scenarios
    /\ symptoms = IF scenario.unsettled = "symptoms" THEN Constant ELSE Symptoms
    /\ phase = "starting" /\ cycle = {} /\ salt = FALSE
    /\ with_salt = FALSE /\ pc = [m \in Minions |-> "idle"]
    /\ found = [m \in Minions |-> {}] /\ complete = {} /\ released = {}
    /\ slept = Interval /\ budget = scenario.most
    /\ SaltCircuit!BreakerInit /\ PromCircuit!BreakerInit

Fault(kind) == kind \in scenario.faults /\ budget > 0 /\ budget' = budget - 1

-----------------------------------------------------------------------------
(* The world.  What is not looked at need not change: the symptoms change  *)
(* while snapshots are taken, the registered systems during a refresh.     *)

Alter(s) ==
    /\ scenario.unsettled = "symptoms" /\ phase = "detecting" /\ s \notin Constant
    /\ symptoms' \in {symptoms \cup {s}, symptoms \ {s}}
    /\ UNCHANGED <<inventoryVars, first_seen, readinessVars, storeVars, scenario,
                   phase, cycle, salt, snapshotVars,
                   released, slept, budget, circuitVars>>

Register(m) ==
    /\ scenario.unsettled = "systems" /\ phase = "refreshing" /\ Inv!Register(m)
    /\ UNCHANGED <<first_seen, readinessVars, storeVars, symptoms, scenario,
                   phase, cycle, salt, snapshotVars,
                   released, slept, budget, circuitVars>>

ExpireSession ==
    /\ Fault("expire") /\ Inv!Expire
    /\ UNCHANGED <<first_seen, readinessVars, storeVars, symptoms, scenario,
                   phase, cycle, salt, snapshotVars,
                   released, slept, circuitVars>>

(* One interval of sleep, or a cycle that takes as long.                   *)
Tick ==
    /\ \/ phase = "sleeping" /\ slept < Interval /\ slept' = slept + 1 /\ UNCHANGED budget
       \/ phase \in {"refreshing", "detecting"} /\ Fault("slow") /\ UNCHANGED slept
    /\ refreshed_age' = Inv!Older(refreshed_age, RefreshInterval)
    /\ Window!CandidatesAge /\ Health!PollAges
    /\ UNCHANGED <<systems, last_good, logged_in, session, stage, answer,
                   available, server, storeVars, symptoms, scenario,
                   phase, cycle, salt, snapshotVars, released, circuitVars>>

(* The clocks of the circuits.                                             *)
CircuitsAge ==
    /\ \/ SaltCircuit!Tick /\ UNCHANGED promCircuitVars
       \/ PromCircuit!Tick /\ UNCHANGED saltCircuitVars
    /\ UNCHANGED <<inventoryVars, first_seen, readinessVars, storeVars, symptoms,
                   scenario, phase, cycle, salt, snapshotVars, released, slept, budget>>

-----------------------------------------------------------------------------
(* Start and end of the process.                                           *)

(* execute() for the login of the maintainer: a refusal by the circuit is  *)
(* an outcome of the dependency as well.                                   *)
AskLogin ==
    /\ SaltCircuit!Acquire(Maintainer)
    /\ available' = IF salt_call'[Maintainer] = "idle"
                    THEN Health!after_operation(<<"salt", FALSE>>) ELSE available
    /\ UNCHANGED <<last_poll, promCircuitVars>>

(* run() starts the health probes and the maintainer of the Salt session.  *)
Start ==
    /\ phase = "starting" /\ AskLogin /\ server' = "listening"
    /\ UNCHANGED <<inventoryVars, first_seen, storeVars, symptoms, scenario,
                   phase, cycle, salt, snapshotVars, released, slept, budget>>

(* maintain_salt_session() logs in whenever the flag is down.              *)
MaintainSalt ==
    /\ phase \notin {"starting", "stopped"} /\ ~salt
    /\ AskLogin /\ UNCHANGED server
    /\ UNCHANGED <<inventoryVars, first_seen, storeVars, symptoms, scenario,
                   phase, cycle, salt, snapshotVars, released, slept, budget>>

(* The polls begin after the first attempt, whatever came of it.           *)
LoginEnds ==
    /\ phase # "stopped"
    /\ \/ /\ SaltCircuit!Succeed(Maintainer) /\ salt' = TRUE
          /\ Health!record_dependency("salt", TRUE) /\ UNCHANGED budget
       \/ /\ Fault("salt") /\ SaltCircuit!Fail(Maintainer) /\ salt' = FALSE
          /\ Health!record_dependency("salt", FALSE)
    /\ phase' = IF phase = "starting" THEN "sleeping" ELSE phase
    /\ UNCHANGED <<inventoryVars, first_seen, storeVars, symptoms, scenario,
                   cycle, snapshotVars, released, slept, promCircuitVars>>

NoSnapshots ==
    /\ pc' = [m \in Minions |-> "idle"] /\ found' = [m \in Minions |-> {}]
    /\ complete' = {} /\ released' = {}

(* SIGTERM ends the sleep; the finally block of run() takes the health     *)
(* probes down before it drains the queue.                                 *)
Terminate ==
    /\ phase = "sleeping" /\ Fault("stop")
    /\ phase' = "stopped" /\ Health!mark_stopping
    /\ UNCHANGED <<inventoryVars, first_seen, storeVars, symptoms, scenario,
                   cycle, salt, snapshotVars, released, slept, circuitVars>>

(* systemd starts the agent again: the rows are all that is left.          *)
Restart ==
    /\ \/ phase = "stopped" /\ UNCHANGED budget
       \/ phase \notin {"starting", "stopped"} /\ Fault("crash")
    /\ phase' = "starting" /\ cycle' = {} /\ salt' = FALSE
    /\ last_good' = None /\ refreshed_age' = RefreshInterval
    /\ logged_in' = FALSE /\ session' = FALSE /\ Inv!Idle
    /\ first_seen' = [k \in {} |-> 0]
    /\ last_poll' = None /\ available' = {} /\ server' = "off"
    /\ changes' = [m \in Minions |-> Store!NoChanges]
    /\ with_salt' = FALSE /\ NoSnapshots
    /\ slept' = Interval
    /\ SaltCircuit!Renew /\ PromCircuit!Renew
    /\ UNCHANGED <<worldVars, rows>>

-----------------------------------------------------------------------------
(* One poll.                                                               *)

(* The minions of this cycle, who are also the targets Salt is allowed.    *)
Begin(minions) ==
    /\ phase' = "detecting"
    /\ cycle' = minions
    /\ with_salt' = salt
    /\ pc' = [m \in Minions |-> IF m \in minions THEN "ingesting" ELSE "idle"]
    /\ found' = [m \in Minions |-> {}] /\ complete' = minions

Wake ==
    /\ phase = "sleeping" /\ slept = Interval
    /\ \/ Inv!Cached /\ Begin(last_good) /\ UNCHANGED <<inventoryVars>>
       \/ /\ Inv!StartRefresh /\ phase' = "refreshing"
          /\ UNCHANGED <<cycle, snapshotVars>>
    /\ UNCHANGED <<first_seen, readinessVars, storeVars, symptoms, scenario,
                   salt, released, slept, budget, circuitVars>>

(* The requests run side by side.  Steps that do not touch what another    *)
(* request reads are taken in one order: Prometheus last, and one by one   *)
(* where the systems do not change.                                        *)
Before(r) ==
    CASE r = "targets" -> Inv!UyuniRequests
      [] r = "getMinionIdMap" /\ scenario.unsettled # "systems" -> {"listActiveSystems"}
      [] OTHER -> {}

RefreshStep(r) ==
    /\ phase = "refreshing"
    /\ \A q \in Before(r) : stage[q] \in {"done", "failed"}
    /\ \/ Inv!RequestStep(r) /\ UNCHANGED budget
       \/ Fault("uyuni") /\ Inv!RequestFails(r)
    /\ UNCHANGED <<first_seen, readinessVars, storeVars, symptoms, scenario,
                   phase, cycle, salt, snapshotVars,
                   released, slept, circuitVars>>

Sleep == phase' = "sleeping" /\ slept' = 0

(* A failed refresh falls back on the last list; without one the poll      *)
(* fails with no minion at all.                                            *)
RefreshEnds ==
    /\ phase = "refreshing"
    /\ \/ /\ Inv!RefreshSucceeds /\ Begin(Inv!Discovered)
          /\ UNCHANGED <<readinessVars, slept>>
       \/ /\ Inv!RefreshFails /\ last_good # None /\ Begin(last_good)
          /\ UNCHANGED <<readinessVars, slept>>
       \/ /\ Inv!RefreshFails /\ last_good = None /\ Sleep
          /\ Health!record_poll(0)
          /\ UNCHANGED <<cycle, snapshotVars>>
    /\ UNCHANGED <<first_seen, storeVars, symptoms, scenario, salt,
                   released, budget, circuitVars>>

-----------------------------------------------------------------------------
(* The snapshot of one minion: detect_minion().                            *)

FromMetrics(m) == {s \in symptoms : s.minion = m /\ s.metric = "apache_busy_workers"}
FromSalt(m) == {s \in symptoms : s.minion = m /\ s.metric = "postgres_blocked_transaction"}
has_postgres(m) ==
    \E s \in Symptoms : s.minion = m /\ s.metric = "postgres_blocked_transaction"

AtStage(m, s) == phase = "detecting" /\ pc[m] = s
Reach(m, s) == pc' = [pc EXCEPT ![m] = s]
Lacks(m) == complete' = complete \ {m}

(* execute("prometheus"): refused by the circuit, the snapshot is lost.    *)
AskMetrics(m) ==
    /\ AtStage(m, "ingesting") /\ PromCircuit!Acquire(m)
    /\ IF prom_call'[m] = "idle"
       THEN Health!record_dependency("prometheus", FALSE) /\ Reach(m, "lost") /\ Lacks(m)
       ELSE UNCHANGED <<readinessVars, pc, complete>>
    /\ UNCHANGED <<inventoryVars, first_seen, storeVars, symptoms, scenario, phase,
                   cycle, salt, with_salt, found, released, slept, budget,
                   saltCircuitVars>>

(* Prometheus answers, answers nothing usable, or not at all.              *)
Ingest(m) ==
    /\ AtStage(m, "ingesting")
    /\ \/ /\ PromCircuit!Succeed(m) /\ Health!record_dependency("prometheus", TRUE)
          /\ found' = [found EXCEPT ![m] = FromMetrics(m)]
          /\ Reach(m, "inspecting") /\ UNCHANGED <<complete, budget>>
       \/ /\ Fault("prometheus") /\ PromCircuit!Fail(m)
          /\ Health!record_dependency("prometheus", FALSE)
          /\ \E s \in {"inspecting", "lost"} : Reach(m, s)
          /\ Lacks(m) /\ UNCHANGED found
    /\ UNCHANGED <<inventoryVars, first_seen, storeVars, symptoms, scenario,
                   phase, cycle, salt, with_salt, released, slept, saltCircuitVars>>

Reports(m, s) == IF s = "locks" THEN FromSalt(m) ELSE {}

(* The services, then the locks of a PostgreSQL minion.  A call that fails *)
(* leaves a gap, and when the transport failed, the session flag down; one *)
(* that times out loses the whole snapshot.                                *)
After(m, s) == IF s = "inspecting" /\ has_postgres(m) THEN "locks" ELSE "done"

(* execute("salt"): a refusal is a gap too, and lowers the flag.           *)
AskSalt(m, s) ==
    /\ s \in {"inspecting", "locks"} /\ AtStage(m, s) /\ with_salt
    /\ SaltCircuit!Acquire(m)
    /\ IF salt_call'[m] = "idle"
       THEN /\ Health!record_dependency("salt", FALSE) /\ salt' = FALSE
            /\ Reach(m, After(m, s)) /\ Lacks(m)
       ELSE UNCHANGED <<readinessVars, salt, pc, complete>>
    /\ UNCHANGED <<inventoryVars, first_seen, storeVars, symptoms, scenario, phase,
                   cycle, with_salt, found, released, slept, budget, promCircuitVars>>

Inspect(m, s) ==
    /\ s \in {"inspecting", "locks"} /\ AtStage(m, s)
    /\ \/ /\ SaltCircuit!Succeed(m) /\ Health!record_dependency("salt", TRUE)
          /\ found' = [found EXCEPT ![m] = @ \cup Reports(m, s)]
          /\ Reach(m, After(m, s)) /\ UNCHANGED <<complete, salt, budget>>
       \/ /\ Fault("salt") /\ SaltCircuit!Fail(m)
          /\ Health!record_dependency("salt", FALSE)
          /\ \/ Reach(m, After(m, s)) /\ salt' \in {salt, FALSE}
             \/ Reach(m, "lost") /\ UNCHANGED salt
          /\ Lacks(m) /\ UNCHANGED found
    /\ UNCHANGED <<inventoryVars, first_seen, storeVars, symptoms, scenario,
                   phase, cycle, with_salt, released, slept, promCircuitVars>>

WithoutSalt(m) ==
    /\ AtStage(m, "inspecting") /\ ~with_salt
    /\ Reach(m, "done") /\ Lacks(m)
    /\ UNCHANGED <<inventoryVars, first_seen, readinessVars, storeVars, symptoms,
                   scenario, phase, cycle, salt, with_salt, found,
                   released, slept, budget, circuitVars>>

(* A deadline cancels execute(), which re-raises: what it was waiting for  *)
(* is reported to nobody, and the flag of a probe stays up.                *)
CancelCalls(minions) ==
    /\ salt_call' = [c \in DOMAIN salt_call |-> IF c \in minions THEN "idle"
                                                               ELSE salt_call[c]]
    /\ prom_call' = [c \in Minions |-> IF c \in minions THEN "idle" ELSE prom_call[c]]
    /\ UNCHANGED <<salt_state, salt_failures, salt_opened, salt_probing,
                   prom_state, prom_failures, prom_opened, prom_probing>>

(* minion_seconds are over.                                                *)
MinionTimeout(m) ==
    /\ phase = "detecting" /\ pc[m] \in {"ingesting", "inspecting", "locks"}
    /\ Fault("deadline") /\ CancelCalls({m})
    /\ Reach(m, "lost") /\ Lacks(m)
    /\ UNCHANGED <<inventoryVars, first_seen, readinessVars, storeVars, symptoms,
                   scenario, phase, cycle, salt, with_salt, found,
                   released, slept>>

-----------------------------------------------------------------------------
(* What becomes of the snapshots: execute_poll_cycle().                    *)

Snapshots == {m \in cycle : pc[m] = "done"}

CycleAnomalies == UNION {found[m] : m \in Snapshots}

Correlate ==
    /\ phase = "detecting" /\ \A m \in cycle : pc[m] \in {"done", "lost"}
    /\ phase' = "reconciling"
    /\ Window!Correlate(CycleAnomalies, scenario.edges)
    /\ released' = Window!Released(CycleAnomalies, scenario.edges)
    /\ UNCHANGED <<inventoryVars, readinessVars, storeVars, symptoms, scenario,
                   cycle, salt, snapshotVars, slept, budget, circuitVars>>

Seen(m) ==
    LET mine == {a \in released : a.minion = m}
    IN  [f \in {Window!identity_key(a) : a \in mine} |->
            (CHOOSE a \in mine : Window!identity_key(a) = f).severity]

Reconcile(m) ==
    /\ phase = "reconciling" /\ m \in Snapshots
    /\ Store!Reconcile(m, Seen(m))
    /\ Reach(m, "reconciled")
    /\ UNCHANGED <<inventoryVars, first_seen, readinessVars, symptoms, scenario,
                   phase, cycle, salt, with_salt, found,
                   complete, released, slept, budget, circuitVars>>

Close(m, f) ==
    /\ phase = "reconciling" /\ f \in DOMAIN changes[m].resolved
    /\ Store!MarkResolved(f)
    /\ changes' = [changes EXCEPT ![m].resolved =
          [g \in DOMAIN @ \ {f} |-> changes[m].resolved[g]]]
    /\ UNCHANGED <<inventoryVars, first_seen, readinessVars, symptoms, scenario,
                   phase, cycle, salt, snapshotVars, released,
                   slept, budget, circuitVars>>

Forget == changes' = [m \in Minions |-> Store!NoChanges] /\ NoSnapshots

EndOfCycle ==
    /\ phase = "reconciling" /\ Snapshots = {}
    /\ \A m \in Minions : changes[m].resolved = Store!Nothing
    /\ Health!record_poll(Cardinality(complete))
    /\ Sleep /\ Forget
    /\ UNCHANGED <<inventoryVars, first_seen, rows, symptoms, scenario,
                   cycle, salt, with_salt, budget, circuitVars>>

(* poll_cycle_seconds are over: what is left of the cycle is cancelled, and *)
(* no minion counts as polled.                                             *)
PollTimeout ==
    /\ phase \in {"detecting", "reconciling"} /\ Fault("deadline")
    /\ CancelCalls(Minions) /\ Health!record_poll(0)
    /\ Sleep /\ Forget
    /\ UNCHANGED <<inventoryVars, first_seen, rows, symptoms, scenario,
                   cycle, salt, with_salt>>

-----------------------------------------------------------------------------
SnapshotStep(m) ==
    \/ AskMetrics(m) \/ Ingest(m) \/ WithoutSalt(m)
    \/ \E s \in {"inspecting", "locks"} : AskSalt(m, s) \/ Inspect(m, s)

Next ==
    \/ \E s \in Symptoms : Alter(s)
    \/ \E m \in Minions : Register(m)
    \/ ExpireSession \/ Tick \/ CircuitsAge \/ Terminate \/ Restart
    \/ Start \/ MaintainSalt \/ LoginEnds
    \/ Wake \/ RefreshEnds \/ \E r \in Inv!Requests : RefreshStep(r)
    \/ \E m \in Minions : SnapshotStep(m) \/ MinionTimeout(m) \/ Reconcile(m)
    \/ Correlate \/ EndOfCycle \/ PollTimeout
    \/ \E m \in Minions, f \in Fingerprints : Close(m, f)

(* Time passes and every task that is ready runs; nothing makes the world  *)
(* change or a fault happen.                                               *)
Fairness ==
    /\ WF_vars(Tick) /\ WF_vars(CircuitsAge)
    /\ WF_vars(Start) /\ WF_vars(MaintainSalt) /\ WF_vars(LoginEnds)
    /\ WF_vars(phase = "stopped" /\ Restart)
    /\ WF_vars(Wake) /\ WF_vars(RefreshEnds)
    /\ \A r \in Inv!Requests : WF_vars(RefreshStep(r))
    /\ \A m \in Minions : WF_vars(SnapshotStep(m)) /\ WF_vars(Reconcile(m))
    /\ WF_vars(Correlate) /\ WF_vars(EndOfCycle)
    /\ \A m \in Minions, f \in Fingerprints : WF_vars(Close(m, f))

Spec == Init /\ [][Next]_vars /\ Fairness

-----------------------------------------------------------------------------
(* Properties.                                                             *)

TypeOK ==
    /\ Inv!InventoryTypeOK /\ Health!ReadinessTypeOK /\ Store!StoreTypeOK
    /\ symptoms \subseteq Symptoms /\ scenario \in Scenarios
    /\ phase \in {"starting", "sleeping", "refreshing", "detecting",
                  "reconciling", "stopped"}
    /\ cycle \subseteq Minions
    /\ pc \in [Minions -> {"idle", "ingesting", "inspecting", "locks", "done",
                           "lost", "reconciled"}]
    /\ \A k \in DOMAIN first_seen : k \in Fingerprints /\ first_seen[k] \in 0..Grace
    /\ complete \subseteq Minions /\ released \subseteq Symptoms \cup Chains
    /\ slept \in 0..Interval /\ budget \in 0..MaxFaults
    /\ SaltCircuit!BreakerTypeOK /\ PromCircuit!BreakerTypeOK

Open(f) == Store!Active(f)
Confirmed(f) == Open(f) /\ rows[f].absent = 0

(* The rows of a minion change only in a cycle that polls the minion and   *)
(* has its snapshot: nothing is counted as absent because its minion was   *)
(* removed, timed out or was lost (reconcile() is called per snapshot).    *)
OnlyPolledMinionsChange ==
    [][\A f \in Fingerprints : rows'[f] # rows[f] =>
          /\ phase = "reconciling" /\ MinionOf[f] \in cycle
          /\ pc[MinionOf[f]] \in {"done", "reconciled"}]_rows

(* A chain is only opened along a configured edge, or within one minion    *)
(* (correlate_dependency_anomalies()).                                     *)
ChainNeedsEdge ==
    \A c \in Chains : Open(Window!identity_key(c)) =>
        c.minion = c.resource[1] \/ <<c.resource[1], c.minion>> \in scenario.edges

(* One fault of Apache is not reported twice: as a chain and on its own.   *)
ChainReplacesSymptom ==
    \A c \in Chains, s \in Symptoms :
        /\ Window!is_apache(s) /\ s.minion = c.minion
        /\ Confirmed(Window!identity_key(c))
        => ~Confirmed(Window!identity_key(s))

(* When the registered systems stop changing, the agent polls just those:  *)
(* whatever expired, failed or crashed, a refresh succeeds in the end, and *)
(* the cached list is not served for ever (refresh(), _get()).             *)
InventoryCatchesUp ==
    []<><<systems' # systems>>_systems \/ <>[](cycle = systems)

Accounted(s) ==
    \/ Open(Window!identity_key(s))
    \/ \E c \in Chains : /\ Open(Window!identity_key(c))
                         /\ s.minion \in {c.minion, c.resource[1]}

(* A circuit refuses all its callers, for the flag of a probe that a       *)
(* deadline has cancelled.                                                 *)
ShutOut == SaltCircuit!ProbeLost \/ PromCircuit!ProbeLost

(* A symptom that stays is reported again and again, on its own or in a    *)
(* chain: holding candidates back never silences one for good, whatever    *)
(* its counterpart does (DependencyCorrelationWindow), unless the agent can*)
(* no longer look because a circuit is shut for good.                      *)
PersistentSymptomIsOpen ==
    \A s \in Symptoms :
        <>[](s \in symptoms /\ s.minion \in systems) => []<>Accounted(s) \/ <>[]ShutOut

(* What was reported and has never gone away stays reported, on its own or *)
(* in a chain.                                                             *)
FailingSymptomStaysOpen ==
    [][\A s \in Constant : Accounted(s) => Accounted(s)']_rows

(* Readiness returns for good once some system stays registered and the    *)
(* faults are over, whichever operation failed last and whoever reported   *)
(* it, unless a deadline cancelled the probe of a circuit: then, and only  *)
(* then, that circuit may stay shut (ready, record_poll(),                 *)
(* record_dependency(), execute()).                                        *)
ReadyRecovers ==
    \A m \in Minions : <>[](m \in systems) => <>[]Health!Ready \/ <>[]ShutOut
=============================================================================
